--------------------------- MODULE BrowserRecovery ---------------------------
(***************************************************************************)
(* The reconnect controller of the browser (terminal/browserRecovery.ts):  *)
(* one bounded episode of automatic reconnects that the adapter's state    *)
(* changes, a timer and the page's lifecycle events all feed.              *)
(*                                                                         *)
(* The page runs on one thread, so a handler is a function from the page   *)
(* before it to the page after it.  `page` is a record; this module reads  *)
(* the adapter's part of it (TerminalAdapter) and changes its own:         *)
(*   attempts, stopped, timer, disposed   the controller's variables       *)
(*   hidden                               pageHidden                       *)
(*   shown         document.visibilityState is "visible" and the browser   *)
(*                 is online                                               *)
(***************************************************************************)
EXTENDS Naturals

CONSTANT MaxAttempts   \* DELAYS.length

Visible(page) == ~page.hidden /\ page.shown

Eligible(page) ==
  \/ page.state = "detached"
  \/ /\ page.state = "error"
     /\ page.failureCause \/ page.errorCode = "SESSION_REOPEN_REJECTED"

(* Whether the timer may be set, and whether it may act when it fires.     *)
MayReconnect(page) == ~page.disposed /\ ~page.stopped /\ Visible(page) /\ Eligible(page)

Cancel(page) == [page EXCEPT !.timer = FALSE]

(* Mutants of Schedule: only a page that was connected is taken back, and  *)
(* an episode has no end.                                                  *)
ScheduleDetachedOnly(page) ==
  IF MayReconnect(page) /\ page.state = "detached" /\ page.attempts < MaxAttempts
  THEN [page EXCEPT !.timer = TRUE] ELSE page

ScheduleForever(page) == IF MayReconnect(page) THEN [page EXCEPT !.timer = TRUE] ELSE page

Schedule(page) ==
  IF MayReconnect(page) /\ page.attempts < MaxAttempts
  THEN [page EXCEPT !.timer = TRUE] ELSE page

(* stop() and manual(), for the shell.                                     *)
Stop(page) == [page EXCEPT !.stopped = TRUE, !.timer = FALSE]
Manual(page) == [page EXCEPT !.stopped = FALSE, !.attempts = 1, !.timer = FALSE]

(* The subscriber's answer to "connected": it keeps the connection, or has *)
(* to let go of it at once.  After dispose() nobody listens.               *)
Keeps(page) == page.disposed \/ (~page.stopped /\ Visible(page))

Succeeded(page) ==
  IF page.disposed THEN page
  ELSE [page EXCEPT !.attempts = 0, !.stopped = FALSE, !.timer = FALSE]

(* The states from which visibility() and pagehide() release.  A pairing   *)
(* survives a glance at another tab; leaving the page ends it.             *)
ReleasedWhenHidden ==
  {"connected", "connecting", "reconnecting", "authenticating", "opening",
   "replaying", "detaching"}

ReleasedOnLeaving == ReleasedWhenHidden \cup {"pairing"}

=============================================================================
