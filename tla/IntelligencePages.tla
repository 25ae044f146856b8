------------------------- MODULE IntelligencePages -------------------------
(***************************************************************************)
(* A page that shows what the private host knows: the history page, the    *)
(* account page, the privacy page with its export                          *)
(* (components/IntelligencePage.tsx, intelligence/export.ts) or the panel  *)
(* beside the terminal (components/IntelligencePanel.tsx), each with a     *)
(* client of its own (IntelligenceClient).                                 *)
(*                                                                         *)
(* The host answers the requests of one socket one by one.  Its session    *)
(* belongs to the device: what another tab does, or its expiry, replaces   *)
(* the session under this page.  React shows a page's state some time      *)
(* after it is set, and runs the effects only then (Renders).              *)
(***************************************************************************)
EXTENDS IntelligenceClient

CONSTANTS
  Pages,         \* kinds of page looked at
  MaxOpens,      \* attempts to open a socket
  MaxSessions,   \* sessions the host goes through
  MaxExportPages,\* pages of an export
  MaxLate        \* answers awaited after their time-out
                 \* the last four bound the model

Kinds == {"history", "account", "privacy", "panel"}

ASSUME IntelligenceAssumption ==
  /\ {MaxPending, MaxRetries, MaxOpens, MaxExportPages, MaxLate} \subseteq Nat
  /\ MaxSessions \in Nat \ {0}
  /\ Pages \subseteq Kinds

VARIABLES
  tab,        \* the page and its client
  session     \* the host's present session for this device

vars == <<tab, session>>

-----------------------------------------------------------------------------
(* view: set by the hook; shown: what React last rendered.  rows: whose    *)
(* history the page holds (read) and the session it was asked for (for);   *)
(* items: whose recommendations the panel holds.  file: the last export    *)
(* handed to the user.  auto: the panel's own first question is due.       *)

NoRows == [read |-> 0, for |-> 0]

Fresh(kind) ==
  [kind |-> kind, disposed |-> FALSE, born |-> 0, generation |-> 0, attempts |-> 0,
   retry |-> FALSE, state |-> "disconnected", socket |-> 0, phase |-> "challenge",
   loads |-> {}, signing |-> {}, live |-> {}, line |-> <<>>,
   view |-> View("disconnected", 0), shown |-> View("disconnected", 0),
   refreshing |-> FALSE, busy |-> FALSE, rows |-> NoRows, items |-> 0,
   export |-> NoExport, file |-> NoExport, auto |-> FALSE, connected |-> FALSE]

Init ==
  /\ session = 1
  /\ \E kind \in Pages : tab = Connect(Fresh(kind))

-----------------------------------------------------------------------------
(* What a page makes of an answer.                                         *)

(* A question of the panel takes the place of the one before it.           *)
Retrieve(t) ==
  Request([t EXCEPT !.line = Fenced(@, {"retrieve"}), !.busy = TRUE, !.items = 0], "retrieve", 0)

IsCurrent(t) == t.shown.session = t.export.owner

(* A page of the export is in: it and every one before it must be of the   *)
(* session that was on show when the user asked, which must be so still.   *)
PageAcceptedUnread(t, answer) == IsCurrent(t)   \* mutant: does not look whose page it is

PageAccepted(t, answer) == IsCurrent(t) /\ answer.session = t.export.owner

ExportPage(t, e) ==
  LET kept == [t EXCEPT !.export.read = @ \cup {e.answer.session}, !.export.pages = @ + 1]
  IN  IF ~PageAccepted(t, e.answer) THEN Rejected(t, {e})
      ELSE Request(kept, IF e.answer.more THEN "export" ELSE "check", 0)

ExportEnds(t, e) ==
  IF PageAccepted(t, e.answer)
  THEN [t EXCEPT !.file = t.export, !.export = NoExport, !.busy = FALSE]
  ELSE Rejected(t, {e})

Resolved(t, e) ==
  LET read == e.answer.session
      over == [t EXCEPT !.busy = @ /\ ~EndsBusy(e)]
  IN  CASE e.use = "refresh"  -> [t EXCEPT !.refreshing = FALSE, !.view = View("ready", read)]
        [] e.use = "load"     -> IF e.active THEN [t EXCEPT !.rows = [read |-> read, for |-> e.for]] ELSE t
        [] e.use = "filter"   -> [over EXCEPT !.rows.read = read]
        [] e.use = "delete"   -> [over EXCEPT !.rows.read = 0]
        [] e.use = "account"  -> [over EXCEPT !.view.session = read]
        [] e.use = "export"   -> ExportPage(t, e)
        [] e.use = "check"    -> ExportEnds(t, e)
        [] e.use = "retrieve" -> IF e.active THEN [over EXCEPT !.items = read] ELSE t
        [] e.use = "command"  -> IF e.active /\ e.answer.more THEN Retrieve(t) ELSE t
        [] e.use = "record"   -> t

(* History is on show once it was asked for in the session on show.        *)
DisplayedAlways(t) == TRUE   \* mutant: whatever the page holds is on show

Displayed(t) == t.rows.for = t.shown.session

-----------------------------------------------------------------------------
(* React renders and runs the effects whose inputs changed.                *)

LoadEffect(t) ==
  LET left == [t EXCEPT !.line = Fenced(@, {"load"})]
  IN  IF t.shown.state = "ready" THEN Request(left, "load", t.shown.session) ELSE left

(* The panel's content is made anew for every session.                     *)
Remounted(t, was) ==
  IF t.shown.session = was.session THEN t
  ELSE [t EXCEPT !.line = Fenced(@, {"retrieve", "command"}), !.items = 0, !.busy = FALSE]

AutoEffect(t) ==
  [t EXCEPT !.line = Fenced(@, {"retrieve"}),
            !.auto = t.shown.state = "ready" /\ t.shown.session # 0]

TerminalEffect(t, analytics) ==
  LET paired == IF t.connected /\ t.shown.state = "pairing-required" THEN Connect(t) ELSE t
  IN  IF t.shown.state = "ready" /\ t.shown.session # 0 /\ analytics
      THEN Request(paired, "record", 0) ELSE paired

Rendered(t, analytics) ==
  LET shows == [t EXCEPT !.shown = t.view]
  IN  CASE t.kind = "history" -> LoadEffect(shows)
        [] t.kind = "panel"   -> TerminalEffect(AutoEffect(Remounted(shows, t.shown)), analytics)
        [] OTHER              -> shows

Renders ==
  /\ ~tab.disposed
  /\ tab.shown # tab.view
  /\ tab.view.state = "pairing-required" => tab.generation < MaxOpens
  /\ \E analytics \in BOOLEAN : tab' = Rendered(tab, analytics)
  /\ UNCHANGED session

(* The terminal beside the panel connects or loses its connection.         *)
TerminalChanges ==
  /\ ~tab.disposed
  /\ tab.kind = "panel"
  /\ tab.generation < MaxOpens
  /\ \E analytics \in BOOLEAN : tab' = TerminalEffect([tab EXCEPT !.connected = ~@], analytics)
  /\ UNCHANGED session

-----------------------------------------------------------------------------
(* The user.                                                               *)

Shows(kind) ==
  /\ ~tab.disposed
  /\ tab.kind = kind
  /\ tab.shown.state = "ready" /\ tab.shown.session # 0

RetryClicked ==
  /\ ~tab.disposed
  /\ tab.shown.state # "ready"
  /\ tab.generation < MaxOpens
  /\ tab' = Connect(tab)
  /\ UNCHANGED session

Run(kinds, use) ==
  /\ \E kind \in kinds : Shows(kind)
  /\ ~tab.busy
  /\ tab' = Request([tab EXCEPT !.busy = TRUE], use, 0)
  /\ UNCHANGED session

FilterClicked  == Run({"history"}, "filter")
DeleteClicked  == Run({"history"}, "delete")
AccountClicked == Run({"account", "privacy"}, "account")

ExportClicked ==
  /\ Shows("privacy")
  /\ ~tab.busy
  /\ tab' = Request([tab EXCEPT !.busy = TRUE, !.export.owner = tab.shown.session], "export", 0)
  /\ UNCHANGED session

SearchClicked ==
  /\ Shows("panel")
  /\ ~tab.busy
  /\ tab' = Retrieve(tab)
  /\ UNCHANGED session

(* The composer submits to the terminal and records what it submitted.     *)
SubmitClicked ==
  /\ Shows("panel")
  /\ tab.connected
  /\ tab' = Request(tab, "command", 0)
  /\ UNCHANGED session

AutoRetrieves ==
  /\ ~tab.disposed
  /\ tab.auto
  /\ tab' = Retrieve([tab EXCEPT !.auto = FALSE])
  /\ UNCHANGED session

(* The page is left, or the panel is given the endpoint of another profile.*)
Leaves ==
  /\ ~tab.disposed
  /\ tab' = Dispose(tab)
  /\ UNCHANGED session

Switches ==
  /\ ~tab.disposed
  /\ tab.kind = "panel"
  /\ tab.generation < MaxOpens
  /\ session < MaxSessions
  /\ session' = session + 1
  /\ LET old == Dispose(tab)
     IN  tab' = Connect([Fresh("panel") EXCEPT !.born = tab.generation, !.generation = tab.generation,
                                               !.loads = old.loads, !.signing = old.signing,
                                               !.live = old.live, !.connected = tab.connected])

-----------------------------------------------------------------------------
(* The event loop: timers, the credential store, the key, the socket.      *)

RefreshDue ==
  /\ ~tab.disposed /\ ~tab.refreshing /\ tab.state = "ready"
  /\ tab' = Refresh(tab)
  /\ UNCHANGED session

RetryFires ==
  /\ tab.retry
  /\ tab.generation < MaxOpens
  /\ tab' = Open([tab EXCEPT !.retry = FALSE])
  /\ UNCHANGED session

LoadEnds(attempt) ==
  LET t == [tab EXCEPT !.loads = @ \ {attempt}]
  IN  /\ tab' \in IF Loaded(t, attempt)
                  THEN {SocketMade(t, attempt), SetState(t, "pairing-required"), Failed(t)}
                  ELSE {t}
      /\ UNCHANGED session

(* The store fails, for whichever attempt of this client asked.            *)
LoadFails(attempt) ==
  LET t == [tab EXCEPT !.loads = @ \ {attempt}]
  IN  /\ tab' = IF IsOwn(t, attempt) THEN SetState(t, "unavailable") ELSE t
      /\ UNCHANGED session

ChallengeArrives ==
  /\ Listens(tab) /\ tab.phase = "challenge"
  /\ tab' \in {[tab EXCEPT !.phase = "signing", !.signing = @ \cup {tab.socket}], Closing(tab)}
  /\ UNCHANGED session

(* The proof is ready, in time or after the challenge expired.             *)
ProofEnds(socket) ==
  LET t == [tab EXCEPT !.signing = @ \ {socket}]
  IN  /\ tab' \in IF t.disposed \/ t.socket # socket THEN {t}
                  ELSE {[t EXCEPT !.phase = "ready"], Closing(t)}
      /\ UNCHANGED session

ReadyArrives ==
  /\ Listens(tab) /\ tab.phase = "ready"
  /\ tab' = Ready(tab)
  /\ UNCHANGED session

HandshakeTimesOut ==
  /\ Listens(tab) /\ tab.phase # "active"
  /\ tab' = Closing(tab)
  /\ UNCHANGED session

SocketEnds ==
  /\ tab.socket # 0
  /\ tab' = Ended(tab)
  /\ UNCHANGED session

(* A request's 10 s are over: its answer will find nobody.                 *)
RequestTimesOut(i) ==
  /\ Len(tab.line) - Cardinality(Waiting(tab)) < MaxLate
  /\ tab.line[i].waits
  /\ tab' = Rejected([tab EXCEPT !.line[i].waits = FALSE], {tab.line[i]})
  /\ UNCHANGED session

AnswerArrives ==
  /\ Listens(tab) /\ tab.line # <<>>
  /\ LET e == Head(tab.line)
         t == [tab EXCEPT !.line = Tail(@)]
     IN  /\ e.answer # NoAnswer
         /\ tab' = IF ~e.waits THEN t
                   ELSE IF e.answer.kind = "result" THEN Resolved(t, e)
                   ELSE Rejected(t, {e})
  /\ UNCHANGED session

-----------------------------------------------------------------------------
(* The host: one request of a socket after the other, each in one          *)
(* transaction on the session of that moment.  Signing in or out and the   *)
(* deletion of a guest's data replace the session, a change of preferences *)
(* does not.                                                               *)

Unanswered(line) == {i \in DOMAIN line : line[i].answer = NoAnswer}

Unordered(line) == Unanswered(line)   \* mutant: requests of a socket run side by side

Oldest(line) == {i \in Unanswered(line) : \A j \in Unanswered(line) : i <= j}

HostAnswers ==
  /\ Listens(tab)
  /\ \E i \in Oldest(tab.line) :
       \/ tab' = [tab EXCEPT !.line[i].answer = Refused] /\ UNCHANGED session
       \/ /\ tab.line[i].use = "account"
          /\ session' \in {session, session + 1} /\ session' <= MaxSessions
          /\ tab' = [tab EXCEPT !.line[i].answer = Result(session', FALSE)]
       \/ /\ tab.line[i].use # "account"
          /\ \E more \in BOOLEAN :
               /\ more => \/ tab.line[i].use = "command"
                          \/ tab.line[i].use = "export" /\ tab.export.pages + 1 < MaxExportPages
               /\ tab' = [tab EXCEPT !.line[i].answer = Result(session, more)]
          /\ UNCHANGED session

(* Another tab of the device signs in or out, or the session expires.      *)
SessionReplaced ==
  /\ session < MaxSessions
  /\ session' = session + 1
  /\ UNCHANGED tab

-----------------------------------------------------------------------------
Next ==
  \/ Renders \/ TerminalChanges \/ RetryClicked \/ FilterClicked \/ DeleteClicked
  \/ AccountClicked \/ ExportClicked \/ SearchClicked \/ SubmitClicked \/ AutoRetrieves
  \/ Leaves \/ Switches \/ RefreshDue \/ RetryFires
  \/ \E attempt \in tab.loads : LoadEnds(attempt) \/ LoadFails(attempt)
  \/ ChallengeArrives
  \/ \E socket \in tab.signing : ProofEnds(socket)
  \/ ReadyArrives \/ HandshakeTimesOut \/ SocketEnds
  \/ \E i \in DOMAIN tab.line : RequestTimesOut(i)
  \/ AnswerArrives \/ HostAnswers \/ SessionReplaced

Spec == Init /\ [][Next]_vars

-----------------------------------------------------------------------------
SessionOrNone == 0..MaxSessions
Attempts == 1..MaxOpens + 1
ViewType == [state : ClientStates, session : SessionOrNone]
AnswerType == {NoAnswer, Refused} \cup [kind : {"result"}, session : 1..MaxSessions, more : BOOLEAN]

(* The page keeps to its shape: at most MaxPending requests wait, and a    *)
(* client reconnects by itself at most MaxRetries times in a row           *)
(* (client.ts:258, client.ts:267).                                         *)
TypeOK ==
  /\ session \in 1..MaxSessions
  /\ tab.state \in ClientStates /\ tab.phase \in Phases
  /\ {tab.view, tab.shown} \subseteq ViewType
  /\ tab.attempts \in 0..MaxRetries
  /\ tab.loads \cup tab.signing \cup tab.live \subseteq Attempts
  /\ tab.socket \in Attempts \cup {0}
  /\ Cardinality(Waiting(tab)) <= MaxPending
  /\ \A i \in DOMAIN tab.line : tab.line[i].answer \in AnswerType
  /\ tab.rows \in [read : SessionOrNone, for : SessionOrNone]
  /\ tab.items \in SessionOrNone

(* However the retry timer, the Retry button, a slow credential store and  *)
(* a change of profile fall together, the page holds at most one           *)
(* connection to the host, no reconnect is due while there is one, and a   *)
(* page that was left holds none (client.ts open, connect, dispose).       *)
OneConnection ==
  /\ tab.live \subseteq {tab.socket}
  /\ tab.retry => tab.socket = 0
  /\ tab.disposed => tab.live = {} /\ ~tab.retry

(* Nobody waits for an answer that cannot come: a request waits only while *)
(* its socket has not ended, and a busy page or panel waits for a request  *)
(* that will end its being busy (client.ts failed, IntelligencePanel.tsx   *)
(* sequence).                                                              *)
BusyIsWaiting ==
  /\ tab.line # <<>> => tab.socket # 0
  /\ tab.busy => \E i \in Waiting(tab) : EndsBusy(tab.line[i])
  /\ tab.refreshing => \E i \in Waiting(tab) : tab.line[i].use = "refresh"

(* A page never shows, under the session it names, what it read for an     *)
(* earlier one: after a sign-out, nothing of the account before it         *)
(* (IntelligencePage.tsx dataSession, IntelligencePanel.tsx key).          *)
NothingOfEarlierSessions ==
  tab.shown.session # 0 =>
    /\ tab.rows.read # 0 /\ Displayed(tab) => tab.rows.read >= tab.shown.session
    /\ tab.items # 0 => tab.items >= tab.shown.session

(* The session a page has is never replaced by an earlier one, although    *)
(* the hook's refresh and an account request are under way together        *)
(* (useIntelligence.ts refresh, setSession).                               *)
SessionGoesForward ==
  [][tab.view.session # 0 /\ tab'.view.session # 0 => tab'.view.session >= tab.view.session]_vars

(* A file of private data holds the data of one session, the one the page  *)
(* shows as it is handed over, though the host may change the session      *)
(* between any two pages (export.ts collectPrivateExport).                 *)
ExportIsOwn ==
  [][tab'.file # tab.file => /\ tab'.file.read = {tab'.file.owner}
                             /\ tab'.file.owner = tab.shown.session]_vars
=============================================================================
