------------------------- MODULE IntelligenceClient -------------------------
(***************************************************************************)
(* The browser's client of the private intelligence service                *)
(* (intelligence/client.ts) and the hook that gives its state and session  *)
(* to a page (intelligence/useIntelligence.ts), as operators on tab, the   *)
(* record of everything one page of the browser holds.                     *)
(*                                                                         *)
(* A session is the number of the host's application session, which the    *)
(* host counts up whenever it replaces it; 0 is none.  Attempts to open    *)
(* are counted across clients, so that a number names the client, its      *)
(* generation and the socket it may make.                                  *)
(***************************************************************************)
EXTENDS Naturals, Sequences, FiniteSets

CONSTANTS
  MaxPending,    \* requests a client keeps waiting: 5 in the code
  MaxRetries     \* reconnects without a success: 3 in the code

ClientStates == {"disconnected", "connecting", "ready", "unavailable", "pairing-required"}
Phases == {"challenge", "signing", "ready", "active"}

View(state, session) == [state |-> state, session |-> session]

NoAnswer == [kind |-> "none", session |-> 0, more |-> FALSE]
Refused == [kind |-> "error", session |-> 0, more |-> FALSE]
Result(session, more) == [kind |-> "result", session |-> session, more |-> more]

NoExport == [owner |-> 0, read |-> {}, pages |-> 0]

-----------------------------------------------------------------------------
(* tab.line: the requests sent on the current socket, oldest first, with   *)
(* the host's answer as soon as there is one.  waits: its promise is still *)
(* in pending; active: the caller has not fenced it off since.             *)

Waiting(t) == {i \in DOMAIN t.line : t.line[i].waits}

Entry(use, session) ==
  [use |-> use, for |-> session, active |-> TRUE, waits |-> TRUE, answer |-> NoAnswer]

Fenced(line, uses) == [i \in DOMAIN line |-> [line[i] EXCEPT !.active = @ /\ line[i].use \notin uses]]

(* What a button of a page asks for runs alone: busy until it is over.     *)
Runs == {"filter", "delete", "account", "export", "check"}

EndsBusy(e) == e.use \in Runs \/ (e.use = "retrieve" /\ e.active)

(* The promises of the requests es are rejected: the catch and finally of  *)
(* whoever waits for them.                                                 *)
Rejected(t, es) ==
  [t EXCEPT !.refreshing = @ /\ \A e \in es : e.use # "refresh",
            !.view = IF (\E e \in es : e.use = "refresh") /\ ~t.disposed
                     THEN View("unavailable", 0) ELSE @,
            !.busy = @ /\ \A e \in es : ~EndsBusy(e),
            !.export = IF \E e \in es : e.use \in Runs THEN NoExport ELSE @]

MayRequest(t) ==
  /\ t.state = "ready"
  /\ t.socket # 0
  /\ Cardinality(Waiting(t)) < MaxPending

Request(t, use, session) ==
  IF MayRequest(t) THEN [t EXCEPT !.line = Append(@, Entry(use, session))]
  ELSE Rejected(t, {Entry(use, session)})

(* The hook asks for the session again: one question at a time.            *)
Refresh(t) ==
  IF t.disposed \/ t.refreshing \/ t.state # "ready" THEN t
  ELSE Request([t EXCEPT !.refreshing = TRUE], "refresh", 0)

(* A state is announced: the hook forgets the session, and asks for it     *)
(* when the client is ready.                                               *)
SetState(t, state) ==
  LET told == [t EXCEPT !.state = state, !.view = IF t.disposed THEN @ ELSE View(state, 0)]
  IN  IF state = "ready" THEN Refresh(told) ELSE told

-----------------------------------------------------------------------------
(* Connecting.  loads: attempts that wait for the stored credential;       *)
(* signing: sockets whose proof is being computed; live: sockets that      *)
(* have neither ended nor been told to close.                              *)

Open(t) ==
  SetState([t EXCEPT !.generation = @ + 1, !.loads = @ \cup {t.generation + 1}], "connecting")

Connect(t) ==
  IF t.disposed \/ (t.socket # 0 /\ t.state # "ready") THEN t
  ELSE IF t.socket # 0 THEN SetState(t, "ready")
  ELSE Open([t EXCEPT !.retry = FALSE, !.attempts = 0])

FailedUnsaid(t) ==   \* mutant: drops the requests and rejects none
  SetState([t EXCEPT !.line = <<>>], "unavailable")

Failed(t) ==
  LET waiters == {t.line[i] : i \in Waiting(t)}
      rejected == Rejected([t EXCEPT !.line = <<>>], waiters)
      told == SetState(rejected, "unavailable")
  IN  IF t.disposed THEN rejected
      ELSE IF told.attempts < MaxRetries THEN [told EXCEPT !.attempts = @ + 1, !.retry = TRUE]
      ELSE told

(* The attempts of an earlier client have numbers up to t.born.            *)
IsOwn(t, attempt) == attempt > t.born /\ ~t.disposed

LoadedUnguarded(t, attempt) == IsOwn(t, attempt)   \* mutant: any attempt of the client

Loaded(t, attempt) == IsOwn(t, attempt) /\ attempt = t.generation

SocketMade(t, attempt) ==
  [t EXCEPT !.socket = attempt, !.phase = "challenge", !.live = @ \cup {attempt}]

(* close(): nothing is heard of the socket any more but its close event.   *)
Closing(t) == [t EXCEPT !.live = @ \ {t.socket}]

Listens(t) == t.socket # 0 /\ t.socket \in t.live

Ended(t) == Failed([Closing(t) EXCEPT !.socket = 0])

Ready(t) == SetState([t EXCEPT !.phase = "active", !.attempts = 0], "ready")

Dispose(t) ==
  Failed([Closing(t) EXCEPT !.disposed = TRUE, !.generation = @ + 1, !.retry = FALSE, !.socket = 0])
=============================================================================
