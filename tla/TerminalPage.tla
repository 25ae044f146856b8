---------------------------- MODULE TerminalPage ----------------------------
(***************************************************************************)
(* One terminal page: the shell (components/TerminalShell.tsx) and what    *)
(* its user does, the page's lifecycle, the adapter with its controller    *)
(* (TerminalAdapter, BrowserRecovery), and at the other end of the socket  *)
(* an agent that keeps to the contract.                                    *)
(*                                                                         *)
(* Every action is one task of the page's event loop or one step of the    *)
(* agent.  The agent hears a frame as it is sent; what it sends itself is  *)
(* on the wire until the page takes it, so frames of both ends cross.      *)
(***************************************************************************)
EXTENDS TerminalAdapter, FiniteSets

CONSTANTS
  Sessions,      \* session ids
  Credentials,   \* credentials the agent issues
  MaxWire,       \* frames on their way to the page; bounds the model
  MayExpire,     \* whether stored credentials expire and stores fail
  MayDispose     \* whether the shell is ever unmounted

ASSUME PageAssumption ==
  /\ MaxAttempts \in Nat \ {0}
  /\ MaxWire \in Nat \ {0}
  /\ NoWork \notin Works
  /\ NoSession \notin Sessions
  /\ NoCredential \notin Credentials
  /\ {MayExpire, MayDispose} \subseteq BOOLEAN

VARIABLES
  page,      \* see TerminalAdapter; fragment and needsFreshRetry are the shell's
  agent      \* its connection to the page and the sessions it runs

vars == <<page, agent>>

-----------------------------------------------------------------------------
(* The agent.  connection, session: the states of its own tables.  knows:  *)
(* the browser has named a credential.  running: the sessions it keeps.    *)

Offline(a) == [a EXCEPT !.connection = "CLOSED", !.session = "NONE", !.sessionId = NoSession,
                        !.knows = FALSE, !.reason = "none", !.wire = <<>>]

The(states) == CHOOSE state \in states : TRUE

Moves(a, direction, message) ==
  LET connections == NextConnection(a.connection, direction, message)
      sessions == NextSession(a.connection, a.session, direction, message)
  IN  IF connections # {} THEN [a EXCEPT !.connection = The(connections)]
      ELSE IF sessions # {} THEN [a EXCEPT !.session = The(sessions)]
      ELSE a

MaySend(a, message) ==
  \/ NextConnection(a.connection, "agent", message) # {}
  \/ NextSession(a.connection, a.session, "agent", message) # {}

(* The agent hears a frame of the page.                                    *)
Hears(a, message) ==
  LET moved == Moves(a, "client", message)
  IN  CASE message = "hello" -> [moved EXCEPT !.knows = page.credential # NoCredential]
        [] message = "reopen_session" -> [moved EXCEPT !.sessionId = GetSessionId(page)]
        [] OTHER -> moved

(* A task of the page and what the agent heard meanwhile.  It starts when  *)
(* nothing runs, and ends with the connection gone if its socket is.  The  *)
(* shell's newSession() handler ends with it: a rejected one is retried    *)
(* without the fragment if the old locator is gone.                        *)
Runnable == page.inbound # <<>> /\ ~Waiting(page)

Retry(next) ==
  IF page.newSession # "none" /\ next.newSession = "none" /\ next.state # "connected"
  THEN [next EXCEPT !.needsFreshRetry = (GetSessionId(next) = NoSession)]
  ELSE next

Runs(next, heard) ==
  /\ page' = Retry(next)
  /\ agent' = IF SocketIsOpen(next) THEN heard ELSE Offline(heard)

Task(next, heard) == ~Runnable /\ Runs(next, heard)

-----------------------------------------------------------------------------
(* The socket, the store, the proof and the timers.                        *)

SocketOpens(w) ==
  /\ page.readyState[w] = "connecting"
  /\ \/ Task(Opened(page, w), Hears([agent EXCEPT !.connection = "NEW"], "hello"))
     \/ Task(OpenedElse(page, w), agent)

(* The transport breaks: with an error event before the close, or without. *)
SocketBreaks(w) ==
  /\ page.readyState[w] \in {"connecting", "open"}
  /\ \/ Task(Closed(Errored(page, w), w), agent)
     \/ Task(Closed(page, w), agent)

(* The closing handshake ends, whoever began it.                           *)
SocketCloses(w) ==
  /\ page.readyState[w] = "closing"
  /\ Task(Closed(page, w), agent)

(* The agent closes: everything it sent before has arrived.                *)
AgentCloses ==
  /\ SocketIsOpen(page)
  /\ agent.wire = <<>>
  /\ Task(SocketClosing(page), agent)

Finishes(operation, rest) ==
  \/ /\ operation.kind = "load"
     /\ \E next \in Loaded(rest, operation.work) : Task(next, agent)
  \/ /\ operation.kind = "save"
     /\ Task(Saved([rest EXCEPT !.stored = operation.credential],
                   operation.work, operation.credential), agent)

(* Mutant of StoreFinishes: the operations run side by side.               *)
StoreFinishesAny ==
  \E i \in 1..Len(page.operations) :
    Finishes(page.operations[i],
             [page EXCEPT !.operations = SelectSeq(@, LAMBDA op : op # page.operations[i])])

StoreFinishes ==
  /\ page.operations # <<>>
  /\ Finishes(Head(page.operations), Dequeue(page))

(* A load finds the credential expired and deletes it, or the store fails. *)
StoreFails ==
  /\ MayExpire
  /\ page.operations # <<>>
  /\ LET operation == Head(page.operations)
         rest == Dequeue(page)
     IN  \/ /\ operation.kind = "load"
            /\ page.stored # NoCredential
            /\ \E next \in Loaded([rest EXCEPT !.stored = NoCredential], operation.work) :
                 Task(next, agent)
         \/ /\ operation.kind = "load"
            /\ Task(LoadFailed(rest, operation.work), agent)
         \/ /\ operation.kind = "save"
            /\ Task(SaveFailed(rest, operation.work), agent)

ProofFinishes(w) ==
  /\ w \in page.proving
  /\ LET rest == [page EXCEPT !.proving = @ \ {w}]
     IN  \/ Task(Proved(rest, w),
                 IF Current(page, w) THEN Hears(agent, "auth_response") ELSE agent)
         \/ Task(ProvedLate(rest, w), agent)

(* The timers that end in release(): 10 s for the socket to open, no frame *)
(* for the liveness of the heartbeat, the 12 hours of an authorization.    *)
ConnectTimesOut == page.connectTimer /\ Task(Release(page), agent)
HeartbeatStops == page.heartbeatTimer /\ Task(Release(page), agent)
AuthorizationEnds == page.authorizationTimer /\ Task(Release(page), agent)

(* A heartbeat, a resize, keys or a reply to a ping that cannot be sent.   *)
SendFails ==
  /\ page.state = "connected"
  /\ IF SocketIsOpen(page) THEN Task(Fail(page, "BACKPRESSURE_LIMIT"), agent)
     ELSE Task(Release(page), agent)

ReconnectFires ==
  /\ page.timer
  /\ CanConnect(page)
  /\ LET fired == Cancel(page)
     IN  Task(IF MayReconnect(fired)
              THEN Connect([fired EXCEPT !.attempts = @ + 1], GetSessionId(fired))
              ELSE fired, agent)

-----------------------------------------------------------------------------
(* Frames.                                                                 *)

(* What the page answers to a frame at once.                               *)
Answered(a, frame, next) ==
  IF frame.type = "auth_result" /\ next.state = "opening" /\ SocketIsOpen(next)
  THEN Hears(a, OpenOrReopen(page)) ELSE a

(* The next frame arrives: behind the one that is waiting, or for itself.  *)
Arrives ==
  /\ SocketIsOpen(page)
  /\ agent.wire # <<>>
  /\ CanConnect(page)
  /\ LET frame == Head(agent.wire)
         rest == [agent EXCEPT !.wire = Tail(@)]
     IN  IF Waiting(page)
         THEN Task([page EXCEPT !.inbound = Append(@, frame)], rest)
         ELSE LET next == Receive(page, frame) IN Task(next, Answered(rest, frame, next))

(* inboundQueue goes on, before any other task.                            *)
Resumes ==
  /\ Runnable
  /\ CanConnect(page)
  /\ LET frame == Head(page.inbound)
         next == Receive([page EXCEPT !.inbound = Tail(@)], frame)
     IN  Runs(next, Answered(agent, frame, next))

-----------------------------------------------------------------------------
(* The agent's side.                                                       *)

Frame(type, session, detail) == [type |-> type, session |-> session, detail |-> detail]

Unissued == Credentials \ ({page.stored, page.credential}
              \cup {page.operations[i].credential : i \in 1..Len(page.operations)})

UnusedIds == Sessions \ (agent.running \cup {page.sessionId, page.requestedSessionId, page.fragment})

(* Each frame the agent may send next, with the sessions it keeps then.    *)
Says(message) ==
  CASE message = "pairing_result" ->
         {<<Frame(message, NoSession, k), agent.running>> : k \in Unissued}
    [] message = "session_opened" ->
         {<<Frame(message, s, "none"), agent.running \cup {s}>> : s \in UnusedIds}
    [] message = "session_reopened" ->
         {<<Frame(message, s, "none"), agent.running>> : s \in {agent.sessionId} \cap agent.running}
    [] message = "session_closed" ->
         {<<Frame(message, agent.sessionId, reason), agent.running \ {agent.sessionId}>> :
            reason \in {"shell_exit", agent.reason}}
    [] OTHER -> {<<Frame(message, agent.sessionId, "none"), agent.running>>}

(* A challenge answers a credential that the browser has named or been     *)
(* given.  The frames that only show output are one, terminal_output.      *)
AgentSends ==
  /\ ~Runnable
  /\ Len(agent.wire) < MaxWire
  /\ \E message \in Messages \ {"heartbeat", "history_begin", "history_chunk"} :
       /\ MaySend(agent, message)
       /\ message = "auth_challenge" => agent.knows
       /\ \E said \in Says(message) :
            agent' = [Moves(agent, "agent", message) EXCEPT
                        !.wire = Append(@, said[1]),
                        !.sessionId = IF message = "session_opened" THEN said[1].session ELSE @,
                        !.knows = @ \/ message = "pairing_result",
                        !.running = said[2]]
  /\ UNCHANGED page

(* It gives up on the connection: the locator is not one of a session it   *)
(* lets the browser have, a grant has expired, or anything else.           *)
AgentFails ==
  /\ ~Runnable
  /\ agent.connection \notin {"CLOSED", "CLOSING"}
  /\ Len(agent.wire) < MaxWire
  /\ \E code \in {"SESSION_REOPEN_REJECTED", "AUTHORIZATION_EXPIRED", "INTERNAL_ERROR"} :
       /\ code = "SESSION_REOPEN_REJECTED" => agent.session = "REOPENING"
       /\ code = "AUTHORIZATION_EXPIRED" => agent.connection = "READY"
       /\ agent' = [agent EXCEPT !.connection = "CLOSING",
                                 !.wire = Append(@, Frame("error", NoSession, code))]
  /\ UNCHANGED page

(* A session nobody watches ends on the agent.                             *)
SessionDies(s) ==
  /\ ~Runnable
  /\ s \in agent.running \ {agent.sessionId}
  /\ agent' = [agent EXCEPT !.running = @ \ {s}]
  /\ UNCHANGED page

-----------------------------------------------------------------------------
(* The shell: each button where it is shown and enabled.                   *)

(* A page that is not shown may merely be offline, and is then still used. *)
InUse == ~page.disposed /\ ~page.hidden

(* connect(): Connect, Reconnect and Retry, all for the fragment's session *)
(* unless a New Session is to be tried again.                              *)
ConnectClicked ==
  /\ InUse
  /\ page.state \in Idle
  /\ CanConnect(page)
  /\ Task(Connect(Manual(page), IF page.needsFreshRetry THEN NoSession ELSE page.fragment), agent)

(* A recent terminal.  It may have ended on the host.                      *)
RecentClicked(s) ==
  /\ InUse
  /\ page.state \in Idle
  /\ CanConnect(page)
  /\ Task(Connect(Manual([page EXCEPT !.fragment = s]), s), agent)

DisconnectClicked ==
  /\ InUse
  /\ page.state = "connected"
  /\ Task(Release(Stop(page)), agent)

EndTerminalClicked ==
  /\ InUse
  /\ page.state = "connected"
  /\ \/ Task(Disconnect(Stop(page)), Hears(agent, "close_session"))
     \/ Task(Fail(Stop(page), "BACKPRESSURE_LIMIT"), agent)

CancelClicked ==
  /\ InUse
  /\ page.state = "pairing"
  /\ Task(Disconnect(page), agent)

(* The button of a connected page, or of one whose locator was rejected.   *)
NewSessionClicked ==
  LET clicked == [Manual(page) EXCEPT !.needsFreshRetry = FALSE]
  IN  /\ InUse
      /\ CanConnect(page)
      /\ \/ /\ page.state = "connected"
            /\ Task(NewSession(clicked),
                    [Hears(agent, "close_session") EXCEPT !.reason = "new_session"])
         \/ /\ page.state = "connected"
            /\ Task(NewSessionRefused(clicked), agent)
         \/ /\ page.state = "error"
            /\ page.errorCode = "SESSION_REOPEN_REJECTED"
            /\ Task(NewSession(clicked), agent)

PairSubmitted ==
  /\ InUse
  /\ page.state = "pairing"
  /\ SocketIsOpen(page)
  /\ Task(Pair(page), Hears(agent, "pairing_request"))

(* visibility() of the controller                                          *)
LookedAt(next) ==
  IF Visible(next) THEN Schedule(next)
  ELSE IF next.state \in ReleasedWhenHidden THEN Release(Cancel(next))
  ELSE Cancel(next)

(* The tab is hidden or shown, the network goes or comes.                  *)
VisibilityChanges ==
  /\ ~page.disposed
  /\ Task(LookedAt([page EXCEPT !.shown = ~@]), agent)

(* pagehide and pageshow                                                   *)
PageHides ==
  /\ ~page.disposed
  /\ ~page.hidden
  /\ LET left == Cancel([page EXCEPT !.hidden = TRUE])
     IN  Task(IF left.state \in ReleasedOnLeaving THEN Release(left) ELSE left, agent)

PageShows ==
  /\ ~page.disposed
  /\ page.hidden
  /\ Task(LookedAt([page EXCEPT !.hidden = FALSE]), agent)

(* The shell is unmounted: dispose().                                      *)
Disposes ==
  /\ MayDispose
  /\ ~page.disposed
  /\ Task(Release(Cancel([page EXCEPT !.disposed = TRUE])), agent)

-----------------------------------------------------------------------------
(* A page is loaded, with a locator in its address or without.             *)
NewPage(fragment) ==
  [state |-> "disconnected", errorCode |-> "none", failureCause |-> FALSE,
   sessionId |-> NoSession, requestedSessionId |-> NoSession, newSession |-> "none",
   work |-> NoWork, socket |-> NoWork, readyState |-> [w \in Works |-> "none"],
   machine |-> NewStates, credential |-> NoCredential, stored |-> NoCredential,
   operations |-> <<>>, proving |-> {}, inbound |-> <<>>,
   connectTimer |-> FALSE, heartbeatTimer |-> FALSE, authorizationTimer |-> FALSE,
   attempts |-> 0, stopped |-> FALSE, timer |-> FALSE, disposed |-> FALSE,
   hidden |-> FALSE, shown |-> TRUE,
   fragment |-> fragment, needsFreshRetry |-> FALSE]

Init ==
  \E fragment \in Sessions \cup {NoSession} :
    /\ page = NewPage(fragment)
    /\ agent = [connection |-> "CLOSED", session |-> "NONE", sessionId |-> NoSession,
                knows |-> FALSE, reason |-> "none", wire |-> <<>>,
                running |-> {fragment} \ {NoSession}]

Next ==
  \/ \E w \in Works : SocketOpens(w) \/ SocketBreaks(w) \/ SocketCloses(w) \/ ProofFinishes(w)
  \/ AgentCloses \/ StoreFinishes \/ StoreFails
  \/ ConnectTimesOut \/ HeartbeatStops \/ AuthorizationEnds \/ SendFails \/ ReconnectFires
  \/ Arrives \/ Resumes \/ AgentSends \/ AgentFails
  \/ \E s \in Sessions : SessionDies(s) \/ RecentClicked(s)
  \/ ConnectClicked \/ DisconnectClicked \/ EndTerminalClicked \/ CancelClicked
  \/ NewSessionClicked \/ PairSubmitted
  \/ VisibilityChanges \/ PageHides \/ PageShows \/ Disposes

Spec == Init /\ [][Next]_vars

(* The event loop, the store, the proof and the timers run; the agent      *)
(* answers or its end of the transport goes.  Users, lifecycle events and  *)
(* everything that merely may happen are free.                             *)
Serves ==
  \/ StoreFinishes \/ StoreFails
  \/ ConnectTimesOut \/ ReconnectFires \/ Arrives \/ Resumes
  \/ AgentSends \/ AgentFails \/ AgentCloses
  \/ \E w \in Works : SocketBreaks(w) \/ SocketCloses(w) \/ ProofFinishes(w)

FairSpec == Spec /\ WF_vars(Serves)

-----------------------------------------------------------------------------
States == Idle \cup ReleasedOnLeaving \cup {"closing"}

TypeOK ==
  /\ page.state \in States
  /\ page.newSession \in {"none", "closing", "opening"}
  /\ {page.sessionId, page.requestedSessionId, page.fragment} \subseteq Sessions \cup {NoSession}
  /\ {page.work, page.socket} \subseteq Works \cup {NoWork}
  /\ page.readyState \in [Works -> {"none", "connecting", "open", "closing"}]
  /\ page.machine \in [connectionState : ConnectionStates, sessionState : SessionStates,
                        sessionId : Sessions \cup {NoSession}]
  /\ {page.credential, page.stored} \subseteq Credentials \cup {NoCredential}
  /\ page.proving \subseteq Works
  /\ page.attempts \in 0..MaxAttempts
  /\ agent.running \subseteq Sessions
  /\ Len(agent.wire) <= MaxWire

(* Whatever the page is doing, it does with the attempt it made last: no   *)
(* continuation of an earlier one has put it where it is.                  *)
Loading(w) ==
  \E i \in 1..Len(page.operations) :
    page.operations[i].kind = "load" /\ page.operations[i].work = w

AttemptIsCurrent ==
  /\ page.state \in {"connecting", "reconnecting"} =>
       page.work # NoWork /\ (page.socket = page.work \/ Loading(page.work))
  /\ page.state \notin Idle \cup {"connecting", "reconnecting"} =>
       page.work # NoWork /\ page.socket = page.work

(* A page that shows a connected terminal has a socket that was open and an*)
(* open session on it, the one it remembers, and nothing half done.        *)
ConnectedIsLive ==
  page.state = "connected" =>
    /\ page.readyState[page.socket] \in {"open", "closing"}
    /\ page.machine.connectionState = "READY"
    /\ page.machine.sessionState = "OPEN"
    /\ page.machine.sessionId = page.sessionId
    /\ page.sessionId # NoSession
    /\ page.newSession = "none"

(* A socket that is open or being opened is the adapter's own; an idle     *)
(* adapter has none.                                                       *)
NoOrphanSocket ==
  \A w \in Works :
    page.readyState[w] \in {"connecting", "open"} => Current(page, w) /\ page.state \notin Idle

(* A page that nobody looks at, or that was told to stop, is not connected,*)
(* whenever its handshake ends; after dispose() no connection is made.     *)
UnwatchedIsQuiet ==
  /\ page.stopped \/ ~Visible(page) => page.state # "connected"
  /\ page.disposed =>
       ~page.timer /\ \A w \in Works : page.readyState[w] \notin {"connecting", "open"}

(* A connection that was lost is being retried, whatever came in between.  *)
RecoveryIsArmed ==
  MayReconnect(page) /\ page.attempts < MaxAttempts => page.timer

(* No older pairing overwrites a newer one: what the adapter authenticates *)
(* with is what is stored, if anything is.                                 *)
CredentialIsStored ==
  page.machine.connectionState \in {"CHALLENGED", "PROVING", "READY"} /\ HasSocket(page)
  /\ page.work = page.socket
    => page.stored \in {page.credential, NoCredential}

(* The locator outlives the transport: it goes only when the session ended,*)
(* or when the user gives it up.                                           *)
LocatorKept ==
  [][GetSessionId(page) # NoSession /\ GetSessionId(page') = NoSession =>
       \/ page'.machine.sessionState = "CLOSED"
       \/ page'.state = "disconnected" /\ page.state \in {"pairing", "connected"}
       \/ page'.newSession = "opening"]_vars

(* A New Session comes to its end, the new terminal or a failure the user  *)
(* is told of, unless it is waiting for the user to pair.                  *)
NewSessionSettles ==
  page.newSession # "none" ~> page.newSession = "none" \/ page.state = "pairing"

(* A New Session whose old terminal is being closed does not fail for the  *)
(* output that terminal still sends: it waits for session_closed, as the   *)
(* contract's README says.  The code's machine has no terminal_output in   *)
(* CLOSING and fails (protocolTerminalAdapter.ts:463).                     *)
NewSessionGoesThrough ==
  [][page.newSession = "closing" /\ page'.newSession = "none" => page'.errorCode # "INVALID_STATE"]_vars
=============================================================================
