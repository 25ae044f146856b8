----------------------- MODULE TerminalAdapterProofs -----------------------
(***************************************************************************)
(* What each handler of a terminal page keeps, for any number of           *)
(* attempts, sessions, credentials and reconnects.  A handler is a         *)
(* function on the page, so each has a lemma of its own: from a sound page *)
(* it makes a sound page, and it does not lose the locator.                *)
(***************************************************************************)
EXTENDS TerminalPage, WellFoundedInduction, TLAPS

(* The codes of errors, and what else the detail of a frame may be.        *)
ErrorCodes ==
  {"none", "SESSION_OPEN_FAILED", "UNSUPPORTED_VERSION", "AUTHENTICATION_FAILED",
   "SESSION_REOPEN_REJECTED", "BACKPRESSURE_LIMIT", "DIRECTION_VIOLATION", "INVALID_STATE",
   "AUTHORIZATION_EXPIRED", "INTERNAL_ERROR"}

Details == ErrorCodes \cup {"shell_exit", "new_session"}

(* The frames that the agent puts on the wire.                             *)
FrameTypes ==
  {"hello_ack", "pairing_result", "auth_challenge", "auth_result", "session_opened",
   "session_reopened", "history_end", "session_detached", "session_closed",
   "terminal_output", "error"}

Frames ==
  {f \in [type : FrameTypes, session : Sessions \cup {NoSession}, detail : Credentials \cup Details] :
     /\ f.type \in {"session_opened", "session_reopened"} => f.session # NoSession
     /\ f.type = "pairing_result" => f.detail \in Credentials
     /\ f.type = "error" => f.detail \in ErrorCodes}

Operations ==
  [kind : {"load", "save"}, work : Works, credential : Credentials \cup {NoCredential}]

Machines ==
  [connectionState : ConnectionStates, sessionState : SessionStates,
   sessionId : Sessions \cup {NoSession}]

Pages ==
  [state : States, errorCode : ErrorCodes, failureCause : BOOLEAN,
   sessionId : Sessions \cup {NoSession}, requestedSessionId : Sessions \cup {NoSession},
   newSession : {"none", "closing", "opening"},
   work : Works \cup {NoWork}, socket : Works \cup {NoWork},
   readyState : [Works -> {"none", "connecting", "open", "closing"}],
   machine : Machines,
   credential : Credentials \cup {NoCredential}, stored : Credentials \cup {NoCredential},
   operations : Seq(Operations), proving : SUBSET Works, inbound : Seq(Frames),
   connectTimer : BOOLEAN, heartbeatTimer : BOOLEAN, authorizationTimer : BOOLEAN,
   attempts : 0..MaxAttempts, stopped : BOOLEAN, timer : BOOLEAN, disposed : BOOLEAN,
   hidden : BOOLEAN, shown : BOOLEAN,
   fragment : Sessions \cup {NoSession}, needsFreshRetry : BOOLEAN]

(* The work in hand has the socket in hand.                                *)
Attached(p) == p.work = p.socket /\ p.work # NoWork

Connecting == {"connecting", "reconnecting"}

LoadingIn(p, w) ==
  \E i \in 1..Len(p.operations) : p.operations[i].kind = "load" /\ p.operations[i].work = w

(* A work has one operation at a time: the load comes before its socket,   *)
(* the saving after, and then nothing else is in the queue.                *)
OneEach(p) ==
  \A i, j \in 1..Len(p.operations) : p.operations[i].work = p.operations[j].work => i = j

QueueOK(p) ==
  /\ OneEach(p)
  /\ \A i \in 1..Len(p.operations) :
       p.operations[i].work = p.work => (p.operations[i].kind = "save" <=> Attached(p))
  /\ Attached(p) => \A i \in 1..Len(p.operations) : p.operations[i].work = p.work
  /\ p.work \in p.proving => Attached(p)
  /\ p.inbound # <<>> => Attached(p)

SocketsOK(p) ==
  \A w \in Works : p.readyState[w] \in {"connecting", "open"} => Current(p, w)

ControllerOK(p) ==
  /\ p.timer => p.attempts < MaxAttempts
  /\ p.disposed => ~p.timer

(* What every step of a handler keeps.                                     *)
BaseOK(p) ==
  /\ p \in Pages
  /\ QueueOK(p)
  /\ SocketsOK(p)
  /\ ControllerOK(p)
  /\ Attached(p) => p.stored = p.credential

(* What the state of the page says of the attempt in hand.                 *)
Silent(p) == \A w \in Works : p.readyState[w] \notin {"connecting", "open"}

PlaceOK(p) ==
  /\ p.state \in Idle => Silent(p)
  /\ p.state \in Connecting => p.work # NoWork /\ (p.socket = p.work \/ LoadingIn(p, p.work))
  /\ p.state \notin Idle \cup Connecting => Attached(p)
  /\ LoadingIn(p, p.work) => p.state \in Connecting
  /\ p.newSession = "closing" => p.state = "closing"
  /\ p.newSession = "opening" =>
       p.state \notin Idle /\ p.sessionId = NoSession /\ p.requestedSessionId = NoSession
  /\ p.disposed => p.work = NoWork

(* What a wait of the attempt in hand says of its machine.                 *)
HandshakeOK(p) ==
  Attached(p) =>
    /\ Saving(p, p.work) => p.machine.connectionState = "UNAUTHENTICATED"
    /\ p.work \in p.proving => p.machine.connectionState = "CHALLENGED"
    /\ p.machine.sessionState # "NONE" => p.machine.connectionState \in {"READY", "CLOSING"}

(* What the state of the page says of its machine.                         *)
MachineOK(p) ==
  Attached(p) =>
    /\ p.readyState[p.socket] = "connecting" => p.machine.connectionState = "NEW"
    /\ p.readyState[p.socket] = "none" /\ p.inbound # <<>> /\ p.state # "error" =>
         p.machine.connectionState \in {"UNAUTHENTICATED", "CHALLENGED"}
    /\ p.readyState[p.socket] = "closing" /\ p.state \in {"disconnected", "detached"} =>
         p.machine.sessionState \in {"DETACHED", "CLOSED"}
    /\ p.state = "pairing" =>
         /\ p.machine.connectionState = "UNAUTHENTICATED"
         /\ p.credential = NoCredential /\ ~Saving(p, p.work)
    /\ p.state = "closing" => p.machine.sessionState = "CLOSING"
    /\ p.state = "connected" =>
         /\ p.machine.connectionState = "READY" /\ p.machine.sessionState = "OPEN"
         /\ p.readyState[p.socket] \in {"open", "closing"}
    /\ p.machine.sessionState \in {"REPLAYING", "OPEN"} /\ p.state \notin Idle =>
         p.machine.sessionId = p.sessionId /\ p.sessionId # NoSession
    /\ p.newSession = "opening" => p.machine.sessionState \in {"NONE", "OPENING"}

Sound(p) == BaseOK(p) /\ PlaceOK(p) /\ HandshakeOK(p) /\ MachineOK(p)

WatchOK(p) ==
  /\ p.stopped \/ ~Visible(p) => p.state # "connected"
  /\ MayReconnect(p) /\ p.attempts < MaxAttempts => p.timer

PageOK(p) == Sound(p) /\ WatchOK(p)

(* A step from p to q that is one LocatorKept allows.                      *)
LocatorStays(p, q) ==
  GetSessionId(p) # NoSession /\ GetSessionId(q) = NoSession =>
    \/ q.machine.sessionState = "CLOSED"
    \/ q.state = "disconnected" /\ p.state \in {"pairing", "connected"}
    \/ q.newSession = "opening"

-----------------------------------------------------------------------------
(* The sets                                                                *)

(* The states of the adapter, by name.                                     *)
LEMMA StatesAre ==
  States = {"disconnected", "detached", "error", "closing", "connected", "connecting",
            "reconnecting", "authenticating", "opening", "replaying", "detaching", "pairing"}
BY DEF States, Idle, ReleasedOnLeaving, ReleasedWhenHidden

(* The states of the wire machine, by name.                                *)
LEMMA MachineStates ==
  /\ {"NEW", "NEGOTIATING", "UNAUTHENTICATED", "PAIRING", "CHALLENGED", "PROVING", "READY",
      "CLOSING"} \subseteq ConnectionStates
  /\ {"NONE", "OPENING", "REOPENING", "REPLAYING", "OPEN", "DETACHING", "DETACHED", "CLOSING",
      "CLOSED"} \subseteq SessionStates
BY DEF ConnectionStates, ConnectionTable, SessionStates, SessionTable

(* A set of natural numbers has a least one.                               *)
LEMMA LeastOne ==
  ASSUME NEW S, S \subseteq Nat, S # {}
  PROVE  \E m \in S : \A i \in S : m <= i
<1>1. PICK m \in S : \A i \in S : ~(<<i, m>> \in OpToRel(<, Nat))
  BY NatLessThanWellFounded, WFMin
<1>2. ASSUME NEW i \in S PROVE m <= i
  <2>1. i \in Nat /\ m \in Nat
    OBVIOUS
  <2>2. ~(i < m)
    BY <1>1, <2>1 DEF OpToRel
  <2> QED BY <2>1, <2>2
<1> QED BY <1>2

(* A queue may be empty.                                                   *)
LEMMA EmptyQueue == <<>> \in Seq(Frames) /\ <<>> \in Seq(Operations)
OBVIOUS

-----------------------------------------------------------------------------
(* The machine.  Its tables, row by row.                                   *)

(* The rows of the connection table, as far as the page uses them.         *)
LEMMA ConnectionRows ==
  ASSUME NEW s
  PROVE  /\ \A n \in Successors(connectionTransitions, s, "client", "hello") :
              s = "NEW" /\ n = "NEGOTIATING"
         /\ \A n \in Successors(connectionTransitions, s, "agent", "hello_ack") :
              s = "NEGOTIATING" /\ n = "UNAUTHENTICATED"
         /\ \A n \in Successors(connectionTransitions, s, "client", "pairing_request") :
              s = "UNAUTHENTICATED" /\ n = "PAIRING"
         /\ \A n \in Successors(connectionTransitions, s, "agent", "pairing_result") :
              s = "PAIRING" /\ n = "UNAUTHENTICATED"
         /\ \A n \in Successors(connectionTransitions, s, "agent", "auth_challenge") :
              s = "UNAUTHENTICATED" /\ n = "CHALLENGED"
         /\ \A n \in Successors(connectionTransitions, s, "client", "auth_response") :
              s = "CHALLENGED" /\ n = "PROVING"
         /\ \A n \in Successors(connectionTransitions, s, "agent", "auth_result") :
              s = "PROVING" /\ n = "READY"
         /\ \A d : \A t \in {"open_session", "session_opened", "reopen_session",
              "session_reopened", "history_end", "terminal_output", "session_detached",
              "close_session", "session_closed", "error"} :
                Successors(connectionTransitions, s, d, t) = {}
BY DEF Successors, connectionTransitions

(* The rows of the session table, likewise.                                *)
LEMMA SessionRows ==
  ASSUME NEW s
  PROVE  /\ \A n \in Successors(sessionTransitions, s, "client", "open_session") :
              s = "NONE" /\ n = "OPENING"
         /\ \A n \in Successors(sessionTransitions, s, "agent", "session_opened") :
              s = "OPENING" /\ n = "OPEN"
         /\ \A n \in Successors(sessionTransitions, s, "client", "reopen_session") :
              s = "NONE" /\ n = "REOPENING"
         /\ \A n \in Successors(sessionTransitions, s, "agent", "session_reopened") :
              s = "REOPENING" /\ n = "REPLAYING"
         /\ \A n \in Successors(sessionTransitions, s, "agent", "history_end") :
              s = "REPLAYING" /\ n = "OPEN"
         /\ \A n \in Successors(sessionTransitions, s, "agent", "terminal_output") :
              s = "OPEN" /\ n = "OPEN"
         /\ \A n \in Successors(sessionTransitions, s, "agent", "session_detached") :
              s = "DETACHING" /\ n = "DETACHED"
         /\ \A n \in Successors(sessionTransitions, s, "client", "close_session") :
              s = "OPEN" /\ n = "CLOSING"
         /\ \A n \in Successors(sessionTransitions, s, "agent", "session_closed") :
              s \in {"OPEN", "CLOSING"} /\ n = "CLOSED"
         /\ \A d : \A t \in {"hello", "hello_ack", "pairing_request", "pairing_result",
              "auth_challenge", "auth_response", "auth_result", "error"} :
                Successors(sessionTransitions, s, d, t) = {}
BY DEF Successors, sessionTransitions

(* A frame of the connection's table moves the connection.                 *)
LEMMA ConnectionMoved ==
  ASSUME NEW m \in Machines, NEW direction, NEW session,
         NEW type \in {"hello", "hello_ack", "pairing_request", "pairing_result",
                       "auth_challenge", "auth_response", "auth_result"},
         Accepts(m, direction, type, session)
  PROVE  \E next \in Successors(connectionTransitions, m.connectionState, direction, type) :
           Advanced(m, direction, type, session) = [m EXCEPT !.connectionState = next]
<1>1. Successors(sessionTransitions, m.sessionState, direction, type) = {}
  BY SessionRows
<1>2. findTransition(m, direction, type)
        = {[m EXCEPT !.connectionState = next] :
             next \in Successors(connectionTransitions, m.connectionState, direction, type)}
  BY <1>1 DEF findTransition, Accepts
<1> QED BY <1>2 DEF Accepts, Advanced, Named

(* A frame of the session's table moves the session of a READY connection. *)
LEMMA SessionMoved ==
  ASSUME NEW m \in Machines, NEW direction, NEW session,
         NEW type \in {"open_session", "reopen_session", "history_end", "terminal_output",
                       "session_detached", "close_session", "session_closed"},
         Accepts(m, direction, type, session)
  PROVE  /\ m.connectionState = "READY"
         /\ \E next \in Successors(sessionTransitions, m.sessionState, direction, type) :
              Advanced(m, direction, type, session) = [m EXCEPT !.sessionState = next]
<1>1. Successors(connectionTransitions, m.connectionState, direction, type) = {}
  BY ConnectionRows
<1>2. m.connectionState = "READY"
  BY <1>1 DEF Accepts, findTransition
<1>3. findTransition(m, direction, type)
        = {[m EXCEPT !.sessionState = next] :
             next \in Successors(sessionTransitions, m.sessionState, direction, type)}
  BY <1>1, <1>2 DEF findTransition
<1> QED BY <1>2, <1>3 DEF Accepts, Advanced, Named

(* The same for a frame that names the session.                            *)
LEMMA MovedNaming ==
  ASSUME NEW m \in Machines, NEW direction, NEW session,
         NEW type \in {"session_opened", "session_reopened"},
         Accepts(m, direction, type, session)
  PROVE  /\ m.connectionState = "READY"
         /\ \E next \in Successors(sessionTransitions, m.sessionState, direction, type) :
              Advanced(m, direction, type, session)
                = Named([m EXCEPT !.sessionState = next], type, session)
<1>1. Successors(connectionTransitions, m.connectionState, direction, type) = {}
  BY ConnectionRows
<1>2. m.connectionState = "READY"
  BY <1>1 DEF Accepts, findTransition
<1>3. findTransition(m, direction, type)
        = {[m EXCEPT !.sessionState = next] :
             next \in Successors(sessionTransitions, m.sessionState, direction, type)}
  BY <1>1, <1>2 DEF findTransition
<1> QED BY <1>2, <1>3 DEF Accepts, Advanced

(* What a frame of the agent finds and leaves, by its type.                *)
LEMMA AgentFrame ==
  ASSUME NEW m \in Machines, NEW f \in Frames, Accepts(m, "agent", f.type, f.session)
  PROVE  LET n == Advanced(m, "agent", f.type, f.session)
         IN  /\ n \in Machines
             /\ f.type = "hello_ack" =>
                  m.connectionState = "NEGOTIATING" /\ n = [m EXCEPT !.connectionState = "UNAUTHENTICATED"]
             /\ f.type = "pairing_result" =>
                  m.connectionState = "PAIRING" /\ n = [m EXCEPT !.connectionState = "UNAUTHENTICATED"]
             /\ f.type = "auth_challenge" =>
                  m.connectionState = "UNAUTHENTICATED" /\ n = [m EXCEPT !.connectionState = "CHALLENGED"]
             /\ f.type = "auth_result" =>
                  m.connectionState = "PROVING" /\ n = [m EXCEPT !.connectionState = "READY"]
             /\ f.type = "session_opened" =>
                  /\ m.connectionState = "READY" /\ m.sessionState = "OPENING"
                  /\ n = [m EXCEPT !.sessionState = "OPEN", !.sessionId = f.session]
             /\ f.type = "session_reopened" =>
                  /\ m.connectionState = "READY" /\ m.sessionState = "REOPENING"
                  /\ n = [m EXCEPT !.sessionState = "REPLAYING", !.sessionId = f.session]
             /\ f.type = "history_end" =>
                  /\ m.connectionState = "READY" /\ m.sessionState = "REPLAYING"
                  /\ n = [m EXCEPT !.sessionState = "OPEN"]
             /\ f.type = "session_detached" =>
                  /\ m.connectionState = "READY" /\ m.sessionState = "DETACHING"
                  /\ n = [m EXCEPT !.sessionState = "DETACHED"]
             /\ f.type = "session_closed" =>
                  /\ m.connectionState = "READY" /\ m.sessionState \in {"OPEN", "CLOSING"}
                  /\ n = [m EXCEPT !.sessionState = "CLOSED"]
             /\ f.type = "terminal_output" =>
                  m.connectionState = "READY" /\ m.sessionState = "OPEN" /\ n = m
             /\ f.type = "error" => n = [m EXCEPT !.connectionState = "CLOSING"]
<1> DEFINE n == Advanced(m, "agent", f.type, f.session)
<1>1. /\ f.type \in FrameTypes
      /\ f.session \in Sessions \cup {NoSession}
      /\ m.connectionState \in ConnectionStates /\ m.sessionState \in SessionStates
      /\ m.sessionId \in Sessions \cup {NoSession}
  BY DEF Frames, Machines
<1>2. CASE f.type = "error"
  <2>1. n = [m EXCEPT !.connectionState = "CLOSING"]
    BY <1>2, ConnectionRows, SessionRows DEF Accepts, Advanced, findTransition, Named
  <2> QED BY <1>1, <1>2, <2>1, MachineStates DEF Machines
<1>3. CASE f.type = "session_opened"
  <2>0. PICK next \in Successors(sessionTransitions, m.sessionState, "agent", f.type) :
          m.connectionState = "READY" /\ n = Named([m EXCEPT !.sessionState = next], f.type, f.session)
    <3>1. f.type \in {"session_opened", "session_reopened"}
      BY <1>3
    <3> QED BY <3>1, MovedNaming
  <2>1. /\ m.connectionState = "READY" /\ m.sessionState = "OPENING"
        /\ n = [m EXCEPT !.sessionState = "OPEN", !.sessionId = f.session]
    BY <1>3, <2>0, SessionRows DEF Named
  <2> QED BY <1>1, <1>3, <2>1, MachineStates DEF Machines
<1>4. CASE f.type = "session_reopened"
  <2>0. PICK next \in Successors(sessionTransitions, m.sessionState, "agent", f.type) :
          m.connectionState = "READY" /\ n = Named([m EXCEPT !.sessionState = next], f.type, f.session)
    <3>1. f.type \in {"session_opened", "session_reopened"}
      BY <1>4
    <3> QED BY <3>1, MovedNaming
  <2>1. /\ m.connectionState = "READY" /\ m.sessionState = "REOPENING"
        /\ n = [m EXCEPT !.sessionState = "REPLAYING", !.sessionId = f.session]
    BY <1>4, <2>0, SessionRows DEF Named
  <2> QED BY <1>1, <1>4, <2>1, MachineStates DEF Machines
<1>5. CASE f.type = "hello_ack"
  <2>1. m.connectionState = "NEGOTIATING" /\ n = [m EXCEPT !.connectionState = "UNAUTHENTICATED"]
    BY <1>5, ConnectionMoved, ConnectionRows
  <2> QED BY <1>1, <1>5, <2>1, MachineStates DEF Machines
<1>6. CASE f.type = "pairing_result"
  <2>1. m.connectionState = "PAIRING" /\ n = [m EXCEPT !.connectionState = "UNAUTHENTICATED"]
    BY <1>6, ConnectionMoved, ConnectionRows
  <2> QED BY <1>1, <1>6, <2>1, MachineStates DEF Machines
<1>7. CASE f.type = "auth_challenge"
  <2>1. m.connectionState = "UNAUTHENTICATED" /\ n = [m EXCEPT !.connectionState = "CHALLENGED"]
    BY <1>7, ConnectionMoved, ConnectionRows
  <2> QED BY <1>1, <1>7, <2>1, MachineStates DEF Machines
<1>8. CASE f.type = "auth_result"
  <2>1. m.connectionState = "PROVING" /\ n = [m EXCEPT !.connectionState = "READY"]
    BY <1>8, ConnectionMoved, ConnectionRows
  <2> QED BY <1>1, <1>8, <2>1, MachineStates DEF Machines
<1>9. CASE f.type = "history_end"
  <2>1. /\ m.connectionState = "READY" /\ m.sessionState = "REPLAYING"
        /\ n = [m EXCEPT !.sessionState = "OPEN"]
    BY <1>9, SessionMoved, SessionRows
  <2> QED BY <1>1, <1>9, <2>1, MachineStates DEF Machines
<1>10. CASE f.type = "session_detached"
  <2>1. /\ m.connectionState = "READY" /\ m.sessionState = "DETACHING"
        /\ n = [m EXCEPT !.sessionState = "DETACHED"]
    BY <1>10, SessionMoved, SessionRows
  <2> QED BY <1>1, <1>10, <2>1, MachineStates DEF Machines
<1>11. CASE f.type = "session_closed"
  <2>1. /\ m.connectionState = "READY" /\ m.sessionState \in {"OPEN", "CLOSING"}
        /\ n = [m EXCEPT !.sessionState = "CLOSED"]
    BY <1>11, SessionMoved, SessionRows
  <2> QED BY <1>1, <1>11, <2>1, MachineStates DEF Machines
<1>12. CASE f.type = "terminal_output"
  <2>1. /\ m.connectionState = "READY" /\ m.sessionState = "OPEN"
        /\ n = [m EXCEPT !.sessionState = "OPEN"]
    BY <1>12, SessionMoved, SessionRows
  <2> QED BY <1>1, <1>12, <2>1, MachineStates DEF Machines
<1> QED BY <1>1, <1>2, <1>3, <1>4, <1>5, <1>6, <1>7, <1>8, <1>9, <1>10, <1>11, <1>12 DEF FrameTypes

(* What a frame of the browser finds and leaves.                           *)
LEMMA ClientFrame ==
  ASSUME NEW m \in Machines, NEW session,
         NEW type \in {"hello", "pairing_request", "auth_response", "open_session",
                       "reopen_session", "close_session"},
         Accepts(m, "client", type, session)
  PROVE  LET n == Advanced(m, "client", type, session)
         IN  /\ n \in Machines
             /\ type = "hello" =>
                  m.connectionState = "NEW" /\ n = [m EXCEPT !.connectionState = "NEGOTIATING"]
             /\ type = "pairing_request" =>
                  m.connectionState = "UNAUTHENTICATED" /\ n = [m EXCEPT !.connectionState = "PAIRING"]
             /\ type = "auth_response" =>
                  m.connectionState = "CHALLENGED" /\ n = [m EXCEPT !.connectionState = "PROVING"]
             /\ type = "open_session" =>
                  /\ m.connectionState = "READY" /\ m.sessionState = "NONE"
                  /\ n = [m EXCEPT !.sessionState = "OPENING"]
             /\ type = "reopen_session" =>
                  /\ m.connectionState = "READY" /\ m.sessionState = "NONE"
                  /\ n = [m EXCEPT !.sessionState = "REOPENING"]
             /\ type = "close_session" =>
                  /\ m.connectionState = "READY" /\ m.sessionState = "OPEN"
                  /\ n = [m EXCEPT !.sessionState = "CLOSING"]
<1> DEFINE n == Advanced(m, "client", type, session)
<1>1. /\ m.connectionState \in ConnectionStates /\ m.sessionState \in SessionStates
      /\ m.sessionId \in Sessions \cup {NoSession}
  BY DEF Machines
<1>2. CASE type = "hello"
  <2>1. m.connectionState = "NEW" /\ n = [m EXCEPT !.connectionState = "NEGOTIATING"]
    BY <1>2, ConnectionMoved, ConnectionRows
  <2> QED BY <1>1, <1>2, <2>1, MachineStates DEF Machines
<1>3. CASE type = "pairing_request"
  <2>1. m.connectionState = "UNAUTHENTICATED" /\ n = [m EXCEPT !.connectionState = "PAIRING"]
    BY <1>3, ConnectionMoved, ConnectionRows
  <2> QED BY <1>1, <1>3, <2>1, MachineStates DEF Machines
<1>4. CASE type = "auth_response"
  <2>1. m.connectionState = "CHALLENGED" /\ n = [m EXCEPT !.connectionState = "PROVING"]
    BY <1>4, ConnectionMoved, ConnectionRows
  <2> QED BY <1>1, <1>4, <2>1, MachineStates DEF Machines
<1>5. CASE type = "open_session"
  <2>1. /\ m.connectionState = "READY" /\ m.sessionState = "NONE"
        /\ n = [m EXCEPT !.sessionState = "OPENING"]
    BY <1>5, SessionMoved, SessionRows
  <2> QED BY <1>1, <1>5, <2>1, MachineStates DEF Machines
<1>6. CASE type = "reopen_session"
  <2>1. /\ m.connectionState = "READY" /\ m.sessionState = "NONE"
        /\ n = [m EXCEPT !.sessionState = "REOPENING"]
    BY <1>6, SessionMoved, SessionRows
  <2> QED BY <1>1, <1>6, <2>1, MachineStates DEF Machines
<1>7. CASE type = "close_session"
  <2>1. /\ m.connectionState = "READY" /\ m.sessionState = "OPEN"
        /\ n = [m EXCEPT !.sessionState = "CLOSING"]
    BY <1>7, SessionMoved, SessionRows
  <2> QED BY <1>1, <1>7, <2>1, MachineStates DEF Machines
<1> QED BY <1>2, <1>3, <1>4, <1>5, <1>6, <1>7

-----------------------------------------------------------------------------
(* The parts of the handlers.                                              *)

(* A field whose values are not plain ones, changed by itself.             *)
LEMMA Edits ==
  ASSUME NEW p \in Pages
  PROVE  /\ \A f \in [Works -> {"none", "connecting", "open", "closing"}] :
              [p EXCEPT !.readyState = f] \in Pages
         /\ \A o \in Seq(Operations) : [p EXCEPT !.operations = o] \in Pages
         /\ \A i \in Seq(Frames) : [p EXCEPT !.inbound = i] \in Pages
         /\ \A m \in Machines : [p EXCEPT !.machine = m] \in Pages
         /\ \A k \in SUBSET Works : [p EXCEPT !.proving = k] \in Pages
         /\ \A s \in States : [p EXCEPT !.state = s] \in Pages
<1>1. \A f \in [Works -> {"none", "connecting", "open", "closing"}] :
        [p EXCEPT !.readyState = f] \in Pages
  BY DEF Pages
<1>2. \A o \in Seq(Operations) : [p EXCEPT !.operations = o] \in Pages
  BY DEF Pages
<1>3. \A i \in Seq(Frames) : [p EXCEPT !.inbound = i] \in Pages
  BY DEF Pages
<1>4. \A m \in Machines : [p EXCEPT !.machine = m] \in Pages
  BY DEF Pages
<1>5. \A k \in SUBSET Works : [p EXCEPT !.proving = k] \in Pages
  BY DEF Pages
<1>6. \A s \in States : [p EXCEPT !.state = s] \in Pages
  BY DEF Pages
<1> QED BY <1>1, <1>2, <1>3, <1>4, <1>5, <1>6

(* The socket dropped, the socket told to close, and the timers stopped.   *)
LEMMA SocketDroppedIs ==
  ASSUME NEW p \in Pages
  PROVE  LET q == SocketDropped(p)
         IN  /\ q \in Pages
             /\ q = [p EXCEPT !.readyState = q.readyState, !.socket = NoWork]
             /\ \A w \in Works : q.readyState[w] = IF w = p.socket THEN "none" ELSE p.readyState[w]
<1> DEFINE f == [w \in Works |-> IF w = p.socket THEN "none" ELSE p.readyState[w]]
<1>1. f \in [Works -> {"none", "connecting", "open", "closing"}]
  BY DEF Pages
<1>2. SocketDropped(p) = [p EXCEPT !.readyState = f, !.socket = NoWork]
  BY DEF SocketDropped, Pages
<1>3. \A w \in Works : f[w] = IF w = p.socket THEN "none" ELSE p.readyState[w]
  OBVIOUS
<1> HIDE DEF f
<1>4. SocketDropped(p) \in Pages
  <2> DEFINE r == [p EXCEPT !.readyState = f]
  <2>1. r \in Pages
    BY <1>1, Edits
  <2>2. SocketDropped(p) = [r EXCEPT !.socket = NoWork]
    BY <1>2 DEF Pages
  <2> HIDE DEF r
  <2> QED BY <2>1, <2>2, ZenonT(60) DEF Pages
<1>5. SocketDropped(p).readyState = f
  BY <1>2 DEF Pages
<1> QED BY <1>2, <1>3, <1>4, <1>5

(* What closing the socket in hand changes.                                *)
LEMMA SocketClosingIs ==
  ASSUME NEW p \in Pages
  PROVE  LET q == SocketClosing(p)
         IN  /\ q \in Pages
             /\ q = [p EXCEPT !.readyState = q.readyState]
             /\ \A w \in Works : q.readyState[w]
                  = IF w = p.socket /\ p.readyState[w] # "none" THEN "closing" ELSE p.readyState[w]
BY SMTT(30) DEF SocketClosing, Pages

(* What stopping the timers changes.                                       *)
LEMMA TimersStoppedIs ==
  ASSUME NEW p \in Pages
  PROVE  TimersStopped(p) \in Pages
BY ZenonT(60) DEF TimersStopped, Pages

(* What a part of the invariant reads.                                     *)
LEMMA QueueReads ==
  ASSUME NEW p, NEW q,
         q.operations = p.operations, q.work = p.work, q.socket = p.socket,
         q.proving = p.proving, q.inbound = p.inbound
  PROVE  QueueOK(p) => QueueOK(q)
BY DEF QueueOK, OneEach, Attached

(* The sockets and the attempt in hand.                                    *)
LEMMA SocketsReads ==
  ASSUME NEW p, NEW q, q.readyState = p.readyState, q.work = p.work, q.socket = p.socket
  PROVE  SocketsOK(p) => SocketsOK(q)
BY DEF SocketsOK, Current

(* The state of the page and the attempt in hand.                          *)
LEMMA PlaceReads ==
  ASSUME NEW p, NEW q,
         q.readyState = p.readyState, q.state = p.state, q.work = p.work, q.socket = p.socket,
         q.operations = p.operations, q.newSession = p.newSession, q.sessionId = p.sessionId,
         q.requestedSessionId = p.requestedSessionId, q.disposed = p.disposed
  PROVE  PlaceOK(p) => PlaceOK(q)
BY DEF PlaceOK, Silent, Attached, LoadingIn

(* The machine and the state of the page.                                  *)
LEMMA MachineReads ==
  ASSUME NEW p, NEW q,
         q.readyState = p.readyState, q.state = p.state, q.work = p.work, q.socket = p.socket,
         q.operations = p.operations, q.newSession = p.newSession, q.sessionId = p.sessionId,
         q.machine = p.machine, q.proving = p.proving, q.inbound = p.inbound,
         q.credential = p.credential
  PROVE  HandshakeOK(p) /\ MachineOK(p) => HandshakeOK(q) /\ MachineOK(q)
BY DEF HandshakeOK, MachineOK, Attached, Saving

(* Whether the timer is set changes nothing else, and it is set exactly    *)
(* where a sound page needs it.                                            *)
LEMMA ScheduleKeeps ==
  ASSUME NEW p, Sound(p), p.stopped \/ ~Visible(p) => p.state # "connected"
  PROVE  /\ PageOK(Schedule(p))
         /\ Schedule(p) = [p EXCEPT !.timer = Schedule(p).timer]
<1> DEFINE q == Schedule(p)
<1>1. /\ q \in Pages
      /\ q = [p EXCEPT !.timer = q.timer]
  <2>1. p \in Pages
    BY DEF Sound, BaseOK
  <2>2. CASE MayReconnect(p) /\ p.attempts < MaxAttempts
    <3>1. q = [p EXCEPT !.timer = TRUE]
      BY <2>2 DEF Schedule
    <3> HIDE DEF q
    <3> QED BY <2>1, <3>1 DEF Pages
  <2>3. CASE ~(MayReconnect(p) /\ p.attempts < MaxAttempts)
    <3>1. q = p
      BY <2>3 DEF Schedule
    <3> QED BY <2>1, <3>1 DEF Pages
  <2> QED BY <2>2, <2>3
<1>2. /\ q.timer => p.timer \/ (MayReconnect(p) /\ p.attempts < MaxAttempts)
      /\ MayReconnect(p) /\ p.attempts < MaxAttempts => q.timer
  BY DEF Schedule, Sound, BaseOK, Pages
<1> HIDE DEF q
<1>3. BaseOK(q)
  <2>1. QueueOK(q) /\ SocketsOK(q)
    BY <1>1, QueueReads, SocketsReads, SMTT(30) DEF Sound, BaseOK, Pages
  <2> QED BY <1>1, <1>2, <2>1 DEF Sound, BaseOK, Pages, ControllerOK, Attached, MayReconnect
<1>4. PlaceOK(q) /\ HandshakeOK(q) /\ MachineOK(q)
  BY <1>1, PlaceReads, MachineReads DEF Sound, BaseOK, Pages
<1>5. WatchOK(q)
  BY <1>1, <1>2, SMTT(30) DEF Sound, BaseOK, Pages, WatchOK, MayReconnect, Eligible, Visible
<1> QED BY <1>1, <1>3, <1>4, <1>5 DEF PageOK, Sound, q

(* What waits in the store belongs to a work.                              *)
LEMMA OperationsAre ==
  ASSUME NEW p \in Pages
  PROVE  /\ Len(p.operations) \in Nat
         /\ \A i \in 1..Len(p.operations) :
              /\ p.operations[i] \in Operations
              /\ p.operations[i].work \in Works /\ p.operations[i].work # NoWork
         /\ NoWork \notin p.proving
<1>1. p.operations \in Seq(Operations) /\ p.proving \subseteq Works
  BY DEF Pages
<1>2. \A o \in Operations : o.work \in Works
  BY DEF Operations
<1> QED BY <1>1, <1>2, PageAssumption

(* An idle page whose New Session is over is sound, whatever waits.        *)
LEMMA RestKeeps ==
  ASSUME NEW p, BaseOK(p), HandshakeOK(p), p.state \in Idle, p.newSession = "none", Silent(p),
         ~LoadingIn(p, p.work), p.disposed => p.work = NoWork,
         p.state = "error" \/ MachineOK(p)
  PROVE  /\ PageOK(Schedule(p))
         /\ Schedule(p) = [p EXCEPT !.timer = Schedule(p).timer]
<1>1. PlaceOK(p)
  BY DEF PlaceOK, Silent, Idle, Connecting
<1>2. MachineOK(p)
  <2>1. Attached(p) => p.socket \in Works
    BY DEF BaseOK, Pages, Attached
  <2> QED BY <2>1 DEF MachineOK, Silent, Idle
<1> QED BY <1>1, <1>2, ScheduleKeeps DEF Sound, Idle

(* release(): the page is idle and has its locator still.                  *)
LEMMA ReleaseKeeps ==
  ASSUME NEW p, BaseOK(p)
  PROVE  LET q == Release(p)
         IN  /\ PageOK(q)
             /\ q.state \in {"detached", "error"}
             /\ q.work = NoWork /\ q.socket = NoWork
             /\ q.newSession = "none"
             /\ q.machine = p.machine
             /\ q.sessionId = p.sessionId /\ q.requestedSessionId = p.requestedSessionId
<1> DEFINE a == SocketDropped(p)
           b == TimersStopped(a)
           c == [b EXCEPT !.connectTimer = FALSE, !.work = NoWork, !.failureCause = TRUE,
                          !.newSession = "none"]
           d == [c EXCEPT !.inbound = <<>>]
           kept == p.newSession = "none" /\ GetSessionId(p) # NoSession
           e == IF kept THEN [d EXCEPT !.state = "detached"]
                ELSE [d EXCEPT !.errorCode = "SESSION_OPEN_FAILED", !.state = "error"]
<1>1. p \in Pages
  BY DEF BaseOK
<1>2. /\ a \in Pages
      /\ a = [p EXCEPT !.readyState = a.readyState, !.socket = NoWork]
      /\ \A w \in Works : a.readyState[w] = IF w = p.socket THEN "none" ELSE p.readyState[w]
  BY <1>1, SocketDroppedIs
<1>3. b \in Pages
  BY <1>2, TimersStoppedIs
<1>4. Release(p) = Schedule(e)
  <2> DEFINE free == [b EXCEPT !.connectTimer = FALSE, !.work = NoWork, !.inbound = <<>>,
                               !.failureCause = TRUE, !.newSession = "none"]
  <2>1. free = d
    <3> HIDE DEF b
    <3> QED BY <1>3 DEF Pages
  <2>2. Release(p) = IF kept THEN Schedule([free EXCEPT !.state = "detached"])
                     ELSE Schedule([[free EXCEPT !.errorCode = "SESSION_OPEN_FAILED"]
                                      EXCEPT !.state = "error"])
    BY DEF Release, SetState
  <2>3. [[d EXCEPT !.errorCode = "SESSION_OPEN_FAILED"] EXCEPT !.state = "error"]
          = [d EXCEPT !.errorCode = "SESSION_OPEN_FAILED", !.state = "error"]
    OBVIOUS
  <2> HIDE DEF free, d
  <2> QED BY <2>1, <2>2, <2>3
<1>5. /\ b.state = p.state /\ b.socket = NoWork /\ b.machine = p.machine
      /\ b.operations = p.operations /\ b.proving = p.proving /\ b.readyState = a.readyState
      /\ b.sessionId = p.sessionId /\ b.requestedSessionId = p.requestedSessionId
      /\ b.timer = p.timer /\ b.attempts = p.attempts /\ b.disposed = p.disposed
  <2> HIDE DEF a
  <2> QED BY <1>1, <1>2 DEF Pages, TimersStopped
<1> HIDE DEF a, b
<1>c. c \in Pages
  BY <1>3, ZenonT(60) DEF Pages
<1>6. d \in Pages
  <2> HIDE DEF c
  <2> QED BY <1>c, EmptyQueue, Edits
<1>7. e \in Pages
  <2> HIDE DEF d
  <2>1. /\ "detached" \in States /\ "error" \in States
        /\ "SESSION_OPEN_FAILED" \in ErrorCodes
    BY StatesAre DEF ErrorCodes
  <2>2. [d EXCEPT !.state = "detached"] \in Pages
    BY <1>6, <2>1 DEF Pages
  <2>3. [d EXCEPT !.errorCode = "SESSION_OPEN_FAILED", !.state = "error"] \in Pages
    BY <1>6, <2>1 DEF Pages
  <2> QED BY <2>2, <2>3
<1>8. /\ e.state \in {"detached", "error"} /\ e.work = NoWork /\ e.socket = NoWork
      /\ e.newSession = "none" /\ e.machine = p.machine /\ e.operations = p.operations
      /\ e.proving = p.proving /\ e.inbound = <<>> /\ e.readyState = a.readyState
      /\ e.sessionId = p.sessionId /\ e.requestedSessionId = p.requestedSessionId
      /\ e.timer = p.timer /\ e.attempts = p.attempts /\ e.disposed = p.disposed
  BY <1>3, <1>5 DEF Pages
<1> HIDE DEF e
<1>9. BaseOK(e)
  <2>1. QueueOK(e)
    BY <1>1, <1>8, OperationsAre DEF BaseOK, QueueOK, OneEach, Attached
  <2>2. SocketsOK(e)
    BY <1>2, <1>8 DEF BaseOK, SocketsOK, Current
  <2>3. ControllerOK(e) /\ ~Attached(e)
    BY <1>8 DEF BaseOK, ControllerOK, Attached
  <2> QED BY <1>7, <2>1, <2>2, <2>3 DEF BaseOK
<1>10. Silent(e) /\ ~LoadingIn(e, e.work)
  <2>1. ~LoadingIn(e, e.work)
    BY <1>1, <1>8, OperationsAre DEF LoadingIn
  <2>2. Silent(e)
    BY <1>2, <1>8 DEF BaseOK, SocketsOK, Current, Silent
  <2> QED BY <2>1, <2>2
<1>11. HandshakeOK(e) /\ MachineOK(e)
  BY <1>8 DEF HandshakeOK, MachineOK, Attached
<1>12. PageOK(Schedule(e)) /\ Schedule(e) = [e EXCEPT !.timer = Schedule(e).timer]
  BY <1>8, <1>9, <1>10, <1>11, RestKeeps DEF Idle
<1> QED BY <1>4, <1>7, <1>8, <1>12 DEF Pages

(* fail(): the page is in error and its socket closes.                     *)
LEMMA FailKeeps ==
  ASSUME NEW p, BaseOK(p), HandshakeOK(p), Attached(p), ~p.disposed,
         p.state = "error" => PageOK(p), NEW code \in ErrorCodes
  PROVE  LET q == Fail(p, code)
         IN  /\ PageOK(q)
             /\ q.state = "error"
             /\ q.work = p.work /\ q.socket = p.socket
             /\ q.machine = p.machine
             /\ q.sessionId = p.sessionId /\ q.requestedSessionId = p.requestedSessionId
<1>1. SUFFICES ASSUME p.state # "error"
               PROVE  LET q == Fail(p, code)
                      IN  /\ PageOK(q)
                          /\ q.state = "error"
                          /\ q.work = p.work /\ q.socket = p.socket
                          /\ q.machine = p.machine
                          /\ q.sessionId = p.sessionId /\ q.requestedSessionId = p.requestedSessionId
  BY DEF Fail
<1> DEFINE a == SocketClosing(p)
           b == TimersStopped(a)
           e == [b EXCEPT !.errorCode = code, !.newSession = "none", !.state = "error"]
<1>2. p \in Pages
  BY DEF BaseOK
<1>3. /\ a \in Pages
      /\ a = [p EXCEPT !.readyState = a.readyState]
      /\ \A w \in Works : a.readyState[w]
           = IF w = p.socket /\ p.readyState[w] # "none" THEN "closing" ELSE p.readyState[w]
  BY <1>2, SocketClosingIs
<1>4. b \in Pages
  BY <1>3, TimersStoppedIs
<1>5. Fail(p, code) = Schedule(e)
  <2>1. Fail(p, code) = Schedule([[b EXCEPT !.errorCode = code, !.newSession = "none"]
                                     EXCEPT !.state = "error"])
    BY <1>1 DEF Fail, SetState
  <2> HIDE DEF b
  <2> QED BY <1>4, <2>1 DEF Pages
<1>b. /\ b.work = p.work /\ b.socket = p.socket /\ b.machine = p.machine
      /\ b.operations = p.operations /\ b.proving = p.proving /\ b.inbound = p.inbound
      /\ b.readyState = a.readyState
      /\ b.sessionId = p.sessionId /\ b.requestedSessionId = p.requestedSessionId
      /\ b.timer = p.timer /\ b.attempts = p.attempts /\ b.disposed = p.disposed
      /\ b.stored = p.stored /\ b.credential = p.credential
  <2> HIDE DEF a
  <2> QED BY <1>2, <1>3 DEF Pages, TimersStopped
<1> HIDE DEF a, b
<1>6. e \in Pages
  <2>1. "error" \in States
    BY StatesAre
  <2> QED BY <1>4, <2>1 DEF Pages
<1>7. /\ e.state = "error" /\ e.work = p.work /\ e.socket = p.socket
      /\ e.newSession = "none" /\ e.machine = p.machine /\ e.operations = p.operations
      /\ e.proving = p.proving /\ e.inbound = p.inbound /\ e.readyState = a.readyState
      /\ e.sessionId = p.sessionId /\ e.requestedSessionId = p.requestedSessionId
      /\ e.timer = p.timer /\ e.attempts = p.attempts /\ e.disposed = p.disposed
      /\ e.stored = p.stored /\ e.credential = p.credential
  BY <1>4, <1>b DEF Pages
<1> HIDE DEF e
<1>8. BaseOK(e)
  <2>1. QueueOK(e)
    BY <1>7, QueueReads DEF BaseOK
  <2>2. SocketsOK(e)
    BY <1>3, <1>7 DEF BaseOK, SocketsOK, Current
  <2> QED BY <1>6, <1>7, <2>1, <2>2 DEF BaseOK, ControllerOK, Attached
<1>9. Silent(e) /\ ~LoadingIn(e, e.work)
  <2>1. ~LoadingIn(e, e.work)
    BY <1>7 DEF LoadingIn, BaseOK, QueueOK
  <2>2. Silent(e)
    BY <1>3, <1>7 DEF BaseOK, SocketsOK, Current, Silent
  <2> QED BY <2>1, <2>2
<1>10. HandshakeOK(e)
  BY <1>7 DEF HandshakeOK, Attached, Saving
<1>11. PageOK(Schedule(e)) /\ Schedule(e) = [e EXCEPT !.timer = Schedule(e).timer]
  BY <1>7, <1>8, <1>9, <1>10, RestKeeps DEF Idle
<1> QED BY <1>5, <1>6, <1>7, <1>11 DEF Pages

(* sendFrame(): one of three.                                              *)
LEMMA SendCases ==
  ASSUME NEW p \in Pages, NEW type
  PROVE  \/ ~SocketIsOpen(p) /\ Send(p, type) = Release(p)
         \/ SocketIsOpen(p) /\ \E code \in ErrorCodes : Send(p, type) = Fail(p, code)
         \/ /\ SocketIsOpen(p)
            /\ Accepts(p.machine, "client", type, p.sessionId)
            /\ Send(p, type)
                 = [p EXCEPT !.machine = Advanced(p.machine, "client", type, p.sessionId)]
<1>1. Refusal(p.machine, "client", type) \in ErrorCodes
  BY DEF Refusal, ErrorCodes
<1> QED BY <1>1 DEF Send

(* A frame that moves the machine changes no other part.                   *)
LEMMA MachineSet ==
  ASSUME NEW p, BaseOK(p), NEW n \in Machines
  PROVE  LET q == [p EXCEPT !.machine = n]
         IN  /\ BaseOK(q)
             /\ PlaceOK(p) => PlaceOK(q)
             /\ WatchOK(p) => WatchOK(q)
<1> DEFINE q == [p EXCEPT !.machine = n]
<1>1. p \in Pages /\ q \in Pages
  BY Edits DEF BaseOK
<1>2. QueueOK(q) /\ SocketsOK(q)
  BY <1>1, QueueReads, SocketsReads DEF BaseOK, Pages
<1>3. BaseOK(q)
  BY <1>1, <1>2 DEF BaseOK, Pages, ControllerOK, Attached
<1>4. PlaceOK(p) => PlaceOK(q)
  BY <1>1, PlaceReads, SMTT(30) DEF Pages
<1>5. WatchOK(p) => WatchOK(q)
  BY <1>1 DEF Pages, WatchOK, MayReconnect, Visible, Eligible
<1> QED BY <1>3, <1>4, <1>5

(* The store's next operation is the first that is still wanted.           *)
LEMMA StillWantedIs ==
  ASSUME NEW s \in Seq(Operations), NEW w
  PROVE  LET q == StillWanted(s, w)
         IN  /\ q \in Seq(Operations)
             /\ \E k \in 0..Len(s) :
                  /\ Len(q) = Len(s) - k
                  /\ \A i \in 1..Len(q) : q[i] = s[i + k]
                  /\ \A i \in 1..k : s[i].work # w
                  /\ k < Len(s) => s[k + 1].work = w
<1> DEFINE wanted == {i \in DOMAIN s : s[i].work = w}
           q == StillWanted(s, w)
           Left(k) == /\ Len(q) = Len(s) - k
                      /\ \A i \in 1..Len(q) : q[i] = s[i + k]
                      /\ \A i \in 1..k : s[i].work # w
                      /\ k < Len(s) => s[k + 1].work = w
<1> SUFFICES q \in Seq(Operations) /\ \E k \in 0..Len(s) : Left(k)
  OBVIOUS
<1>1. Len(s) \in Nat /\ DOMAIN s = 1..Len(s)
  OBVIOUS
<1>2. CASE wanted = {}
  <2>1. q = <<>>
    BY <1>2 DEF StillWanted
  <2>2. \A i \in 1..Len(s) : s[i].work # w
    BY <1>1, <1>2
  <2>3. /\ Len(q) = Len(s) - Len(s) /\ \A i \in 1..Len(q) : q[i] = s[i + Len(s)]
        /\ q \in Seq(Operations)
    BY <1>1, <2>1, EmptyQueue
  <2>4. Len(s) \in 0..Len(s) /\ ~(Len(s) < Len(s))
    BY <1>1
  <2>5. Left(Len(s))
    BY <2>2, <2>3, <2>4
  <2> HIDE DEF Left, q, wanted
  <2> QED BY <2>3, <2>4, <2>5
<1>3. CASE wanted # {}
  <2>1. wanted \subseteq Nat
    BY <1>1
  <2>2. \E m \in wanted : \A i \in wanted : m <= i
    BY <1>3, <2>1, LeastOne
  <2>3. PICK m \in wanted : (\A i \in wanted : m <= i) /\ q = SubSeq(s, m, Len(s))
    BY <1>3, <2>2 DEF StillWanted
  <2>4. m \in 1..Len(s) /\ s[m].work = w
    BY <1>1
  <2>5. /\ q \in Seq(Operations) /\ Len(q) = Len(s) - (m - 1)
        /\ \A i \in 1..Len(q) : q[i] = s[i + (m - 1)]
    BY <1>1, <2>3, <2>4
  <2>6. \A i \in 1..(m - 1) : s[i].work # w
    BY <1>1, <2>3, <2>4
  <2>7. m - 1 \in 0..Len(s) /\ (m - 1) + 1 = m
    BY <1>1, <2>4
  <2>8. Left(m - 1)
    BY <2>4, <2>5, <2>6, <2>7
  <2> HIDE DEF Left, q, wanted
  <2> QED BY <2>5, <2>7, <2>8
<1> QED BY <1>2, <1>3

(* What is left of the queue: the operations before the first one of the   *)
(* work in hand have found that they are over.                             *)
LEMMA DequeueIs ==
  ASSUME NEW p \in Pages, p.operations # <<>>
  PROVE  LET q == Dequeue(p)
         IN  /\ q \in Pages
             /\ q = [p EXCEPT !.operations = q.operations]
             /\ Head(p.operations) = p.operations[1] /\ 1 \in 1..Len(p.operations)
             /\ \E k \in 1..Len(p.operations) :
                  /\ Len(q.operations) = Len(p.operations) - k
                  /\ \A i \in 1..Len(q.operations) : q.operations[i] = p.operations[i + k]
                  /\ \A i \in 2..k : p.operations[i].work # p.work
                  /\ k < Len(p.operations) => p.operations[k + 1].work = p.work
<1> DEFINE t == Tail(p.operations)
           o == StillWanted(t, p.work)
           Left(q, k) == /\ Len(q.operations) = Len(p.operations) - k
                         /\ \A i \in 1..Len(q.operations) : q.operations[i] = p.operations[i + k]
                         /\ \A i \in 2..k : p.operations[i].work # p.work
                         /\ k < Len(p.operations) => p.operations[k + 1].work = p.work
<1>1. p.operations \in Seq(Operations)
  BY DEF Pages
<1>2. /\ t \in Seq(Operations) /\ Len(t) = Len(p.operations) - 1 /\ Len(p.operations) \in Nat \ {0}
      /\ \A i \in 1..Len(t) : t[i] = p.operations[i + 1]
  BY <1>1
<1>3. /\ Dequeue(p) = [p EXCEPT !.operations = o]
      /\ o \in Seq(Operations)
  BY <1>2, StillWantedIs DEF Dequeue
<1>4. PICK k \in 0..Len(t) :
        /\ Len(o) = Len(t) - k
        /\ \A i \in 1..Len(o) : o[i] = t[i + k]
        /\ \A i \in 1..k : t[i].work # p.work
        /\ k < Len(t) => t[k + 1].work = p.work
  <2> HIDE DEF t
  <2> QED BY <1>2, StillWantedIs
<1> HIDE DEF o, t
<1>5. Dequeue(p) \in Pages
  BY <1>3, Edits
<1>o. Dequeue(p).operations = o
  BY <1>3 DEF Pages
<1>6. /\ Len(o) = Len(p.operations) - (k + 1)
      /\ \A i \in 1..Len(o) : o[i] = p.operations[i + (k + 1)]
  BY <1>2, <1>4
<1>7. \A i \in 2..(k + 1) : p.operations[i].work # p.work
  <2>1. SUFFICES ASSUME NEW i \in 2..(k + 1) PROVE p.operations[i].work # p.work
    OBVIOUS
  <2>2. i - 1 \in 1..k /\ i - 1 \in 1..Len(t)
    BY <1>2, <1>4
  <2>3. t[i - 1] = p.operations[(i - 1) + 1]
    BY <1>2, <2>2
  <2> QED BY <1>4, <2>2, <2>3
<1>8. k + 1 < Len(p.operations) => p.operations[(k + 1) + 1].work = p.work
  <2>1. SUFFICES ASSUME k + 1 < Len(p.operations)
                 PROVE  p.operations[(k + 1) + 1].work = p.work
    OBVIOUS
  <2>2. k < Len(t) /\ k + 1 \in 1..Len(t)
    BY <1>2, <1>4, <2>1
  <2> QED BY <1>2, <1>4, <2>2
<1>9. Head(p.operations) = p.operations[1] /\ k + 1 \in 1..Len(p.operations)
  BY <1>1, <1>2, <1>4
<1>10. Left(Dequeue(p), k + 1)
  BY <1>o, <1>6, <1>7, <1>8
<1>11. \E n \in 1..Len(p.operations) : Left(Dequeue(p), n)
  <2> HIDE DEF Left
  <2> QED BY <1>9, <1>10
<1>12. 1 \in 1..Len(p.operations)
  BY <1>2
<1> HIDE DEF Left
<1> QED BY <1>3, <1>5, <1>o, <1>9, <1>11, <1>12 DEF Left

(* An operation that starts leaves the queue as sound as it was, and empty *)
(* if it is one of the work in hand.                                       *)
LEMMA DequeueKeeps ==
  ASSUME NEW p, BaseOK(p), p.operations # <<>>
  PROVE  LET q == Dequeue(p)
             head == Head(p.operations)
         IN  /\ BaseOK(q)
             /\ q = [p EXCEPT !.operations = q.operations]
             /\ head \in Operations /\ head = p.operations[1]
             /\ head.work = p.work => q.operations = <<>>
             /\ Saving(q, q.work) => Saving(p, p.work)
             /\ LoadingIn(q, q.work) => LoadingIn(p, p.work)
             /\ head.work # p.work /\ LoadingIn(p, p.work) => LoadingIn(q, q.work)
<1> DEFINE q == Dequeue(p)
           head == Head(p.operations)
<1>1. p \in Pages
  BY DEF BaseOK
<1>2. /\ q \in Pages /\ q = [p EXCEPT !.operations = q.operations]
      /\ head = p.operations[1] /\ 1 \in 1..Len(p.operations)
  BY <1>1, DequeueIs
<1>3. PICK k \in 1..Len(p.operations) :
        /\ Len(q.operations) = Len(p.operations) - k
        /\ \A i \in 1..Len(q.operations) : q.operations[i] = p.operations[i + k]
        /\ \A i \in 2..k : p.operations[i].work # p.work
        /\ k < Len(p.operations) => p.operations[k + 1].work = p.work
  BY <1>1, DequeueIs
<1>4. /\ Len(p.operations) \in Nat
      /\ \A i \in 1..Len(p.operations) : p.operations[i] \in Operations
      /\ q.operations \in Seq(Operations)
  <2>1. q.operations \in Seq(Operations)
    BY <1>2 DEF Pages
  <2> QED BY <1>1, <2>1, OperationsAre
<1> HIDE DEF q, head
<1>5. /\ q.work = p.work /\ q.socket = p.socket /\ q.proving = p.proving /\ q.inbound = p.inbound
      /\ q.readyState = p.readyState /\ q.timer = p.timer /\ q.attempts = p.attempts
      /\ q.disposed = p.disposed /\ q.stored = p.stored /\ q.credential = p.credential
  BY <1>1, <1>2 DEF Pages
<1>6. \A i \in 1..Len(q.operations) : i + k \in 1..Len(p.operations) /\ i + k # 1
  BY <1>3, <1>4
<1>7. OneEach(p)
  BY DEF BaseOK, QueueOK
<1>8. OneEach(q)
  <2>1. SUFFICES ASSUME NEW i \in 1..Len(q.operations), NEW j \in 1..Len(q.operations),
                        q.operations[i].work = q.operations[j].work
                 PROVE  i = j
    BY DEF OneEach
  <2>2. i + k = j + k
    <3>1. i + k \in 1..Len(p.operations) /\ j + k \in 1..Len(p.operations)
      BY <1>6
    <3>2. q.operations[i] = p.operations[i + k] /\ q.operations[j] = p.operations[j + k]
      BY <1>3
    <3>3. p.operations[i + k].work = p.operations[j + k].work
      BY <2>1, <3>2
    <3> DEFINE a == i + k
               b == j + k
    <3> HIDE DEF a, b
    <3>4. a = b
      BY <1>7, <3>1, <3>3 DEF OneEach, a, b
    <3> QED BY <3>4 DEF a, b
  <2> QED BY <1>3, <1>4, <2>2
<1>9. QueueOK(q)
  BY <1>3, <1>5, <1>6, <1>8 DEF BaseOK, QueueOK, Attached
<1>10. BaseOK(q)
  <2>1. SocketsOK(q)
    BY <1>5, SocketsReads DEF BaseOK
  <2> QED BY <1>2, <1>5, <1>9, <2>1 DEF BaseOK, ControllerOK, Attached
<1>11. head.work = p.work => q.operations = <<>>
  <2>1. SUFFICES ASSUME head.work = p.work, k < Len(p.operations) PROVE FALSE
    BY <1>3, <1>4
  <2>2. k + 1 \in 1..Len(p.operations) /\ k + 1 # 1
    BY <1>3, <1>4, <2>1
  <2> QED BY <1>2, <1>3, <1>7, <2>1, <2>2 DEF OneEach
<1>12. Saving(q, q.work) => Saving(p, p.work)
  BY <1>3, <1>5, <1>6 DEF Saving
<1>13. LoadingIn(q, q.work) => LoadingIn(p, p.work)
  BY <1>3, <1>5, <1>6 DEF LoadingIn
<1>14. head.work # p.work /\ LoadingIn(p, p.work) => LoadingIn(q, q.work)
  <2>1. SUFFICES ASSUME head.work # p.work, NEW i \in 1..Len(p.operations),
                        p.operations[i].kind = "load", p.operations[i].work = p.work
                 PROVE  LoadingIn(q, q.work)
    BY DEF LoadingIn
  <2>2. i # 1 /\ ~(i \in 2..k)
    BY <1>2, <1>3, <2>1
  <2>3. i - k \in 1..Len(q.operations) /\ (i - k) + k = i
    BY <1>3, <1>4, <2>2
  <2>4. q.operations[i - k] = p.operations[i]
    BY <1>3, <2>3
  <2> QED BY <1>5, <2>1, <2>3, <2>4 DEF LoadingIn
<1> QED BY <1>2, <1>4, <1>10, <1>11, <1>12, <1>13, <1>14 DEF q, head

(* So does the page, if what starts is not the load it waits for.          *)
LEMMA DequeuePage ==
  ASSUME NEW p, PageOK(p), p.operations # <<>>,
         Head(p.operations).work # p.work \/ Head(p.operations).kind = "save"
  PROVE  PageOK(Dequeue(p))
<1> DEFINE q == Dequeue(p)
           head == Head(p.operations)
<1>1. BaseOK(p) /\ p \in Pages
  BY DEF PageOK, Sound, BaseOK
<1>2. /\ BaseOK(q)
      /\ q = [p EXCEPT !.operations = q.operations]
      /\ head = p.operations[1] /\ head \in Operations
      /\ Saving(q, q.work) => Saving(p, p.work)
      /\ LoadingIn(q, q.work) => LoadingIn(p, p.work)
      /\ head.work # p.work /\ LoadingIn(p, p.work) => LoadingIn(q, q.work)
  BY <1>1, DequeueKeeps
<1>3. 1 \in 1..Len(p.operations)
  BY <1>1, DequeueIs
<1>4. head.work = p.work => Attached(p) /\ p.socket = p.work
  BY <1>1, <1>2, <1>3 DEF BaseOK, QueueOK, Attached
<1> HIDE DEF q, head
<1>5. /\ q.work = p.work /\ q.socket = p.socket /\ q.proving = p.proving /\ q.inbound = p.inbound
      /\ q.readyState = p.readyState /\ q.state = p.state /\ q.machine = p.machine
      /\ q.newSession = p.newSession /\ q.sessionId = p.sessionId
      /\ q.requestedSessionId = p.requestedSessionId /\ q.disposed = p.disposed
      /\ q.credential = p.credential
  BY <1>1, <1>2 DEF Pages
<1>6. PlaceOK(q)
  BY <1>2, <1>4, <1>5 DEF PageOK, Sound, PlaceOK, Silent, Attached
<1>7. HandshakeOK(q) /\ MachineOK(q)
  BY <1>2, <1>5 DEF PageOK, Sound, HandshakeOK, MachineOK, Attached
<1>8. WatchOK(q)
  BY <1>1, <1>2 DEF Pages, PageOK, WatchOK, MayReconnect, Visible, Eligible
<1> QED BY <1>2, <1>6, <1>7, <1>8 DEF PageOK, Sound, q

(* connect(): the page is connecting with a work of its own, and its load  *)
(* waits in the store.                                                     *)
LEMMA ConnectKeeps ==
  ASSUME NEW p \in Pages, OneEach(p), ControllerOK(p), Silent(p), ~p.disposed, CanConnect(p),
         p.state \in Idle, NEW s \in Sessions \cup {NoSession},
         p.newSession # "closing",
         p.newSession = "opening" =>
           p.sessionId = NoSession /\ p.requestedSessionId = NoSession /\ s = NoSession
  PROVE  LET q == Connect(p, s)
         IN  /\ PageOK(q)
             /\ q.state \in Connecting
             /\ q.newSession = p.newSession
             /\ q.machine = p.machine
             /\ GetSessionId(p) # NoSession => GetSessionId(q) # NoSession
<1> DEFINE w == CHOOSE v \in Works : Unused(p, v)
           wanted == IF s # NoSession THEN s ELSE GetSessionId(p)
           state == IF wanted = NoSession THEN "connecting" ELSE "reconnecting"
           op == Operation("load", w, NoCredential)
           a == [p EXCEPT !.work = w, !.connectTimer = FALSE, !.errorCode = "none",
                          !.failureCause = FALSE, !.requestedSessionId = wanted]
           b == [a EXCEPT !.inbound = <<>>]
           c == [b EXCEPT !.state = state]
           o == Append(p.operations, op)
           q == [c EXCEPT !.operations = o]
<1>1. /\ w \in Works /\ w # NoWork /\ w # p.work /\ w # p.socket /\ w \notin p.proving
      /\ \A i \in 1..Len(p.operations) : p.operations[i].work # w
  BY PageAssumption DEF CanConnect, Unused
<1>2. /\ wanted \in Sessions \cup {NoSession} /\ "none" \in ErrorCodes
      /\ state \in Connecting /\ state \in States
      /\ op \in Operations /\ op.work = w /\ op.kind = "load"
  <2>1. GetSessionId(p) \in Sessions \cup {NoSession}
    BY DEF GetSessionId, Pages
  <2>2. "connecting" \in States /\ "reconnecting" \in States
    BY StatesAre
  <2> HIDE DEF w
  <2> QED BY <1>1, <2>1, <2>2 DEF ErrorCodes, Connecting, Operation, Operations
<1>3. Connect(p, s) = Enqueue(Schedule([[p EXCEPT !.work = w, !.connectTimer = FALSE,
          !.inbound = <<>>, !.errorCode = "none", !.failureCause = FALSE,
          !.requestedSessionId = wanted] EXCEPT !.state = state]), op)
  BY DEF Connect, SetState
<1> HIDE DEF w, wanted, state, op
<1>4. [[p EXCEPT !.work = w, !.connectTimer = FALSE,
          !.inbound = <<>>, !.errorCode = "none", !.failureCause = FALSE,
          !.requestedSessionId = wanted] EXCEPT !.state = state] = c
  BY DEF Pages
<1>5. a \in Pages
  <2>1. w \in Works /\ wanted \in Sessions \cup {NoSession} /\ "none" \in ErrorCodes
    BY <1>1, <1>2
  <2> QED BY <2>1, ZenonT(60) DEF Pages
<1>6. b \in Pages
  <2> HIDE DEF a
  <2> QED BY <1>5, EmptyQueue, Edits
<1>7. c \in Pages
  <2>1. state \in States
    BY <1>2
  <2> HIDE DEF b
  <2> QED BY <1>6, <2>1, Edits
<1>8. /\ c.operations = p.operations /\ c.work = w /\ c.socket = p.socket
      /\ c.proving = p.proving /\ c.inbound = <<>> /\ c.readyState = p.readyState
      /\ c.timer = p.timer /\ c.attempts = p.attempts /\ c.disposed = p.disposed
      /\ c.state = state /\ c.newSession = p.newSession /\ c.sessionId = p.sessionId
      /\ c.requestedSessionId = wanted /\ c.machine = p.machine
  BY <1>5, <1>6 DEF Pages
<1>9. Schedule(c) = c
  <2> HIDE DEF c
  <2> QED BY <1>2, <1>8 DEF Schedule, MayReconnect, Eligible, Connecting
<1>10. Connect(p, s) = q
  <2>1. Connect(p, s) = Enqueue(c, op)
    BY <1>3, <1>4, <1>9
  <2> HIDE DEF c
  <2> QED BY <1>8, <2>1 DEF Enqueue
<1> HIDE DEF c
<1>11. /\ p.operations \in Seq(Operations) /\ o \in Seq(Operations)
       /\ Len(p.operations) \in Nat
       /\ Len(o) = Len(p.operations) + 1
       /\ \A i \in 1..Len(p.operations) : o[i] = p.operations[i]
       /\ o[Len(p.operations) + 1] = op
  <2>1. p.operations \in Seq(Operations)
    BY DEF Pages
  <2> QED BY <1>2, <2>1
<1> HIDE DEF o
<1>12. q \in Pages
  BY <1>7, <1>11, Edits
<1>13. /\ q.operations = o /\ q.work = w /\ q.socket = p.socket
       /\ q.proving = p.proving /\ q.inbound = <<>> /\ q.readyState = p.readyState
       /\ q.timer = p.timer /\ q.attempts = p.attempts /\ q.disposed = p.disposed
       /\ q.state = state /\ q.newSession = p.newSession /\ q.sessionId = p.sessionId
       /\ q.requestedSessionId = wanted /\ q.machine = p.machine
  BY <1>7, <1>8 DEF Pages
<1> HIDE DEF q
<1>14. ~Attached(q)
  BY <1>1, <1>13 DEF Attached
<1>15. BaseOK(q)
  <2>1. OneEach(q)
    <3>1. SUFFICES ASSUME NEW i \in 1..Len(o), NEW j \in 1..Len(o), o[i].work = o[j].work
                   PROVE  i = j
      BY <1>13 DEF OneEach
    <3>2. CASE i \in 1..Len(p.operations) /\ j \in 1..Len(p.operations)
      BY <1>11, <3>1, <3>2 DEF OneEach
    <3>3. CASE i = Len(p.operations) + 1 \/ j = Len(p.operations) + 1
      BY <1>1, <1>2, <1>11, <3>1, <3>3
    <3> QED BY <1>11, <3>2, <3>3
  <2>2. \A i \in 1..Len(o) : o[i].work = w => o[i].kind = "load"
    BY <1>1, <1>2, <1>11
  <2>3. QueueOK(q)
    BY <1>1, <1>13, <1>14, <2>1, <2>2 DEF QueueOK
  <2>4. SocketsOK(q)
    BY <1>13 DEF SocketsOK, Silent
  <2> QED BY <1>12, <1>13, <1>14, <2>3, <2>4 DEF BaseOK, ControllerOK
<1>16. PlaceOK(q)
  <2>1. LoadingIn(q, w)
    <3>1. Len(p.operations) + 1 \in 1..Len(o)
      BY <1>11
    <3> QED BY <1>2, <1>11, <1>13, <3>1 DEF LoadingIn
  <2>2. wanted = NoSession \/ q.newSession # "opening"
    BY <1>13 DEF wanted, GetSessionId
  <2> QED BY <1>1, <1>2, <1>13, <2>1, <2>2 DEF PlaceOK, Silent, Connecting, Idle
<1>17. HandshakeOK(q) /\ MachineOK(q)
  BY <1>14 DEF HandshakeOK, MachineOK
<1>18. WatchOK(q)
  BY <1>2, <1>13 DEF WatchOK, MayReconnect, Eligible, Connecting
<1>19. GetSessionId(p) # NoSession => GetSessionId(q) # NoSession
  BY <1>13 DEF wanted, GetSessionId
<1> QED BY <1>2, <1>10, <1>13, <1>15, <1>16, <1>17, <1>18, <1>19 DEF PageOK, Sound

(* The order of a change of the timer and one it does not read.            *)
LEMMA ScheduleCommutes ==
  ASSUME NEW p \in Pages
  PROVE  /\ \A n : [Schedule(p) EXCEPT !.newSession = n] = Schedule([p EXCEPT !.newSession = n])
         /\ \A b : [Schedule(p) EXCEPT !.needsFreshRetry = b] = Schedule([p EXCEPT !.needsFreshRetry = b])
         /\ SocketClosing(Schedule(p)) = Schedule(SocketClosing(p))
<1>1. \A n : [Schedule(p) EXCEPT !.newSession = n] = Schedule([p EXCEPT !.newSession = n])
  BY ZenonT(60) DEF Schedule, MayReconnect, Visible, Eligible, Pages
<1>2. \A b : [Schedule(p) EXCEPT !.needsFreshRetry = b] = Schedule([p EXCEPT !.needsFreshRetry = b])
  BY ZenonT(60) DEF Schedule, MayReconnect, Visible, Eligible, Pages
<1>3. SocketClosing(Schedule(p)) = Schedule(SocketClosing(p))
  <2> DEFINE f == [w \in Works |-> IF w = p.socket /\ p.readyState[w] # "none" THEN "closing"
                                   ELSE p.readyState[w]]
  <2>1. SocketClosing(p) = [p EXCEPT !.readyState = f]
    BY DEF SocketClosing, Pages
  <2>2. SocketClosing([p EXCEPT !.timer = TRUE]) = [[p EXCEPT !.timer = TRUE] EXCEPT !.readyState = f]
    BY DEF SocketClosing, Pages
  <2> DEFINE closed == [p EXCEPT !.readyState = f]
  <2>3. /\ MayReconnect(closed) <=> MayReconnect(p)
        /\ closed.attempts = p.attempts
    BY DEF MayReconnect, Visible, Eligible, Pages
  <2>4. CASE MayReconnect(p) /\ p.attempts < MaxAttempts
    <3>1. SocketClosing(Schedule(p)) = [[p EXCEPT !.timer = TRUE] EXCEPT !.readyState = f]
      BY <2>2, <2>4 DEF Schedule
    <3>2. Schedule(SocketClosing(p)) = [closed EXCEPT !.timer = TRUE]
      BY <2>1, <2>3, <2>4 DEF Schedule
    <3> HIDE DEF f
    <3> QED BY <3>1, <3>2 DEF Pages
  <2>5. CASE ~(MayReconnect(p) /\ p.attempts < MaxAttempts)
    BY <2>1, <2>3, <2>5 DEF Schedule
  <2> QED BY <2>4, <2>5
<1> QED BY <1>1, <1>2, <1>3

(* A page that keeps both ids keeps its locator.                           *)
LEMMA SameLocator ==
  ASSUME NEW p, NEW q, q.sessionId = p.sessionId, q.requestedSessionId = p.requestedSessionId
  PROVE  LocatorStays(p, q)
BY DEF LocatorStays, GetSessionId

(* What the store keeps matters only to an attempt that has its socket.    *)
LEMMA StoredSet ==
  ASSUME NEW p, BaseOK(p), ~Attached(p), NEW k \in Credentials \cup {NoCredential}
  PROVE  LET q == [p EXCEPT !.stored = k]
         IN  BaseOK(q) /\ ~Attached(q) /\ (PageOK(p) => PageOK(q))
<1> DEFINE q == [p EXCEPT !.stored = k]
<1>1. p \in Pages /\ q \in Pages
  <2>1. p \in Pages
    BY DEF BaseOK
  <2> QED BY <2>1, ZenonT(60) DEF Pages
<1>2. QueueOK(q) /\ SocketsOK(q) /\ ~Attached(q)
  BY <1>1, QueueReads, SocketsReads DEF BaseOK, Pages, Attached
<1>3. BaseOK(q)
  BY <1>1, <1>2 DEF BaseOK, Pages, ControllerOK
<1>4. PlaceOK(p) => PlaceOK(q)
  BY <1>1, PlaceReads, ZenonT(60) DEF Pages
<1>5. HandshakeOK(q) /\ MachineOK(q)
  BY <1>2 DEF HandshakeOK, MachineOK
<1>6. WatchOK(p) => WatchOK(q)
  BY <1>1 DEF Pages, WatchOK, MayReconnect, Visible, Eligible
<1> QED BY <1>2, <1>3, <1>4, <1>5, <1>6 DEF PageOK, Sound

(* connect() with the credential: a socket is being opened, or the attempt *)
(* is given up.                                                            *)
LEMMA LoadedKeeps ==
  ASSUME NEW p, PageOK(p), p.operations # <<>>, Head(p.operations).kind = "load",
         NEW k \in Credentials \cup {NoCredential},
         NEW q \in Loaded([Dequeue(p) EXCEPT !.stored = k], Head(p.operations).work)
  PROVE  PageOK(q) /\ LocatorStays(p, q)
<1> DEFINE d == Dequeue(p)
           rest == [d EXCEPT !.stored = k]
           w == Head(p.operations).work
<1>1. BaseOK(p) /\ p \in Pages
  BY DEF PageOK, Sound, BaseOK
<1>2. /\ BaseOK(d)
      /\ d = [p EXCEPT !.operations = d.operations]
      /\ Head(p.operations) = p.operations[1] /\ w \in Works
      /\ w = p.work => d.operations = <<>>
      /\ 1 \in 1..Len(p.operations)
  BY <1>1, DequeueKeeps, DequeueIs DEF Operations
<1>3. ~Attached(p)
  BY <1>1, <1>2 DEF BaseOK, QueueOK
<1> HIDE DEF d
<1>4. ~Attached(d) /\ d \in Pages /\ d.sessionId = p.sessionId /\ d.requestedSessionId = p.requestedSessionId
  BY <1>1, <1>2, <1>3, SMTT(30) DEF Attached, Pages, BaseOK
<1>5. BaseOK(rest) /\ ~Attached(rest) /\ (PageOK(d) => PageOK(rest))
  BY <1>2, <1>4, StoredSet
<1>6. CASE w # p.work
  <2>1. PageOK(d)
    BY <1>6, DequeuePage DEF d
  <2>2. rest.work # w
    BY <1>1, <1>2, <1>4, <1>6 DEF Pages
  <2>3. q = rest
    BY <2>2 DEF Loaded, d
  <2> QED BY <1>4, <1>5, <2>1, <2>3, SameLocator DEF Pages
<1>7. CASE w = p.work
  <2> DEFINE ready == [rest EXCEPT !.credential = rest.stored, !.machine = NewStates]
             made == [ready EXCEPT !.socket = w, !.readyState[w] = "connecting", !.connectTimer = TRUE]
  <2>1. q \in {made, Release(ready)}
    <3>1. rest.work = w
      BY <1>1, <1>2, <1>4, <1>7 DEF Pages
    <3> QED BY <3>1 DEF Loaded, d
  <2>2. /\ rest.operations = <<>> /\ rest.work = w /\ rest.socket = p.socket
        /\ rest.readyState = p.readyState /\ rest.state = p.state /\ rest.newSession = p.newSession
        /\ rest.sessionId = p.sessionId /\ rest.requestedSessionId = p.requestedSessionId
        /\ rest.disposed = p.disposed /\ rest.stopped = p.stopped /\ rest.proving = p.proving
        /\ rest.inbound = p.inbound /\ rest.timer = p.timer /\ rest.attempts = p.attempts
    BY <1>1, <1>2, <1>4, <1>7 DEF Pages
  <2>3. rest \in Pages
    BY <1>5 DEF BaseOK
  <2>4. /\ LoadingIn(p, p.work) /\ p.state \in Connecting
        /\ p.work \notin p.proving /\ p.inbound = <<>>
    BY <1>1, <1>2, <1>3, <1>7 DEF LoadingIn, PageOK, Sound, BaseOK, QueueOK, PlaceOK
  <2>5. NewStates \in Machines /\ NewStates.connectionState = "NEW" /\ NewStates.sessionState = "NONE"
    BY MachineStates DEF NewStates, Machines
  <2> HIDE DEF rest, w
  <2>6. ready \in Pages
    <3> DEFINE r == [rest EXCEPT !.credential = rest.stored]
    <3>1. r \in Pages
      BY <2>3 DEF Pages
    <3>2. ready = [r EXCEPT !.machine = NewStates]
      BY <2>3 DEF Pages
    <3> HIDE DEF r
    <3> QED BY <2>5, <3>1, <3>2, Edits
  <2>7. /\ ready.operations = <<>> /\ ready.work = w /\ ready.socket = p.socket
        /\ ready.readyState = p.readyState /\ ready.state = p.state /\ ready.newSession = p.newSession
        /\ ready.sessionId = p.sessionId /\ ready.requestedSessionId = p.requestedSessionId
        /\ ready.disposed = p.disposed /\ ready.stopped = p.stopped /\ ready.proving = p.proving
        /\ ready.inbound = <<>> /\ ready.timer = p.timer /\ ready.attempts = p.attempts
        /\ ready.machine = NewStates /\ ready.stored = ready.credential
    BY <2>2, <2>3, <2>4 DEF Pages
  <2>8. BaseOK(ready)
    <3>1. QueueOK(ready) /\ SocketsOK(ready)
      <4>1. /\ ready.operations = rest.operations /\ ready.work = rest.work
            /\ ready.socket = rest.socket /\ ready.proving = rest.proving
            /\ ready.inbound = rest.inbound /\ ready.readyState = rest.readyState
        BY <2>2, <2>4, <2>7
      <4> HIDE DEF ready
      <4> QED BY <1>5, <4>1, QueueReads, SocketsReads DEF BaseOK
    <3> QED BY <1>1, <2>6, <2>7, <3>1 DEF BaseOK, ControllerOK
  <2>9. CASE q = Release(ready)
    <3> HIDE DEF ready
    <3> QED BY <2>7, <2>8, <2>9, ReleaseKeeps, SameLocator
  <2>10. CASE q = made
    <3> DEFINE f == [p.readyState EXCEPT ![w] = "connecting"]
               r == [ready EXCEPT !.readyState = f]
    <3>1. f \in [Works -> {"none", "connecting", "open", "closing"}] /\ f[w] = "connecting"
          /\ \A v \in Works : v # w => f[v] = p.readyState[v]
      BY <1>1, <1>2, <1>7 DEF Pages, w
    <3>2. r \in Pages
      <4> HIDE DEF f, ready
      <4> QED BY <2>6, <3>1, Edits
    <3>3. q = [r EXCEPT !.socket = w, !.connectTimer = TRUE]
      <4> HIDE DEF ready
      <4> QED BY <2>6, <2>7, <2>10 DEF Pages
    <3>4. w \in Works /\ w # NoWork
      BY <1>2, PageAssumption DEF w
    <3>5. /\ r.operations = <<>> /\ r.work = w
          /\ r.readyState = f /\ r.state = p.state /\ r.newSession = p.newSession
          /\ r.sessionId = p.sessionId /\ r.requestedSessionId = p.requestedSessionId
          /\ r.disposed = p.disposed /\ r.stopped = p.stopped /\ r.proving = p.proving
          /\ r.inbound = <<>> /\ r.timer = p.timer /\ r.attempts = p.attempts
          /\ r.machine = NewStates /\ r.stored = r.credential
      <4> HIDE DEF ready
      <4> QED BY <2>6, <2>7 DEF Pages
    <3> HIDE DEF f, r, ready
    <3>6. q \in Pages
      BY <3>2, <3>3, <3>4 DEF Pages
    <3>7. /\ q.operations = <<>> /\ q.work = w /\ q.socket = w
          /\ q.readyState = f /\ q.state = p.state /\ q.newSession = p.newSession
          /\ q.sessionId = p.sessionId /\ q.requestedSessionId = p.requestedSessionId
          /\ q.disposed = p.disposed /\ q.stopped = p.stopped /\ q.proving = p.proving
          /\ q.inbound = <<>> /\ q.timer = p.timer /\ q.attempts = p.attempts
          /\ q.machine = NewStates /\ q.stored = q.credential
      BY <3>2, <3>3, <3>5 DEF Pages
    <3>8. p.state \notin Idle /\ p.newSession # "closing" /\ ~p.disposed
      BY <1>7, <2>4, <3>4 DEF Idle, Connecting, PageOK, Sound, PlaceOK
    <3>9. \A v \in Works : v # w => f[v] \notin {"connecting", "open"}
      BY <1>1, <1>3, <1>7, <3>1, <3>4 DEF BaseOK, SocketsOK, Current, Attached
    <3>10. BaseOK(q)
      <4>1. QueueOK(q)
        BY <3>4, <3>7 DEF QueueOK, OneEach, Attached
      <4>2. SocketsOK(q)
        BY <3>7, <3>9 DEF SocketsOK, Current
      <4> QED BY <1>1, <3>6, <3>7, <4>1, <4>2 DEF BaseOK, ControllerOK
    <3>11. PlaceOK(q)
      BY <2>4, <3>4, <3>7, <3>8 DEF PageOK, Sound, PlaceOK, LoadingIn, Connecting
    <3>12. HandshakeOK(q) /\ MachineOK(q)
      BY <1>7, <2>4, <2>5, <3>1, <3>7 DEF HandshakeOK, MachineOK, Saving, Connecting
    <3>13. WatchOK(q)
      BY <2>4, <3>7, <3>8 DEF WatchOK, MayReconnect, Eligible, Connecting
    <3> QED BY <3>7, <3>10, <3>11, <3>12, <3>13, SameLocator DEF PageOK, Sound
  <2> QED BY <2>1, <2>9, <2>10
<1> QED BY <1>6, <1>7

(* connect() without the credential.                                       *)
LEMMA LoadFailedKeeps ==
  ASSUME NEW p, PageOK(p), p.operations # <<>>, Head(p.operations).kind = "load"
  PROVE  LET q == LoadFailed(Dequeue(p), Head(p.operations).work)
         IN  PageOK(q) /\ LocatorStays(p, q)
<1> DEFINE d == Dequeue(p)
           w == Head(p.operations).work
           a == [d EXCEPT !.errorCode = "AUTHENTICATION_FAILED"]
           b == [a EXCEPT !.state = "error"]
           e == [b EXCEPT !.newSession = "none"]
<1>1. BaseOK(p) /\ p \in Pages
  BY DEF PageOK, Sound, BaseOK
<1>2. /\ BaseOK(d) /\ d \in Pages
      /\ d = [p EXCEPT !.operations = d.operations]
      /\ Head(p.operations) = p.operations[1] /\ w \in Works
      /\ w = p.work => d.operations = <<>>
      /\ 1 \in 1..Len(p.operations)
  BY <1>1, DequeueKeeps, DequeueIs DEF Operations
<1>3. ~Attached(p)
  BY <1>1, <1>2 DEF BaseOK, QueueOK
<1> HIDE DEF d, w
<1>4. /\ d.work = p.work /\ d.socket = p.socket /\ d.readyState = p.readyState
      /\ d.sessionId = p.sessionId /\ d.requestedSessionId = p.requestedSessionId
      /\ d.proving = p.proving /\ d.inbound = p.inbound /\ d.disposed = p.disposed
      /\ d.timer = p.timer /\ d.attempts = p.attempts
      /\ d.stored = p.stored /\ d.credential = p.credential
  BY <1>1, <1>2 DEF Pages
<1>5. CASE w # p.work
  <2>1. PageOK(d)
    BY <1>5, DequeuePage DEF d, w
  <2>2. LoadFailed(d, w) = d
    BY <1>4, <1>5 DEF LoadFailed
  <2> QED BY <1>4, <2>1, <2>2, SameLocator DEF d, w
<1>6. CASE w = p.work
  <2>1. d.operations = <<>> /\ LoadingIn(p, p.work) /\ p.state \in Connecting /\ ~p.disposed
    <3>1. LoadingIn(p, p.work)
      BY <1>2, <1>6 DEF LoadingIn, w
    <3>2. p.work # NoWork
      BY <1>2, <1>6, PageAssumption
    <3> QED BY <1>2, <1>6, <3>1, <3>2 DEF PageOK, Sound, PlaceOK
  <2>2. a \in Pages
    BY <1>2, ZenonT(60) DEF Pages, ErrorCodes
  <2>3. b \in Pages
    <3>1. "error" \in States
      BY StatesAre
    <3> HIDE DEF a
    <3> QED BY <2>2, <3>1, Edits
  <2>4. e \in Pages
    <3> HIDE DEF b
    <3> QED BY <2>3 DEF Pages
  <2>5. LoadFailed(d, w) = Schedule(e)
    <3>1. LoadFailed(d, w) = [Schedule(b) EXCEPT !.newSession = "none"]
      BY <1>4, <1>6 DEF LoadFailed, SetState
    <3> HIDE DEF b
    <3> QED BY <2>3, <3>1, ScheduleCommutes
  <2>6. /\ e.operations = <<>> /\ e.work = p.work /\ e.socket = p.socket
        /\ e.readyState = p.readyState /\ e.state = "error" /\ e.newSession = "none"
        /\ e.sessionId = p.sessionId /\ e.requestedSessionId = p.requestedSessionId
        /\ e.proving = p.proving /\ e.inbound = p.inbound /\ e.disposed = p.disposed
        /\ e.timer = p.timer /\ e.attempts = p.attempts
        /\ e.stored = p.stored /\ e.credential = p.credential
    BY <1>2, <1>4, <2>1, <2>2, <2>3 DEF Pages
  <2> HIDE DEF e
  <2>7. BaseOK(e)
    <3>1. QueueOK(e)
      BY <1>1, <2>6 DEF BaseOK, QueueOK, OneEach, Attached
    <3>2. SocketsOK(e)
      BY <1>1, <2>6, SocketsReads DEF BaseOK
    <3> QED BY <1>1, <2>4, <2>6, <3>1, <3>2 DEF BaseOK, ControllerOK, Attached
  <2>8. Silent(e) /\ ~LoadingIn(e, e.work) /\ HandshakeOK(e)
    <3>1. Silent(e)
      <4>1. \A v \in Works : v # NoWork
        BY PageAssumption
      <4> QED BY <1>1, <1>3, <2>6, <4>1 DEF BaseOK, SocketsOK, Current, Attached, Silent
    <3>2. ~LoadingIn(e, e.work) /\ HandshakeOK(e)
      BY <1>3, <2>6 DEF LoadingIn, HandshakeOK, Attached
    <3> QED BY <3>1, <3>2
  <2>9. /\ PageOK(Schedule(e))
        /\ Schedule(e) = [e EXCEPT !.timer = Schedule(e).timer]
    BY <2>1, <2>6, <2>7, <2>8, RestKeeps DEF Idle
  <2> QED BY <2>4, <2>5, <2>6, <2>9, SameLocator DEF Pages, d, w
<1> QED BY <1>5, <1>6

(* The saving of a credential, when it ends.                               *)
LEMMA SavedKeeps ==
  ASSUME NEW p, PageOK(p), p.operations # <<>>, Head(p.operations).kind = "save"
  PROVE  LET head == Head(p.operations)
             q == Saved([Dequeue(p) EXCEPT !.stored = head.credential], head.work, head.credential)
         IN  PageOK(q) /\ LocatorStays(p, q)
<1> DEFINE d == Dequeue(p)
           head == Head(p.operations)
           w == head.work
           k == head.credential
           rest == [d EXCEPT !.stored = k]
           a == [rest EXCEPT !.credential = k]
           e == [a EXCEPT !.state = "authenticating"]
<1>1. BaseOK(p) /\ p \in Pages
  BY DEF PageOK, Sound, BaseOK
<1>2. /\ BaseOK(d) /\ d \in Pages
      /\ d = [p EXCEPT !.operations = d.operations]
      /\ head = p.operations[1] /\ w \in Works /\ k \in Credentials \cup {NoCredential}
      /\ w = p.work => d.operations = <<>>
      /\ 1 \in 1..Len(p.operations)
  BY <1>1, DequeueKeeps, DequeueIs DEF Operations
<1>3. PageOK(d)
  BY DequeuePage
<1>4. w = p.work <=> Attached(p)
  BY <1>1, <1>2 DEF BaseOK, QueueOK
<1> HIDE DEF d, w, k
<1>5. /\ d.work = p.work /\ d.socket = p.socket /\ d.readyState = p.readyState
      /\ d.sessionId = p.sessionId /\ d.requestedSessionId = p.requestedSessionId
      /\ d.proving = p.proving /\ d.inbound = p.inbound /\ d.disposed = p.disposed
      /\ d.timer = p.timer /\ d.attempts = p.attempts /\ d.state = p.state
      /\ d.machine = p.machine /\ d.newSession = p.newSession
  BY <1>1, <1>2 DEF Pages
<1>k. d \in Pages /\ k \in Credentials \cup {NoCredential}
  BY <1>2
<1>t. rest \in Pages
  BY <1>k, ZenonT(60) DEF Pages
<1>r. /\ rest.work = p.work /\ rest.socket = p.socket
      /\ rest.sessionId = p.sessionId /\ rest.requestedSessionId = p.requestedSessionId
  BY <1>k, <1>5 DEF Pages
<1>6. CASE ~Attached(p)
  <2>1. PageOK(rest)
    <3>1. ~Attached(d)
      BY <1>5, <1>6 DEF Attached
    <3> QED BY <1>2, <1>3, <3>1, StoredSet
  <2>2. Saved(rest, w, k) = rest
    BY <1>4, <1>6, <1>r DEF Saved, Current
  <2> QED BY <1>r, <2>1, <2>2, SameLocator DEF d, w, k
<1>7. CASE Attached(p)
  <2>1. Saving(p, p.work) /\ p.work = p.socket /\ p.work # NoWork
    BY <1>2, <1>4, <1>7 DEF Saving, w, Attached
  <2>2. /\ p.machine.connectionState = "UNAUTHENTICATED" /\ p.machine.sessionState = "NONE"
        /\ p.work \notin p.proving
    BY <1>7, <2>1 DEF PageOK, Sound, HandshakeOK
  <2>3. /\ p.newSession # "closing" /\ ~p.disposed
        /\ p.readyState[p.socket] # "connecting"
    BY <1>7, <2>1, <2>2 DEF PageOK, Sound, PlaceOK, MachineOK
  <2> HIDE DEF rest
  <2>4. Saved(rest, w, k) = Schedule(e)
    BY <1>4, <1>7, <1>r, <2>1 DEF Saved, Current, SetState
  <2>5. a \in Pages
    <3>1. k \in Credentials \cup {NoCredential}
      BY <1>k
    <3> QED BY <1>t, <3>1 DEF Pages
  <2>6. e \in Pages
    <3>1. "authenticating" \in States
      BY StatesAre
    <3> HIDE DEF a
    <3> QED BY <2>5, <3>1, Edits
  <2>7. /\ e.operations = <<>> /\ e.work = p.work /\ e.socket = p.socket
        /\ e.readyState = p.readyState /\ e.state = "authenticating" /\ e.newSession = p.newSession
        /\ e.sessionId = p.sessionId /\ e.requestedSessionId = p.requestedSessionId
        /\ e.proving = p.proving /\ e.inbound = p.inbound /\ e.disposed = p.disposed
        /\ e.timer = p.timer /\ e.attempts = p.attempts /\ e.machine = p.machine
        /\ e.stored = k /\ e.credential = k
    <3>1. rest.operations = <<>>
      BY <1>2, <1>4, <1>7 DEF rest, Pages
    <3>2. /\ rest.readyState = p.readyState /\ rest.newSession = p.newSession
          /\ rest.proving = p.proving /\ rest.inbound = p.inbound /\ rest.disposed = p.disposed
          /\ rest.timer = p.timer /\ rest.attempts = p.attempts /\ rest.machine = p.machine
          /\ rest.stored = k
      BY <1>2, <1>5 DEF rest, Pages
    <3> QED BY <1>t, <1>r, <3>1, <3>2, <2>5 DEF Pages
  <2> HIDE DEF e
  <2>8. BaseOK(e)
    <3>1. QueueOK(e)
      BY <1>1, <1>7, <2>7 DEF BaseOK, QueueOK, OneEach, Attached
    <3>2. SocketsOK(e)
      BY <1>1, <2>7, SocketsReads DEF BaseOK
    <3> QED BY <1>1, <2>6, <2>7, <3>1, <3>2 DEF BaseOK, ControllerOK
  <2>9. PlaceOK(e)
    BY <1>7, <2>3, <2>7 DEF PageOK, Sound, PlaceOK, Silent, LoadingIn, Attached, Idle, Connecting
  <2>10. HandshakeOK(e) /\ MachineOK(e)
    BY <1>7, <2>2, <2>3, <2>7 DEF PageOK, Sound, HandshakeOK, MachineOK, Saving, Attached
  <2>11. /\ PageOK(Schedule(e))
         /\ Schedule(e) = [e EXCEPT !.timer = Schedule(e).timer]
    BY <2>7, <2>8, <2>9, <2>10, ScheduleKeeps DEF Sound
  <2> QED BY <2>4, <2>6, <2>7, <2>11, SameLocator DEF Pages, rest, d, w, k
<1> QED BY <1>6, <1>7

(* The store could not save a credential.                                  *)
LEMMA SaveFailedKeeps ==
  ASSUME NEW p, PageOK(p), p.operations # <<>>, Head(p.operations).kind = "save"
  PROVE  LET q == SaveFailed(Dequeue(p), Head(p.operations).work)
         IN  PageOK(q) /\ LocatorStays(p, q)
<1> DEFINE d == Dequeue(p)
           w == Head(p.operations).work
<1>1. BaseOK(p) /\ p \in Pages
  BY DEF PageOK, Sound, BaseOK
<1>2. d = [p EXCEPT !.operations = d.operations] /\ w \in Works
  BY <1>1, DequeueKeeps DEF Operations
<1>3. PageOK(d)
  BY DequeuePage
<1> HIDE DEF d, w
<1>4. d.sessionId = p.sessionId /\ d.requestedSessionId = p.requestedSessionId
  BY <1>1, <1>2 DEF Pages
<1>5. CASE ~Current(d, w)
  BY <1>3, <1>4, <1>5, SameLocator DEF SaveFailed, d, w
<1>6. CASE Current(d, w)
  <2>1. Attached(d) /\ ~d.disposed
    BY <1>2, <1>3, <1>6, PageAssumption DEF Current, Attached, PageOK, Sound, PlaceOK
  <2>2. "AUTHENTICATION_FAILED" \in ErrorCodes
    BY DEF ErrorCodes
  <2>3. LET q == Fail(d, "AUTHENTICATION_FAILED")
        IN  PageOK(q) /\ q.sessionId = d.sessionId /\ q.requestedSessionId = d.requestedSessionId
    BY <1>3, <2>1, <2>2, FailKeeps DEF PageOK, Sound
  <2>4. SaveFailed(d, w) = Fail(d, "AUTHENTICATION_FAILED")
    BY <1>6 DEF SaveFailed
  <2> QED BY <1>4, <2>3, <2>4, SameLocator DEF d, w
<1> QED BY <1>5, <1>6

(* onopen.  The machine is a new one, so hello is let through.             *)
LEMMA OpenedKeeps ==
  ASSUME NEW p, PageOK(p), NEW w \in Works, p.readyState[w] = "connecting",
         NEW q \in {Opened(p, w), OpenedElse(p, w)}
  PROVE  PageOK(q) /\ LocatorStays(p, q)
<1> DEFINE f == [p.readyState EXCEPT ![w] = "open"]
           r == [p EXCEPT !.readyState = f]
           o == [r EXCEPT !.connectTimer = FALSE]
<1>1. BaseOK(p) /\ p \in Pages
  BY DEF PageOK, Sound, BaseOK
<1>2. Current(p, w) /\ w # NoWork /\ p.work = w /\ p.socket = w
  BY <1>1, PageAssumption DEF BaseOK, SocketsOK, Current
<1>3. /\ Attached(p) /\ p.state \notin Idle /\ ~p.disposed
      /\ p.machine.connectionState = "NEW" /\ p.machine.sessionState = "NONE"
      /\ p.machine \in Machines
  BY <1>1, <1>2 DEF Attached, PageOK, Sound, PlaceOK, Silent, MachineOK, HandshakeOK, Pages
<1>4. /\ f \in [Works -> {"none", "connecting", "open", "closing"}] /\ f[w] = "open"
      /\ \A v \in Works : v # w => f[v] = p.readyState[v]
  BY <1>1 DEF Pages
<1>5. [p EXCEPT !.readyState[w] = "open", !.connectTimer = FALSE] = o
  BY <1>1 DEF Pages
<1> HIDE DEF f
<1>6. r \in Pages
  BY <1>1, <1>4, Edits
<1>7. /\ o.operations = p.operations /\ o.work = w /\ o.socket = w /\ o.proving = p.proving
      /\ o.inbound = p.inbound /\ o.readyState = f /\ o.timer = p.timer
      /\ o.attempts = p.attempts /\ o.disposed = p.disposed /\ o.state = p.state
      /\ o.newSession = p.newSession /\ o.sessionId = p.sessionId
      /\ o.requestedSessionId = p.requestedSessionId /\ o.machine = p.machine
      /\ o.stored = p.stored /\ o.credential = p.credential
      /\ o.stopped = p.stopped /\ o.hidden = p.hidden /\ o.shown = p.shown
  BY <1>1, <1>2 DEF Pages
<1>8. o \in Pages
  <2> HIDE DEF r
  <2> QED BY <1>6, ZenonT(60) DEF Pages
<1> HIDE DEF o
<1>9. BaseOK(o)
  <2>1. QueueOK(o)
    BY <1>1, <1>2, <1>7, QueueReads DEF BaseOK
  <2>2. SocketsOK(o)
    BY <1>1, <1>2, <1>4, <1>7 DEF BaseOK, SocketsOK, Current
  <2> QED BY <1>1, <1>3, <1>7, <1>8, <2>1, <2>2 DEF BaseOK, ControllerOK, Attached
<1>10. PlaceOK(o)
  BY <1>2, <1>3, <1>7 DEF PageOK, Sound, PlaceOK, LoadingIn, Attached
<1>11. HandshakeOK(o) /\ MachineOK(o)
  BY <1>2, <1>3, <1>4, <1>7 DEF PageOK, Sound, HandshakeOK, MachineOK, Saving, Attached
<1>12. WatchOK(o)
  BY <1>3, <1>7 DEF PageOK, WatchOK, MayReconnect, Visible, Eligible, Idle
<1>13. PageOK(o) /\ Attached(o) /\ SocketIsOpen(o)
  BY <1>2, <1>4, <1>7, <1>9, <1>10, <1>11, <1>12
     DEF PageOK, Sound, Attached, SocketIsOpen, HasSocket
<1>14. ASSUME NEW code \in ErrorCodes, q = Fail(o, code)
       PROVE  PageOK(q) /\ LocatorStays(p, q)
  BY <1>3, <1>7, <1>9, <1>11, <1>13, <1>14, FailKeeps, SameLocator
<1>15. CASE q = OpenedElse(p, w)
  <2>1. q = Fail(o, "UNSUPPORTED_VERSION")
    BY <1>2, <1>5, <1>15 DEF OpenedElse
  <2> QED BY <1>14, <2>1 DEF ErrorCodes
<1>16. CASE q = Opened(p, w)
  <2>1. q = Send(o, "hello")
    BY <1>2, <1>5, <1>16 DEF Opened
  <2> DEFINE n == Advanced(o.machine, "client", "hello", o.sessionId)
  <2>2. \/ \E code \in ErrorCodes : q = Fail(o, code)
        \/ Accepts(o.machine, "client", "hello", o.sessionId) /\ q = [o EXCEPT !.machine = n]
    BY <1>8, <1>13, <2>1, SendCases
  <2>3. CASE Accepts(o.machine, "client", "hello", o.sessionId) /\ q = [o EXCEPT !.machine = n]
    <3>1. /\ n \in Machines
          /\ n.connectionState = "NEGOTIATING" /\ n.sessionState = "NONE"
      BY <1>3, <1>7, <2>3, ClientFrame DEF Machines
    <3> HIDE DEF n
    <3>2. BaseOK(q) /\ PlaceOK(q) /\ WatchOK(q)
      BY <1>9, <1>10, <1>12, <2>3, <3>1, MachineSet
    <3>3. q.machine = n /\ q.operations = o.operations /\ q.work = o.work /\ q.socket = o.socket
          /\ q.proving = o.proving /\ q.readyState = o.readyState /\ q.state = o.state
          /\ q.sessionId = o.sessionId /\ q.requestedSessionId = o.requestedSessionId
      BY <1>8, <2>3 DEF Pages
    <3>4. ~Saving(o, o.work) /\ o.work \notin o.proving /\ o.state \notin {"closing", "connected", "pairing"}
      BY <1>3, <1>7, <1>11, <1>13 DEF HandshakeOK, MachineOK, Saving
    <3>5. HandshakeOK(q) /\ MachineOK(q)
      BY <1>3, <1>4, <1>7, <3>1, <3>3, <3>4 DEF HandshakeOK, MachineOK, Saving, Attached, Idle
    <3> QED BY <1>7, <3>2, <3>3, <3>5, SameLocator DEF PageOK, Sound
  <2> QED BY <1>14, <2>2, <2>3
<1> QED BY <1>15, <1>16

(* onclose.  Frames may wait behind a receive() that waits itself.         *)
Settled(p) == p.inbound # <<>> => Waiting(p)

(* The close event of a socket, the one in hand or one that was dropped.   *)
LEMMA ClosedKeeps ==
  ASSUME NEW p, PageOK(p), Settled(p), NEW w \in Works
  PROVE  LET q == Closed(p, w)
         IN  /\ PageOK(q)
             /\ q.sessionId = p.sessionId /\ q.requestedSessionId = p.requestedSessionId
<1> DEFINE f == [p.readyState EXCEPT ![w] = "none"]
           gone == [p EXCEPT !.readyState = f]
           lone == [gone EXCEPT !.connectTimer = FALSE]
           still == TimersStopped(lone)
<1>1. BaseOK(p) /\ p \in Pages
  BY DEF PageOK, Sound, BaseOK
<1>2. /\ f \in [Works -> {"none", "connecting", "open", "closing"}] /\ f[w] = "none"
      /\ \A v \in Works : v # w => f[v] = p.readyState[v]
  BY <1>1 DEF Pages
<1>3. Closed(p, w) = IF Current(p, w) THEN TransportClosed(lone) ELSE gone
  BY DEF Closed
<1> HIDE DEF f
<1>4. gone \in Pages
  BY <1>1, <1>2, Edits
<1>5. /\ gone.operations = p.operations /\ gone.work = p.work /\ gone.socket = p.socket
      /\ gone.proving = p.proving /\ gone.inbound = p.inbound /\ gone.readyState = f
      /\ gone.timer = p.timer /\ gone.attempts = p.attempts /\ gone.disposed = p.disposed
      /\ gone.state = p.state /\ gone.newSession = p.newSession /\ gone.sessionId = p.sessionId
      /\ gone.requestedSessionId = p.requestedSessionId /\ gone.machine = p.machine
      /\ gone.stored = p.stored /\ gone.credential = p.credential
      /\ gone.stopped = p.stopped /\ gone.hidden = p.hidden /\ gone.shown = p.shown
      /\ gone.errorCode = p.errorCode /\ gone.failureCause = p.failureCause
  BY <1>1 DEF Pages
<1> HIDE DEF gone
<1>6. BaseOK(gone)
  <2>1. QueueOK(gone)
    BY <1>1, <1>5, QueueReads DEF BaseOK
  <2>2. SocketsOK(gone)
    BY <1>1, <1>2, <1>5 DEF BaseOK, SocketsOK, Current
  <2> QED BY <1>1, <1>4, <1>5, <2>1, <2>2 DEF BaseOK, ControllerOK, Attached
<1>7. HandshakeOK(gone)
  BY <1>5 DEF PageOK, Sound, HandshakeOK, Saving, Attached
<1>8. CASE ~Current(p, w)
  <2>1. PlaceOK(gone)
    BY <1>2, <1>5 DEF PageOK, Sound, PlaceOK, Silent, LoadingIn, Attached
  <2>2. MachineOK(gone)
    <3>1. Attached(p) => f[p.socket] = p.readyState[p.socket]
      BY <1>1, <1>2, <1>8 DEF Attached, Current, Pages
    <3>2. MachineOK(p)
      BY DEF PageOK, Sound
    <3> QED BY <1>5, <3>1, <3>2 DEF MachineOK, Saving, Attached
  <2>3. WatchOK(gone)
    BY <1>5 DEF PageOK, WatchOK, MayReconnect, Visible, Eligible
  <2> QED BY <1>3, <1>5, <1>6, <1>7, <1>8, <2>1, <2>2, <2>3 DEF PageOK, Sound
<1>9. CASE Current(p, w)
  <2>1. p.work = w /\ p.socket = w /\ w # NoWork /\ Attached(p) /\ ~p.disposed /\ ~LoadingIn(p, p.work)
    BY <1>1, <1>9, PageAssumption
       DEF Current, Attached, PageOK, Sound, PlaceOK, LoadingIn, BaseOK, QueueOK
  <2>2. p.inbound # <<>> => p.machine.connectionState \in {"UNAUTHENTICATED", "CHALLENGED"}
    BY <2>1 DEF Settled, Waiting, PageOK, Sound, HandshakeOK
  <2>3. lone \in Pages
    BY <1>4, ZenonT(60) DEF Pages
  <2>4. still \in Pages
    <3> HIDE DEF lone
    <3> QED BY <2>3, TimersStoppedIs
  <2>5. /\ still.operations = p.operations /\ still.work = w /\ still.socket = w
        /\ still.proving = p.proving /\ still.inbound = p.inbound /\ still.readyState = f
        /\ still.timer = p.timer /\ still.attempts = p.attempts /\ ~still.disposed
        /\ still.state = p.state /\ still.newSession = p.newSession /\ still.sessionId = p.sessionId
        /\ still.requestedSessionId = p.requestedSessionId /\ still.machine = p.machine
        /\ still.stored = p.stored /\ still.credential = p.credential
        /\ still.stopped = p.stopped /\ still.hidden = p.hidden /\ still.shown = p.shown
        /\ still.errorCode = p.errorCode /\ still.failureCause = p.failureCause
    BY <1>4, <1>5, <2>1, <2>3 DEF Pages, TimersStopped
  <2>6. lone.state = p.state /\ lone.newSession = p.newSession /\ lone.sessionId = p.sessionId
    BY <1>4, <1>5 DEF Pages
  <2>7. \A v \in Works : f[v] \notin {"connecting", "open"}
    BY <1>1, <1>2, <2>1 DEF BaseOK, SocketsOK, Current
  <2>8. CASE p.state \in Idle
    <3>1. Closed(p, w) = still
      BY <1>3, <1>9, <2>6, <2>8 DEF TransportClosed
    <3> HIDE DEF still, lone
    <3>2. BaseOK(still)
      <4>1. QueueOK(still)
        BY <1>5, <1>6, <2>1, <2>5, QueueReads DEF BaseOK
      <4>2. SocketsOK(still)
        BY <2>5, <2>7 DEF SocketsOK
      <4> QED BY <1>1, <2>1, <2>4, <2>5, <4>1, <4>2 DEF BaseOK, ControllerOK, Attached
    <3>3. PlaceOK(still)
      BY <2>1, <2>5, <2>7, <2>8 DEF PageOK, Sound, PlaceOK, Silent, LoadingIn, Attached
    <3>4. HandshakeOK(still)
      BY <2>1, <2>5 DEF PageOK, Sound, HandshakeOK, Saving, Attached
    <3>5. MachineOK(still)
      BY <1>2, <2>1, <2>2, <2>5, <2>8 DEF PageOK, Sound, PlaceOK, MachineOK, Saving, Attached, Idle
    <3>6. WatchOK(still)
      BY <2>1, <2>5 DEF PageOK, WatchOK, MayReconnect, Visible, Eligible
    <3> QED BY <2>5, <3>1, <3>2, <3>3, <3>4, <3>5, <3>6 DEF PageOK, Sound
  <2>9. CASE p.state \notin Idle
    <3> DEFINE kept == p.newSession = "none" /\ p.sessionId # NoSession
               lost == [still EXCEPT !.failureCause = TRUE, !.newSession = "none"]
               e == IF kept THEN [lost EXCEPT !.state = "detached"]
                    ELSE [lost EXCEPT !.errorCode = "SESSION_OPEN_FAILED", !.state = "error"]
    <3>1. Closed(p, w) = Schedule(e)
      <4>1. Closed(p, w)
              = IF kept THEN Schedule([lost EXCEPT !.state = "detached"])
                ELSE Schedule([[lost EXCEPT !.errorCode = "SESSION_OPEN_FAILED"]
                                 EXCEPT !.state = "error"])
        BY <1>3, <1>9, <2>6, <2>9 DEF TransportClosed, SetState
      <4>2. [[lost EXCEPT !.errorCode = "SESSION_OPEN_FAILED"] EXCEPT !.state = "error"]
              = [lost EXCEPT !.errorCode = "SESSION_OPEN_FAILED", !.state = "error"]
        OBVIOUS
      <4> HIDE DEF lost
      <4> QED BY <4>1, <4>2
    <3> HIDE DEF still
    <3>2. lost \in Pages
      BY <2>4 DEF Pages
    <3>3. e \in Pages
      <4> HIDE DEF lost
      <4>1. /\ "detached" \in States /\ "error" \in States
            /\ "SESSION_OPEN_FAILED" \in ErrorCodes
        BY StatesAre DEF ErrorCodes
      <4>2. [lost EXCEPT !.state = "detached"] \in Pages
        BY <3>2, <4>1 DEF Pages
      <4>3. [lost EXCEPT !.errorCode = "SESSION_OPEN_FAILED", !.state = "error"] \in Pages
        BY <3>2, <4>1 DEF Pages
      <4> QED BY <4>2, <4>3
    <3>4. /\ e.operations = p.operations /\ e.work = w /\ e.socket = w
          /\ e.proving = p.proving /\ e.inbound = p.inbound /\ e.readyState = f
          /\ e.timer = p.timer /\ e.attempts = p.attempts /\ ~e.disposed
          /\ e.state \in {"detached", "error"} /\ e.newSession = "none"
          /\ e.sessionId = p.sessionId
          /\ e.requestedSessionId = p.requestedSessionId /\ e.machine = p.machine
          /\ e.stored = p.stored /\ e.credential = p.credential
      BY <2>4, <2>5, <3>2 DEF Pages
    <3> HIDE DEF e
    <3>5. BaseOK(e)
      <4>1. QueueOK(e)
        BY <1>5, <1>6, <2>1, <3>4, QueueReads DEF BaseOK
      <4>2. SocketsOK(e)
        BY <2>7, <3>4 DEF SocketsOK
      <4> QED BY <1>1, <2>1, <3>3, <3>4, <4>1, <4>2 DEF BaseOK, ControllerOK, Attached
    <3>6. Silent(e) /\ ~LoadingIn(e, e.work)
      BY <2>1, <2>7, <3>4 DEF Silent, LoadingIn
    <3>7. HandshakeOK(e)
      BY <2>1, <3>4 DEF PageOK, Sound, HandshakeOK, Saving, Attached
    <3>8. MachineOK(e)
      BY <1>2, <2>1, <2>2, <3>4 DEF MachineOK, Idle
    <3>9. PageOK(Schedule(e)) /\ Schedule(e) = [e EXCEPT !.timer = Schedule(e).timer]
      BY <3>4, <3>5, <3>6, <3>7, <3>8, RestKeeps DEF Idle
    <3> QED BY <3>1, <3>3, <3>4, <3>9 DEF Pages
  <2> QED BY <2>8, <2>9
<1> QED BY <1>8, <1>9

(* onerror, which is followed by onclose.                                  *)
LEMMA ErroredKeeps ==
  ASSUME NEW p, PageOK(p), Settled(p), NEW w \in Works
  PROVE  LET q == Errored(p, w)
         IN  /\ PageOK(q) /\ Settled(q)
             /\ q.sessionId = p.sessionId /\ q.requestedSessionId = p.requestedSessionId
<1>1. CASE Current(p, w) /\ p.state # "error"
  <2> DEFINE q == Release(p)
  <2>1. /\ PageOK(q) /\ q.work = NoWork
        /\ q.sessionId = p.sessionId /\ q.requestedSessionId = p.requestedSessionId
    BY ReleaseKeeps DEF PageOK, Sound
  <2> HIDE DEF q
  <2>2. Settled(q)
    BY <2>1 DEF Settled, PageOK, Sound, BaseOK, QueueOK, Attached
  <2> QED BY <1>1, <2>1, <2>2 DEF Errored, q
<1> QED BY <1>1 DEF Errored

=============================================================================
