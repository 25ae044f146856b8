--------------------------- MODULE TerminalAdapter ---------------------------
(***************************************************************************)
(* The browser's end of a terminal connection                              *)
(* (terminal/protocolTerminalAdapter.ts) with the reconnect controller     *)
(* that listens to it (BrowserRecovery).                                   *)
(*                                                                         *)
(* JavaScript runs one task at a time to its end, the awaits that are      *)
(* already settled included, so a task is a function from the page before  *)
(* it to the page after it.  What a task cannot do is wait: where the code *)
(* waits for the credential store, for a proof, for the socket, a timer or *)
(* a frame, the rest of the handler is a task of its own, and the guards   *)
(* it starts with (this.work !== work, this.socket !== socket) are         *)
(* translated where they stand.                                            *)
(*                                                                         *)
(* A connection attempt is named by its `work`.  The name is used again    *)
(* when nothing refers to the old attempt any more; NoWork is the work     *)
(* release() and disconnect() put in place, to which nothing ever refers.  *)
(***************************************************************************)
EXTENDS BrowserRecovery, ClientMachine, Sequences

CONSTANTS
  Works,          \* names for connection attempts; bounds the stale ones
  NoWork,
  NoCredential

(* The page: the adapter's fields under their names in the code, and       *)
(*   socket       the work whose socket this.socket is                     *)
(*   readyState   of the socket of each work                               *)
(*   operations   the queue of withCredentialStore; its first has started  *)
(*   stored       what the credential store keeps                          *)
(*   proving      the works whose receive() waits for a proof              *)
(*   inbound      the frames that wait in inboundQueue behind a receive()  *)
(*   connectTimer, heartbeatTimer, authorizationTimer   whether it is set  *)
(* and the fields of the controller and of the shell (TerminalPage).       *)

Idle == {"disconnected", "detached", "error"}

(* getSessionId()                                                          *)
GetSessionId(page) ==
  IF page.requestedSessionId # NoSession THEN page.requestedSessionId ELSE page.sessionId

HasSocket(page) == page.socket # NoWork
SocketIsOpen(page) == HasSocket(page) /\ page.readyState[page.socket] = "open"

(* this.socket === socket && this.work === work, for the handlers of w.    *)
Current(page, w) == page.socket = w /\ page.work = w

(* close() on the socket in hand: its close event is still to come.        *)
SocketClosing(page) ==
  [page EXCEPT !.readyState =
     [w \in Works |-> IF w = page.socket /\ @[w] # "none" THEN "closing" ELSE @[w]]]

(* close() on a socket that is dropped: its handlers find they are stale.  *)
SocketDropped(page) ==
  [page EXCEPT
     !.readyState = [w \in Works |-> IF w = page.socket THEN "none" ELSE @[w]],
     !.socket = NoWork]

TimersStopped(page) == [page EXCEPT !.heartbeatTimer = FALSE, !.authorizationTimer = FALSE]

-----------------------------------------------------------------------------
(* Changes of state, and who listens.                                      *)

(* setState for every state but "connected".                               *)
SetState(page, state) == Schedule([page EXCEPT !.state = state])

(* Mutant of Release: the locator goes with the transport.                 *)
ReleaseForgets(page) ==
  LET free == [TimersStopped(SocketDropped(page)) EXCEPT
                 !.connectTimer = FALSE, !.work = NoWork, !.inbound = <<>>,
                 !.failureCause = TRUE, !.newSession = "none",
                 !.sessionId = NoSession, !.requestedSessionId = NoSession]
  IN  SetState([free EXCEPT !.errorCode = "SESSION_OPEN_FAILED"], "error")

(* release()                                                               *)
Release(page) ==
  LET free == [TimersStopped(SocketDropped(page)) EXCEPT
                 !.connectTimer = FALSE, !.work = NoWork, !.inbound = <<>>,
                 !.failureCause = TRUE, !.newSession = "none"]
  IN  IF page.newSession = "none" /\ GetSessionId(page) # NoSession
      THEN SetState(free, "detached")
      ELSE SetState([free EXCEPT !.errorCode = "SESSION_OPEN_FAILED"], "error")

(* Mutant of SetConnected: nobody looks whether the page is still wanted.  *)
SetConnectedAnyway(page) == Succeeded([page EXCEPT !.state = "connected"])

(* setState("connected"): the controller may release at once.              *)
SetConnected(page) ==
  LET connected == [page EXCEPT !.state = "connected"]
  IN  IF Keeps(page) THEN Succeeded(connected) ELSE Release(Cancel(connected))

(* fail().  The error frame goes out and the socket is closed behind it.   *)
Fail(page, code) ==
  IF page.state = "error" THEN page
  ELSE SetState([TimersStopped(SocketClosing(page)) EXCEPT
                   !.errorCode = code, !.newSession = "none"], "error")

(* Mutant of TransportClosed: whoever waits for a New Session is not told. *)
TransportClosedUntold(page) ==
  LET lost == [TimersStopped(page) EXCEPT !.failureCause = TRUE]
  IN  IF page.state \in Idle THEN TimersStopped(page)
      ELSE IF page.newSession = "none" /\ page.sessionId # NoSession
      THEN SetState(lost, "detached")
      ELSE SetState([lost EXCEPT !.errorCode = "SESSION_OPEN_FAILED"], "error")

(* handleTransportClose()                                                  *)
TransportClosed(page) ==
  LET lost == [TimersStopped(page) EXCEPT !.failureCause = TRUE, !.newSession = "none"]
  IN  IF page.state \in Idle THEN TimersStopped(page)
      ELSE IF page.newSession = "none" /\ page.sessionId # NoSession
      THEN SetState(lost, "detached")
      ELSE SetState([lost EXCEPT !.errorCode = "SESSION_OPEN_FAILED"], "error")

(* sendFrame() and handleSendFailure: a socket that is not open any more   *)
(* is released, a frame the tables refuse is a failure.                    *)
Send(page, type) ==
  IF ~SocketIsOpen(page) THEN Release(page)
  ELSE IF ~Accepts(page.machine, "client", type, page.sessionId)
  THEN Fail(page, Refusal(page.machine, "client", type))
  ELSE [page EXCEPT !.machine = Advanced(@, "client", type, page.sessionId)]

-----------------------------------------------------------------------------
(* The credential store: one operation at a time, in the order they came.  *)

Operation(kind, w, credential) == [kind |-> kind, work |-> w, credential |-> credential]

(* An operation that finds on its turn that its work is over does nothing, *)
(* so the next to start is the first one of the work in hand.              *)
StillWanted(operations, work) ==
  LET wanted == {i \in DOMAIN operations : operations[i].work = work}
  IN  IF wanted = {} THEN <<>>
      ELSE SubSeq(operations, CHOOSE i \in wanted : \A j \in wanted : i <= j, Len(operations))

Enqueue(page, operation) == [page EXCEPT !.operations = Append(@, operation)]

Dequeue(page) ==
  [page EXCEPT !.operations = StillWanted(Tail(@), page.work)]

Saving(page, w) ==
  \E i \in 1..Len(page.operations) :
    page.operations[i].kind = "save" /\ page.operations[i].work = w

(* A receive() of the current work waits, and inboundQueue behind it.      *)
Waiting(page) == HasSocket(page) /\ (Saving(page, page.work) \/ page.work \in page.proving)

-----------------------------------------------------------------------------
(* connect()                                                               *)

Unused(page, w) ==
  /\ w \notin {page.work, page.socket}
  /\ page.readyState[w] = "none"
  /\ w \notin page.proving
  /\ \A i \in 1..Len(page.operations) : page.operations[i].work # w

CanConnect(page) == \E w \in Works : Unused(page, w)

(* It runs up to the wait for the credential.                              *)
Connect(page, sessionId) ==
  LET w == CHOOSE v \in Works : Unused(page, v)
      wanted == IF sessionId # NoSession THEN sessionId ELSE GetSessionId(page)
      next == SetState([page EXCEPT
                !.work = w, !.connectTimer = FALSE, !.inbound = <<>>,
                !.errorCode = "none", !.failureCause = FALSE,
                !.requestedSessionId = wanted],
                IF wanted = NoSession THEN "connecting" ELSE "reconnecting")
  IN  IF page.state \notin Idle THEN page
      ELSE Enqueue(next, Operation("load", w, NoCredential))

(* Mutant of Loaded: the user may have moved on while it waited.           *)
LoadedUnguarded(page, w) ==
  LET ready == [page EXCEPT !.credential = page.stored, !.machine = NewStates]
  IN  {[ready EXCEPT !.socket = w, !.readyState[w] = "connecting", !.connectTimer = TRUE],
       Release(ready)}

(* The credential is here.  The socket is made, or cannot be.              *)
Loaded(page, w) ==
  LET ready == [page EXCEPT !.credential = page.stored, !.machine = NewStates]
  IN  IF page.work # w THEN {page}
      ELSE {[ready EXCEPT !.socket = w, !.readyState[w] = "connecting", !.connectTimer = TRUE],
            Release(ready)}

LoadFailed(page, w) ==
  IF page.work # w THEN page
  ELSE [SetState([page EXCEPT !.errorCode = "AUTHENTICATION_FAILED"], "error")
          EXCEPT !.newSession = "none"]

(* onopen                                                                  *)
Opened(page, w) ==
  IF Current(page, w)
  THEN Send([page EXCEPT !.readyState[w] = "open", !.connectTimer = FALSE], "hello")
  ELSE page

(* onopen of a server that speaks another protocol                         *)
OpenedElse(page, w) ==
  IF Current(page, w)
  THEN Fail([page EXCEPT !.readyState[w] = "open", !.connectTimer = FALSE], "UNSUPPORTED_VERSION")
  ELSE page

(* onerror *)
Errored(page, w) ==
  IF Current(page, w) /\ page.state # "error" THEN Release(page) ELSE page

(* onclose *)
Closed(page, w) ==
  LET gone == [page EXCEPT !.readyState[w] = "none"]
  IN  IF Current(page, w) THEN TransportClosed([gone EXCEPT !.connectTimer = FALSE]) ELSE gone

-----------------------------------------------------------------------------
(* receive(): a frame [type, session, detail] that the machine let through.*)

(* resolveNewSession; the shell forgets that a New Session had failed.     *)
SessionOpened(page, frame) ==
  LET named == [page EXCEPT !.sessionId = frame.session, !.requestedSessionId = NoSession,
                            !.heartbeatTimer = TRUE]
      connected == SetConnected(named)
  IN  IF ~Current(connected, page.work) THEN connected
      ELSE [connected EXCEPT !.fragment = frame.session, !.needsFreshRetry = FALSE,
              !.newSession = IF @ = "opening" THEN "none" ELSE @]

(* Mutant of SessionReopened: the id stays the requested one only.         *)
SessionReopenedUnnamed(page, frame) ==
  IF frame.session # page.requestedSessionId THEN Fail(page, "SESSION_REOPEN_REJECTED")
  ELSE [SetState(page, "replaying") EXCEPT !.needsFreshRetry = FALSE]

SessionReopened(page, frame) ==
  IF frame.session # page.requestedSessionId THEN Fail(page, "SESSION_REOPEN_REJECTED")
  ELSE [SetState([page EXCEPT !.sessionId = frame.session], "replaying")
          EXCEPT !.needsFreshRetry = FALSE]

HistoryEnded(page) == SetConnected([page EXCEPT !.heartbeatTimer = TRUE])

SessionDetached(page) == SocketClosing(SetState(TimersStopped(page), "detached"))

(* The close that New Session asked for goes on to a fresh connection; any *)
(* other end of the session while it waits is its failure.                 *)
SessionClosed(page, frame) ==
  LET ended == [TimersStopped(page) EXCEPT
                  !.fragment = NoSession, !.sessionId = NoSession, !.requestedSessionId = NoSession]
  IN  IF page.newSession # "closing" THEN SetState(SocketClosing(ended), "disconnected")
      ELSE IF frame.detail # "new_session"
      THEN SocketClosing(SetState([ended EXCEPT !.errorCode = "SESSION_OPEN_FAILED",
                                                !.newSession = "none"], "error"))
      ELSE LET closed == SocketClosing(SetState(ended, "disconnected"))
           IN  Connect([closed EXCEPT !.newSession = "opening"], NoSession)

(* A heartbeat or an authorization that ran out is a lost transport.       *)
ErrorReceived(page, frame) ==
  IF frame.detail \in {"HEARTBEAT_TIMEOUT", "AUTHORIZATION_EXPIRED"} THEN Release(page)
  ELSE SocketClosing(SetState([page EXCEPT
         !.errorCode = frame.detail, !.heartbeatTimer = FALSE, !.newSession = "none"], "error"))

(* answerChallenge() up to its wait.                                       *)
Challenged(page) ==
  IF page.credential = NoCredential THEN Fail(page, "AUTHENTICATION_FAILED")
  ELSE [page EXCEPT !.proving = @ \cup {page.work}]

(* openOrReopen() *)
OpenOrReopen(page) == IF page.requestedSessionId # NoSession THEN "reopen_session" ELSE "open_session"

Authorized(page) ==
  LET opening == SetState([page EXCEPT !.authorizationTimer = TRUE], "opening")
  IN  Send(opening, OpenOrReopen(page))

(* The frame's saving waits its turn in the store.                         *)
Paired(page, frame) == Enqueue(page, Operation("save", page.work, frame.detail))

Handled(page, frame) ==
  CASE frame.type = "hello_ack" ->
         SetState(page, IF page.credential = NoCredential THEN "pairing" ELSE "authenticating")
    [] frame.type = "pairing_result" -> Paired(page, frame)
    [] frame.type = "auth_challenge" -> Challenged(page)
    [] frame.type = "auth_result" -> Authorized(page)
    [] frame.type = "session_opened" -> SessionOpened(page, frame)
    [] frame.type = "session_reopened" -> SessionReopened(page, frame)
    [] frame.type = "history_end" -> HistoryEnded(page)
    [] frame.type = "session_detached" -> SessionDetached(page)
    [] frame.type = "session_closed" -> SessionClosed(page, frame)
    [] frame.type = "error" -> ErrorReceived(page, frame)
    [] OTHER -> page     \* terminal_output: what is shown is not modelled

Receive(page, frame) ==
  IF page.state = "error" THEN page
  ELSE IF ~Accepts(page.machine, "agent", frame.type, frame.session)
  THEN Fail(page, Refusal(page.machine, "agent", frame.type))
  ELSE Handled([page EXCEPT !.machine = Advanced(@, "agent", frame.type, frame.session)], frame)

-----------------------------------------------------------------------------
(* What follows the other waits.                                           *)

(* Mutant of Saved: the page may be on another connection by now.          *)
SavedUnguarded(page, w, credential) ==
  SetState([page EXCEPT !.credential = credential], "authenticating")

(* pairing_result, when the credential is stored.                          *)
Saved(page, w, credential) ==
  IF ~Current(page, w) THEN page
  ELSE SetState([page EXCEPT !.credential = credential], "authenticating")

SaveFailed(page, w) ==
  IF ~Current(page, w) THEN page ELSE Fail(page, "AUTHENTICATION_FAILED")

(* answerChallenge(), when the proof is computed, in time or not.          *)
Proved(page, w) ==
  LET sent == Send(page, "auth_response")
  IN  IF ~Current(page, w) THEN page
      ELSE IF ~Current(sent, w) \/ sent.state = "error" THEN sent
      ELSE SetState(sent, "authenticating")

ProvedLate(page, w) ==
  IF ~Current(page, w) THEN page ELSE Fail(page, "AUTHENTICATION_FAILED")

-----------------------------------------------------------------------------
(* What the shell calls.                                                   *)

(* pair() *)
Pair(page) == SetState(Send(page, "pairing_request"), "authenticating")

(* disconnect(): ends the session if it can be told, or gives all up.      *)
Disconnect(page) ==
  LET stopped == [TimersStopped(page) EXCEPT !.connectTimer = FALSE]
  IN  IF page.state = "connected" /\ SocketIsOpen(page)
      THEN Send(SetState(stopped, "closing"), "close_session")
      ELSE SetState([SocketDropped(stopped) EXCEPT
             !.sessionId = NoSession, !.requestedSessionId = NoSession,
             !.newSession = "none", !.work = NoWork, !.inbound = <<>>], "disconnected")

(* newSession() from "connected": a close that cannot be sent, because the *)
(* socket is not open or its buffer full, leaves the page connected.       *)
NewSessionRefused(page) == SetConnected(SetState(page, "closing"))

CloseForNewSession(page) ==
  IF SocketIsOpen(page)
  THEN Send(SetState([page EXCEPT !.newSession = "closing"], "closing"), "close_session")
  ELSE NewSessionRefused(page)

(* newSession() for a locator the agent has rejected.                      *)
OpenInstead(page) ==
  Connect(SetState([SocketDropped(page) EXCEPT
    !.newSession = "opening", !.sessionId = NoSession, !.requestedSessionId = NoSession],
    "disconnected"), NoSession)

NewSession(page) ==
  IF page.state = "connected" THEN CloseForNewSession(page) ELSE OpenInstead(page)

=============================================================================
