------------------------- MODULE TerminalPageProofs -------------------------
(***************************************************************************)
(* The invariants of a terminal page and the rule about its locator, for   *)
(* any number of attempts, sessions, credentials and reconnects: a lemma   *)
(* for each frame, one for each thing the shell does, and then the actions *)
(* of TerminalPage one by one.                                             *)
(***************************************************************************)
EXTENDS TerminalAdapterProofs

(* Frames.  A frame finds the page sound, with nothing that waits before   *)
(* it; it may have waited itself until after the socket was gone.          *)
Hearing(p) ==
  /\ PageOK(p) /\ Attached(p) /\ ~Waiting(p) /\ p.state # "error" /\ CanConnect(p)
  /\ p.readyState[p.socket] = "none" =>
       p.machine.connectionState \in {"UNAUTHENTICATED", "CHALLENGED"}

Heard(p, f) == [p EXCEPT !.machine = Advanced(p.machine, "agent", f.type, f.session)]

(* What the invariant says of a page that hears a frame.                   *)
LEMMA HearingIs ==
  ASSUME NEW p, Hearing(p)
  PROVE  LET m == p.machine
         IN  /\ p \in Pages /\ m \in Machines /\ p.socket = p.work /\ p.work \in Works
             /\ p.operations = <<>> /\ p.work \notin p.proving /\ ~p.disposed
             /\ m.connectionState \notin {"READY", "CLOSING"} =>
                  m.sessionState = "NONE" /\ p.state \notin {"closing", "connected"}
             /\ m.sessionState # "CLOSING" => p.newSession # "closing" /\ p.state # "closing"
             /\ m.sessionState \notin {"NONE", "OPENING"} => p.newSession # "opening"
             /\ m.connectionState = "READY" /\ m.sessionState \notin {"DETACHED", "CLOSED"} =>
                  p.state \notin Idle
             /\ m.connectionState \notin {"UNAUTHENTICATED", "CHALLENGED"} =>
                  p.readyState[p.socket] # "none"
             /\ m.connectionState # "NEW" => p.readyState[p.socket] # "connecting"
             /\ m.connectionState # "UNAUTHENTICATED" => p.state # "pairing"
             /\ p.state = "pairing" => p.credential = NoCredential
             /\ m.sessionState = "REPLAYING" /\ p.state \notin Idle =>
                  m.sessionId = p.sessionId /\ p.sessionId # NoSession
<1>1. p \in Pages /\ p.machine \in Machines /\ p.work \in Works /\ p.socket = p.work
      /\ p.readyState \in [Works -> {"none", "connecting", "open", "closing"}]
  BY DEF Hearing, PageOK, Sound, BaseOK, Pages, Attached
<1>2. p.operations = <<>> /\ p.work \notin p.proving
  <2>1. p.work # NoWork /\ p.work \notin p.proving /\ ~Saving(p, p.work)
    BY DEF Hearing, Attached, Waiting, HasSocket
  <2>2. \A i \in 1..Len(p.operations) : FALSE
    BY <2>1 DEF Hearing, PageOK, Sound, BaseOK, QueueOK, Saving
  <2>3. p.operations \in Seq(Operations)
    BY <1>1 DEF Pages
  <2> QED BY <2>1, <2>2, <2>3
<1>3. PlaceOK(p) /\ HandshakeOK(p) /\ MachineOK(p) /\ Attached(p) /\ p.state # "error"
      /\ (p.readyState[p.socket] = "none" =>
            p.machine.connectionState \in {"UNAUTHENTICATED", "CHALLENGED"})
  BY DEF Hearing, PageOK, Sound
<1>4. ~p.disposed
  BY <1>3 DEF PlaceOK, Attached
<1>5. p.machine.connectionState \notin {"READY", "CLOSING"} =>
        p.machine.sessionState = "NONE" /\ p.state \notin {"closing", "connected"}
  BY <1>3 DEF HandshakeOK, MachineOK
<1>6. /\ p.machine.sessionState # "CLOSING" => p.newSession # "closing" /\ p.state # "closing"
      /\ p.machine.sessionState \notin {"NONE", "OPENING"} => p.newSession # "opening"
      /\ p.machine.connectionState # "NEW" => p.readyState[p.socket] # "connecting"
      /\ p.machine.connectionState # "UNAUTHENTICATED" => p.state # "pairing"
      /\ p.state = "pairing" => p.credential = NoCredential
      /\ p.machine.sessionState = "REPLAYING" /\ p.state \notin Idle =>
           p.machine.sessionId = p.sessionId /\ p.sessionId # NoSession
  BY <1>3 DEF PlaceOK, MachineOK
<1>7. p.machine.connectionState = "READY" /\ p.machine.sessionState \notin {"DETACHED", "CLOSED"} =>
        p.state \notin Idle
  <2>1. SUFFICES ASSUME p.machine.connectionState = "READY", p.state \in Idle
                 PROVE  p.machine.sessionState \in {"DETACHED", "CLOSED"}
    OBVIOUS
  <2>2. p.readyState[p.socket] = "closing"
    BY <1>1, <1>3, <2>1 DEF PlaceOK, Silent
  <2> QED BY <1>3, <2>1, <2>2 DEF MachineOK, Idle
<1> QED BY <1>1, <1>2, <1>3, <1>4, <1>5, <1>6, <1>7

(* The states of the machine before a frame and after it.                  *)
LEMMA FrameStates ==
  ASSUME NEW m \in Machines, NEW f \in Frames, Accepts(m, "agent", f.type, f.session),
         NEW n, n = Advanced(m, "agent", f.type, f.session)
  PROVE  /\ n \in Machines /\ f.type \in FrameTypes
         /\ f.type = "hello_ack" =>
              /\ m.connectionState = "NEGOTIATING"
              /\ n.connectionState = "UNAUTHENTICATED" /\ n.sessionState = m.sessionState
         /\ f.type = "pairing_result" =>
              /\ m.connectionState = "PAIRING"
              /\ n.connectionState = "UNAUTHENTICATED" /\ n.sessionState = m.sessionState
         /\ f.type = "auth_challenge" =>
              /\ m.connectionState = "UNAUTHENTICATED"
              /\ n.connectionState = "CHALLENGED" /\ n.sessionState = m.sessionState
         /\ f.type = "auth_result" =>
              /\ m.connectionState = "PROVING"
              /\ n.connectionState = "READY" /\ n.sessionState = m.sessionState
         /\ f.type = "session_opened" =>
              /\ m.connectionState = "READY" /\ m.sessionState = "OPENING"
              /\ n.connectionState = "READY" /\ n.sessionState = "OPEN" /\ n.sessionId = f.session
         /\ f.type = "session_reopened" =>
              /\ m.connectionState = "READY" /\ m.sessionState = "REOPENING"
              /\ n.connectionState = "READY" /\ n.sessionState = "REPLAYING" /\ n.sessionId = f.session
         /\ f.type = "history_end" =>
              /\ m.connectionState = "READY" /\ m.sessionState = "REPLAYING"
              /\ n.connectionState = "READY" /\ n.sessionState = "OPEN" /\ n.sessionId = m.sessionId
         /\ f.type = "session_detached" =>
              /\ m.connectionState = "READY" /\ m.sessionState = "DETACHING"
              /\ n.connectionState = "READY" /\ n.sessionState = "DETACHED"
         /\ f.type = "session_closed" =>
              /\ m.connectionState = "READY" /\ m.sessionState \in {"OPEN", "CLOSING"}
              /\ n.connectionState = "READY" /\ n.sessionState = "CLOSED"
         /\ f.type = "terminal_output" =>
              /\ m.connectionState = "READY" /\ m.sessionState = "OPEN"
              /\ n = m
         /\ f.type = "error" => n.connectionState = "CLOSING" /\ n.sessionState = m.sessionState
<1>1. n \in Machines /\ f.type \in FrameTypes
  BY AgentFrame DEF Frames
<1>2. f.type = "hello_ack" =>
        /\ m.connectionState = "NEGOTIATING"
        /\ n.connectionState = "UNAUTHENTICATED" /\ n.sessionState = m.sessionState
  <2>1. f.type = "hello_ack" =>
          /\ m.connectionState = "NEGOTIATING"
          /\ n = [m EXCEPT !.connectionState = "UNAUTHENTICATED"]
    BY AgentFrame
  <2> QED BY <2>1 DEF Machines
<1>3. f.type = "pairing_result" =>
        /\ m.connectionState = "PAIRING"
        /\ n.connectionState = "UNAUTHENTICATED" /\ n.sessionState = m.sessionState
  <2>1. f.type = "pairing_result" =>
          /\ m.connectionState = "PAIRING"
          /\ n = [m EXCEPT !.connectionState = "UNAUTHENTICATED"]
    BY AgentFrame
  <2> QED BY <2>1 DEF Machines
<1>4. f.type = "auth_challenge" =>
        /\ m.connectionState = "UNAUTHENTICATED"
        /\ n.connectionState = "CHALLENGED" /\ n.sessionState = m.sessionState
  <2>1. f.type = "auth_challenge" =>
          /\ m.connectionState = "UNAUTHENTICATED"
          /\ n = [m EXCEPT !.connectionState = "CHALLENGED"]
    BY AgentFrame
  <2> QED BY <2>1 DEF Machines
<1>5. f.type = "auth_result" =>
        /\ m.connectionState = "PROVING"
        /\ n.connectionState = "READY" /\ n.sessionState = m.sessionState
  <2>1. f.type = "auth_result" =>
          /\ m.connectionState = "PROVING"
          /\ n = [m EXCEPT !.connectionState = "READY"]
    BY AgentFrame
  <2> QED BY <2>1 DEF Machines
<1>6. f.type = "session_opened" =>
        /\ m.connectionState = "READY" /\ m.sessionState = "OPENING"
        /\ n.connectionState = "READY" /\ n.sessionState = "OPEN" /\ n.sessionId = f.session
  <2>1. f.type = "session_opened" =>
          /\ m.connectionState = "READY" /\ m.sessionState = "OPENING"
          /\ n = [m EXCEPT !.sessionState = "OPEN", !.sessionId = f.session]
    BY AgentFrame
  <2> QED BY <2>1 DEF Machines
<1>7. f.type = "session_reopened" =>
        /\ m.connectionState = "READY" /\ m.sessionState = "REOPENING"
        /\ n.connectionState = "READY" /\ n.sessionState = "REPLAYING" /\ n.sessionId = f.session
  <2>1. f.type = "session_reopened" =>
          /\ m.connectionState = "READY" /\ m.sessionState = "REOPENING"
          /\ n = [m EXCEPT !.sessionState = "REPLAYING", !.sessionId = f.session]
    BY AgentFrame
  <2> QED BY <2>1 DEF Machines
<1>8. f.type = "history_end" =>
        /\ m.connectionState = "READY" /\ m.sessionState = "REPLAYING"
        /\ n.connectionState = "READY" /\ n.sessionState = "OPEN" /\ n.sessionId = m.sessionId
  <2>1. f.type = "history_end" =>
          /\ m.connectionState = "READY" /\ m.sessionState = "REPLAYING"
          /\ n = [m EXCEPT !.sessionState = "OPEN"]
    BY AgentFrame
  <2> QED BY <2>1 DEF Machines
<1>9. f.type = "session_detached" =>
        /\ m.connectionState = "READY" /\ m.sessionState = "DETACHING"
        /\ n.connectionState = "READY" /\ n.sessionState = "DETACHED"
  <2>1. f.type = "session_detached" =>
          /\ m.connectionState = "READY" /\ m.sessionState = "DETACHING"
          /\ n = [m EXCEPT !.sessionState = "DETACHED"]
    BY AgentFrame
  <2> QED BY <2>1 DEF Machines
<1>10. f.type = "session_closed" =>
        /\ m.connectionState = "READY" /\ m.sessionState \in {"OPEN", "CLOSING"}
        /\ n.connectionState = "READY" /\ n.sessionState = "CLOSED"
  <2>1. f.type = "session_closed" =>
          /\ m.connectionState = "READY" /\ m.sessionState \in {"OPEN", "CLOSING"}
          /\ n = [m EXCEPT !.sessionState = "CLOSED"]
    BY AgentFrame
  <2> QED BY <2>1 DEF Machines
<1>11. f.type = "terminal_output" =>
        /\ m.connectionState = "READY" /\ m.sessionState = "OPEN"
        /\ n = m
  BY AgentFrame DEF Machines
<1>12. f.type = "error" => n.connectionState = "CLOSING" /\ n.sessionState = m.sessionState
  <2>1. f.type = "error" => n = [m EXCEPT !.connectionState = "CLOSING"]
    BY AgentFrame
  <2> QED BY <2>1 DEF Machines
<1> QED BY <1>1, <1>2, <1>3, <1>4, <1>5, <1>6, <1>7, <1>8, <1>9, <1>10, <1>11, <1>12

(* What is left of it when the machine has moved.                          *)
LEMMA HeardIs ==
  ASSUME NEW p, Hearing(p), NEW f \in Frames, Accepts(p.machine, "agent", f.type, f.session)
  PROVE  LET h == Heard(p, f)
         IN  /\ BaseOK(h) /\ PlaceOK(h) /\ HandshakeOK(h) /\ WatchOK(h) /\ h \in Pages
             /\ h.machine = Advanced(p.machine, "agent", f.type, f.session)
             /\ Attached(h) /\ ~Saving(h, h.work) /\ h.work \notin h.proving
             /\ h = [p EXCEPT !.machine = h.machine]
<1> DEFINE n == Advanced(p.machine, "agent", f.type, f.session)
           h == Heard(p, f)
<1>1. /\ p \in Pages /\ p.machine \in Machines /\ p.operations = <<>> /\ p.work \notin p.proving
      /\ p.machine.connectionState \notin {"READY", "CLOSING"} => p.machine.sessionState = "NONE"
  BY HearingIs
<1>2. n \in Machines
  BY <1>1, AgentFrame
<1>3. n.sessionState # "NONE" => n.connectionState \in {"READY", "CLOSING"}
  BY <1>1, FrameStates DEF FrameTypes
<1>4. h = [p EXCEPT !.machine = n]
  BY DEF Heard
<1> HIDE DEF n, h
<1>5. BaseOK(h) /\ PlaceOK(h) /\ WatchOK(h)
  BY <1>2, <1>4, MachineSet DEF Hearing, PageOK, Sound
<1>6. /\ h.machine = n /\ h.operations = <<>> /\ h.proving = p.proving
      /\ h.work = p.work /\ h.socket = p.socket
  BY <1>1, <1>4 DEF Pages
<1>7. Attached(h) /\ ~Saving(h, h.work) /\ h.work \notin h.proving
  BY <1>1, <1>6 DEF Hearing, Attached, Saving
<1>8. HandshakeOK(h)
  BY <1>3, <1>6, <1>7 DEF HandshakeOK
<1> QED BY <1>4, <1>5, <1>6, <1>7, <1>8 DEF n, h, BaseOK

(* hello_ack                                                               *)
LEMMA HelloAckKeeps ==
  ASSUME NEW p, Hearing(p), NEW f \in Frames, Accepts(p.machine, "agent", f.type, f.session),
         f.type = "hello_ack"
  PROVE  LET q == Handled(Heard(p, f), f)
         IN  PageOK(q) /\ LocatorStays(p, q)
<1> DEFINE h == Heard(p, f)
           state == IF h.credential = NoCredential THEN "pairing" ELSE "authenticating"
           e == [h EXCEPT !.state = state]
<1>1. Handled(h, f) = Schedule(e)
  BY DEF Handled, SetState
<1>2. /\ BaseOK(h) /\ PlaceOK(h) /\ HandshakeOK(h) /\ WatchOK(h) /\ h \in Pages
      /\ h.machine = Advanced(p.machine, "agent", f.type, f.session)
      /\ Attached(h) /\ ~Saving(h, h.work) /\ h.work \notin h.proving
      /\ h = [p EXCEPT !.machine = h.machine]
  BY HeardIs
<1>3. /\ p.machine.connectionState = "NEGOTIATING"
      /\ h.machine.connectionState = "UNAUTHENTICATED"
      /\ h.machine.sessionState = p.machine.sessionState
  BY <1>2, HearingIs, FrameStates
<1> HIDE DEF h
<1>4. /\ h.operations = p.operations /\ h.work = p.work /\ h.socket = p.socket
      /\ h.readyState = p.readyState /\ h.newSession = p.newSession /\ h.inbound = p.inbound
      /\ h.sessionId = p.sessionId /\ h.requestedSessionId = p.requestedSessionId
      /\ h.disposed = p.disposed
  BY <1>2, HearingIs DEF Pages
<1>5. /\ p.machine.sessionState = "NONE" /\ ~p.disposed /\ p.newSession # "closing"
      /\ p.readyState[p.socket] \notin {"none", "connecting"}
  BY <1>3, HearingIs
<1>6. state \in {"pairing", "authenticating"} /\ state \in States
      /\ (state = "pairing" => h.credential = NoCredential)
  BY StatesAre
<1> HIDE DEF state
<1>7. e \in Pages
  BY <1>2, <1>6, Edits
<1>8. e.state = state /\ e = [h EXCEPT !.state = e.state]
  BY <1>2 DEF Pages
<1> HIDE DEF e
<1>9. /\ e.operations = h.operations /\ e.work = h.work /\ e.socket = h.socket
      /\ e.readyState = h.readyState /\ e.newSession = h.newSession /\ e.inbound = h.inbound
      /\ e.sessionId = h.sessionId /\ e.requestedSessionId = h.requestedSessionId
      /\ e.disposed = h.disposed /\ e.machine = h.machine /\ e.proving = h.proving
      /\ e.timer = h.timer /\ e.attempts = h.attempts
      /\ e.stored = h.stored /\ e.credential = h.credential
  BY <1>2, <1>8 DEF Pages
<1>10. BaseOK(e)
  BY <1>2, <1>7, <1>9, QueueReads, SocketsReads DEF BaseOK, ControllerOK, Attached
<1>11. PlaceOK(e)
  <2>1. e.operations = <<>>
    BY <1>4, <1>9, HearingIs
  <2>2. ~LoadingIn(e, e.work) /\ e.state \notin Idle \cup Connecting
    BY <1>6, <1>8, <2>1 DEF LoadingIn, Idle, Connecting
  <2> QED BY <1>2, <1>4, <1>5, <1>9, <2>2 DEF PlaceOK, Attached
<1>12. HandshakeOK(e) /\ MachineOK(e)
  BY <1>2, <1>3, <1>4, <1>5, <1>6, <1>8, <1>9 DEF HandshakeOK, MachineOK, Saving, Attached
<1>13. PageOK(Schedule(e)) /\ Schedule(e) = [e EXCEPT !.timer = Schedule(e).timer]
  BY <1>6, <1>8, <1>10, <1>11, <1>12, ScheduleKeeps DEF Sound
<1> QED BY <1>1, <1>4, <1>7, <1>9, <1>13, SameLocator DEF Pages, h

(* The frames of the handshake find no session and make none.              *)
LEMMA HandshakeHeard ==
  ASSUME NEW p, Hearing(p), NEW f \in Frames, Accepts(p.machine, "agent", f.type, f.session),
         f.type \in {"pairing_result", "auth_challenge", "auth_result"},
         f.type = "auth_challenge" => p.credential # NoCredential
  PROVE  LET h == Heard(p, f)
         IN  /\ PageOK(h) /\ h.machine.sessionState = "NONE"
             /\ h.state \notin {"pairing", "closing", "connected"} /\ h.newSession # "closing"
             /\ f.type # "auth_challenge" => h.state \notin Idle
<1> DEFINE h == Heard(p, f)
<1>1. /\ BaseOK(h) /\ PlaceOK(h) /\ HandshakeOK(h) /\ WatchOK(h) /\ h \in Pages
      /\ h.machine = Advanced(p.machine, "agent", f.type, f.session)
      /\ Attached(h) /\ ~Saving(h, h.work) /\ h.work \notin h.proving
      /\ h = [p EXCEPT !.machine = h.machine]
  BY HeardIs
<1>2. /\ p.machine.connectionState \in {"PAIRING", "UNAUTHENTICATED", "PROVING"}
      /\ p.machine.connectionState = "UNAUTHENTICATED" => f.type = "auth_challenge"
      /\ h.machine.sessionState = p.machine.sessionState
      /\ f.type = "auth_challenge" => h.machine.connectionState = "CHALLENGED"
  BY <1>1, HearingIs, FrameStates
<1> HIDE DEF h
<1>3. /\ h.work = p.work /\ h.socket = p.socket /\ h.readyState = p.readyState
      /\ h.newSession = p.newSession /\ h.inbound = p.inbound /\ h.state = p.state
      /\ h.sessionId = p.sessionId /\ h.credential = p.credential
  BY <1>1, HearingIs DEF Pages
<1>4. /\ p.machine.sessionState = "NONE" /\ p.state \notin {"pairing", "closing", "connected"}
      /\ p.newSession # "closing" /\ p.readyState[p.socket] # "connecting"
      /\ f.type # "auth_challenge" => p.readyState[p.socket] # "none"
  BY <1>2, HearingIs
<1>5. p.state \notin {"disconnected", "detached"} \/ p.readyState[p.socket] # "closing"
  BY <1>4 DEF Hearing, PageOK, Sound, MachineOK
<1>6. MachineOK(h)
  BY <1>2, <1>3, <1>4, <1>5 DEF MachineOK
<1>7. f.type # "auth_challenge" => h.state \notin Idle
  <2>1. /\ p.readyState[p.socket] \in {"none", "connecting", "open", "closing"}
        /\ p.socket \in Works /\ p.state # "error" /\ PlaceOK(p)
    BY HearingIs DEF Pages, Hearing, PageOK, Sound
  <2> QED BY <1>3, <1>4, <1>5, <2>1 DEF PlaceOK, Silent, Idle
<1> QED BY <1>1, <1>2, <1>3, <1>4, <1>6, <1>7 DEF PageOK, Sound, h

(* pairing_result: its credential is on its way to the store.              *)
LEMMA PairingResultKeeps ==
  ASSUME NEW p, Hearing(p), NEW f \in Frames, Accepts(p.machine, "agent", f.type, f.session),
         f.type = "pairing_result"
  PROVE  LET q == Handled(Heard(p, f), f)
         IN  PageOK(q) /\ LocatorStays(p, q)
<1> DEFINE h == Heard(p, f)
           op == Operation("save", h.work, f.detail)
           o == Append(h.operations, op)
           e == [h EXCEPT !.operations = o]
<1>1. PageOK(h) /\ h.machine.sessionState = "NONE" /\ h.state # "pairing"
  BY HandshakeHeard
<1>2. /\ h \in Pages /\ Attached(h) /\ h.work \notin h.proving
      /\ h.machine = Advanced(p.machine, "agent", f.type, f.session)
      /\ h = [p EXCEPT !.machine = h.machine]
  BY HeardIs
<1>3. h.machine.connectionState = "UNAUTHENTICATED"
  BY <1>2, HearingIs, FrameStates
<1>4. Handled(h, f) = e
  BY DEF Handled, Paired, Enqueue
<1> HIDE DEF h
<1>5. /\ h.operations = <<>> /\ h.work \in Works
      /\ h.sessionId = p.sessionId /\ h.requestedSessionId = p.requestedSessionId
  BY <1>2, HearingIs DEF Pages
<1>6. op \in Operations /\ op.work = h.work /\ op.kind = "save"
  BY <1>5 DEF Operation, Operations, Frames
<1> HIDE DEF op
<1>7. o \in Seq(Operations) /\ Len(o) = 1 /\ o[1] = op
  BY <1>5, <1>6, EmptyQueue
<1> HIDE DEF o
<1>8. e \in Pages
  BY <1>2, <1>7, Edits
<1>9. e.operations = o /\ e = [h EXCEPT !.operations = e.operations]
  BY <1>2 DEF Pages
<1> HIDE DEF e
<1>10. /\ e.work = h.work /\ e.socket = h.socket /\ e.proving = h.proving
       /\ e.readyState = h.readyState /\ e.newSession = h.newSession /\ e.inbound = h.inbound
       /\ e.sessionId = h.sessionId /\ e.requestedSessionId = h.requestedSessionId
       /\ e.disposed = h.disposed /\ e.machine = h.machine /\ e.state = h.state
       /\ e.timer = h.timer /\ e.attempts = h.attempts
       /\ e.stored = h.stored /\ e.credential = h.credential
  BY <1>2, <1>9 DEF Pages
<1>q. /\ Len(e.operations) = 1 /\ e.operations[1] = op
      /\ \A i \in 1..Len(e.operations) : i = 1
  <2>1. Len(e.operations) = 1 /\ e.operations[1] = op
    BY <1>7, <1>9
  <2>2. \A i \in 1..1 : i = 1
    OBVIOUS
  <2> QED BY <2>1, <2>2
<1>11. QueueOK(e)
  <2>1. OneEach(e)
    BY <1>q DEF OneEach
  <2>2. \A i \in 1..Len(e.operations) : e.operations[i].work = h.work /\ e.operations[i].kind = "save"
    BY <1>6, <1>q
  <2> QED BY <1>1, <1>2, <1>10, <2>1, <2>2 DEF PageOK, Sound, BaseOK, QueueOK, Attached
<1>12. BaseOK(e)
  BY <1>1, <1>8, <1>10, <1>11, SocketsReads DEF PageOK, Sound, BaseOK, ControllerOK, Attached
<1>13. PlaceOK(e)
  <2>1. ~LoadingIn(e, e.work)
    BY <1>6, <1>q DEF LoadingIn
  <2> QED BY <1>1, <1>2, <1>10, <2>1 DEF PageOK, Sound, PlaceOK, Silent, Attached
<1>14. HandshakeOK(e) /\ MachineOK(e)
  BY <1>1, <1>2, <1>3, <1>10 DEF PageOK, Sound, HandshakeOK, MachineOK, Attached
<1>15. WatchOK(e)
  BY <1>1, <1>2, <1>9 DEF Pages, PageOK, WatchOK, MayReconnect, Visible, Eligible
<1> QED BY <1>4, <1>5, <1>10, <1>12, <1>13, <1>14, <1>15, SameLocator DEF PageOK, Sound, h

(* auth_challenge: the proof is being computed.                            *)
LEMMA ChallengeKeeps ==
  ASSUME NEW p, Hearing(p), NEW f \in Frames, Accepts(p.machine, "agent", f.type, f.session),
         f.type = "auth_challenge"
  PROVE  LET q == Handled(Heard(p, f), f)
         IN  PageOK(q) /\ LocatorStays(p, q)
<1> DEFINE h == Heard(p, f)
           k == h.proving \cup {h.work}
           e == [h EXCEPT !.proving = k]
<1>1. /\ BaseOK(h) /\ HandshakeOK(h) /\ h \in Pages /\ Attached(h)
      /\ h.machine = Advanced(p.machine, "agent", f.type, f.session) /\ ~Saving(h, h.work)
      /\ h = [p EXCEPT !.machine = h.machine]
  BY HeardIs
<1>2. h.machine.connectionState = "CHALLENGED"
  BY <1>1, HearingIs, FrameStates
<1>3. Handled(h, f) = IF h.credential = NoCredential THEN Fail(h, "AUTHENTICATION_FAILED") ELSE e
  BY DEF Handled, Challenged
<1>4. p.credential # NoCredential => PageOK(h) /\ h.machine.sessionState = "NONE" /\ h.state # "pairing"
  BY HandshakeHeard
<1> HIDE DEF h
<1>5. /\ h.work \in Works /\ h.proving \subseteq Works /\ h.credential = p.credential
      /\ h.state # "error" /\ ~h.disposed
      /\ h.sessionId = p.sessionId /\ h.requestedSessionId = p.requestedSessionId
  BY <1>1, HearingIs DEF Pages, Hearing
<1>6. CASE h.credential = NoCredential
  <2>1. "AUTHENTICATION_FAILED" \in ErrorCodes
    BY DEF ErrorCodes
  <2> QED BY <1>1, <1>3, <1>5, <1>6, <2>1, FailKeeps, SameLocator DEF h
<1>7. CASE h.credential # NoCredential
  <2>1. PageOK(h) /\ h.machine.sessionState = "NONE" /\ h.state # "pairing"
    BY <1>4, <1>5, <1>7
  <2>2. k \subseteq Works
    BY <1>5
  <2> HIDE DEF k
  <2>3. e \in Pages
    BY <1>1, <2>2, Edits
  <2>4. e = [h EXCEPT !.proving = e.proving]
    BY <1>1 DEF Pages
  <2> HIDE DEF e
  <2>5. /\ e.work = h.work /\ e.socket = h.socket /\ e.operations = h.operations
        /\ e.readyState = h.readyState /\ e.newSession = h.newSession /\ e.inbound = h.inbound
        /\ e.sessionId = h.sessionId /\ e.requestedSessionId = h.requestedSessionId
        /\ e.disposed = h.disposed /\ e.machine = h.machine /\ e.state = h.state
        /\ e.timer = h.timer /\ e.attempts = h.attempts
        /\ e.stored = h.stored /\ e.credential = h.credential
    BY <1>1, <2>4 DEF Pages
  <2>6. BaseOK(e)
    BY <1>1, <2>3, <2>5, SocketsReads DEF BaseOK, ControllerOK, QueueOK, OneEach, Attached
  <2>7. PlaceOK(e)
    BY <2>1, <2>5, PlaceReads DEF PageOK, Sound
  <2>8. HandshakeOK(e) /\ MachineOK(e)
    BY <1>1, <1>2, <2>1, <2>5 DEF PageOK, Sound, HandshakeOK, MachineOK, Saving, Attached
  <2>9. WatchOK(e)
    BY <1>1, <2>1, <2>4 DEF Pages, PageOK, WatchOK, MayReconnect, Visible, Eligible
  <2> QED BY <1>3, <1>5, <1>7, <2>5, <2>6, <2>7, <2>8, <2>9, SameLocator DEF PageOK, Sound, h
<1> QED BY <1>6, <1>7

(* Two pages that differ only in what no part of the invariant reads.      *)
Alike(p, q) ==
  /\ q.operations = p.operations /\ q.work = p.work /\ q.socket = p.socket
  /\ q.readyState = p.readyState /\ q.newSession = p.newSession /\ q.inbound = p.inbound
  /\ q.sessionId = p.sessionId /\ q.requestedSessionId = p.requestedSessionId
  /\ q.disposed = p.disposed /\ q.machine = p.machine /\ q.proving = p.proving
  /\ q.state = p.state /\ q.timer = p.timer /\ q.attempts = p.attempts
  /\ q.stored = p.stored /\ q.credential = p.credential
  /\ q.stopped = p.stopped /\ q.hidden = p.hidden /\ q.shown = p.shown
  /\ q.errorCode = p.errorCode /\ q.failureCause = p.failureCause

(* One is as sound as the other.                                           *)
LEMMA AlikeKeeps ==
  ASSUME NEW p \in Pages, NEW q \in Pages, Alike(p, q)
  PROVE  /\ BaseOK(p) => BaseOK(q)
         /\ PlaceOK(p) => PlaceOK(q)
         /\ HandshakeOK(p) /\ MachineOK(p) => HandshakeOK(q) /\ MachineOK(q)
         /\ HandshakeOK(p) => HandshakeOK(q)
         /\ WatchOK(p) => WatchOK(q)
         /\ PageOK(p) => PageOK(q)
         /\ Attached(p) => Attached(q)
         /\ LocatorStays(p, q)
<1>1. BaseOK(p) => BaseOK(q)
  BY QueueReads, SocketsReads DEF Alike, BaseOK, ControllerOK, Attached
<1>2. PlaceOK(p) => PlaceOK(q)
  BY PlaceReads DEF Alike
<1>3. HandshakeOK(p) /\ MachineOK(p) => HandshakeOK(q) /\ MachineOK(q)
  BY MachineReads DEF Alike
<1>4. HandshakeOK(p) => HandshakeOK(q)
  BY DEF Alike, HandshakeOK, Saving, Attached
<1>5. WatchOK(p) => WatchOK(q)
  BY DEF Alike, WatchOK, MayReconnect, Visible, Eligible
<1>6. (Attached(p) => Attached(q)) /\ LocatorStays(p, q)
  BY SameLocator DEF Alike, Attached
<1> QED BY <1>1, <1>2, <1>3, <1>4, <1>5, <1>6 DEF PageOK, Sound

(* The fields of the shell and the adapter's own timers are of that kind.  *)
LEMMA LooseEdits ==
  ASSUME NEW p \in Pages
  PROVE  /\ \A s \in Sessions \cup {NoSession} :
              LET q == [p EXCEPT !.fragment = s] IN q \in Pages /\ Alike(p, q)
         /\ \A b \in BOOLEAN :
              LET q == [p EXCEPT !.needsFreshRetry = b] IN q \in Pages /\ Alike(p, q)
         /\ LET q == [p EXCEPT !.heartbeatTimer = TRUE] IN q \in Pages /\ Alike(p, q)
         /\ LET q == [p EXCEPT !.authorizationTimer = TRUE] IN q \in Pages /\ Alike(p, q)
         /\ LET q == TimersStopped(p) IN q \in Pages /\ Alike(p, q)
<1>1. ASSUME NEW s \in Sessions \cup {NoSession}
      PROVE  LET q == [p EXCEPT !.fragment = s] IN q \in Pages /\ Alike(p, q)
  <2>1. [p EXCEPT !.fragment = s] \in Pages
    BY ZenonT(60) DEF Pages
  <2> QED BY <2>1 DEF Pages, Alike
<1>2. ASSUME NEW b \in BOOLEAN
      PROVE  LET q == [p EXCEPT !.needsFreshRetry = b] IN q \in Pages /\ Alike(p, q)
  <2>1. [p EXCEPT !.needsFreshRetry = b] \in Pages
    BY ZenonT(60) DEF Pages
  <2> QED BY <2>1 DEF Pages, Alike
<1>3. LET q == [p EXCEPT !.heartbeatTimer = TRUE] IN q \in Pages /\ Alike(p, q)
  BY ZenonT(60) DEF Pages, Alike
<1>4. LET q == [p EXCEPT !.authorizationTimer = TRUE] IN q \in Pages /\ Alike(p, q)
  <2>1. [p EXCEPT !.authorizationTimer = TRUE] \in Pages
    BY DEF Pages
  <2> QED BY <2>1 DEF Pages, Alike
<1>5. LET q == TimersStopped(p) IN q \in Pages /\ Alike(p, q)
  <2>1. TimersStopped(p) \in Pages
    BY TimersStoppedIs
  <2> QED BY <2>1 DEF TimersStopped, Pages, Alike
<1> QED BY <1>1, <1>2, <1>3, <1>4, <1>5

(* A connection goes on with its handshake: only its state changes.        *)
LEMMA TurnKeeps ==
  ASSUME NEW p, BaseOK(p), PlaceOK(p), HandshakeOK(p), Attached(p), p.newSession # "closing",
         MachineOK(p) \/ (p.readyState[p.socket] = "open" /\ p.machine.sessionState = "NONE"),
         p.state \in Idle =>
           p.machine.connectionState = "UNAUTHENTICATED" /\ p.machine.sessionState = "NONE",
         NEW s \in {"authenticating", "opening", "replaying"}
  PROVE  LET q == SetState(p, s)
         IN  /\ PageOK(q) /\ q.state = s
             /\ q = [p EXCEPT !.state = s, !.timer = q.timer]
<1> DEFINE e == [p EXCEPT !.state = s]
<1>1. BaseOK(p) /\ PlaceOK(p) /\ HandshakeOK(p) /\ p \in Pages
  BY DEF BaseOK
<1>2. SetState(p, s) = Schedule(e)
  BY DEF SetState
<1>3. e \in Pages
  <2>1. s \in States
    BY StatesAre
  <2> QED BY <1>1, <2>1, Edits
<1>4. /\ e.state = s /\ e.operations = p.operations /\ e.work = p.work /\ e.socket = p.socket
      /\ e.readyState = p.readyState /\ e.newSession = p.newSession /\ e.inbound = p.inbound
      /\ e.sessionId = p.sessionId /\ e.requestedSessionId = p.requestedSessionId
      /\ e.disposed = p.disposed /\ e.machine = p.machine /\ e.proving = p.proving
      /\ e.timer = p.timer /\ e.attempts = p.attempts
      /\ e.stored = p.stored /\ e.credential = p.credential
      /\ e = [p EXCEPT !.state = s]
  BY <1>1 DEF Pages
<1> HIDE DEF e
<1>5. BaseOK(e)
  BY <1>1, <1>3, <1>4, QueueReads, SocketsReads DEF BaseOK, ControllerOK, Attached
<1>6. PlaceOK(e)
  <2>1. ~LoadingIn(e, e.work)
    BY <1>1, <1>4 DEF LoadingIn, BaseOK, QueueOK
  <2> QED BY <1>1, <1>4, <2>1 DEF PlaceOK, Silent, Attached, Idle, Connecting
<1>7. HandshakeOK(e)
  BY <1>1, <1>4 DEF HandshakeOK, Saving, Attached
<1>8. MachineOK(e)
  <2>1. p.state \in Idle => p.readyState[p.socket] # "connecting"
    BY <1>1 DEF PlaceOK, Silent, Attached, Pages
  <2>2. CASE MachineOK(p)
    BY <1>1, <1>4, <2>1, <2>2 DEF MachineOK, Attached, Idle
  <2>3. CASE p.readyState[p.socket] = "open" /\ p.machine.sessionState = "NONE"
    BY <1>4, <2>3 DEF MachineOK
  <2> QED BY <2>2, <2>3
<1>9. PageOK(Schedule(e)) /\ Schedule(e) = [e EXCEPT !.timer = Schedule(e).timer]
  BY <1>4, <1>5, <1>6, <1>7, <1>8, ScheduleKeeps DEF Sound
<1> DEFINE q == Schedule(e)
<1>10. q.state = s
  <2>1. q = [e EXCEPT !.timer = q.timer]
    BY <1>9
  <2> HIDE DEF q
  <2> QED BY <1>3, <1>4, <2>1 DEF Pages
<1>11. q = [p EXCEPT !.state = s, !.timer = q.timer]
  <2>1. q = [e EXCEPT !.timer = q.timer] /\ e = [p EXCEPT !.state = s]
    BY <1>4, <1>9
  <2> HIDE DEF q
  <2> QED BY <1>1, <2>1 DEF Pages
<1> QED BY <1>2, <1>9, <1>10, <1>11

(* setState("connected") of a page that is wanted: the controller is told  *)
(* of its success.                                                         *)
LEMMA ConnectedKeeps ==
  ASSUME NEW p, BaseOK(p), HandshakeOK(p), Attached(p), ~p.disposed,
         p.machine.connectionState = "READY", p.machine.sessionState = "OPEN",
         p.machine.sessionId = p.sessionId, p.sessionId # NoSession,
         p.readyState[p.socket] \in {"open", "closing"}, Keeps(p)
  PROVE  LET q == [SetConnected(p) EXCEPT !.newSession = "none"]
         IN  /\ PageOK(q)
             /\ SetConnected(p) = [p EXCEPT !.state = "connected", !.attempts = 0,
                                            !.stopped = FALSE, !.timer = FALSE]
<1> DEFINE s == [p EXCEPT !.state = "connected", !.attempts = 0,
                          !.stopped = FALSE, !.timer = FALSE]
           q == [s EXCEPT !.newSession = "none"]
<1>1. p \in Pages
  BY DEF BaseOK
<1>2. SetConnected(p) = s
  <2>1. ~[p EXCEPT !.state = "connected"].disposed
    BY <1>1 DEF Pages
  <2> QED BY <1>1, <2>1 DEF SetConnected, Succeeded, Pages
<1>3. q \in Pages
  <2>1. "connected" \in States /\ 0 \in 0..MaxAttempts
    BY StatesAre, PageAssumption
  <2>2. s \in Pages
    BY <1>1, <2>1, ZenonT(60) DEF Pages
  <2> HIDE DEF s
  <2> QED BY <2>2 DEF Pages
<1>4. /\ q.state = "connected" /\ q.operations = p.operations /\ q.work = p.work
      /\ q.socket = p.socket /\ q.readyState = p.readyState /\ q.newSession = "none"
      /\ q.inbound = p.inbound /\ q.sessionId = p.sessionId /\ q.disposed = p.disposed
      /\ q.machine = p.machine /\ q.proving = p.proving /\ q.timer = FALSE
      /\ q.stored = p.stored /\ q.credential = p.credential
      /\ q.stopped = FALSE /\ q.hidden = p.hidden /\ q.shown = p.shown
  BY <1>1 DEF Pages
<1> HIDE DEF q
<1>5. BaseOK(q)
  BY <1>3, <1>4, QueueReads, SocketsReads DEF BaseOK, ControllerOK, Attached
<1>6. PlaceOK(q)
  <2>1. ~LoadingIn(q, q.work)
    BY <1>4 DEF LoadingIn, BaseOK, QueueOK
  <2> QED BY <1>4, <2>1 DEF PlaceOK, Attached, Idle, Connecting
<1>7. HandshakeOK(q)
  BY <1>4 DEF HandshakeOK, Saving, Attached
<1>8. MachineOK(q)
  BY <1>4, <1>7 DEF MachineOK, Attached
<1>9. WatchOK(q)
  BY <1>4 DEF WatchOK, Keeps, Visible, MayReconnect, Eligible
<1> QED BY <1>2, <1>5, <1>6, <1>7, <1>8, <1>9 DEF PageOK, Sound, q

(* And of one that is not: the connection is released at once.             *)
LEMMA NotKeptReleased ==
  ASSUME NEW p, BaseOK(p), ~Keeps(p)
  PROVE  LET q == SetConnected(p)
         IN  /\ PageOK(q) /\ q.work = NoWork /\ q.socket = NoWork /\ q.newSession = "none"
             /\ q.machine = p.machine
             /\ q.sessionId = p.sessionId /\ q.requestedSessionId = p.requestedSessionId
<1> DEFINE c == [p EXCEPT !.state = "connected"]
           d == [c EXCEPT !.timer = FALSE]
<1>1. p \in Pages
  BY DEF BaseOK
<1>2. d \in Pages
  <2>1. c \in Pages
    BY <1>1, StatesAre, Edits
  <2> HIDE DEF c
  <2> QED BY <2>1, ZenonT(60) DEF Pages
<1>3. /\ d.operations = p.operations /\ d.work = p.work /\ d.socket = p.socket
      /\ d.readyState = p.readyState /\ d.inbound = p.inbound /\ d.proving = p.proving
      /\ d.stored = p.stored /\ d.credential = p.credential /\ d.timer = FALSE
      /\ d.machine = p.machine
      /\ d.sessionId = p.sessionId /\ d.requestedSessionId = p.requestedSessionId
  BY <1>1 DEF Pages
<1>4. SetConnected(p) = Release(d)
  BY DEF SetConnected, Cancel
<1> HIDE DEF d
<1>5. BaseOK(d)
  BY <1>2, <1>3, QueueReads, SocketsReads DEF BaseOK, ControllerOK, Attached
<1> QED BY <1>3, <1>4, <1>5, ReleaseKeeps

(* auth_result: the session is opened, or opened again.                    *)
LEMMA AuthResultKeeps ==
  ASSUME NEW p, Hearing(p), NEW f \in Frames, Accepts(p.machine, "agent", f.type, f.session),
         f.type = "auth_result"
  PROVE  LET q == Handled(Heard(p, f), f)
         IN  PageOK(q) /\ LocatorStays(p, q)
<1> DEFINE h == Heard(p, f)
           a == [h EXCEPT !.authorizationTimer = TRUE]
           o == SetState(a, "opening")
           type == OpenOrReopen(h)
           q == Send(o, type)
           n == Advanced(o.machine, "client", type, o.sessionId)
<1>1. /\ PageOK(h) /\ h.machine.sessionState = "NONE" /\ h.state \notin Idle
      /\ h.newSession # "closing"
  BY HandshakeHeard
<1>2. h \in Pages /\ Attached(h) /\ h = [p EXCEPT !.machine = h.machine]
  BY HeardIs
<1>3. Handled(h, f) = q
  BY DEF Handled, Authorized
<1> HIDE DEF h
<1>4. /\ h.sessionId = p.sessionId /\ h.requestedSessionId = p.requestedSessionId
      /\ h.machine \in Machines /\ ~h.disposed
  BY <1>2, HearingIs DEF Pages
<1>5. a \in Pages /\ Alike(h, a)
  BY <1>2, LooseEdits
<1> HIDE DEF a
<1>6. PageOK(a) /\ Attached(a)
  BY <1>1, <1>2, <1>5, AlikeKeeps
<1>7. /\ PageOK(o) /\ o.state = "opening"
      /\ o = [a EXCEPT !.state = "opening", !.timer = o.timer]
  BY <1>1, <1>5, <1>6, TurnKeeps DEF PageOK, Sound, Alike
<1> HIDE DEF o
<1>8. /\ o.machine = h.machine /\ o.newSession = h.newSession /\ o.sessionId = h.sessionId
      /\ o.requestedSessionId = h.requestedSessionId /\ o.work = h.work /\ o.socket = h.socket
      /\ o.disposed = h.disposed
  BY <1>5, <1>7, ZenonT(60) DEF Alike, Pages
<1>9. o \in Pages /\ BaseOK(o) /\ HandshakeOK(o) /\ Attached(o)
  BY <1>2, <1>7, <1>8 DEF PageOK, Sound, BaseOK, Attached
<1>11. ASSUME NEW code \in ErrorCodes, q = Fail(o, code)
       PROVE  PageOK(q) /\ LocatorStays(p, q)
  BY <1>4, <1>7, <1>8, <1>9, <1>11, FailKeeps, SameLocator
<1>12. ASSUME SocketIsOpen(o), Accepts(o.machine, "client", type, o.sessionId),
              q = [o EXCEPT !.machine = n]
       PROVE  PageOK(q) /\ LocatorStays(p, q)
  <2>1. /\ type \in {"open_session", "reopen_session"}
        /\ o.newSession = "opening" => type = "open_session"
    BY <1>1, <1>8 DEF OpenOrReopen, PageOK, Sound, PlaceOK
  <2>2. /\ n \in Machines
        /\ n.connectionState = "READY"
        /\ n.sessionState = IF type = "open_session" THEN "OPENING" ELSE "REOPENING"
    <3>1. o.machine \in Machines
      BY <1>4, <1>8
    <3>2. CASE type = "open_session"
      BY <1>12, <3>1, <3>2, ClientFrame DEF Machines
    <3>3. CASE type = "reopen_session"
      BY <1>12, <3>1, <3>3, ClientFrame DEF Machines
    <3> QED BY <2>1, <3>2, <3>3
  <2> HIDE DEF n, q
  <2>3. BaseOK(q) /\ PlaceOK(q) /\ WatchOK(q)
    BY <1>7, <1>9, <1>12, <2>2, MachineSet DEF PageOK, Sound
  <2>4. /\ q.machine = n /\ q.operations = o.operations /\ q.work = o.work /\ q.socket = o.socket
        /\ q.proving = o.proving /\ q.readyState = o.readyState /\ q.state = o.state
        /\ q.sessionId = o.sessionId /\ q.requestedSessionId = o.requestedSessionId
        /\ q.newSession = o.newSession /\ q.credential = o.credential
    BY <1>9, <1>12 DEF Pages
  <2>5. /\ q.readyState[q.socket] = "open" /\ ~Saving(o, o.work) /\ o.work \notin o.proving
    <3>1. h.machine.connectionState \notin {"UNAUTHENTICATED", "CHALLENGED"}
      BY HeardIs, HearingIs, FrameStates DEF h
    <3>2. ~Saving(o, o.work) /\ o.work \notin o.proving
      BY <1>8, <1>9, <3>1 DEF HandshakeOK
    <3> QED BY <1>12, <2>4, <3>2 DEF SocketIsOpen
  <2>6. HandshakeOK(q)
    BY <1>9, <2>2, <2>4, <2>5 DEF HandshakeOK, Saving, Attached
  <2>7. MachineOK(q)
    BY <1>7, <2>1, <2>2, <2>4, <2>5 DEF MachineOK
  <2> QED BY <1>4, <1>8, <2>3, <2>4, <2>6, <2>7, SameLocator DEF PageOK, Sound
<1>13. PageOK(q) /\ LocatorStays(p, q)
  <2>1. CASE q = Release(o)
    <3>1. /\ PageOK(q) /\ q.sessionId = o.sessionId /\ q.requestedSessionId = o.requestedSessionId
      BY <1>9, <2>1, ReleaseKeeps
    <3> QED BY <1>4, <1>8, <3>1, SameLocator
  <2> QED BY <1>9, <1>11, <1>12, <2>1, SendCases
<1> QED BY <1>3, <1>13 DEF h

(* session_opened: the page is connected to the session it is told of, and *)
(* New Session has come to its end; or nobody wants the page any more.     *)
LEMMA SessionOpenedKeeps ==
  ASSUME NEW p, Hearing(p), NEW f \in Frames, Accepts(p.machine, "agent", f.type, f.session),
         f.type = "session_opened"
  PROVE  LET q == Handled(Heard(p, f), f)
         IN  PageOK(q) /\ LocatorStays(p, q)
<1> DEFINE h == Heard(p, f)
           b == [h EXCEPT !.heartbeatTimer = TRUE]
           c == [b EXCEPT !.sessionId = f.session]
           named == [c EXCEPT !.requestedSessionId = NoSession]
           C == SetConnected(named)
           g == [C EXCEPT !.newSession = "none"]
           k == [g EXCEPT !.fragment = f.session]
           q == Handled(h, f)
<1>1. /\ BaseOK(h) /\ HandshakeOK(h) /\ h \in Pages /\ Attached(h)
      /\ h.machine = Advanced(p.machine, "agent", f.type, f.session)
      /\ h = [p EXCEPT !.machine = h.machine]
  BY HeardIs
<1>2. /\ p.machine.connectionState = "READY" /\ p.machine.sessionState = "OPENING"
      /\ h.machine.connectionState = "READY" /\ h.machine.sessionState = "OPEN"
      /\ h.machine.sessionId = f.session
  BY <1>1, HearingIs, FrameStates
<1>3. f.session \in Sessions /\ f.session # NoSession
  BY DEF Frames
<1>4. /\ p.newSession # "closing" /\ ~p.disposed
      /\ p.readyState[p.socket] \in {"open", "closing"}
  BY <1>2, HearingIs DEF Pages
<1>5. q = LET connected == SetConnected([h EXCEPT !.sessionId = f.session,
                                !.requestedSessionId = NoSession, !.heartbeatTimer = TRUE])
          IN  IF ~Current(connected, h.work) THEN connected
              ELSE [connected EXCEPT !.fragment = f.session, !.needsFreshRetry = FALSE,
                      !.newSession = IF @ = "opening" THEN "none" ELSE @]
  BY DEF Handled, SessionOpened
<1> HIDE DEF h, q
<1>6. named = [h EXCEPT !.sessionId = f.session, !.requestedSessionId = NoSession,
                        !.heartbeatTimer = TRUE]
  BY <1>1 DEF Pages
<1>7. b \in Pages /\ Alike(h, b)
  BY <1>1, LooseEdits
<1> HIDE DEF b
<1>8. named \in Pages
  <2>1. c \in Pages
    BY <1>3, <1>7 DEF Pages
  <2> HIDE DEF c
  <2> QED BY <2>1 DEF Pages
<1>9. /\ named.operations = h.operations /\ named.work = h.work /\ named.socket = h.socket
      /\ named.readyState = h.readyState /\ named.newSession = h.newSession
      /\ named.inbound = h.inbound /\ named.proving = h.proving /\ named.disposed = h.disposed
      /\ named.timer = h.timer /\ named.attempts = h.attempts /\ named.machine = h.machine
      /\ named.stored = h.stored /\ named.credential = h.credential
      /\ named.sessionId = f.session /\ named.requestedSessionId = NoSession
  BY <1>3, <1>7 DEF Pages, Alike
<1>10. h.readyState = p.readyState /\ h.socket = p.socket /\ h.newSession = p.newSession
       /\ h.disposed = p.disposed
  BY <1>1, HearingIs DEF Pages
<1> HIDE DEF named
<1>11. BaseOK(named) /\ HandshakeOK(named) /\ Attached(named)
  <2>1. QueueOK(named) /\ SocketsOK(named)
    BY <1>1, <1>9, QueueReads, SocketsReads DEF BaseOK
  <2>2. BaseOK(named)
    BY <1>1, <1>8, <1>9, <2>1 DEF BaseOK, ControllerOK, Attached
  <2>3. HandshakeOK(named) /\ Attached(named)
    BY <1>1, <1>9 DEF HandshakeOK, Saving, Attached
  <2> QED BY <2>2, <2>3
<1>12. CASE Keeps(named)
  <2>1. /\ PageOK(g)
        /\ C = [named EXCEPT !.state = "connected", !.attempts = 0, !.stopped = FALSE,
                             !.timer = FALSE]
    <3>1. /\ ~named.disposed /\ named.machine.connectionState = "READY"
          /\ named.machine.sessionState = "OPEN" /\ named.machine.sessionId = named.sessionId
          /\ named.sessionId # NoSession /\ named.readyState[named.socket] \in {"open", "closing"}
      BY <1>2, <1>3, <1>4, <1>9, <1>10
    <3> QED BY <1>11, <1>12, <3>1, ConnectedKeeps
  <2> HIDE DEF C
  <2>2. /\ C.work = h.work /\ C.socket = h.work
        /\ C.newSession \in {"none", "opening"}
        /\ C.sessionId = f.session
    BY <1>1, <1>4, <1>8, <1>9, <1>10, <2>1 DEF Pages, Attached
  <2>3. q = [C EXCEPT !.fragment = f.session, !.needsFreshRetry = FALSE, !.newSession = "none"]
    BY <1>5, <1>6, <2>2 DEF Current, C
  <2>4. q = [k EXCEPT !.needsFreshRetry = FALSE]
    BY <1>8, <2>1, <2>3 DEF Pages
  <2>5. g \in Pages /\ g.sessionId = f.session
    BY <2>1, <2>2 DEF PageOK, Sound, BaseOK, Pages
  <2> HIDE DEF g
  <2>6. k \in Pages /\ Alike(g, k)
    BY <1>3, <2>5, LooseEdits
  <2> HIDE DEF k
  <2>7. q \in Pages /\ Alike(k, q)
    BY <2>4, <2>6, LooseEdits
  <2>8. PageOK(q) /\ q.sessionId # NoSession
    BY <1>3, <2>1, <2>5, <2>6, <2>7, AlikeKeeps DEF Alike
  <2> QED BY <2>8 DEF LocatorStays, GetSessionId, q, h
<1>13. CASE ~Keeps(named)
  <2>1. /\ PageOK(C) /\ C.work = NoWork
        /\ C.sessionId = named.sessionId
    BY <1>11, <1>13, NotKeptReleased
  <2>2. q = C
    BY <1>1, <1>5, <1>6, <2>1 DEF Current, Attached
  <2>3. PageOK(q) /\ q.sessionId # NoSession
    BY <1>3, <1>9, <2>1, <2>2
  <2> QED BY <2>3 DEF LocatorStays, GetSessionId, q, h
<1> QED BY <1>12, <1>13

(* session_reopened: the replay begins, if it is the session asked for.    *)
LEMMA SessionReopenedKeeps ==
  ASSUME NEW p, Hearing(p), NEW f \in Frames, Accepts(p.machine, "agent", f.type, f.session),
         f.type = "session_reopened"
  PROVE  LET q == Handled(Heard(p, f), f)
         IN  PageOK(q) /\ LocatorStays(p, q)
<1> DEFINE h == Heard(p, f)
           n == [h EXCEPT !.sessionId = f.session]
           r == SetState(n, "replaying")
           q == Handled(h, f)
<1>1. /\ BaseOK(h) /\ PlaceOK(h) /\ HandshakeOK(h) /\ h \in Pages /\ Attached(h)
      /\ h.machine = Advanced(p.machine, "agent", f.type, f.session)
      /\ h = [p EXCEPT !.machine = h.machine]
  BY HeardIs
<1>2. /\ p.machine.connectionState = "READY" /\ p.machine.sessionState = "REOPENING"
      /\ h.machine.connectionState = "READY" /\ h.machine.sessionState = "REPLAYING"
      /\ h.machine.sessionId = f.session
  BY <1>1, HearingIs, FrameStates
<1>3. f.session \in Sessions /\ f.session # NoSession
  BY DEF Frames
<1>4. /\ p.newSession \notin {"closing", "opening"} /\ ~p.disposed /\ p.state \notin Idle
      /\ p.state \notin {"pairing", "closing"}
      /\ p.readyState[p.socket] \in {"open", "closing"}
  BY <1>2, HearingIs DEF Pages
<1>5. p.state # "connected"
  BY <1>2 DEF Hearing, PageOK, Sound, MachineOK
<1>6. q = IF f.session # h.requestedSessionId THEN Fail(h, "SESSION_REOPEN_REJECTED")
          ELSE [r EXCEPT !.needsFreshRetry = FALSE]
  BY DEF Handled, SessionReopened
<1> HIDE DEF h, q
<1>7. /\ h.readyState = p.readyState /\ h.socket = p.socket /\ h.newSession = p.newSession
      /\ h.disposed = p.disposed /\ h.state = p.state
      /\ h.sessionId = p.sessionId /\ h.requestedSessionId = p.requestedSessionId
  BY <1>1, HearingIs DEF Pages
<1>8. CASE f.session # h.requestedSessionId
  <2>1. "SESSION_REOPEN_REJECTED" \in ErrorCodes /\ h.state # "error"
    BY <1>4, <1>7 DEF ErrorCodes, Idle
  <2>2. PageOK(q) /\ q.sessionId = h.sessionId /\ q.requestedSessionId = h.requestedSessionId
    BY <1>1, <1>4, <1>6, <1>7, <1>8, <2>1, FailKeeps
  <2> QED BY <1>7, <2>2, SameLocator DEF q, h
<1>9. CASE f.session = h.requestedSessionId
  <2>1. n \in Pages
    BY <1>1, <1>3 DEF Pages
  <2>2. /\ n.operations = h.operations /\ n.work = h.work /\ n.socket = h.socket
        /\ n.readyState = h.readyState /\ n.newSession = h.newSession
        /\ n.inbound = h.inbound /\ n.proving = h.proving /\ n.disposed = h.disposed
        /\ n.timer = h.timer /\ n.attempts = h.attempts /\ n.machine = h.machine
        /\ n.stored = h.stored /\ n.credential = h.credential /\ n.state = h.state
        /\ n.sessionId = f.session /\ n.requestedSessionId = h.requestedSessionId
    BY <1>1 DEF Pages
  <2> HIDE DEF n
  <2>3. BaseOK(n) /\ Attached(n)
    <3>1. QueueOK(n) /\ SocketsOK(n)
      BY <1>1, <2>2, QueueReads, SocketsReads DEF BaseOK
    <3> QED BY <1>1, <2>1, <2>2, <3>1 DEF BaseOK, ControllerOK, Attached
  <2>4. PlaceOK(n)
    BY <1>1, <1>4, <1>7, <2>2 DEF PlaceOK, Attached, LoadingIn
  <2>5. HandshakeOK(n)
    BY <1>1, <2>2 DEF HandshakeOK, Saving, Attached
  <2>6. MachineOK(n)
    <3>1. n.state \notin {"pairing", "closing", "connected", "disconnected", "detached", "error"}
      BY <1>4, <1>5, <1>7, <2>2 DEF Idle
    <3>2. n.readyState[n.socket] \in {"open", "closing"} /\ n.newSession \notin {"closing", "opening"}
      BY <1>4, <1>7, <2>2
    <3>3. n.machine.sessionId = n.sessionId /\ n.sessionId # NoSession
      BY <1>2, <1>3, <2>2
    <3> QED BY <3>1, <3>2, <3>3 DEF MachineOK
  <2>7. PageOK(r) /\ r = [n EXCEPT !.state = "replaying", !.timer = r.timer]
    <3>1. n.state \notin Idle /\ n.newSession # "closing"
      BY <1>4, <1>7, <2>2
    <3> QED BY <2>3, <2>4, <2>5, <2>6, <3>1, TurnKeeps
  <2> HIDE DEF r
  <2>8. r \in Pages /\ r.sessionId = f.session
    BY <2>1, <2>2, <2>7, ZenonT(60) DEF PageOK, Sound, BaseOK, Pages
  <2>9. q \in Pages /\ Alike(r, q)
    BY <1>6, <1>9, <2>8, LooseEdits
  <2>10. PageOK(q) /\ q.sessionId # NoSession
    BY <1>3, <2>7, <2>8, <2>9, AlikeKeeps DEF Alike
  <2> QED BY <2>10 DEF LocatorStays, GetSessionId, q, h
<1> QED BY <1>8, <1>9

(* history_end: the page is connected to the session it asked for.         *)
LEMMA HistoryEndKeeps ==
  ASSUME NEW p, Hearing(p), NEW f \in Frames, Accepts(p.machine, "agent", f.type, f.session),
         f.type = "history_end"
  PROVE  LET q == Handled(Heard(p, f), f)
         IN  PageOK(q) /\ LocatorStays(p, q)
<1> DEFINE h == Heard(p, f)
           b == [h EXCEPT !.heartbeatTimer = TRUE]
           C == SetConnected(b)
<1>1. /\ BaseOK(h) /\ HandshakeOK(h) /\ h \in Pages /\ Attached(h)
      /\ h.machine = Advanced(p.machine, "agent", f.type, f.session)
      /\ h = [p EXCEPT !.machine = h.machine]
  BY HeardIs
<1>2. /\ p.machine.connectionState = "READY" /\ p.machine.sessionState = "REPLAYING"
      /\ h.machine.connectionState = "READY" /\ h.machine.sessionState = "OPEN"
      /\ h.machine.sessionId = p.machine.sessionId
  BY <1>1, HearingIs, FrameStates
<1>3. /\ p.newSession = "none" /\ ~p.disposed /\ p.state \notin Idle
      /\ p.readyState[p.socket] \in {"open", "closing"}
      /\ p.machine.sessionId = p.sessionId /\ p.sessionId # NoSession
  BY <1>2, HearingIs DEF Pages
<1>4. Handled(h, f) = C
  BY DEF Handled, HistoryEnded
<1> HIDE DEF h
<1>5. /\ h.readyState = p.readyState /\ h.socket = p.socket /\ h.newSession = p.newSession
      /\ h.disposed = p.disposed
      /\ h.sessionId = p.sessionId /\ h.requestedSessionId = p.requestedSessionId
  BY <1>1, HearingIs DEF Pages
<1>6. b \in Pages /\ Alike(h, b)
  BY <1>1, LooseEdits
<1> HIDE DEF b
<1>7. BaseOK(b) /\ HandshakeOK(b) /\ Attached(b)
  BY <1>1, <1>6, AlikeKeeps
<1>8. /\ b.sessionId = p.sessionId /\ b.requestedSessionId = p.requestedSessionId
      /\ b.newSession = "none" /\ b.machine = h.machine
      /\ b.readyState[b.socket] \in {"open", "closing"} /\ ~b.disposed
  BY <1>3, <1>5, <1>6 DEF Alike
<1>9. CASE Keeps(b)
  <2>1. /\ PageOK([C EXCEPT !.newSession = "none"])
        /\ C = [b EXCEPT !.state = "connected", !.attempts = 0, !.stopped = FALSE,
                         !.timer = FALSE]
    <3>1. /\ ~b.disposed /\ b.machine.connectionState = "READY"
          /\ b.machine.sessionState = "OPEN" /\ b.machine.sessionId = b.sessionId
          /\ b.sessionId # NoSession /\ b.readyState[b.socket] \in {"open", "closing"}
      BY <1>2, <1>3, <1>8
    <3> QED BY <1>7, <1>9, <3>1, ConnectedKeeps
  <2> HIDE DEF C
  <2>2. C = [C EXCEPT !.newSession = "none"]
    BY <1>6, <1>8, <2>1 DEF Pages
  <2>3. C.sessionId = p.sessionId
    BY <1>6, <1>8, <2>1 DEF Pages
  <2>4. PageOK(C)
    BY <2>1, <2>2
  <2> QED BY <1>3, <1>4, <2>3, <2>4 DEF LocatorStays, GetSessionId, h
<1>10. CASE ~Keeps(b)
  <2>1. PageOK(C) /\ C.sessionId = b.sessionId
    BY <1>7, <1>10, NotKeptReleased
  <2> QED BY <1>3, <1>4, <1>8, <2>1 DEF LocatorStays, GetSessionId, h
<1> QED BY <1>9, <1>10

(* An attempt that is over: its socket is told to close.                   *)
LEMMA ShutKeeps ==
  ASSUME NEW a, BaseOK(a), HandshakeOK(a), Attached(a), ~a.disposed, a.newSession = "none",
         a.state \in Idle,
         a.state # "error" =>
           /\ a.machine.sessionState \in {"DETACHED", "CLOSED"}
           /\ a.readyState[a.socket] \in {"open", "closing"}
  PROVE  LET q == Schedule(SocketClosing(a))
         IN  /\ PageOK(q) /\ q.state = a.state /\ q.machine = a.machine
             /\ q.sessionId = a.sessionId /\ q.requestedSessionId = a.requestedSessionId
<1> DEFINE e == SocketClosing(a)
           q == Schedule(e)
<1>1. a \in Pages
  BY DEF BaseOK
<1>2. /\ e \in Pages
      /\ e = [a EXCEPT !.readyState = e.readyState]
      /\ \A w \in Works : e.readyState[w]
           = IF w = a.socket /\ a.readyState[w] # "none" THEN "closing" ELSE a.readyState[w]
  BY <1>1, SocketClosingIs
<1> HIDE DEF e
<1>3. /\ e.operations = a.operations /\ e.work = a.work /\ e.socket = a.socket
      /\ e.newSession = a.newSession /\ e.inbound = a.inbound /\ e.proving = a.proving
      /\ e.disposed = a.disposed /\ e.timer = a.timer /\ e.attempts = a.attempts
      /\ e.machine = a.machine /\ e.stored = a.stored /\ e.credential = a.credential
      /\ e.state = a.state
      /\ e.sessionId = a.sessionId /\ e.requestedSessionId = a.requestedSessionId
  BY <1>1, <1>2 DEF Pages
<1>4. BaseOK(e)
  <2>1. QueueOK(e)
    BY <1>3, QueueReads DEF BaseOK
  <2>2. SocketsOK(e)
    BY <1>2, <1>3 DEF BaseOK, SocketsOK, Current
  <2> QED BY <1>2, <1>3, <2>1, <2>2 DEF BaseOK, ControllerOK, Attached
<1>5. Silent(e)
  BY <1>2, <1>3 DEF BaseOK, SocketsOK, Current, Silent
<1>6. ~LoadingIn(e, e.work)
  BY <1>3 DEF LoadingIn, BaseOK, QueueOK
<1>7. HandshakeOK(e)
  BY <1>3 DEF HandshakeOK, Saving, Attached
<1>8. e.state = "error" \/ MachineOK(e)
  <2>1. SUFFICES ASSUME e.state # "error" PROVE MachineOK(e)
    OBVIOUS
  <2>2. a.socket \in Works
    BY <1>1 DEF Attached, Pages
  <2>3. e.readyState[e.socket] = "closing" /\ e.machine.sessionState \in {"DETACHED", "CLOSED"}
    BY <1>2, <1>3, <2>1, <2>2
  <2> QED BY <1>3, <2>1, <2>3 DEF MachineOK, Idle
<1>9. PageOK(q) /\ q = [e EXCEPT !.timer = q.timer]
  BY <1>3, <1>4, <1>5, <1>6, <1>7, <1>8, RestKeeps
<1> HIDE DEF q
<1>10. /\ q.state = a.state /\ q.machine = a.machine
       /\ q.sessionId = a.sessionId /\ q.requestedSessionId = a.requestedSessionId
  BY <1>2, <1>3, <1>9 DEF Pages
<1> QED BY <1>9, <1>10 DEF q, e

(* session_detached                                                        *)
LEMMA SessionDetachedKeeps ==
  ASSUME NEW p, Hearing(p), NEW f \in Frames, Accepts(p.machine, "agent", f.type, f.session),
         f.type = "session_detached"
  PROVE  LET q == Handled(Heard(p, f), f)
         IN  PageOK(q) /\ LocatorStays(p, q)
<1> DEFINE h == Heard(p, f)
           t == TimersStopped(h)
           a == [t EXCEPT !.state = "detached"]
<1>1. /\ BaseOK(h) /\ HandshakeOK(h) /\ h \in Pages /\ Attached(h)
      /\ h.machine = Advanced(p.machine, "agent", f.type, f.session)
      /\ h = [p EXCEPT !.machine = h.machine]
  BY HeardIs
<1>2. /\ p.machine.connectionState = "READY" /\ p.machine.sessionState = "DETACHING"
      /\ h.machine.sessionState = "DETACHED"
  BY <1>1, HearingIs, FrameStates
<1>3. /\ p.newSession = "none" /\ ~p.disposed
      /\ p.readyState[p.socket] \in {"open", "closing"}
  BY <1>2, HearingIs DEF Pages
<1>4. Handled(h, f) = SocketClosing(Schedule(a))
  BY DEF Handled, SessionDetached, SetState
<1> HIDE DEF h
<1>5. /\ h.readyState = p.readyState /\ h.socket = p.socket /\ h.newSession = p.newSession
      /\ h.disposed = p.disposed
      /\ h.sessionId = p.sessionId /\ h.requestedSessionId = p.requestedSessionId
  BY <1>1, HearingIs DEF Pages
<1>6. t \in Pages /\ Alike(h, t)
  BY <1>1, LooseEdits
<1> HIDE DEF t
<1>7. a \in Pages
  BY <1>6, StatesAre, Edits
<1>8. /\ a.operations = h.operations /\ a.work = h.work /\ a.socket = h.socket
      /\ a.readyState = h.readyState /\ a.newSession = h.newSession
      /\ a.inbound = h.inbound /\ a.proving = h.proving /\ a.disposed = h.disposed
      /\ a.timer = h.timer /\ a.attempts = h.attempts /\ a.machine = h.machine
      /\ a.stored = h.stored /\ a.credential = h.credential /\ a.state = "detached"
      /\ a.sessionId = h.sessionId /\ a.requestedSessionId = h.requestedSessionId
  BY <1>6 DEF Pages, Alike
<1> HIDE DEF a
<1>9. BaseOK(a)
  <2>1. QueueOK(a) /\ SocketsOK(a)
    BY <1>1, <1>8, QueueReads, SocketsReads DEF BaseOK
  <2> QED BY <1>1, <1>7, <1>8, <2>1 DEF BaseOK, ControllerOK, Attached
<1>10. HandshakeOK(a) /\ Attached(a)
  BY <1>1, <1>8 DEF HandshakeOK, Saving, Attached
<1>11. SocketClosing(Schedule(a)) = Schedule(SocketClosing(a))
  BY <1>7, ScheduleCommutes
<1>12. /\ ~a.disposed /\ a.newSession = "none" /\ a.state \in Idle
       /\ a.machine.sessionState \in {"DETACHED", "CLOSED"}
       /\ a.readyState[a.socket] \in {"open", "closing"}
  BY <1>2, <1>3, <1>5, <1>8 DEF Idle
<1> DEFINE q == Schedule(SocketClosing(a))
<1>13. PageOK(q) /\ q.sessionId = a.sessionId /\ q.requestedSessionId = a.requestedSessionId
  BY <1>9, <1>10, <1>12, ShutKeeps
<1> HIDE DEF q
<1> QED BY <1>4, <1>5, <1>8, <1>11, <1>13, SameLocator DEF h, q

(* error: the transport is lost, or the page is told and the socket closes.*)
LEMMA ErrorReceivedKeeps ==
  ASSUME NEW p, Hearing(p), NEW f \in Frames, Accepts(p.machine, "agent", f.type, f.session),
         f.type = "error"
  PROVE  LET q == Handled(Heard(p, f), f)
         IN  PageOK(q) /\ LocatorStays(p, q)
<1> DEFINE h == Heard(p, f)
           c == [h EXCEPT !.errorCode = f.detail]
           a == [c EXCEPT !.heartbeatTimer = FALSE, !.newSession = "none", !.state = "error"]
<1>1. /\ BaseOK(h) /\ HandshakeOK(h) /\ h \in Pages /\ Attached(h)
      /\ h = [p EXCEPT !.machine = h.machine]
  BY HeardIs
<1>2. Handled(h, f) = IF f.detail \in {"HEARTBEAT_TIMEOUT", "AUTHORIZATION_EXPIRED"} THEN Release(h)
                      ELSE SocketClosing(Schedule([[h EXCEPT !.errorCode = f.detail,
                             !.heartbeatTimer = FALSE, !.newSession = "none"] EXCEPT !.state = "error"]))
  BY DEF Handled, ErrorReceived, SetState
<1> HIDE DEF h
<1>3. /\ h.sessionId = p.sessionId /\ h.requestedSessionId = p.requestedSessionId /\ ~h.disposed
  BY <1>1, HearingIs DEF Pages
<1>4. CASE f.detail \in {"HEARTBEAT_TIMEOUT", "AUTHORIZATION_EXPIRED"}
  BY <1>1, <1>2, <1>3, <1>4, ReleaseKeeps, SameLocator DEF h
<1>5. CASE f.detail \notin {"HEARTBEAT_TIMEOUT", "AUTHORIZATION_EXPIRED"}
  <2>1. f.detail \in ErrorCodes
    BY DEF Frames
  <2>2. c \in Pages
    BY <1>1, <2>1 DEF Pages
  <2>3. [[h EXCEPT !.errorCode = f.detail, !.heartbeatTimer = FALSE, !.newSession = "none"]
           EXCEPT !.state = "error"] = a
    BY <1>1 DEF Pages
  <2>4. /\ c.operations = h.operations /\ c.work = h.work /\ c.socket = h.socket
        /\ c.readyState = h.readyState /\ c.inbound = h.inbound /\ c.proving = h.proving
        /\ c.disposed = h.disposed /\ c.timer = h.timer /\ c.attempts = h.attempts
        /\ c.machine = h.machine /\ c.stored = h.stored /\ c.credential = h.credential
        /\ c.sessionId = h.sessionId /\ c.requestedSessionId = h.requestedSessionId
    BY <1>1 DEF Pages
  <2> HIDE DEF c
  <2>5. a \in Pages
    <3>1. "error" \in States
      BY StatesAre
    <3> QED BY <2>2, <3>1, ZenonT(60) DEF Pages
  <2>6. /\ a.operations = h.operations /\ a.work = h.work /\ a.socket = h.socket
        /\ a.readyState = h.readyState /\ a.newSession = "none"
        /\ a.inbound = h.inbound /\ a.proving = h.proving /\ a.disposed = h.disposed
        /\ a.timer = h.timer /\ a.attempts = h.attempts /\ a.machine = h.machine
        /\ a.stored = h.stored /\ a.credential = h.credential /\ a.state = "error"
        /\ a.sessionId = h.sessionId /\ a.requestedSessionId = h.requestedSessionId
    BY <2>2, <2>4 DEF Pages
  <2> HIDE DEF a
  <2>7. BaseOK(a)
    <3>1. QueueOK(a) /\ SocketsOK(a)
      BY <1>1, <2>6, QueueReads, SocketsReads DEF BaseOK
    <3> QED BY <1>1, <2>5, <2>6, <3>1 DEF BaseOK, ControllerOK, Attached
  <2>8. HandshakeOK(a) /\ Attached(a)
    BY <1>1, <2>6 DEF HandshakeOK, Saving, Attached
  <2>9. SocketClosing(Schedule(a)) = Schedule(SocketClosing(a))
    BY <2>5, ScheduleCommutes
  <2> DEFINE q == Schedule(SocketClosing(a))
  <2>10. ~a.disposed /\ a.state \in Idle
    BY <1>3, <2>6 DEF Idle
  <2>11. PageOK(q) /\ q.sessionId = a.sessionId /\ q.requestedSessionId = a.requestedSessionId
    BY <2>6, <2>7, <2>8, <2>10, ShutKeeps
  <2> HIDE DEF q
  <2> QED BY <1>2, <1>3, <1>5, <2>3, <2>6, <2>9, <2>11, SameLocator DEF h, q
<1> QED BY <1>4, <1>5

(* A connection can still be made by a page that waits for no more.        *)
LEMMA CanStillConnect ==
  ASSUME NEW p, NEW q, CanConnect(p), q.work \in {p.work, NoWork}, q.socket \in {p.socket, NoWork},
         q.proving = p.proving, q.operations = p.operations,
         \A w \in Works : p.readyState[w] = "none" => q.readyState[w] = "none"
  PROVE  CanConnect(q)
<1>1. PICK w \in Works : Unused(p, w)
  BY DEF CanConnect
<1>2. w # NoWork
  BY PageAssumption
<1> QED BY <1>1, <1>2 DEF CanConnect, Unused

(* session_closed: the session is over, or gives way to a new one.         *)
LEMMA SessionClosedKeeps ==
  ASSUME NEW p, Hearing(p), NEW f \in Frames, Accepts(p.machine, "agent", f.type, f.session),
         f.type = "session_closed"
  PROVE  LET q == Handled(Heard(p, f), f)
         IN  PageOK(q) /\ LocatorStays(p, q)
<1> DEFINE h == Heard(p, f)
           t == TimersStopped(h)
           ended == [t EXCEPT !.fragment = NoSession, !.sessionId = NoSession,
                              !.requestedSessionId = NoSession]
           q == Handled(h, f)
           lost == [ended EXCEPT !.errorCode = "SESSION_OPEN_FAILED", !.newSession = "none",
                                 !.state = "error"]
           gone == [ended EXCEPT !.state = "disconnected"]
           shut == SocketClosing(gone)
           open == [shut EXCEPT !.newSession = "opening"]
<1>1. /\ BaseOK(h) /\ PlaceOK(h) /\ HandshakeOK(h) /\ h \in Pages /\ Attached(h)
      /\ h.machine = Advanced(p.machine, "agent", f.type, f.session)
      /\ h = [p EXCEPT !.machine = h.machine]
  BY HeardIs
<1>2. /\ p.machine.connectionState = "READY" /\ p.machine.sessionState \in {"OPEN", "CLOSING"}
      /\ h.machine.sessionState = "CLOSED"
  BY <1>1, HearingIs, FrameStates
<1>3. /\ p.newSession # "opening" /\ ~p.disposed
      /\ p.readyState[p.socket] \in {"open", "closing"} /\ CanConnect(p)
  BY <1>2, HearingIs DEF Pages, Hearing
<1>4. q = IF h.newSession # "closing"
          THEN Schedule([SocketClosing(ended) EXCEPT !.state = "disconnected"])
          ELSE IF f.detail # "new_session"
          THEN SocketClosing(Schedule([[ended EXCEPT !.errorCode = "SESSION_OPEN_FAILED",
                                                     !.newSession = "none"] EXCEPT !.state = "error"]))
          ELSE Connect([SocketClosing(Schedule(gone)) EXCEPT !.newSession = "opening"], NoSession)
  BY DEF Handled, SessionClosed, SetState
<1> HIDE DEF h, q
<1>5. /\ h.readyState = p.readyState /\ h.socket = p.socket /\ h.newSession = p.newSession
      /\ h.disposed = p.disposed /\ h.work = p.work /\ h.proving = p.proving
      /\ h.operations = p.operations
  BY <1>1, HearingIs DEF Pages
<1>6. t \in Pages /\ Alike(h, t)
  BY <1>1, LooseEdits
<1> HIDE DEF t
<1>7. ended \in Pages
  BY <1>6 DEF Pages
<1>8. /\ ended.operations = h.operations /\ ended.work = h.work /\ ended.socket = h.socket
      /\ ended.readyState = h.readyState /\ ended.newSession = h.newSession
      /\ ended.inbound = h.inbound /\ ended.proving = h.proving /\ ended.disposed = h.disposed
      /\ ended.timer = h.timer /\ ended.attempts = h.attempts /\ ended.machine = h.machine
      /\ ended.stored = h.stored /\ ended.credential = h.credential
      /\ ended.sessionId = NoSession /\ ended.requestedSessionId = NoSession
  BY <1>6 DEF Pages, Alike
<1> HIDE DEF ended
<1>9. ASSUME NEW a \in Pages,
             /\ a.operations = h.operations /\ a.work = h.work /\ a.socket = h.socket
             /\ a.readyState = h.readyState /\ a.inbound = h.inbound /\ a.proving = h.proving
             /\ a.disposed = h.disposed /\ a.timer = h.timer /\ a.attempts = h.attempts
             /\ a.machine = h.machine /\ a.stored = h.stored /\ a.credential = h.credential
             /\ a.newSession = "none" /\ a.state \in Idle
      PROVE  LET s == Schedule(SocketClosing(a))
             IN  PageOK(s) /\ s.machine.sessionState = "CLOSED"
  <2>1. BaseOK(a)
    <3>1. QueueOK(a) /\ SocketsOK(a)
      BY <1>1, <1>9, QueueReads, SocketsReads DEF BaseOK
    <3> QED BY <1>1, <1>9, <3>1 DEF BaseOK, ControllerOK, Attached
  <2>2. HandshakeOK(a) /\ Attached(a)
    BY <1>1, <1>9 DEF HandshakeOK, Saving, Attached
  <2>3. /\ ~a.disposed /\ a.newSession = "none" /\ a.state \in Idle
        /\ a.machine.sessionState = "CLOSED"
        /\ a.readyState[a.socket] \in {"open", "closing"}
    BY <1>2, <1>3, <1>5, <1>9
  <2> QED BY <2>1, <2>2, <2>3, ShutKeeps
<1>10. /\ gone \in Pages
       /\ gone.operations = h.operations /\ gone.work = h.work /\ gone.socket = h.socket
       /\ gone.readyState = h.readyState /\ gone.newSession = h.newSession
       /\ gone.inbound = h.inbound /\ gone.proving = h.proving /\ gone.disposed = h.disposed
       /\ gone.timer = h.timer /\ gone.attempts = h.attempts /\ gone.machine = h.machine
       /\ gone.stored = h.stored /\ gone.credential = h.credential
       /\ gone.sessionId = NoSession /\ gone.requestedSessionId = NoSession
       /\ gone.state = "disconnected"
  <2>1. gone \in Pages
    BY <1>7, StatesAre, Edits
  <2> QED BY <1>7, <1>8, <2>1 DEF Pages
<1>11. Schedule(SocketClosing(gone)) = Schedule([SocketClosing(ended) EXCEPT !.state = "disconnected"])
  <2>1. SocketClosing(gone) = [SocketClosing(ended) EXCEPT !.state = "disconnected"]
    BY <1>7 DEF SocketClosing, Pages
  <2> QED BY <2>1
<1>12. CASE h.newSession # "closing"
  <2>1. gone.newSession = "none" /\ gone.state \in Idle
    BY <1>3, <1>5, <1>10, <1>12, HearingIs DEF Pages, Idle
  <2> HIDE DEF gone
  <2>2. PageOK(q) /\ q.machine.sessionState = "CLOSED"
    BY <1>4, <1>9, <1>10, <1>11, <1>12, <2>1
  <2> QED BY <2>2 DEF LocatorStays, q, h
<1>13. CASE h.newSession = "closing" /\ f.detail # "new_session"
  <2>1. [[ended EXCEPT !.errorCode = "SESSION_OPEN_FAILED", !.newSession = "none"]
           EXCEPT !.state = "error"] = lost
    BY <1>7 DEF Pages
  <2>2. lost \in Pages
    <3>1. "error" \in States /\ "SESSION_OPEN_FAILED" \in ErrorCodes
      BY StatesAre DEF ErrorCodes
    <3> QED BY <1>7, <3>1 DEF Pages
  <2>3. /\ lost.operations = h.operations /\ lost.work = h.work /\ lost.socket = h.socket
        /\ lost.readyState = h.readyState /\ lost.inbound = h.inbound /\ lost.proving = h.proving
        /\ lost.disposed = h.disposed /\ lost.timer = h.timer /\ lost.attempts = h.attempts
        /\ lost.machine = h.machine /\ lost.stored = h.stored /\ lost.credential = h.credential
        /\ lost.newSession = "none" /\ lost.state \in Idle
    BY <1>7, <1>8 DEF Pages, Idle
  <2> HIDE DEF lost
  <2>4. q = Schedule(SocketClosing(lost))
    BY <1>4, <1>13, <2>1, <2>2, ScheduleCommutes
  <2>5. PageOK(q) /\ q.machine.sessionState = "CLOSED"
    BY <1>9, <2>2, <2>3, <2>4
  <2> QED BY <2>5 DEF LocatorStays, q, h
<1>14. CASE h.newSession = "closing" /\ f.detail = "new_session"
  <2> HIDE DEF gone
  <2>1. Schedule(gone) = gone
    BY <1>10 DEF Schedule, MayReconnect, Eligible
  <2>2. /\ shut \in Pages
        /\ shut = [gone EXCEPT !.readyState = shut.readyState]
        /\ \A w \in Works : shut.readyState[w]
             = IF w = gone.socket /\ gone.readyState[w] # "none" THEN "closing" ELSE gone.readyState[w]
    BY <1>10, SocketClosingIs
  <2>3. q = Connect(open, NoSession)
    BY <1>4, <1>14, <2>1
  <2> HIDE DEF shut
  <2>4. open \in Pages
    BY <2>2 DEF Pages
  <2>5. /\ open.operations = h.operations /\ open.work = h.work /\ open.socket = h.socket
        /\ open.proving = h.proving /\ open.disposed = h.disposed
        /\ open.timer = h.timer /\ open.attempts = h.attempts /\ open.machine = h.machine
        /\ open.readyState = shut.readyState /\ open.newSession = "opening"
        /\ open.sessionId = NoSession /\ open.requestedSessionId = NoSession
        /\ open.state = "disconnected"
    BY <1>10, <2>2 DEF Pages
  <2> HIDE DEF open
  <2>6. OneEach(open) /\ ControllerOK(open) /\ ~open.disposed /\ open.state \in Idle
    BY <1>1, <1>3, <1>5, <2>5 DEF BaseOK, QueueOK, OneEach, ControllerOK, Idle
  <2>7. Silent(open)
    BY <1>1, <1>10, <2>2, <2>5 DEF BaseOK, SocketsOK, Current, Silent
  <2>8. CanConnect(open)
    <3>1. \A w \in Works : p.readyState[w] = "none" => open.readyState[w] = "none"
      BY <1>5, <1>10, <2>2, <2>5
    <3> QED BY <1>3, <1>5, <2>5, <3>1, CanStillConnect
  <2>9. PageOK(q) /\ q.newSession = "opening"
    BY <2>3, <2>4, <2>5, <2>6, <2>7, <2>8, ConnectKeeps
  <2> QED BY <2>9 DEF LocatorStays, q, h
<1> QED BY <1>12, <1>13, <1>14

(* receive(): a frame that is refused is a failure, any other is handled.  *)
LEMMA ReceiveKeeps ==
  ASSUME NEW p, PageOK(p), Attached(p), ~Waiting(p), CanConnect(p), NEW f \in Frames,
         p.state # "error" /\ p.readyState[p.socket] = "none" =>
           p.machine.connectionState \in {"UNAUTHENTICATED", "CHALLENGED"}
  PROVE  LET q == Receive(p, f)
         IN  PageOK(q) /\ LocatorStays(p, q)
<1> DEFINE q == Receive(p, f)
<1>1. CASE p.state = "error"
  BY <1>1, SameLocator DEF Receive
<1>2. CASE p.state # "error" /\ ~Accepts(p.machine, "agent", f.type, f.session)
  <2>1. Refusal(p.machine, "agent", f.type) \in ErrorCodes
    BY DEF Refusal, ErrorCodes
  <2>2. q = Fail(p, Refusal(p.machine, "agent", f.type))
    BY <1>2 DEF Receive
  <2>3. BaseOK(p) /\ HandshakeOK(p) /\ ~p.disposed
    BY DEF PageOK, Sound, PlaceOK, Attached
  <2> HIDE DEF q
  <2>4. PageOK(q) /\ q.sessionId = p.sessionId /\ q.requestedSessionId = p.requestedSessionId
    BY <1>2, <2>1, <2>2, <2>3, FailKeeps
  <2> QED BY <2>4, SameLocator DEF q
<1>3. CASE p.state # "error" /\ Accepts(p.machine, "agent", f.type, f.session)
  <2>1. Hearing(p)
    BY <1>3 DEF Hearing
  <2>2. q = Handled(Heard(p, f), f)
    BY <1>3 DEF Receive, Heard
  <2>3. CASE f.type = "terminal_output"
    <3>1. p \in Pages /\ p.machine \in Machines
      BY <2>1, HearingIs
    <3>2. Advanced(p.machine, "agent", f.type, f.session) = p.machine
      BY <1>3, <2>3, <3>1, FrameStates
    <3>3. Heard(p, f) = p
      BY <3>1, <3>2 DEF Heard, Pages
    <3>4. q = p
      BY <2>2, <2>3, <3>3 DEF Handled
    <3> QED BY <3>4, SameLocator
  <2>4. f.type \in FrameTypes
    BY DEF Frames
  <2> HIDE DEF q
  <2>5. PageOK(q) /\ LocatorStays(p, q)
    <3>1. CASE f.type = "hello_ack"
      BY <1>3, <2>1, <2>2, <3>1, HelloAckKeeps
    <3>2. CASE f.type = "pairing_result"
      BY <1>3, <2>1, <2>2, <3>2, PairingResultKeeps
    <3>3. CASE f.type = "auth_challenge"
      BY <1>3, <2>1, <2>2, <3>3, ChallengeKeeps
    <3>4. CASE f.type = "auth_result"
      BY <1>3, <2>1, <2>2, <3>4, AuthResultKeeps
    <3>5. CASE f.type = "session_opened"
      BY <1>3, <2>1, <2>2, <3>5, SessionOpenedKeeps
    <3>6. CASE f.type = "session_reopened"
      BY <1>3, <2>1, <2>2, <3>6, SessionReopenedKeeps
    <3>7. CASE f.type = "history_end"
      BY <1>3, <2>1, <2>2, <3>7, HistoryEndKeeps
    <3>8. CASE f.type = "session_detached"
      BY <1>3, <2>1, <2>2, <3>8, SessionDetachedKeeps
    <3>9. CASE f.type = "session_closed"
      BY <1>3, <2>1, <2>2, <3>9, SessionClosedKeeps
    <3>10. CASE f.type = "error"
      BY <1>3, <2>1, <2>2, <3>10, ErrorReceivedKeeps
    <3> QED BY <2>3, <2>4, <3>1, <3>2, <3>3, <3>4, <3>5, <3>6, <3>7, <3>8, <3>9, <3>10
            DEF FrameTypes, q
  <2> QED BY <2>5 DEF q
<1> QED BY <1>1, <1>2, <1>3

-----------------------------------------------------------------------------
(* What follows the other waits, and what the shell calls.                 *)

(* The end of a task: whatever it made of the page, the shell may note     *)
(* that its New Session has failed.                                        *)
LEMMA RetryKeeps ==
  ASSUME NEW next, PageOK(next), LocatorStays(page, next)
  PROVE  PageOK(Retry(next)) /\ LocatorStays(page, Retry(next))
<1>1. next \in Pages
  BY DEF PageOK, Sound, BaseOK
<1> DEFINE fresh == GetSessionId(next) = NoSession
           q == [next EXCEPT !.needsFreshRetry = fresh]
<1>2. fresh \in BOOLEAN
  OBVIOUS
<1> HIDE DEF fresh
<1>3. q \in Pages /\ Alike(next, q)
  BY <1>1, <1>2, LooseEdits
<1> HIDE DEF q
<1>4. PageOK(q)
  BY <1>1, <1>3, AlikeKeeps
<1>5. LocatorStays(page, q)
  BY <1>3 DEF Alike, LocatorStays, GetSessionId
<1>6. Retry(next) \in {next, q}
  BY DEF Retry, q, fresh
<1> QED BY <1>4, <1>5, <1>6

(* The proof of a challenge is computed, in time or too late.              *)
LEMMA ProofKeeps ==
  ASSUME NEW p, PageOK(p), NEW w \in p.proving,
         NEW q, q \in {Proved([p EXCEPT !.proving = @ \ {w}], w),
                       ProvedLate([p EXCEPT !.proving = @ \ {w}], w)}
  PROVE  PageOK(q) /\ LocatorStays(p, q)
<1> DEFINE k == p.proving \ {w}
           r == [p EXCEPT !.proving = k]
           sent == Send(r, "auth_response")
           n == Advanced(r.machine, "client", "auth_response", r.sessionId)
<1>1. BaseOK(p) /\ PlaceOK(p) /\ HandshakeOK(p) /\ MachineOK(p) /\ WatchOK(p) /\ p \in Pages
  BY DEF PageOK, Sound, BaseOK
<1>2. [p EXCEPT !.proving = @ \ {w}] = r
  OBVIOUS
<1>3. w \in Works /\ w # NoWork /\ k \subseteq p.proving /\ k \in SUBSET Works /\ w \notin k
  BY <1>1, PageAssumption DEF Pages
<1> HIDE DEF k
<1>4. r \in Pages
  BY <1>1, <1>3, Edits
<1>5. /\ r.operations = p.operations /\ r.work = p.work /\ r.socket = p.socket
      /\ r.readyState = p.readyState /\ r.newSession = p.newSession /\ r.inbound = p.inbound
      /\ r.sessionId = p.sessionId /\ r.requestedSessionId = p.requestedSessionId
      /\ r.disposed = p.disposed /\ r.machine = p.machine /\ r.proving = k
      /\ r.state = p.state /\ r.timer = p.timer /\ r.attempts = p.attempts
      /\ r.stored = p.stored /\ r.credential = p.credential
      /\ r.stopped = p.stopped /\ r.hidden = p.hidden /\ r.shown = p.shown
      /\ r.errorCode = p.errorCode /\ r.failureCause = p.failureCause
  BY <1>1 DEF Pages
<1> HIDE DEF r
<1>6. PageOK(r)
  <2>1. QueueOK(r)
    BY <1>1, <1>3, <1>5 DEF BaseOK, QueueOK, OneEach, Attached
  <2>2. BaseOK(r)
    BY <1>1, <1>4, <1>5, <2>1, SocketsReads DEF BaseOK, ControllerOK, Attached
  <2>3. PlaceOK(r)
    BY <1>1, <1>5, PlaceReads
  <2>4. HandshakeOK(r)
    BY <1>1, <1>3, <1>5 DEF HandshakeOK, Saving, Attached
  <2>5. MachineOK(r)
    BY <1>1, <1>5 DEF MachineOK, Saving, Attached
  <2>6. WatchOK(r)
    BY <1>1, <1>5 DEF WatchOK, MayReconnect, Visible, Eligible
  <2> QED BY <2>2, <2>3, <2>4, <2>5, <2>6 DEF PageOK, Sound
<1>7. CASE ~Current(r, w)
  <2>1. q = r
    BY <1>2, <1>7 DEF Proved, ProvedLate
  <2> QED BY <1>5, <1>6, <2>1, SameLocator
<1>8. CASE Current(r, w)
  <2>1. Attached(r) /\ Attached(p) /\ r.work = w /\ r.socket = w /\ p.work = w
    BY <1>3, <1>5, <1>8 DEF Current, Attached
  <2>2. /\ r.machine.connectionState = "CHALLENGED" /\ r.machine.sessionState = "NONE"
        /\ ~Saving(r, r.work) /\ r.work \notin r.proving
    BY <1>1, <1>3, <1>5, <1>6, <2>1 DEF PageOK, Sound, HandshakeOK
  <2>3. /\ ~r.disposed /\ r.newSession # "closing"
        /\ r.state \notin {"pairing", "closing", "connected"}
    <3>1. PlaceOK(r) /\ MachineOK(r)
      BY <1>6 DEF PageOK, Sound
    <3>2. r.state \notin {"pairing", "closing", "connected"}
      BY <2>1, <2>2, <3>1 DEF MachineOK
    <3> QED BY <2>1, <3>1, <3>2 DEF PlaceOK, Attached
  <2>4. BaseOK(r) /\ PlaceOK(r) /\ HandshakeOK(r) /\ r.machine \in Machines
    BY <1>4, <1>6 DEF PageOK, Sound, Pages
  <2>5. ASSUME NEW x, NEW code \in ErrorCodes, x = Fail(r, code)
        PROVE  PageOK(x) /\ x.state = "error" /\ LocatorStays(p, x)
    BY <1>5, <1>6, <2>1, <2>3, <2>4, <2>5, FailKeeps, SameLocator
  <2>6. CASE q = ProvedLate(r, w)
    <3>1. q = Fail(r, "AUTHENTICATION_FAILED")
      BY <1>8, <2>6 DEF ProvedLate
    <3> QED BY <2>5, <3>1 DEF ErrorCodes
  <2>7. CASE q = Proved(r, w)
    <3>1. q = IF ~Current(sent, w) \/ sent.state = "error" THEN sent
              ELSE SetState(sent, "authenticating")
      BY <1>8, <2>7 DEF Proved
    <3>2. CASE sent = Release(r)
      <4>1. PageOK(sent) /\ sent.work = NoWork /\ LocatorStays(p, sent)
        BY <1>5, <2>4, <3>2, ReleaseKeeps, SameLocator
      <4> QED BY <1>3, <3>1, <4>1 DEF Current
    <3>3. ASSUME NEW code \in ErrorCodes, sent = Fail(r, code)
          PROVE  PageOK(q) /\ LocatorStays(p, q)
      BY <2>5, <3>1, <3>3
    <3>4. ASSUME SocketIsOpen(r), Accepts(r.machine, "client", "auth_response", r.sessionId),
                 sent = [r EXCEPT !.machine = n]
          PROVE  PageOK(q) /\ LocatorStays(p, q)
      <4>1. n \in Machines /\ n.connectionState = "PROVING" /\ n.sessionState = "NONE"
        BY <2>2, <2>4, <3>4, ClientFrame DEF Machines
      <4> HIDE DEF n, sent
      <4>2. BaseOK(sent) /\ PlaceOK(sent)
        BY <2>4, <3>4, <4>1, MachineSet
      <4>3. /\ sent.operations = r.operations /\ sent.work = r.work /\ sent.socket = r.socket
            /\ sent.readyState = r.readyState /\ sent.newSession = r.newSession
            /\ sent.sessionId = r.sessionId /\ sent.requestedSessionId = r.requestedSessionId
            /\ sent.machine = n /\ sent.proving = r.proving /\ sent.state = r.state
        BY <1>4, <3>4 DEF Pages
      <4>4. HandshakeOK(sent) /\ MachineOK(sent)
        BY <2>2, <2>3, <3>4, <4>1, <4>3
           DEF HandshakeOK, MachineOK, Saving, Attached, SocketIsOpen, Idle
      <4>5. sent.state \notin Idle /\ Attached(sent)
        <5>1. r.readyState[w] = "open"
          BY <2>1, <3>4 DEF SocketIsOpen
        <5>2. r.state \notin Idle
          BY <1>3, <2>4, <5>1 DEF PlaceOK, Silent
        <5> QED BY <2>1, <4>3, <5>2 DEF Attached
      <4> DEFINE x == SetState(sent, "authenticating")
      <4>6. sent.newSession # "closing" /\ sent \in Pages
        BY <2>3, <4>2, <4>3 DEF BaseOK
      <4>7. PageOK(x) /\ x = [sent EXCEPT !.state = "authenticating", !.timer = x.timer]
        BY <4>2, <4>4, <4>5, <4>6, TurnKeeps
      <4>8. q = x
        BY <2>1, <3>1, <4>3, <4>5 DEF Current, Idle
      <4> HIDE DEF x
      <4>9. x.sessionId = p.sessionId /\ x.requestedSessionId = p.requestedSessionId
        BY <1>5, <4>3, <4>6, <4>7 DEF Pages
      <4> QED BY <4>7, <4>8, <4>9, SameLocator
    <3> QED BY <1>4, <3>2, <3>3, <3>4, SendCases
  <2> QED BY <1>2, <2>6, <2>7
<1> QED BY <1>7, <1>8

(* pair(): the page waits for the agent's answer.                          *)
LEMMA PairKeeps ==
  ASSUME NEW p, PageOK(p), p.state = "pairing", SocketIsOpen(p)
  PROVE  LET q == Pair(p)
         IN  PageOK(q) /\ LocatorStays(p, q)
<1> DEFINE sent == Send(p, "pairing_request")
           n == Advanced(p.machine, "client", "pairing_request", p.sessionId)
           q == SetState(sent, "authenticating")
<1>1. /\ BaseOK(p) /\ PlaceOK(p) /\ HandshakeOK(p) /\ MachineOK(p) /\ p \in Pages
      /\ p.machine \in Machines
  BY DEF PageOK, Sound, BaseOK, Pages
<1>2. Attached(p) /\ p.readyState[p.socket] = "open"
  BY <1>1 DEF PlaceOK, Idle, Connecting, SocketIsOpen
<1>3. /\ p.machine.connectionState = "UNAUTHENTICATED" /\ p.machine.sessionState = "NONE"
      /\ ~Saving(p, p.work) /\ p.work \notin p.proving
  BY <1>1, <1>2 DEF HandshakeOK, MachineOK
<1>4. p.newSession # "closing" /\ ~p.disposed
  BY <1>1, <1>2 DEF PlaceOK, Attached
<1>5. ASSUME NEW x, BaseOK(x), PlaceOK(x), HandshakeOK(x), Attached(x), x.newSession # "closing",
             MachineOK(x) \/ (x.readyState[x.socket] = "open" /\ x.machine.sessionState = "NONE"),
             x.state \in Idle =>
               x.machine.connectionState = "UNAUTHENTICATED" /\ x.machine.sessionState = "NONE",
             x.sessionId = p.sessionId, x.requestedSessionId = p.requestedSessionId,
             sent = x
      PROVE  PageOK(q) /\ LocatorStays(p, q)
  <2> DEFINE y == SetState(x, "authenticating")
  <2>1. PageOK(y) /\ y = [x EXCEPT !.state = "authenticating", !.timer = y.timer]
    BY <1>5, TurnKeeps
  <2> HIDE DEF y
  <2>2. x \in Pages
    BY <1>5 DEF BaseOK
  <2>3. y.sessionId = p.sessionId /\ y.requestedSessionId = p.requestedSessionId
    BY <1>5, <2>1, <2>2, ZenonT(60) DEF Pages
  <2>4. PageOK(y) /\ LocatorStays(p, y)
    BY <2>1, <2>3, SameLocator
  <2> QED BY <1>5, <2>4 DEF y
<1>6. ASSUME NEW code \in ErrorCodes, sent = Fail(p, code)
      PROVE  PageOK(q) /\ LocatorStays(p, q)
  <2> DEFINE x == Fail(p, code)
  <2>1. /\ PageOK(x) /\ x.state = "error" /\ x.work = p.work /\ x.socket = p.socket
        /\ x.machine = p.machine
        /\ x.sessionId = p.sessionId /\ x.requestedSessionId = p.requestedSessionId
    BY <1>1, <1>2, <1>4, FailKeeps
  <2> HIDE DEF x
  <2>2. /\ BaseOK(x) /\ PlaceOK(x) /\ HandshakeOK(x) /\ MachineOK(x) /\ Attached(x)
        /\ x.newSession # "closing"
    BY <1>2, <2>1 DEF PageOK, Sound, PlaceOK, Attached
  <2>3. x.machine.connectionState = "UNAUTHENTICATED" /\ x.machine.sessionState = "NONE"
    BY <1>3, <2>1
  <2>4. sent = x
    BY <1>6 DEF x
  <2> QED BY <1>5, <2>1, <2>2, <2>3, <2>4
<1>7. ASSUME Accepts(p.machine, "client", "pairing_request", p.sessionId),
             sent = [p EXCEPT !.machine = n]
      PROVE  PageOK(q) /\ LocatorStays(p, q)
  <2> DEFINE x == [p EXCEPT !.machine = n]
  <2>1. n \in Machines /\ n.connectionState = "PAIRING" /\ n.sessionState = "NONE"
    BY <1>1, <1>3, <1>7, ClientFrame DEF Machines
  <2> HIDE DEF n
  <2>2. BaseOK(x) /\ PlaceOK(x)
    BY <1>1, <2>1, MachineSet
  <2>3. /\ x.operations = p.operations /\ x.work = p.work /\ x.socket = p.socket
        /\ x.readyState = p.readyState /\ x.newSession = p.newSession
        /\ x.sessionId = p.sessionId /\ x.requestedSessionId = p.requestedSessionId
        /\ x.machine = n /\ x.proving = p.proving /\ x.state = p.state
    BY <1>1 DEF Pages
  <2> HIDE DEF x
  <2>4. HandshakeOK(x) /\ Attached(x)
    BY <1>2, <1>3, <2>1, <2>3 DEF HandshakeOK, Saving, Attached
  <2>5. /\ x.readyState[x.socket] = "open" /\ x.machine.sessionState = "NONE"
        /\ x.newSession # "closing" /\ x.state \notin Idle /\ sent = x
        /\ x.sessionId = p.sessionId /\ x.requestedSessionId = p.requestedSessionId
    BY <1>2, <1>4, <1>7, <2>1, <2>3 DEF Idle, x
  <2> QED BY <1>5, <2>2, <2>4, <2>5
<1>8. PageOK(q) /\ LocatorStays(p, q)
  BY <1>1, <1>6, <1>7, SendCases
<1> QED BY <1>8 DEF Pair

(* Two pages that differ only in the controller's and the shell's fields.  *)
SameConnection(p, q) ==
  /\ q.operations = p.operations /\ q.work = p.work /\ q.socket = p.socket
  /\ q.readyState = p.readyState /\ q.newSession = p.newSession /\ q.inbound = p.inbound
  /\ q.sessionId = p.sessionId /\ q.requestedSessionId = p.requestedSessionId
  /\ q.disposed = p.disposed /\ q.machine = p.machine /\ q.proving = p.proving
  /\ q.state = p.state /\ q.stored = p.stored /\ q.credential = p.credential
  /\ q.errorCode = p.errorCode /\ q.failureCause = p.failureCause

(* One is as sound as the other, if its controller is.                     *)
LEMMA SteeredKeeps ==
  ASSUME NEW p, NEW q \in Pages, SameConnection(p, q), ControllerOK(q)
  PROVE  /\ BaseOK(p) => BaseOK(q)
         /\ Sound(p) => Sound(q)
         /\ LocatorStays(p, q)
<1>1. BaseOK(p) => BaseOK(q)
  BY QueueReads, SocketsReads DEF SameConnection, BaseOK, Attached
<1>2. PlaceOK(p) => PlaceOK(q)
  BY PlaceReads DEF SameConnection
<1>3. HandshakeOK(p) /\ MachineOK(p) => HandshakeOK(q) /\ MachineOK(q)
  BY MachineReads DEF SameConnection
<1>4. LocatorStays(p, q)
  BY SameLocator DEF SameConnection
<1> QED BY <1>1, <1>2, <1>3, <1>4 DEF Sound

(* What the user and the page's lifecycle tell the controller.             *)
LEMMA Steerings ==
  ASSUME NEW p \in Pages, ControllerOK(p)
  PROVE  /\ LET q == Stop(p) IN
              q \in Pages /\ SameConnection(p, q) /\ ControllerOK(q)
         /\ LET q == Manual(p) IN
              /\ q \in Pages /\ SameConnection(p, q) /\ ControllerOK(q)
              /\ q.timer = FALSE /\ q.hidden = p.hidden /\ q.shown = p.shown
         /\ LET q == Cancel(p) IN
              /\ q \in Pages /\ SameConnection(p, q) /\ ControllerOK(q)
              /\ q.timer = FALSE /\ q.attempts = p.attempts
              /\ q.stopped = p.stopped /\ q.hidden = p.hidden /\ q.shown = p.shown
         /\ \A b \in BOOLEAN : LET q == [p EXCEPT !.hidden = b] IN
              /\ q \in Pages /\ SameConnection(p, q) /\ ControllerOK(q)
              /\ q.hidden = b /\ q.stopped = p.stopped
         /\ \A b \in BOOLEAN : LET q == [p EXCEPT !.shown = b] IN
              /\ q \in Pages /\ SameConnection(p, q) /\ ControllerOK(q)
              /\ q.shown = b /\ q.stopped = p.stopped
<1>1. LET q == Stop(p) IN q \in Pages /\ SameConnection(p, q) /\ ControllerOK(q)
  <2>1. Stop(p) \in Pages
    BY ZenonT(60) DEF Stop, Pages
  <2> QED BY <2>1 DEF Stop, Pages, SameConnection, ControllerOK
<1>2. LET q == Manual(p) IN
        /\ q \in Pages /\ SameConnection(p, q) /\ ControllerOK(q)
        /\ q.timer = FALSE /\ q.hidden = p.hidden /\ q.shown = p.shown
  <2>1. Manual(p) \in Pages
    <3>1. 1 \in 0..MaxAttempts
      BY PageAssumption
    <3> QED BY <3>1, ZenonT(60) DEF Manual, Pages
  <2> QED BY <2>1 DEF Manual, Pages, SameConnection, ControllerOK
<1>3. LET q == Cancel(p) IN
        /\ q \in Pages /\ SameConnection(p, q) /\ ControllerOK(q)
        /\ q.timer = FALSE /\ q.attempts = p.attempts
        /\ q.stopped = p.stopped /\ q.hidden = p.hidden /\ q.shown = p.shown
  <2>1. Cancel(p) \in Pages
    BY ZenonT(60) DEF Cancel, Pages
  <2> QED BY <2>1 DEF Cancel, Pages, SameConnection, ControllerOK
<1>4. ASSUME NEW b \in BOOLEAN
      PROVE  LET q == [p EXCEPT !.hidden = b] IN
              /\ q \in Pages /\ SameConnection(p, q) /\ ControllerOK(q)
              /\ q.hidden = b /\ q.stopped = p.stopped
  <2>1. [p EXCEPT !.hidden = b] \in Pages
    BY SMTT(30) DEF Pages
  <2> QED BY <2>1 DEF Pages, SameConnection, ControllerOK
<1>5. ASSUME NEW b \in BOOLEAN
      PROVE  LET q == [p EXCEPT !.shown = b] IN
              /\ q \in Pages /\ SameConnection(p, q) /\ ControllerOK(q)
              /\ q.shown = b /\ q.stopped = p.stopped
  <2>1. [p EXCEPT !.shown = b] \in Pages
    BY SMTT(30) DEF Pages
  <2> QED BY <2>1 DEF Pages, SameConnection, ControllerOK
<1> QED BY <1>1, <1>2, <1>3, <1>4, <1>5

(* visibility() of the controller, after the tab or the page has changed.  *)
LEMMA LookedAtKeeps ==
  ASSUME NEW p, Sound(p), p.stopped => p.state # "connected"
  PROVE  LET q == LookedAt(p)
         IN  PageOK(q) /\ LocatorStays(p, q)
<1> DEFINE q == LookedAt(p)
           c == Cancel(p)
<1>1. p \in Pages /\ BaseOK(p) /\ ControllerOK(p)
  BY DEF Sound, BaseOK
<1>2. /\ c \in Pages /\ SameConnection(p, c) /\ ControllerOK(c)
      /\ c.stopped = p.stopped /\ c.hidden = p.hidden /\ c.shown = p.shown
  BY <1>1, Steerings
<1>3. Sound(c) /\ LocatorStays(p, c)
  BY <1>2, SteeredKeeps
<1>4. CASE Visible(p)
  <2> DEFINE s == Schedule(p)
  <2>1. PageOK(s) /\ s = [p EXCEPT !.timer = s.timer]
    BY <1>4, ScheduleKeeps
  <2> HIDE DEF s
  <2>2. LocatorStays(p, s)
    BY <1>1, <2>1, SameLocator DEF Pages
  <2> QED BY <1>4, <2>1, <2>2 DEF LookedAt, s
<1> HIDE DEF c
<1>5. CASE ~Visible(p) /\ p.state \in ReleasedWhenHidden
  <2> DEFINE r == Release(c)
  <2>1. PageOK(r) /\ r.sessionId = c.sessionId /\ r.requestedSessionId = c.requestedSessionId
    BY <1>3, ReleaseKeeps DEF Sound
  <2> HIDE DEF r
  <2>2. LocatorStays(p, r)
    BY <1>2, <2>1, SameLocator DEF SameConnection
  <2> QED BY <1>5, <2>1, <2>2 DEF LookedAt, r, c
<1>6. CASE ~Visible(p) /\ p.state \notin ReleasedWhenHidden
  <2>1. c.state # "connected" /\ ~Visible(c)
    BY <1>2, <1>6 DEF SameConnection, Visible, ReleasedWhenHidden
  <2>2. PageOK(c)
    BY <1>3, <2>1 DEF PageOK, WatchOK, MayReconnect
  <2> QED BY <1>3, <1>6, <2>2 DEF LookedAt, c
<1> QED BY <1>4, <1>5, <1>6

(* pagehide: what is under way is released, what is idle no longer retried.*)
LEMMA HiddenKeeps ==
  ASSUME NEW p, PageOK(p)
  PROVE  LET left == Cancel([p EXCEPT !.hidden = TRUE])
             q == IF left.state \in ReleasedOnLeaving THEN Release(left) ELSE left
         IN  PageOK(q) /\ LocatorStays(p, q)
<1> DEFINE h == [p EXCEPT !.hidden = TRUE]
           c == Cancel(h)
           r == Release(c)
<1>1. p \in Pages /\ Sound(p) /\ ControllerOK(p)
  BY DEF PageOK, Sound, BaseOK
<1>2. h \in Pages /\ SameConnection(p, h) /\ ControllerOK(h) /\ h.hidden = TRUE
  BY <1>1, Steerings
<1> HIDE DEF h
<1>3. c \in Pages /\ SameConnection(h, c) /\ ControllerOK(c) /\ c.hidden = h.hidden
  BY <1>2, Steerings
<1> HIDE DEF c
<1>4. Sound(c) /\ SameConnection(p, c)
  <2>1. Sound(h)
    BY <1>1, <1>2, SteeredKeeps
  <2>2. Sound(c)
    BY <1>3, <2>1, SteeredKeeps
  <2> QED BY <1>2, <1>3, <2>2 DEF SameConnection
<1>5. CASE c.state \in ReleasedOnLeaving
  <2>1. PageOK(r) /\ r.sessionId = c.sessionId /\ r.requestedSessionId = c.requestedSessionId
    BY <1>4, ReleaseKeeps DEF Sound
  <2> HIDE DEF r
  <2>2. LocatorStays(p, r)
    BY <1>4, <2>1, SameLocator DEF SameConnection
  <2> QED BY <1>5, <2>1, <2>2 DEF r, c, h
<1>6. CASE c.state \notin ReleasedOnLeaving
  <2>1. c.state # "connected" /\ ~Visible(c)
    BY <1>2, <1>3, <1>6 DEF Visible, ReleasedOnLeaving, ReleasedWhenHidden
  <2>2. PageOK(c) /\ LocatorStays(p, c)
    BY <1>4, <2>1, SameLocator DEF PageOK, WatchOK, MayReconnect, SameConnection
  <2> QED BY <1>6, <2>2 DEF c, h
<1> QED BY <1>5, <1>6

(* dispose() *)
LEMMA DisposedKeeps ==
  ASSUME NEW p, PageOK(p)
  PROVE  LET q == Release(Cancel([p EXCEPT !.disposed = TRUE]))
         IN  PageOK(q) /\ LocatorStays(p, q)
<1> DEFINE d == [p EXCEPT !.disposed = TRUE]
           c == Cancel(d)
           q == Release(c)
<1>1. p \in Pages /\ BaseOK(p)
  BY DEF PageOK, Sound, BaseOK
<1>2. /\ d \in Pages
      /\ d.operations = p.operations /\ d.work = p.work /\ d.socket = p.socket
      /\ d.readyState = p.readyState /\ d.inbound = p.inbound /\ d.proving = p.proving
      /\ d.stored = p.stored /\ d.credential = p.credential
      /\ d.sessionId = p.sessionId /\ d.requestedSessionId = p.requestedSessionId
  <2>1. d \in Pages
    BY <1>1 DEF Pages
  <2> QED BY <1>1, <2>1 DEF Pages
<1> HIDE DEF d
<1>3. /\ c \in Pages
      /\ c.operations = d.operations /\ c.work = d.work /\ c.socket = d.socket
      /\ c.readyState = d.readyState /\ c.inbound = d.inbound /\ c.proving = d.proving
      /\ c.stored = d.stored /\ c.credential = d.credential /\ c.timer = FALSE
      /\ c.sessionId = d.sessionId /\ c.requestedSessionId = d.requestedSessionId
  <2>1. c \in Pages
    BY <1>2, ZenonT(60) DEF Cancel, Pages
  <2> QED BY <1>2, <2>1 DEF Cancel, Pages
<1> HIDE DEF c
<1>4. BaseOK(c)
  <2>1. QueueOK(c) /\ SocketsOK(c)
    BY <1>1, <1>2, <1>3, QueueReads, SocketsReads DEF BaseOK
  <2> QED BY <1>1, <1>2, <1>3, <2>1 DEF BaseOK, ControllerOK, Attached
<1>5. PageOK(q) /\ q.sessionId = c.sessionId /\ q.requestedSessionId = c.requestedSessionId
  BY <1>4, ReleaseKeeps
<1> HIDE DEF q
<1>6. LocatorStays(p, q)
  BY <1>2, <1>3, <1>5, SameLocator
<1> QED BY <1>5, <1>6 DEF q, c, d

(* The reconnect timer fires.                                              *)
LEMMA ReconnectKeeps ==
  ASSUME NEW p, PageOK(p), p.timer, CanConnect(p)
  PROVE  LET fired == Cancel(p)
             q == IF MayReconnect(fired)
                  THEN Connect([fired EXCEPT !.attempts = @ + 1], GetSessionId(fired))
                  ELSE fired
         IN  PageOK(q) /\ LocatorStays(p, q)
<1> DEFINE c == Cancel(p)
           a == [c EXCEPT !.attempts = @ + 1]
           s == GetSessionId(c)
           q == Connect(a, s)
<1>1. p \in Pages /\ Sound(p) /\ ControllerOK(p) /\ PlaceOK(p)
  BY DEF PageOK, Sound, BaseOK
<1>2. /\ c \in Pages /\ SameConnection(p, c) /\ ControllerOK(c)
      /\ c.timer = FALSE /\ c.attempts = p.attempts
      /\ c.stopped = p.stopped /\ c.hidden = p.hidden /\ c.shown = p.shown
  BY <1>1, Steerings
<1>3. Sound(c) /\ LocatorStays(p, c)
  BY <1>1, <1>2, SteeredKeeps
<1> HIDE DEF c
<1>4. CASE ~MayReconnect(c)
  <2>1. c.stopped \/ ~Visible(c) => c.state # "connected"
    BY <1>2 DEF PageOK, WatchOK, Visible, SameConnection
  <2>2. PageOK(c)
    BY <1>3, <1>4, <2>1 DEF PageOK, WatchOK
  <2> QED BY <1>3, <1>4, <2>2 DEF c
<1>5. CASE MayReconnect(c)
  <2>1. c.attempts + 1 \in 0..MaxAttempts
    BY <1>1, <1>2, PageAssumption DEF ControllerOK, Pages
  <2>2. a \in Pages
    BY <1>2, <2>1 DEF Pages
  <2>3. /\ a.operations = p.operations /\ a.work = p.work /\ a.socket = p.socket
        /\ a.readyState = p.readyState /\ a.newSession = p.newSession /\ a.proving = p.proving
        /\ a.sessionId = p.sessionId /\ a.requestedSessionId = p.requestedSessionId
        /\ a.disposed = p.disposed /\ a.state = p.state /\ a.timer = FALSE
    BY <1>2 DEF Pages, SameConnection
  <2>4. c.state \in Idle /\ ~c.disposed /\ s \in Sessions \cup {NoSession}
    BY <1>2, <1>5 DEF MayReconnect, Eligible, Idle, GetSessionId, Pages
  <2>5. p.state \in Idle /\ ~p.disposed
    BY <1>2, <2>4 DEF SameConnection
  <2> HIDE DEF a, s
  <2>6. OneEach(a) /\ ControllerOK(a) /\ ~a.disposed /\ a.state \in Idle
    BY <1>1, <2>3, <2>5 DEF Sound, BaseOK, QueueOK, OneEach, ControllerOK
  <2>7. Silent(a) /\ a.newSession \notin {"closing", "opening"}
    BY <1>1, <2>3, <2>5 DEF PlaceOK, Silent, Idle
  <2>8. CanConnect(a)
    BY <2>3, CanStillConnect
  <2>9. PageOK(q) /\ (GetSessionId(a) # NoSession => GetSessionId(q) # NoSession)
    BY <2>2, <2>4, <2>6, <2>7, <2>8, ConnectKeeps
  <2> HIDE DEF q
  <2>10. LocatorStays(p, q)
    BY <2>3, <2>9 DEF LocatorStays, GetSessionId
  <2> QED BY <1>5, <2>9, <2>10 DEF q, a, s, c
<1> QED BY <1>4, <1>5

(* connect(), when the user asks for it.                                   *)
LEMMA ManualConnectKeeps ==
  ASSUME NEW p, PageOK(p), ~p.disposed, p.state \in Idle, CanConnect(p),
         NEW s \in Sessions \cup {NoSession}
  PROVE  LET q == Connect(Manual(p), s)
         IN  PageOK(q) /\ LocatorStays(p, q)
<1> DEFINE m == Manual(p)
           q == Connect(m, s)
<1>1. p \in Pages /\ Sound(p) /\ ControllerOK(p) /\ PlaceOK(p)
  BY DEF PageOK, Sound, BaseOK
<1>2. m \in Pages /\ SameConnection(p, m) /\ ControllerOK(m)
  BY <1>1, Steerings
<1> HIDE DEF m
<1>3. OneEach(m) /\ ~m.disposed /\ m.state \in Idle
  BY <1>1, <1>2 DEF Sound, BaseOK, QueueOK, OneEach, SameConnection
<1>4. Silent(m) /\ m.newSession \notin {"closing", "opening"}
  BY <1>1, <1>2 DEF PlaceOK, Silent, Idle, SameConnection
<1>5. CanConnect(m)
  BY <1>2, CanStillConnect DEF SameConnection
<1>6. PageOK(q) /\ (GetSessionId(m) # NoSession => GetSessionId(q) # NoSession)
  BY <1>2, <1>3, <1>4, <1>5, ConnectKeeps
<1> HIDE DEF q
<1>7. LocatorStays(p, q)
  BY <1>2, <1>6 DEF LocatorStays, GetSessionId, SameConnection
<1> QED BY <1>6, <1>7 DEF q, m

(* What is known of a connected page.                                      *)
LEMMA ConnectedIs ==
  ASSUME NEW p, Sound(p), p.state = "connected"
  PROVE  /\ Attached(p) /\ ~p.disposed /\ p.newSession = "none"
         /\ p.machine.connectionState = "READY" /\ p.machine.sessionState = "OPEN"
         /\ p.machine.sessionId = p.sessionId /\ p.sessionId # NoSession
         /\ p.readyState[p.socket] \in {"open", "closing"}
         /\ ~Saving(p, p.work) /\ p.work \notin p.proving
<1>1. BaseOK(p) /\ PlaceOK(p) /\ HandshakeOK(p) /\ MachineOK(p) /\ p \in Pages
  BY DEF Sound, BaseOK
<1>2. Attached(p) /\ ~p.disposed
  BY <1>1 DEF PlaceOK, Attached, Idle, Connecting
<1>3. /\ p.machine.connectionState = "READY" /\ p.machine.sessionState = "OPEN"
      /\ p.machine.sessionId = p.sessionId /\ p.sessionId # NoSession
      /\ p.readyState[p.socket] \in {"open", "closing"}
  BY <1>1, <1>2 DEF MachineOK, Idle
<1>4. p.newSession = "none"
  BY <1>1, <1>3 DEF PlaceOK, Pages
<1>5. ~Saving(p, p.work) /\ p.work \notin p.proving
  BY <1>1, <1>2, <1>3 DEF HandshakeOK
<1> QED BY <1>2, <1>3, <1>4, <1>5

(* A frame that a connected page cannot send.                              *)
LEMMA SendFailedKeeps ==
  ASSUME NEW p, Sound(p), p.state = "connected"
  PROVE  LET q == Fail(p, "BACKPRESSURE_LIMIT")
         IN  PageOK(q) /\ LocatorStays(p, q)
<1> DEFINE q == Fail(p, "BACKPRESSURE_LIMIT")
<1>1. Attached(p) /\ ~p.disposed /\ BaseOK(p) /\ HandshakeOK(p)
  BY ConnectedIs DEF Sound
<1>2. "BACKPRESSURE_LIMIT" \in ErrorCodes
  BY DEF ErrorCodes
<1>3. PageOK(q) /\ q.sessionId = p.sessionId /\ q.requestedSessionId = p.requestedSessionId
  BY <1>1, <1>2, FailKeeps
<1> HIDE DEF q
<1> QED BY <1>3, SameLocator DEF q

(* A connected page asks for the end of its session.                       *)
LEMMA CloseSentKeeps ==
  ASSUME NEW p, Sound(p), p.state = "connected", SocketIsOpen(p),
         NEW c \in Pages, c.state = "closing", c.newSession \in {"none", "closing"},
         c.operations = p.operations, c.work = p.work, c.socket = p.socket,
         c.readyState = p.readyState, c.inbound = p.inbound,
         c.sessionId = p.sessionId, c.requestedSessionId = p.requestedSessionId,
         c.disposed = p.disposed, c.machine = p.machine, c.proving = p.proving,
         c.stored = p.stored, c.credential = p.credential,
         c.timer = p.timer, c.attempts = p.attempts
  PROVE  LET q == Send(c, "close_session")
         IN  PageOK(q) /\ LocatorStays(p, q)
<1> DEFINE q == Send(c, "close_session")
           n == Advanced(c.machine, "client", "close_session", c.sessionId)
<1>1. /\ Attached(p) /\ ~p.disposed
      /\ p.machine.connectionState = "READY" /\ p.machine.sessionState = "OPEN"
      /\ ~Saving(p, p.work) /\ p.work \notin p.proving
      /\ BaseOK(p) /\ HandshakeOK(p)
  BY ConnectedIs DEF Sound
<1>2. BaseOK(c)
  <2>1. QueueOK(c) /\ SocketsOK(c)
    BY <1>1, QueueReads, SocketsReads DEF BaseOK
  <2> QED BY <1>1, <2>1 DEF BaseOK, ControllerOK, Attached
<1>3. HandshakeOK(c) /\ Attached(c) /\ SocketIsOpen(c) /\ ~c.disposed /\ c.machine \in Machines
  BY <1>1 DEF HandshakeOK, Saving, Attached, SocketIsOpen, HasSocket, Pages
<1>4. ASSUME NEW code \in ErrorCodes, q = Fail(c, code)
      PROVE  PageOK(q) /\ LocatorStays(p, q)
  BY <1>2, <1>3, <1>4, FailKeeps, SameLocator
<1>5. ASSUME Accepts(c.machine, "client", "close_session", c.sessionId),
             q = [c EXCEPT !.machine = n]
      PROVE  PageOK(q) /\ LocatorStays(p, q)
  <2>1. n \in Machines /\ n.connectionState = "READY" /\ n.sessionState = "CLOSING"
    BY <1>1, <1>3, <1>5, ClientFrame DEF Machines
  <2> HIDE DEF n, q
  <2>2. BaseOK(q)
    BY <1>2, <1>5, <2>1, MachineSet
  <2>3. /\ q.operations = c.operations /\ q.work = c.work /\ q.socket = c.socket
        /\ q.readyState = c.readyState /\ q.newSession = c.newSession
        /\ q.sessionId = c.sessionId /\ q.requestedSessionId = c.requestedSessionId
        /\ q.machine = n /\ q.proving = c.proving /\ q.state = "closing"
        /\ q.disposed = c.disposed
    BY <1>5 DEF Pages
  <2>4. q.readyState[q.socket] = "open" /\ Attached(q) /\ ~q.disposed
        /\ ~Saving(q, q.work) /\ q.work \notin q.proving
    BY <1>1, <1>3, <2>3 DEF SocketIsOpen, Attached, Saving
  <2>5. PlaceOK(q)
    <3>1. ~LoadingIn(q, q.work)
      BY <2>2, <2>4 DEF LoadingIn, BaseOK, QueueOK
    <3> QED BY <2>3, <2>4, <3>1 DEF PlaceOK, Idle, Connecting
  <2>6. HandshakeOK(q) /\ MachineOK(q)
    BY <2>1, <2>3, <2>4 DEF HandshakeOK, MachineOK, Idle
  <2>7. WatchOK(q)
    BY <2>3 DEF WatchOK, MayReconnect, Eligible
  <2> QED BY <2>2, <2>3, <2>5, <2>6, <2>7, SameLocator DEF PageOK, Sound
<1>6. PageOK(q) /\ LocatorStays(p, q)
  BY <1>3, <1>4, <1>5, SendCases
<1> QED BY <1>6

(* disconnect(): the session is asked to end, or all is given up.          *)
LEMMA DisconnectKeeps ==
  ASSUME NEW p, Sound(p), p.state \in {"pairing", "connected"}
  PROVE  LET q == Disconnect(p)
         IN  PageOK(q) /\ LocatorStays(p, q)
<1> DEFINE t == TimersStopped(p)
           s == [t EXCEPT !.connectTimer = FALSE]
           c == [s EXCEPT !.state = "closing"]
           d == SocketDropped(s)
           e == [d EXCEPT !.sessionId = NoSession, !.requestedSessionId = NoSession,
                          !.newSession = "none", !.work = NoWork]
           f == [e EXCEPT !.inbound = <<>>]
           g == [f EXCEPT !.state = "disconnected"]
           q == Disconnect(p)
<1>1. p \in Pages /\ BaseOK(p)
  BY DEF Sound, BaseOK
<1>2. t \in Pages /\ Alike(p, t)
  BY <1>1, LooseEdits
<1> HIDE DEF t
<1>3. s \in Pages /\ Alike(p, s)
  <2>1. s \in Pages
    BY <1>2, ZenonT(60) DEF Pages
  <2> QED BY <1>2, <2>1 DEF Pages, Alike
<1>4. q = IF p.state = "connected" /\ SocketIsOpen(p)
          THEN Send(Schedule(c), "close_session")
          ELSE Schedule([[d EXCEPT !.sessionId = NoSession, !.requestedSessionId = NoSession,
                            !.newSession = "none", !.work = NoWork, !.inbound = <<>>]
                            EXCEPT !.state = "disconnected"])
  BY DEF Disconnect, SetState, t
<1> HIDE DEF s, q
<1>5. CASE p.state = "connected" /\ SocketIsOpen(p)
  <2>1. c \in Pages
    BY <1>3, StatesAre, Edits
  <2>2. /\ c.state = "closing" /\ c.newSession = p.newSession
        /\ c.operations = p.operations /\ c.work = p.work /\ c.socket = p.socket
        /\ c.readyState = p.readyState /\ c.inbound = p.inbound
        /\ c.sessionId = p.sessionId /\ c.requestedSessionId = p.requestedSessionId
        /\ c.disposed = p.disposed /\ c.machine = p.machine /\ c.proving = p.proving
        /\ c.stored = p.stored /\ c.credential = p.credential
        /\ c.timer = p.timer /\ c.attempts = p.attempts
    BY <1>3 DEF Pages, Alike
  <2> HIDE DEF c
  <2>3. Schedule(c) = c
    BY <2>2 DEF Schedule, MayReconnect, Eligible
  <2>4. c.newSession \in {"none", "closing"}
    BY <1>5, <2>2, ConnectedIs
  <2> DEFINE sent == Send(c, "close_session")
  <2>5. PageOK(sent) /\ LocatorStays(p, sent)
    BY <1>5, <2>1, <2>2, <2>4, CloseSentKeeps
  <2>6. q = sent
    BY <1>4, <1>5, <2>3
  <2> HIDE DEF sent
  <2> QED BY <2>5, <2>6 DEF q
<1>6. CASE ~(p.state = "connected" /\ SocketIsOpen(p))
  <2>1. /\ d \in Pages
        /\ d = [s EXCEPT !.readyState = d.readyState, !.socket = NoWork]
        /\ \A w \in Works : d.readyState[w] = IF w = s.socket THEN "none" ELSE s.readyState[w]
    BY <1>3, SocketDroppedIs
  <2> HIDE DEF d
  <2>2. e \in Pages
    BY <2>1 DEF Pages
  <2>3. [[d EXCEPT !.sessionId = NoSession, !.requestedSessionId = NoSession,
                   !.newSession = "none", !.work = NoWork, !.inbound = <<>>]
            EXCEPT !.state = "disconnected"] = g
    BY <2>1 DEF Pages
  <2>4. /\ e.operations = p.operations /\ e.proving = p.proving /\ e.readyState = d.readyState
        /\ e.timer = p.timer /\ e.attempts = p.attempts /\ e.disposed = p.disposed
        /\ e.work = NoWork /\ e.socket = NoWork /\ e.newSession = "none"
    <3>1. /\ d.operations = p.operations /\ d.proving = p.proving /\ d.socket = NoWork
          /\ d.timer = p.timer /\ d.attempts = p.attempts /\ d.disposed = p.disposed
      <4>1. s \in Pages
        BY <1>3
      <4>2. /\ d.operations = s.operations /\ d.proving = s.proving /\ d.socket = NoWork
            /\ d.timer = s.timer /\ d.attempts = s.attempts /\ d.disposed = s.disposed
        BY <2>1, <4>1 DEF Pages
      <4> QED BY <1>3, <4>2 DEF Alike
    <3> QED BY <2>1, <3>1 DEF Pages
  <2> HIDE DEF e
  <2>5. f \in Pages
    BY <2>2, EmptyQueue, Edits
  <2>6. /\ f.operations = p.operations /\ f.proving = p.proving /\ f.readyState = d.readyState
        /\ f.timer = p.timer /\ f.attempts = p.attempts /\ f.disposed = p.disposed
        /\ f.work = NoWork /\ f.socket = NoWork /\ f.newSession = "none" /\ f.inbound = <<>>
    BY <2>2, <2>4 DEF Pages
  <2> HIDE DEF f
  <2>7. g \in Pages
    BY <2>5, StatesAre, Edits
  <2>8. /\ g.operations = p.operations /\ g.proving = p.proving /\ g.readyState = d.readyState
        /\ g.timer = p.timer /\ g.attempts = p.attempts /\ g.disposed = p.disposed
        /\ g.work = NoWork /\ g.socket = NoWork /\ g.newSession = "none" /\ g.inbound = <<>>
        /\ g.state = "disconnected"
    BY <2>5, <2>6 DEF Pages
  <2> HIDE DEF g
  <2>9. QueueOK(g) /\ ~LoadingIn(g, g.work)
    <3>1. NoWork \notin g.proving
          /\ \A i \in 1..Len(g.operations) : g.operations[i].work # NoWork
      BY <2>7, OperationsAre
    <3>2. OneEach(g)
      BY <1>1, <2>8 DEF BaseOK, QueueOK, OneEach
    <3> QED BY <2>8, <3>1, <3>2 DEF QueueOK, LoadingIn, Attached
  <2>10. Silent(g)
    BY <1>1, <1>3, <2>1, <2>8 DEF BaseOK, SocketsOK, Current, Silent, Alike
  <2>11. BaseOK(g)
    BY <1>1, <2>7, <2>8, <2>9, <2>10 DEF BaseOK, SocketsOK, Silent, ControllerOK, Attached
  <2>12. HandshakeOK(g) /\ MachineOK(g)
    BY <2>8 DEF HandshakeOK, MachineOK, Attached
  <2> DEFINE x == Schedule(g)
  <2>13. PageOK(x) /\ x = [g EXCEPT !.timer = x.timer]
    BY <2>8, <2>9, <2>10, <2>11, <2>12, RestKeeps DEF Idle
  <2>14. q = x
    BY <1>4, <1>6, <2>3
  <2> HIDE DEF x
  <2>15. x.state = "disconnected"
    BY <2>7, <2>8, <2>13 DEF Pages
  <2> QED BY <2>13, <2>14, <2>15 DEF LocatorStays, q
<1> QED BY <1>5, <1>6

(* newSession(), when the close of the old one cannot be sent: the page is *)
(* connected as it was.                                                    *)
LEMMA RefusedKeeps ==
  ASSUME NEW p, Sound(p), p.state = "connected"
  PROVE  LET q == NewSessionRefused(p)
         IN  PageOK(q) /\ LocatorStays(p, q)
<1> DEFINE c == [p EXCEPT !.state = "closing"]
           C == SetConnected(c)
<1>1. p \in Pages /\ BaseOK(p) /\ HandshakeOK(p)
  BY DEF Sound, BaseOK
<1>2. c \in Pages
  BY <1>1, StatesAre, Edits
<1>3. /\ c.state = "closing" /\ c.newSession = p.newSession
      /\ c.operations = p.operations /\ c.work = p.work /\ c.socket = p.socket
      /\ c.readyState = p.readyState /\ c.inbound = p.inbound
      /\ c.sessionId = p.sessionId /\ c.requestedSessionId = p.requestedSessionId
      /\ c.disposed = p.disposed /\ c.machine = p.machine /\ c.proving = p.proving
      /\ c.stored = p.stored /\ c.credential = p.credential
      /\ c.timer = p.timer /\ c.attempts = p.attempts
  BY <1>1 DEF Pages
<1>4. NewSessionRefused(p) = SetConnected(Schedule(c))
  BY DEF NewSessionRefused, SetState
<1> HIDE DEF c
<1>5. Schedule(c) = c
  BY <1>3 DEF Schedule, MayReconnect, Eligible
<1>6. BaseOK(c)
  <2>1. QueueOK(c) /\ SocketsOK(c)
    BY <1>1, <1>3, QueueReads, SocketsReads DEF BaseOK
  <2> QED BY <1>1, <1>2, <1>3, <2>1 DEF BaseOK, ControllerOK, Attached
<1>7. /\ HandshakeOK(c) /\ Attached(c) /\ ~c.disposed /\ c.newSession = "none"
      /\ c.machine.connectionState = "READY" /\ c.machine.sessionState = "OPEN"
      /\ c.machine.sessionId = c.sessionId /\ c.sessionId # NoSession
      /\ c.readyState[c.socket] \in {"open", "closing"}
  BY <1>1, <1>3, ConnectedIs DEF HandshakeOK, Saving, Attached
<1>8. CASE Keeps(c)
  <2>1. /\ PageOK([C EXCEPT !.newSession = "none"])
        /\ C = [c EXCEPT !.state = "connected", !.attempts = 0, !.stopped = FALSE,
                         !.timer = FALSE]
    BY <1>6, <1>7, <1>8, ConnectedKeeps
  <2> HIDE DEF C
  <2>2. C = [C EXCEPT !.newSession = "none"]
    BY <1>2, <1>7, <2>1, ZenonT(60) DEF Pages
  <2>3. C.sessionId = p.sessionId /\ C.requestedSessionId = p.requestedSessionId
    BY <1>2, <1>3, <2>1 DEF Pages
  <2>4. PageOK(C)
    BY <2>1, <2>2
  <2> QED BY <1>4, <1>5, <2>3, <2>4, SameLocator DEF C
<1>9. CASE ~Keeps(c)
  <2>1. PageOK(C) /\ C.sessionId = c.sessionId /\ C.requestedSessionId = c.requestedSessionId
    BY <1>6, <1>9, NotKeptReleased
  <2> HIDE DEF C
  <2> QED BY <1>3, <1>4, <1>5, <2>1, SameLocator DEF C
<1> QED BY <1>8, <1>9

(* newSession(): a connected page closes its session first, one whose      *)
(* locator was rejected connects without it.                               *)
LEMMA NewSessionKeeps ==
  ASSUME NEW p, PageOK(p), ~p.disposed, CanConnect(p), p.state \in {"connected", "error"},
         NEW q, \/ q = NewSession([Manual(p) EXCEPT !.needsFreshRetry = FALSE])
                \/ /\ p.state = "connected"
                   /\ q = NewSessionRefused([Manual(p) EXCEPT !.needsFreshRetry = FALSE])
  PROVE  PageOK(q) /\ LocatorStays(p, q)
<1> DEFINE m == Manual(p)
           k == [m EXCEPT !.needsFreshRetry = FALSE]
           c == [k EXCEPT !.newSession = "closing", !.state = "closing"]
           d == SocketDropped(k)
           e == [d EXCEPT !.newSession = "opening", !.sessionId = NoSession,
                          !.requestedSessionId = NoSession]
           g == [e EXCEPT !.state = "disconnected"]
<1>1. p \in Pages /\ Sound(p) /\ ControllerOK(p) /\ PlaceOK(p) /\ BaseOK(p)
  BY DEF PageOK, Sound, BaseOK
<1>2. m \in Pages /\ SameConnection(p, m) /\ ControllerOK(m)
  BY <1>1, Steerings
<1>3. Sound(m)
  BY <1>1, <1>2, SteeredKeeps
<1> HIDE DEF m
<1>4. k \in Pages /\ Alike(m, k)
  BY <1>2, LooseEdits
<1> HIDE DEF k
<1>5. Sound(k)
  BY <1>2, <1>3, <1>4, AlikeKeeps DEF Sound
<1>6. /\ k.operations = p.operations /\ k.work = p.work /\ k.socket = p.socket
      /\ k.readyState = p.readyState /\ k.newSession = p.newSession /\ k.inbound = p.inbound
      /\ k.sessionId = p.sessionId /\ k.requestedSessionId = p.requestedSessionId
      /\ k.disposed = p.disposed /\ k.machine = p.machine /\ k.proving = p.proving
      /\ k.state = p.state /\ k.stored = p.stored /\ k.credential = p.credential
  BY <1>2, <1>4 DEF Alike, SameConnection
<1>7. \A x : LocatorStays(k, x) => LocatorStays(p, x)
  BY <1>6 DEF LocatorStays, GetSessionId
<1>8. CASE p.state = "connected" /\ q = NewSessionRefused(k)
  BY <1>5, <1>6, <1>7, <1>8, RefusedKeeps
<1>9. CASE p.state = "connected" /\ q = NewSession(k)
  <2>1. q = CloseForNewSession(k)
    BY <1>6, <1>9 DEF NewSession
  <2>2. CASE ~SocketIsOpen(k)
    BY <1>5, <1>6, <1>7, <1>9, <2>1, <2>2, RefusedKeeps DEF CloseForNewSession
  <2>3. CASE SocketIsOpen(k)
    <3>1. q = Send(Schedule([[k EXCEPT !.newSession = "closing"] EXCEPT !.state = "closing"]),
                   "close_session")
      BY <2>1, <2>3 DEF CloseForNewSession, SetState
    <3>2. [[k EXCEPT !.newSession = "closing"] EXCEPT !.state = "closing"] = c
      BY <1>4 DEF Pages
    <3>3. c \in Pages
      <4>1. "closing" \in States
        BY StatesAre
      <4> QED BY <1>4, <4>1 DEF Pages
    <3>4. /\ c.state = "closing" /\ c.newSession = "closing"
          /\ c.operations = k.operations /\ c.work = k.work /\ c.socket = k.socket
          /\ c.readyState = k.readyState /\ c.inbound = k.inbound
          /\ c.sessionId = k.sessionId /\ c.requestedSessionId = k.requestedSessionId
          /\ c.disposed = k.disposed /\ c.machine = k.machine /\ c.proving = k.proving
          /\ c.stored = k.stored /\ c.credential = k.credential
          /\ c.timer = k.timer /\ c.attempts = k.attempts
      BY <1>4 DEF Pages
    <3> HIDE DEF c
    <3>5. Schedule(c) = c
      BY <3>4 DEF Schedule, MayReconnect, Eligible
    <3> DEFINE sent == Send(c, "close_session")
    <3>6. k.state = "connected" /\ c.newSession \in {"none", "closing"}
      BY <1>6, <1>9, <3>4
    <3>7. PageOK(sent) /\ LocatorStays(k, sent)
      BY <1>5, <2>3, <3>3, <3>4, <3>6, CloseSentKeeps
    <3>8. q = sent
      BY <3>1, <3>2, <3>5
    <3> HIDE DEF sent
    <3> QED BY <1>7, <3>7, <3>8
  <2> QED BY <2>2, <2>3
<1>10. CASE p.state = "error" /\ q = NewSession(k)
  <2>1. q = Connect(Schedule(g), NoSession)
    BY <1>6, <1>10 DEF NewSession, OpenInstead, SetState
  <2>2. /\ d \in Pages
        /\ d = [k EXCEPT !.readyState = d.readyState, !.socket = NoWork]
        /\ \A w \in Works : d.readyState[w] = IF w = k.socket THEN "none" ELSE k.readyState[w]
    BY <1>4, SocketDroppedIs
  <2> HIDE DEF d
  <2>3. /\ d.operations = k.operations /\ d.work = k.work /\ d.proving = k.proving
        /\ d.disposed = k.disposed /\ d.socket = NoWork
        /\ d.timer = k.timer /\ d.attempts = k.attempts
    BY <1>4, <2>2 DEF Pages
  <2>4. e \in Pages
    BY <2>2 DEF Pages
  <2>5. /\ e.operations = k.operations /\ e.work = k.work /\ e.proving = k.proving
        /\ e.disposed = k.disposed /\ e.socket = NoWork /\ e.readyState = d.readyState
        /\ e.timer = k.timer /\ e.attempts = k.attempts
        /\ e.newSession = "opening" /\ e.sessionId = NoSession /\ e.requestedSessionId = NoSession
    BY <2>2, <2>3 DEF Pages
  <2> HIDE DEF e
  <2>6. g \in Pages
    BY <2>4, StatesAre, Edits
  <2>7. /\ g.operations = k.operations /\ g.work = k.work /\ g.proving = k.proving
        /\ g.disposed = k.disposed /\ g.socket = NoWork /\ g.readyState = d.readyState
        /\ g.timer = k.timer /\ g.attempts = k.attempts
        /\ g.newSession = "opening" /\ g.sessionId = NoSession /\ g.requestedSessionId = NoSession
        /\ g.state = "disconnected"
    BY <2>4, <2>5 DEF Pages
  <2> HIDE DEF g
  <2>8. Schedule(g) = g
    BY <2>7 DEF Schedule, MayReconnect, Eligible
  <2>9. OneEach(g) /\ ControllerOK(g) /\ ~g.disposed /\ g.state \in Idle
    BY <1>5, <1>6, <2>7 DEF Sound, BaseOK, QueueOK, OneEach, ControllerOK, Idle
  <2>10. Silent(g)
    BY <1>1, <1>6, <1>10, <2>2, <2>7 DEF PlaceOK, Silent, Idle
  <2>11. CanConnect(g)
    <3>1. \A w \in Works : p.readyState[w] = "none" => g.readyState[w] = "none"
      BY <1>6, <2>2, <2>7
    <3>2. /\ g.work \in {p.work, NoWork} /\ g.socket \in {p.socket, NoWork}
          /\ g.proving = p.proving /\ g.operations = p.operations
      BY <1>6, <2>7
    <3> QED BY <3>1, <3>2, CanStillConnect
  <2>12. PageOK(q) /\ q.newSession = "opening"
    BY <2>1, <2>6, <2>7, <2>8, <2>9, <2>10, <2>11, ConnectKeeps
  <2> QED BY <2>12 DEF LocatorStays
<1> QED BY <1>8, <1>9, <1>10 DEF k, m

(* The agent closes the transport of a page that is in use.                *)
LEMMA AgentClosedKeeps ==
  ASSUME NEW p, PageOK(p), SocketIsOpen(p)
  PROVE  LET q == SocketClosing(p)
         IN  PageOK(q) /\ LocatorStays(p, q)
<1> DEFINE q == SocketClosing(p)
<1>1. /\ BaseOK(p) /\ PlaceOK(p) /\ HandshakeOK(p) /\ MachineOK(p) /\ WatchOK(p) /\ p \in Pages
  BY DEF PageOK, Sound, BaseOK
<1>2. /\ q \in Pages
      /\ q = [p EXCEPT !.readyState = q.readyState]
      /\ \A w \in Works : q.readyState[w]
           = IF w = p.socket /\ p.readyState[w] # "none" THEN "closing" ELSE p.readyState[w]
  BY <1>1, SocketClosingIs
<1> HIDE DEF q
<1>3. /\ q.operations = p.operations /\ q.work = p.work /\ q.socket = p.socket
      /\ q.newSession = p.newSession /\ q.inbound = p.inbound
      /\ q.sessionId = p.sessionId /\ q.requestedSessionId = p.requestedSessionId
      /\ q.disposed = p.disposed /\ q.machine = p.machine /\ q.proving = p.proving
      /\ q.state = p.state /\ q.timer = p.timer /\ q.attempts = p.attempts
      /\ q.stored = p.stored /\ q.credential = p.credential
      /\ q.stopped = p.stopped /\ q.hidden = p.hidden /\ q.shown = p.shown
      /\ q.errorCode = p.errorCode /\ q.failureCause = p.failureCause
  BY <1>1, <1>2 DEF Pages
<1>4. p.socket \in Works /\ p.readyState[p.socket] = "open"
  BY <1>1 DEF SocketIsOpen, HasSocket, Pages
<1>5. p.state \notin Idle /\ q.readyState[q.socket] = "closing"
  BY <1>1, <1>2, <1>3, <1>4 DEF PlaceOK, Silent
<1>6. BaseOK(q)
  <2>1. QueueOK(q)
    BY <1>1, <1>3, QueueReads DEF BaseOK
  <2>2. SocketsOK(q)
    BY <1>1, <1>2, <1>3 DEF BaseOK, SocketsOK, Current
  <2> QED BY <1>1, <1>2, <1>3, <2>1, <2>2 DEF BaseOK, ControllerOK, Attached
<1>7. PlaceOK(q)
  BY <1>1, <1>3, <1>5 DEF PlaceOK, LoadingIn, Attached
<1>8. HandshakeOK(q)
  BY <1>1, <1>3 DEF HandshakeOK, Saving, Attached
<1>9. MachineOK(q)
  BY <1>1, <1>3, <1>4, <1>5 DEF MachineOK, Saving, Attached, Idle
<1>10. WatchOK(q)
  BY <1>1, <1>3 DEF WatchOK, MayReconnect, Visible, Eligible
<1> QED BY <1>3, <1>6, <1>7, <1>8, <1>9, <1>10, SameLocator DEF PageOK, Sound, q

(* A frame that waits behind another.                                      *)
LEMMA QueuedKeeps ==
  ASSUME NEW p, PageOK(p), SocketIsOpen(p), NEW f \in Frames
  PROVE  LET q == [p EXCEPT !.inbound = Append(@, f)]
         IN  PageOK(q) /\ LocatorStays(p, q)
<1> DEFINE i == Append(p.inbound, f)
           q == [p EXCEPT !.inbound = i]
<1>1. /\ BaseOK(p) /\ PlaceOK(p) /\ HandshakeOK(p) /\ MachineOK(p) /\ WatchOK(p) /\ p \in Pages
  BY DEF PageOK, Sound, BaseOK
<1>2. i \in Seq(Frames)
  BY <1>1 DEF Pages
<1> HIDE DEF i
<1>3. q \in Pages
  BY <1>1, <1>2, Edits
<1>4. /\ q.operations = p.operations /\ q.work = p.work /\ q.socket = p.socket
      /\ q.readyState = p.readyState /\ q.newSession = p.newSession
      /\ q.sessionId = p.sessionId /\ q.requestedSessionId = p.requestedSessionId
      /\ q.disposed = p.disposed /\ q.machine = p.machine /\ q.proving = p.proving
      /\ q.state = p.state /\ q.timer = p.timer /\ q.attempts = p.attempts
      /\ q.stored = p.stored /\ q.credential = p.credential
      /\ q.stopped = p.stopped /\ q.hidden = p.hidden /\ q.shown = p.shown
      /\ q.errorCode = p.errorCode /\ q.failureCause = p.failureCause
  BY <1>1 DEF Pages
<1> HIDE DEF q
<1>5. p.socket \in Works /\ p.readyState[p.socket] = "open" /\ Attached(p)
  BY <1>1, PageAssumption DEF SocketIsOpen, HasSocket, Pages, BaseOK, SocketsOK, Current, Attached
<1>6. BaseOK(q)
  <2>1. QueueOK(q)
    BY <1>1, <1>4, <1>5 DEF BaseOK, QueueOK, OneEach, Attached
  <2> QED BY <1>1, <1>3, <1>4, <2>1, SocketsReads DEF BaseOK, ControllerOK, Attached
<1>7. PlaceOK(q)
  BY <1>1, <1>4, PlaceReads
<1>8. HandshakeOK(q)
  BY <1>1, <1>4 DEF HandshakeOK, Saving, Attached
<1>9. MachineOK(q)
  BY <1>1, <1>4, <1>5 DEF MachineOK, Saving, Attached
<1>10. WatchOK(q)
  BY <1>1, <1>4 DEF WatchOK, MayReconnect, Visible, Eligible
<1> QED BY <1>4, <1>6, <1>7, <1>8, <1>9, <1>10, SameLocator DEF PageOK, Sound, q, i

(* The frame that has waited longest is taken from the others.             *)
LEMMA TakenKeeps ==
  ASSUME NEW p, PageOK(p), p.inbound # <<>>, ~Waiting(p), CanConnect(p)
  PROVE  LET q == Receive([p EXCEPT !.inbound = Tail(@)], Head(p.inbound))
         IN  PageOK(q) /\ LocatorStays(p, q)
<1> DEFINE i == Tail(p.inbound)
           f == Head(p.inbound)
           t == [p EXCEPT !.inbound = i]
           q == Receive(t, f)
<1>1. /\ BaseOK(p) /\ PlaceOK(p) /\ HandshakeOK(p) /\ MachineOK(p) /\ WatchOK(p) /\ p \in Pages
  BY DEF PageOK, Sound, BaseOK
<1>2. i \in Seq(Frames) /\ f \in Frames
  BY <1>1 DEF Pages
<1> HIDE DEF i, f
<1>3. t \in Pages
  BY <1>1, <1>2, Edits
<1>4. /\ t.operations = p.operations /\ t.work = p.work /\ t.socket = p.socket
      /\ t.readyState = p.readyState /\ t.newSession = p.newSession
      /\ t.sessionId = p.sessionId /\ t.requestedSessionId = p.requestedSessionId
      /\ t.disposed = p.disposed /\ t.machine = p.machine /\ t.proving = p.proving
      /\ t.state = p.state /\ t.timer = p.timer /\ t.attempts = p.attempts
      /\ t.stored = p.stored /\ t.credential = p.credential
      /\ t.stopped = p.stopped /\ t.hidden = p.hidden /\ t.shown = p.shown
      /\ t.errorCode = p.errorCode /\ t.failureCause = p.failureCause
  BY <1>1 DEF Pages
<1> HIDE DEF t
<1>5. Attached(p) /\ Attached(t)
  BY <1>1, <1>4 DEF BaseOK, QueueOK, Attached
<1>6. BaseOK(t)
  <2>1. QueueOK(t)
    BY <1>1, <1>4, <1>5 DEF BaseOK, QueueOK, OneEach, Attached
  <2> QED BY <1>1, <1>3, <1>4, <2>1, SocketsReads DEF BaseOK, ControllerOK, Attached
<1>7. PlaceOK(t)
  BY <1>1, <1>4, PlaceReads
<1>8. HandshakeOK(t)
  BY <1>1, <1>4 DEF HandshakeOK, Saving, Attached
<1>9. MachineOK(t)
  BY <1>1, <1>4, <1>5 DEF MachineOK, Saving, Attached
<1>10. WatchOK(t)
  BY <1>1, <1>4 DEF WatchOK, MayReconnect, Visible, Eligible
<1>11. ~Waiting(t) /\ CanConnect(t)
  BY <1>4, CanStillConnect DEF Waiting, HasSocket, Saving
<1>12. t.state # "error" /\ t.readyState[t.socket] = "none" =>
         t.machine.connectionState \in {"UNAUTHENTICATED", "CHALLENGED"}
  BY <1>1, <1>4, <1>5 DEF MachineOK
<1>13. PageOK(t)
  BY <1>6, <1>7, <1>8, <1>9, <1>10 DEF PageOK, Sound
<1>14. PageOK(q) /\ LocatorStays(t, q)
  BY <1>2, <1>5, <1>11, <1>12, <1>13, ReceiveKeeps
<1> HIDE DEF q
<1>15. LocatorStays(p, q)
  BY <1>4, <1>14 DEF LocatorStays, GetSessionId
<1> QED BY <1>14, <1>15 DEF q, t, f, i

-----------------------------------------------------------------------------
(* The agent.                                                              *)

Agents ==
  [connection : ConnectionStates, session : SessionStates, sessionId : Sessions \cup {NoSession},
   knows : BOOLEAN, reason : Details, wire : Seq(Frames), running : SUBSET Sessions]

AgentOK(a) == a \in Agents /\ Len(a.wire) <= MaxWire

(* The tables lead from state to state.                                    *)
LEMMA SuccessorStates ==
  ASSUME NEW s, NEW direction, NEW message
  PROVE  /\ NextConnection(s, direction, message) \subseteq ConnectionStates
         /\ \A c : NextSession(c, s, direction, message) \subseteq SessionStates
<1>1. /\ \A row \in ConnectionTable : row[4] \in ConnectionStates
      /\ \A row \in SessionTable : row[4] \in SessionStates
  BY MachineStates DEF ConnectionTable, SessionTable
<1> QED BY <1>1 DEF NextConnection, NextSession, Successors

(* Whatever the agent hears, and when the transport is gone.               *)
LEMMA AgentMoves ==
  ASSUME NEW a, AgentOK(a), NEW direction, NEW message
  PROVE  /\ LET b == Moves(a, direction, message)
            IN  AgentOK(b) /\ b.wire = a.wire /\ b.running = a.running /\ b.sessionId = a.sessionId
         /\ AgentOK(Offline(a))
<1>1. a \in Agents /\ Len(a.wire) <= MaxWire
  BY DEF AgentOK
<1> DEFINE b == Moves(a, direction, message)
           connections == NextConnection(a.connection, direction, message)
           sessions == NextSession(a.connection, a.session, direction, message)
<1>2. AgentOK(b) /\ b.wire = a.wire /\ b.running = a.running /\ b.sessionId = a.sessionId
  <2>1. connections \subseteq ConnectionStates /\ sessions \subseteq SessionStates
    BY SuccessorStates
  <2>2. b = IF connections # {} THEN [a EXCEPT !.connection = The(connections)]
            ELSE IF sessions # {} THEN [a EXCEPT !.session = The(sessions)]
            ELSE a
    BY DEF Moves
  <2> HIDE DEF connections, sessions, b
  <2>3. CASE connections # {}
    <3>1. The(connections) \in ConnectionStates
      BY <2>1, <2>3 DEF The
    <3> DEFINE c == The(connections)
    <3> HIDE DEF c
    <3>2. c \in ConnectionStates /\ b = [a EXCEPT !.connection = c]
      BY <2>2, <2>3, <3>1 DEF c
    <3>3. b \in Agents
      BY <1>1, <3>2 DEF Agents
    <3> QED BY <1>1, <3>2, <3>3 DEF Agents, AgentOK
  <2>4. CASE connections = {} /\ sessions # {}
    <3>1. The(sessions) \in SessionStates
      BY <2>1, <2>4 DEF The
    <3> DEFINE c == The(sessions)
    <3> HIDE DEF c
    <3>2. c \in SessionStates /\ b = [a EXCEPT !.session = c]
      BY <2>2, <2>4, <3>1 DEF c
    <3>3. b \in Agents
      BY <1>1, <3>2 DEF Agents
    <3> QED BY <1>1, <3>2, <3>3 DEF Agents, AgentOK
  <2>5. CASE connections = {} /\ sessions = {}
    BY <1>1, <2>2, <2>5 DEF AgentOK
  <2> QED BY <2>3, <2>4, <2>5
<1>3. AgentOK(Offline(a))
  <2> DEFINE e == [a EXCEPT !.connection = "CLOSED", !.session = "NONE", !.sessionId = NoSession,
                            !.knows = FALSE, !.reason = "none"]
             o == [e EXCEPT !.wire = <<>>]
  <2>1. /\ "CLOSED" \in ConnectionStates /\ "NONE" \in SessionStates /\ "none" \in Details
        /\ <<>> \in Seq(Frames) /\ Len(<<>>) <= MaxWire
    BY MachineStates, EmptyQueue, PageAssumption DEF ConnectionStates, Details, ErrorCodes
  <2>2. e \in Agents
    BY <1>1, <2>1 DEF Agents
  <2>3. Offline(a) = o
    BY <1>1 DEF Offline, Agents
  <2> HIDE DEF e
  <2>4. o \in Agents /\ o.wire = <<>>
    BY <2>1, <2>2 DEF Agents
  <2> QED BY <2>1, <2>3, <2>4 DEF AgentOK
<1> QED BY <1>2, <1>3

(* Whatever the page says, the agent's record keeps its type.              *)
LEMMA AgentHears ==
  ASSUME page \in Pages, NEW a, AgentOK(a), NEW message
  PROVE  AgentOK(Hears(a, message))
<1> DEFINE m == Moves(a, "client", message)
           k == page.credential # NoCredential
           s == GetSessionId(page)
<1>1. AgentOK(m)
  BY AgentMoves
<1>2. k \in BOOLEAN /\ s \in Sessions \cup {NoSession}
  BY DEF GetSessionId, Pages
<1>3. Hears(a, message) \in {m, [m EXCEPT !.knows = k], [m EXCEPT !.sessionId = s]}
  BY DEF Hears
<1> HIDE DEF m, k, s
<1>4. m \in Agents /\ Len(m.wire) <= MaxWire
  BY <1>1 DEF AgentOK
<1>5. AgentOK([m EXCEPT !.knows = k])
  <2>1. [m EXCEPT !.knows = k] \in Agents
    BY <1>2, <1>4 DEF Agents
  <2> QED BY <1>4, <2>1 DEF AgentOK, Agents
<1>6. AgentOK([m EXCEPT !.sessionId = s])
  <2>1. [m EXCEPT !.sessionId = s] \in Agents
    BY <1>2, <1>4 DEF Agents
  <2> QED BY <1>4, <2>1 DEF AgentOK, Agents
<1> QED BY <1>1, <1>3, <1>5, <1>6

(* The frames the agent may send next, and the sessions it keeps then.     *)
LEMMA AgentSays ==
  ASSUME NEW a, a = agent, AgentOK(a),
         NEW message \in Messages \ {"heartbeat", "history_begin", "history_chunk"},
         MaySend(a, message), NEW said \in Says(message)
  PROVE  /\ said[1] \in Frames /\ said[2] \subseteq Sessions
         /\ message = "session_opened" => said[1].session \in Sessions
<1>1. a \in Agents /\ a.sessionId \in Sessions \cup {NoSession} /\ a.running \subseteq Sessions
      /\ a.reason \in Details
  BY DEF AgentOK, Agents
<1>2. message \in FrameTypes \ {"error"}
  BY DEF MaySend, NextConnection, NextSession, Successors, ConnectionTable, SessionTable, FrameTypes
<1>3. CASE message = "pairing_result"
  <2>1. PICK k \in Credentials : said = <<Frame(message, NoSession, k), a.running>>
    BY <1>3 DEF Says, Unissued
  <2> QED BY <1>1, <1>3, <2>1 DEF Frame, Frames, FrameTypes
<1>4. CASE message = "session_opened"
  <2>1. PICK s \in Sessions : said = <<Frame(message, s, "none"), a.running \cup {s}>>
    BY <1>4 DEF Says, UnusedIds
  <2> QED BY <1>1, <1>4, <2>1, PageAssumption DEF Frame, Frames, FrameTypes, Details, ErrorCodes
<1>5. CASE message = "session_reopened"
  <2>1. PICK s \in Sessions : said = <<Frame(message, s, "none"), a.running>>
    BY <1>1, <1>5 DEF Says
  <2> QED BY <1>1, <1>5, <2>1, PageAssumption DEF Frame, Frames, FrameTypes, Details, ErrorCodes
<1>6. CASE message = "session_closed"
  <2>1. PICK reason \in Details :
          said = <<Frame(message, a.sessionId, reason), a.running \ {a.sessionId}>>
    BY <1>1, <1>6 DEF Says, Details
  <2> QED BY <1>1, <1>6, <2>1 DEF Frame, Frames, FrameTypes
<1>7. CASE message \notin {"pairing_result", "session_opened", "session_reopened", "session_closed"}
  <2>1. said = <<Frame(message, a.sessionId, "none"), a.running>>
    BY <1>7 DEF Says
  <2> QED BY <1>1, <1>2, <1>7, <2>1 DEF Frame, Frames, FrameTypes, Details, ErrorCodes
<1> QED BY <1>3, <1>4, <1>5, <1>6, <1>7

(* What AgentSends and the other actions write into the agent's record.    *)
LEMMA AgentEdits ==
  ASSUME NEW a, AgentOK(a)
  PROVE  /\ \A c \in ConnectionStates : AgentOK([a EXCEPT !.connection = c])
         /\ \A w \in Seq(Frames) : Len(w) <= MaxWire => AgentOK([a EXCEPT !.wire = w])
         /\ \A s \in Sessions \cup {NoSession} : AgentOK([a EXCEPT !.sessionId = s])
         /\ \A b \in BOOLEAN : AgentOK([a EXCEPT !.knows = b])
         /\ \A r \in Details : AgentOK([a EXCEPT !.reason = r])
         /\ \A r \in SUBSET Sessions : AgentOK([a EXCEPT !.running = r])
<1>1. a \in Agents /\ Len(a.wire) <= MaxWire
  BY DEF AgentOK
<1>2. ASSUME NEW c \in ConnectionStates
      PROVE  AgentOK([a EXCEPT !.connection = c])
  <2>1. [a EXCEPT !.connection = c] \in Agents
    BY <1>1 DEF Agents
  <2> QED BY <1>1, <2>1 DEF AgentOK, Agents
<1>3. ASSUME NEW w \in Seq(Frames), Len(w) <= MaxWire
      PROVE  AgentOK([a EXCEPT !.wire = w])
  <2>1. [a EXCEPT !.wire = w] \in Agents
    BY <1>1 DEF Agents
  <2> QED BY <1>1, <1>3, <2>1 DEF AgentOK, Agents
<1>4. ASSUME NEW s \in Sessions \cup {NoSession}
      PROVE  AgentOK([a EXCEPT !.sessionId = s])
  <2>1. [a EXCEPT !.sessionId = s] \in Agents
    BY <1>1 DEF Agents
  <2> QED BY <1>1, <2>1 DEF AgentOK, Agents
<1>5. ASSUME NEW b \in BOOLEAN
      PROVE  AgentOK([a EXCEPT !.knows = b])
  <2>1. [a EXCEPT !.knows = b] \in Agents
    BY <1>1 DEF Agents
  <2> QED BY <1>1, <2>1 DEF AgentOK, Agents
<1>6. ASSUME NEW r \in Details
      PROVE  AgentOK([a EXCEPT !.reason = r])
  <2>1. [a EXCEPT !.reason = r] \in Agents
    BY <1>1 DEF Agents
  <2> QED BY <1>1, <2>1 DEF AgentOK, Agents
<1>7. ASSUME NEW r \in SUBSET Sessions
      PROVE  AgentOK([a EXCEPT !.running = r])
  <2>1. [a EXCEPT !.running = r] \in Agents
    BY <1>1 DEF Agents
  <2> QED BY <1>1, <2>1 DEF AgentOK, Agents
<1> QED BY <1>2, <1>3, <1>4, <1>5, <1>6, <1>7

-----------------------------------------------------------------------------
(* The actions.                                                            *)

(* The inductive invariant, and what a step keeps: the invariant and the   *)
(* rule about the locator.                                                 *)
IInv == PageOK(page) /\ AgentOK(agent)

Kept == PageOK(page') /\ AgentOK(agent') /\ LocatorStays(page, page')

(* A page that is loaded is sound: nothing has been begun.                 *)
LEMMA InitIInv == Init => IInv
<1> SUFFICES ASSUME Init PROVE IInv
  OBVIOUS
<1>1. PICK fragment \in Sessions \cup {NoSession} :
        /\ page = NewPage(fragment)
        /\ agent = [connection |-> "CLOSED", session |-> "NONE", sessionId |-> NoSession,
                    knows |-> FALSE, reason |-> "none", wire |-> <<>>,
                    running |-> {fragment} \ {NoSession}]
  BY DEF Init
<1>2. /\ "CLOSED" \in ConnectionStates /\ "NEW" \in ConnectionStates /\ "NONE" \in SessionStates
      /\ "none" \in Details /\ "none" \in ErrorCodes
      /\ <<>> \in Seq(Frames) /\ <<>> \in Seq(Operations) /\ Len(<<>>) = 0
      /\ "disconnected" \in States
  BY MachineStates, EmptyQueue, StatesAre DEF ConnectionStates, Details, ErrorCodes
<1>3. AgentOK(agent)
  <2>1. agent \in Agents /\ agent.wire = <<>>
    BY <1>1, <1>2 DEF Agents
  <2> QED BY <1>2, <2>1, PageAssumption DEF AgentOK
<1>4. NewStates \in Machines
  BY <1>2 DEF NewStates, Machines
<1>5. [w \in Works |-> "none"] \in [Works -> {"none", "connecting", "open", "closing"}]
  OBVIOUS
<1> DEFINE ready == [w \in Works |-> "none"]
           machine == NewStates
<1>6. ready \in [Works -> {"none", "connecting", "open", "closing"}]
      /\ \A w \in Works : ready[w] = "none"
  OBVIOUS
<1>7. machine \in Machines
  BY <1>4
<1>8. page =
  [state |-> "disconnected", errorCode |-> "none", failureCause |-> FALSE,
   sessionId |-> NoSession, requestedSessionId |-> NoSession, newSession |-> "none",
   work |-> NoWork, socket |-> NoWork, readyState |-> ready,
   machine |-> machine, credential |-> NoCredential, stored |-> NoCredential,
   operations |-> <<>>, proving |-> {}, inbound |-> <<>>,
   connectTimer |-> FALSE, heartbeatTimer |-> FALSE, authorizationTimer |-> FALSE,
   attempts |-> 0, stopped |-> FALSE, timer |-> FALSE, disposed |-> FALSE,
   hidden |-> FALSE, shown |-> TRUE,
   fragment |-> fragment, needsFreshRetry |-> FALSE]
  BY <1>1 DEF NewPage
<1> HIDE DEF ready, machine
<1>9. page \in Pages
  BY <1>2, <1>6, <1>7, <1>8, PageAssumption DEF Pages
<1>10. /\ page.state = "disconnected" /\ page.newSession = "none" /\ page.work = NoWork
       /\ page.socket = NoWork /\ page.readyState = ready /\ page.operations = <<>>
       /\ page.proving = {} /\ page.inbound = <<>> /\ page.timer = FALSE
       /\ page.disposed = FALSE /\ page.stopped = FALSE
  BY <1>8
<1>11. Len(page.operations) = 0 /\ ~Attached(page)
  BY <1>2, <1>10 DEF Attached
<1>12. QueueOK(page) /\ SocketsOK(page) /\ ControllerOK(page)
  BY <1>6, <1>10, <1>11 DEF QueueOK, OneEach, SocketsOK, ControllerOK
<1>13. PlaceOK(page)
  BY <1>6, <1>10, <1>11 DEF PlaceOK, Silent, LoadingIn, Idle, Connecting
<1>14. WatchOK(page)
  BY <1>10 DEF WatchOK, MayReconnect, Eligible
<1> QED BY <1>3, <1>9, <1>11, <1>12, <1>13, <1>14
        DEF IInv, PageOK, Sound, BaseOK, HandshakeOK, MachineOK

(* A task of the page ends in Retry and, with its socket gone, in Offline. *)
LEMMA RunsKeeps ==
  ASSUME NEW next, PageOK(next), LocatorStays(page, next), NEW heard, AgentOK(heard),
         Runs(next, heard)
  PROVE  Kept
<1>1. PageOK(Retry(next)) /\ LocatorStays(page, Retry(next))
  BY RetryKeeps
<1>2. AgentOK(Offline(heard))
  BY AgentMoves
<1> QED BY <1>1, <1>2 DEF Runs, Kept

(* A task begins when no frame is about to be taken.                       *)
LEMMA TaskKeeps ==
  ASSUME NEW next, NEW heard, Task(next, heard)
  PROVE  /\ Settled(page)
         /\ PageOK(next) /\ LocatorStays(page, next) /\ AgentOK(heard) => Kept
<1>1. Settled(page)
  BY DEF Task, Runnable, Settled
<1> QED BY <1>1, RunsKeeps DEF Task

(* What the invariant gives the actions.                                   *)
LEMMA IInvGives ==
  ASSUME IInv
  PROVE  /\ PageOK(page) /\ page \in Pages /\ Sound(page) /\ BaseOK(page) /\ ControllerOK(page)
         /\ AgentOK(agent)
         /\ \A message : AgentOK(Hears(agent, message))
         /\ \A q : q.sessionId = page.sessionId /\ q.requestedSessionId = page.requestedSessionId
              => LocatorStays(page, q)
         /\ PageOK(Release(page)) /\ LocatorStays(page, Release(page))
<1>1. PageOK(page) /\ page \in Pages /\ Sound(page) /\ BaseOK(page) /\ ControllerOK(page)
      /\ AgentOK(agent)
  BY DEF IInv, PageOK, Sound, BaseOK
<1>2. ASSUME NEW message
      PROVE  AgentOK(Hears(agent, message))
  BY <1>1, AgentHears
<1>3. \A q : q.sessionId = page.sessionId /\ q.requestedSessionId = page.requestedSessionId
              => LocatorStays(page, q)
  BY SameLocator
<1>4. PageOK(Release(page)) /\ LocatorStays(page, Release(page))
  BY <1>1, <1>3, ReleaseKeeps
<1> QED BY <1>1, <1>2, <1>3, <1>4

(* The socket opens, breaks or closes.                                     *)
LEMMA SocketSteps ==
  ASSUME IInv, NEW w \in Works, SocketOpens(w) \/ SocketBreaks(w) \/ SocketCloses(w)
  PROVE  Kept
<1>1. CASE SocketOpens(w)
  <2>1. PageOK(page) /\ page.readyState[w] = "connecting" /\ AgentOK(agent)
    BY <1>1, IInvGives DEF SocketOpens
  <2>2. AgentOK(Hears([agent EXCEPT !.connection = "NEW"], "hello"))
    <3> DEFINE a == [agent EXCEPT !.connection = "NEW"]
    <3>1. "NEW" \in ConnectionStates
      BY MachineStates DEF ConnectionStates
    <3>2. AgentOK(a)
      BY <2>1, <3>1, AgentEdits
    <3>3. page \in Pages
      BY IInvGives
    <3> HIDE DEF a
    <3>4. AgentOK(Hears(a, "hello"))
      BY <3>2, <3>3, AgentHears
    <3> QED BY <3>4 DEF a
  <2>3. /\ PageOK(Opened(page, w)) /\ LocatorStays(page, Opened(page, w))
        /\ PageOK(OpenedElse(page, w)) /\ LocatorStays(page, OpenedElse(page, w))
    BY <2>1, OpenedKeeps
  <2>4. CASE Task(Opened(page, w), Hears([agent EXCEPT !.connection = "NEW"], "hello"))
    BY <2>2, <2>3, <2>4, TaskKeeps
  <2>5. CASE Task(OpenedElse(page, w), agent)
    BY <2>1, <2>3, <2>5, TaskKeeps
  <2> QED BY <1>1, <2>4, <2>5 DEF SocketOpens
<1>2. ASSUME Task(Closed(page, w), agent)
      PROVE  Kept
  <2>1. PageOK(page) /\ Settled(page) /\ AgentOK(agent)
    BY <1>2, IInvGives, TaskKeeps
  <2>2. PageOK(Closed(page, w)) /\ LocatorStays(page, Closed(page, w))
    BY <2>1, ClosedKeeps, SameLocator
  <2> QED BY <1>2, <2>1, <2>2, TaskKeeps
<1>3. ASSUME Task(Closed(Errored(page, w), w), agent)
      PROVE  Kept
  <2>1. PageOK(page) /\ Settled(page) /\ AgentOK(agent)
    BY <1>3, IInvGives, TaskKeeps
  <2> DEFINE e == Errored(page, w)
             q == Closed(e, w)
  <2>2. PageOK(e) /\ Settled(e)
        /\ e.sessionId = page.sessionId /\ e.requestedSessionId = page.requestedSessionId
    BY <2>1, ErroredKeeps
  <2> HIDE DEF e
  <2>3. PageOK(q) /\ q.sessionId = e.sessionId /\ q.requestedSessionId = e.requestedSessionId
    BY <2>2, ClosedKeeps
  <2> HIDE DEF q
  <2>4. PageOK(q) /\ LocatorStays(page, q)
    BY <2>2, <2>3, SameLocator
  <2>5. Task(q, agent)
    BY <1>3 DEF q, e
  <2> QED BY <2>1, <2>4, <2>5, TaskKeeps
<1> QED BY <1>1, <1>2, <1>3 DEF SocketBreaks, SocketCloses

(* An operation of the store ends.                                         *)
LEMMA StoreSteps ==
  ASSUME IInv, StoreFinishes \/ StoreFails
  PROVE  Kept
<1> DEFINE p == page
           head == Head(p.operations)
<1>1. PageOK(p) /\ p \in Pages /\ AgentOK(agent)
  BY IInvGives
<1>2. p.operations # <<>>
  BY DEF StoreFinishes, StoreFails
<1>3. ASSUME NEW k \in Credentials \cup {NoCredential}, head.kind = "load",
             NEW q \in Loaded([Dequeue(p) EXCEPT !.stored = k], head.work), Task(q, agent)
      PROVE  Kept
  <2>1. PageOK(q) /\ LocatorStays(page, q)
    BY <1>1, <1>2, <1>3, LoadedKeeps
  <2> QED BY <1>1, <1>3, <2>1, TaskKeeps
<1>4. CASE StoreFinishes
  <2>1. CASE /\ head.kind = "load"
             /\ \E q \in Loaded(Dequeue(p), head.work) : Task(q, agent)
    <3>1. [Dequeue(p) EXCEPT !.stored = p.stored] = Dequeue(p) /\ p.stored \in Credentials \cup {NoCredential}
      BY <1>1 DEF Dequeue, Pages
    <3> QED BY <1>3, <2>1, <3>1
  <2>2. CASE /\ head.kind = "save"
             /\ Task(Saved([Dequeue(p) EXCEPT !.stored = head.credential],
                           head.work, head.credential), agent)
    <3> DEFINE q == Saved([Dequeue(p) EXCEPT !.stored = head.credential], head.work, head.credential)
    <3>1. PageOK(q) /\ LocatorStays(page, q)
      BY <1>1, <1>2, <2>2, SavedKeeps
    <3> HIDE DEF q
    <3>2. Task(q, agent)
      BY <2>2 DEF q
    <3> QED BY <1>1, <3>1, <3>2, TaskKeeps
  <2> QED BY <1>4, <2>1, <2>2 DEF StoreFinishes, Finishes
<1>5. CASE StoreFails
  <2>1. CASE /\ head.kind = "load"
             /\ \E q \in Loaded([Dequeue(p) EXCEPT !.stored = NoCredential], head.work) : Task(q, agent)
    BY <1>3, <2>1
  <2>2. CASE head.kind = "load" /\ Task(LoadFailed(Dequeue(p), head.work), agent)
    <3> DEFINE q == LoadFailed(Dequeue(p), head.work)
    <3>1. PageOK(q) /\ LocatorStays(page, q)
      BY <1>1, <1>2, <2>2, LoadFailedKeeps
    <3> HIDE DEF q
    <3>2. Task(q, agent)
      BY <2>2 DEF q
    <3> QED BY <1>1, <3>1, <3>2, TaskKeeps
  <2>3. CASE head.kind = "save" /\ Task(SaveFailed(Dequeue(p), head.work), agent)
    <3> DEFINE q == SaveFailed(Dequeue(p), head.work)
    <3>1. PageOK(q) /\ LocatorStays(page, q)
      BY <1>1, <1>2, <2>3, SaveFailedKeeps
    <3> HIDE DEF q
    <3>2. Task(q, agent)
      BY <2>3 DEF q
    <3> QED BY <1>1, <3>1, <3>2, TaskKeeps
  <2> QED BY <1>5, <2>1, <2>2, <2>3 DEF StoreFails
<1> QED BY <1>4, <1>5

(* The proof ends, a timer fires, a frame cannot be sent, a reconnect is   *)
(* due.                                                                    *)
LEMMA TimerSteps ==
  ASSUME IInv,
         \/ \E w \in Works : ProofFinishes(w)
         \/ ConnectTimesOut \/ HeartbeatStops \/ AuthorizationEnds \/ SendFails \/ ReconnectFires
  PROVE  Kept
<1>1. PageOK(page) /\ Sound(page) /\ AgentOK(agent) /\ AgentOK(Hears(agent, "auth_response"))
      /\ PageOK(Release(page)) /\ LocatorStays(page, Release(page))
  BY IInvGives
<1>2. ASSUME NEW w \in Works, ProofFinishes(w)
      PROVE  Kept
  <2> DEFINE rest == [page EXCEPT !.proving = @ \ {w}]
             a == IF Current(page, w) THEN Hears(agent, "auth_response") ELSE agent
  <2>1. w \in page.proving /\ (Task(Proved(rest, w), a) \/ Task(ProvedLate(rest, w), agent))
    BY <1>2 DEF ProofFinishes
  <2>2. PageOK(Proved(rest, w)) /\ LocatorStays(page, Proved(rest, w))
        /\ PageOK(ProvedLate(rest, w)) /\ LocatorStays(page, ProvedLate(rest, w))
    BY <1>1, <2>1, ProofKeeps
  <2>3. AgentOK(a)
    BY <1>1
  <2> HIDE DEF rest, a
  <2> QED BY <1>1, <2>1, <2>2, <2>3, TaskKeeps
<1>3. CASE Task(Release(page), agent)
  BY <1>1, <1>3, TaskKeeps
<1>4. CASE page.state = "connected" /\ Task(Fail(page, "BACKPRESSURE_LIMIT"), agent)
  <2>1. PageOK(Fail(page, "BACKPRESSURE_LIMIT")) /\ LocatorStays(page, Fail(page, "BACKPRESSURE_LIMIT"))
    BY <1>1, <1>4, SendFailedKeeps
  <2> QED BY <1>1, <1>4, <2>1, TaskKeeps
<1>5. CASE ReconnectFires
  <2> DEFINE q == IF MayReconnect(Cancel(page))
                  THEN Connect([Cancel(page) EXCEPT !.attempts = @ + 1], GetSessionId(Cancel(page)))
                  ELSE Cancel(page)
  <2>1. page.timer /\ CanConnect(page) /\ Task(q, agent)
    BY <1>5 DEF ReconnectFires
  <2>2. PageOK(q) /\ LocatorStays(page, q)
    BY <1>1, <2>1, ReconnectKeeps
  <2> HIDE DEF q
  <2> QED BY <1>1, <2>1, <2>2, TaskKeeps
<1> QED BY <1>2, <1>3, <1>4, <1>5 DEF ConnectTimesOut, HeartbeatStops, AuthorizationEnds, SendFails

(* What the page answers to a frame is heard by a sound agent.             *)
LEMMA AnsweredKeeps ==
  ASSUME IInv, NEW a, AgentOK(a), NEW frame, NEW next
  PROVE  AgentOK(Answered(a, frame, next))
<1>1. page \in Pages
  BY IInvGives
<1>2. AgentOK(Hears(a, OpenOrReopen(page)))
  BY <1>1, AgentHears
<1> QED BY <1>2 DEF Answered

(* A frame arrives, or one that has waited is taken.                       *)
LEMMA FrameSteps ==
  ASSUME IInv, Arrives \/ Resumes
  PROVE  Kept
<1>1. PageOK(page) /\ page \in Pages /\ AgentOK(agent)
  BY IInvGives
<1>2. CASE Arrives
  <2> DEFINE frame == Head(agent.wire)
             rest == [agent EXCEPT !.wire = Tail(@)]
             queued == [page EXCEPT !.inbound = Append(@, frame)]
             next == Receive(page, frame)
  <2>1. /\ SocketIsOpen(page) /\ agent.wire # <<>> /\ CanConnect(page)
        /\ IF Waiting(page) THEN Task(queued, rest) ELSE Task(next, Answered(rest, frame, next))
    BY <1>2 DEF Arrives
  <2>2. frame \in Frames /\ AgentOK(rest)
    <3> DEFINE tail == Tail(agent.wire)
    <3>1. agent.wire \in Seq(Frames) /\ Len(agent.wire) <= MaxWire
      BY <1>1 DEF AgentOK, Agents
    <3>2. Len(agent.wire) \in Nat /\ frame \in Frames /\ tail \in Seq(Frames)
          /\ Len(tail) = Len(agent.wire) - 1
      BY <2>1, <3>1
    <3>3. Len(tail) <= MaxWire
      BY <3>1, <3>2, PageAssumption
    <3>4. rest = [agent EXCEPT !.wire = tail]
      BY <1>1 DEF AgentOK, Agents
    <3> HIDE DEF tail, rest
    <3>5. AgentOK(rest)
      BY <1>1, <3>2, <3>3, <3>4, AgentEdits
    <3> QED BY <3>2, <3>5
  <2> HIDE DEF rest
  <2>3. CASE Waiting(page)
    <3>1. PageOK(queued) /\ LocatorStays(page, queued)
      BY <1>1, <2>1, <2>2, QueuedKeeps
    <3> QED BY <2>1, <2>2, <2>3, <3>1, TaskKeeps
  <2>4. CASE ~Waiting(page)
    <3>1. page.socket \in Works /\ page.readyState[page.socket] = "open"
      BY <1>1, <2>1 DEF SocketIsOpen, HasSocket, Pages
    <3>2. Attached(page) /\ page.readyState[page.socket] # "none"
      BY <1>1, <2>1, <3>1, PageAssumption
      DEF PageOK, Sound, BaseOK, SocketsOK, Current, Attached, SocketIsOpen, HasSocket
    <3>3. PageOK(next) /\ LocatorStays(page, next)
      BY <1>1, <2>1, <2>2, <2>4, <3>2, ReceiveKeeps
    <3>4. AgentOK(Answered(rest, frame, next))
      BY <2>2, AnsweredKeeps
    <3> HIDE DEF next
    <3> QED BY <2>1, <2>4, <3>3, <3>4, TaskKeeps
  <2> QED BY <2>3, <2>4
<1>3. CASE Resumes
  <2> DEFINE frame == Head(page.inbound)
             next == Receive([page EXCEPT !.inbound = Tail(@)], frame)
  <2>1. page.inbound # <<>> /\ ~Waiting(page) /\ CanConnect(page)
        /\ Runs(next, Answered(agent, frame, next))
    BY <1>3 DEF Resumes, Runnable
  <2>2. PageOK(next) /\ LocatorStays(page, next)
    BY <1>1, <2>1, TakenKeeps
  <2>3. AgentOK(Answered(agent, frame, next))
    BY <1>1, AnsweredKeeps
  <2> HIDE DEF next, frame
  <2> QED BY <2>1, <2>2, <2>3, RunsKeeps
<1> QED BY <1>2, <1>3

(* The agent closes, sends, fails, or ends a session of its own.           *)
LEMMA AgentSteps ==
  ASSUME IInv,
         AgentCloses \/ AgentSends \/ AgentFails \/ \E s \in Sessions : SessionDies(s)
  PROVE  Kept
<1>1. PageOK(page) /\ AgentOK(agent) /\ LocatorStays(page, page)
  BY IInvGives
<1>2. ASSUME AgentOK(agent'), UNCHANGED page
      PROVE  Kept
  BY <1>1, <1>2 DEF Kept
<1>3. /\ agent.wire \in Seq(Frames) /\ Len(agent.wire) \in Nat
      /\ agent.knows \in BOOLEAN /\ agent.sessionId \in Sessions \cup {NoSession}
      /\ agent.running \in SUBSET Sessions /\ agent \in Agents
  BY <1>1 DEF AgentOK, Agents
<1>4. ASSUME NEW f \in Frames, Len(agent.wire) < MaxWire
      PROVE  Append(agent.wire, f) \in Seq(Frames) /\ Len(Append(agent.wire, f)) <= MaxWire
  <2>1. Len(Append(agent.wire, f)) = Len(agent.wire) + 1
    BY <1>3
  <2>2. Append(agent.wire, f) \in Seq(Frames)
    BY <1>3
  <2> QED BY <1>3, <1>4, <2>1, <2>2, PageAssumption
<1>5. CASE AgentCloses
  <2>1. SocketIsOpen(page) /\ Task(SocketClosing(page), agent)
    BY <1>5 DEF AgentCloses
  <2>2. PageOK(SocketClosing(page)) /\ LocatorStays(page, SocketClosing(page))
    BY <1>1, <2>1, AgentClosedKeeps
  <2> QED BY <1>1, <2>1, <2>2, TaskKeeps
<1>6. CASE AgentSends
  <2>1. PICK message \in Messages \ {"heartbeat", "history_begin", "history_chunk"} :
          /\ MaySend(agent, message)
          /\ \E said \in Says(message) :
               agent' = [Moves(agent, "agent", message) EXCEPT
                           !.wire = Append(@, said[1]),
                           !.sessionId = IF message = "session_opened" THEN said[1].session ELSE @,
                           !.knows = @ \/ message = "pairing_result",
                           !.running = said[2]]
    BY <1>6 DEF AgentSends
  <2>2. PICK said \in Says(message) :
               agent' = [Moves(agent, "agent", message) EXCEPT
                           !.wire = Append(@, said[1]),
                           !.sessionId = IF message = "session_opened" THEN said[1].session ELSE @,
                           !.knows = @ \/ message = "pairing_result",
                           !.running = said[2]]
    BY <2>1
  <2>3. said[1] \in Frames /\ said[2] \subseteq Sessions
        /\ (message = "session_opened" => said[1].session \in Sessions)
    BY <1>1, <2>1, <2>2, AgentSays
  <2> DEFINE b == Moves(agent, "agent", message)
             wire == Append(b.wire, said[1])
             session == IF message = "session_opened" THEN said[1].session ELSE b.sessionId
             knows == b.knows \/ message = "pairing_result"
             running == said[2]
             b1 == [b EXCEPT !.wire = wire]
             b2 == [b1 EXCEPT !.sessionId = session]
             b3 == [b2 EXCEPT !.knows = knows]
             b4 == [b3 EXCEPT !.running = running]
  <2>4. AgentOK(b) /\ b.wire = agent.wire /\ b.sessionId = agent.sessionId
    BY <1>1, AgentMoves
  <2>5. b \in Agents /\ b.knows \in BOOLEAN
    BY <2>4 DEF AgentOK, Agents
  <2>6. Len(agent.wire) < MaxWire /\ UNCHANGED page
    BY <1>6 DEF AgentSends
  <2>7. wire \in Seq(Frames) /\ Len(wire) <= MaxWire
    BY <1>4, <2>3, <2>4, <2>6
  <2>8. session \in Sessions \cup {NoSession} /\ running \in SUBSET Sessions
    BY <1>3, <2>3, <2>4
  <2>9. knows \in BOOLEAN
    OBVIOUS
  <2>10. agent' = b4
    <3>1. agent' = [b EXCEPT !.wire = wire, !.sessionId = session, !.knows = knows, !.running = running]
      BY <2>2
    <3> HIDE DEF b, wire, session, knows, running
    <3> QED BY <2>5, <3>1 DEF Agents
  <2> HIDE DEF b, wire, session, knows, running
  <2>11. AgentOK(b1)
    BY <2>4, <2>7, AgentEdits
  <2> HIDE DEF b1
  <2>12. AgentOK(b2)
    BY <2>8, <2>11, AgentEdits
  <2> HIDE DEF b2
  <2>13. AgentOK(b3)
    BY <2>9, <2>12, AgentEdits
  <2> HIDE DEF b3
  <2>14. AgentOK(b4)
    BY <2>8, <2>13, AgentEdits
  <2> HIDE DEF b4
  <2> QED BY <1>2, <2>6, <2>10, <2>14
<1>7. CASE AgentFails
  <2>1. PICK code \in {"SESSION_REOPEN_REJECTED", "AUTHORIZATION_EXPIRED", "INTERNAL_ERROR"} :
          agent' = [agent EXCEPT !.connection = "CLOSING",
                                 !.wire = Append(@, Frame("error", NoSession, code))]
    BY <1>7 DEF AgentFails
  <2>2. Len(agent.wire) < MaxWire /\ UNCHANGED page
    BY <1>7 DEF AgentFails
  <2> DEFINE f == Frame("error", NoSession, code)
             wire == Append(agent.wire, f)
             b1 == [agent EXCEPT !.connection = "CLOSING"]
             b2 == [b1 EXCEPT !.wire = wire]
  <2>3. f \in Frames
    BY DEF Frame, Frames, FrameTypes, Details, ErrorCodes
  <2>4. "CLOSING" \in ConnectionStates
    BY MachineStates DEF ConnectionStates
  <2> HIDE DEF f
  <2>5. wire \in Seq(Frames) /\ Len(wire) <= MaxWire
    BY <1>4, <2>2, <2>3
  <2>6. agent' = b2
    <3>1. agent' = [agent EXCEPT !.connection = "CLOSING", !.wire = wire]
      BY <2>1 DEF f
    <3> HIDE DEF wire
    <3> QED BY <1>3, <3>1 DEF Agents
  <2> HIDE DEF wire
  <2>7. AgentOK(b1)
    BY <1>1, <2>4, AgentEdits
  <2> HIDE DEF b1
  <2>8. AgentOK(b2)
    BY <2>5, <2>7, AgentEdits
  <2> HIDE DEF b2
  <2> QED BY <1>2, <2>2, <2>6, <2>8
<1>8. ASSUME NEW s \in Sessions, SessionDies(s)
      PROVE  Kept
  <2>1. agent' = [agent EXCEPT !.running = agent.running \ {s}] /\ UNCHANGED page
    BY <1>8 DEF SessionDies
  <2>2. agent.running \ {s} \in SUBSET Sessions
    BY <1>3
  <2>3. AgentOK(agent')
    BY <1>1, <2>1, <2>2, AgentEdits
  <2> QED BY <1>2, <2>1, <2>3
<1> QED BY <1>5, <1>6, <1>7, <1>8

(* What the locator rule allows of the page as steered, it allows of the   *)
(* page as it was.                                                         *)
LEMMA SteeredLocator ==
  ASSUME NEW p, NEW q, SameConnection(p, q) \/ Alike(p, q), NEW r, LocatorStays(q, r)
  PROVE  LocatorStays(p, r)
BY DEF SameConnection, Alike, LocatorStays, GetSessionId

(* The buttons that connect.                                               *)
LEMMA ConnectSteps ==
  ASSUME IInv, ConnectClicked \/ (\E s \in Sessions : RecentClicked(s)) \/ NewSessionClicked
  PROVE  Kept
<1>1. PageOK(page) /\ page \in Pages /\ AgentOK(agent) /\ AgentOK(Hears(agent, "close_session"))
  BY IInvGives
<1>2. CASE ConnectClicked
  <2> DEFINE s == IF page.needsFreshRetry THEN NoSession ELSE page.fragment
             q == Connect(Manual(page), s)
  <2>1. ~page.disposed /\ page.state \in Idle /\ CanConnect(page) /\ Task(q, agent)
    BY <1>2 DEF ConnectClicked, InUse
  <2>2. s \in Sessions \cup {NoSession}
    BY <1>1 DEF Pages
  <2> HIDE DEF s
  <2>3. PageOK(q) /\ LocatorStays(page, q)
    BY <1>1, <2>1, <2>2, ManualConnectKeeps
  <2> HIDE DEF q
  <2> QED BY <1>1, <2>1, <2>3, TaskKeeps
<1>3. ASSUME NEW s \in Sessions, RecentClicked(s)
      PROVE  Kept
  <2> DEFINE p == [page EXCEPT !.fragment = s]
             q == Connect(Manual(p), s)
  <2>1. ~page.disposed /\ page.state \in Idle /\ CanConnect(page) /\ Task(q, agent)
    BY <1>3 DEF RecentClicked, InUse
  <2>2. p \in Pages /\ Alike(page, p)
    BY <1>1, LooseEdits
  <2> HIDE DEF p
  <2>3. PageOK(p)
    BY <1>1, <2>2, AlikeKeeps
  <2>4. ~p.disposed /\ p.state \in Idle
    BY <2>1, <2>2 DEF Alike
  <2>5. CanConnect(p)
    BY <2>1, <2>2, CanStillConnect DEF Alike
  <2>6. PageOK(q) /\ LocatorStays(p, q)
    BY <2>3, <2>4, <2>5, ManualConnectKeeps
  <2> HIDE DEF q
  <2>7. LocatorStays(page, q)
    BY <2>2, <2>6, SteeredLocator
  <2> QED BY <1>1, <2>1, <2>6, <2>7, TaskKeeps
<1>4. CASE NewSessionClicked
  <2> DEFINE clicked == [Manual(page) EXCEPT !.needsFreshRetry = FALSE]
             a == [Hears(agent, "close_session") EXCEPT !.reason = "new_session"]
             opened == NewSession(clicked)
             refused == NewSessionRefused(clicked)
  <2>1. /\ ~page.disposed /\ CanConnect(page) /\ page.state \in {"connected", "error"}
        /\ \/ Task(opened, a) \/ Task(opened, agent)
           \/ page.state = "connected" /\ Task(refused, agent)
    BY <1>4 DEF NewSessionClicked, InUse
  <2>2. AgentOK(a)
    <3>1. "new_session" \in Details
      BY DEF Details
    <3> DEFINE b == Hears(agent, "close_session")
    <3> HIDE DEF b
    <3>2. AgentOK(b)
      BY <1>1 DEF b
    <3>3. AgentOK([b EXCEPT !.reason = "new_session"])
      BY <3>1, <3>2, AgentEdits
    <3> QED BY <3>3 DEF b
  <2>3. PageOK(opened) /\ LocatorStays(page, opened)
    BY <1>1, <2>1, NewSessionKeeps
  <2>4. page.state = "connected" => PageOK(refused) /\ LocatorStays(page, refused)
    BY <1>1, <2>1, NewSessionKeeps
  <2> HIDE DEF opened, refused, a
  <2> QED BY <1>1, <2>1, <2>2, <2>3, <2>4, TaskKeeps
<1> QED BY <1>2, <1>3, <1>4

(* The buttons that give up, and the pairing form.                         *)
LEMMA GiveUpSteps ==
  ASSUME IInv, DisconnectClicked \/ EndTerminalClicked \/ CancelClicked \/ PairSubmitted
  PROVE  Kept
<1> DEFINE s == Stop(page)
<1>1. PageOK(page) /\ page \in Pages /\ Sound(page) /\ AgentOK(agent)
      /\ AgentOK(Hears(agent, "close_session")) /\ AgentOK(Hears(agent, "pairing_request"))
      /\ ControllerOK(page)
  BY IInvGives
<1>2. s \in Pages /\ SameConnection(page, s) /\ ControllerOK(s)
  BY <1>1, Steerings
<1> HIDE DEF s
<1>3. Sound(s) /\ s.state = page.state
  BY <1>1, <1>2, SteeredKeeps DEF SameConnection
<1>4. ASSUME NEW q, PageOK(q), LocatorStays(s, q), Task(q, agent) \/ Task(q, Hears(agent, "close_session"))
      PROVE  Kept
  <2>1. LocatorStays(page, q)
    BY <1>2, <1>4, SteeredLocator
  <2> QED BY <1>1, <1>4, <2>1, TaskKeeps
<1>5. CASE DisconnectClicked
  <2>1. Task(Release(s), agent)
    BY <1>5 DEF DisconnectClicked, s
  <2>2. BaseOK(s)
    BY <1>3 DEF Sound
  <2>3. PageOK(Release(s)) /\ LocatorStays(s, Release(s))
    BY <2>2, ReleaseKeeps, SameLocator
  <2> QED BY <1>4, <2>1, <2>3
<1>6. CASE EndTerminalClicked
  <2>1. /\ page.state = "connected"
        /\ \/ Task(Disconnect(s), Hears(agent, "close_session"))
           \/ Task(Fail(s, "BACKPRESSURE_LIMIT"), agent)
    BY <1>6 DEF EndTerminalClicked, s
  <2>2. s.state = "connected" /\ s.state \in {"pairing", "connected"}
    BY <1>3, <2>1
  <2>3. PageOK(Disconnect(s)) /\ LocatorStays(s, Disconnect(s))
    BY <1>3, <2>2, DisconnectKeeps
  <2>4. PageOK(Fail(s, "BACKPRESSURE_LIMIT")) /\ LocatorStays(s, Fail(s, "BACKPRESSURE_LIMIT"))
    BY <1>3, <2>2, SendFailedKeeps
  <2> QED BY <1>4, <2>1, <2>3, <2>4
<1>7. CASE CancelClicked
  <2>1. page.state \in {"pairing", "connected"} /\ Task(Disconnect(page), agent)
    BY <1>7 DEF CancelClicked
  <2>2. PageOK(Disconnect(page)) /\ LocatorStays(page, Disconnect(page))
    BY <1>1, <2>1, DisconnectKeeps
  <2> QED BY <1>1, <2>1, <2>2, TaskKeeps
<1>8. CASE PairSubmitted
  <2>1. page.state = "pairing" /\ SocketIsOpen(page) /\ Task(Pair(page), Hears(agent, "pairing_request"))
    BY <1>8 DEF PairSubmitted
  <2>2. PageOK(Pair(page)) /\ LocatorStays(page, Pair(page))
    BY <1>1, <2>1, PairKeeps
  <2> QED BY <1>1, <2>1, <2>2, TaskKeeps
<1> QED BY <1>5, <1>6, <1>7, <1>8

(* The page is hidden or shown, left or come back to, or unmounted.        *)
LEMMA LifecycleSteps ==
  ASSUME IInv, VisibilityChanges \/ PageHides \/ PageShows \/ Disposes
  PROVE  Kept
<1>1. PageOK(page) /\ page \in Pages /\ Sound(page) /\ AgentOK(agent) /\ ControllerOK(page)
  BY IInvGives
<1>2. page.stopped => page.state # "connected"
  BY <1>1 DEF PageOK, WatchOK
<1>3. ASSUME NEW p \in Pages, SameConnection(page, p), ControllerOK(p), p.stopped = page.stopped,
             Task(LookedAt(p), agent)
      PROVE  Kept
  <2>1. Sound(p) /\ (p.stopped => p.state # "connected")
    BY <1>1, <1>2, <1>3, SteeredKeeps DEF SameConnection
  <2>2. PageOK(LookedAt(p)) /\ LocatorStays(p, LookedAt(p))
    BY <2>1, LookedAtKeeps
  <2>3. LocatorStays(page, LookedAt(p))
    BY <1>3, <2>2, SteeredLocator
  <2> QED BY <1>1, <1>3, <2>2, <2>3, TaskKeeps
<1>4. CASE VisibilityChanges
  <2> DEFINE b == ~page.shown
             p == [page EXCEPT !.shown = b]
  <2>1. Task(LookedAt(p), agent)
    BY <1>4 DEF VisibilityChanges
  <2>2. b \in BOOLEAN
    OBVIOUS
  <2>3. p \in Pages /\ SameConnection(page, p) /\ ControllerOK(p) /\ p.stopped = page.stopped
    <3>1. LET x == [page EXCEPT !.shown = TRUE]
          IN  x \in Pages /\ SameConnection(page, x) /\ ControllerOK(x) /\ x.stopped = page.stopped
      BY <1>1, Steerings
    <3>2. LET x == [page EXCEPT !.shown = FALSE]
          IN  x \in Pages /\ SameConnection(page, x) /\ ControllerOK(x) /\ x.stopped = page.stopped
      BY <1>1, Steerings
    <3> HIDE DEF b
    <3>3. p = [page EXCEPT !.shown = TRUE] \/ p = [page EXCEPT !.shown = FALSE]
      BY <2>2
    <3> HIDE DEF p
    <3> QED BY <3>1, <3>2, <3>3
  <2> HIDE DEF p
  <2> QED BY <1>3, <2>1, <2>3
<1>5. CASE PageShows
  <2> DEFINE p == [page EXCEPT !.hidden = FALSE]
  <2>1. Task(LookedAt(p), agent)
    BY <1>5 DEF PageShows
  <2>2. p \in Pages /\ SameConnection(page, p) /\ ControllerOK(p) /\ p.stopped = page.stopped
    BY <1>1, Steerings
  <2> HIDE DEF p
  <2> QED BY <1>3, <2>1, <2>2
<1>6. CASE PageHides
  <2> DEFINE left == Cancel([page EXCEPT !.hidden = TRUE])
             q == IF left.state \in ReleasedOnLeaving THEN Release(left) ELSE left
  <2>1. Task(q, agent)
    BY <1>6 DEF PageHides
  <2>2. PageOK(q) /\ LocatorStays(page, q)
    BY <1>1, HiddenKeeps
  <2> HIDE DEF q
  <2> QED BY <1>1, <2>1, <2>2, TaskKeeps
<1>7. CASE Disposes
  <2> DEFINE q == Release(Cancel([page EXCEPT !.disposed = TRUE]))
  <2>1. Task(q, agent)
    BY <1>7 DEF Disposes
  <2>2. PageOK(q) /\ LocatorStays(page, q)
    BY <1>1, DisposedKeeps
  <2> HIDE DEF q
  <2> QED BY <1>1, <2>1, <2>2, TaskKeeps
<1> QED BY <1>4, <1>5, <1>6, <1>7

(* Every step keeps the invariant, and the locator as it must.             *)
LEMMA StepIInv == IInv /\ [Next]_vars => IInv' /\ LocatorStays(page, page')
<1> SUFFICES ASSUME IInv, [Next]_vars
             PROVE  IInv' /\ LocatorStays(page, page')
  OBVIOUS
<1>1. CASE UNCHANGED vars
  BY <1>1, SameLocator DEF vars, IInv, PageOK, Sound, BaseOK, WatchOK, AgentOK
<1>2. ASSUME Next
      PROVE  Kept
  <2>1. CASE \E w \in Works : SocketOpens(w) \/ SocketBreaks(w) \/ SocketCloses(w) \/ ProofFinishes(w)
    BY <2>1, SocketSteps, TimerSteps
  <2>2. CASE AgentCloses \/ AgentSends \/ AgentFails
    BY <2>2, AgentSteps
  <2>3. CASE StoreFinishes \/ StoreFails
    BY <2>3, StoreSteps
  <2>4. CASE ConnectTimesOut \/ HeartbeatStops \/ AuthorizationEnds \/ SendFails \/ ReconnectFires
    BY <2>4, TimerSteps
  <2>5. CASE Arrives \/ Resumes
    BY <2>5, FrameSteps
  <2>6. CASE \E s \in Sessions : SessionDies(s) \/ RecentClicked(s)
    BY <2>6, AgentSteps, ConnectSteps
  <2>7. CASE ConnectClicked \/ NewSessionClicked
    BY <2>7, ConnectSteps
  <2>8. CASE DisconnectClicked \/ EndTerminalClicked \/ CancelClicked \/ PairSubmitted
    BY <2>8, GiveUpSteps
  <2>9. CASE VisibilityChanges \/ PageHides \/ PageShows \/ Disposes
    BY <2>9, LifecycleSteps
  <2> QED BY <1>2, <2>1, <2>2, <2>3, <2>4, <2>5, <2>6, <2>7, <2>8, <2>9 DEF Next
<1>3. Kept => IInv' /\ LocatorStays(page, page')
  BY DEF Kept, IInv
<1> QED BY <1>1, <1>2, <1>3

(* The invariant is one of the specification.                              *)
THEOREM PageInvariant == Spec => []IInv
<1>1. Init => IInv
  BY InitIInv
<1>2. IInv /\ [Next]_vars => IInv'
  BY StepIInv
<1> QED BY <1>1, <1>2, PTL DEF Spec

(* The page and its agent are of their types (protocolTerminalAdapter.ts's *)
(* fields, the shell's refs), with at most MAX reconnects to an episode.   *)
THEOREM PageTyped == Spec => []TypeOK
<1>1. IInv => TypeOK
  <2> SUFFICES ASSUME IInv PROVE TypeOK
    OBVIOUS
  <2>1. page \in Pages /\ AgentOK(agent)
    BY IInvGives
  <2> QED BY <2>1 DEF TypeOK, Pages, Machines, AgentOK, Agents
<1> QED BY <1>1, PageInvariant, PTL

(* Nothing a stale attempt left behind puts the page where it is: while it *)
(* connects, its latest work is loading or has the socket, and later that  *)
(* work and the socket in hand belong together.                            *)
THEOREM LatestAttemptOnly == Spec => []AttemptIsCurrent
<1>1. IInv => AttemptIsCurrent
  BY IInvGives DEF AttemptIsCurrent, Sound, PlaceOK, Loading, LoadingIn, Connecting, Attached
<1> QED BY <1>1, PageInvariant, PTL

(* A page that says "connected" has an open session, under the id it       *)
(* remembers, on a socket that was opened, and no New Session half done.   *)
THEOREM ConnectedHasSession == Spec => []ConnectedIsLive
<1>1. IInv => ConnectedIsLive
  BY IInvGives, ConnectedIs DEF ConnectedIsLive
<1> QED BY <1>1, PageInvariant, PTL

(* No attempt leaves an open socket behind, and none is open or opening    *)
(* when the adapter is idle.                                               *)
THEOREM SocketsAreOwned == Spec => []NoOrphanSocket
<1>1. IInv => NoOrphanSocket
  BY IInvGives DEF NoOrphanSocket, Sound, BaseOK, SocketsOK, PlaceOK, Silent
<1> QED BY <1>1, PageInvariant, PTL

(* A page nobody looks at or that was stopped is not connected, whenever   *)
(* its handshake ends, and nothing is connected after dispose().           *)
THEOREM UnwatchedStaysQuiet == Spec => []UnwatchedIsQuiet
<1>1. IInv => UnwatchedIsQuiet
  <2> SUFFICES ASSUME IInv PROVE UnwatchedIsQuiet
    OBVIOUS
  <2>1. Sound(page) /\ WatchOK(page) /\ ControllerOK(page) /\ page \in Pages
    BY IInvGives DEF PageOK
  <2>2. page.disposed => \A w \in Works : page.readyState[w] \notin {"connecting", "open"}
    BY <2>1, PageAssumption DEF Sound, BaseOK, SocketsOK, PlaceOK, Current
  <2> QED BY <2>1, <2>2 DEF UnwatchedIsQuiet, WatchOK, ControllerOK
<1> QED BY <1>1, PageInvariant, PTL

(* Whenever the controller may reconnect and the episode has attempts left,*)
(* its timer is set: no order of events disarms the recovery.              *)
THEOREM RecoveryStaysArmed == Spec => []RecoveryIsArmed
<1>1. IInv => RecoveryIsArmed
  BY IInvGives DEF RecoveryIsArmed, PageOK, WatchOK
<1> QED BY <1>1, PageInvariant, PTL

(* What the adapter proves itself with is what the store keeps: no saving  *)
(* of an earlier attempt overwrites the credential of a later one.         *)
THEOREM StoredCredentialIsUsed == Spec => []CredentialIsStored
<1>1. IInv => CredentialIsStored
  BY IInvGives DEF CredentialIsStored, Sound, BaseOK, Attached, HasSocket
<1> QED BY <1>1, PageInvariant, PTL

(* Losing the transport never loses the session's locator.                 *)
THEOREM LocatorOutlivesTransport == Spec => LocatorKept
<1>1. IInv /\ [Next]_vars =>
        [GetSessionId(page) # NoSession /\ GetSessionId(page') = NoSession =>
           \/ page'.machine.sessionState = "CLOSED"
           \/ page'.state = "disconnected" /\ page.state \in {"pairing", "connected"}
           \/ page'.newSession = "opening"]_vars
  BY StepIInv DEF LocatorStays
<1> QED BY <1>1, PageInvariant, PTL DEF Spec, LocatorKept

=============================================================================
