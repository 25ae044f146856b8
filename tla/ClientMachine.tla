---------------------------- MODULE ClientMachine ----------------------------
(***************************************************************************)
(* The wire state machine as the browser enforces it                       *)
(* (apps/web/protocol/contractMachine.ts).  The browser writes the tables  *)
(* of the contract down a second time; SameContract compares them with the *)
(* agent's (ProtocolMachine).                                              *)
(*                                                                         *)
(* A frame is [type, session, from, to]: the session its payload names and *)
(* the half-open range of output offsets it carries.  A socket delivers in *)
(* order and without loss, so the sequence counters of one connection agree*)
(* by construction and are left out.                                       *)
(***************************************************************************)
EXTENDS ProtocolMachine, Naturals

CONSTANTS
  MaxHistory,    \* the longest replay accepted, 262 144 bytes
  MaxOffset,     \* MAX_SAFE_SEQUENCE
  NoSession      \* no session id (undefined)

connectionTransitions == {
  <<"NEW", "client", "hello", "NEGOTIATING">>,
  <<"NEGOTIATING", "agent", "hello_ack", "UNAUTHENTICATED">>,
  <<"UNAUTHENTICATED", "client", "pairing_request", "PAIRING">>,
  <<"PAIRING", "agent", "pairing_result", "UNAUTHENTICATED">>,
  <<"UNAUTHENTICATED", "agent", "auth_challenge", "CHALLENGED">>,
  <<"CHALLENGED", "client", "auth_response", "PROVING">>,
  <<"PROVING", "agent", "auth_result", "READY">>,
  <<"READY", "client", "heartbeat", "READY">>,
  <<"READY", "agent", "heartbeat", "READY">> }

(* Every key of this table begins with READY.                              *)
sessionTransitions == {
  <<"NONE", "client", "open_session", "OPENING">>,
  <<"OPENING", "agent", "session_opened", "OPEN">>,
  <<"NONE", "client", "reopen_session", "REOPENING">>,
  <<"REOPENING", "agent", "session_reopened", "REPLAYING">>,
  <<"REPLAYING", "agent", "history_begin", "REPLAYING">>,
  <<"REPLAYING", "agent", "history_chunk", "REPLAYING">>,
  <<"REPLAYING", "agent", "history_end", "OPEN">>,
  <<"OPEN", "client", "terminal_input", "OPEN">>,
  <<"OPEN", "agent", "terminal_output", "OPEN">>,
  <<"OPEN", "client", "resize", "OPEN">>,
  <<"OPEN", "client", "detach", "DETACHING">>,
  <<"DETACHING", "agent", "session_detached", "DETACHED">>,
  <<"OPEN", "client", "close_session", "CLOSING">>,
  <<"CLOSING", "agent", "session_closed", "CLOSED">>,
  <<"OPEN", "agent", "session_closed", "CLOSED">> }

(* Both ends allow the same frames in the same states, or an honest agent  *)
(* and an honest browser would refuse each other.                          *)
ASSUME SameContract ==
  /\ connectionTransitions = ConnectionTable
  /\ sessionTransitions = SessionTable

(* The state of the two tables, and what the payloads have shown so far.   *)
NewStates == [connectionState |-> "NEW", sessionState |-> "NONE", sessionId |-> NoSession]

NewOffsets == [nextOutputOffset |-> 0, nextOutputOffsetKnown |-> FALSE,
               begun |-> FALSE, cursor |-> 0, endOffset |-> 0]

(* findTransition: the states after the message, as a set of at most one.  *)
findTransition(m, direction, type) ==
  LET connections == Successors(connectionTransitions, m.connectionState, direction, type)
      sessions == Successors(sessionTransitions, m.sessionState, direction, type)
  IN  IF type = "error" /\ m.connectionState # "CLOSED"
      THEN {[m EXCEPT !.connectionState = "CLOSING"]}
      ELSE IF connections # {} \/ m.connectionState # "READY"
      THEN {[m EXCEPT !.connectionState = next] : next \in connections}
      ELSE {[m EXCEPT !.sessionState = next] : next \in sessions}

(* What is thrown when there is none.                                      *)
Refusal(m, direction, type) ==
  LET other == CHOOSE d \in Directions : d # direction
  IN  IF findTransition(m, other, type) # {} THEN "DIRECTION_VIOLATION" ELSE "INVALID_STATE"

(* validateSessionData, first for the session a payload names: it may not  *)
(* change but by opening or reopening one.                                 *)
SameSession(m, type, session) ==
  \/ m.sessionId = NoSession
  \/ session = NoSession
  \/ type = "reopen_session"
  \/ session = m.sessionId

Named(m, type, session) ==
  IF type \in {"session_opened", "session_reopened"} THEN [m EXCEPT !.sessionId = session] ELSE m

(* Mutant of OffsetsAllowed: the end of a replay is always compared.       *)
OffsetsAllowedKnown(m, f) ==
  CASE f.type = "history_begin" ->
         /\ f.from <= f.to
         /\ f.to - f.from <= MaxHistory
         /\ f.to = m.nextOutputOffset
    [] f.type = "history_chunk" ->
         m.begun /\ f.from = m.cursor /\ f.to <= m.endOffset /\ f.to <= MaxOffset
    [] f.type = "history_end" ->
         m.begun /\ m.cursor = m.endOffset /\ f.to = m.endOffset
    [] f.type = "terminal_output" ->
         f.from = m.nextOutputOffset /\ f.to <= MaxOffset
    [] OTHER -> TRUE

(* Then for the offsets of output.  truncated is from > 0 in a             *)
(* history_begin, as in the agent's.                                       *)
OffsetsAllowed(m, f) ==
  CASE f.type = "history_begin" ->
         /\ f.from <= f.to
         /\ f.to - f.from <= MaxHistory
         /\ m.nextOutputOffsetKnown => f.to = m.nextOutputOffset
    [] f.type = "history_chunk" ->
         m.begun /\ f.from = m.cursor /\ f.to <= m.endOffset /\ f.to <= MaxOffset
    [] f.type = "history_end" ->
         m.begun /\ m.cursor = m.endOffset /\ f.to = m.endOffset
    [] f.type = "terminal_output" ->
         f.from = m.nextOutputOffset /\ f.to <= MaxOffset
    [] OTHER -> TRUE

OffsetsApplied(m, f) ==
  CASE f.type = "session_opened" ->
         [m EXCEPT !.nextOutputOffset = 0, !.nextOutputOffsetKnown = TRUE]
    [] f.type = "history_begin" ->
         [nextOutputOffset |-> f.to, nextOutputOffsetKnown |-> TRUE,
          begun |-> TRUE, cursor |-> f.from, endOffset |-> f.to]
    [] f.type = "history_chunk" -> [m EXCEPT !.cursor = f.to]
    [] f.type = "history_end" ->
         [m EXCEPT !.nextOutputOffset = f.to, !.begun = FALSE, !.cursor = 0, !.endOffset = 0]
    [] f.type = "terminal_output" -> [m EXCEPT !.nextOutputOffset = f.to]
    [] OTHER -> m

(* apply(), which throws and changes nothing when any part refuses.        *)
Accepts(m, direction, type, session) ==
  findTransition(m, direction, type) # {} /\ SameSession(m, type, session)

Advanced(m, direction, type, session) ==
  Named(CHOOSE next \in findTransition(m, direction, type) : TRUE, type, session)

=============================================================================
