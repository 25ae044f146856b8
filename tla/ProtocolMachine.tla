-------------------------- MODULE ProtocolMachine --------------------------
(***************************************************************************)
(* The Terminus 0.2 wire state machine as the agent enforces it            *)
(* (internal/protocol/machine.go): two tables, one for the connection and  *)
(* one for the single session a connection may carry, looked up by the     *)
(* current state, the direction of the frame and its type.                 *)
(***************************************************************************)

(* A row is <<state, direction, message, next state>>.                     *)
ConnectionTable == {
  <<"NEW",             "client", "hello",           "NEGOTIATING">>,
  <<"NEGOTIATING",     "agent",  "hello_ack",       "UNAUTHENTICATED">>,
  <<"UNAUTHENTICATED", "client", "pairing_request", "PAIRING">>,
  <<"PAIRING",         "agent",  "pairing_result",  "UNAUTHENTICATED">>,
  <<"UNAUTHENTICATED", "agent",  "auth_challenge",  "CHALLENGED">>,
  <<"CHALLENGED",      "client", "auth_response",   "PROVING">>,
  <<"PROVING",         "agent",  "auth_result",     "READY">>,
  <<"READY",           "client", "heartbeat",       "READY">>,
  <<"READY",           "agent",  "heartbeat",       "READY">> }

SessionTable == {
  <<"NONE",      "client", "open_session",     "OPENING">>,
  <<"OPENING",   "agent",  "session_opened",   "OPEN">>,
  <<"NONE",      "client", "reopen_session",   "REOPENING">>,
  <<"REOPENING", "agent",  "session_reopened", "REPLAYING">>,
  <<"REPLAYING", "agent",  "history_begin",    "REPLAYING">>,
  <<"REPLAYING", "agent",  "history_chunk",    "REPLAYING">>,
  <<"REPLAYING", "agent",  "history_end",      "OPEN">>,
  <<"OPEN",      "client", "terminal_input",   "OPEN">>,
  <<"OPEN",      "agent",  "terminal_output",  "OPEN">>,
  <<"OPEN",      "client", "resize",           "OPEN">>,
  <<"OPEN",      "client", "detach",           "DETACHING">>,
  <<"DETACHING", "agent",  "session_detached", "DETACHED">>,
  <<"OPEN",      "client", "close_session",    "CLOSING">>,
  <<"CLOSING",   "agent",  "session_closed",   "CLOSED">>,
  <<"OPEN",      "agent",  "session_closed",   "CLOSED">> }

Directions == {"client", "agent"}
ConnectionStates == {row[1] : row \in ConnectionTable} \cup {"CLOSING", "CLOSED"}
SessionStates == {row[1] : row \in SessionTable} \cup {"DETACHED", "CLOSED"}
Messages == {row[3] : row \in ConnectionTable \cup SessionTable}

Successors(table, state, direction, message) ==
  {row[4] : row \in {r \in table : /\ r[1] = state
                                   /\ r[2] = direction
                                   /\ r[3] = message}}

(* Both lookups give the empty set or one state.  A session row counts     *)
(* only on a READY connection.                                             *)
NextConnection(connection, direction, message) ==
  Successors(ConnectionTable, connection, direction, message)

NextSession(connection, session, direction, message) ==
  IF connection = "READY"
  THEN Successors(SessionTable, session, direction, message)
  ELSE {}

=============================================================================
