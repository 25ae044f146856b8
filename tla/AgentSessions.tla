--------------------------- MODULE AgentSessions ---------------------------
(***************************************************************************)
(* The session registry of the Windows agent (internal/endpoint/session.go)*)
(* together with the goroutines of the endpoint that work on it: for each  *)
(* connection the read loop, fail() and shutdown(), the authorization      *)
(* timer; for each session the output copier and the credential timer; and *)
(* on the host RevokeCredential and Close.                                 *)
(*                                                                         *)
(* A step is one critical section of the registry mutex, one frame sent    *)
(* (protocolMu is held for the whole of a send) or one wait that ends.     *)
(* Output bytes are not represented: that a chunk was read is; what it     *)
(* holds and where it lies in the history is SessionHistory's business.    *)
(***************************************************************************)
EXTENDS ProtocolMachine

CONSTANTS
  Connections,     \* WebSocket connections; each lives once
  Sessions,        \* session identifiers; each is given out at most once
  Credentials,     \* paired credentials
  CredentialOf,    \* the credential a connection authenticates with
  DeviceOf,        \* the source device a connection comes from
  Revocable,       \* credentials the operator may revoke
  Expirable,       \* credentials whose 30 days may run out
  MayStop,         \* whether the host may close the endpoint
  Inputs,          \* what the peer of a connection, the network, the clock and
                   \* the process it started may do
  Watched,         \* connections whose sequence numbers are followed
  NoConnection,    \* a nil *connection
  NoSession,       \* "not waiting for any session"
  NoCloser         \* "no goroutine holds the session's close ticket"

Goroutines ==
  ({"reader", "shutdown", "authorization"} \X Connections)
    \cup ({"copy", "expire"} \X Sessions)
    \cup ({"revoke"} \X Credentials)
    \cup {<<"stop", "host">>}

AllInputs == {"open", "reopen", "detach", "close", "ping", "error", "rejected",
              "lost", "timeout", "exit"}

ASSUME ConstantsAssumption ==
  /\ CredentialOf \in [Connections -> Credentials]
  /\ Revocable \subseteq Credentials
  /\ Expirable \subseteq Credentials
  /\ MayStop \in BOOLEAN
  /\ Inputs \in [Connections -> SUBSET AllInputs]
  /\ Watched \subseteq Connections
  /\ NoConnection \notin Connections
  /\ NoSession \notin Sessions
  /\ NoCloser \notin Goroutines

VARIABLES
  \* the endpoint (e.mu) and the clock
  endpointClosed, endpointRevoked, expired,
  \* the registry (r.mu)
  shuttingDown, registryRevoked,
  life,            \* where a session is between its reservation and its end
  creator,         \* the connection that opened it: its credential and device
  owner, detached, replaying,
  cancelled,       \* the context of a pending open was cancelled
  \* close tickets
  closer,          \* the goroutine that fenced the session first
  notifyTo,        \* the connection session_closed is announced to
  toClose,         \* sessions a goroutine still has to see closed
  closingNow,      \* the one it is closing or waiting for
  \* each connection
  link, wire,      \* Machine.Connection and Machine.Session
  gap,             \* what has become of the agent's sequence numbers
  destroy, failOnce, shut,
  reader, target,  \* the read loop, and the session its frame named
  authLoop,
  \* each session's goroutines
  copier, sendTo, expirer,
  \* the host's calls
  revoker, revokeSnapshot, revoking, stopper, stopSnapshot

endpointVars == <<endpointClosed, endpointRevoked, expired>>
fenceFlags   == <<shuttingDown, registryRevoked>>
attachVars   == <<owner, detached, replaying>>
registryVars == <<fenceFlags, life, creator, attachVars, cancelled>>
ticketVars   == <<closer, notifyTo>>
waitVars     == <<toClose, closingNow>>
linkVars     == <<link, wire, gap>>
downVars     == <<destroy, failOnce, shut>>
readerVars   == <<reader, target>>
sessionVars  == <<copier, sendTo, expirer>>
hostVars     == <<revoker, revokeSnapshot, revoking, stopper, stopSnapshot>>
vars == <<endpointVars, registryVars, ticketVars, waitVars, linkVars, downVars,
          readerVars, authLoop, sessionVars, hostVars>>

-----------------------------------------------------------------------------
(* Names of the goroutines.                                                *)
Reader(c)        == <<"reader", c>>
Shutdown(c)      == <<"shutdown", c>>
Authorization(c) == <<"authorization", c>>
Copy(s)          == <<"copy", s>>
Expire(s)        == <<"expire", s>>
Revoke(k)        == <<"revoke", k>>
Stop             == <<"stop", "host">>

Lives == {"unused", "pending", "failed", "active", "fenced", "removed",
          "notifying", "done"}
ReaderStates == {"idle", "pong", "opening", "opened", "detach", "detached",
                 "close", "closing", "closed", "resize", "rejecting", "replay",
                 "sending", "release", "expiring", "broken", "gone"}

EndpointTypeOK ==
  /\ endpointClosed \in BOOLEAN
  /\ endpointRevoked \subseteq Credentials
  /\ expired \subseteq Credentials

RegistryTypeOK ==
  /\ shuttingDown \in BOOLEAN
  /\ registryRevoked \subseteq Credentials
  /\ life \in [Sessions -> Lives]
  /\ creator \in [Sessions -> Connections \cup {NoConnection}]
  /\ cancelled \in [Sessions -> BOOLEAN]

AttachTypeOK ==
  /\ owner \in [Sessions -> Connections \cup {NoConnection}]
  /\ detached \in [Sessions -> BOOLEAN]
  /\ replaying \in [Sessions -> BOOLEAN]

TicketTypeOK ==
  /\ closer \in [Sessions -> Goroutines \cup {NoCloser}]
  /\ notifyTo \in [Sessions -> Connections \cup {NoConnection}]

WaitTypeOK ==
  /\ toClose \in [Goroutines -> SUBSET Sessions]
  /\ closingNow \in [Goroutines -> Sessions \cup {NoSession}]

LinkTypeOK ==
  /\ link \in [Connections -> ConnectionStates]
  /\ wire \in [Connections -> SessionStates]
  /\ gap \in [Connections -> {"none", "burned", "sent"}]

DownTypeOK ==
  /\ destroy \in [Connections -> BOOLEAN]
  /\ failOnce \in [Connections -> {"idle", "failing", "reported", "closing"}]
  /\ shut \in [Connections -> {"up", "lost", "failed", "sweeping", "down"}]

ReaderTypeOK ==
  /\ reader \in [Connections -> ReaderStates]
  /\ target \in [Connections -> Sessions \cup {NoSession}]
  /\ authLoop \in [Connections -> {"armed", "expiring", "finished"}]

SessionTypeOK ==
  /\ copier \in [Sessions -> {"none", "reading", "sending", "refused", "closing",
                              "stopped"}]
  /\ sendTo \in [Sessions -> Connections \cup {NoConnection}]
  /\ expirer \in [Sessions -> {"none", "armed", "closing", "finished"}]

HostTypeOK ==
  /\ revoker \in [Credentials -> {"idle", "marked", "failing", "finishing", "done"}]
  /\ revokeSnapshot \in [Credentials -> SUBSET Connections]
  /\ revoking \in [Credentials -> Connections \cup {NoConnection}]
  /\ stopper \in {"idle", "marked", "finishing", "shutting", "done"}
  /\ stopSnapshot \subseteq Connections

TypeOK ==
  /\ EndpointTypeOK /\ RegistryTypeOK /\ AttachTypeOK /\ TicketTypeOK /\ WaitTypeOK
  /\ LinkTypeOK /\ DownTypeOK /\ ReaderTypeOK /\ SessionTypeOK /\ HostTypeOK

Init ==
  /\ endpointClosed = FALSE
  /\ endpointRevoked = {}
  /\ expired = {}
  /\ shuttingDown = FALSE
  /\ registryRevoked = {}
  /\ life = [s \in Sessions |-> "unused"]
  /\ creator = [s \in Sessions |-> NoConnection]
  /\ owner = [s \in Sessions |-> NoConnection]
  /\ detached = [s \in Sessions |-> FALSE]
  /\ replaying = [s \in Sessions |-> FALSE]
  /\ cancelled = [s \in Sessions |-> FALSE]
  /\ closer = [s \in Sessions |-> NoCloser]
  /\ notifyTo = [s \in Sessions |-> NoConnection]
  /\ toClose = [g \in Goroutines |-> {}]
  /\ closingNow = [g \in Goroutines |-> NoSession]
  /\ link = [c \in Connections |-> "NEW"]
  /\ wire = [c \in Connections |-> "NONE"]
  /\ gap = [c \in Connections |-> "none"]
  /\ destroy = [c \in Connections |-> FALSE]
  /\ failOnce = [c \in Connections |-> "idle"]
  /\ shut = [c \in Connections |-> "up"]
  /\ reader = [c \in Connections |-> "idle"]
  /\ target = [c \in Connections |-> NoSession]
  /\ authLoop = [c \in Connections |-> "armed"]
  /\ copier = [s \in Sessions |-> "none"]
  /\ sendTo = [s \in Sessions |-> NoConnection]
  /\ expirer = [s \in Sessions |-> "none"]
  /\ revoker = [k \in Credentials |-> "idle"]
  /\ revokeSnapshot = [k \in Credentials |-> {}]
  /\ revoking = [k \in Credentials |-> NoConnection]
  /\ stopper = "idle"
  /\ stopSnapshot = {}

-----------------------------------------------------------------------------
(* Predicates of the registry.                                             *)

(* done is closed: shutdown() has begun.                                   *)
IsDone(c) == shut[c] # "up"

(* A map entry of r.active, fenced or not, and those of one credential.    *)
InActive(s)      == life[s] \in {"active", "fenced"}
SessionsOf(k)    == {s \in Sessions : InActive(s) /\ CredentialOf[creator[s]] = k}

(* Mutant: the connection's done channel is not looked at.                 *)
AdmissionIgnoresDone(c) ==
  shuttingDown \/ CredentialOf[c] \in registryRevoked

(* Mutant: the agent's shutdown is not looked at.                          *)
AdmissionIgnoresStop(c) ==
  CredentialOf[c] \in registryRevoked \/ IsDone(c)

AdmissionError(c) ==
  shuttingDown \/ CredentialOf[c] \in registryRevoked \/ IsDone(c)

Owned(c, s) ==
  life[s] = "active" /\ owner[s] = c /\ ~detached[s] /\ ~replaying[s]

(* Mutant: a session that is held may be taken.                            *)
ReopenableHeld(c, s) ==
  /\ life[s] = "active"
  /\ ~replaying[s]
  /\ CredentialOf[creator[s]] = CredentialOf[c]
  /\ DeviceOf[creator[s]] = DeviceOf[c]
  /\ ~AdmissionError(c)

Reopenable(c, s) ==
  /\ life[s] = "active"
  /\ detached[s] /\ ~replaying[s] /\ owner[s] = NoConnection
  /\ CredentialOf[creator[s]] = CredentialOf[c]
  /\ DeviceOf[creator[s]] = DeviceOf[c]
  /\ ~AdmissionError(c)

(* The reopening connection still holds the session it is replaying.       *)
Replays(c, s) == life[s] = "active" /\ owner[s] = c /\ replaying[s]

(* Mutant: the replaying flag is left set.                                 *)
ReleaseStillReplaying(S) ==
  /\ owner' = [s \in Sessions |-> IF s \in S THEN NoConnection ELSE owner[s]]
  /\ detached' = [s \in Sessions |-> s \in S \/ detached[s]]
  /\ UNCHANGED replaying

(* Let go of the sessions in S; they stay alive, detached.                 *)
Release(S) ==
  /\ owner' = [s \in Sessions |-> IF s \in S THEN NoConnection ELSE owner[s]]
  /\ detached' = [s \in Sessions |-> s \in S \/ detached[s]]
  /\ replaying' = [s \in Sessions |-> s \notin S /\ replaying[s]]

(* Mutant: without the look at managed.closed.                             *)
FenceAgain(g, S, notify) ==
  LET open == {s \in S : InActive(s)}
  IN  /\ life' = [s \in Sessions |-> IF s \in open THEN "fenced" ELSE life[s]]
      /\ closer' = [s \in Sessions |-> IF s \in open THEN g ELSE closer[s]]
      /\ notifyTo' = [s \in Sessions |->
                        IF s \in open /\ notify THEN owner[s] ELSE notifyTo[s]]
      /\ owner' = [s \in Sessions |-> IF s \in open THEN NoConnection ELSE owner[s]]

(* fenceManagedLocked on each session of S: the first to close it takes    *)
(* the ticket, with the owner to notify if the caller wants one notified.  *)
Fence(g, S, notify) ==
  LET first == {s \in S : life[s] = "active"}
  IN  /\ life' = [s \in Sessions |-> IF s \in first THEN "fenced" ELSE life[s]]
      /\ closer' = [s \in Sessions |-> IF s \in first THEN g ELSE closer[s]]
      /\ notifyTo' = [s \in Sessions |->
                        IF s \in first /\ notify THEN owner[s] ELSE notifyTo[s]]
      /\ owner' = [s \in Sessions |-> IF s \in first THEN NoConnection ELSE owner[s]]


-----------------------------------------------------------------------------
(* Sending a frame.  Machine.Apply spends the sequence number before it    *)
(* looks the transition up, so a refused frame leaves a hole that the next *)
(* written frame shows to the client.                                      *)

(* Machine.Session after the agent sends m; empty when the tables refuse   *)
(* it.  The one connection row a READY agent uses is heartbeat.            *)
AfterSend(c, m) ==
  {wire[c] : l \in NextConnection(link[c], "agent", m)}
    \cup NextSession(link[c], wire[c], "agent", m)

(* closeOnce: the first caller closes done and unregisters.                *)
StartShutdown(c, how) ==
  shut' = [shut EXCEPT ![c] = IF @ = "up" THEN how ELSE @]

Written(c, m) ==
  /\ shut[c] # "down"
  /\ \E w \in AfterSend(c, m) : wire' = [wire EXCEPT ![c] = w]
  /\ gap' = [gap EXCEPT ![c] = IF @ = "none" THEN @ ELSE "sent"]
  /\ UNCHANGED <<link, shut>>

Refused(c, m) ==
  /\ AfterSend(c, m) = {}
  /\ gap' = [gap EXCEPT ![c] = IF @ = "none" /\ c \in Watched THEN "burned" ELSE @]
  /\ UNCHANGED <<link, wire, shut>>

(* Accepted, but the write fails (the write loop then shuts the connection *)
(* down) or the connection is already done.                                *)
Lost(c, m) ==
  /\ \E w \in AfterSend(c, m) : wire' = [wire EXCEPT ![c] = w]
  /\ StartShutdown(c, IF failOnce[c] = "idle" THEN "lost" ELSE "failed")
  /\ UNCHANGED <<link, gap>>

SendFails(c, m) == Refused(c, m) \/ Lost(c, m)

(* fail(): the first caller decides whether the session is destroyed, then *)
(* reports the error and shuts the connection down.                        *)
StartFail(c, destructive) ==
  /\ failOnce' = [failOnce EXCEPT ![c] = IF @ = "idle" THEN "failing" ELSE @]
  /\ destroy' = [destroy EXCEPT ![c] = @ \/ (failOnce[c] = "idle" /\ destructive)]

(* The read loop ends in fail(); nobody waits for it.                      *)
ReaderFails(c, destructive) ==
  /\ reader' = [reader EXCEPT ![c] = "gone"]
  /\ StartFail(c, destructive)

Become(c, state) == reader' = [reader EXCEPT ![c] = state]

-----------------------------------------------------------------------------
(* Connecting and losing the connection.                                   *)

(* register() and a completed handshake: authorizeCredential() looks at    *)
(* e.revokedCredentials under e.mu.                                        *)
Connect(c) ==
  /\ link[c] = "NEW" /\ ~endpointClosed
  /\ CredentialOf[c] \notin endpointRevoked \cup expired
  /\ link' = [link EXCEPT ![c] = "READY"]
  /\ UNCHANGED <<endpointVars, registryVars, ticketVars, waitVars, wire, gap,
                 downVars, readerVars, authLoop, sessionVars, hostVars>>

(* The peer vanishes: ReadMessage, or a heartbeat's write, returns an error *)
(* and the goroutine calls shutdown() without fail().                      *)
ConnectionLost(c) ==
  /\ link[c] # "NEW" /\ shut[c] = "up"
  /\ StartShutdown(c, IF failOnce[c] = "idle" THEN "lost" ELSE "failed")
  /\ UNCHANGED <<endpointVars, registryVars, ticketVars, waitVars, linkVars, destroy,
                 failOnce, readerVars, authLoop, sessionVars, hostVars>>

(* HEARTBEAT_TIMEOUT, or the 12-hour authorization ends: the session is to *)
(* survive, detached.                                                      *)
RecoverableFailure(c) ==
  /\ link[c] = "READY" /\ shut[c] = "up" /\ failOnce[c] = "idle"
  /\ StartFail(c, FALSE)
  /\ UNCHANGED <<endpointVars, registryVars, ticketVars, waitVars, linkVars, shut,
                 readerVars, authLoop, sessionVars, hostVars>>

(* fail() sends the error frame, which any connection state but CLOSED     *)
(* accepts, and then calls shutdown().                                     *)
FailReports(c) ==
  /\ failOnce[c] = "failing"
  /\ failOnce' = [failOnce EXCEPT ![c] = "reported"]
  /\ link' = [link EXCEPT ![c] = "CLOSING"]
  /\ gap' = [gap EXCEPT ![c] = IF @ = "none" \/ shut[c] = "down" THEN @ ELSE "sent"]
  /\ UNCHANGED <<endpointVars, registryVars, ticketVars, waitVars, wire, destroy, shut,
                 readerVars, authLoop, sessionVars, hostVars>>

FailShutsDown(c) ==
  /\ failOnce[c] = "reported"
  /\ failOnce' = [failOnce EXCEPT ![c] = "closing"]
  /\ StartShutdown(c, "failed")
  /\ UNCHANGED <<endpointVars, registryVars, ticketVars, waitVars, linkVars, destroy,
                 readerVars, authLoop, sessionVars, hostVars>>

(* failOnce.Do returns only when the first call has.                       *)
FailReturned(c) == failOnce[c] = "closing" /\ shut[c] = "down"

(* Mutant: pending opens are not cancelled.                                *)
DisconnectedForgetsPending(c) ==
  /\ shut[c] \in {"lost", "failed"}
  /\ shut' = [shut EXCEPT ![c] = "sweeping"]
  /\ LET mine == {s \in Sessions : InActive(s) /\ owner[s] = c}
     IN  IF destroy[c]
         THEN /\ toClose' = [toClose EXCEPT ![Shutdown(c)] = mine]
              /\ UNCHANGED attachVars
         ELSE Release(mine) /\ UNCHANGED toClose
  /\ UNCHANGED <<endpointVars, fenceFlags, life, creator, cancelled, ticketVars,
                 closingNow, linkVars, destroy, failOnce, readerVars, authLoop,
                 sessionVars, hostVars>>

(* sessions.disconnected(): cancel the pending opens of this connection;   *)
(* destroy or detach the sessions it owns at this moment.                  *)
Disconnected(c) ==
  /\ shut[c] \in {"lost", "failed"}
  /\ shut' = [shut EXCEPT ![c] = "sweeping"]
  /\ cancelled' = [s \in Sessions |->
                     cancelled[s] \/ (life[s] = "pending" /\ creator[s] = c)]
  /\ LET mine == {s \in Sessions : InActive(s) /\ owner[s] = c}
     IN  IF destroy[c]
         THEN /\ toClose' = [toClose EXCEPT ![Shutdown(c)] = mine]
              /\ UNCHANGED attachVars
         ELSE Release(mine) /\ UNCHANGED toClose
  /\ UNCHANGED <<endpointVars, fenceFlags, life, creator, ticketVars, closingNow,
                 linkVars, destroy, failOnce, readerVars, authLoop, sessionVars,
                 hostVars>>

ShutdownEnds(c) ==
  /\ shut[c] = "sweeping" /\ toClose[Shutdown(c)] = {}
  /\ shut' = [shut EXCEPT ![c] = "down"]
  /\ UNCHANGED <<endpointVars, registryVars, ticketVars, waitVars, linkVars, destroy,
                 failOnce, readerVars, authLoop, sessionVars, hostVars>>


-----------------------------------------------------------------------------
(* The read loop.  A frame is read while it is idle and the socket is not  *)
(* yet closed; the machine has accepted it before handle() runs.           *)

Receives(c, m, w) ==
  /\ reader[c] = "idle" /\ shut[c] # "down"
  /\ w \in NextSession(link[c], wire[c], "client", m)
  /\ wire' = [wire EXCEPT ![c] = w]

(* handle() first compares the authorization deadline with the clock.      *)
InTime(c) == CredentialOf[c] \notin expired

(* Anything that ends in a destructive fail(): a frame that does not       *)
(* decode, is out of order or out of state, input for a session this       *)
(* connection does not own, a terminal write that fails.                   *)
ReceiveRejected(c) ==
  /\ reader[c] = "idle" /\ link[c] # "NEW" /\ shut[c] # "down"
  /\ ReaderFails(c, TRUE)
  /\ UNCHANGED <<endpointVars, registryVars, ticketVars, waitVars, linkVars, shut,
                 target, authLoop, sessionVars, hostVars>>

(* The client reports an error.  Its code decides what becomes of the      *)
(* session; SESSION_OPEN_FAILED only closes the connection.                *)
ReceiveError(c) ==
  /\ reader[c] = "idle" /\ link[c] # "NEW" /\ shut[c] # "down"
  /\ link' = [link EXCEPT ![c] = "CLOSING"]
  /\ \/ \E destructive \in BOOLEAN : ReaderFails(c, destructive)
        /\ UNCHANGED shut
     \/ /\ StartShutdown(c, IF failOnce[c] = "idle" THEN "lost" ELSE "failed")
        /\ UNCHANGED <<reader, failOnce, destroy>>
  /\ UNCHANGED <<endpointVars, registryVars, ticketVars, waitVars, wire, gap, target,
                 authLoop, sessionVars, hostVars>>

ReceivePing(c) ==
  /\ reader[c] = "idle" /\ shut[c] # "down" /\ link[c] = "READY" /\ InTime(c)
  /\ Become(c, "pong")
  /\ UNCHANGED <<endpointVars, registryVars, ticketVars, waitVars, linkVars, downVars,
                 target, authLoop, sessionVars, hostVars>>

(* sessionRegistry.open up to the unlocked adapter.Open.                   *)
OpenReserves(c, s) ==
  /\ ~AdmissionError(c) /\ life[s] = "unused"
  /\ life' = [life EXCEPT ![s] = "pending"]
  /\ creator' = [creator EXCEPT ![s] = c]
  /\ target' = [target EXCEPT ![c] = s]
  /\ Become(c, "opening")
  /\ UNCHANGED <<failOnce, destroy>>

(* Not admitted, or no identifier could be generated.                      *)
OpenRefused(c) ==
  ReaderFails(c, TRUE) /\ UNCHANGED <<life, creator, target>>

ReceiveOpen(c, s) ==
  /\ \E w \in SessionStates : Receives(c, "open_session", w)
  /\ InTime(c)
  /\ OpenReserves(c, s) \/ OpenRefused(c)
  /\ UNCHANGED <<endpointVars, fenceFlags, attachVars, cancelled, ticketVars, waitVars,
                 link, gap, shut, authLoop, sessionVars, hostVars>>

(* adapter.Open returned an error, or it returned a terminal that admission *)
(* now refuses and that is closed again at once.                           *)
OpenFails(c) ==
  LET s == target[c]
  IN  /\ reader[c] = "opening"
      /\ life' = [life EXCEPT ![s] = "failed"]
      /\ ReaderFails(c, TRUE)
      /\ UNCHANGED <<endpointVars, fenceFlags, creator, attachVars, cancelled, ticketVars,
                     waitVars, linkVars, shut, target, authLoop, sessionVars, hostVars>>

(* Mutant: admission is not checked again.                                 *)
OpenRegistersUnchecked(c) ==
  LET s == target[c]
  IN  /\ reader[c] = "opening"
      /\ life' = [life EXCEPT ![s] = "active"]
      /\ owner' = [owner EXCEPT ![s] = c]
      /\ copier' = [copier EXCEPT ![s] = "reading"]
      /\ expirer' = [expirer EXCEPT ![s] = "armed"]
      /\ Become(c, "opened")
      /\ UNCHANGED <<endpointVars, fenceFlags, creator, detached, replaying, cancelled,
                     ticketVars, waitVars, linkVars, downVars, target, authLoop, sendTo,
                     hostVars>>

(* adapter.Open returned a terminal; admission is checked again and the    *)
(* session registered under the same lock.                                 *)
OpenRegisters(c) ==
  LET s == target[c]
  IN  /\ reader[c] = "opening"
      /\ ~AdmissionError(c)
      /\ life' = [life EXCEPT ![s] = "active"]
      /\ owner' = [owner EXCEPT ![s] = c]
      /\ copier' = [copier EXCEPT ![s] = "reading"]
      /\ expirer' = [expirer EXCEPT ![s] = "armed"]
      /\ Become(c, "opened")
      /\ UNCHANGED <<endpointVars, fenceFlags, creator, detached, replaying, cancelled,
                     ticketVars, waitVars, linkVars, downVars, target, authLoop, sendTo,
                     hostVars>>

(* The frame that answers a request, once the registry has done its part.  *)
ReplyTo == [pong |-> "heartbeat", opened |-> "session_opened",
            detached |-> "session_detached", closed |-> "session_closed"]

Reply(c) ==
  /\ reader[c] \in DOMAIN ReplyTo
  /\ \/ Written(c, ReplyTo[reader[c]]) /\ Become(c, "idle")
     \/ SendFails(c, ReplyTo[reader[c]]) /\ Become(c, "broken")
  /\ UNCHANGED <<endpointVars, registryVars, ticketVars, waitVars, destroy, failOnce,
                 target, authLoop, sessionVars, hostVars>>

(* An error without a protocol code, a closed pipe included, is fatal and  *)
(* destructive: fail() knows it as INVALID_STATE.                          *)
ReaderBreaks(c) ==
  /\ reader[c] = "broken"
  /\ ReaderFails(c, TRUE)
  /\ UNCHANGED <<endpointVars, registryVars, ticketVars, waitVars, linkVars, shut,
                 target, authLoop, sessionVars, hostVars>>

(* ReadMessage fails on the closed socket.                                 *)
ReaderEnds(c) ==
  /\ reader[c] = "idle" /\ shut[c] = "down"
  /\ Become(c, "gone")
  /\ UNCHANGED <<endpointVars, registryVars, ticketVars, waitVars, linkVars, downVars,
                 target, authLoop, sessionVars, hostVars>>

ReceiveDetach(c) ==
  /\ \E w \in SessionStates : Receives(c, "detach", w)
  /\ Become(c, "detach")
  /\ UNCHANGED <<endpointVars, registryVars, ticketVars, waitVars, link, gap, downVars,
                 target, authLoop, sessionVars, hostVars>>

HandleDetach(c) ==
  /\ reader[c] = "detach" /\ InTime(c)
  /\ IF Owned(c, target[c])
     THEN /\ Release({target[c]})
          /\ Become(c, "detached")
          /\ UNCHANGED <<failOnce, destroy>>
     ELSE ReaderFails(c, TRUE) /\ UNCHANGED attachVars
  /\ UNCHANGED <<endpointVars, fenceFlags, life, creator, cancelled, ticketVars, waitVars,
                 linkVars, shut, target, authLoop, sessionVars, hostVars>>

ReceiveClose(c) ==
  /\ \E w \in SessionStates : Receives(c, "close_session", w)
  /\ Become(c, "close")
  /\ UNCHANGED <<endpointVars, registryVars, ticketVars, waitVars, link, gap, downVars,
                 target, authLoop, sessionVars, hostVars>>

(* closeBy: ownership is checked under the lock, which is then given up    *)
(* before closeManaged takes it again.                                     *)
HandleClose(c) ==
  /\ reader[c] = "close" /\ InTime(c)
  /\ IF Owned(c, target[c])
     THEN /\ toClose' = [toClose EXCEPT ![Reader(c)] = {target[c]}]
          /\ Become(c, "closing")
          /\ UNCHANGED <<failOnce, destroy>>
     ELSE ReaderFails(c, TRUE) /\ UNCHANGED toClose
  /\ UNCHANGED <<endpointVars, registryVars, ticketVars, closingNow, linkVars, shut,
                 target, authLoop, sessionVars, hostVars>>

(* closeManaged returned: the reply, or the terminal's close error.        *)
CloseReturns(c) ==
  /\ reader[c] = "closing" /\ toClose[Reader(c)] = {}
  /\ reader' \in {[reader EXCEPT ![c] = r] : r \in {"closed", "broken"}}
  /\ UNCHANGED <<endpointVars, registryVars, ticketVars, waitVars, linkVars, downVars,
                 target, authLoop, sessionVars, hostVars>>

(* The deadline is over: if it was the credential's and not just the 12    *)
(* hours, the credential's sessions are closed; then comes                 *)
(* fail(AUTHORIZATION_EXPIRED), which destroys nothing.                    *)
ExpiredSessions(c) == IF InTime(c) THEN {} ELSE SessionsOf(CredentialOf[c])

HandleExpired(c) ==
  /\ InTime(c) => "timeout" \in Inputs[c]
  /\ \/ reader[c] = "idle" /\ link[c] = "READY" /\ shut[c] # "down"
     \/ reader[c] \in {"detach", "close"}
  /\ toClose' = [toClose EXCEPT ![Reader(c)] = ExpiredSessions(c)]
  /\ Become(c, "expiring")
  /\ UNCHANGED <<endpointVars, registryVars, ticketVars, closingNow, linkVars, downVars,
                 target, authLoop, sessionVars, hostVars>>


ExpiredFails(c) ==
  /\ reader[c] = "expiring" /\ toClose[Reader(c)] = {}
  /\ ReaderFails(c, FALSE)
  /\ UNCHANGED <<endpointVars, registryVars, ticketVars, waitVars, linkVars, shut,
                 target, authLoop, sessionVars, hostVars>>

(* beginReopen claims the session and takes the snapshot in one critical   *)
(* section; anything that does not fit, or the reopen limiter, refuses it. *)
ReopenClaims(c, s) ==
  /\ Reopenable(c, s)
  /\ owner' = [owner EXCEPT ![s] = c]
  /\ detached' = [detached EXCEPT ![s] = FALSE]
  /\ replaying' = [replaying EXCEPT ![s] = TRUE]
  /\ target' = [target EXCEPT ![c] = s]
  /\ Become(c, "resize")
  /\ UNCHANGED <<failOnce, destroy>>

ReopenRefused(c) ==
  ReaderFails(c, FALSE) /\ UNCHANGED <<attachVars, target>>

ReceiveReopen(c, s) ==
  /\ \E w \in SessionStates : Receives(c, "reopen_session", w)
  /\ InTime(c)
  /\ ReopenClaims(c, s) \/ ReopenRefused(c)
  /\ UNCHANGED <<endpointVars, fenceFlags, life, creator, cancelled, ticketVars, waitVars,
                 link, gap, shut, authLoop, sessionVars, hostVars>>

(* The unlocked Resize of the claimed terminal; if it fails, the session   *)
(* is closed and the reopen refused.                                       *)
ReopenResizes(c) ==
  /\ reader[c] = "resize"
  /\ \/ Become(c, "replay") /\ UNCHANGED toClose
     \/ /\ Become(c, "rejecting")
        /\ toClose' = [toClose EXCEPT ![Reader(c)] = {target[c]}]
  /\ UNCHANGED <<endpointVars, registryVars, ticketVars, closingNow, linkVars, downVars,
                 target, authLoop, sessionVars, hostVars>>

ReopenRejected(c) ==
  /\ reader[c] = "rejecting" /\ toClose[Reader(c)] = {}
  /\ ReaderFails(c, FALSE)
  /\ UNCHANGED <<endpointVars, registryVars, ticketVars, waitVars, linkVars, shut,
                 target, authLoop, sessionVars, hostVars>>

(* replay(): before each frame the lock is taken to see that the session   *)
(* is still ours.  Once history_end is out the loop catches up with what   *)
(* was captured meanwhile; it ends under the lock, when nothing is left,   *)
(* by letting the copier send, or gives up when the bytes were evicted.    *)
ReplayChecks(c) ==
  LET s == target[c]
  IN  /\ reader[c] = "replay"
      /\ \/ /\ Replays(c, s)
            /\ Become(c, "sending")
            /\ UNCHANGED replaying
         \/ /\ ~Replays(c, s)
            /\ Become(c, "release")
            /\ UNCHANGED replaying
         \/ /\ Replays(c, s) /\ wire[c] = "OPEN"
            /\ \/ replaying' = [replaying EXCEPT ![s] = FALSE] /\ Become(c, "idle")
               \/ Become(c, "release") /\ UNCHANGED replaying
      /\ UNCHANGED <<endpointVars, fenceFlags, life, creator, owner, detached, cancelled,
                     ticketVars, waitVars, linkVars, downVars, target, authLoop,
                     sessionVars, hostVars>>

ReplayFrame(w) ==
  CASE w = "REOPENING" -> {"session_reopened"}
    [] w = "REPLAYING" -> {"history_begin", "history_chunk", "history_end"}
    [] OTHER           -> {"terminal_output"}

ReplaySends(c) ==
  /\ reader[c] = "sending"
  /\ \E m \in ReplayFrame(wire[c]) :
       \/ Written(c, m) /\ Become(c, "replay")
       \/ SendFails(c, m) /\ Become(c, "release")
  /\ UNCHANGED <<endpointVars, registryVars, ticketVars, waitVars, destroy, failOnce,
                 target, authLoop, sessionVars, hostVars>>

(* Mutant: the error path does not release the claim.                      *)
ReopenForgotten(c) ==
  /\ reader[c] = "release"
  /\ Become(c, "broken")
  /\ UNCHANGED <<endpointVars, registryVars, ticketVars, waitVars, linkVars, downVars,
                 target, authLoop, sessionVars, hostVars>>

(* releaseReopen, and the error that ends the read loop.                   *)
ReopenReleased(c) ==
  /\ reader[c] = "release"
  /\ Release({s \in {target[c]} : Replays(c, s)})
  /\ Become(c, "broken")
  /\ UNCHANGED <<endpointVars, fenceFlags, life, creator, cancelled, ticketVars, waitVars,
                 linkVars, downVars, target, authLoop, sessionVars, hostVars>>

-----------------------------------------------------------------------------
(* Time: a credential reaches the end of its life.  The authorization loop *)
(* of each of its connections and the timer of each of its sessions fire.  *)
CredentialExpires(k) ==
  /\ k \in Expirable \ expired
  /\ expired' = expired \cup {k}
  /\ UNCHANGED <<endpointClosed, endpointRevoked, registryVars, ticketVars, waitVars,
                 linkVars, downVars, readerVars, authLoop, sessionVars, hostVars>>

AuthorizationEnds(c) ==
  /\ authLoop[c] = "armed" /\ link[c] # "NEW" /\ ~IsDone(c) /\ ~InTime(c)
  /\ authLoop' = [authLoop EXCEPT ![c] = "expiring"]
  /\ toClose' = [toClose EXCEPT ![Authorization(c)] = ExpiredSessions(c)]
  /\ UNCHANGED <<endpointVars, registryVars, ticketVars, closingNow, linkVars, downVars,
                 readerVars, sessionVars, hostVars>>

AuthorizationFails(c) ==
  /\ authLoop[c] = "expiring" /\ toClose[Authorization(c)] = {}
  /\ authLoop' = [authLoop EXCEPT ![c] = "finished"]
  /\ StartFail(c, FALSE)
  /\ UNCHANGED <<endpointVars, registryVars, ticketVars, waitVars, linkVars, shut,
                 readerVars, sessionVars, hostVars>>

(* Mutant: only an attached session is closed.                             *)
AttachedSessionExpires(s) ==
  /\ expirer[s] = "armed" /\ life[s] = "active" /\ CredentialOf[creator[s]] \in expired
  /\ owner[s] # NoConnection
  /\ expirer' = [expirer EXCEPT ![s] = "closing"]
  /\ toClose' = [toClose EXCEPT ![Expire(s)] = {s}]
  /\ UNCHANGED <<endpointVars, registryVars, ticketVars, closingNow, linkVars, downVars,
                 readerVars, authLoop, copier, sendTo, hostVars>>

(* expireManagedCredential: the timer, and its look under the lock at      *)
(* whether the session is still to be closed.  A goroutine whose session   *)
(* is done first returns and changes nothing; it stays "armed" here.       *)
SessionExpires(s) ==
  /\ expirer[s] = "armed" /\ life[s] = "active" /\ CredentialOf[creator[s]] \in expired
  /\ expirer' = [expirer EXCEPT ![s] = "closing"]
  /\ toClose' = [toClose EXCEPT ![Expire(s)] = {s}]
  /\ UNCHANGED <<endpointVars, registryVars, ticketVars, closingNow, linkVars, downVars,
                 readerVars, authLoop, copier, sendTo, hostVars>>

ExpirerEnds(s) ==
  /\ expirer[s] = "closing" /\ toClose[Expire(s)] = {}
  /\ expirer' = [expirer EXCEPT ![s] = "finished"]
  /\ UNCHANGED <<endpointVars, registryVars, ticketVars, waitVars, linkVars, downVars,
                 readerVars, authLoop, copier, sendTo, hostVars>>

-----------------------------------------------------------------------------
(* copyOutput.  A chunk is appended to the history and its receiver read   *)
(* under the lock; it is sent after the lock was given up.                 *)
CopyReads(s) ==
  /\ copier[s] = "reading" /\ life[s] = "active"
  /\ owner[s] # NoConnection /\ ~replaying[s]
  /\ copier' = [copier EXCEPT ![s] = "sending"]
  /\ sendTo' = [sendTo EXCEPT ![s] = owner[s]]
  /\ UNCHANGED <<endpointVars, registryVars, ticketVars, waitVars, linkVars, downVars,
                 readerVars, authLoop, expirer, hostVars>>

CopySends(s) ==
  /\ copier[s] = "sending"
  /\ \/ /\ Written(sendTo[s], "terminal_output")
        /\ copier' = [copier EXCEPT ![s] = "reading"]
        /\ sendTo' = [sendTo EXCEPT ![s] = NoConnection]
     \/ /\ SendFails(sendTo[s], "terminal_output")
        /\ copier' = [copier EXCEPT ![s] = "refused"]
        /\ UNCHANGED sendTo
  /\ UNCHANGED <<endpointVars, registryVars, ticketVars, waitVars, destroy, failOnce,
                 readerVars, authLoop, expirer, hostVars>>

(* Mutant: whoever owns the session by now loses it.                       *)
CopyDetachesAnyone(s) ==
  /\ copier[s] = "refused"
  /\ Release({s1 \in {s} : life[s] = "active"})
  /\ copier' = [copier EXCEPT ![s] = "reading"]
  /\ sendTo' = [sendTo EXCEPT ![s] = NoConnection]
  /\ UNCHANGED <<endpointVars, fenceFlags, life, creator, cancelled, ticketVars, waitVars,
                 linkVars, downVars, readerVars, authLoop, expirer, hostVars>>

(* detachAfterTransportSendFailure, whatever the send failed for.          *)
CopyDetaches(s) ==
  /\ copier[s] = "refused"
  /\ Release({s1 \in {s} : life[s] = "active" /\ owner[s] = sendTo[s]})
  /\ copier' = [copier EXCEPT ![s] = "reading"]
  /\ sendTo' = [sendTo EXCEPT ![s] = NoConnection]
  /\ UNCHANGED <<endpointVars, fenceFlags, life, creator, cancelled, ticketVars, waitVars,
                 linkVars, downVars, readerVars, authLoop, expirer, hostVars>>

(* The process exits, the terminal was closed, the session is fenced when  *)
(* the chunk should be appended, or its offsets are used up.               *)
CopyEnds(s) ==
  /\ copier[s] = "reading"
  /\ life[s] = "active" => "exit" \in Inputs[creator[s]]
  /\ copier' = [copier EXCEPT ![s] = "closing"]
  /\ toClose' = [toClose EXCEPT ![Copy(s)] = {s}]
  /\ UNCHANGED <<endpointVars, registryVars, ticketVars, closingNow, linkVars, downVars,
                 readerVars, authLoop, sendTo, expirer, hostVars>>

CopyStops(s) ==
  /\ copier[s] = "closing" /\ toClose[Copy(s)] = {}
  /\ copier' = [copier EXCEPT ![s] = "stopped"]
  /\ UNCHANGED <<endpointVars, registryVars, ticketVars, waitVars, linkVars, downVars,
                 readerVars, authLoop, sendTo, expirer, hostVars>>


-----------------------------------------------------------------------------
(* Closing a session.  closeManaged fences it and then finishes the        *)
(* ticket: the first closer closes the terminal, takes the session off the *)
(* map, tells the owner and closes closeDone; every other waits for that.  *)
(* RevokeCredential and Close fence a whole batch before they finish any.  *)

(* g has reached the point where it closes, or waits for, its sessions.    *)
MayClose(g) ==
  /\ \A k \in Credentials : g = Revoke(k) => revoker[k] = "finishing"
  /\ g = Stop => stopper = "finishing"

CloseBegins(g, s) ==
  /\ s \in toClose[g] /\ closingNow[g] = NoSession /\ MayClose(g)
  /\ closingNow' = [closingNow EXCEPT ![g] = s]
  /\ Fence(g, {s}, TRUE)
  /\ UNCHANGED <<endpointVars, fenceFlags, creator, detached, replaying, cancelled,
                 toClose, linkVars, downVars, readerVars, authLoop, sessionVars,
                 hostVars>>

(* terminal.Close returned, however it went; the map entry is deleted.     *)
CloseRemoves(s) ==
  /\ life[s] = "fenced" /\ closingNow[closer[s]] = s
  /\ life' = [life EXCEPT ![s] = "removed"]
  /\ UNCHANGED <<endpointVars, fenceFlags, creator, attachVars, cancelled, ticketVars,
                 waitVars, linkVars, downVars, readerVars, authLoop, sessionVars,
                 hostVars>>

(* The owner is told only if its session state is OPEN, a state read       *)
(* before the frame is sent.                                               *)
CloseLooks(s) ==
  /\ life[s] = "removed"
  /\ life' = [life EXCEPT ![s] =
                IF notifyTo[s] \in Connections /\ wire[notifyTo[s]] = "OPEN"
                THEN "notifying" ELSE "done"]
  /\ UNCHANGED <<endpointVars, fenceFlags, creator, attachVars, cancelled, ticketVars,
                 waitVars, linkVars, downVars, readerVars, authLoop, sessionVars,
                 hostVars>>

CloseNotifies(s) ==
  /\ life[s] = "notifying"
  /\ life' = [life EXCEPT ![s] = "done"]
  /\ Written(notifyTo[s], "session_closed") \/ SendFails(notifyTo[s], "session_closed")
  /\ UNCHANGED <<endpointVars, fenceFlags, creator, attachVars, cancelled, ticketVars,
                 waitVars, destroy, failOnce, readerVars, authLoop, sessionVars, hostVars>>

(* Mutant: closeDone is never closed; only the closer itself goes on.      *)
CloserReturned(g) ==
  LET s == closingNow[g]
  IN  /\ s # NoSession /\ life[s] = "done" /\ closer[s] = g
      /\ toClose' = [toClose EXCEPT ![g] = @ \ {s}]
      /\ closingNow' = [closingNow EXCEPT ![g] = NoSession]
      /\ UNCHANGED <<endpointVars, registryVars, ticketVars, linkVars, downVars,
                     readerVars, authLoop, sessionVars, hostVars>>

(* closeDone is closed: the closer, and everyone who waited, goes on.      *)
CloseReturned(g) ==
  LET s == closingNow[g]
  IN  /\ s # NoSession /\ life[s] = "done"
      /\ toClose' = [toClose EXCEPT ![g] = @ \ {s}]
      /\ closingNow' = [closingNow EXCEPT ![g] = NoSession]
      /\ UNCHANGED <<endpointVars, registryVars, ticketVars, linkVars, downVars,
                     readerVars, authLoop, sessionVars, hostVars>>

-----------------------------------------------------------------------------
(* RevokeCredential: the endpoint's own list and a snapshot of the         *)
(* connections; the registry's fence; fail() on each connection of the     *)
(* credential in turn; only then are the close tickets finished.           *)
Registered(c) == link[c] # "NEW" /\ ~IsDone(c)

RevokeMarks(k) ==
  /\ k \in Revocable /\ revoker[k] = "idle"
  /\ revoker' = [revoker EXCEPT ![k] = "marked"]
  /\ endpointRevoked' = endpointRevoked \cup {k}
  /\ revokeSnapshot' = [revokeSnapshot EXCEPT ![k] =
                          {c \in Connections : Registered(c) /\ CredentialOf[c] = k}]
  /\ UNCHANGED <<endpointClosed, expired, registryVars, ticketVars, waitVars, linkVars,
                 downVars, readerVars, authLoop, sessionVars, revoking, stopper,
                 stopSnapshot>>

RevokeFences(k) ==
  /\ revoker[k] = "marked"
  /\ revoker' = [revoker EXCEPT ![k] = "failing"]
  /\ registryRevoked' = registryRevoked \cup {k}
  /\ toClose' = [toClose EXCEPT ![Revoke(k)] = SessionsOf(k)]
  /\ Fence(Revoke(k), SessionsOf(k), FALSE)
  /\ UNCHANGED <<endpointVars, shuttingDown, creator, detached, replaying, cancelled,
                 closingNow, linkVars, downVars, readerVars, authLoop, sessionVars,
                 revokeSnapshot, revoking, stopper, stopSnapshot>>

(* fail() by the revoker; if another goroutine is in it, the revoker waits. *)
RevokeFails(k, c) ==
  /\ revoker[k] = "failing" /\ revoking[k] = NoConnection /\ c \in revokeSnapshot[k]
  /\ revoking' = [revoking EXCEPT ![k] = c]
  /\ StartFail(c, TRUE)
  /\ UNCHANGED <<endpointVars, registryVars, ticketVars, waitVars, linkVars, shut,
                 readerVars, authLoop, sessionVars, revoker, revokeSnapshot, stopper,
                 stopSnapshot>>

RevokeFailed(k) ==
  LET c == revoking[k]
  IN  /\ c # NoConnection /\ FailReturned(c)
      /\ revoking' = [revoking EXCEPT ![k] = NoConnection]
      /\ revokeSnapshot' = [revokeSnapshot EXCEPT ![k] = @ \ {c}]
      /\ UNCHANGED <<endpointVars, registryVars, ticketVars, waitVars, linkVars, downVars,
                     readerVars, authLoop, sessionVars, revoker, stopper, stopSnapshot>>

RevokeProceeds(k) ==
  /\ \/ /\ revoker[k] = "failing" /\ revokeSnapshot[k] = {}
        /\ revoker' = [revoker EXCEPT ![k] = "finishing"]
     \/ /\ revoker[k] = "finishing" /\ toClose[Revoke(k)] = {}
        /\ revoker' = [revoker EXCEPT ![k] = "done"]
  /\ UNCHANGED <<endpointVars, registryVars, ticketVars, waitVars, linkVars, downVars,
                 readerVars, authLoop, sessionVars, revokeSnapshot, revoking, stopper,
                 stopSnapshot>>

(* Endpoint.Close: no new connections; the registry shuts down and its     *)
(* tickets are finished; then each connection is shut down.                *)
StopMarks ==
  /\ MayStop /\ stopper = "idle"
  /\ stopper' = "marked"
  /\ endpointClosed' = TRUE
  /\ stopSnapshot' = {c \in Connections : Registered(c)}
  /\ UNCHANGED <<endpointRevoked, expired, registryVars, ticketVars, waitVars, linkVars,
                 downVars, readerVars, authLoop, sessionVars, revoker, revokeSnapshot,
                 revoking>>

(* Mutant: the tickets are dropped.                                        *)
StopFencesDroppingTickets ==
  LET all == {s \in Sessions : InActive(s)}
  IN  /\ stopper = "marked"
      /\ stopper' = "finishing"
      /\ shuttingDown' = TRUE
      /\ cancelled' = [s \in Sessions |-> cancelled[s] \/ life[s] = "pending"]
      /\ Fence(Stop, all, FALSE)
      /\ UNCHANGED <<endpointVars, registryRevoked, creator, detached, replaying,
                     waitVars, linkVars, downVars, readerVars, authLoop, sessionVars,
                     revoker, revokeSnapshot, revoking, stopSnapshot>>

(* sessions.shutdown() up to its unlock.                                   *)
StopFences ==
  LET all == {s \in Sessions : InActive(s)}
  IN  /\ stopper = "marked"
      /\ stopper' = "finishing"
      /\ shuttingDown' = TRUE
      /\ cancelled' = [s \in Sessions |-> cancelled[s] \/ life[s] = "pending"]
      /\ toClose' = [toClose EXCEPT ![Stop] = all]
      /\ Fence(Stop, all, FALSE)
      /\ UNCHANGED <<endpointVars, registryRevoked, creator, detached, replaying,
                     closingNow, linkVars, downVars, readerVars, authLoop, sessionVars,
                     revoker, revokeSnapshot, revoking, stopSnapshot>>

StopProceeds ==
  /\ \/ /\ stopper = "finishing" /\ toClose[Stop] = {}
        /\ stopper' = "shutting"
     \/ /\ stopper = "shutting" /\ \A c \in stopSnapshot : shut[c] = "down"
        /\ stopper' = "done"
  /\ UNCHANGED <<endpointVars, registryVars, ticketVars, waitVars, linkVars, downVars,
                 readerVars, authLoop, sessionVars, revoker, revokeSnapshot, revoking,
                 stopSnapshot>>

StopShutsDown(c) ==
  /\ stopper = "shutting" /\ c \in stopSnapshot /\ shut[c] = "up"
  /\ StartShutdown(c, "failed")
  /\ UNCHANGED <<endpointVars, registryVars, ticketVars, waitVars, linkVars, destroy,
                 failOnce, readerVars, authLoop, sessionVars, hostVars>>


-----------------------------------------------------------------------------
(* What happens to the agent: clients, the network, time, the host.        *)
Environment ==
  \/ \E c \in Connections :
       \/ Connect(c)
       \/ "lost" \in Inputs[c] /\ ConnectionLost(c)
       \/ "timeout" \in Inputs[c] /\ RecoverableFailure(c)
       \/ "rejected" \in Inputs[c] /\ ReceiveRejected(c)
       \/ "error" \in Inputs[c] /\ ReceiveError(c)
       \/ "ping" \in Inputs[c] /\ ReceivePing(c)
       \/ "detach" \in Inputs[c] /\ ReceiveDetach(c)
       \/ "close" \in Inputs[c] /\ ReceiveClose(c)
       \/ "open" \in Inputs[c] /\ \E s \in Sessions : ReceiveOpen(c, s)
       \/ "reopen" \in Inputs[c] /\ \E s \in Sessions : ReceiveReopen(c, s)
  \/ \E k \in Credentials : CredentialExpires(k) \/ RevokeMarks(k)
  \/ StopMarks

(* The agent's own goroutines.                                             *)
OpenSettles(c) == OpenFails(c) \/ OpenRegisters(c)

ReadLoop(c) ==
  \/ Reply(c) \/ ReaderBreaks(c) \/ ReaderEnds(c) \/ HandleDetach(c) \/ HandleClose(c)
  \/ CloseReturns(c) \/ ExpiredFails(c) \/ ReopenResizes(c) \/ ReopenRejected(c)
  \/ ReplayChecks(c) \/ ReplaySends(c) \/ ReopenReleased(c)

Teardown(c) == FailReports(c) \/ FailShutsDown(c) \/ Disconnected(c) \/ ShutdownEnds(c)

AuthorizationLoop(c) == AuthorizationEnds(c) \/ AuthorizationFails(c)

CopyOutput(s) == CopyReads(s) \/ CopySends(s) \/ CopyDetaches(s) \/ CopyEnds(s) \/ CopyStops(s)

ExpireManaged(s) == SessionExpires(s) \/ ExpirerEnds(s)

FinishClose(s) == CloseRemoves(s) \/ CloseLooks(s) \/ CloseNotifies(s)

Closing(g) == (\E s \in Sessions : CloseBegins(g, s)) \/ CloseReturned(g)

RevokeCredential(k) ==
  \/ RevokeFences(k) \/ RevokeFailed(k) \/ RevokeProceeds(k)
  \/ \E c \in Connections : RevokeFails(k, c)

StopEndpoint == StopFences \/ StopProceeds \/ \E c \in Connections : StopShutsDown(c)

Agent ==
  \/ \E c \in Connections :
       OpenSettles(c) \/ ReadLoop(c) \/ HandleExpired(c) \/ Teardown(c) \/ AuthorizationLoop(c)
  \/ \E s \in Sessions : CopyOutput(s) \/ ExpireManaged(s) \/ FinishClose(s)
  \/ \E g \in Goroutines : Closing(g)
  \/ \E k \in Credentials : RevokeCredential(k)
  \/ StopEndpoint

Next == Environment \/ Agent

Spec == Init /\ [][Next]_vars

(* Every goroutine that can run does.  adapter.Open is only sure to return *)
(* once its context is cancelled, a Read once its terminal is closed; a    *)
(* frame that arrives after the deadline is the client's to send.          *)
Fairness ==
  /\ \A c \in Connections :
       /\ WF_vars(ReadLoop(c) \/ (reader[c] # "idle" /\ HandleExpired(c)))
       /\ WF_vars(reader[c] = "opening" /\ cancelled[target[c]] /\ OpenSettles(c))
       /\ WF_vars(Teardown(c))
       /\ WF_vars(AuthorizationLoop(c))
  /\ \A s \in Sessions :
       /\ WF_vars(CopySends(s) \/ CopyDetaches(s) \/ CopyStops(s))
       /\ WF_vars(life[s] # "active" /\ CopyEnds(s))
       /\ WF_vars(ExpireManaged(s))
       /\ WF_vars(FinishClose(s))
  /\ \A g \in Goroutines : WF_vars(Closing(g))
  /\ \A k \in Credentials : WF_vars(RevokeCredential(k))
  /\ WF_vars(StopEndpoint)

FairSpec == Spec /\ Fairness

-----------------------------------------------------------------------------
(* The read loop knows the session of the frame it works on: as soon as a  *)
(* frame named one, the wire state is no longer NONE.                      *)
NamesTarget ==
  \A c \in Connections : reader[c] \notin {"expiring", "broken", "gone"} =>
    \/ target[c] \in Sessions
    \/ wire[c] = "NONE" /\ reader[c] \in {"idle", "pong"}

(* A running session is either held by one connection or detached and      *)
(* open to reopen_session; it never is both or neither (the guards of      *)
(* owned() and beginReopen() would each refuse it for ever).               *)
HeldOrDetached ==
  \A s \in Sessions : life[s] = "active" =>
    /\ owner[s] = NoConnection <=> detached[s]
    /\ replaying[s] => owner[s] # NoConnection

(* Whoever holds a session came with the credential and from the device of *)
(* the connection that opened it.                                          *)
HolderIsCreator ==
  \A s \in Sessions, c \in Connections : owner[s] = c =>
    /\ CredentialOf[c] = CredentialOf[creator[s]]
    /\ DeviceOf[c] = DeviceOf[creator[s]]

(* Once the registry knows a credential to be revoked, or that the agent   *)
(* stops, no session of it runs: not one whose terminal was still being    *)
(* created, not one being reopened, and none ever again.                   *)
NothingOutlivesTheFence ==
  \A s \in Sessions : life[s] = "active" =>
    ~shuttingDown /\ CredentialOf[creator[s]] \notin registryRevoked

(* A connection that is gone holds nothing, so no session is out of reach  *)
(* of both its client and a reopen; while it goes it holds only what its   *)
(* own shutdown is about to close.                                         *)
GoneConnectionsHoldNothing ==
  \A s \in Sessions, c \in Connections : owner[s] = c =>
    /\ shut[c] # "down"
    /\ shut[c] = "sweeping" => s \in toClose[Shutdown(c)]

(* A connection carries one session in its life.                           *)
OneSessionPerConnection ==
  \A s1, s2 \in Sessions :
    owner[s1] = owner[s2] /\ owner[s1] # NoConnection => s1 = s2

(* A session marked as replaying has a read loop at work on its replay; if *)
(* it had none, its output would go nowhere and no reopen would be let in. *)
ReplayHasReader ==
  \A s \in Sessions, c \in Connections :
    life[s] = "active" /\ replaying[s] /\ owner[s] = c =>
      /\ target[c] = s
      /\ reader[c] \in {"resize", "rejecting", "replay", "sending", "release"}

(* Once Close has finished the sessions it fenced, no terminal runs: what  *)
(* it did not fence another goroutine had closed already.  When it         *)
(* returns, no connection is left either.                                  *)
StopIsClean ==
  /\ stopper \in {"shutting", "done"} =>
       \A s \in Sessions : life[s] \notin {"active", "fenced"}
  /\ stopper = "done" => \A c \in Connections : ~Registered(c)

-----------------------------------------------------------------------------
(* What makes the properties above inductive, together with NamesTarget.   *)

(* A terminal being created is nobody's but its read loop's.               *)
OpeningIsPending ==
  \A c \in Connections : reader[c] = "opening" =>
    life[target[c]] = "pending" /\ creator[target[c]] = c

(* Only a running session is held; one that was never registered was never *)
(* attached or replayed either, and only a fenced one has a closer.        *)
OnlyRunningIsHeld ==
  \A s \in Sessions :
    /\ life[s] # "active" => owner[s] = NoConnection
    /\ life[s] \in {"unused", "pending"} => ~detached[s] /\ ~replaying[s]
    /\ life[s] \in {"unused", "pending", "failed", "active"} => closer[s] = NoCloser

(* A connection that holds a session asked for it, by name.                *)
HolderAsked ==
  \A c \in Connections :
    /\ reader[c] \notin {"idle", "pong", "expiring", "broken", "gone"} => wire[c] # "NONE"
    /\ \A s \in Sessions : owner[s] = c => wire[c] # "NONE" /\ target[c] = s

(* A reopen refused after it claimed its session sees the session closed.  *)
RejectingCloses ==
  \A c \in Connections :
    /\ reader[c] \in {"resize", "rejecting"} => life[target[c]] \notin {"unused", "pending"}
    /\ reader[c] = "rejecting" /\ life[target[c]] = "active" =>
         target[c] \in toClose[Reader(c)]

IInv ==
  /\ TypeOK /\ NamesTarget
  /\ HeldOrDetached /\ HolderIsCreator /\ NothingOutlivesTheFence
  /\ GoneConnectionsHoldNothing /\ OneSessionPerConnection /\ ReplayHasReader
  /\ OpeningIsPending /\ OnlyRunningIsHeld /\ HolderAsked /\ RejectingCloses

(* Nothing has happened on a connection that has not connected yet, and    *)
(* nobody has it in a snapshot.                                            *)
NewIsIdle ==
  \A c \in Connections : link[c] = "NEW" =>
    /\ shut[c] = "up" /\ failOnce[c] = "idle" /\ authLoop[c] = "armed" /\ reader[c] = "idle"
    /\ c \notin stopSnapshot /\ \A k \in Credentials : c \notin revokeSnapshot[k]

(* What Close has not seen when it took its snapshots cannot come any more,*)
(* and what it has seen it holds on to until it is closed.                 *)
StopSeesAll ==
  /\ stopper # "idle" =>
       endpointClosed /\ \A c \in Connections : Registered(c) => c \in stopSnapshot
  /\ stopper \in {"finishing", "shutting", "done"} => shuttingDown
  /\ stopper = "finishing" => \A s \in Sessions : InActive(s) => s \in toClose[Stop]

-----------------------------------------------------------------------------
(* A connection loses a running session only by its own doing: its detach  *)
(* or released replay, its own shutdown, an output frame that failed on    *)
(* it.  In particular a late disconnect, or a late send failure, of an     *)
(* older owner leaves the newer one alone.                                 *)
OnlyTheHolderLetsGo ==
  [][\A s \in Sessions, c \in Connections :
       owner[s] = c /\ owner'[s] # c /\ life'[s] = "active" =>
         /\ owner'[s] = NoConnection
         /\ \/ reader[c] \in {"detach", "release"} /\ target[c] = s
            \/ shut[c] \in {"lost", "failed"} /\ shut'[c] = "sweeping"
            \/ copier[s] = "refused" /\ sendTo[s] = c]_vars

(* Close, revocation, expiry, process exit and shutdown race for a session *)
(* and one of them closes it: its closer never changes and it never comes  *)
(* back.                                                                   *)
ClosedOnce ==
  [][\A s \in Sessions :
       /\ closer[s] # NoCloser => closer'[s] = closer[s]
       /\ life[s] \in {"fenced", "removed", "notifying", "done"} =>
            life'[s] \in {"fenced", "removed", "notifying", "done"}]_vars

-----------------------------------------------------------------------------
(* The life of a session (SessionLife): it begins when the terminal is     *)
(* registered, and is over for the client as soon as it is fenced.         *)
Over == {"fenced", "removed", "notifying", "done"}

Phase(s) ==
  IF life[s] = "active" THEN "running" ELSE IF life[s] \in Over THEN "closed" ELSE "absent"

Life == INSTANCE SessionLife WITH
  phase <- [s \in Sessions |-> Phase(s)],
  creator <- [s \in Sessions |-> IF Phase(s) = "absent" THEN NoConnection ELSE creator[s]],
  holder <- owner,
  barred <- IF shuttingDown THEN Credentials ELSE registryRevoked

(* However detaches, takeovers, losses, closes, revocations and the stop of*)
(* the agent interleave, a session goes from hand to hand as promised: it  *)
(* is left before it is taken, taken only by its own, and over at once when*)
(* its credential or the agent is.                                         *)
SessionsLiveAsPromised == Life!Spec

-----------------------------------------------------------------------------
(* Whatever closes a session gets it closed, a connection that goes down   *)
(* gets all the way down, and so whoever waits for either goes on.         *)
ClosesFinish ==
  /\ \A s \in Sessions : life[s] = "fenced" ~> life[s] = "done"
  /\ \A c \in Connections : IsDone(c) ~> shut[c] = "down"

(* A terminal that is still being created when its connection goes, or the *)
(* agent stops, does not stay pending.                                     *)
OpensResolve ==
  \A s \in Sessions :
    (life[s] = "pending" /\ (shuttingDown \/ IsDone(creator[s]))) ~> life[s] # "pending"

(* Close returns.                                                          *)
StopFinishes == stopper # "idle" ~> stopper = "done"

(* No session outlives its credential, attached or not.                    *)
ExpiryCloses ==
  \A s \in Sessions :
    (life[s] = "active" /\ CredentialOf[creator[s]] \in expired) ~> life[s] = "done"

-----------------------------------------------------------------------------
(* What the documents say of the agent and its code does not do.           *)

(* "Credential revocation closes attached and detached sessions owned by   *)
(* that credential" (SECURITY-CONTRACT-0.2).                               *)
RevocationCloses ==
  \A s \in Sessions :
    (InActive(s) /\ CredentialOf[creator[s]] \in endpointRevoked) ~> life[s] = "done"

(* "protocol failure requiring teardown ... close the ConPTY process tree" *)
(* (SECURITY-CONTRACT-0.2): a destructive fail() ends the session the      *)
(* connection holds.                                                       *)
ProtocolFailureDestroys ==
  \A s \in Sessions, c \in Connections :
    (owner[s] = c /\ failOnce[c] = "failing" /\ destroy[c]) ~> life[s] = "done"

(* "unexpected transport loss ... detach a running session" (README-0.2):  *)
(* a connection whose transport was lost before anything else failed does  *)
(* not take its session with it.                                           *)
TransportLossDetaches ==
  [][\A c \in Connections :
       shut[c] = "lost" /\ shut'[c] = "sweeping" => toClose'[Shutdown(c)] = {}]_vars

(* "every later frame is exactly the previous value plus one" (README):    *)
(* no frame is written after a number was spent on a refused one.          *)
NoSequenceGap == \A c \in Connections : gap[c] # "sent"

=============================================================================
