--------------------------- MODULE SessionHistory ---------------------------
(***************************************************************************)
(* The output of the agent's sessions: how it is kept for a browser that   *)
(* comes back (internal/endpoint/session.go), evicted, replayed and sent   *)
(* live, and the checks of the wire machine every frame passes on its way  *)
(* out (internal/protocol/machine.go).                                     *)
(*                                                                         *)
(* A chunk is the half-open range of offsets it covers.  Who may hold a    *)
(* session is AgentSessions' business; here a running session without an   *)
(* owner is detached, and a connection that breaks lets go of its session. *)
(***************************************************************************)
EXTENDS ProtocolMachine, Integers, Sequences, FiniteSetsExt

CONSTANTS
  Connections, Sessions,
  MaxTerminalOutput,   \* bytes of one read and of one frame
  MaxSessionHistory,   \* bytes kept for one session
  MaxAgentHistory,     \* bytes kept for all sessions
  MaxSequence,         \* the last offset; bounds the model
  NoConnection, NoSession

ASSUME HistoryAssumption ==
  /\ {MaxTerminalOutput, MaxSessionHistory, MaxAgentHistory, MaxSequence} \subseteq Nat \ {0}
  /\ MaxTerminalOutput <= MaxSessionHistory
  /\ MaxSessionHistory <= MaxAgentHistory
  /\ NoConnection \notin Connections
  /\ NoSession \notin Sessions

VARIABLES
  \* the registry (r.mu)
  life, owner, replaying,
  nextOffset,      \* where the next output of a session goes
  history,         \* the entries kept, of every session
  historyBytes,    \* managed.historyBytes
  agentBytes,      \* r.historyBytes
  \* the copier of each session
  copier, chunk, sendTo,
  \* each connection
  up,              \* its transport works and c.done is open
  machine,         \* the agent's wire machine
  browser,         \* the browser's, and whether it has refused a frame
  reader,          \* where the read loop stands
  target,          \* the session it opened or reopens
  queue, cursor,   \* replay(): the frames it still has to send, and `cursor`
  received         \* the offsets the browser was given

registryVars == <<life, owner, replaying>>
historyVars  == <<nextOffset, history, historyBytes, agentBytes>>
copierVars   == <<copier, chunk, sendTo>>
machines     == <<machine, browser>>
replayVars   == <<reader, target, queue, cursor>>
vars == <<registryVars, historyVars, copierVars, up, machines, replayVars, received>>

(* The browser's own checks of the frames it is sent.                      *)
Browser == INSTANCE ClientMachine WITH
  MaxHistory <- MaxSessionHistory, MaxOffset <- MaxSequence

-----------------------------------------------------------------------------
(* The history: entries [session, from, to, age], ordered by age.          *)

NoChunk == [from |-> 0, to |-> 0]

Length(entry) == entry.to - entry.from

(* The bytes of entries, each an offset in an entry, and how many they are.*)
Contents(entries) == UNION {{e.age} \X (e.from .. e.to - 1) : e \in entries}
Bytes(entries) == Cardinality(Contents(entries))
Of(entries, s) == {e \in entries : e.session = s}

(* Where the history of a session begins: at its front, or at its end when *)
(* nothing is kept.                                                        *)
Start(entries, s) ==
  IF Of(entries, s) = {} THEN nextOffset[s] ELSE Min({e.from : e \in Of(entries, s)})

(* The loops around evictEntryBytesLocked: `count` bytes go, the oldest    *)
(* first, and the entry the count ends in keeps its rest.                  *)
Evicted(entries, count) ==
  LET Older(e) == Bytes({x \in entries : x.age < e.age})
  IN  {[e EXCEPT !.from = Max({@, @ + count - Older(e)})] :
         e \in {x \in entries : Older(x) + Length(x) > count}}

(* Mutant of Excess: one byte too many is evicted.                         *)
ExcessEager(bytes, limit) == IF bytes > limit THEN bytes - limit + 1 ELSE 0

Excess(bytes, limit) == Max({0, bytes - limit})

PushBack(s, n) ==
  history \cup {[session |-> s, from |-> nextOffset[s], to |-> nextOffset[s] + n,
                 age |-> IF history = {} THEN 1 ELSE 1 + Max({e.age : e \in history})]}

AppendHistory(s, n) ==
  LET pushed == PushBack(s, n)
      over   == Excess(historyBytes[s] + n, MaxSessionHistory)
      kept   == (pushed \ Of(pushed, s)) \cup Evicted(Of(pushed, s), over)
      total  == agentBytes + n - over
      final  == Evicted(kept, Excess(total, MaxAgentHistory))
      Lost(t) == Bytes(Of(kept, t)) - Bytes(Of(final, t))
  IN  /\ nextOffset' = [nextOffset EXCEPT ![s] = @ + n]
      /\ history' = final
      /\ historyBytes' = [t \in Sessions |->
           historyBytes[t] + (IF t = s THEN n - over ELSE 0) - Lost(t)]
      /\ agentBytes' = total - Excess(total, MaxAgentHistory)

(* Mutant of Close: the agent's count keeps what the session had.          *)
CloseUncounted(s) ==
  /\ life' = [life EXCEPT ![s] = "closed"]
  /\ owner' = [owner EXCEPT ![s] = NoConnection]
  /\ history' = history \ Of(history, s)
  /\ historyBytes' = [historyBytes EXCEPT ![s] = 0]
  /\ UNCHANGED <<replaying, nextOffset, agentBytes>>

(* fenceManagedLocked: closed, without an owner and without its history.   *)
Close(s) ==
  /\ life' = [life EXCEPT ![s] = "closed"]
  /\ owner' = [owner EXCEPT ![s] = NoConnection]
  /\ history' = history \ Of(history, s)
  /\ historyBytes' = [historyBytes EXCEPT ![s] = @ - Bytes(Of(history, s))]
  /\ agentBytes' = agentBytes - Bytes(Of(history, s))
  /\ UNCHANGED <<replaying, nextOffset>>

(* releaseReopen, detach and the like: if c holds it, it is detached.      *)
LetGo(c, s) ==
  /\ owner' = [owner EXCEPT ![s] = IF owner[s] = c THEN NoConnection ELSE @]
  /\ replaying' = [replaying EXCEPT ![s] = @ /\ owner[s] # c]
  /\ UNCHANGED life

-----------------------------------------------------------------------------
(* The wire machine.  A frame is [type, session, from, to].                *)

Frame(type, s, from, to) == [type |-> type, session |-> s, from |-> from, to |-> to]

(* applySessionSemantics.  truncated is from > 0 wherever a history begins.*)
SemanticsAllow(m, f) ==
  /\ m.sessionID \in {NoSession, f.session}
  /\ f.type = "history_begin" =>
       /\ ~m.historyBegun
       /\ f.from <= f.to
       /\ f.to - f.from <= MaxSessionHistory
       /\ f.to = m.nextOutput
  /\ f.type = "history_chunk" =>
       /\ m.historyBegun
       /\ f.from = m.historyCursor
       /\ f.to - f.from <= m.historyEnd - m.historyCursor
  /\ f.type = "history_end" =>
       /\ m.historyBegun
       /\ f.to = m.historyEnd
       /\ m.historyCursor = m.historyEnd
  /\ f.type = "terminal_output" =>
       /\ f.from = m.nextOutput
       /\ f.to <= MaxSequence

SemanticsApplied(m, f) ==
  [m EXCEPT
     !.sessionID = f.session,
     !.nextOutput = IF f.type = "terminal_output" THEN f.to ELSE @,
     !.historyBegun = (@ /\ f.type # "history_end") \/ f.type = "history_begin",
     !.historyCursor = CASE f.type = "history_begin" -> f.from
                         [] f.type = "history_chunk" -> f.to
                         [] OTHER -> @,
     !.historyEnd = IF f.type = "history_begin" THEN f.to ELSE @]

NextStates(m, f) == NextSession("READY", m.Session, "agent", f.type)

(* Machine.Apply: the offsets move before the transition is looked up, and *)
(* stay moved when there is none.                                          *)
Applied(m, f) ==
  IF ~SemanticsAllow(m, f) THEN [m EXCEPT !.sessionID = IF @ = NoSession THEN f.session ELSE @]
  ELSE IF NextStates(m, f) = {} THEN SemanticsApplied(m, f)
  ELSE [SemanticsApplied(m, f) EXCEPT !.Session = CHOOSE next \in NextStates(m, f) : TRUE]

Accepted(m, f) == SemanticsAllow(m, f) /\ NextStates(m, f) # {}

(* send(): Apply, and what was accepted goes out while the transport works.*)
Sent(c, f) == up[c] /\ Accepted(machine[c], f)

CarriesOutput(f) == f.type \in {"history_chunk", "terminal_output"}

(* The browser applies what it is sent, and refuses what it does not       *)
(* expect.                                                                 *)
Takes(b, f) ==
  IF /\ Browser!Accepts(b.states, "agent", f.type, f.session)
     /\ Browser!OffsetsAllowed(b.offsets, f)
  THEN [b EXCEPT !.states = Browser!Advanced(@, "agent", f.type, f.session),
                 !.offsets = Browser!OffsetsApplied(@, f)]
  ELSE [b EXCEPT !.refused = TRUE]

(* A frame of the browser's own.                                           *)
Asks(c, type, s) ==
  browser' = [browser EXCEPT ![c].states = Browser!Advanced(@, "client", type, s)]

Send(c, f) ==
  /\ machine' = [machine EXCEPT ![c] = Applied(@, f)]
  /\ browser' = [browser EXCEPT ![c] = IF Sent(c, f) THEN Takes(@, f) ELSE @]
  /\ received' = [received EXCEPT ![c] =
       IF Sent(c, f) /\ CarriesOutput(f) THEN @ \cup f.from .. f.to - 1 ELSE @]

-----------------------------------------------------------------------------
(* A process and its copier.                                               *)

Running(s) == life[s] = "running"
Live(s) == owner[s] # NoConnection /\ ~replaying[s]

(* Mutant of CopyReads: the whole buffer goes out, not what was read.      *)
CopyReadsWhole(s) ==
  /\ copier[s] = "reading"
  /\ Running(s)
  /\ \E n \in 1..MaxTerminalOutput :
       /\ nextOffset[s] <= MaxSequence - n
       /\ AppendHistory(s, n)
       /\ IF Live(s)
          THEN /\ copier' = [copier EXCEPT ![s] = "sending"]
               /\ chunk' = [chunk EXCEPT ![s] = [from |-> nextOffset[s],
                                                to |-> nextOffset[s] + MaxTerminalOutput]]
               /\ sendTo' = [sendTo EXCEPT ![s] = owner[s]]
          ELSE UNCHANGED copierVars
  /\ UNCHANGED <<registryVars, up, machines, replayVars, received>>

(* copyOutput reads, appends under r.mu and looks who is watching.         *)
CopyReads(s) ==
  /\ copier[s] = "reading"
  /\ Running(s)
  /\ \E n \in 1..MaxTerminalOutput :
       /\ nextOffset[s] <= MaxSequence - n
       /\ AppendHistory(s, n)
       /\ IF Live(s)
          THEN /\ copier' = [copier EXCEPT ![s] = "sending"]
               /\ chunk' = [chunk EXCEPT ![s] = [from |-> nextOffset[s], to |-> nextOffset[s] + n]]
               /\ sendTo' = [sendTo EXCEPT ![s] = owner[s]]
          ELSE UNCHANGED copierVars
  /\ UNCHANGED <<registryVars, up, machines, replayVars, received>>

(* No offset is left for what was read: the session is closed.             *)
CopyExhausts(s) ==
  /\ copier[s] = "reading"
  /\ Running(s)
  /\ \E n \in 1..MaxTerminalOutput : nextOffset[s] > MaxSequence - n
  /\ Close(s)
  /\ copier' = [copier EXCEPT ![s] = "ended"]
  /\ UNCHANGED <<chunk, sendTo, up, machines, replayVars, received>>

(* The session was closed under it: nothing is appended any more.          *)
CopyEnds(s) ==
  /\ copier[s] = "reading"
  /\ life[s] = "closed"
  /\ copier' = [copier EXCEPT ![s] = "ended"]
  /\ UNCHANGED <<registryVars, historyVars, chunk, sendTo, up, machines, replayVars, received>>

OutputFrame(s) == Frame("terminal_output", s, chunk[s].from, chunk[s].to)

CopySends(s) ==
  /\ copier[s] = "sending"
  /\ Send(sendTo[s], OutputFrame(s))
  /\ copier' = [copier EXCEPT ![s] = IF Sent(sendTo[s], OutputFrame(s))
                                     THEN "reading" ELSE "detaching"]
  /\ UNCHANGED <<registryVars, historyVars, chunk, sendTo, up, replayVars>>

(* detachAfterTransportSendFailure *)
CopyDetaches(s) ==
  /\ copier[s] = "detaching"
  /\ LetGo(sendTo[s], s)
  /\ copier' = [copier EXCEPT ![s] = "reading"]
  /\ UNCHANGED <<historyVars, chunk, sendTo, up, machines, replayVars, received>>

CopyOutput(s) == CopyReads(s) \/ CopyExhausts(s) \/ CopyEnds(s) \/ CopySends(s) \/ CopyDetaches(s)

(* Whoever else closes a session: its process ends, its owner, the host.   *)
CloseManaged(s) ==
  /\ Running(s)
  /\ Close(s)
  /\ UNCHANGED <<copierVars, up, machines, replayVars, received>>

-----------------------------------------------------------------------------
(* A connection that opens a session.                                      *)

Holds(c, s) == Running(s) /\ owner[s] = c
Replays(c, s) == Holds(c, s) /\ replaying[s]

(* The session is registered and its copier started before the browser     *)
(* hears of it.                                                            *)
Open(c, s) ==
  /\ reader[c] = "idle"
  /\ up[c]
  /\ life[s] = "none"
  /\ life' = [life EXCEPT ![s] = "running"]
  /\ owner' = [owner EXCEPT ![s] = c]
  /\ copier' = [copier EXCEPT ![s] = "reading"]
  /\ machine' = [machine EXCEPT ![c].Session = "OPENING"]
  /\ Asks(c, "open_session", NoSession)
  /\ reader' = [reader EXCEPT ![c] = "opening"]
  /\ target' = [target EXCEPT ![c] = s]
  /\ UNCHANGED <<replaying, historyVars, chunk, sendTo, up, queue, cursor, received>>

OpenedFrame(c) == Frame("session_opened", target[c], 0, 0)

Opened(c) ==
  /\ reader[c] = "opening"
  /\ Send(c, OpenedFrame(c))
  /\ reader' = [reader EXCEPT ![c] = IF Sent(c, OpenedFrame(c)) THEN "serving" ELSE "ended"]
  /\ UNCHANGED <<registryVars, historyVars, copierVars, up, target, queue, cursor>>

(* The browser detaches from a session it holds, once it is not replayed   *)
(* any more (owned).                                                       *)
Detach(c) ==
  /\ reader[c] = "serving"
  /\ up[c]
  /\ Holds(c, target[c])
  /\ ~replaying[target[c]]
  /\ machine[c].Session = "OPEN"
  /\ LetGo(c, target[c])
  /\ machine' = [machine EXCEPT ![c].Session = "DETACHING"]
  /\ Asks(c, "detach", target[c])
  /\ UNCHANGED <<historyVars, copierVars, up, replayVars, received>>

(* The transport breaks, or fail() begins to shut the connection down.     *)
Breaks(c) ==
  /\ up[c]
  /\ up' = [up EXCEPT ![c] = FALSE]
  /\ UNCHANGED <<registryVars, historyVars, copierVars, machines, replayVars, received>>

(* disconnected() detaches what the connection holds, or closes it.        *)
Disconnected(c) ==
  /\ ~up[c]
  /\ \E s \in Sessions :
       /\ Holds(c, s)
       /\ \/ LetGo(c, s) /\ UNCHANGED historyVars
          \/ Close(s)
  /\ UNCHANGED <<copierVars, up, machines, replayVars, received>>

-----------------------------------------------------------------------------
(* A connection that reopens a session.                                    *)

(* Entries as a list, the oldest first.                                    *)
ByAge(entries) ==
  CHOOSE list \in [1..Cardinality(entries) -> entries] :
    \A i, j \in DOMAIN list : i < j => list[i].age < list[j].age

(* Kept(s, from): the entries that reach beyond `from`, oldest first, cut  *)
(* there, as frames (snapshotLocked, historyRangeLocked).                  *)
Kept(type, s, from) ==
  LET entries == ByAge({e \in Of(history, s) : e.to > from})
  IN  [i \in DOMAIN entries |->
         Frame(type, s, Max({entries[i].from, from}), entries[i].to)]

Contiguous(frames, from, to) ==
  IF frames = <<>> THEN from = to
  ELSE /\ frames[1].from = from
       /\ frames[Len(frames)].to = to
       /\ \A i \in 1..Len(frames) - 1 : frames[i].to = frames[i + 1].from

(* snapshotLocked *)
Snapshot(s) ==
  LET start == Start(history, s)
      end   == nextOffset[s]
  IN  <<Frame("session_reopened", s, 0, 0), Frame("history_begin", s, start, end)>>
        \o Kept("history_chunk", s, start)
        \o <<Frame("history_end", s, end, end)>>

(* Mutant of Reopen: setOutputOffset is not called.                        *)
ReopenUnset(c, s) ==
  /\ reader[c] = "idle"
  /\ up[c]
  /\ Running(s)
  /\ owner[s] = NoConnection
  /\ owner' = [owner EXCEPT ![s] = c]
  /\ replaying' = [replaying EXCEPT ![s] = TRUE]
  /\ machine' = [machine EXCEPT ![c].Session = "REOPENING", ![c].sessionID = s]
  /\ Asks(c, "reopen_session", s)
  /\ reader' = [reader EXCEPT ![c] = "replaying"]
  /\ target' = [target EXCEPT ![c] = s]
  /\ queue' = [queue EXCEPT ![c] = Snapshot(s)]
  /\ cursor' = [cursor EXCEPT ![c] = nextOffset[s]]
  /\ UNCHANGED <<life, historyVars, copierVars, up, received>>

(* beginReopen.  setOutputOffset, on a machine that nobody else uses until *)
(* the replay is over, counts as part of it.                               *)
Reopen(c, s) ==
  /\ reader[c] = "idle"
  /\ up[c]
  /\ Running(s)
  /\ owner[s] = NoConnection
  /\ owner' = [owner EXCEPT ![s] = c]
  /\ replaying' = [replaying EXCEPT ![s] = TRUE]
  /\ machine' = [machine EXCEPT ![c].Session = "REOPENING", ![c].sessionID = s,
                                ![c].nextOutput = nextOffset[s]]
  /\ Asks(c, "reopen_session", s)
  /\ reader' = [reader EXCEPT ![c] = "replaying"]
  /\ target' = [target EXCEPT ![c] = s]
  /\ queue' = [queue EXCEPT ![c] = Snapshot(s)]
  /\ cursor' = [cursor EXCEPT ![c] = nextOffset[s]]
  /\ UNCHANGED <<life, historyVars, copierVars, up, received>>

(* sendReplay looks first, and sends when it has let go of r.mu.           *)
ReplayAllowed(c) ==
  /\ reader[c] = "replaying"
  /\ queue[c] # <<>>
  /\ Replays(c, target[c])
  /\ reader' = [reader EXCEPT ![c] = "sending"]
  /\ UNCHANGED <<registryVars, historyVars, copierVars, up, machines, target, queue, cursor, received>>

(* The session is not this connection's to replay any more, so there is    *)
(* nothing to release either.                                              *)
ReplayLost(c) ==
  /\ reader[c] = "replaying"
  /\ ~Replays(c, target[c])
  /\ reader' = [reader EXCEPT ![c] = "ended"]
  /\ UNCHANGED <<registryVars, historyVars, copierVars, up, machines, target, queue, cursor, received>>

ReplaySends(c) ==
  /\ reader[c] = "sending"
  /\ LET frame == Head(queue[c])
     IN  /\ Send(c, frame)
         /\ IF Sent(c, frame)
            THEN /\ reader' = [reader EXCEPT ![c] = "replaying"]
                 /\ queue' = [queue EXCEPT ![c] = Tail(@)]
                 /\ cursor' = [cursor EXCEPT ![c] =
                      IF frame.type = "terminal_output" THEN frame.to ELSE @]
            ELSE reader' = [reader EXCEPT ![c] = "releasing"] /\ UNCHANGED <<queue, cursor>>
  /\ UNCHANGED <<registryVars, historyVars, copierVars, up, target>>

(* The snapshot is delivered: is there more by now?                        *)
CaughtUp(c) ==
  /\ reader[c] = "replaying"
  /\ queue[c] = <<>>
  /\ Replays(c, target[c])

Owed(c) == Kept("terminal_output", target[c], cursor[c])

StillKept(c) ==
  /\ cursor[c] >= Start(history, target[c])
  /\ Contiguous(Owed(c), cursor[c], nextOffset[target[c]])

ReplayEvicted(c) ==
  /\ CaughtUp(c)
  /\ ~StillKept(c)
  /\ reader' = [reader EXCEPT ![c] = "releasing"]
  /\ UNCHANGED <<registryVars, historyVars, copierVars, up, machines, target, queue, cursor, received>>

ReplayContinues(c) ==
  /\ CaughtUp(c)
  /\ StillKept(c)
  /\ cursor[c] # nextOffset[target[c]]
  /\ queue' = [queue EXCEPT ![c] = Owed(c)]
  /\ UNCHANGED <<registryVars, historyVars, copierVars, up, machines, reader, target, cursor, received>>

(* Mutant of ReplayEnds: what was written during the replay is not looked  *)
(* for.                                                                    *)
ReplayEndsEarly(c) ==
  /\ CaughtUp(c)
  /\ replaying' = [replaying EXCEPT ![target[c]] = FALSE]
  /\ reader' = [reader EXCEPT ![c] = "serving"]
  /\ UNCHANGED <<life, owner, historyVars, copierVars, up, machines, target, queue, cursor, received>>

(* Nothing more: from here on the copier sends.                            *)
ReplayEnds(c) ==
  /\ CaughtUp(c)
  /\ cursor[c] = nextOffset[target[c]]
  /\ replaying' = [replaying EXCEPT ![target[c]] = FALSE]
  /\ reader' = [reader EXCEPT ![c] = "serving"]
  /\ UNCHANGED <<life, owner, historyVars, copierVars, up, machines, target, queue, cursor, received>>

(* releaseReopen *)
ReopenReleased(c) ==
  /\ reader[c] = "releasing"
  /\ IF replaying[target[c]] THEN LetGo(c, target[c]) ELSE UNCHANGED registryVars
  /\ reader' = [reader EXCEPT ![c] = "ended"]
  /\ UNCHANGED <<historyVars, copierVars, up, machines, target, queue, cursor, received>>

Replay(c) ==
  \/ ReplayAllowed(c) \/ ReplayLost(c) \/ ReplaySends(c) \/ ReopenReleased(c)
  \/ ReplayEvicted(c) \/ ReplayContinues(c) \/ ReplayEnds(c)

-----------------------------------------------------------------------------
NewMachine == [Session |-> "NONE", sessionID |-> NoSession, nextOutput |-> 0,
               historyBegun |-> FALSE, historyCursor |-> 0, historyEnd |-> 0]

(* Both ends of an authenticated connection.                               *)
NewBrowser == [states |-> [Browser!NewStates EXCEPT !.connectionState = "READY"],
               offsets |-> Browser!NewOffsets, refused |-> FALSE]

Init ==
  /\ life = [s \in Sessions |-> "none"]
  /\ owner = [s \in Sessions |-> NoConnection]
  /\ replaying = [s \in Sessions |-> FALSE]
  /\ nextOffset = [s \in Sessions |-> 0]
  /\ history = {}
  /\ historyBytes = [s \in Sessions |-> 0]
  /\ agentBytes = 0
  /\ copier = [s \in Sessions |-> "none"]
  /\ chunk = [s \in Sessions |-> NoChunk]
  /\ sendTo = [s \in Sessions |-> NoConnection]
  /\ up = [c \in Connections |-> TRUE]
  /\ machine = [c \in Connections |-> NewMachine]
  /\ browser = [c \in Connections |-> NewBrowser]
  /\ reader = [c \in Connections |-> "idle"]
  /\ target = [c \in Connections |-> NoSession]
  /\ queue = [c \in Connections |-> <<>>]
  /\ cursor = [c \in Connections |-> 0]
  /\ received = [c \in Connections |-> {}]

Next ==
  \/ \E s \in Sessions : CopyOutput(s) \/ CloseManaged(s)
  \/ \E c \in Connections :
       \/ Opened(c) \/ Detach(c) \/ Breaks(c) \/ Disconnected(c) \/ Replay(c)
       \/ \E s \in Sessions : Open(c, s) \/ Reopen(c, s)

Spec == Init /\ [][Next]_vars

-----------------------------------------------------------------------------
Chunks == [from : 0..MaxSequence, to : 0..MaxSequence]

(* Every variable keeps its type, and the counts their limits.             *)
TypeOK ==
  /\ life \in [Sessions -> {"none", "running", "closed"}]
  /\ owner \in [Sessions -> Connections \cup {NoConnection}]
  /\ replaying \in [Sessions -> BOOLEAN]
  /\ nextOffset \in [Sessions -> 0..MaxSequence]
  /\ \A e \in history : /\ e.session \in Sessions
                        /\ [from |-> e.from, to |-> e.to] \in Chunks
                        /\ e.age \in Nat \ {0}
  /\ historyBytes \in [Sessions -> 0..MaxSessionHistory]
  /\ agentBytes \in 0..MaxAgentHistory
  /\ copier \in [Sessions -> {"none", "reading", "sending", "detaching", "ended"}]
  /\ chunk \in [Sessions -> Chunks]
  /\ sendTo \in [Sessions -> Connections \cup {NoConnection}]
  /\ up \in [Connections -> BOOLEAN]
  /\ machine \in [Connections ->
       [Session : SessionStates, sessionID : Sessions \cup {NoSession},
        nextOutput : 0..MaxSequence, historyBegun : BOOLEAN,
        historyCursor : 0..MaxSequence, historyEnd : 0..MaxSequence]]
  /\ reader \in [Connections ->
       {"idle", "opening", "serving", "replaying", "sending", "releasing", "ended"}]
  /\ target \in [Connections -> Sessions \cup {NoSession}]
  /\ \A c \in Connections : \A i \in 1..Len(queue[c]) :
       /\ queue[c][i].type \in Messages
       /\ [from |-> queue[c][i].from, to |-> queue[c][i].to] \in Chunks
  /\ cursor \in [Connections -> 0..MaxSequence]
  /\ received \in [Connections -> SUBSET (0..MaxSequence - 1)]

(* What is kept of a session is its newest output without a hole, in the   *)
(* order it was written, and nothing is kept of one that is closed.  A hole*)
(* would make a reopening fail or show output that never was.              *)
HistoryIsContiguous ==
  \A s \in Sessions :
    LET kept == Of(history, s)
    IN  /\ ~Running(s) => kept = {}
        /\ UNION {e.from .. e.to - 1 : e \in kept} = Start(history, s) .. nextOffset[s] - 1
        /\ \A e, f \in kept : e.age < f.age => e.from < e.to /\ e.to <= f.from

(* Both byte counts are what the entries add up to, whoever evicted them   *)
(* and why, and stay in their limits.  A count too high evicts for ever,   *)
(* one too low lets the agent grow.                                        *)
AccountsBalance ==
  /\ agentBytes = Bytes(history)
  /\ agentBytes <= MaxAgentHistory
  /\ \A s \in Sessions : /\ historyBytes[s] = Bytes(Of(history, s))
                         /\ historyBytes[s] <= MaxSessionHistory

(* What the agent keeps is of its kind, without holes, and accounted for.  *)
HistoryIsSound == TypeOK /\ HistoryIsContiguous /\ AccountsBalance

(* A running session loses output only to its own limit, filled to the     *)
(* brim, or to the agent's, and then nothing older than the loss is kept.  *)
Survives(e) ==
  \E f \in history' : f.session = e.session /\ f.age = e.age /\ f.from = e.from

EvictsTheOldest ==
  [][\A e \in history :
       life'[e.session] = "running" /\ ~Survives(e) =>
         \/ historyBytes'[e.session] = MaxSessionHistory
         \/ /\ agentBytes' = MaxAgentHistory
            /\ \A f \in history' : f.age >= e.age]_vars

(* The agent's own wire machine never refuses the offsets of a frame that  *)
(* the session's holder is sent, live or replayed: the chunk the copier has*)
(* read and the frames of a replay meet the machine where the frame before *)
(* them left it, whatever was appended or evicted meanwhile.               *)
OwnFramesAccepted ==
  /\ \A s \in Sessions :
       copier[s] = "sending" /\ Holds(sendTo[s], s) /\ up[sendTo[s]] =>
         SemanticsAllow(machine[sendTo[s]], OutputFrame(s))
  /\ \A c \in Connections :
       reader[c] = "sending" /\ Replays(c, target[c]) /\ up[c] =>
         Accepted(machine[c], Head(queue[c]))

(* The browser's machine, which counts offsets in its own way and starts to*)
(* know them only with the first frame of a replay, accepts every frame    *)
(* that the agent's lets out.                                              *)
BrowserAccepts == \A c \in Connections : ~browser[c].refused

(* A browser that holds a session has been given everything the agent      *)
(* keeps of it whenever the copier has nothing in hand: no chunk falls     *)
(* between the last frame of a replay and the first live one.              *)
LiveIsComplete ==
  \A c \in Connections, s \in Sessions :
    /\ Holds(c, s)
    /\ ~replaying[s]
    /\ reader[c] = "serving"
    /\ copier[s] = "reading"
    => Start(history, s) .. nextOffset[s] - 1 \subseteq received[c]

(* A browser gets one stretch of the output, in order (OutputStream).      *)
Stream == INSTANCE OutputStream WITH
  written <- nextOffset,
  watches <- [c \in Connections |-> machine[c].sessionID]

StreamIsWhole == Stream!Spec

=============================================================================
