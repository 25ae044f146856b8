# Verification of TerminusWeb

TLA+ models of TerminusWeb, the TLC instances that check them and the theorems
TLAPS proves about them. Paths are relative to the repository's root (`src/` in
`PROJECT.json`).

## 1. The system

TerminusWeb is a private web terminal. A browser application talks over a
WebSocket to an agent on a Windows host, which owns the shells. Beside it stand
an optional "intelligence" service with a Postgres token ledger and a control
plane that so far is a database schema and an authorization policy.

| Component | State it keeps | Operations | Hard about it |
|---|---|---|---|
| Agent endpoint and connections (`apps/windows-agent/internal/endpoint/endpoint.go`) | registered connections, revoked credentials; per connection the wire machine, the destroy flag, `failOnce`, `closeOnce` | `register`, `run`/`handle`, `send`, `fail`, `shutdown`, heartbeat and authorization timers, `RevokeCredential`, `Close` | five goroutines per connection, each of which may end it; waits inside `sync.Once` |
| Session registry (`.../endpoint/session.go`) | active and pending sessions; per session owner, detached, replaying, closed, history | `open`, `detach`, `beginReopen`/`replay`, `closeBy`, `copyOutput`, `disconnected`, revocation, expiry, `shutdown` | one mutex given up around every blocking call; first closer wins, the others wait |
| Wire machine of the agent (`.../protocol/machine.go`) | connection and session state, sequence numbers, offsets | `Apply` | refusals after a state change |
| Handshake and limits (`.../endpoint/security.go`, `endpoint.go:350-454`) | pairing code, challenge, attempt windows | pairing, challenge and proof, `begin`/`finish` | store, bind and announce as separate steps; windows that restart |
| ConPTY adapter (`.../terminal`) | process, job, pipes | `Open`, `Read`, `Write`, `Resize`, `Close` | supervision and the order of releasing handles |
| Integration host (`cmd/integration-host`) | the credential file, the pairing console | `Get`/`Put`/`Delete`/`BindDevice` | crash between write and rename |
| Intelligence service (`.../intelligence`) and its endpoint | the session of each device; token reservations | requests, one after the other; `explain`, `maintain` | the session is replaced under the pages of a device; reserve, call, finalise |
| Token ledger (`infrastructure/database/migrations/0002_private_intelligence.sql`) | quota months, reservations | `reserve_tokens`, `finalize_tokens` | concurrent transactions, expiry against completion |
| Browser adapter (`apps/web/terminal/protocolTerminalAdapter.ts`) | socket, client machine, `work` token, locator of the session, credential queue | `connect`, `pair`, `input`, `release`, `disconnect`, `newSession`, `receive` | every `await` may return into another connection |
| Browser recovery (`apps/web/terminal/browserRecovery.ts`) | attempts, timer, visibility | `schedule`, `stop`, `manual`, `dispose` | timers, lifecycle events and state changes all feed one bounded episode |
| Browser wire machine (`apps/web/protocol/contractMachine.ts`) | the states and offsets of the contract, once more | `apply` | both ends must agree on every frame, those that cross included |
| Browser storage (`credentialStore.ts`, `recentSessions.ts`) | the credential, the client instance id, the recent terminals of a page origin | `load`, `save`, `clientInstanceId`, `read`, `write` | several tabs; a transaction for some, none for others |
| Connection profiles (`connectConfig.ts`, `endpointPolicy.ts`) | saved profiles and the selected mode | validation, merging with the deployment's, selection | profiles of an older deployment |
| Browser intelligence client (`apps/web/intelligence`) | socket, generation, attempts, pending requests; the hook's view | `open`, handshake, `request`, `failed`, retry, `dispose`; `refresh`; the export | stale attempts, requests that end with their socket |
| Intelligence pages (`IntelligencePage.tsx`, `IntelligencePanel.tsx`) | what was read and for which session | effects, buttons, unmounting | answers that come in another session |
| Web shell (`TerminalShell.tsx`) | address fragment, buttons, selected profile | click handlers, session events | handlers that outlive what they were started for |
| Control plane (`0001_control_plane.sql`, `services/control-plane`) | tenants, memberships, roles, leases | `preserve_final_owner`, `authorize` | write skew; decisions on what was read before |

The terminal path works like this. A connection authenticates and becomes
READY. It then carries one session in its life, which it opens or reopens. A
session belongs to the credential and the source device of the connection that
opened it. When its connection goes away it stays behind, detached, until a new
connection of the same credential and device reopens it and has its history
replayed, or until something closes it: the client, the process, the
credential's end or revocation, a protocol failure, or the agent's shutdown.
The browser remembers the session as a locator (in the adapter and in the
address), loads the credential from a store that its tabs share, and reconnects
by itself while somebody looks at the page. The intelligence pages have a
connection of their own to the same host; the session they read from belongs to
the device, so any tab may replace it. `PROJECT.json` lists every component and,
under `hazards`, what can go wrong in each at its line.

What makes each part correct:

- registry: a running session is held or reopenable; only its own credential
  and device hold it; nothing passes the fence of a revocation or a shutdown;
  every close ends, once;
- endpoint: a connection that goes down goes all the way down and leaves
  nothing behind; whatever is waited for happens;
- wire machines: what one side sends the other accepts;
- adapter and recovery: what an old attempt's continuation does is without
  effect on a new one; the locator outlives the transport; a lost connection is
  retried, an unwatched page holds none;
- storage: what one tab cleans up is never what another has just saved; a page
  offers and uses what is its own;
- intelligence: one connection per page, nobody waits for an answer that cannot
  come, nothing of one session is shown or exported in another;
- handshake: no credential without approval, a code works once; the limiter's
  window cannot be overrun (not modelled, section 7);
- ledger: what is reserved is settled exactly once (not modelled);
- control plane: the owner counter is exact, a tenant that is not closed keeps
  an owner, no lease outlives what it rests on by more than the maximum.

## 2. Plan

1. `ProtocolMachine`, `AgentSessions` with `MCAgentSessions`, its types
   (`AgentSessionsTypes`) and its safety (`AgentSessionsProofs`), with `SessionLife`,
   what the agent promises of a session, which it implements. **Done.**
2. `SessionHistory` with `MCSessionHistory`, and `OutputStream`, what a browser
   may rely on, which it implements, proved in `SessionHistoryProofs`. **Done.**
3. The wire machine of both ends composed: `ClientMachine` in `SessionHistory`.
   **Done.**
4. The browser's terminal page: `BrowserRecovery`, `TerminalAdapter`, and
   `TerminalPage`, which composes them with the shell and an agent, proved in
   `TerminalAdapterProofs` and `TerminalPageProofs`. **Done.**
5. What a browser stores: `ConnectProfiles`, `BrowserStorage`, proved in
   `BrowserStorageProofs`. **Done.**
6. The intelligence client and its pages: `IntelligenceClient`,
   `IntelligencePages`, proved in `IntelligencePagesProofs`. **Done.**
7. `ControlPlane` and `ControlPlaneProofs`. **Done.**
8. Left: the rate limiter and the inner steps of pairing, the token ledger with
   the service that uses it, ConPTY supervision, the host's credential file.

## 3. Modules

| Module | Models |
|---|---|
| `ProtocolMachine` | the two transition tables of the agent's wire machine |
| `AgentSessions` | the registry and every goroutine that works on it |
| `MCAgentSessions` | the instances TLC checks |
| `AgentSessionsTypes` | type correctness, proved |
| `AgentSessionsProofs` | the inductive invariant, the safety theorems, and the step by step proof that it implements `SessionLife` |
| `SessionLife` | the abstract specification of a session's life |
| `SessionHistory` | output: history, eviction, replay, live sending, the offset checks of both ends' machines |
| `SessionHistoryProofs` | its inductive invariant, the theorems, and the step by step proof that it implements `OutputStream` |
| `OutputStream` | the abstract specification of what a browser receives |
| `ClientMachine` | the wire machine as the browser enforces it |
| `BrowserRecovery` | the reconnect controller |
| `TerminalAdapter` | the browser's end of a terminal connection |
| `TerminalPage` | a page: shell, user, lifecycle, adapter, and an agent at the other end |
| `TerminalAdapterProofs` | what each handler of the adapter keeps, proved |
| `TerminalPageProofs` | the same for frames and the shell, and the theorems about a page |
| `ConnectProfiles` | validation, merging and selection of connection profiles |
| `BrowserStorage` | what the tabs of a browser share |
| `BrowserStorageProofs` | its inductive invariant and theorems |
| `IntelligenceClient` | the client of the intelligence service and its hook |
| `IntelligencePages` | a page of it, its user, the host and the device's other tabs |
| `IntelligencePagesProofs` | its inductive invariant and theorems |
| `ControlPlane` | the policy, the final-owner trigger, leases |
| `ControlPlaneProofs` | its inductive invariant and theorems |
| `MCSessionHistory`, `MCTerminalPage`, `MCBrowserStorage`, `MCIntelligencePages`, `MCControlPlane` | the instances TLC checks |

### AgentSessions

A step is one critical section of the registry's mutex, one frame sent
(`protocolMu` is held for the whole of `send`), or the end of one wait.

| State | In the code |
|---|---|
| `life[s]` | between reservation and end: `pending` in `r.pending`; `active` in `r.active`; `fenced` in it with `closed` set; `removed` off the map; `notifying` about to send `session_closed`; `done` when `closeDone` is closed. `failed` is an open that came to nothing |
| `creator[s]` | gives `managed.credentialID` and `deviceIdentity` |
| `owner`, `detached`, `replaying` | the fields of those names |
| `closer[s]`, `notifyTo[s]` | who has the first ticket, and the ticket's owner if it is to be told |
| `toClose[g]`, `closingNow[g]` | the sessions goroutine g passes to `closeManaged` or holds tickets of, and the one it is at |
| `link[c]`, `wire[c]` | `Machine.Connection`, `Machine.Session` |
| `gap[c]` | whether a sequence number was spent on a refused frame, and whether a frame has been written since |
| `failOnce[c]` | idle, `failing` (before the error frame), `reported`, `closing` (in `shutdown`) |
| `shut[c]` | `closeOnce`: up; begun, after a lost transport (`lost`) or after a `fail` or the host's `Close` (`failed`); `sweeping` in `disconnected`; `down` |
| `reader[c]`, `target[c]` | where the read loop stands in `handle`, and the session its frame named |
| `copier[s]`, `sendTo[s]`, `expirer[s]` | the session's two goroutines |
| `revoker[k]`, `stopper` and their snapshots | `RevokeCredential` and `Close` |

The handshake and `register` are one step, `Connect`; the 12-hour deadline and
the heartbeat's timeout are the input "timeout". `fail()`'s destroy flag is read
in the same step as the critical section of `disconnected` that follows it.
Session identifiers are 60 random bits, so the model hands each out once. Two
things are left out: `BACKPRESSURE_LIMIT` from `send` cannot occur, since
`protocolMu` serialises the senders and the queue never holds a second frame;
and the end of the sequence numbers at 2^53-1. `input` and `resize` change
nothing in the registry; that they may fail is `ReceiveRejected`. A `Resize` at
a reopen is modelled with its failure.

### SessionHistory

`AgentSessions` says who holds a session and leaves the bytes out;
`SessionHistory` says where the bytes go and leaves out why a session is closed,
detached or lost: `CloseManaged`, `Detach`, `Breaks` and `Disconnected` stand for
the steps of `AgentSessions` that do so. The two share `owner` and `replaying`;
a running session without an owner is detached (`NeverStranded` proves that it
may be read so).

| State | In the code |
|---|---|
| `history` | the entries of `r.history`, each with the range of offsets it covers and an age that gives its place in the list; `Of(history, s)` is `managed.history` |
| `historyBytes[s]`, `agentBytes`, `nextOffset[s]` | the fields `historyBytes` of session and registry, and `nextOffset` |
| `copier`, `chunk`, `sendTo` | `copyOutput` between its critical sections and sends, with what it holds |
| `machine[c]` | `Machine.Session`, `sessionID`, `nextOutput` and the three history fields |
| `reader[c]`, `queue[c]`, `cursor[c]` | where the read loop stands in `open` or `replay`, the frames it has still to send, its local `cursor` |
| `received[c]` | the offsets whose bytes were put on the wire |

The eviction loops are closed forms: `Evicted(entries, count)` takes `count` bytes
off the oldest entries, as the loops around `evictEntryBytesLocked` do, and the
count comes from the byte counters, as in the code, not from the entries. The
bytes of entries are the offsets in them, each paired with its entry's age
(`Contents`), and `Bytes` is how many those are: a cardinality can be reasoned
about where a sum cannot. `ByAge` is the list's order, which `PushBack` keeps.
`snapshotLocked` and `historyRangeLocked` copy, so a queue keeps its frames when
entries are evicted. `truncated` is `from > 0` by construction and left out. A
session that closes sends `session_closed`, which carries no output; it is
`AgentSessions`' business.

`browser[c]` is the machine at the other end of the socket (`ClientMachine`):
every frame the agent puts on the wire is applied to it too, and `refused` says
that it was not acceptable there.

`OutputStream` is implemented under `written <- nextOffset` and
`watches <- machine[c].sessionID`: a browser gets consecutive bytes that were
written, from wherever the history began.

### The browser's modules

JavaScript runs one task at a time to its end, so a handler is a function from
the page before it to the page after it, and an action of `TerminalPage` or
`IntelligencePages` is one such task. Where the code waits (for the store, the
proof, the socket, a timer, a frame) the rest of the handler is a task of its
own, and the guard it starts with (`this.work !== work`,
`this.socket !== socket`, `generation`, `disposed`) is translated where it
stands. All a page holds is one record.

| State | In the code |
|---|---|
| `page.work`, `page.socket` | `this.work`, `this.socket`; attempts are named by elements of `Works`, and a name is used again when nothing refers to the old attempt |
| `page.readyState[w]` | the socket each attempt made |
| `page.operations` | the queue of `withCredentialStore`, `page.proving` the handlers that wait for a proof, `page.inbound` the `inboundQueue` |
| `page.machine`, `page.newSession` | the client machine; `none`, or which half of `newSession()` is under way |
| `page.sessionId`, `requestedSessionId`, `fragment` | the locator in the adapter, and the one in the address |
| `page.attempts`, `timer`, `stopped`, `hidden`, `shown`, `disposed` | `browserRecovery.ts` and what it reads of the document |
| `agent` | the agent at the other end, which keeps to `ProtocolMachine`'s tables; `wire` holds the frames on their way, so frames of both ends cross |
| `tab.socket`, `live`, `loads`, `signing` | the client's socket, and the attempts that have an open socket, wait for the store, or for the proof |
| `tab.line` | the requests on the socket, with `waits` (still in `pending`) and `active` (its caller still cares) |
| `tab.view`, `tab.shown` | the hook's state, and what React last rendered: effects run on `shown` only |
| `tab.rows`, `tab.items`, `tab.file` | whose history the page holds and for which session it asked; the panel's items; the last export |
| `session` in `IntelligencePages` | the host's session of the device, counted up whenever it is replaced |

In `BrowserStorage` a step is one request of an IndexedDB transaction or one
access to `localStorage`. A readwrite transaction has its store to itself
(`credentials`, `metadata`); `localStorage` has no transaction, so an update is
a read and a write with other tabs between them. A tab may close at any point.
`ConnectProfiles` has no state: it is the functions of `connectConfig.ts` and
`endpointPolicy.ts` on profiles, with a URL reduced to what they tell apart.

### ControlPlane

A transaction asks the policy (`Ask`), locks the row, runs the trigger and
commits. PostgreSQL's READ COMMITTED is the environment: a written row is locked
until its transaction ends, and a statement that waited sees what was committed
last. The repository has no handler yet; that callers ask first and then change
the rows in a transaction is what the two READMEs prescribe.

### Properties

The comment before each property says what it means. `TypeOK` of each module is
its type invariant. What the runs check is listed with them in `PROJECT.json`;
`HolderIsCreator`, `OneSessionPerConnection` and the type invariants of
`AgentSessions`, `ControlPlane` and `IntelligencePages` are proved and not run. `HistoryIsSound` is
the type invariant of `SessionHistory` with the two invariants about what it
keeps.
`ProtocolFailureDestroys`, `TransportLossDetaches` and `NoSequenceGap` in
`AgentSessions` say what documents promise and the code does not do (section 6).

## 4. Runs

`CHECK_DEADLOCK FALSE` in all of them, because each system may stop: all
connections have ended, the output or the clock is at its bound, the page is
disposed of or its user does nothing.

| Run | Instance | Shows |
|---|---|---|
| `takeover` | old connection opens, detaches, is lost, fails, or its process exits; new one reopens, closes, times out | the session is never stranded, never disturbed by its old owner and closed once; `SessionLife` |
| `fence` | an open, a loss and a takeover meet a revocation or `Close` (one of them per behaviour: `OneHostCall`) | nothing passes the fence; no terminal and no connection is left |
| `liveness` | one connection, every peer input, `Close` | no wait lasts for ever |
| `expiry` | one connection, the credential's end | the session is closed in any state |
| `history` | two sessions of 3 bytes each, 2 kept of each and 3 of both, chunks of 2; two connections that open, leave and reopen them | frames fit the machines of both ends; no byte is lost between replay and live output; what is kept is contiguous, balanced and loses its oldest part first; `OutputStream` |
| `browser` | one page, two attempts, two sessions, two credentials, three reconnects, two frames in flight; stores that fail and credentials that expire; unmounting | no stale continuation, no orphan socket, the locator is kept, recovery is armed, an unwatched page is not connected, the newest pairing is the one stored |
| `browser_live` | one reconnect, one frame in flight | a New Session comes to an end |
| `intelligence` | each of the four pages, two requests waiting, one retry, two opens, two sessions of the device | one connection; nobody waits in vain; nothing of another session on show or in a file |
| `storage` | two tabs, two pairings, three terminals at two endpoints, a saved state of an older deployment | `FreshPairingStays`, `OneInstance`, sound recents, the right endpoint |
| `control_plane` | two members, two concurrent transactions, three roles | the counter is exact, an owner remains, leases end |
| `revocation_stuck`, `crossing` | the smallest instance that shows it | section 6 |

Bounds. The agent's runs have one or two connections and one session. One
session is enough for everything but the exchange between sessions, because the
registry's operations touch one session at a time, batches apart; two
connections are an old and a new owner, and the proofs (section 5) hold for any
number. Each run switches on the inputs its question is about (`Inputs`), which
bounds it. In `history` the limits are as small as they can be for an entry to
be evicted whole and in part, by its own session and by another, a replay to be
overtaken, and offsets to run out (`MaxSequence`, 2^53-1 in the code).

`Works` has two names because a stale continuation needs one attempt besides the
current one; a name comes back into use, so the number of attempts in a
behaviour is not bounded. `MaxWire` is what can cross with a frame of the page.
`MaxAttempts` is 3 as in the code in `browser`, and 1 in `browser_live`: the
length of the episode does not matter to a New Session. In `intelligence`
`MaxOpens` bounds how many attempts a behaviour has and `MaxLate` how many timed
out requests still stand in the line; with two sessions there is an earlier and
a later one, and with `MaxPending` 2 (5 in the code) the limit is met by the
page's own requests together with the hook's. In `storage` the clock reaches one
and a pairing lasts one, so each may be fresh or over; `Limit` 1 (20 in the
code) makes every second terminal push one out. In `control_plane` a write skew
needs two transactions; the quota and the lease are one unit, the smallest that
is used up. `SYMMETRY` is used where no definition and no property names a
member of the permuted set, and in no run with a liveness property.

Fairness of the agent (`AgentSessions!FairSpec`) is weak fairness of each
goroutine: the Go scheduler runs what can run. A terminal that is being created
is only fair once its context is cancelled, and a read of output once the
terminal is closed: before that they take as long as they take. Frames from the
peer, timeouts and the host's calls are never fair. Sends are: a write has a
deadline, so it ends, well or badly.

Fairness of a page (`TerminalPage!FairSpec`) is weak fairness of `Serves`, all
that happens without the user: the event loop, the store, the proof, the timers,
and the agent, which answers or whose end of the transport goes (its heartbeat
and authorization timers end a connection it no longer serves). It says only
that as long as something of that kind can happen, something does. Clicks,
visibility and exits of shells are free.

## 5. Proofs

Forty-two theorems of `PROJECT.json` in seven modules, and the lemmas about handlers
they rest on in an eighth. The constants are arbitrary.

`AgentSessions` assumes `ConstantsAssumption`: credentials and devices belong to
connections, and the three nil values are no connection, no session and no
goroutine. `AgentSessionsTypes` proves `Typed`: `TypeOK` with `NamesTarget` (as
soon as a frame named a session, the read loop knows it) is inductive. `TypeOK`
alone is not, because handling a detach or close looks the target up.

`AgentSessionsProofs` proves that `IInv` is inductive. It strengthens the safety
properties by what they lean on:

- `OpeningIsPending`: the session an opening read loop will register is pending
  and its own; without it a registration might revive another's session.
- `OnlyRunningIsHeld`: a session that does not run has no owner, one that was
  never registered was never attached, only a fenced one has a closer.
- `HolderAsked`: a holder's wire session is past NONE and its read loop's target
  is the session it holds. The wire tables never return to NONE, so a second
  open or reopen is refused before it reaches the registry:
  `OneSessionPerConnection` follows.
- `RejectingCloses`: a reopen whose resize failed has its session on its list
  until the session is closed, which is what `ReplayHasReader` needs.

The induction is cut along what an action disturbs: `StepRegistry` for the part
on the registry alone, `StepHolder`, `StepGone` and `StepReplay` for the links
to the connections, `StepSafe` to put them together. `OneCloser` and
`HolderDecides` are the two action properties, from the same invariant.

`CloseIsClean` proves `StopIsClean`, without the run's constraint, from what
`Close` has seen. `NewIsIdle`: on a connection that has not connected yet nothing
has happened and no snapshot has it. `StopSeesAll`: once the endpoint is marked
closed every registered connection is in the snapshot, and once it has fenced the
sessions, those on the map are on its list until each is closed. What is not
there cannot come any more: `Connect` looks at the first flag under the same
mutex as the snapshot is taken, and a registration at the second
(`NothingOutlivesTheFence`).

`LivesAsPromised` is the refinement of `SessionLife`. A session is running there
from its registration to its fence, whoever finishes the close later; what bars a
credential is the registry's list, or for all of them that it shuts down.
`StepLife` maps every action: an `OpenRegisters` is an `Open`, a claimed reopen a
`Reopen`, a detach, a disconnect, a released claim or a failed send a `Leave`, the
first fence a `Close`, the fences of `RevokeCredential` and `Close` a `Bar` and
the `Stop`, all else a stutter. `LifeLeaves` needs `OneSessionPerConnection`,
because a disconnect releases whatever it finds; that who opens or reopens holds
nothing yet comes from `HolderAsked` and `OnlyFromNone`.

`SessionHistoryProofs` proves all four invariants of `SessionHistory`, its rule
about eviction, and that it implements `OutputStream`, from `HistoryAssumption`
and for any number of sessions, connections and bytes, and any limits.
`HistoryInvariant` says that `IInv` is inductive. Its parts:

- `HistoryOK`: the entries of a session follow one another in the order of their
  ages (`InOrder`), and from the first on every offset up to the session's end is
  in one (`Covered`). `EvictedBytes` says that the loops evict exactly the count
  they are given; it is why the counts balance and why eviction stops at the
  limit. `NewestKeeps` says that a list without a hole has none after it.
- `SessionOK` and `MachineOK`: who watches a session has opened or reopened it
  and its machine is about that session, so a frame the copier still holds is of
  the session the connection has.
- `FeedOK`: a connection that is fed live output has been given all up to the
  chunk in the copier's hand, or up to the session's end when it has none; the
  agent's machine and the browser's stand there too (`UpTo`). `LiveIsComplete`
  and the first half of `OwnFramesAccepted` follow.
- `ReplayOK`: the frames a replay still has to send follow one another
  (`Script`), the machine accepts the next one, and what was given ends where it
  begins. The queue is a copy, so eviction does not touch it; that is why a
  replay may send what is no longer kept.
- `InStep`: the browser's machine is where the agent's is for as long as the
  transport works. It does not know an offset until the first `history_begin`
  or output, so for a replay that has not begun `ReplayOK` says that it does not
  know one.

`CopySendsKeeps` and `ReplaySendsKeeps` are the two steps that send; they rest on
`OutputGoes` and `OutputTaken`, and on `FrameFacts`, which say what one frame does
to both machines. Steps that neither send nor append are instances of
`QuietStep`. `LostForReason`, the body of `EvictsTheOldest`, is proved with the
invariant, action by action. For `BrowsersGetOneStretch` `NextStreams` maps
every step: an append is a `Write`, the frame or request that first names the
session a `Watch`, a frame with output a `Deliver` (`SendStreams`), all else a
stutter.

`ControlPlaneProofs` proves `ControlPlaneTyped`, `CounterIsExact`,
`FinalOwnerStays` and `LeasesLapse` from `ControlPlaneAssumption`, for any number
of members, transactions and seconds. That the counter equals the number of
owners is not inductive by itself: what a transaction found (`Found`) must still
be so when it commits. It is, because the tenant's row has one holder
(`HoldsTenant`) and a row that is being revoked has one locker, which is what
`IInv` adds. `OwnerGranted` and `OwnerRevoked` are the counting lemmas, and each
action has its own lemma (`CommitKeeps` leans on `CommitCounts`).

`BrowserStorageProofs` proves the whole of `BrowserStorage`'s safety from
`StorageAssumption`, for any tabs, pairings, terminals, clock and limit. `IInv`
adds what each tab holds between two accesses: a pairing it has seen and means to
delete was over when it saw it, and stays so (`FreshPairingIsKept`); an instance
id it knows is the stored one; the list of recent terminals it is about to write
is a sound one, whatever the others write in between.

`TerminalPageProofs` proves all seven invariants of `TerminalPage` and
`LocatorKept`, from `PageAssumption` and for any number of attempts (`Works`),
sessions, credentials, frames on the wire and reconnects. A handler is a function
on the page, so `TerminalAdapterProofs` has a lemma for each: from a sound page it
makes a sound page and does not lose the locator. `TerminalPageProofs` has the
same for each frame and each thing the shell does, then for each action
(`SocketSteps` to `LifecycleSteps`), which `StepIInv` puts together. No property
is inductive by itself. The invariant `PageOK` says of a page, in parts:

- `BaseOK`, which holds even in the middle of a handler: a work has one operation
  in the store's queue at a time, its load before it has a socket and its saving
  after, and then nothing else is queued (`QueueOK`); what is open or opening is
  the socket of the work in hand (`SocketsOK`); as long as a work has its socket,
  the credential it took is the stored one, because nobody else can save.
- `PlaceOK`: what the adapter's state says of the attempt. A page that connects
  has its load in the queue or the socket in hand, an idle one has no socket that
  is open, a New Session half done has given up the old locator.
- `HandshakeOK` and `MachineOK`: what a wait and the adapter's state say of the
  wire machine. A proof that is being computed finds the machine CHALLENGED; a
  frame that waited in `inboundQueue` until after the socket's close finds it
  before READY, so no session can be opened by it.
- `WatchOK`: an unwatched page is not connected, and a page that may reconnect
  has its timer set.

`FailKeeps` and `ReleaseKeeps` are the two lemmas nearly all others use: from
anything `BaseOK` allows, `release()` makes a sound page. `FrameStates` reads off
the tables what state a frame was accepted in. `StillWantedIs` says what is left
of the store's queue when a turn comes.

Proved for the page is what the model says: the agent keeps to the contract's
tables, and an unbounded number of attempts still is a set of names that come
back into use (`CanConnect` is the guard that there is one).

`IntelligencePagesProofs` proves the type and the three other invariants of `IntelligencePages` and
both its rules about steps, from `IntelligenceAssumption` and for any number of
pages, attempts, sessions and requests. `PagesCorrect` says that `PageInvariant`
holds, which TLC checked too, on the instance of the run `intelligence`. Its
parts say what no property says by itself:

- `ConnectionOK`: the attempt in hand still loads its credential or has its
  socket, never both; without a socket nobody is in line. `OneConnection` and the
  first part of `BusyIsWaiting` follow.
- `WaitingOK`: of the requests that make a page busy at most one waits, so the
  answer that ends the wait is the one that was waited for. The lemmas state it
  for a line and a set `es` of requests that have just left it or are about to
  join it, because in the middle of a handler a request is in neither.
- `AnswersOK`: the answers in the line came in the order the host gave them, and
  none is from before what the page already has. The session only goes forward
  and no row of an earlier session is shown because of this order, not because of
  any comparison in the client.
- `PanelOK`: a panel asks for commands only with a session on show.

There is a lemma for each operation of the client and the pages (`RequestKeeps`,
`FailedKeeps`, `OpenKeeps`, `ResolvedKeeps`...), and `InvariantStep` puts the
actions together. For the rules about steps most operations are `Quiet`: they
hand over no file and leave the page the session it had or none. Only
`ResolvedIsAllowed`, the answers, has more to show, and it leans on
`AnswersOK` and on the export's own part of `WaitingOK`.

Only model-checked: all liveness (it needs ENABLED, outside the prover's reach).

## 6. Where code and documents disagree

Two have a run in which TLC finds the counterexample.

1. `revocation_stuck`: `RevokeCredential` (`endpoint.go:199`) holds close tickets
   while it waits for `fail()` on a connection whose destructive shutdown waits
   for those tickets. Neither goes on, the terminal stays alive.
2. `crossing`: after `close_session` the browser's machine is CLOSING, where its
   table has no `terminal_output` (`contractMachine.ts:52`). Output that was on
   its way makes `apply` throw, and the New Session fails
   (`protocolTerminalAdapter.ts:463`), which `packages/protocol/README-0.2.md:44`
   does not foresee.

Three more are stated in `AgentSessions` and fail there in instances as small,
with TLC's ordinary search; they are no part of the runs.

3. `ProtocolFailureDestroys`: output refused after the error frame
   (`session.go:539`) detaches the session before the destructive disconnect
   looks for it (`packages/security/SECURITY-CONTRACT-0.2.md:109-112`).
4. `TransportLossDetaches`: a lost transport that first shows in a reply
   (`endpoint.go:543`) counts as a protocol failure and closes the session
   (`packages/protocol/README-0.2.md:82`).
5. `NoSequenceGap`: a refused frame has spent its number (`machine.go:55`;
   `packages/protocol/README.md:51`). Output read before `session_opened` is sent
   (`session.go:132`) is refused in that way on a healthy connection; the copier
   then also detaches the session from it.

Seen while modelling, where no document says otherwise or nothing depends on it:

- Agent: a session that ends while `session_opened` is not out yet is not
  announced (`session.go:659`), so the client hears of its opening and never of
  its end.
- Adapter: while a pairing's credential is saved the transport may close; the
  continuation (`protocolTerminalAdapter.ts:651`) compares the socket with itself
  and shows `authenticating` over a dead socket, which no timer ends. The
  authorization timer is not cleared by an error frame; `closing` has no timer
  of its own; a `session_opened` that is lost leaves a terminal nobody claims
  until its credential ends.
- Adapter: a page that is hidden or offline when `session_opened` arrives is
  released at once, so the guard behind it (line 680) skips the event that puts
  the session into the address. The adapter still knows it.
- Shell: `session_closed` during a New Session clears the address, though the
  second half of it may still fail (`packages/protocol/README-0.2.md:46-48`).
- Storage: an update of the recent terminals by another tab in between is lost,
  so an ended terminal may be listed again; a reopen of it is refused. Both modes
  share one `active` credential record.
- Intelligence client: an attempt whose store fails (`client.ts:127`) reports
  `unavailable` without asking whether it is still the latest. Over the live
  socket of a later attempt, Retry then does nothing until that socket ends.
  Answers of `history.list` name no session, so after another tab's sign-in the
  newer rows may be seen under the older name until the next refresh. `attempts`
  starts again at every `ready`, so a host that flaps is retried without end.
- Control plane: `authorize` decides on roles its caller resolved, and the
  trigger does not look at the actor again. A suspended owner still counts. A
  closed tenant may have no owner left, and nothing in the schema keeps it from
  being opened again.

## 7. Not modelled

The components marked `not_modelled` in `PROJECT.json`, with the reason. In
short: the agent's side of pairing, the challenge and the limiters
(`security.go`) are one step of `AgentSessions`; ConPTY and the host's credential
file are Windows system calls; the token ledger is SQL functions under row
locks; the codec is parsing and validation without state; the packages hold
documents and fixtures.

Of the modelled components: `sendPaste`, whose pieces are input like any other
and are each guarded; the fields of frames other than kind, session and offsets;
the shell's layout, dialogs and the composer; `authorizeProvider` and the
control plane's remaining tables; in the intelligence pages the words of an
answer, and sorting and paging beyond the session a page is of.
