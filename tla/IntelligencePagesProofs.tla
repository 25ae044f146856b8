---------------------- MODULE IntelligencePagesProofs ----------------------
(***************************************************************************)
(* The invariants of a page of the intelligence service and its two rules  *)
(* about steps, for any number of pages, sessions, requests and            *)
(* reconnects.                                                             *)
(***************************************************************************)
EXTENDS IntelligencePages, FiniteSetTheorems, SequenceTheorems, TLAPS

Uses == Runs \cup {"refresh", "load", "retrieve", "command", "record"}

EntryType ==
  [use : Uses, for : SessionOrNone, active : BOOLEAN, waits : BOOLEAN, answer : AnswerType]

ExportType == [owner : SessionOrNone, read : SUBSET SessionOrNone, pages : Nat]

Tabs ==
  [kind : Kinds, disposed : BOOLEAN, born : Nat, generation : Nat, attempts : 0..MaxRetries,
   retry : BOOLEAN, state : ClientStates, socket : Attempts \cup {0}, phase : Phases,
   loads : SUBSET Attempts, signing : SUBSET Attempts, live : SUBSET Attempts,
   line : Seq(EntryType), view : ViewType, shown : ViewType, refreshing : BOOLEAN,
   busy : BOOLEAN, rows : [read : SessionOrNone, for : SessionOrNone], items : SessionOrNone,
   export : ExportType, file : ExportType, auto : BOOLEAN, connected : BOOLEAN]

(* The attempts and the socket.  The attempt in hand has a socket or waits *)
(* for the credential, not both.                                           *)
ConnectionOK(t) ==
  /\ \A attempt \in t.loads : attempt <= t.generation
  /\ t.live \subseteq {t.socket}
  /\ t.generation \in t.loads /\ ~t.disposed => t.socket = 0 /\ ~t.retry
  /\ t.retry => t.socket = 0 /\ ~t.disposed
  /\ t.disposed => t.socket = 0
  /\ t.socket = 0 => t.line = <<>>

(* The requests that wait: those of the line, and those in es, which have  *)
(* left it or are about to join it.                                        *)
Awaited(t, es) == {t.line[i] : i \in Waiting(t)} \cup es

(* The pages that make a request, by its use.                              *)
Asks(kind, use) ==
  /\ use \in {"load", "filter", "delete"} => kind = "history"
  /\ use = "account" => kind \in {"account", "privacy"}
  /\ use \in {"export", "check"} => kind = "privacy"
  /\ use \in {"retrieve", "command", "record"} => kind = "panel"

UsesOK(t, es) ==
  /\ \A i \in DOMAIN t.line : Asks(t.kind, t.line[i].use)
  /\ \A e \in es : Asks(t.kind, e.use)

(* What the page waits for.                                                *)
WaitingOK(t, es) ==
  /\ t.busy => \E e \in Awaited(t, es) : EndsBusy(e)
  /\ t.refreshing => \E e \in Awaited(t, es) : e.use = "refresh"
  /\ \A e \in Awaited(t, es) : e.use \in Runs => t.busy
  /\ \A i, j \in Waiting(t) : t.line[i].use \in Runs /\ t.line[j].use \in Runs => i = j
  /\ \A e \in es, i \in Waiting(t) : ~(e.use \in Runs /\ t.line[i].use \in Runs)
  /\ t.export # NoExport => \E e \in Awaited(t, es) : e.use \in {"export", "check"}
  /\ \A e \in Awaited(t, es) :
       /\ e.use = "export" => t.export.read \subseteq {t.export.owner}
       /\ e.use = "check" => t.export.read = {t.export.owner}
  /\ t.kind # "privacy" => t.export = NoExport /\ t.file = NoExport

(* The answers: those that are in come first and in the order of the       *)
(* sessions, none from before what the page has.                           *)
Answered(e) == e.answer.kind = "result"

InTime(t, e, s) ==
  /\ e.for <= s
  /\ Answered(e) =>
       /\ t.view.session <= e.answer.session /\ e.answer.session <= s
       /\ t.rows.for <= e.answer.session
       /\ e.for <= e.answer.session
       /\ e.use = "retrieve" /\ e.active => t.shown.session <= e.answer.session

InOrder(line) ==
  \A i, j \in DOMAIN line :
    i < j =>
      /\ line[j].answer # NoAnswer => line[i].answer # NoAnswer
      /\ Answered(line[i]) /\ Answered(line[j]) =>
           line[i].answer.session <= line[j].answer.session

AnswersOK(t, s) ==
  /\ t.view.session <= s /\ t.shown.session <= s /\ t.rows.for <= s
  /\ t.rows.read # 0 => t.rows.read >= t.rows.for
  /\ \A i \in DOMAIN t.line : InTime(t, t.line[i], s)
  /\ InOrder(t.line)

(* The panel shows a session only when it is ready, and without one it     *)
(* asks for nothing.                                                       *)
PanelOK(t) ==
  IF t.kind = "panel"
  THEN /\ t.view.session # 0 => t.view.state = "ready"
       /\ t.shown.session # 0 => t.shown.state = "ready"
       /\ t.shown.session = 0 =>
            /\ ~t.busy /\ ~t.auto
            /\ \A i \in DOMAIN t.line : t.line[i].use = "command" => ~t.line[i].active
       /\ t.items # 0 => t.shown.session <= t.items
  ELSE t.items = 0 /\ ~t.auto

TabOK(t, es, s) ==
  /\ t \in Tabs
  /\ Cardinality(Waiting(t)) <= MaxPending
  /\ ConnectionOK(t)
  /\ UsesOK(t, es)
  /\ WaitingOK(t, es)
  /\ AnswersOK(t, s)
  /\ PanelOK(t)

PageInvariant == session \in 1..MaxSessions /\ TabOK(tab, {}, session)

-----------------------------------------------------------------------------
(* Sets and sequences.                                                     *)

(* The numbers of the model are natural numbers.                           *)
LEMMA NumbersAre ==
  /\ MaxPending \in Nat /\ MaxRetries \in Nat /\ MaxOpens \in Nat /\ MaxSessions \in Nat
  /\ MaxSessions # 0
  /\ SessionOrNone \subseteq Nat /\ 0 \in SessionOrNone
  /\ Attempts \subseteq Nat /\ 0 \notin Attempts /\ 1 \in Attempts
BY IntelligenceAssumption DEF SessionOrNone, Attempts

(* What an answer may be.                                                  *)
LEMMA AnswersAre ==
  /\ NoAnswer \in AnswerType /\ Refused \in AnswerType /\ ~(Refused = NoAnswer)
  /\ \A a \in AnswerType :
       /\ a.session \in SessionOrNone
       /\ a.kind = "result" => a # NoAnswer
       /\ a # NoAnswer /\ a.kind # "result" => a = Refused
       /\ a.kind \in {"none", "error", "result"} /\ a.more \in BOOLEAN
  /\ \A n \in 1..MaxSessions, more \in BOOLEAN :
       /\ Result(n, more) \in AnswerType /\ Result(n, more).kind = "result"
       /\ Result(n, more).session = n /\ Result(n, more).more = more
<1>1. NoAnswer \in AnswerType /\ Refused \in AnswerType /\ ~(Refused = NoAnswer)
  BY DEF AnswerType, NoAnswer, Refused
<1>2. ASSUME NEW a \in AnswerType
      PROVE  /\ a.session \in SessionOrNone
             /\ a.kind = "result" => a # NoAnswer
             /\ a # NoAnswer /\ a.kind # "result" => a = Refused
             /\ a.kind \in {"none", "error", "result"} /\ a.more \in BOOLEAN
  <2>1. CASE a = NoAnswer
    BY <2>1, NumbersAre DEF NoAnswer
  <2>2. CASE a = Refused
    BY <2>2, NumbersAre DEF NoAnswer, Refused
  <2>3. CASE a \in [kind : {"result"}, session : 1..MaxSessions, more : BOOLEAN]
    BY <2>3, NumbersAre DEF NoAnswer, SessionOrNone
  <2> QED BY <2>1, <2>2, <2>3 DEF AnswerType
<1>3. \A n \in 1..MaxSessions, more \in BOOLEAN :
       /\ Result(n, more) \in AnswerType /\ Result(n, more).kind = "result"
       /\ Result(n, more).session = n /\ Result(n, more).more = more
  BY DEF AnswerType, Result
<1> QED BY <1>1, <1>2, <1>3

(* What an entry of the line is.                                           *)
LEMMA EntriesAre ==
  /\ \A e \in EntryType :
       /\ e.use \in Uses /\ e.for \in SessionOrNone /\ e.active \in BOOLEAN /\ e.waits \in BOOLEAN
       /\ e.answer \in AnswerType /\ e.answer.session \in Nat /\ e.for \in Nat
  /\ \A use \in Uses, n \in SessionOrNone :
       /\ Entry(use, n) \in EntryType
       /\ Entry(use, n).use = use /\ Entry(use, n).for = n /\ Entry(use, n).active
       /\ Entry(use, n).waits /\ Entry(use, n).answer = NoAnswer /\ ~Answered(Entry(use, n))
BY NumbersAre, AnswersAre DEF EntryType, Entry, Answered, NoAnswer

(* What a line is.                                                         *)
LEMMA LinesAre ==
  ASSUME NEW line \in Seq(EntryType)
  PROVE  /\ Len(line) \in Nat /\ DOMAIN line = 1..Len(line)
         /\ \A i \in DOMAIN line : line[i] \in EntryType
         /\ line = <<>> <=> Len(line) = 0
OBVIOUS

(* The fields of a tab that carry more than a plain value.                 *)
LEMMA TabsAre ==
  ASSUME NEW t \in Tabs
  PROVE  /\ t.line \in Seq(EntryType)
         /\ t.view \in ViewType /\ t.shown \in ViewType
         /\ t.export \in ExportType /\ t.file \in ExportType
         /\ t.rows \in [read : SessionOrNone, for : SessionOrNone]
         /\ t.view.session \in Nat /\ t.shown.session \in Nat /\ t.items \in Nat
         /\ t.rows.for \in Nat /\ t.rows.read \in Nat
         /\ t.socket \in Nat /\ t.loads \subseteq Nat /\ t.generation \in Nat
         /\ t.attempts \in Nat
<1>1. /\ t.line \in Seq(EntryType)
      /\ t.view \in ViewType /\ t.shown \in ViewType
      /\ t.export \in ExportType /\ t.file \in ExportType
      /\ t.rows \in [read : SessionOrNone, for : SessionOrNone]
  BY DEF Tabs
<1>2. /\ t.items \in SessionOrNone /\ t.socket \in Attempts \cup {0} /\ t.loads \subseteq Attempts
      /\ t.generation \in Nat /\ t.attempts \in 0..MaxRetries
  BY DEF Tabs
<1>3. /\ t.view.session \in SessionOrNone /\ t.shown.session \in SessionOrNone
      /\ t.rows.for \in SessionOrNone /\ t.rows.read \in SessionOrNone
  BY <1>1 DEF ViewType
<1>4. t.attempts \in Nat
  BY <1>2, NumbersAre
<1> QED BY <1>1, <1>2, <1>3, <1>4, NumbersAre

(* A session that is none.                                                 *)
LEMMA ViewsAre ==
  /\ \A state \in ClientStates, n \in SessionOrNone :
       /\ View(state, n) \in ViewType /\ View(state, n).state = state
       /\ View(state, n).session = n
  /\ NoExport \in ExportType /\ NoExport.read = {} /\ NoExport.owner = 0
BY NumbersAre DEF ViewType, View, NoExport, ExportType

(* How many requests wait.                                                 *)
LEMMA WaitingIs ==
  ASSUME NEW t \in Tabs
  PROVE  /\ IsFiniteSet(Waiting(t)) /\ Cardinality(Waiting(t)) \in Nat
         /\ Waiting(t) \subseteq 1..Len(t.line)
<1>1. Len(t.line) \in Nat /\ DOMAIN t.line = 1..Len(t.line)
  BY TabsAre, LinesAre
<1>2. Waiting(t) \subseteq 1..Len(t.line)
  BY <1>1 DEF Waiting
<1>3. IsFiniteSet(1..Len(t.line))
  BY <1>1, FS_Interval
<1> QED BY <1>2, <1>3, FS_Subset, FS_CardinalityType

(* Where fewer requests wait, no more do.                                  *)
LEMMA FewerWait ==
  ASSUME NEW t \in Tabs, NEW q \in Tabs, Waiting(q) \subseteq Waiting(t),
         Cardinality(Waiting(t)) <= MaxPending
  PROVE  Cardinality(Waiting(q)) <= MaxPending
<1>1. Cardinality(Waiting(q)) <= Cardinality(Waiting(t))
  BY WaitingIs, FS_Subset
<1> QED BY <1>1, WaitingIs, NumbersAre

(* Nobody waits on an empty line.                                          *)
LEMMA NobodyWaits ==
  ASSUME NEW t, t.line = <<>>
  PROVE  Waiting(t) = {}
BY DEF Waiting

-----------------------------------------------------------------------------
(* The client: promises.                                                   *)

(* The connection and its line are as before.                              *)
SameSocket(t, q) ==
  /\ q.disposed = t.disposed /\ q.generation = t.generation /\ q.retry = t.retry
  /\ q.socket = t.socket /\ q.loads = t.loads /\ q.live = t.live /\ q.line = t.line

(* What a rejection leaves.                                                *)
LEMMA RejectedIs ==
  ASSUME NEW t \in Tabs, NEW es \in SUBSET EntryType
  PROVE  LET q == Rejected(t, es)
         IN  /\ q \in Tabs /\ SameSocket(t, q) /\ Waiting(q) = Waiting(t)
             /\ q.kind = t.kind /\ q.file = t.file /\ q.shown = t.shown /\ q.rows = t.rows
             /\ q.items = t.items /\ q.auto = t.auto /\ q.born = t.born /\ q.state = t.state
             /\ q.attempts = t.attempts /\ q.connected = t.connected
             /\ q.refreshing <=> t.refreshing /\ \A e \in es : e.use # "refresh"
             /\ q.busy <=> t.busy /\ \A e \in es : ~EndsBusy(e)
             /\ q.view = t.view \/ q.view = View("unavailable", 0)
             /\ q.export = IF \E e \in es : e.use \in Runs THEN NoExport ELSE t.export
<1> DEFINE refreshing == t.refreshing /\ \A e \in es : e.use # "refresh"
           busy == t.busy /\ \A e \in es : ~EndsBusy(e)
           view == IF (\E e \in es : e.use = "refresh") /\ ~t.disposed
                   THEN View("unavailable", 0) ELSE t.view
           export == IF \E e \in es : e.use \in Runs THEN NoExport ELSE t.export
<1>1. Rejected(t, es)
        = [t EXCEPT !.refreshing = refreshing, !.view = view, !.busy = busy, !.export = export]
  BY DEF Rejected
<1>2. refreshing \in BOOLEAN /\ busy \in BOOLEAN
  BY DEF Tabs
<1>3. view \in ViewType /\ export \in ExportType
  BY TabsAre, ViewsAre, NumbersAre DEF ClientStates
<1>4. view = t.view \/ view = View("unavailable", 0)
  OBVIOUS
<1> HIDE DEF refreshing, busy, view, export
<1>5. Rejected(t, es) \in Tabs
  BY <1>1, <1>2, <1>3 DEF Tabs
<1>6. /\ SameSocket(t, Rejected(t, es)) /\ Waiting(Rejected(t, es)) = Waiting(t)
  BY <1>1 DEF SameSocket, Tabs, Waiting
<1> QED BY <1>1, <1>4, <1>5, <1>6 DEF Tabs, refreshing, busy, view, export

(* A page keeps what does not touch its connection.                        *)
LEMMA SocketKept ==
  ASSUME NEW t, NEW q, SameSocket(t, q), ConnectionOK(t)
  PROVE  ConnectionOK(q)
BY DEF SameSocket, ConnectionOK

(* Whoever waited is told.                                                 *)
LEMMA RejectedKeeps ==
  ASSUME NEW t, NEW s \in Nat, NEW es \in SUBSET EntryType, TabOK(t, es, s)
  PROVE  TabOK(Rejected(t, es), {}, s)
<1> DEFINE q == Rejected(t, es)
<1>0. t \in Tabs
  BY DEF TabOK
<1>1. /\ q \in Tabs /\ SameSocket(t, q) /\ Waiting(q) = Waiting(t)
      /\ q.kind = t.kind /\ q.file = t.file /\ q.shown = t.shown /\ q.rows = t.rows
      /\ q.items = t.items /\ q.auto = t.auto /\ q.line = t.line
      /\ q.refreshing <=> t.refreshing /\ \A e \in es : e.use # "refresh"
      /\ q.busy <=> t.busy /\ \A e \in es : ~EndsBusy(e)
      /\ q.view = t.view \/ q.view = View("unavailable", 0)
      /\ q.export = IF \E e \in es : e.use \in Runs THEN NoExport ELSE t.export
  BY <1>0, RejectedIs DEF SameSocket
<1> HIDE DEF q
<1>2. Cardinality(Waiting(q)) <= MaxPending
  BY <1>1 DEF TabOK
<1>3. ConnectionOK(q)
  BY <1>1, SocketKept DEF TabOK
<1>4. UsesOK(q, {}) /\ WaitingOK(q, {})
  <2>1. WaitingOK(t, es) /\ UsesOK(t, es)
    BY DEF TabOK
  <2>2. UsesOK(q, {})
    BY <1>1, <2>1 DEF UsesOK
  <2>3. DOMAIN t.line = 1..Len(t.line) /\ Waiting(t) \subseteq DOMAIN t.line
    BY <1>0, TabsAre, LinesAre DEF Waiting
  <2>4. ASSUME NEW i \in Waiting(t), t.line[i].use \in Runs
        PROVE  q.busy
    <3>1. t.busy /\ \A e \in es : e.use \notin Runs
      BY <2>1, <2>4 DEF WaitingOK, Awaited
    <3>2. \A e \in es : e.use # "retrieve"
      BY <2>1, <2>3, <2>4 DEF UsesOK, Asks, Runs
    <3> QED BY <1>1, <3>1, <3>2 DEF EndsBusy
  <2>5. q.busy => \E e \in Awaited(q, {}) : EndsBusy(e)
    BY <1>1, <2>1 DEF WaitingOK, Awaited
  <2>6. q.refreshing => \E e \in Awaited(q, {}) : e.use = "refresh"
    BY <1>1, <2>1 DEF WaitingOK, Awaited
  <2>7. q.export # NoExport => \E e \in Awaited(q, {}) : e.use \in {"export", "check"}
    BY <1>1, <2>1 DEF WaitingOK, Awaited, Runs
  <2>8. ASSUME NEW i \in Waiting(t), t.line[i].use \in {"export", "check"}
        PROVE  q.export = t.export
    BY <1>1, <2>1, <2>8 DEF WaitingOK, Runs
  <2>9. \A e \in Awaited(q, {}) :
          /\ e.use = "export" => q.export.read \subseteq {q.export.owner}
          /\ e.use = "check" => q.export.read = {q.export.owner}
    BY <1>1, <2>1, <2>8 DEF WaitingOK, Awaited
  <2>10. \A e \in Awaited(q, {}) : e.use \in Runs => q.busy
    BY <1>1, <2>4 DEF Awaited
  <2>11. q.kind # "privacy" => q.export = NoExport /\ q.file = NoExport
    BY <1>1, <2>1 DEF WaitingOK
  <2>12. \A i, j \in Waiting(q) : q.line[i].use \in Runs /\ q.line[j].use \in Runs => i = j
    BY <1>1, <2>1 DEF WaitingOK
  <2> QED BY <2>2, <2>5, <2>6, <2>7, <2>9, <2>10, <2>11, <2>12 DEF WaitingOK
<1>5. AnswersOK(q, s)
  <2>1. AnswersOK(t, s)
    BY DEF TabOK
  <2>2. View("unavailable", 0).session = 0
    BY DEF View
  <2>3. \A i \in DOMAIN t.line : t.line[i].answer.session \in Nat
    BY <1>0, TabsAre, LinesAre, EntriesAre
  <2>4. \A i \in DOMAIN q.line : InTime(q, q.line[i], s)
    BY <1>1, <2>1, <2>2, <2>3 DEF AnswersOK, InTime
  <2> QED BY <1>1, <2>1, <2>2, <2>4 DEF AnswersOK
<1>6. PanelOK(q)
  <2>1. PanelOK(t)
    BY DEF TabOK
  <2>2. View("unavailable", 0).session = 0
    BY DEF View
  <2> QED BY <1>1, <2>1, <2>2 DEF PanelOK
<1> QED BY <1>1, <1>2, <1>3, <1>4, <1>5, <1>6 DEF TabOK, q

(* A line with one more request.                                           *)
LEMMA AppendedIs ==
  ASSUME NEW t \in Tabs, NEW e \in EntryType, e.waits
  PROVE  LET q == [t EXCEPT !.line = Append(@, e)]
             n == Len(t.line) + 1
         IN  /\ q \in Tabs /\ n \in Nat
             /\ q = [t EXCEPT !.line = q.line]
             /\ DOMAIN t.line = 1..(n - 1) /\ DOMAIN q.line = 1..n
             /\ \A i \in DOMAIN t.line : q.line[i] = t.line[i] /\ i < n
             /\ q.line[n] = e
             /\ Waiting(q) = Waiting(t) \cup {n}
             /\ Cardinality(Waiting(q)) = Cardinality(Waiting(t)) + 1
<1> DEFINE line == Append(t.line, e)
           q == [t EXCEPT !.line = line]
           n == Len(t.line) + 1
<1>1. t.line \in Seq(EntryType) /\ Len(t.line) \in Nat /\ DOMAIN t.line = 1..Len(t.line)
  BY TabsAre, LinesAre
<1>2. line \in Seq(EntryType) /\ Len(line) = n /\ DOMAIN line = 1..n
      /\ line[n] = e /\ \A i \in 1..Len(t.line) : line[i] = t.line[i]
  BY <1>1, AppendProperties
<1>3. \A i \in DOMAIN t.line : i < n
  BY <1>1
<1> HIDE DEF line
<1>4. q \in Tabs /\ q.line = line
  BY <1>2 DEF Tabs
<1>5. Waiting(q) = Waiting(t) \cup {n}
  <2>1. \A i : i \in Waiting(q) <=> i \in 1..n /\ line[i].waits
    BY <1>2, <1>4 DEF Waiting
  <2>2. \A i : i \in Waiting(t) <=> i \in 1..Len(t.line) /\ t.line[i].waits
    BY <1>1 DEF Waiting
  <2>3. \A i : i \in 1..n <=> i \in 1..Len(t.line) \/ i = n
    BY <1>1
  <2>4. ASSUME NEW i PROVE i \in Waiting(q) <=> i \in Waiting(t) \cup {n}
    BY <1>2, <2>1, <2>2, <2>3
  <2> QED BY <2>4
<1>6. n \notin Waiting(t)
  BY <1>1, <1>3 DEF Waiting
<1>7. Cardinality(Waiting(q)) = Cardinality(Waiting(t)) + 1
  BY <1>5, <1>6, WaitingIs, FS_AddElement
<1>8. n \in Nat /\ DOMAIN t.line = 1..(n - 1)
  BY <1>1
<1> QED BY <1>1, <1>2, <1>3, <1>4, <1>5, <1>7, <1>8 DEF line

(* A request joins the line, or is told at once that it cannot.            *)
LEMMA RequestKeeps ==
  ASSUME NEW t, NEW s \in Nat, NEW use \in Uses, NEW n \in SessionOrNone, n <= s,
         TabOK(t, {Entry(use, n)}, s),
         t.kind = "panel" /\ use = "command" => t.shown.session # 0
  PROVE  TabOK(Request(t, use, n), {}, s)
<1> DEFINE e == Entry(use, n)
<1>0. /\ t \in Tabs /\ e \in EntryType /\ e.use = use /\ e.for = n /\ e.active /\ e.waits
      /\ ~Answered(e) /\ e.answer = NoAnswer
  BY EntriesAre DEF TabOK
<1>1. CASE ~MayRequest(t)
  <2>1. Request(t, use, n) = Rejected(t, {e})
    BY <1>1 DEF Request
  <2> QED BY <1>0, <2>1, RejectedKeeps
<1>2. CASE MayRequest(t)
  <2> DEFINE q == [t EXCEPT !.line = Append(@, e)]
             m == Len(t.line) + 1
  <2>1. Request(t, use, n) = q
    BY <1>2 DEF Request
  <2> HIDE DEF e
  <2>2. /\ q \in Tabs /\ m \in Nat
        /\ DOMAIN t.line = 1..(m - 1) /\ DOMAIN q.line = 1..m
        /\ \A i \in DOMAIN t.line : q.line[i] = t.line[i] /\ i < m
        /\ q.line[m] = e
        /\ Waiting(q) = Waiting(t) \cup {m}
        /\ Cardinality(Waiting(q)) = Cardinality(Waiting(t)) + 1
    BY <1>0, AppendedIs
  <2>3. /\ q.disposed = t.disposed /\ q.generation = t.generation /\ q.retry = t.retry
        /\ q.socket = t.socket /\ q.loads = t.loads /\ q.live = t.live
        /\ q.kind = t.kind /\ q.file = t.file /\ q.shown = t.shown /\ q.rows = t.rows
        /\ q.items = t.items /\ q.auto = t.auto /\ q.refreshing = t.refreshing
        /\ q.busy = t.busy /\ q.view = t.view /\ q.export = t.export
    BY <1>0 DEF Tabs
  <2> HIDE DEF q, m
  <2>4. Cardinality(Waiting(q)) <= MaxPending
    BY <1>0, <1>2, <2>2, WaitingIs, NumbersAre DEF MayRequest
  <2>5. ConnectionOK(q)
    BY <1>2, <2>3 DEF TabOK, ConnectionOK, MayRequest
  <2>6. \A i \in DOMAIN q.line : i \in DOMAIN t.line \/ i = m
    BY <2>2
  <2>7. UsesOK(q, {})
    BY <1>0, <2>2, <2>3, <2>6 DEF TabOK, UsesOK, e
  <2>8. Waiting(t) \subseteq DOMAIN t.line
    BY DEF Waiting
  <2>9. WaitingOK(q, {})
    <3>1. WaitingOK(t, {e})
      BY DEF TabOK, e
    <3>2. Awaited(q, {}) = Awaited(t, {e})
      BY <2>2, <2>8 DEF Awaited
    <3>3. \A i, j \in Waiting(q) : q.line[i].use \in Runs /\ q.line[j].use \in Runs => i = j
      BY <2>2, <2>8, <3>1 DEF WaitingOK
    <3> QED BY <2>3, <3>1, <3>2, <3>3 DEF WaitingOK
  <2>10. AnswersOK(q, s)
    <3>1. AnswersOK(t, s)
      BY DEF TabOK
    <3>2. \A i \in DOMAIN q.line : ~(m < i)
      BY <2>2
    <3>3. \A i, j \in DOMAIN q.line : i < j => i \in DOMAIN t.line
      BY <2>2
    <3>4. InTime(q, e, s)
      BY <1>0 DEF InTime, e
    <3>5. \A i \in DOMAIN q.line : InTime(q, q.line[i], s)
      BY <2>2, <2>3, <2>6, <3>1, <3>4 DEF AnswersOK, InTime
    <3>6. InOrder(q.line)
      <4>1. SUFFICES ASSUME NEW i \in DOMAIN q.line, NEW j \in DOMAIN q.line, i < j
                     PROVE  /\ q.line[j].answer # NoAnswer => q.line[i].answer # NoAnswer
                            /\ Answered(q.line[i]) /\ Answered(q.line[j]) =>
                                 q.line[i].answer.session <= q.line[j].answer.session
        BY DEF InOrder
      <4>2. CASE j = m
        BY <1>0, <2>2, <4>2 DEF Answered, e
      <4>3. CASE j \in DOMAIN t.line
        BY <2>2, <3>1, <3>3, <4>1, <4>3 DEF AnswersOK, InOrder
      <4> QED BY <2>6, <4>2, <4>3
    <3> QED BY <2>3, <3>1, <3>5, <3>6 DEF AnswersOK
  <2>11. PanelOK(q)
    BY <1>0, <2>2, <2>3, <2>6 DEF TabOK, PanelOK
  <2> QED BY <2>1, <2>2, <2>4, <2>5, <2>7, <2>9, <2>10, <2>11 DEF TabOK
<1> QED BY <1>1, <1>2

-----------------------------------------------------------------------------
(* The client: its state and its connection.                               *)

(* The page has what it had, but for the session the hook gives it.        *)
SameButView(t, q) ==
  /\ q.kind = t.kind /\ q.file = t.file /\ q.shown = t.shown /\ q.rows = t.rows
  /\ q.items = t.items /\ q.auto = t.auto /\ q.refreshing = t.refreshing
  /\ q.busy = t.busy /\ q.export = t.export

(* A page may always be told that there is no session.                     *)
LEMMA ViewKept ==
  ASSUME NEW t, NEW q \in Tabs, NEW es \in SUBSET EntryType, NEW s \in Nat, TabOK(t, es, s),
         q.line = t.line, ConnectionOK(q), SameButView(t, q),
         q.view = t.view \/ q.view.session = 0
  PROVE  TabOK(q, es, s)
<1>0. t \in Tabs
  BY DEF TabOK
<1>1. Waiting(q) = Waiting(t) /\ Awaited(q, es) = Awaited(t, es)
  BY DEF Waiting, Awaited
<1>2. UsesOK(q, es)
  BY DEF TabOK, UsesOK, SameButView
<1>3. WaitingOK(q, es)
  BY <1>1 DEF TabOK, WaitingOK, SameButView
<1>4. AnswersOK(q, s)
  <2>1. AnswersOK(t, s)
    BY DEF TabOK
  <2>2. \A i \in DOMAIN t.line : t.line[i].answer.session \in Nat
    BY <1>0, TabsAre, LinesAre, EntriesAre
  <2>3. \A i \in DOMAIN q.line : InTime(q, q.line[i], s)
    BY <2>1, <2>2 DEF AnswersOK, InTime, SameButView
  <2> QED BY <2>1, <2>3 DEF AnswersOK, SameButView
<1>5. PanelOK(q)
  BY DEF TabOK, PanelOK, SameButView
<1> QED BY <1>1, <1>2, <1>3, <1>4, <1>5 DEF TabOK

(* The hook asks for the session.                                          *)
LEMMA RefreshKeeps ==
  ASSUME NEW t, NEW s \in Nat, TabOK(t, {}, s)
  PROVE  TabOK(Refresh(t), {}, s)
<1>1. CASE t.disposed \/ t.refreshing \/ t.state # "ready"
  BY <1>1 DEF Refresh
<1>2. CASE ~(t.disposed \/ t.refreshing \/ t.state # "ready")
  <2> DEFINE q == [t EXCEPT !.refreshing = TRUE]
             e == Entry("refresh", 0)
  <2>1. t \in Tabs
    BY DEF TabOK
  <2>2. e \in EntryType /\ e.use = "refresh" /\ "refresh" \in Uses /\ 0 \in SessionOrNone /\ 0 <= s
    BY EntriesAre, NumbersAre DEF Uses
  <2>3. /\ q \in Tabs /\ SameSocket(t, q) /\ q.refreshing
        /\ q.kind = t.kind /\ q.file = t.file /\ q.shown = t.shown /\ q.rows = t.rows
        /\ q.items = t.items /\ q.auto = t.auto /\ q.view = t.view
        /\ q.busy = t.busy /\ q.export = t.export
    BY <2>1 DEF Tabs, SameSocket
  <2> HIDE DEF q, e
  <2>4. Waiting(q) = Waiting(t) /\ Awaited(q, {e}) = Awaited(t, {}) \cup {e}
    BY <2>3 DEF Waiting, Awaited, SameSocket
  <2>5. ConnectionOK(q)
    BY <2>3, SocketKept DEF TabOK
  <2>6. UsesOK(q, {e})
    BY <2>2, <2>3 DEF TabOK, UsesOK, SameSocket, Asks
  <2>7. WaitingOK(q, {e})
    <3>1. WaitingOK(t, {})
      BY DEF TabOK
    <3>2. e.use \notin Runs
      BY <2>2 DEF Runs
    <3> QED BY <2>2, <2>3, <2>4, <3>1, <3>2 DEF WaitingOK, SameSocket
  <2>8. AnswersOK(q, s)
    BY <2>3 DEF TabOK, AnswersOK, InTime, SameSocket
  <2>9. PanelOK(q)
    BY <2>3 DEF TabOK, PanelOK, SameSocket
  <2>10. TabOK(q, {Entry("refresh", 0)}, s)
    BY <2>3, <2>4, <2>5, <2>6, <2>7, <2>8, <2>9 DEF TabOK, e
  <2>11. TabOK(Request(q, "refresh", 0), {}, s)
    BY <2>2, <2>10, RequestKeeps
  <2>12. Refresh(t) = Request(q, "refresh", 0)
    BY <1>2 DEF Refresh, q
  <2> QED BY <2>11, <2>12
<1> QED BY <1>1, <1>2

(* The client announces a state.                                           *)
LEMMA SetStateKeeps ==
  ASSUME NEW t, NEW s \in Nat, TabOK(t, {}, s), NEW state \in ClientStates
  PROVE  TabOK(SetState(t, state), {}, s)
<1> DEFINE view == IF t.disposed THEN t.view ELSE View(state, 0)
           q == [t EXCEPT !.state = state, !.view = view]
<1>1. t \in Tabs
  BY DEF TabOK
<1>2. view \in ViewType /\ (view = t.view \/ view.session = 0)
  BY <1>1, TabsAre, ViewsAre, NumbersAre
<1> HIDE DEF view
<1>3. q \in Tabs /\ SameSocket(t, q) /\ SameButView(t, q) /\ q.view = view
  BY <1>1, <1>2 DEF Tabs, SameSocket, SameButView
<1>4. ConnectionOK(q)
  BY <1>3, SocketKept DEF TabOK
<1>5. TabOK(q, {}, s)
  BY <1>2, <1>3, <1>4, ViewKept DEF SameSocket
<1>6. SetState(t, state) = IF state = "ready" THEN Refresh(q) ELSE q
  BY DEF SetState, view
<1> HIDE DEF q
<1> QED BY <1>5, <1>6, RefreshKeeps

(* A new attempt begins, where there is neither a socket nor a retry due.  *)
LEMMA OpenKeeps ==
  ASSUME NEW t, NEW s \in Nat, TabOK(t, {}, s), t.socket = 0, ~t.retry, ~t.disposed,
         t.generation < MaxOpens \/ t.generation = 0
  PROVE  TabOK(Open(t), {}, s)
<1> DEFINE q == [t EXCEPT !.generation = @ + 1, !.loads = @ \cup {t.generation + 1}]
<1>1. t \in Tabs /\ t.generation \in Nat
  BY TabsAre DEF TabOK
<1>2. t.generation + 1 \in Attempts /\ t.generation + 1 \in Nat
  BY <1>1, NumbersAre DEF Attempts
<1>3. /\ q \in Tabs /\ SameButView(t, q) /\ q.line = t.line /\ q.view = t.view
      /\ q.disposed = t.disposed /\ q.retry = t.retry /\ q.socket = t.socket /\ q.live = t.live
      /\ q.generation = t.generation + 1 /\ q.loads = t.loads \cup {t.generation + 1}
  BY <1>1, <1>2 DEF Tabs, SameButView
<1>4. ConnectionOK(q)
  <2>1. \A attempt \in t.loads : attempt \in Nat /\ attempt <= t.generation
    BY <1>1, TabsAre DEF TabOK, ConnectionOK
  <2> QED BY <1>1, <1>3, <2>1 DEF TabOK, ConnectionOK
<1>5. TabOK(q, {}, s)
  BY <1>3, <1>4, ViewKept
<1>6. Open(t) = SetState(q, "connecting")
  BY DEF Open
<1> HIDE DEF q
<1> QED BY <1>5, <1>6, SetStateKeeps DEF ClientStates

(* connect(): on a button, an effect or the first time.                    *)
LEMMA ConnectKeeps ==
  ASSUME NEW t, NEW s \in Nat, TabOK(t, {}, s),
         t.generation < MaxOpens \/ t.generation = 0
  PROVE  TabOK(Connect(t), {}, s)
<1> DEFINE q == [t EXCEPT !.retry = FALSE, !.attempts = 0]
<1>1. t \in Tabs
  BY DEF TabOK
<1>2. CASE t.disposed \/ (t.socket # 0 /\ t.state # "ready")
  BY <1>2 DEF Connect
<1>3. CASE ~(t.disposed \/ (t.socket # 0 /\ t.state # "ready")) /\ t.socket # 0
  <2>1. Connect(t) = SetState(t, "ready")
    BY <1>3 DEF Connect
  <2> QED BY <2>1, SetStateKeeps DEF ClientStates
<1>4. CASE ~t.disposed /\ t.socket = 0
  <2>1. /\ q \in Tabs /\ SameButView(t, q) /\ q.line = t.line /\ q.view = t.view
        /\ q.disposed = t.disposed /\ ~q.retry /\ q.socket = t.socket /\ q.live = t.live
        /\ q.generation = t.generation /\ q.loads = t.loads
    <3>1. 0 \in 0..MaxRetries
      BY NumbersAre
    <3> QED BY <1>1, <3>1 DEF Tabs, SameButView
  <2>2. ConnectionOK(q)
    BY <2>1 DEF TabOK, ConnectionOK
  <2>3. TabOK(q, {}, s)
    BY <2>1, <2>2, ViewKept
  <2>4. Connect(t) = Open(q)
    BY <1>4 DEF Connect
  <2> HIDE DEF q
  <2> QED BY <1>4, <2>1, <2>3, <2>4, OpenKeeps
<1> QED BY <1>2, <1>3, <1>4

(* The line is given up with all it holds, and everybody is told.          *)
LEMMA FailedKeeps ==
  ASSUME NEW t \in Tabs, NEW s \in Nat, UsesOK(t, {}), WaitingOK(t, {}), AnswersOK(t, s),
         PanelOK(t), t.socket = 0, t.live = {}, ~t.retry,
         \A attempt \in t.loads : attempt <= t.generation,
         t.generation \in t.loads => t.disposed
  PROVE  TabOK(Failed(t), {}, s)
<1> DEFINE u == [t EXCEPT !.line = <<>>]
           es == {t.line[i] : i \in Waiting(t)}
           rejected == Rejected(u, es)
           told == SetState(rejected, "unavailable")
           q == [told EXCEPT !.attempts = @ + 1, !.retry = TRUE]
<1>1. /\ u \in Tabs /\ u.line = <<>> /\ SameButView(t, u) /\ u.view = t.view
      /\ u.disposed = t.disposed /\ u.retry = t.retry /\ u.socket = t.socket /\ u.live = t.live
      /\ u.generation = t.generation /\ u.loads = t.loads
  <2>1. <<>> \in Seq(EntryType)
    OBVIOUS
  <2> QED BY <2>1 DEF Tabs, SameButView
<1>2. es \in SUBSET EntryType
  BY TabsAre, LinesAre DEF Waiting
<1>3. Waiting(u) = {} /\ Awaited(u, es) = Awaited(t, {})
  BY <1>1, NobodyWaits DEF Awaited
<1> HIDE DEF u
<1>4. TabOK(u, es, s)
  <2>1. Cardinality(Waiting(u)) <= MaxPending
    BY <1>3, FS_EmptySet, NumbersAre
  <2>2. ConnectionOK(u)
    BY <1>1 DEF ConnectionOK
  <2>3. UsesOK(u, es)
    BY <1>1 DEF UsesOK, SameButView, Waiting
  <2>4. WaitingOK(u, es)
    BY <1>1, <1>3 DEF WaitingOK, SameButView
  <2>5. AnswersOK(u, s)
    BY <1>1 DEF AnswersOK, InOrder, SameButView
  <2>6. PanelOK(u)
    BY <1>1 DEF PanelOK, SameButView
  <2> QED BY <1>1, <2>1, <2>2, <2>3, <2>4, <2>5, <2>6 DEF TabOK
<1>5. TabOK(rejected, {}, s) /\ SameSocket(u, rejected)
  BY <1>1, <1>2, <1>4, RejectedKeeps, RejectedIs
<1> HIDE DEF rejected, es
<1>6. rejected \in Tabs
  BY <1>5 DEF TabOK
<1>7. TabOK(told, {}, s)
  BY <1>5, SetStateKeeps DEF ClientStates
<1>8. /\ told.disposed = t.disposed /\ told.socket = 0 /\ told.generation = t.generation
      /\ told.loads = t.loads /\ told.live = {} /\ told.line = <<>>
  BY <1>1, <1>5, <1>6 DEF SetState, SameSocket, Tabs
<1>9. Failed(t) = IF t.disposed THEN rejected
                  ELSE IF told.attempts < MaxRetries THEN q ELSE told
  BY DEF Failed, rejected, es, u
<1> HIDE DEF told
<1>10. ASSUME ~t.disposed, told.attempts < MaxRetries
       PROVE  TabOK(q, {}, s)
  <2>1. told \in Tabs /\ told.attempts \in Nat
    BY <1>7, TabsAre DEF TabOK
  <2>2. told.attempts + 1 \in 0..MaxRetries
    BY <1>10, <2>1, NumbersAre
  <2>3. /\ q \in Tabs /\ SameButView(told, q) /\ q.line = told.line /\ q.view = told.view
        /\ q.disposed = told.disposed /\ q.socket = told.socket /\ q.live = told.live
        /\ q.generation = told.generation /\ q.loads = told.loads
    BY <2>1, <2>2 DEF Tabs, SameButView
  <2>4. ConnectionOK(q)
    BY <1>8, <1>10, <2>3 DEF ConnectionOK
  <2> HIDE DEF q
  <2> QED BY <1>7, <2>3, <2>4, ViewKept
<1> QED BY <1>5, <1>7, <1>9, <1>10

(* The socket told to close is not heard any more.                         *)
LEMMA ClosingKeeps ==
  ASSUME NEW t, NEW s \in Nat, TabOK(t, {}, s)
  PROVE  /\ TabOK(Closing(t), {}, s) /\ Closing(t).live = {}
         /\ Closing(t) = [t EXCEPT !.live = Closing(t).live]
<1> DEFINE q == [t EXCEPT !.live = @ \ {t.socket}]
<1>1. t \in Tabs
  BY DEF TabOK
<1>2. /\ q \in Tabs /\ SameButView(t, q) /\ q.line = t.line /\ q.view = t.view
      /\ q.disposed = t.disposed /\ q.retry = t.retry /\ q.socket = t.socket
      /\ q.generation = t.generation /\ q.loads = t.loads /\ q.live = t.live \ {t.socket}
  BY <1>1 DEF Tabs, SameButView
<1>3. ConnectionOK(q) /\ q.live = {}
  BY <1>2 DEF TabOK, ConnectionOK
<1>4. TabOK(q, {}, s)
  BY <1>2, <1>3, ViewKept
<1>5. Closing(t) = q
  BY DEF Closing
<1> QED BY <1>3, <1>4, <1>5

(* The socket is over.                                                     *)
LEMMA EndedKeeps ==
  ASSUME NEW t, NEW s \in Nat, TabOK(t, {}, s), t.socket # 0
  PROVE  TabOK(Ended(t), {}, s)
<1> DEFINE u == Closing(t)
           q == [u EXCEPT !.socket = 0]
<1>1. TabOK(u, {}, s) /\ u.live = {} /\ u = [t EXCEPT !.live = u.live]
  BY ClosingKeeps
<1>2. u \in Tabs /\ t \in Tabs
  BY <1>1 DEF TabOK
<1>3. u.socket = t.socket /\ u.disposed = t.disposed
  BY <1>1, <1>2 DEF Tabs
<1> HIDE DEF u
<1>4. /\ q \in Tabs /\ SameButView(u, q) /\ q.line = u.line /\ q.view = u.view
      /\ q.disposed = u.disposed /\ q.retry = u.retry /\ q.socket = 0 /\ q.live = {}
      /\ q.generation = u.generation /\ q.loads = u.loads
  BY <1>1, <1>2 DEF Tabs, SameButView
<1>5. /\ ~q.retry /\ (q.generation \in q.loads => q.disposed)
      /\ \A attempt \in q.loads : attempt <= q.generation
  BY <1>1, <1>3, <1>4 DEF TabOK, ConnectionOK
<1>6. UsesOK(q, {})
  BY <1>1, <1>4 DEF TabOK, UsesOK, SameButView
<1>7. WaitingOK(q, {})
  BY <1>1, <1>4 DEF TabOK, WaitingOK, Awaited, Waiting, SameButView
<1>8. AnswersOK(q, s)
  BY <1>1, <1>4 DEF TabOK, AnswersOK, InTime, SameButView
<1>9. PanelOK(q)
  BY <1>1, <1>4 DEF TabOK, PanelOK, SameButView
<1>10. Ended(t) = Failed(q)
  BY DEF Ended, u
<1> HIDE DEF q
<1> QED BY <1>4, <1>5, <1>6, <1>7, <1>8, <1>9, <1>10, FailedKeeps

(* The client is given up for good.                                        *)
LEMMA DisposeKeeps ==
  ASSUME NEW t, NEW s \in Nat, TabOK(t, {}, s)
  PROVE  TabOK(Dispose(t), {}, s)
<1> DEFINE u == Closing(t)
           q == [u EXCEPT !.disposed = TRUE, !.generation = @ + 1, !.retry = FALSE, !.socket = 0]
<1>1. TabOK(u, {}, s) /\ u.live = {}
  BY ClosingKeeps
<1>2. u \in Tabs /\ u.generation \in Nat /\ u.generation + 1 \in Nat /\ u.loads \subseteq Nat
  BY <1>1, TabsAre DEF TabOK
<1> HIDE DEF u
<1>4. /\ q \in Tabs /\ SameButView(u, q) /\ q.line = u.line /\ q.view = u.view
      /\ q.disposed /\ ~q.retry /\ q.socket = 0 /\ q.live = {}
      /\ q.generation = u.generation + 1 /\ q.loads = u.loads
  BY <1>1, <1>2, NumbersAre DEF Tabs, SameButView
<1>5. \A attempt \in q.loads : attempt <= q.generation
  BY <1>1, <1>2, <1>4 DEF TabOK, ConnectionOK
<1>6. UsesOK(q, {})
  BY <1>1, <1>4 DEF TabOK, UsesOK, SameButView
<1>7. WaitingOK(q, {})
  BY <1>1, <1>4 DEF TabOK, WaitingOK, Awaited, Waiting, SameButView
<1>8. AnswersOK(q, s)
  BY <1>1, <1>4 DEF TabOK, AnswersOK, InTime, SameButView
<1>9. PanelOK(q)
  BY <1>1, <1>4 DEF TabOK, PanelOK, SameButView
<1>10. Dispose(t) = Failed(q)
  BY DEF Dispose, u
<1> HIDE DEF q
<1> QED BY <1>4, <1>5, <1>6, <1>7, <1>8, <1>9, <1>10, FailedKeeps

(* What the disposed client leaves to its socket and its waits.            *)
LEMMA DisposeLeaves ==
  ASSUME NEW t, NEW s \in Nat, TabOK(t, {}, s)
  PROVE  /\ Dispose(t).loads = t.loads /\ Dispose(t).live = {}
         /\ Dispose(t).signing \in SUBSET Attempts
<1> DEFINE u == Closing(t)
           q == [u EXCEPT !.disposed = TRUE, !.generation = @ + 1, !.retry = FALSE, !.socket = 0]
           w == [q EXCEPT !.line = <<>>]
           es == {q.line[i] : i \in Waiting(q)}
<1>1. TabOK(u, {}, s) /\ u.live = {} /\ u = [t EXCEPT !.live = u.live]
  BY ClosingKeeps
<1>2. t \in Tabs /\ u \in Tabs /\ u.generation \in Nat /\ u.generation + 1 \in Nat
  BY <1>1, TabsAre DEF TabOK
<1>3. u.loads = t.loads
  BY <1>1, <1>2 DEF Tabs
<1> HIDE DEF u
<1>4. q \in Tabs /\ q.disposed /\ q.live = {} /\ q.loads = t.loads
  BY <1>1, <1>2, <1>3, NumbersAre DEF Tabs
<1>5. Dispose(t) = Failed(q)
  BY DEF Dispose, u
<1> HIDE DEF q
<1>6. w \in Tabs /\ w.disposed /\ w.live = {} /\ w.loads = t.loads
  <2>1. <<>> \in Seq(EntryType)
    OBVIOUS
  <2> QED BY <1>4, <2>1 DEF Tabs
<1>7. es \in SUBSET EntryType
  BY <1>4, TabsAre, LinesAre DEF Waiting
<1>8. Failed(q) = Rejected(w, es)
  BY <1>4 DEF Failed
<1> HIDE DEF w, es
<1>9. Rejected(w, es) \in Tabs /\ Rejected(w, es).live = {} /\ Rejected(w, es).loads = t.loads
  BY <1>6, <1>7, RejectedIs DEF SameSocket
<1> QED BY <1>5, <1>8, <1>9 DEF Tabs

(* A page with nothing in it.                                              *)
LEMMA FreshIs ==
  ASSUME NEW kind \in Kinds
  PROVE  Fresh(kind) \in Tabs
<1>1. <<>> \in Seq(EntryType)
  OBVIOUS
<1>2. View("disconnected", 0) \in ViewType /\ NoExport \in ExportType
  BY ViewsAre, NumbersAre DEF ClientStates
<1>3. NoRows \in [read : SessionOrNone, for : SessionOrNone] /\ 0 \in SessionOrNone
  BY NumbersAre DEF NoRows
<1>4. 0 \in 0..MaxRetries /\ 0 \in Nat
  BY NumbersAre
<1> QED BY <1>1, <1>2, <1>3, <1>4 DEF Fresh, Tabs, ClientStates, Phases

(* It waits for nothing and nobody waits for it.                           *)
LEMMA EmptyKeeps ==
  ASSUME NEW t \in Tabs, NEW s \in Nat, t.line = <<>>, t.socket = 0, t.live = {}, ~t.retry, ~t.disposed,
         \A attempt \in t.loads : attempt <= t.generation,
         ~t.busy, ~t.refreshing, t.export = NoExport, t.file = NoExport, t.view.session = 0,
         t.shown.session = 0, t.rows = NoRows, t.items = 0, ~t.auto
  PROVE  TabOK(t, {}, s)
<1>1. Waiting(t) = {} /\ Awaited(t, {}) = {}
  BY NobodyWaits DEF Awaited
<1>2. Cardinality(Waiting(t)) <= MaxPending
  BY <1>1, FS_EmptySet, NumbersAre
<1>3. ConnectionOK(t)
  BY DEF ConnectionOK
<1>4. UsesOK(t, {})
  BY DEF UsesOK
<1>5. WaitingOK(t, {})
  BY <1>1 DEF WaitingOK
<1>6. AnswersOK(t, s)
  BY DEF AnswersOK, InOrder, NoRows
<1>7. PanelOK(t)
  BY DEF PanelOK
<1> QED BY <1>2, <1>3, <1>4, <1>5, <1>6, <1>7 DEF TabOK

(* A socket is made, and the handshake goes on.                            *)
LEMMA SocketMadeKeeps ==
  ASSUME NEW t, NEW s \in Nat, TabOK(t, {}, s), NEW attempt \in Attempts,
         attempt = t.generation, t.generation \notin t.loads, t.socket = 0, ~t.retry, ~t.disposed
  PROVE  TabOK(SocketMade(t, attempt), {}, s)
<1> DEFINE q == SocketMade(t, attempt)
<1>1. t \in Tabs
  BY DEF TabOK
<1>2. /\ q \in Tabs /\ SameButView(t, q) /\ q.line = t.line /\ q.view = t.view
      /\ q.disposed = t.disposed /\ q.retry = t.retry /\ q.socket = attempt
      /\ q.generation = t.generation /\ q.loads = t.loads /\ q.live = t.live \cup {attempt}
  BY <1>1 DEF Tabs, SameButView, SocketMade, Phases
<1>3. t.live = {}
  BY <1>1, NumbersAre DEF TabOK, ConnectionOK, Tabs
<1>4. ConnectionOK(q)
  BY <1>2, <1>3 DEF TabOK, ConnectionOK
<1> HIDE DEF q
<1>5. TabOK(q, {}, s)
  BY <1>2, <1>4, ViewKept
<1> QED BY <1>5 DEF q

(* The host has accepted the proof.                                        *)
LEMMA ReadyKeeps ==
  ASSUME NEW t, NEW s \in Nat, TabOK(t, {}, s)
  PROVE  TabOK(Ready(t), {}, s)
<1> DEFINE q == [t EXCEPT !.phase = "active", !.attempts = 0]
<1>1. t \in Tabs /\ 0 \in 0..MaxRetries
  BY NumbersAre DEF TabOK
<1>2. /\ q \in Tabs /\ SameButView(t, q) /\ SameSocket(t, q) /\ q.view = t.view
  BY <1>1 DEF Tabs, SameButView, SameSocket, Phases
<1>3. ConnectionOK(q)
  BY <1>2, SocketKept DEF TabOK
<1>4. TabOK(q, {}, s)
  BY <1>2, <1>3, ViewKept DEF SameSocket
<1>5. Ready(t) = SetState(q, "ready")
  BY DEF Ready
<1> HIDE DEF q
<1> QED BY <1>4, <1>5, SetStateKeeps DEF ClientStates

-----------------------------------------------------------------------------
(* The page: what it asks.                                                 *)

(* A line of which some requests are fenced off.                           *)
LEMMA FencedIs ==
  ASSUME NEW line \in Seq(EntryType), NEW uses
  PROVE  LET new == Fenced(line, uses)
         IN  /\ new \in Seq(EntryType) /\ DOMAIN new = DOMAIN line
             /\ \A i \in DOMAIN line :
                  /\ new[i].use = line[i].use /\ new[i].for = line[i].for
                  /\ new[i].waits = line[i].waits /\ new[i].answer = line[i].answer
                  /\ new[i].active <=> line[i].active /\ line[i].use \notin uses
<1> DEFINE new == Fenced(line, uses)
<1>1. Len(line) \in Nat /\ DOMAIN line = 1..Len(line) /\ \A i \in DOMAIN line : line[i] \in EntryType
  BY LinesAre
<1>2. new = [i \in 1..Len(line) |-> [line[i] EXCEPT !.active = @ /\ line[i].use \notin uses]]
  BY <1>1 DEF Fenced
<1>3. \A i \in 1..Len(line) :
        [line[i] EXCEPT !.active = @ /\ line[i].use \notin uses] \in EntryType
  BY <1>1 DEF EntryType
<1>4. new \in Seq(EntryType) /\ DOMAIN new = DOMAIN line
  BY <1>1, <1>2, <1>3, IsASeq
<1>5. ASSUME NEW i \in DOMAIN line
      PROVE  /\ new[i].use = line[i].use /\ new[i].for = line[i].for
             /\ new[i].waits = line[i].waits /\ new[i].answer = line[i].answer
             /\ new[i].active <=> line[i].active /\ line[i].use \notin uses
  <2>1. new[i] = [line[i] EXCEPT !.active = @ /\ line[i].use \notin uses] /\ line[i] \in EntryType
    BY <1>1, <1>2
  <2> QED BY <2>1 DEF EntryType
<1> QED BY <1>4, <1>5

(* The line changes in nothing but whose answers are still cared for.      *)
SameLine(t, q) ==
  /\ DOMAIN q.line = DOMAIN t.line /\ (q.line = <<>> <=> t.line = <<>>)
  /\ \A i \in DOMAIN t.line :
       /\ q.line[i].use = t.line[i].use /\ q.line[i].for = t.line[i].for
       /\ q.line[i].waits = t.line[i].waits /\ q.line[i].answer = t.line[i].answer
       /\ q.line[i].active => t.line[i].active

SameTransport(t, q) ==
  /\ q.disposed = t.disposed /\ q.generation = t.generation /\ q.retry = t.retry
  /\ q.socket = t.socket /\ q.loads = t.loads /\ q.live = t.live

(* What a fence leaves alone.                                              *)
LEMMA FenceKeeps ==
  ASSUME NEW t, NEW q \in Tabs, NEW s \in Nat, TabOK(t, {}, s), SameLine(t, q), SameTransport(t, q),
         q.kind = t.kind
  PROVE  /\ Waiting(q) = Waiting(t) /\ Cardinality(Waiting(q)) <= MaxPending
         /\ ConnectionOK(q) /\ UsesOK(q, {}) /\ InOrder(q.line)
<1>1. Waiting(q) = Waiting(t)
  BY DEF Waiting, SameLine
<1>2. ConnectionOK(q)
  BY DEF TabOK, ConnectionOK, SameTransport, SameLine
<1>3. UsesOK(q, {})
  BY DEF TabOK, UsesOK, SameLine
<1>4. InOrder(q.line)
  BY DEF TabOK, AnswersOK, InOrder, SameLine, Answered
<1> QED BY <1>1, <1>2, <1>3, <1>4 DEF TabOK

(* What the panel may be made into when it shows what the hook has: what   *)
(* it asked for an earlier session is void.                                *)
LEMMA ShownKeeps ==
  ASSUME NEW t, NEW q \in Tabs, NEW s \in Nat, TabOK(t, {}, s), t.kind = "panel", q.kind = "panel",
         SameLine(t, q), SameTransport(t, q), q.shown = t.view, q.view = t.view, q.file = t.file,
         q.rows = t.rows, q.refreshing = t.refreshing, q.export = t.export, ~q.busy,
         \A i \in DOMAIN t.line : q.line[i].active => q.line[i].use # "retrieve",
         \/ t.view.session = t.shown.session /\ q.items = t.items
         \/ /\ q.items = 0
            /\ \A i \in DOMAIN t.line : q.line[i].active => q.line[i].use # "command",
         q.auto => q.shown.session # 0
  PROVE  TabOK(q, {}, s)
<1>1. Waiting(q) = Waiting(t) /\ Cardinality(Waiting(q)) <= MaxPending
      /\ ConnectionOK(q) /\ UsesOK(q, {}) /\ InOrder(q.line)
  BY FenceKeeps
<1>2. Waiting(t) \subseteq DOMAIN t.line /\ DOMAIN q.line = DOMAIN t.line
  BY DEF Waiting, SameLine
<1>3. WaitingOK(q, {})
  <2>1. \A i \in DOMAIN q.line : q.line[i].use \notin Runs
    BY <1>1 DEF UsesOK, Asks, Runs
  <2>2. q.refreshing => \E i \in Waiting(q) : q.line[i].use = "refresh"
    BY <1>1, <1>2 DEF TabOK, WaitingOK, Awaited, SameLine
  <2>3. q.export = NoExport /\ q.file = NoExport
    BY DEF TabOK, WaitingOK
  <2> QED BY <1>1, <1>2, <2>1, <2>2, <2>3 DEF WaitingOK, Awaited, Runs
<1>4. AnswersOK(q, s)
  <2>1. \A i \in DOMAIN q.line : InTime(q, q.line[i], s)
    BY DEF TabOK, AnswersOK, InTime, Answered, SameLine
  <2> QED BY <1>1, <2>1 DEF TabOK, AnswersOK
<1>5. PanelOK(q)
  BY <1>2 DEF TabOK, PanelOK, SameLine
<1> QED BY <1>1, <1>3, <1>4, <1>5 DEF TabOK

(* The panel's effects up to its own question.                             *)
LEMMA AutoEffectKeeps ==
  ASSUME NEW t, NEW s \in Nat, TabOK(t, {}, s), t.kind = "panel", t.shown # t.view
  PROVE  LET q == AutoEffect(Remounted([t EXCEPT !.shown = t.view], t.shown))
         IN  TabOK(q, {}, s) /\ q.kind = "panel" /\ q.shown = t.view /\ q.generation = t.generation
<1> DEFINE u == [t EXCEPT !.shown = t.view]
           r == Remounted(u, t.shown)
           q == AutoEffect(r)
           changed == Fenced(u.line, {"retrieve", "command"})
           line == Fenced(r.line, {"retrieve"})
           auto == r.shown.state = "ready" /\ r.shown.session # 0
<1>1. t \in Tabs /\ t.line \in Seq(EntryType) /\ t.view \in ViewType /\ t.shown \in ViewType
  BY TabsAre DEF TabOK
<1>2. u \in Tabs /\ u.shown = t.view /\ u.kind = "panel" /\ u.line = t.line
      /\ SameTransport(t, u)
      /\ u.view = t.view /\ u.file = t.file /\ u.rows = t.rows /\ u.items = t.items
      /\ u.refreshing = t.refreshing /\ u.busy = t.busy /\ u.export = t.export
  BY <1>1 DEF Tabs, SameTransport
<1> HIDE DEF u
<1>3. /\ changed \in Seq(EntryType) /\ DOMAIN changed = DOMAIN t.line
      /\ \A i \in DOMAIN t.line :
           /\ changed[i].use = t.line[i].use /\ changed[i].for = t.line[i].for
           /\ changed[i].waits = t.line[i].waits /\ changed[i].answer = t.line[i].answer
           /\ changed[i].active <=> t.line[i].active /\ t.line[i].use \notin {"retrieve", "command"}
  BY <1>1, <1>2, FencedIs
<1> HIDE DEF changed
<1>4. ASSUME t.view.session = t.shown.session
      PROVE  ~t.busy
  <2>1. t.shown.state # t.view.state
    BY <1>1, <1>4 DEF ViewType
  <2> QED BY <1>4, <2>1 DEF TabOK, PanelOK
<1>5. /\ r \in Tabs /\ r.shown = t.view /\ r.kind = "panel" /\ SameTransport(t, r) /\ SameLine(t, r)
      /\ r.view = t.view /\ r.file = t.file /\ r.rows = t.rows
      /\ r.refreshing = t.refreshing /\ ~r.busy /\ r.export = t.export
      /\ \/ t.view.session = t.shown.session /\ r.items = t.items
         \/ /\ r.items = 0
            /\ \A i \in DOMAIN t.line : r.line[i].active => r.line[i].use # "command"
  <2>1. CASE t.view.session = t.shown.session
    <3>1. r = u
      BY <1>2, <2>1 DEF Remounted
    <3>2. SameLine(t, u)
      BY <1>2 DEF SameLine
    <3> QED BY <1>2, <1>4, <2>1, <3>1, <3>2
  <2>2. CASE t.view.session # t.shown.session
    <3>1. r = [u EXCEPT !.line = changed, !.items = 0, !.busy = FALSE]
      BY <1>2, <2>2 DEF Remounted, changed
    <3>2. /\ r \in Tabs /\ r.line = changed /\ r.shown = t.view /\ r.kind = "panel"
          /\ SameTransport(t, r) /\ r.view = t.view /\ r.file = t.file /\ r.rows = t.rows
          /\ r.refreshing = t.refreshing /\ ~r.busy /\ r.export = t.export /\ r.items = 0
      <4>1. 0 \in SessionOrNone
        BY NumbersAre
      <4>2. r \in Tabs
        <5> DEFINE v == [u EXCEPT !.line = changed]
        <5>1. v \in Tabs
          BY <1>2, <1>3 DEF Tabs
        <5>2. r = [v EXCEPT !.items = 0, !.busy = FALSE]
          BY <3>1
        <5> HIDE DEF v
        <5> QED BY <4>1, <5>1, <5>2 DEF Tabs
      <4> QED BY <1>2, <3>1, <4>2 DEF Tabs, SameTransport
    <3>3. changed = <<>> <=> t.line = <<>>
      BY <1>1, <1>3
    <3>4. SameLine(t, r)
      BY <1>3, <3>2, <3>3 DEF SameLine
    <3> QED BY <1>3, <3>2, <3>4
  <2> QED BY <2>1, <2>2
<1> HIDE DEF r
<1>6. /\ line \in Seq(EntryType) /\ DOMAIN line = DOMAIN r.line
      /\ \A i \in DOMAIN r.line :
           /\ line[i].use = r.line[i].use /\ line[i].for = r.line[i].for
           /\ line[i].waits = r.line[i].waits /\ line[i].answer = r.line[i].answer
           /\ line[i].active <=> r.line[i].active /\ r.line[i].use \notin {"retrieve"}
  BY <1>5, FencedIs, TabsAre
<1>7. q = [r EXCEPT !.line = line, !.auto = auto] /\ auto \in BOOLEAN
  BY DEF AutoEffect
<1>8. auto => r.shown.session # 0
  OBVIOUS
<1> HIDE DEF line, auto
<1>9. /\ q \in Tabs /\ q.line = line /\ q.auto = auto /\ q.shown = t.view /\ q.kind = "panel"
      /\ SameTransport(t, q) /\ q.view = t.view /\ q.file = t.file /\ q.rows = t.rows
      /\ q.refreshing = t.refreshing /\ ~q.busy /\ q.export = t.export /\ q.items = r.items
  <2>1. q \in Tabs
    BY <1>5, <1>6, <1>7 DEF Tabs
  <2> QED BY <1>5, <1>7, <2>1 DEF Tabs, SameTransport
<1> HIDE DEF q
<1>10. SameLine(t, q)
  <2>1. line = <<>> <=> r.line = <<>>
    BY <1>5, <1>6, TabsAre
  <2> QED BY <1>5, <1>6, <1>9, <2>1 DEF SameLine
<1>11. \A i \in DOMAIN t.line : q.line[i].active => q.line[i].use # "retrieve"
  BY <1>5, <1>6, <1>9 DEF SameLine
<1>12. \/ t.view.session = t.shown.session /\ q.items = t.items
       \/ /\ q.items = 0
          /\ \A i \in DOMAIN t.line : q.line[i].active => q.line[i].use # "command"
  BY <1>5, <1>6, <1>9 DEF SameLine
<1>13. TabOK(q, {}, s)
  BY <1>4, <1>5, <1>8, <1>9, <1>10, <1>11, <1>12, ShownKeeps
<1> QED BY <1>9, <1>13 DEF q, r, u, SameTransport

(* The terminal beside the panel has changed, or the panel is rendered.    *)
LEMMA TerminalEffectKeeps ==
  ASSUME NEW t, NEW s \in Nat, TabOK(t, {}, s), t.kind = "panel", NEW analytics \in BOOLEAN,
         t.shown.state = "pairing-required" => t.generation < MaxOpens
  PROVE  TabOK(TerminalEffect(t, analytics), {}, s)
<1> DEFINE paired == IF t.connected /\ t.shown.state = "pairing-required" THEN Connect(t) ELSE t
           e == Entry("record", 0)
<1>1. TabOK(paired, {}, s)
  BY ConnectKeeps
<1>2. CASE ~(t.shown.state = "ready" /\ t.shown.session # 0 /\ analytics)
  <2>1. TerminalEffect(t, analytics) = paired
    BY <1>2 DEF TerminalEffect
  <2> QED BY <1>1, <2>1
<1>3. CASE t.shown.state = "ready" /\ t.shown.session # 0 /\ analytics
  <2>1. TerminalEffect(t, analytics) = Request(t, "record", 0)
    BY <1>3 DEF TerminalEffect
  <2>2. "record" \in Uses /\ 0 \in SessionOrNone /\ 0 <= s /\ e.use = "record"
    BY NumbersAre, EntriesAre DEF Uses
  <2> HIDE DEF e
  <2>3. TabOK(t, {e}, s)
    <3>1. Awaited(t, {e}) = Awaited(t, {}) \cup {e}
      BY DEF Awaited
    <3>2. UsesOK(t, {e})
      BY <2>2 DEF TabOK, UsesOK, Asks
    <3>3. WaitingOK(t, {e})
      BY <2>2, <3>1 DEF TabOK, WaitingOK, Runs
    <3> QED BY <3>2, <3>3 DEF TabOK
  <2> QED BY <2>1, <2>2, <2>3, RequestKeeps DEF e
<1> QED BY <1>2, <1>3

(* The history is asked for, for the session on show.                      *)
LEMMA LoadEffectKeeps ==
  ASSUME NEW t, NEW s \in Nat, TabOK(t, {}, s), t.kind = "history"
  PROVE  TabOK(LoadEffect([t EXCEPT !.shown = t.view]), {}, s)
<1> DEFINE u == [t EXCEPT !.shown = t.view]
           line == Fenced(u.line, {"load"})
           left == [u EXCEPT !.line = line]
           e == Entry("load", left.shown.session)
<1>1. t \in Tabs /\ t.line \in Seq(EntryType) /\ t.view \in ViewType
  BY TabsAre DEF TabOK
<1>2. u \in Tabs /\ u.shown = t.view /\ u.kind = "history" /\ u.line = t.line
      /\ SameTransport(t, u)
      /\ u.view = t.view /\ u.file = t.file /\ u.rows = t.rows /\ u.items = t.items
      /\ u.refreshing = t.refreshing /\ u.busy = t.busy /\ u.export = t.export /\ u.auto = t.auto
  BY <1>1 DEF Tabs, SameTransport
<1> HIDE DEF u
<1>3. /\ line \in Seq(EntryType) /\ DOMAIN line = DOMAIN t.line
      /\ \A i \in DOMAIN t.line :
           /\ line[i].use = t.line[i].use /\ line[i].for = t.line[i].for
           /\ line[i].waits = t.line[i].waits /\ line[i].answer = t.line[i].answer
           /\ line[i].active <=> t.line[i].active /\ t.line[i].use # "load"
  BY <1>1, <1>2, FencedIs
<1> HIDE DEF line
<1>4. /\ left \in Tabs /\ left.line = line /\ left.shown = t.view /\ left.kind = "history"
      /\ SameTransport(t, left)
      /\ left.view = t.view /\ left.file = t.file /\ left.rows = t.rows /\ left.items = t.items
      /\ left.refreshing = t.refreshing /\ left.busy = t.busy /\ left.export = t.export
      /\ left.auto = t.auto
  BY <1>2, <1>3 DEF Tabs, SameTransport
<1> HIDE DEF left
<1>5. SameLine(t, left)
  <2>1. line = <<>> <=> t.line = <<>>
    BY <1>1, <1>3
  <2> QED BY <1>3, <1>4, <2>1 DEF SameLine
<1>6. Waiting(left) = Waiting(t) /\ Cardinality(Waiting(left)) <= MaxPending
      /\ ConnectionOK(left) /\ UsesOK(left, {}) /\ InOrder(left.line)
  BY <1>4, <1>5, FenceKeeps
<1>7. Waiting(t) \subseteq DOMAIN t.line
  BY DEF Waiting
<1>8. AnswersOK(left, s)
  <2>1. \A i \in DOMAIN left.line : left.line[i].use # "retrieve"
    BY <1>4, <1>6 DEF UsesOK, Asks
  <2>2. \A i \in DOMAIN left.line : InTime(left, left.line[i], s)
    BY <1>4, <1>5, <2>1 DEF TabOK, AnswersOK, InTime, Answered, SameLine
  <2> QED BY <1>4, <1>6, <2>2 DEF TabOK, AnswersOK
<1>9. PanelOK(left)
  BY <1>4 DEF TabOK, PanelOK
<1>10. WaitingOK(left, {})
  <2>1. WaitingOK(t, {}) /\ UsesOK(t, {})
    BY DEF TabOK
  <2>2. \A i \in Waiting(t) : EndsBusy(left.line[i]) <=> EndsBusy(t.line[i])
    BY <1>3, <1>4, <1>7 DEF EndsBusy
  <2>3. /\ left.busy => \E i \in Waiting(left) : EndsBusy(left.line[i])
        /\ left.refreshing => \E i \in Waiting(left) : left.line[i].use = "refresh"
        /\ left.export # NoExport =>
             \E i \in Waiting(left) : left.line[i].use \in {"export", "check"}
    BY <1>3, <1>4, <1>6, <1>7, <2>1, <2>2 DEF WaitingOK, Awaited
  <2>4. /\ \A i \in Waiting(left) : left.line[i].use \in Runs => left.busy
        /\ \A i, j \in Waiting(left) :
             left.line[i].use \in Runs /\ left.line[j].use \in Runs => i = j
        /\ \A i \in Waiting(left) :
             /\ left.line[i].use = "export" => left.export.read \subseteq {left.export.owner}
             /\ left.line[i].use = "check" => left.export.read = {left.export.owner}
    BY <1>3, <1>4, <1>6, <1>7, <2>1 DEF WaitingOK, Awaited
  <2> QED BY <1>4, <2>1, <2>3, <2>4 DEF WaitingOK, Awaited
<1>11. TabOK(left, {}, s)
  BY <1>4, <1>6, <1>8, <1>9, <1>10 DEF TabOK
<1>12. LoadEffect(u) = IF left.shown.state = "ready"
                       THEN Request(left, "load", left.shown.session) ELSE left
  BY <1>2, <1>4 DEF LoadEffect, left, line
<1>13. TabOK(Request(left, "load", left.shown.session), {}, s)
  <2>1. /\ "load" \in Uses /\ left.shown.session \in SessionOrNone
        /\ left.shown.session <= s
    BY <1>1, <1>4, <1>8 DEF Uses, ViewType, AnswersOK
  <2>2. e.use = "load"
    BY <2>1, EntriesAre
  <2>3. TabOK(left, {e}, s)
    <3> HIDE DEF e
    <3>1. Awaited(left, {e}) = Awaited(left, {}) \cup {e}
      BY DEF Awaited
    <3>2. UsesOK(left, {e})
      BY <1>4, <1>6, <2>2 DEF UsesOK, Asks
    <3>3. WaitingOK(left, {e})
      BY <1>10, <2>2, <3>1 DEF WaitingOK, Runs
    <3> QED BY <1>11, <3>2, <3>3 DEF TabOK
  <2> QED BY <1>4, <2>1, <2>3, RequestKeeps
<1> QED BY <1>11, <1>12, <1>13 DEF u

(* The account and privacy pages only show what the hook has.              *)
LEMMA ShowsKeeps ==
  ASSUME NEW t, NEW s \in Nat, TabOK(t, {}, s), t.kind \notin {"history", "panel"}
  PROVE  TabOK([t EXCEPT !.shown = t.view], {}, s)
<1> DEFINE u == [t EXCEPT !.shown = t.view]
<1>1. t \in Tabs /\ t.view \in ViewType
  BY TabsAre DEF TabOK
<1>2. u \in Tabs /\ u.shown = t.view /\ u.kind = t.kind /\ SameSocket(t, u)
      /\ u.view = t.view /\ u.file = t.file /\ u.rows = t.rows /\ u.items = t.items
      /\ u.refreshing = t.refreshing /\ u.busy = t.busy /\ u.export = t.export /\ u.auto = t.auto
  BY <1>1 DEF Tabs, SameSocket
<1> HIDE DEF u
<1>3. ConnectionOK(u) /\ Waiting(u) = Waiting(t) /\ UsesOK(u, {})
  BY <1>2, SocketKept DEF TabOK, Waiting, UsesOK, SameSocket
<1>4. WaitingOK(u, {})
  BY <1>2, <1>3 DEF TabOK, WaitingOK, Awaited, SameSocket
<1>5. AnswersOK(u, s)
  <2>1. \A i \in DOMAIN u.line : u.line[i].use # "retrieve"
    BY <1>2, <1>3 DEF UsesOK, Asks
  <2>2. \A i \in DOMAIN u.line : InTime(u, u.line[i], s)
    BY <1>2, <2>1 DEF TabOK, AnswersOK, InTime, SameSocket
  <2> QED BY <1>2, <2>2 DEF TabOK, AnswersOK, SameSocket
<1>6. PanelOK(u)
  BY <1>2 DEF TabOK, PanelOK
<1> QED BY <1>2, <1>3, <1>4, <1>5, <1>6 DEF TabOK, u

(* A request that nobody is busy with joins freely.                        *)
LEMMA JoinsFreely ==
  ASSUME NEW t, NEW s \in Nat, TabOK(t, {}, s), NEW e \in EntryType,
         e.use \notin Runs, Asks(t.kind, e.use)
  PROVE  TabOK(t, {e}, s)
<1>1. Awaited(t, {e}) = Awaited(t, {}) \cup {e}
  BY DEF Awaited
<1>2. UsesOK(t, {e})
  BY DEF TabOK, UsesOK
<1>3. WaitingOK(t, {e})
  BY <1>1 DEF TabOK, WaitingOK, Runs
<1> QED BY <1>2, <1>3 DEF TabOK

(* The panel's question, in place of the one before it.                    *)
LEMMA RetrieveKeeps ==
  ASSUME NEW t, NEW s \in Nat, TabOK(t, {}, s), t.kind = "panel", t.shown.session # 0
  PROVE  TabOK(Retrieve(t), {}, s)
<1> DEFINE line == Fenced(t.line, {"retrieve"})
           q == [t EXCEPT !.line = line, !.busy = TRUE, !.items = 0]
           e == Entry("retrieve", 0)
<1>1. t \in Tabs /\ t.line \in Seq(EntryType)
  BY TabsAre DEF TabOK
<1>2. /\ line \in Seq(EntryType) /\ DOMAIN line = DOMAIN t.line
      /\ \A i \in DOMAIN t.line :
           /\ line[i].use = t.line[i].use /\ line[i].for = t.line[i].for
           /\ line[i].waits = t.line[i].waits /\ line[i].answer = t.line[i].answer
           /\ line[i].active <=> t.line[i].active /\ t.line[i].use # "retrieve"
  BY <1>1, FencedIs
<1> HIDE DEF line
<1>3. /\ q \in Tabs /\ q.line = line /\ q.busy /\ q.items = 0 /\ q.kind = "panel"
      /\ SameTransport(t, q) /\ q.shown = t.shown
      /\ q.view = t.view /\ q.file = t.file /\ q.rows = t.rows
      /\ q.refreshing = t.refreshing /\ q.export = t.export /\ q.auto = t.auto
  <2> DEFINE v == [t EXCEPT !.line = line]
             w == [v EXCEPT !.busy = TRUE]
  <2>1. v \in Tabs
    BY <1>1, <1>2 DEF Tabs
  <2>2. w = [t EXCEPT !.line = line, !.busy = TRUE]
    OBVIOUS
  <2> HIDE DEF v
  <2>3. w \in Tabs
    BY <2>1 DEF Tabs
  <2>4. q = [w EXCEPT !.items = 0] /\ 0 \in SessionOrNone
    BY <2>2, NumbersAre
  <2> HIDE DEF w, q
  <2>5. q \in Tabs
    BY <2>3, <2>4 DEF Tabs
  <2> QED BY <1>1, <2>5 DEF Tabs, SameTransport, q
<1>4. e \in EntryType /\ e.use = "retrieve" /\ e.active /\ "retrieve" \in Uses
      /\ 0 \in SessionOrNone /\ 0 <= s
  BY EntriesAre, NumbersAre DEF Uses
<1> HIDE DEF q, e
<1>5. SameLine(t, q)
  <2>1. line = <<>> <=> t.line = <<>>
    BY <1>1, <1>2
  <2> QED BY <1>2, <1>3, <2>1 DEF SameLine
<1>6. Waiting(q) = Waiting(t) /\ Cardinality(Waiting(q)) <= MaxPending
      /\ ConnectionOK(q) /\ UsesOK(q, {}) /\ InOrder(q.line)
  BY <1>3, <1>5, FenceKeeps
<1>7. Waiting(t) \subseteq DOMAIN t.line /\ DOMAIN q.line = DOMAIN t.line
  BY <1>5 DEF Waiting, SameLine
<1>8. UsesOK(q, {e})
  BY <1>3, <1>4, <1>6 DEF UsesOK, Asks
<1>9. WaitingOK(q, {e})
  <2>1. WaitingOK(t, {}) /\ Awaited(q, {e}) = Awaited(q, {}) \cup {e}
    BY DEF TabOK, Awaited
  <2>2. \A i \in DOMAIN q.line : q.line[i].use \notin Runs
    BY <1>3, <1>6 DEF UsesOK, Asks, Runs
  <2>3. q.refreshing => \E i \in Waiting(q) : q.line[i].use = "refresh"
    BY <1>3, <1>5, <1>6, <1>7, <2>1 DEF WaitingOK, Awaited, SameLine
  <2>4. q.export = NoExport /\ q.file = NoExport
    BY <1>3, <2>1 DEF WaitingOK
  <2>5. EndsBusy(e) /\ e.use \notin Runs
    BY <1>4 DEF EndsBusy, Runs
  <2> QED BY <1>3, <1>6, <1>7, <2>1, <2>2, <2>3, <2>4, <2>5 DEF WaitingOK, Awaited, Runs
<1>10. AnswersOK(q, s)
  <2>1. \A i \in DOMAIN q.line : InTime(q, q.line[i], s)
    BY <1>3, <1>5 DEF TabOK, AnswersOK, InTime, Answered, SameLine
  <2> QED BY <1>3, <1>6, <2>1 DEF TabOK, AnswersOK
<1>11. PanelOK(q)
  BY <1>3 DEF TabOK, PanelOK
<1>12. TabOK(q, {e}, s)
  BY <1>3, <1>6, <1>8, <1>9, <1>10, <1>11 DEF TabOK
<1>13. Retrieve(t) = Request(q, "retrieve", 0)
  BY DEF Retrieve, q, line
<1> QED BY <1>3, <1>4, <1>12, <1>13, RequestKeeps DEF e

-----------------------------------------------------------------------------
(* The page: what it makes of an answer.                                   *)

(* The answer of request e, which has just left the line: it is not from   *)
(* before what the page has, nor from after the answers that are in.       *)
Heard(t, e, s) ==
  /\ TabOK(t, {e}, s)
  /\ e \in EntryType /\ Answered(e) /\ InTime(t, e, s)
  /\ \A i \in DOMAIN t.line : Answered(t.line[i]) => e.answer.session <= t.line[i].answer.session
  /\ t.kind = "panel" /\ e.use = "command" /\ e.active => t.shown.session # 0

(* Nobody was busy with it.                                                *)
LEMMA IgnoredKeeps ==
  ASSUME NEW t, NEW s \in Nat, NEW e, TabOK(t, {e}, s), ~EndsBusy(e),
         e.use \notin Runs, e.use # "refresh"
  PROVE  TabOK(t, {}, s)
<1>1. Awaited(t, {e}) = Awaited(t, {}) \cup {e}
  BY DEF Awaited
<1>2. UsesOK(t, {})
  BY DEF TabOK, UsesOK
<1>3. WaitingOK(t, {})
  <2>1. WaitingOK(t, {e})
    BY DEF TabOK
  <2>2. /\ t.busy => \E f \in Awaited(t, {}) : EndsBusy(f)
        /\ t.refreshing => \E f \in Awaited(t, {}) : f.use = "refresh"
        /\ t.export # NoExport => \E f \in Awaited(t, {}) : f.use \in {"export", "check"}
    BY <1>1, <2>1 DEF WaitingOK, Runs
  <2> QED BY <1>1, <2>1, <2>2 DEF WaitingOK
<1> QED BY <1>2, <1>3 DEF TabOK

(* The page is busy no more.                                               *)
LEMMA OverKeeps ==
  ASSUME NEW t, NEW s \in Nat, NEW e, Heard(t, e, s), EndsBusy(e), e.use \notin {"export", "check"}
  PROVE  LET over == [t EXCEPT !.busy = @ /\ ~EndsBusy(e)]
         IN  /\ over \in Tabs /\ TabOK(over, {}, s)
             /\ over.kind = t.kind /\ over.line = t.line /\ over.view = t.view
             /\ over.shown = t.shown /\ over.rows = t.rows
<1> DEFINE q == [t EXCEPT !.busy = @ /\ ~EndsBusy(e)]
<1>1. t \in Tabs /\ (t.busy /\ ~EndsBusy(e)) \in BOOLEAN /\ ~(t.busy /\ ~EndsBusy(e))
  BY DEF TabOK, Tabs, Heard
<1>2. /\ q \in Tabs /\ SameSocket(t, q) /\ ~q.busy
      /\ q.kind = t.kind /\ q.file = t.file /\ q.shown = t.shown /\ q.rows = t.rows
      /\ q.items = t.items /\ q.auto = t.auto /\ q.refreshing = t.refreshing
      /\ q.view = t.view /\ q.export = t.export
  BY <1>1 DEF Tabs, SameSocket
<1> HIDE DEF q
<1>3. ConnectionOK(q) /\ Waiting(q) = Waiting(t) /\ Cardinality(Waiting(q)) <= MaxPending
      /\ UsesOK(q, {})
  BY <1>2, SocketKept DEF Heard, TabOK, Waiting, UsesOK, SameSocket
<1>4. WaitingOK(q, {})
  <2>1. WaitingOK(t, {e}) /\ UsesOK(t, {e})
    BY DEF Heard, TabOK
  <2>2. Waiting(t) \subseteq DOMAIN t.line
    BY DEF Waiting
  <2>3. \A i \in Waiting(t) : t.line[i].use \notin Runs
    <3>1. CASE e.use \in Runs
      BY <2>1, <3>1 DEF WaitingOK
    <3>2. CASE e.use = "retrieve"
      BY <2>1, <2>2, <3>2 DEF UsesOK, Asks, Runs
    <3> QED BY <3>1, <3>2 DEF EndsBusy
  <2>4. Awaited(t, {e}) = Awaited(t, {}) \cup {e} /\ Awaited(q, {}) = Awaited(t, {})
        /\ \A f \in Awaited(t, {}) : f.use \notin Runs
    BY <1>2, <1>3, <2>3 DEF Awaited, SameSocket
  <2>5. t.export = NoExport
    BY <2>1, <2>4 DEF WaitingOK, Runs
  <2>6. e.use # "refresh"
    BY DEF EndsBusy, Runs
  <2>7. q.refreshing => \E f \in Awaited(q, {}) : f.use = "refresh"
    BY <1>2, <2>1, <2>4, <2>6 DEF WaitingOK
  <2>8. q.kind # "privacy" => q.file = NoExport
    BY <1>2, <2>1 DEF WaitingOK
  <2>9. \A f \in Awaited(q, {}) : f.use \notin {"export", "check"}
    BY <2>4 DEF Runs
  <2>10. \A i \in Waiting(q) : q.line[i].use \notin Runs
    BY <1>2, <1>3, <2>3 DEF SameSocket
  <2> QED BY <1>2, <2>4, <2>5, <2>7, <2>8, <2>9, <2>10 DEF WaitingOK
<1>5. AnswersOK(q, s)
  BY <1>2 DEF Heard, TabOK, AnswersOK, InTime, SameSocket
<1>6. PanelOK(q)
  BY <1>2 DEF Heard, TabOK, PanelOK, SameSocket
<1>7. TabOK(q, {}, s)
  BY <1>2, <1>3, <1>4, <1>5, <1>6 DEF TabOK
<1> QED BY <1>2, <1>7 DEF q, SameSocket

(* The hook has the session.                                               *)
LEMMA RefreshedKeeps ==
  ASSUME NEW t, NEW s \in Nat, NEW e, Heard(t, e, s), e.use = "refresh"
  PROVE  TabOK([t EXCEPT !.refreshing = FALSE, !.view = View("ready", e.answer.session)], {}, s)
<1> DEFINE view == View("ready", e.answer.session)
           q == [t EXCEPT !.refreshing = FALSE, !.view = view]
<1>1. t \in Tabs /\ e.answer.session \in SessionOrNone /\ e.answer.session \in Nat
  BY AnswersAre, EntriesAre DEF Heard, TabOK
<1>2. view \in ViewType /\ view.session = e.answer.session /\ view.state = "ready"
  BY <1>1, ViewsAre DEF ClientStates
<1> HIDE DEF view
<1>3. /\ q \in Tabs /\ SameSocket(t, q) /\ q.view = view /\ ~q.refreshing
      /\ q.kind = t.kind /\ q.file = t.file /\ q.shown = t.shown /\ q.rows = t.rows
      /\ q.items = t.items /\ q.auto = t.auto /\ q.busy = t.busy /\ q.export = t.export
  BY <1>1, <1>2 DEF Tabs, SameSocket
<1> HIDE DEF q
<1>4. ConnectionOK(q) /\ Waiting(q) = Waiting(t) /\ Cardinality(Waiting(q)) <= MaxPending
      /\ UsesOK(q, {})
  BY <1>3, SocketKept DEF Heard, TabOK, Waiting, UsesOK, SameSocket
<1>5. WaitingOK(q, {})
  <2>1. WaitingOK(t, {e}) /\ e.use \notin Runs /\ ~EndsBusy(e)
    BY DEF Heard, TabOK, Runs, EndsBusy
  <2>2. Awaited(t, {e}) = Awaited(q, {}) \cup {e}
    BY <1>3, <1>4 DEF Awaited, SameSocket
  <2>3. /\ q.busy => \E f \in Awaited(q, {}) : EndsBusy(f)
        /\ q.export # NoExport => \E f \in Awaited(q, {}) : f.use \in {"export", "check"}
    BY <1>3, <2>1, <2>2 DEF WaitingOK
  <2> QED BY <1>3, <1>4, <2>1, <2>2, <2>3 DEF WaitingOK, SameSocket
<1>6. AnswersOK(q, s)
  <2>1. \A i \in DOMAIN q.line : InTime(q, q.line[i], s)
    BY <1>2, <1>3 DEF Heard, TabOK, AnswersOK, InTime, SameSocket
  <2> QED BY <1>2, <1>3, <2>1 DEF Heard, TabOK, AnswersOK, InTime, SameSocket
<1>7. PanelOK(q)
  BY <1>2, <1>3 DEF Heard, TabOK, PanelOK, SameSocket
<1> QED BY <1>3, <1>4, <1>5, <1>6, <1>7 DEF TabOK, q, view

(* The page takes over what it was told.                                   *)
LEMMA DataKeeps ==
  ASSUME NEW t, NEW q \in Tabs, NEW s \in Nat, TabOK(t, {}, s), SameSocket(t, q),
         q.kind = t.kind, q.file = t.file, q.shown = t.shown, q.refreshing = t.refreshing,
         q.busy = t.busy, q.export = t.export, q.auto = t.auto,
         q.view.session <= s, q.rows.for <= s, q.rows.read # 0 => q.rows.read >= q.rows.for,
         \A i \in DOMAIN t.line : Answered(t.line[i]) =>
           /\ q.view.session <= t.line[i].answer.session
           /\ q.rows.for <= t.line[i].answer.session,
         PanelOK(q)
  PROVE  TabOK(q, {}, s)
<1>1. ConnectionOK(q) /\ Waiting(q) = Waiting(t) /\ Cardinality(Waiting(q)) <= MaxPending
      /\ UsesOK(q, {})
  BY SocketKept DEF TabOK, Waiting, UsesOK, SameSocket
<1>2. WaitingOK(q, {})
  BY <1>1 DEF TabOK, WaitingOK, Awaited, SameSocket
<1>3. AnswersOK(q, s)
  <2>1. \A i \in DOMAIN q.line : InTime(q, q.line[i], s)
    BY DEF TabOK, AnswersOK, InTime, SameSocket
  <2> QED BY <2>1 DEF TabOK, AnswersOK, SameSocket
<1> QED BY <1>1, <1>2, <1>3 DEF TabOK

(* The history page has the history of the session of the answer, asked    *)
(* for in that session or an earlier one.                                  *)
LEMMA LoadedKeeps ==
  ASSUME NEW t, NEW s \in Nat, NEW e, Heard(t, e, s), e.use = "load"
  PROVE  /\ TabOK(t, {}, s)
         /\ TabOK([t EXCEPT !.rows = [read |-> e.answer.session, for |-> e.for]], {}, s)
<1> DEFINE rows == [read |-> e.answer.session, for |-> e.for]
           q == [t EXCEPT !.rows = rows]
<1>1. t \in Tabs /\ TabOK(t, {e}, s) /\ InTime(t, e, s) /\ Answered(e) /\ t.kind = "history"
  BY DEF Heard, TabOK, UsesOK, Asks
<1>2. e.answer.session \in SessionOrNone /\ e.for \in SessionOrNone
  BY AnswersAre, EntriesAre DEF Heard
<1>3. ~EndsBusy(e) /\ e.use \notin Runs /\ e.use # "refresh"
  BY DEF EndsBusy, Runs
<1>4. TabOK(t, {}, s)
  BY <1>1, <1>3, IgnoredKeeps
<1>5. rows \in [read : SessionOrNone, for : SessionOrNone]
      /\ rows.for = e.for /\ rows.read = e.answer.session
  BY <1>2
<1> HIDE DEF rows
<1>6. /\ q \in Tabs /\ SameSocket(t, q) /\ q.rows = rows /\ q.view = t.view
      /\ q.kind = t.kind /\ q.file = t.file /\ q.shown = t.shown
      /\ q.items = t.items /\ q.auto = t.auto /\ q.refreshing = t.refreshing
      /\ q.busy = t.busy /\ q.export = t.export
  BY <1>1, <1>5 DEF Tabs, SameSocket
<1> HIDE DEF q
<1>7. PanelOK(q)
  BY <1>1, <1>4, <1>6 DEF TabOK, PanelOK
<1>8. \A i \in DOMAIN t.line : Answered(t.line[i]) =>
        /\ q.view.session <= t.line[i].answer.session
        /\ q.rows.for <= t.line[i].answer.session
  <2>1. SUFFICES ASSUME NEW i \in DOMAIN t.line, Answered(t.line[i])
                 PROVE  /\ t.view.session <= t.line[i].answer.session
                        /\ e.for <= t.line[i].answer.session
    BY <1>5, <1>6
  <2>2. e.answer.session <= t.line[i].answer.session /\ e.for <= e.answer.session
    BY <1>1, <2>1 DEF Heard, InTime
  <2>3. t.line[i].answer.session \in Nat /\ e.answer.session \in Nat /\ e.for \in Nat
    BY <1>1, <1>2, TabsAre, LinesAre, EntriesAre, NumbersAre
  <2> QED BY <1>4, <2>1, <2>2, <2>3 DEF TabOK, AnswersOK, InTime
<1>9. q.view.session <= s /\ q.rows.for <= s /\ (q.rows.read # 0 => q.rows.read >= q.rows.for)
  BY <1>1, <1>2, <1>4, <1>5, <1>6, NumbersAre DEF InTime, TabOK, AnswersOK
<1> QED BY <1>4, <1>6, <1>7, <1>8, <1>9, DataKeeps DEF q, rows

(* What the history page read again, or deleted.                           *)
LEMMA ReadKeeps ==
  ASSUME NEW t, NEW s \in Nat, NEW e, Heard(t, e, s), e.use \in {"filter", "delete"},
         NEW n \in {0, e.answer.session}
  PROVE  TabOK([[t EXCEPT !.busy = @ /\ ~EndsBusy(e)] EXCEPT !.rows.read = n], {}, s)
<1> DEFINE over == [t EXCEPT !.busy = @ /\ ~EndsBusy(e)]
           rows == [over.rows EXCEPT !.read = n]
           q == [over EXCEPT !.rows = rows]
<1>1. over \in Tabs /\ TabOK(over, {}, s) /\ over.rows = t.rows /\ over.kind = "history"
  BY OverKeeps DEF EndsBusy, Runs, Heard, TabOK, UsesOK, Asks
<1>2. e.answer.session \in SessionOrNone /\ InTime(t, e, s) /\ Answered(e) /\ n \in SessionOrNone
  BY AnswersAre, EntriesAre, NumbersAre DEF Heard
<1> HIDE DEF over
<1>0. [over EXCEPT !.rows.read = n] = q
  OBVIOUS
<1>3. /\ over.rows \in [read : SessionOrNone, for : SessionOrNone]
      /\ over.rows.for \in Nat
  BY <1>1, TabsAre
<1>4. rows \in [read : SessionOrNone, for : SessionOrNone]
      /\ rows.for = t.rows.for /\ rows.read = n
  BY <1>1, <1>2, <1>3
<1> HIDE DEF rows
<1>5. /\ q \in Tabs /\ SameSocket(over, q) /\ q.rows = rows /\ q.view = over.view
      /\ q.kind = over.kind /\ q.file = over.file /\ q.shown = over.shown
      /\ q.items = over.items /\ q.auto = over.auto /\ q.refreshing = over.refreshing
      /\ q.busy = over.busy /\ q.export = over.export
  BY <1>1, <1>4 DEF Tabs, SameSocket
<1> HIDE DEF q
<1>6. PanelOK(q)
  BY <1>1, <1>5 DEF TabOK, PanelOK
<1>7. \A i \in DOMAIN over.line : Answered(over.line[i]) =>
        /\ q.view.session <= over.line[i].answer.session
        /\ q.rows.for <= over.line[i].answer.session
  BY <1>1, <1>4, <1>5 DEF TabOK, AnswersOK, InTime
<1>8. q.view.session <= s /\ q.rows.for <= s /\ (q.rows.read # 0 => q.rows.read >= q.rows.for)
  BY <1>1, <1>2, <1>4, <1>5, NumbersAre DEF InTime, TabOK, AnswersOK
<1>9. TabOK(q, {}, s)
  BY <1>1, <1>5, <1>6, <1>7, <1>8, DataKeeps
<1> QED BY <1>0, <1>9 DEF over

(* The page has the session its own request made.                          *)
LEMMA AccountKeeps ==
  ASSUME NEW t, NEW s \in Nat, NEW e, Heard(t, e, s), e.use = "account"
  PROVE  TabOK([[t EXCEPT !.busy = @ /\ ~EndsBusy(e)] EXCEPT !.view.session = e.answer.session],
               {}, s)
<1> DEFINE over == [t EXCEPT !.busy = @ /\ ~EndsBusy(e)]
           view == [over.view EXCEPT !.session = e.answer.session]
           q == [over EXCEPT !.view = view]
<1>1. over \in Tabs /\ TabOK(over, {}, s) /\ over.kind # "panel" /\ over.line = t.line
  BY OverKeeps DEF EndsBusy, Runs, Heard, TabOK, UsesOK, Asks
<1>2. e.answer.session \in SessionOrNone /\ InTime(t, e, s) /\ Answered(e)
  BY AnswersAre, EntriesAre DEF Heard
<1> HIDE DEF over
<1>0. [over EXCEPT !.view.session = e.answer.session] = q
  OBVIOUS
<1>3. over.view \in ViewType
  BY <1>1, TabsAre
<1>4. view \in ViewType /\ view.session = e.answer.session
  BY <1>2, <1>3 DEF ViewType
<1> HIDE DEF view
<1>5. /\ q \in Tabs /\ SameSocket(over, q) /\ q.rows = over.rows /\ q.view = view
      /\ q.kind = over.kind /\ q.file = over.file /\ q.shown = over.shown
      /\ q.items = over.items /\ q.auto = over.auto /\ q.refreshing = over.refreshing
      /\ q.busy = over.busy /\ q.export = over.export
  BY <1>1, <1>4 DEF Tabs, SameSocket
<1> HIDE DEF q
<1>6. PanelOK(q)
  BY <1>1, <1>5 DEF TabOK, PanelOK
<1>7. \A i \in DOMAIN over.line : Answered(over.line[i]) =>
        /\ q.view.session <= over.line[i].answer.session
        /\ q.rows.for <= over.line[i].answer.session
  BY <1>1, <1>4, <1>5 DEF TabOK, AnswersOK, InTime, Heard
<1>8. q.view.session <= s /\ q.rows.for <= s /\ (q.rows.read # 0 => q.rows.read >= q.rows.for)
  BY <1>1, <1>2, <1>4, <1>5 DEF InTime, TabOK, AnswersOK
<1>9. TabOK(q, {}, s)
  BY <1>1, <1>5, <1>6, <1>7, <1>8, DataKeeps
<1> QED BY <1>0, <1>9 DEF over

(* The panel has its recommendations.                                      *)
LEMMA ItemsKeep ==
  ASSUME NEW t, NEW s \in Nat, NEW e, Heard(t, e, s), e.use = "retrieve", e.active
  PROVE  TabOK([[t EXCEPT !.busy = @ /\ ~EndsBusy(e)] EXCEPT !.items = e.answer.session], {}, s)
<1> DEFINE over == [t EXCEPT !.busy = @ /\ ~EndsBusy(e)]
           q == [over EXCEPT !.items = e.answer.session]
<1>1. over \in Tabs /\ TabOK(over, {}, s) /\ over.kind = "panel" /\ over.shown = t.shown
  BY OverKeeps DEF EndsBusy, Heard, TabOK, UsesOK, Asks
<1>2. e.answer.session \in SessionOrNone /\ InTime(t, e, s) /\ Answered(e)
  BY AnswersAre, EntriesAre DEF Heard
<1> HIDE DEF over
<1>5. /\ q \in Tabs /\ SameSocket(over, q) /\ q.rows = over.rows /\ q.view = over.view
      /\ q.kind = over.kind /\ q.file = over.file /\ q.shown = over.shown
      /\ q.items = e.answer.session /\ q.auto = over.auto /\ q.refreshing = over.refreshing
      /\ q.busy = over.busy /\ q.export = over.export
  BY <1>1, <1>2 DEF Tabs, SameSocket
<1> HIDE DEF q
<1>6. PanelOK(q)
  BY <1>1, <1>2, <1>5 DEF TabOK, PanelOK, InTime, SameSocket
<1>7. \A i \in DOMAIN over.line : Answered(over.line[i]) =>
        /\ q.view.session <= over.line[i].answer.session
        /\ q.rows.for <= over.line[i].answer.session
  BY <1>1, <1>5 DEF TabOK, AnswersOK, InTime
<1>8. q.view.session <= s /\ q.rows.for <= s /\ (q.rows.read # 0 => q.rows.read >= q.rows.for)
  BY <1>1, <1>5 DEF TabOK, AnswersOK
<1>9. TabOK(q, {}, s)
  BY <1>1, <1>5, <1>6, <1>7, <1>8, DataKeeps
<1> QED BY <1>9 DEF q, over

(* A page of the export is in, and the next or the closing look at the     *)
(* session is asked for.                                                   *)
LEMMA ExportPageKeeps ==
  ASSUME NEW t, NEW s \in Nat, NEW e, Heard(t, e, s), e.use = "export"
  PROVE  TabOK(ExportPage(t, e), {}, s)
<1> DEFINE export == [t.export EXCEPT !.read = @ \cup {e.answer.session}, !.pages = @ + 1]
           kept == [t EXCEPT !.export = export]
           use == IF e.answer.more THEN "export" ELSE "check"
           f == Entry(use, 0)
<1>1. t \in Tabs /\ TabOK(t, {e}, s) /\ t.export \in ExportType /\ e \in EntryType
  BY TabsAre DEF Heard, TabOK
<1>2. CASE ~PageAccepted(t, e.answer)
  <2>1. ExportPage(t, e) = Rejected(t, {e})
    BY <1>2 DEF ExportPage
  <2> QED BY <1>1, <2>1, RejectedKeeps
<1>3. CASE PageAccepted(t, e.answer)
  <2>1. e.answer.session \in SessionOrNone /\ e.answer.session = t.export.owner
    BY <1>3, AnswersAre, EntriesAre DEF Heard, PageAccepted
  <2>2. export \in ExportType /\ export.owner = t.export.owner
        /\ export.read = t.export.read \cup {t.export.owner}
    <3>1. t.export.read \cup {e.answer.session} \in SUBSET SessionOrNone /\ t.export.pages + 1 \in Nat
      BY <1>1, <2>1 DEF ExportType
    <3> QED BY <1>1, <2>1, <3>1 DEF ExportType
  <2> HIDE DEF export
  <2>3. /\ kept \in Tabs /\ SameSocket(t, kept) /\ kept.rows = t.rows /\ kept.view = t.view
        /\ kept.kind = t.kind /\ kept.file = t.file /\ kept.shown = t.shown
        /\ kept.items = t.items /\ kept.auto = t.auto /\ kept.refreshing = t.refreshing
        /\ kept.busy = t.busy /\ kept.export = export
    BY <1>1, <2>2 DEF Tabs, SameSocket
  <2> HIDE DEF kept
  <2>4. use \in {"export", "check"} /\ use \in Uses /\ 0 \in SessionOrNone /\ 0 <= s
    BY NumbersAre DEF Uses, Runs
  <2>5. f.use = use /\ f \in EntryType
    BY <2>4, EntriesAre
  <2> HIDE DEF use, f
  <2>6. ConnectionOK(kept) /\ Waiting(kept) = Waiting(t) /\ Cardinality(Waiting(kept)) <= MaxPending
    BY <1>1, <2>3, SocketKept DEF TabOK, Waiting, SameSocket
  <2>7. WaitingOK(t, {e}) /\ UsesOK(t, {e})
    BY <1>1 DEF TabOK
  <2>8. t.kind = "privacy"
    BY <2>7 DEF UsesOK, Asks
  <2>9. UsesOK(kept, {f})
    BY <2>3, <2>4, <2>5, <2>7, <2>8 DEF UsesOK, Asks, SameSocket
  <2>10. WaitingOK(kept, {f})
    <3>1. e.use \in Runs /\ EndsBusy(e) /\ f.use \in Runs /\ EndsBusy(f)
      BY <2>4, <2>5 DEF Runs, EndsBusy
    <3>2. t.busy /\ \A i \in Waiting(t) : t.line[i].use \notin Runs
      BY <2>7, <3>1 DEF WaitingOK, Awaited
    <3>3. Awaited(t, {e}) = Awaited(t, {}) \cup {e} /\ Awaited(kept, {f}) = Awaited(t, {}) \cup {f}
          /\ \A g \in Awaited(t, {}) : g.use \notin Runs
      BY <2>3, <2>6, <3>2 DEF Awaited, SameSocket
    <3>4. t.refreshing => \E g \in Awaited(t, {}) : g.use = "refresh"
      BY <2>7, <3>1, <3>3 DEF WaitingOK, Runs
    <3>5. export.read = {export.owner}
      BY <2>2, <2>7, <3>3 DEF WaitingOK
    <3>6. \A g \in Awaited(t, {}) : g.use \notin {"export", "check"}
      BY <3>3 DEF Runs
    <3>7. \A i \in Waiting(kept) : kept.line[i].use \notin Runs
      BY <2>3, <2>6, <3>2 DEF SameSocket
    <3> QED BY <2>3, <2>4, <2>5, <2>8, <3>1, <3>2, <3>3, <3>4, <3>5, <3>6, <3>7 DEF WaitingOK
  <2>11. AnswersOK(kept, s)
    BY <1>1, <2>3 DEF TabOK, AnswersOK, InTime, SameSocket
  <2>12. PanelOK(kept)
    BY <1>1, <2>3 DEF TabOK, PanelOK, SameSocket
  <2>13. TabOK(kept, {f}, s)
    BY <2>3, <2>6, <2>9, <2>10, <2>11, <2>12 DEF TabOK
  <2>14. ExportPage(t, e) = Request(kept, use, 0)
    BY <1>3 DEF ExportPage, kept, export, use
  <2> QED BY <2>3, <2>4, <2>8, <2>13, <2>14, RequestKeeps DEF f
<1> QED BY <1>2, <1>3

(* The file is handed over: all of it is of the session on show.           *)
LEMMA ExportEndsKeeps ==
  ASSUME NEW t, NEW s \in Nat, NEW e, Heard(t, e, s), e.use = "check"
  PROVE  LET q == ExportEnds(t, e)
         IN  /\ TabOK(q, {}, s)
             /\ q.view = t.view \/ q.view.session = 0
             /\ q.file # t.file => q.file.read = {q.file.owner} /\ q.file.owner = t.shown.session
<1> DEFINE q == [t EXCEPT !.file = t.export, !.export = NoExport, !.busy = FALSE]
<1>1. t \in Tabs /\ TabOK(t, {e}, s) /\ t.export \in ExportType /\ e \in EntryType
  BY TabsAre DEF Heard, TabOK
<1>2. CASE ~PageAccepted(t, e.answer)
  <2>1. ExportEnds(t, e) = Rejected(t, {e})
    BY <1>2 DEF ExportEnds
  <2>2. View("unavailable", 0).session = 0
    BY DEF View
  <2> QED BY <1>1, <2>1, <2>2, RejectedKeeps, RejectedIs
<1>3. CASE PageAccepted(t, e.answer)
  <2>1. /\ q \in Tabs /\ SameSocket(t, q) /\ q.rows = t.rows /\ q.view = t.view
        /\ q.kind = t.kind /\ q.file = t.export /\ q.shown = t.shown
        /\ q.items = t.items /\ q.auto = t.auto /\ q.refreshing = t.refreshing
        /\ ~q.busy /\ q.export = NoExport
    BY <1>1, ViewsAre DEF Tabs, SameSocket
  <2>2. ExportEnds(t, e) = q
    BY <1>3 DEF ExportEnds
  <2> HIDE DEF q
  <2>3. ConnectionOK(q) /\ Waiting(q) = Waiting(t) /\ Cardinality(Waiting(q)) <= MaxPending
        /\ UsesOK(q, {})
    BY <1>1, <2>1, SocketKept DEF TabOK, Waiting, UsesOK, SameSocket
  <2>4. WaitingOK(t, {e}) /\ UsesOK(t, {e})
    BY <1>1 DEF TabOK
  <2>5. t.kind = "privacy" /\ t.export.read = {t.export.owner}
    BY <2>4 DEF UsesOK, WaitingOK, Awaited, Asks
  <2>6. WaitingOK(q, {})
    <3>1. e.use \in Runs /\ \A i \in Waiting(t) : t.line[i].use \notin Runs
      BY <2>4 DEF WaitingOK, Runs
    <3>2. Awaited(t, {e}) = Awaited(q, {}) \cup {e}
          /\ \A g \in Awaited(q, {}) : g.use \notin Runs
      BY <2>1, <2>3, <3>1 DEF Awaited, SameSocket
    <3>3. q.refreshing => \E g \in Awaited(q, {}) : g.use = "refresh"
      BY <2>1, <2>4, <3>1, <3>2 DEF WaitingOK, Runs
    <3>4. \A g \in Awaited(q, {}) : g.use \notin {"export", "check"}
      BY <3>2 DEF Runs
    <3>5. \A i \in Waiting(q) : q.line[i].use \notin Runs
      BY <2>1, <2>3, <3>1 DEF SameSocket
    <3> QED BY <2>1, <2>5, <3>2, <3>3, <3>4, <3>5 DEF WaitingOK
  <2>7. AnswersOK(q, s)
    BY <1>1, <2>1 DEF TabOK, AnswersOK, InTime, SameSocket
  <2>8. PanelOK(q)
    BY <1>1, <2>1, <2>5 DEF TabOK, PanelOK
  <2>9. TabOK(q, {}, s)
    BY <2>1, <2>3, <2>6, <2>7, <2>8 DEF TabOK
  <2>10. t.export.owner = t.shown.session
    BY <1>3 DEF PageAccepted, IsCurrent
  <2> QED BY <2>1, <2>2, <2>5, <2>9, <2>10
<1> QED BY <1>2, <1>3

(* The page keeps to its rules whatever it makes of an answer.             *)
LEMMA ResolvedKeeps ==
  ASSUME NEW t, NEW s \in Nat, NEW e, Heard(t, e, s)
  PROVE  TabOK(Resolved(t, e), {}, s)
<1> DEFINE over == [t EXCEPT !.busy = @ /\ ~EndsBusy(e)]
<1>1. TabOK(t, {e}, s) /\ e.use \in Uses
  BY EntriesAre DEF Heard
<1>2. CASE e.use = "refresh"
  BY <1>2, RefreshedKeeps DEF Resolved
<1>3. CASE e.use = "load"
  BY <1>3, LoadedKeeps DEF Resolved
<1>4. CASE e.use = "filter"
  <2>1. TabOK([over EXCEPT !.rows.read = e.answer.session], {}, s)
    BY <1>4, ReadKeeps
  <2> QED BY <1>4, <2>1 DEF Resolved
<1>5. CASE e.use = "delete"
  <2>1. TabOK([over EXCEPT !.rows.read = 0], {}, s)
    BY <1>5, ReadKeeps
  <2> QED BY <1>5, <2>1 DEF Resolved
<1>6. CASE e.use = "account"
  <2>1. TabOK([over EXCEPT !.view.session = e.answer.session], {}, s)
    BY <1>6, AccountKeeps
  <2> QED BY <1>6, <2>1 DEF Resolved
<1>7. CASE e.use = "export"
  BY <1>7, ExportPageKeeps DEF Resolved
<1>8. CASE e.use = "check"
  BY <1>8, ExportEndsKeeps DEF Resolved
<1>9. CASE e.use = "retrieve"
  <2>1. CASE e.active
    <3>1. TabOK([over EXCEPT !.items = e.answer.session], {}, s)
      BY <1>9, <2>1, ItemsKeep
    <3> QED BY <1>9, <2>1, <3>1 DEF Resolved
  <2>2. CASE ~e.active
    <3>1. TabOK(t, {}, s)
      BY <1>1, <1>9, <2>2, IgnoredKeeps DEF EndsBusy, Runs
    <3> QED BY <1>9, <2>2, <3>1 DEF Resolved
  <2> QED BY <2>1, <2>2
<1>10. CASE e.use \in {"command", "record"}
  <2>1. TabOK(t, {}, s) /\ t.kind = "panel"
    BY <1>1, <1>10, IgnoredKeeps DEF EndsBusy, Runs, TabOK, UsesOK, Asks
  <2>2. e.use = "command" /\ e.active => TabOK(Retrieve(t), {}, s)
    BY <2>1, RetrieveKeeps DEF Heard
  <2>3. Resolved(t, e) = IF e.use = "command" /\ e.active /\ e.answer.more THEN Retrieve(t) ELSE t
    BY <1>10 DEF Resolved
  <2> QED BY <2>1, <2>2, <2>3
<1> QED BY <1>1, <1>2, <1>3, <1>4, <1>5, <1>6, <1>7, <1>8, <1>9, <1>10 DEF Uses, Runs

-----------------------------------------------------------------------------
(* The line of a socket.                                                   *)

(* A line without its first request.                                       *)
LEMMA TailIs ==
  ASSUME NEW t \in Tabs, t.line # <<>>
  PROVE  LET q == [t EXCEPT !.line = Tail(@)]
         IN  /\ q \in Tabs
             /\ Head(t.line) = t.line[1] /\ 1 \in DOMAIN t.line /\ t.line[1] \in EntryType
             /\ \A i \in DOMAIN q.line :
                  i \in Nat /\ i > 0 /\ i + 1 \in DOMAIN t.line /\ q.line[i] = t.line[i + 1]
             /\ \A i : i \in Waiting(q) <=> i \in DOMAIN q.line /\ i + 1 \in Waiting(t)
             /\ \A j \in Waiting(t) : j = 1 \/ (j - 1 \in Waiting(q) /\ q.line[j - 1] = t.line[j])
             /\ Cardinality(Waiting(q)) <= Cardinality(Waiting(t))
<1> DEFINE line == Tail(t.line)
           q == [t EXCEPT !.line = line]
           f == [i \in Waiting(q) |-> i + 1]
<1>1. t.line \in Seq(EntryType) /\ Len(t.line) \in Nat /\ DOMAIN t.line = 1..Len(t.line)
      /\ Len(t.line) # 0 /\ \A i \in DOMAIN t.line : t.line[i] \in EntryType
  BY TabsAre, LinesAre
<1>2. line \in Seq(EntryType) /\ Len(line) = Len(t.line) - 1
      /\ \A i \in 1..Len(line) : line[i] = t.line[i + 1]
  BY <1>1, HeadTailProperties
<1>3. DOMAIN line = 1..Len(line)
  BY <1>2, LinesAre
<1>4. 1 \in DOMAIN t.line /\ Head(t.line) = t.line[1]
  BY <1>1
<1> HIDE DEF line
<1>5. q \in Tabs /\ q.line = line
  BY <1>2 DEF Tabs
<1>6. \A i \in DOMAIN q.line :
        i \in Nat /\ i > 0 /\ i + 1 \in DOMAIN t.line /\ q.line[i] = t.line[i + 1]
  BY <1>1, <1>2, <1>3, <1>5
<1> HIDE DEF q
<1>7. \A i : i \in Waiting(q) <=> i \in DOMAIN q.line /\ i + 1 \in Waiting(t)
  BY <1>6 DEF Waiting
<1>8. ASSUME NEW j \in Waiting(t), j # 1
      PROVE  j - 1 \in Waiting(q) /\ q.line[j - 1] = t.line[j]
  <2>1. j \in 1..Len(t.line)
    BY <1>1 DEF Waiting
  <2>2. j - 1 \in DOMAIN q.line /\ (j - 1) + 1 = j
    BY <1>1, <1>2, <1>3, <1>5, <1>8, <2>1
  <2> QED BY <1>6, <1>7, <2>2
<1>9. \A i \in Waiting(q) : i \in Nat /\ i + 1 \in Waiting(t)
  BY <1>6, <1>7
<1>10. f \in Injection(Waiting(q), Waiting(t))
  BY <1>9 DEF Injection, IsInjective
<1>11. Cardinality(Waiting(q)) <= Cardinality(Waiting(t))
  BY <1>10, WaitingIs, FS_Injection
<1>12. \A j \in Waiting(t) : j = 1 \/ (j - 1 \in Waiting(q) /\ q.line[j - 1] = t.line[j])
  BY <1>8
<1>13. t.line[1] \in EntryType
  BY <1>1, <1>4
<1> HIDE DEF f
<1> QED BY <1>4, <1>5, <1>6, <1>7, <1>11, <1>12, <1>13 DEF q, line

(* The first request of the line leaves it: nobody waits for it any more,  *)
(* or its promise is about to be settled.                                  *)
LEMMA HeadLeaves ==
  ASSUME NEW t, NEW s \in Nat, TabOK(t, {}, s), t.line # <<>>
  PROVE  LET q == [t EXCEPT !.line = Tail(@)]
             e == Head(t.line)
         IN  /\ q \in Tabs /\ e \in EntryType
             /\ IF e.waits THEN TabOK(q, {e}, s) ELSE TabOK(q, {}, s)
             /\ e.waits /\ Answered(e) => Heard(q, e, s)
<1> DEFINE q == [t EXCEPT !.line = Tail(@)]
           e == Head(t.line)
           es == IF e.waits THEN {e} ELSE {}
<1>0. t \in Tabs
  BY DEF TabOK
<1>1. /\ q \in Tabs
      /\ e = t.line[1] /\ 1 \in DOMAIN t.line /\ t.line[1] \in EntryType
      /\ \A i \in DOMAIN q.line :
           i \in Nat /\ i > 0 /\ i + 1 \in DOMAIN t.line /\ q.line[i] = t.line[i + 1]
      /\ \A i : i \in Waiting(q) <=> i \in DOMAIN q.line /\ i + 1 \in Waiting(t)
      /\ \A j \in Waiting(t) : j = 1 \/ (j - 1 \in Waiting(q) /\ q.line[j - 1] = t.line[j])
      /\ Cardinality(Waiting(q)) <= Cardinality(Waiting(t))
  BY <1>0, TailIs
<1>2. /\ SameTransport(t, q) /\ q.rows = t.rows /\ q.view = t.view
      /\ q.kind = t.kind /\ q.file = t.file /\ q.shown = t.shown
      /\ q.items = t.items /\ q.auto = t.auto /\ q.refreshing = t.refreshing
      /\ q.busy = t.busy /\ q.export = t.export
  BY <1>0 DEF Tabs, SameTransport
<1> HIDE DEF q, e
<1>3. Cardinality(Waiting(q)) <= MaxPending
  BY <1>0, <1>1, WaitingIs, NumbersAre DEF TabOK
<1>4. ConnectionOK(q)
  BY <1>2 DEF TabOK, ConnectionOK, SameTransport
<1>5. UsesOK(q, es)
  BY <1>1, <1>2 DEF TabOK, UsesOK
<1>6. 1 \in Waiting(t) <=> e.waits
  BY <1>1 DEF Waiting
<1>7. WaitingOK(q, es)
  <2>1. WaitingOK(t, {})
    BY DEF TabOK
  <2>2. \A f : f \in Awaited(q, es) <=> f \in Awaited(t, {})
    <3>1. ASSUME NEW f \in Awaited(q, es) PROVE f \in Awaited(t, {})
      BY <1>1, <1>6, <3>1 DEF Awaited
    <3>2. ASSUME NEW f \in Awaited(t, {}) PROVE f \in Awaited(q, es)
      <4>1. PICK j \in Waiting(t) : f = t.line[j]
        BY DEF Awaited
      <4>2. CASE j = 1
        BY <1>1, <1>6, <4>1, <4>2 DEF Awaited
      <4>3. CASE j # 1
        BY <1>1, <4>1, <4>3 DEF Awaited
      <4> QED BY <4>2, <4>3
    <3> QED BY <3>1, <3>2
  <2>3. ASSUME NEW i \in Waiting(q), q.line[i].use \in Runs
        PROVE  /\ \A j \in Waiting(q) : q.line[j].use \in Runs => i = j
               /\ \A f \in es : f.use \notin Runs
    <3>1. i \in Nat /\ i > 0 /\ i + 1 \in Waiting(t) /\ q.line[i] = t.line[i + 1]
      BY <1>1
    <3>2. \A j \in Waiting(q) : j \in Nat /\ j + 1 \in Waiting(t) /\ q.line[j] = t.line[j + 1]
      BY <1>1
    <3>3. ASSUME NEW j \in Waiting(q), q.line[j].use \in Runs
          PROVE  i = j
      <4>1. i + 1 = j + 1
        BY <2>1, <2>3, <3>1, <3>2, <3>3 DEF WaitingOK
      <4> QED BY <3>1, <3>2, <4>1
    <3>4. ASSUME NEW f \in es, f.use \in Runs
          PROVE  FALSE
      <4>1. 1 \in Waiting(t) /\ t.line[1].use \in Runs
        BY <1>1, <1>6, <3>4
      <4>2. 1 = i + 1
        BY <2>1, <2>3, <3>1, <4>1 DEF WaitingOK
      <4> QED BY <3>1, <4>2
    <3> QED BY <3>3, <3>4
  <2>4. /\ \A i, j \in Waiting(q) : q.line[i].use \in Runs /\ q.line[j].use \in Runs => i = j
        /\ \A f \in es, i \in Waiting(q) : ~(f.use \in Runs /\ q.line[i].use \in Runs)
    BY <2>3
  <2>5. Awaited(q, es) = Awaited(t, {})
    BY <2>2
  <2> HIDE DEF es
  <2> QED BY <1>2, <2>1, <2>4, <2>5 DEF WaitingOK
<1>8. AnswersOK(q, s)
  <2>1. AnswersOK(t, s)
    BY DEF TabOK
  <2>2. \A i \in DOMAIN q.line : InTime(q, q.line[i], s)
    BY <1>1, <1>2, <2>1 DEF AnswersOK, InTime
  <2>3. InOrder(q.line)
    <3>1. SUFFICES ASSUME NEW i \in DOMAIN q.line, NEW j \in DOMAIN q.line, i < j
                   PROVE  /\ q.line[j].answer # NoAnswer => q.line[i].answer # NoAnswer
                          /\ Answered(q.line[i]) /\ Answered(q.line[j]) =>
                               q.line[i].answer.session <= q.line[j].answer.session
      BY DEF InOrder
    <3>2. i + 1 < j + 1
      BY <1>1, <3>1
    <3> QED BY <1>1, <2>1, <3>2 DEF AnswersOK, InOrder
  <2> QED BY <1>2, <2>1, <2>2, <2>3 DEF AnswersOK
<1>9. PanelOK(q)
  BY <1>1, <1>2 DEF TabOK, PanelOK
<1>10. TabOK(q, es, s)
  BY <1>1, <1>3, <1>4, <1>5, <1>7, <1>8, <1>9 DEF TabOK
<1>11. ASSUME e.waits, Answered(e)
       PROVE  Heard(q, e, s)
  <2>1. AnswersOK(t, s) /\ PanelOK(t)
    BY DEF TabOK
  <2>2. InTime(q, e, s)
    BY <1>1, <1>2, <2>1 DEF AnswersOK, InTime
  <2>3. ASSUME NEW i \in DOMAIN q.line, Answered(q.line[i])
        PROVE  e.answer.session <= q.line[i].answer.session
    <3>1. 1 < i + 1 /\ i + 1 \in DOMAIN t.line
      BY <1>1
    <3> QED BY <1>1, <1>11, <2>1, <2>3, <3>1 DEF AnswersOK, InOrder
  <2>4. t.kind = "panel" /\ e.use = "command" /\ e.active => t.shown.session # 0
    BY <1>1, <2>1 DEF PanelOK
  <2> QED BY <1>1, <1>2, <1>10, <1>11, <2>2, <2>3, <2>4 DEF Heard
<1> QED BY <1>1, <1>10, <1>11 DEF q, e

(* A line with one request changed.                                        *)
LEMMA EntryChanged ==
  ASSUME NEW t \in Tabs, NEW i \in DOMAIN t.line, NEW f \in EntryType,
         NEW q, q = [t EXCEPT !.line = [@ EXCEPT ![i] = f]]
  PROVE  /\ q \in Tabs /\ DOMAIN q.line = DOMAIN t.line
         /\ q.line = <<>> <=> t.line = <<>>
         /\ q.line[i] = f /\ \A j \in DOMAIN t.line : j # i => q.line[j] = t.line[j]
         /\ SameTransport(t, q) /\ q.rows = t.rows /\ q.view = t.view
         /\ q.kind = t.kind /\ q.file = t.file /\ q.shown = t.shown
         /\ q.items = t.items /\ q.auto = t.auto /\ q.refreshing = t.refreshing
         /\ q.busy = t.busy /\ q.export = t.export
<1> DEFINE line == [t.line EXCEPT ![i] = f]
<1>1. t.line \in Seq(EntryType) /\ Len(t.line) \in Nat /\ DOMAIN t.line = 1..Len(t.line)
      /\ (t.line = <<>> <=> Len(t.line) = 0) /\ \A j \in DOMAIN t.line : t.line[j] \in EntryType
  BY TabsAre, LinesAre
<1>2. line = [j \in 1..Len(t.line) |-> IF j = i THEN f ELSE t.line[j]]
  BY <1>1
<1>3. line \in Seq(EntryType) /\ DOMAIN line = DOMAIN t.line /\ Len(line) = Len(t.line)
  BY <1>1, <1>2, IsASeq
<1>4. line[i] = f /\ \A j \in DOMAIN t.line : j # i => line[j] = t.line[j]
  BY <1>1, <1>2
<1>5. line = <<>> <=> t.line = <<>>
  BY <1>1, <1>3
<1>6. q = [t EXCEPT !.line = line]
  OBVIOUS
<1> HIDE DEF line
<1>7. q \in Tabs /\ q.line = line
  BY <1>3, <1>6 DEF Tabs
<1> QED BY <1>3, <1>4, <1>5, <1>6, <1>7 DEF Tabs, SameTransport

(* A request's time is over: its promise is about to be rejected.          *)
LEMMA TimesOut ==
  ASSUME NEW t, NEW s \in Nat, TabOK(t, {}, s), NEW i \in DOMAIN t.line, t.line[i].waits
  PROVE  TabOK([t EXCEPT !.line[i].waits = FALSE], {t.line[i]}, s)
<1> DEFINE e == t.line[i]
           f == [e EXCEPT !.waits = FALSE]
           q == [t EXCEPT !.line = [@ EXCEPT ![i] = f]]
<1>0. t \in Tabs /\ e \in EntryType /\ (\A j \in DOMAIN t.line : t.line[j] \in EntryType)
  BY TabsAre, LinesAre DEF TabOK
<1>1. /\ f \in EntryType /\ f.use = e.use /\ f.for = e.for /\ f.active = e.active /\ ~f.waits
      /\ f.answer = e.answer
  BY <1>0 DEF EntryType
<1>2. [t EXCEPT !.line[i].waits = FALSE] = q
  OBVIOUS
<1> HIDE DEF f
<1>3. /\ q \in Tabs /\ DOMAIN q.line = DOMAIN t.line
      /\ q.line = <<>> <=> t.line = <<>>
      /\ q.line[i] = f /\ \A j \in DOMAIN t.line : j # i => q.line[j] = t.line[j]
      /\ SameTransport(t, q) /\ q.rows = t.rows /\ q.view = t.view
      /\ q.kind = t.kind /\ q.file = t.file /\ q.shown = t.shown
      /\ q.items = t.items /\ q.auto = t.auto /\ q.refreshing = t.refreshing
      /\ q.busy = t.busy /\ q.export = t.export
  BY <1>0, <1>1, EntryChanged
<1> HIDE DEF q
<1>4. \A j \in DOMAIN t.line :
        /\ q.line[j].use = t.line[j].use /\ q.line[j].for = t.line[j].for
        /\ q.line[j].active = t.line[j].active /\ q.line[j].answer = t.line[j].answer
        /\ q.line[j].waits <=> t.line[j].waits /\ j # i
  BY <1>1, <1>3
<1>5. Waiting(q) = Waiting(t) \ {i} /\ i \in Waiting(t) /\ Waiting(t) \subseteq DOMAIN t.line
  BY <1>3, <1>4 DEF Waiting
<1>6. Cardinality(Waiting(q)) <= MaxPending
  BY <1>0, <1>3, <1>5, FewerWait DEF TabOK
<1>7. ConnectionOK(q)
  BY <1>3 DEF TabOK, ConnectionOK, SameTransport
<1>8. UsesOK(q, {e})
  BY <1>3, <1>4 DEF TabOK, UsesOK
<1>9. WaitingOK(q, {e})
  <2>1. WaitingOK(t, {})
    BY DEF TabOK
  <2>2. Awaited(q, {e}) = Awaited(t, {})
    <3>1. \A j \in Waiting(q) : q.line[j] = t.line[j]
      BY <1>3, <1>5
    <3>2. ASSUME NEW g PROVE g \in Awaited(q, {e}) <=> g \in Awaited(t, {})
      <4>1. ASSUME g \in Awaited(q, {e}) PROVE g \in Awaited(t, {})
        BY <1>5, <3>1, <4>1 DEF Awaited
      <4>2. ASSUME g \in Awaited(t, {}) PROVE g \in Awaited(q, {e})
        BY <1>5, <3>1, <4>2 DEF Awaited
      <4> QED BY <4>1, <4>2
    <3> QED BY <3>2
  <2>3. \A j \in Waiting(q) : j \in Waiting(t) /\ j # i /\ q.line[j] = t.line[j]
    BY <1>3, <1>5
  <2>4. /\ \A j, k \in Waiting(q) : q.line[j].use \in Runs /\ q.line[k].use \in Runs => j = k
        /\ \A g \in {e}, j \in Waiting(q) : ~(g.use \in Runs /\ q.line[j].use \in Runs)
    BY <1>5, <2>1, <2>3 DEF WaitingOK
  <2> HIDE DEF e
  <2> QED BY <1>3, <2>1, <2>2, <2>4 DEF WaitingOK
<1>10. AnswersOK(q, s)
  <2>1. \A j \in DOMAIN q.line : InTime(q, q.line[j], s)
    BY <1>3, <1>4 DEF TabOK, AnswersOK, InTime, Answered
  <2>2. InOrder(q.line)
    BY <1>3, <1>4 DEF TabOK, AnswersOK, InOrder, Answered
  <2> QED BY <1>3, <2>1, <2>2 DEF TabOK, AnswersOK
<1>11. PanelOK(q)
  BY <1>3, <1>4 DEF TabOK, PanelOK
<1> QED BY <1>2, <1>3, <1>6, <1>7, <1>8, <1>9, <1>10, <1>11 DEF TabOK

(* The host's session only goes forward, which no page has to know.        *)
LEMMA ReplacedKeeps ==
  ASSUME NEW t, NEW s \in Nat, TabOK(t, {}, s), NEW n \in Nat, s <= n
  PROVE  TabOK(t, {}, n)
<1>0. t \in Tabs
  BY DEF TabOK
<1>1. t.view.session \in Nat /\ t.shown.session \in Nat /\ t.rows.for \in Nat
  BY <1>0, TabsAre
<1>2. \A i \in DOMAIN t.line : t.line[i].for \in Nat /\ t.line[i].answer.session \in Nat
  BY <1>0, TabsAre, LinesAre, EntriesAre
<1>3. AnswersOK(t, s)
  BY DEF TabOK
<1>4. \A i \in DOMAIN t.line : InTime(t, t.line[i], n)
  BY <1>2, <1>3 DEF AnswersOK, InTime
<1>5. AnswersOK(t, n)
  BY <1>1, <1>3, <1>4 DEF AnswersOK
<1> QED BY <1>5 DEF TabOK

(* The host answers the oldest request it has not answered.                *)
LEMMA AnsweredKeeps ==
  ASSUME NEW t, NEW s \in Nat, TabOK(t, {}, s), NEW n \in Nat, s <= n,
         NEW i \in Oldest(t.line), NEW a \in AnswerType, a # NoAnswer,
         a.kind = "result" => a.session = n
  PROVE  TabOK([t EXCEPT !.line[i].answer = a], {}, n)
<1> DEFINE e == t.line[i]
           f == [e EXCEPT !.answer = a]
           q == [t EXCEPT !.line = [@ EXCEPT ![i] = f]]
<1>0. /\ i \in DOMAIN t.line /\ e.answer = NoAnswer
      /\ \A j \in DOMAIN t.line : t.line[j].answer = NoAnswer => i <= j
  BY DEF Oldest, Unanswered
<1>1. t \in Tabs /\ (\A j \in DOMAIN t.line : t.line[j] \in EntryType)
      /\ DOMAIN t.line \subseteq Nat
  BY TabsAre, LinesAre DEF TabOK
<1>2. /\ f \in EntryType /\ f.use = e.use /\ f.for = e.for /\ f.active = e.active
      /\ f.waits = e.waits /\ f.answer = a
  BY <1>0, <1>1 DEF EntryType
<1>3. [t EXCEPT !.line[i].answer = a] = q
  OBVIOUS
<1> HIDE DEF f
<1>4. /\ q \in Tabs /\ DOMAIN q.line = DOMAIN t.line
      /\ q.line = <<>> <=> t.line = <<>>
      /\ q.line[i] = f /\ \A j \in DOMAIN t.line : j # i => q.line[j] = t.line[j]
      /\ SameTransport(t, q) /\ q.rows = t.rows /\ q.view = t.view
      /\ q.kind = t.kind /\ q.file = t.file /\ q.shown = t.shown
      /\ q.items = t.items /\ q.auto = t.auto /\ q.refreshing = t.refreshing
      /\ q.busy = t.busy /\ q.export = t.export
  BY <1>0, <1>1, <1>2, EntryChanged
<1> HIDE DEF q
<1>5. \A j \in DOMAIN t.line :
        /\ q.line[j].use = t.line[j].use /\ q.line[j].for = t.line[j].for
        /\ q.line[j].active = t.line[j].active /\ q.line[j].waits = t.line[j].waits
        /\ j # i => q.line[j].answer = t.line[j].answer
  BY <1>2, <1>4
<1>6. Waiting(q) = Waiting(t) /\ Waiting(t) \subseteq DOMAIN t.line
  BY <1>4, <1>5 DEF Waiting
<1>7. ConnectionOK(q)
  BY <1>4 DEF TabOK, ConnectionOK, SameTransport
<1>8. UsesOK(q, {})
  BY <1>4, <1>5 DEF TabOK, UsesOK
<1>9. WaitingOK(q, {})
  <2>1. WaitingOK(t, {})
    BY DEF TabOK
  <2>2. \A j \in Waiting(t) : EndsBusy(q.line[j]) <=> EndsBusy(t.line[j])
    BY <1>5, <1>6 DEF EndsBusy
  <2>3. /\ q.busy => \E j \in Waiting(q) : EndsBusy(q.line[j])
        /\ q.refreshing => \E j \in Waiting(q) : q.line[j].use = "refresh"
        /\ q.export # NoExport => \E j \in Waiting(q) : q.line[j].use \in {"export", "check"}
    BY <1>4, <1>5, <1>6, <2>1, <2>2 DEF WaitingOK, Awaited
  <2>4. /\ \A j \in Waiting(q) : q.line[j].use \in Runs => q.busy
        /\ \A j, k \in Waiting(q) : q.line[j].use \in Runs /\ q.line[k].use \in Runs => j = k
        /\ \A j \in Waiting(q) :
             /\ q.line[j].use = "export" => q.export.read \subseteq {q.export.owner}
             /\ q.line[j].use = "check" => q.export.read = {q.export.owner}
    BY <1>4, <1>5, <1>6, <2>1 DEF WaitingOK, Awaited
  <2> QED BY <1>4, <2>1, <2>3, <2>4 DEF WaitingOK, Awaited
<1>10. AnswersOK(q, n)
  <2>1. AnswersOK(t, s) /\ AnswersOK(t, n)
    BY ReplacedKeeps DEF TabOK
  <2>2. \A j \in DOMAIN t.line : j # i => InTime(q, q.line[j], n)
    BY <1>4, <2>1 DEF AnswersOK, InTime
  <2>3. InTime(q, q.line[i], n)
    <3>1. /\ t.view.session <= n /\ t.shown.session <= n /\ t.rows.for <= n /\ e.for <= n
      BY <1>0, <2>1 DEF AnswersOK, InTime
    <3>2. q.line[i].for = e.for /\ q.line[i].answer = a /\ n <= n
      BY <1>2, <1>4
    <3> QED BY <1>4, <3>1, <3>2 DEF InTime, Answered
  <2>4. InOrder(q.line)
    <3>1. SUFFICES ASSUME NEW j \in DOMAIN t.line, NEW k \in DOMAIN t.line, j < k
                   PROVE  /\ q.line[k].answer # NoAnswer => q.line[j].answer # NoAnswer
                          /\ Answered(q.line[j]) /\ Answered(q.line[k]) =>
                               q.line[j].answer.session <= q.line[k].answer.session
      BY <1>4 DEF InOrder
    <3>2. j \in Nat /\ k \in Nat /\ i \in Nat
      BY <1>0, <1>1
    <3>3. CASE j = i
      <4>1. t.line[k].answer = NoAnswer
        BY <1>0, <2>1, <3>1, <3>3 DEF AnswersOK, InOrder
      <4>2. q.line[k].answer = NoAnswer
        BY <1>5, <3>1, <3>2, <3>3, <4>1
      <4> QED BY <4>2 DEF Answered, NoAnswer
    <3>4. CASE k = i
      <4>1. t.line[j].answer # NoAnswer /\ q.line[j] = t.line[j]
        BY <1>0, <1>4, <3>1, <3>2, <3>4
      <4>2. Answered(t.line[j]) => t.line[j].answer.session <= s
        BY <2>1 DEF AnswersOK, InTime
      <4>3. t.line[j].answer.session \in Nat /\ (Answered(q.line[i]) => q.line[i].answer.session = n)
        BY <1>1, <1>2, <1>4, EntriesAre DEF Answered
      <4> QED BY <3>4, <4>1, <4>2, <4>3
    <3>5. CASE j # i /\ k # i
      BY <1>4, <2>1, <3>1, <3>5 DEF AnswersOK, InOrder
    <3> QED BY <3>3, <3>4, <3>5
  <2> QED BY <1>4, <2>1, <2>2, <2>3, <2>4 DEF AnswersOK
<1>11. PanelOK(q)
  BY <1>4, <1>5 DEF TabOK, PanelOK
<1> QED BY <1>3, <1>4, <1>6, <1>7, <1>8, <1>9, <1>10, <1>11 DEF TabOK

-----------------------------------------------------------------------------
(* What the user does.                                                     *)

(* A button of the page: nothing else is under way, and now this is.       *)
LEMMA RunKeeps ==
  ASSUME NEW t, NEW q \in Tabs, NEW s \in Nat, TabOK(t, {}, s), SameSocket(t, q),
         q.kind = t.kind, q.file = t.file, q.shown = t.shown, q.refreshing = t.refreshing,
         q.auto = t.auto, q.items = t.items, q.view = t.view, q.rows = t.rows,
         ~t.busy, q.busy, NEW use \in {"filter", "delete", "account", "export"},
         Asks(t.kind, use), IF use = "export" THEN q.export.read = {} ELSE q.export = t.export
  PROVE  TabOK(Request(q, use, 0), {}, s)
<1> DEFINE e == Entry(use, 0)
<1>1. use \in Uses /\ use \in Runs /\ use # "check" /\ 0 \in SessionOrNone /\ 0 <= s
  BY NumbersAre DEF Uses, Runs
<1>2. e \in EntryType /\ e.use = use /\ EndsBusy(e)
  BY <1>1, EntriesAre DEF EndsBusy
<1> HIDE DEF e
<1>3. t.kind # "panel" /\ (use = "export" => t.kind = "privacy")
  BY DEF Asks
<1>4. ConnectionOK(q) /\ Waiting(q) = Waiting(t) /\ Cardinality(Waiting(q)) <= MaxPending
  BY SocketKept DEF TabOK, Waiting, SameSocket
<1>5. UsesOK(q, {e})
  BY <1>2 DEF TabOK, UsesOK, SameSocket
<1>6. WaitingOK(q, {e})
  <2>1. WaitingOK(t, {}) /\ Awaited(q, {e}) = Awaited(t, {}) \cup {e}
    BY <1>4 DEF TabOK, Awaited, SameSocket
  <2>2. \A f \in Awaited(t, {}) : f.use \notin Runs
    BY <2>1 DEF WaitingOK
  <2>3. \A f \in Awaited(t, {}) : f.use \notin {"export", "check"}
    BY <2>2 DEF Runs
  <2>4. t.export = NoExport
    BY <2>1, <2>3 DEF WaitingOK
  <2>5. \A i \in Waiting(q) : q.line[i].use \notin Runs
    BY <1>4, <2>2 DEF Awaited, SameSocket
  <2>6. q.export # NoExport => e.use \in {"export", "check"}
    BY <1>2, <2>4
  <2>7. q.kind # "privacy" => q.export = NoExport /\ q.file = NoExport
    BY <1>3, <2>1 DEF WaitingOK
  <2>8. t.refreshing => \E f \in Awaited(t, {}) : f.use = "refresh"
    BY <2>1 DEF WaitingOK
  <2>9. e.use = "export" => q.export.read \subseteq {q.export.owner}
    BY <1>2
  <2> QED BY <1>1, <1>2, <2>1, <2>2, <2>3, <2>5, <2>6, <2>7, <2>8, <2>9 DEF WaitingOK
<1>7. AnswersOK(q, s)
  BY DEF TabOK, AnswersOK, InTime, SameSocket
<1>8. PanelOK(q)
  BY <1>3 DEF TabOK, PanelOK
<1>9. TabOK(q, {e}, s)
  BY <1>4, <1>5, <1>6, <1>7, <1>8 DEF TabOK
<1> QED BY <1>1, <1>3, <1>9, RequestKeeps DEF e

(* The history page's and the account page's buttons.                      *)
LEMMA RunClicked ==
  ASSUME NEW s \in Nat, TabOK(tab, {}, s), NEW kinds, NEW use, Run(kinds, use),
         \/ kinds = {"history"} /\ use \in {"filter", "delete"}
         \/ kinds = {"account", "privacy"} /\ use = "account"
  PROVE  TabOK(tab', {}, s)
<1> DEFINE q == [tab EXCEPT !.busy = TRUE]
<1>1. ~tab.busy /\ tab' = Request(q, use, 0) /\ tab.kind \in kinds
  BY DEF Run, Shows
<1>2. tab \in Tabs
  BY DEF TabOK
<1>3. /\ q \in Tabs /\ SameSocket(tab, q) /\ q.rows = tab.rows /\ q.view = tab.view
      /\ q.kind = tab.kind /\ q.file = tab.file /\ q.shown = tab.shown
      /\ q.items = tab.items /\ q.auto = tab.auto /\ q.refreshing = tab.refreshing
      /\ q.busy /\ q.export = tab.export
  BY <1>2 DEF Tabs, SameSocket
<1> HIDE DEF q
<1>4. Asks(tab.kind, use) /\ use \in {"filter", "delete", "account", "export"} /\ use # "export"
  BY <1>1 DEF Asks
<1> QED BY <1>1, <1>3, <1>4, RunKeeps

(* The privacy page's export.                                              *)
LEMMA ExportClickedKeeps ==
  ASSUME NEW s \in Nat, TabOK(tab, {}, s), ExportClicked
  PROVE  TabOK(tab', {}, s)
<1> DEFINE export == [tab.export EXCEPT !.owner = tab.shown.session]
           q == [tab EXCEPT !.busy = TRUE, !.export = export]
<1>0. tab' = Request([tab EXCEPT !.busy = TRUE, !.export.owner = tab.shown.session], "export", 0)
  BY DEF ExportClicked
<1>1. ~tab.busy /\ tab' = Request(q, "export", 0) /\ tab.kind = "privacy"
  BY <1>0 DEF ExportClicked, Shows
<1>2. tab \in Tabs /\ tab.export \in ExportType /\ tab.shown.session \in SessionOrNone
  BY TabsAre DEF TabOK, ViewType
<1>3. tab.export = NoExport
  BY <1>1 DEF TabOK, WaitingOK, Runs
<1>4. export \in ExportType /\ export.read = {}
  BY <1>2, <1>3, ViewsAre DEF ExportType
<1> HIDE DEF export
<1>5. /\ q \in Tabs /\ SameSocket(tab, q) /\ q.rows = tab.rows /\ q.view = tab.view
      /\ q.kind = tab.kind /\ q.file = tab.file /\ q.shown = tab.shown
      /\ q.items = tab.items /\ q.auto = tab.auto /\ q.refreshing = tab.refreshing
      /\ q.busy /\ q.export = export
  BY <1>2, <1>4 DEF Tabs, SameSocket
<1> HIDE DEF q
<1>6. Asks(tab.kind, "export")
  BY <1>1 DEF Asks
<1> QED BY <1>1, <1>4, <1>5, <1>6, RunKeeps

(* The composer's command.                                                 *)
LEMMA SubmitClickedKeeps ==
  ASSUME NEW s \in Nat, TabOK(tab, {}, s), SubmitClicked
  PROVE  TabOK(tab', {}, s)
<1> DEFINE e == Entry("command", 0)
<1>1. tab' = Request(tab, "command", 0) /\ tab.kind = "panel" /\ tab.shown.session # 0
  BY DEF SubmitClicked, Shows
<1>2. "command" \in Uses /\ 0 \in SessionOrNone /\ 0 <= s /\ e \in EntryType /\ e.use = "command"
  BY NumbersAre, EntriesAre DEF Uses
<1> HIDE DEF e
<1>3. TabOK(tab, {e}, s)
  BY <1>1, <1>2, JoinsFreely DEF Asks, Runs
<1> QED BY <1>1, <1>2, <1>3, RequestKeeps DEF e

(* The panel's own question.                                               *)
LEMMA AutoRetrievesKeeps ==
  ASSUME NEW s \in Nat, TabOK(tab, {}, s), AutoRetrieves
  PROVE  TabOK(tab', {}, s)
<1> DEFINE q == [tab EXCEPT !.auto = FALSE]
<1>1. tab \in Tabs /\ tab.auto /\ PanelOK(tab) /\ tab' = Retrieve(q)
  BY DEF TabOK, AutoRetrieves
<1>2. tab.kind = "panel" /\ tab.shown.session # 0
  BY <1>1 DEF PanelOK
<1>3. /\ q \in Tabs /\ SameSocket(tab, q) /\ q.rows = tab.rows /\ q.view = tab.view
      /\ q.kind = tab.kind /\ q.file = tab.file /\ q.shown = tab.shown
      /\ q.items = tab.items /\ ~q.auto /\ q.refreshing = tab.refreshing
      /\ q.busy = tab.busy /\ q.export = tab.export
  BY <1>1 DEF Tabs, SameSocket
<1> HIDE DEF q
<1>4. PanelOK(q)
  BY <1>1, <1>3 DEF PanelOK, SameSocket
<1>5. ConnectionOK(q) /\ Waiting(q) = Waiting(tab)
  BY <1>3, SocketKept DEF TabOK, Waiting, SameSocket
<1>6. UsesOK(q, {}) /\ WaitingOK(q, {}) /\ AnswersOK(q, s)
  BY <1>3, <1>5 DEF TabOK, UsesOK, WaitingOK, Awaited, AnswersOK, InTime, SameSocket
<1>7. TabOK(q, {}, s)
  BY <1>3, <1>4, <1>5, <1>6 DEF TabOK
<1> QED BY <1>1, <1>2, <1>3, <1>7, RetrieveKeeps

(* React renders.                                                          *)
LEMMA RendersKeeps ==
  ASSUME NEW s \in Nat, TabOK(tab, {}, s), Renders
  PROVE  TabOK(tab', {}, s)
<1>1. PICK analytics \in BOOLEAN : tab' = Rendered(tab, analytics)
  BY DEF Renders
<1>2. tab.shown # tab.view /\ (tab.view.state = "pairing-required" => tab.generation < MaxOpens)
  BY DEF Renders
<1>3. tab.kind \in Kinds
  BY DEF TabOK, Tabs
<1>4. CASE tab.kind = "history"
  <2>1. tab' = LoadEffect([tab EXCEPT !.shown = tab.view])
    BY <1>1, <1>4 DEF Rendered
  <2> QED BY <1>4, <2>1, LoadEffectKeeps
<1>5. CASE tab.kind = "panel"
  <2> DEFINE q == AutoEffect(Remounted([tab EXCEPT !.shown = tab.view], tab.shown))
  <2>1. tab' = TerminalEffect(q, analytics)
    BY <1>1, <1>5 DEF Rendered
  <2>2. TabOK(q, {}, s) /\ q.kind = "panel" /\ q.shown = tab.view /\ q.generation = tab.generation
    BY <1>2, <1>5, AutoEffectKeeps
  <2> HIDE DEF q
  <2> QED BY <1>2, <2>1, <2>2, TerminalEffectKeeps
<1>6. CASE tab.kind \notin {"history", "panel"}
  <2>1. tab' = [tab EXCEPT !.shown = tab.view]
    BY <1>1, <1>6 DEF Rendered
  <2> QED BY <1>6, <2>1, ShowsKeeps
<1> QED BY <1>4, <1>5, <1>6

(* The terminal beside the panel connects or loses its connection.         *)
LEMMA TerminalChangesKeeps ==
  ASSUME NEW s \in Nat, TabOK(tab, {}, s), TerminalChanges
  PROVE  TabOK(tab', {}, s)
<1> DEFINE q == [tab EXCEPT !.connected = ~@]
<1>1. tab \in Tabs /\ tab.kind = "panel" /\ tab.generation < MaxOpens
  BY DEF TabOK, TerminalChanges
<1>2. PICK analytics \in BOOLEAN : tab' = TerminalEffect(q, analytics)
  BY DEF TerminalChanges
<1>3. /\ q \in Tabs /\ SameSocket(tab, q) /\ SameButView(tab, q) /\ q.view = tab.view
  BY <1>1 DEF Tabs, SameSocket, SameButView
<1> HIDE DEF q
<1>4. TabOK(q, {}, s)
  BY <1>3, SocketKept, ViewKept DEF TabOK, SameSocket
<1> QED BY <1>1, <1>2, <1>3, <1>4, TerminalEffectKeeps DEF SameSocket, SameButView

(* The panel is given another profile's endpoint, and begins anew.         *)
LEMMA SwitchesKeeps ==
  ASSUME session \in Nat, TabOK(tab, {}, session), Switches
  PROVE  TabOK(tab', {}, session')
<1> DEFINE old == Dispose(tab)
           q == [Fresh("panel") EXCEPT !.born = tab.generation, !.generation = tab.generation,
                                       !.loads = old.loads, !.signing = old.signing,
                                       !.live = old.live, !.connected = tab.connected]
<1>1. /\ tab' = Connect(q) /\ tab.generation < MaxOpens /\ session' = session + 1
  BY DEF Switches
<1>2. old.loads = tab.loads /\ old.live = {} /\ old.signing \in SUBSET Attempts
  BY DisposeLeaves
<1> HIDE DEF old
<1>3. tab \in Tabs /\ tab.generation \in Nat /\ tab.loads \in SUBSET Attempts /\ tab.connected \in BOOLEAN
      /\ \A attempt \in tab.loads : attempt <= tab.generation
  BY DEF TabOK, Tabs, ConnectionOK
<1>4. Fresh("panel") \in Tabs
  BY FreshIs DEF Kinds
<1>5. /\ q \in Tabs
      /\ q.line = <<>> /\ q.socket = 0 /\ q.live = {} /\ ~q.retry /\ ~q.disposed
      /\ q.loads = tab.loads /\ q.generation = tab.generation
      /\ ~q.busy /\ ~q.refreshing /\ q.export = NoExport /\ q.file = NoExport
      /\ q.view.session = 0 /\ q.shown.session = 0 /\ q.rows = NoRows /\ q.items = 0 /\ ~q.auto
  <2>1. q \in Tabs
    BY <1>2, <1>3, <1>4 DEF Tabs
  <2> QED BY <1>2, <2>1 DEF Fresh, View
<1> HIDE DEF q
<1>6. session' \in Nat
  BY <1>1
<1>7. TabOK(q, {}, session')
  BY <1>3, <1>5, <1>6, EmptyKeeps
<1> QED BY <1>1, <1>5, <1>6, <1>7, ConnectKeeps

-----------------------------------------------------------------------------
(* What the event loop does.                                               *)

(* An attempt has waited for the stored credential, or for its failure.    *)
LEMMA LoadKeeps ==
  ASSUME NEW s \in Nat, TabOK(tab, {}, s), NEW attempt \in tab.loads,
         LoadEnds(attempt) \/ LoadFails(attempt)
  PROVE  TabOK(tab', {}, s)
<1> DEFINE t == [tab EXCEPT !.loads = @ \ {attempt}]
<1>1. tab \in Tabs /\ attempt \in Attempts
  BY DEF TabOK, Tabs
<1>2. /\ t \in Tabs /\ SameButView(tab, t) /\ t.line = tab.line /\ t.view = tab.view
      /\ t.disposed = tab.disposed /\ t.retry = tab.retry /\ t.socket = tab.socket
      /\ t.generation = tab.generation /\ t.loads = tab.loads \ {attempt} /\ t.live = tab.live
  BY <1>1 DEF Tabs, SameButView
<1> HIDE DEF t
<1>3. ConnectionOK(t)
  BY <1>2 DEF TabOK, ConnectionOK
<1>4. TabOK(t, {}, s)
  BY <1>2, <1>3, ViewKept
<1>5. CASE LoadFails(attempt)
  <2>1. tab' = IF IsOwn(t, attempt) THEN SetState(t, "unavailable") ELSE t
    BY <1>5 DEF LoadFails, t
  <2> QED BY <1>4, <2>1, SetStateKeeps DEF ClientStates
<1>6. CASE LoadEnds(attempt) /\ ~Loaded(t, attempt)
  <2>1. tab' = t
    BY <1>6 DEF LoadEnds, t
  <2> QED BY <1>4, <2>1
<1>7. CASE LoadEnds(attempt) /\ Loaded(t, attempt)
  <2>1. tab' \in {SocketMade(t, attempt), SetState(t, "pairing-required"), Failed(t)}
    BY <1>7 DEF LoadEnds, t
  <2>2. attempt = t.generation /\ ~t.disposed
    BY <1>7 DEF Loaded, IsOwn
  <2>3. t.socket = 0 /\ ~t.retry /\ t.generation \notin t.loads
    BY <1>2, <2>2 DEF TabOK, ConnectionOK
  <2>4. t.live = {}
    BY <1>2, <1>3, <2>3, NumbersAre DEF ConnectionOK, Tabs
  <2>5. TabOK(SocketMade(t, attempt), {}, s)
    BY <1>1, <1>4, <2>2, <2>3, SocketMadeKeeps
  <2>6. TabOK(SetState(t, "pairing-required"), {}, s)
    BY <1>4, SetStateKeeps DEF ClientStates
  <2>7. TabOK(Failed(t), {}, s)
    BY <1>2, <1>3, <1>4, <2>3, <2>4, FailedKeeps DEF TabOK, ConnectionOK
  <2> QED BY <2>1, <2>5, <2>6, <2>7
<1> QED BY <1>5, <1>6, <1>7

(* The handshake of a socket.                                              *)
LEMMA HandshakeKeeps ==
  ASSUME NEW s \in Nat, TabOK(tab, {}, s),
         \/ ChallengeArrives \/ ReadyArrives \/ HandshakeTimesOut
         \/ \E socket \in tab.signing : ProofEnds(socket)
  PROVE  TabOK(tab', {}, s)
<1>0. tab \in Tabs
  BY DEF TabOK
<1>1. CASE ChallengeArrives
  <2> DEFINE q == [tab EXCEPT !.phase = "signing", !.signing = @ \cup {tab.socket}]
  <2>1. tab' \in {q, Closing(tab)} /\ tab.socket # 0
    BY <1>1 DEF ChallengeArrives, Listens
  <2>2. SameSocket(tab, q) /\ SameButView(tab, q) /\ q.view = tab.view /\ q \in Tabs
    BY <1>0, <2>1 DEF Tabs, Phases, SameSocket, SameButView
  <2> HIDE DEF q
  <2>3. TabOK(q, {}, s)
    BY <2>2, SocketKept, ViewKept DEF TabOK, SameSocket
  <2> QED BY <2>1, <2>3, ClosingKeeps
<1>2. CASE ReadyArrives
  BY <1>2, ReadyKeeps DEF ReadyArrives
<1>3. CASE HandshakeTimesOut
  BY <1>3, ClosingKeeps DEF HandshakeTimesOut
<1>4. ASSUME NEW socket \in tab.signing, ProofEnds(socket)
      PROVE  TabOK(tab', {}, s)
  <2> DEFINE t == [tab EXCEPT !.signing = @ \ {socket}]
             q == [t EXCEPT !.phase = "ready"]
  <2>1. tab' \in {t, q, Closing(t)}
    BY <1>4 DEF ProofEnds
  <2>2. SameSocket(tab, t) /\ SameButView(tab, t) /\ t.view = tab.view /\ t \in Tabs
    BY <1>0 DEF Tabs, SameSocket, SameButView
  <2> HIDE DEF t
  <2>3. TabOK(t, {}, s)
    BY <2>2, SocketKept, ViewKept DEF TabOK, SameSocket
  <2>4. SameSocket(t, q) /\ SameButView(t, q) /\ q.view = t.view /\ q \in Tabs
    BY <2>2 DEF Tabs, Phases, SameSocket, SameButView
  <2> HIDE DEF q
  <2>5. TabOK(q, {}, s)
    BY <2>3, <2>4, SocketKept, ViewKept DEF TabOK, SameSocket
  <2> QED BY <2>1, <2>3, <2>5, ClosingKeeps
<1> QED BY <1>1, <1>2, <1>3, <1>4

(* A new attempt after the pause.                                          *)
LEMMA RetryFiresKeeps ==
  ASSUME NEW s \in Nat, TabOK(tab, {}, s), RetryFires
  PROVE  TabOK(tab', {}, s)
<1> DEFINE q == [tab EXCEPT !.retry = FALSE]
<1>1. tab \in Tabs /\ tab.retry /\ tab.generation < MaxOpens /\ tab' = Open(q)
  BY DEF TabOK, RetryFires
<1>2. /\ q \in Tabs /\ SameButView(tab, q) /\ q.line = tab.line /\ q.view = tab.view
      /\ q.disposed = tab.disposed /\ ~q.retry /\ q.socket = tab.socket /\ q.live = tab.live
      /\ q.generation = tab.generation /\ q.loads = tab.loads
  BY <1>1 DEF Tabs, SameButView
<1> HIDE DEF q
<1>3. ConnectionOK(q) /\ q.socket = 0 /\ ~q.disposed
  BY <1>1, <1>2 DEF TabOK, ConnectionOK
<1>4. TabOK(q, {}, s)
  BY <1>2, <1>3, ViewKept
<1> QED BY <1>1, <1>2, <1>3, <1>4, OpenKeeps

(* An answer arrives for somebody or nobody.                               *)
LEMMA AnswerArrivesKeeps ==
  ASSUME NEW s \in Nat, TabOK(tab, {}, s), AnswerArrives
  PROVE  TabOK(tab', {}, s)
<1> DEFINE e == Head(tab.line)
           t == [tab EXCEPT !.line = Tail(@)]
<1>1. /\ tab.line # <<>>
      /\ tab' = IF ~e.waits THEN t
                ELSE IF Answered(e) THEN Resolved(t, e) ELSE Rejected(t, {e})
  BY DEF AnswerArrives, Answered
<1>2. /\ e \in EntryType
      /\ IF e.waits THEN TabOK(t, {e}, s) ELSE TabOK(t, {}, s)
      /\ e.waits /\ Answered(e) => Heard(t, e, s)
  BY <1>1, HeadLeaves
<1> HIDE DEF e, t
<1>3. e.waits => TabOK(Rejected(t, {e}), {}, s)
  BY <1>2, RejectedKeeps
<1>4. e.waits /\ Answered(e) => TabOK(Resolved(t, e), {}, s)
  BY <1>2, ResolvedKeeps
<1> QED BY <1>1, <1>2, <1>3, <1>4

(* The host answers.                                                       *)
LEMMA HostAnswersKeeps ==
  ASSUME session \in 1..MaxSessions, TabOK(tab, {}, session), HostAnswers
  PROVE  session' \in 1..MaxSessions /\ TabOK(tab', {}, session')
<1>1. PICK i \in Oldest(tab.line) :
        \/ tab' = [tab EXCEPT !.line[i].answer = Refused] /\ UNCHANGED session
        \/ /\ tab.line[i].use = "account"
           /\ session' \in {session, session + 1} /\ session' <= MaxSessions
           /\ tab' = [tab EXCEPT !.line[i].answer = Result(session', FALSE)]
        \/ /\ \E more \in BOOLEAN : tab' = [tab EXCEPT !.line[i].answer = Result(session, more)]
           /\ UNCHANGED session
  BY DEF HostAnswers
<1>2. PICK a \in AnswerType :
        /\ tab' = [tab EXCEPT !.line[i].answer = a]
        /\ a # NoAnswer /\ (a.kind = "result" => a.session = session')
        /\ session' \in 1..MaxSessions /\ session' \in Nat /\ session <= session'
  <2>0. session \in Nat /\ session + 1 \in Nat /\ MaxSessions \in Nat
    BY NumbersAre
  <2>1. CASE tab' = [tab EXCEPT !.line[i].answer = Refused] /\ UNCHANGED session
    <3>1. Refused \in AnswerType /\ Refused # NoAnswer /\ Refused.kind # "result"
      BY AnswersAre DEF Refused
    <3>2. session' \in 1..MaxSessions /\ session' \in Nat /\ session <= session'
      BY <2>0, <2>1
    <3> QED BY <2>1, <3>1, <3>2
  <2>2. CASE /\ session' \in {session, session + 1} /\ session' <= MaxSessions
             /\ tab' = [tab EXCEPT !.line[i].answer = Result(session', FALSE)]
    <3>1. session' \in 1..MaxSessions /\ session' \in Nat /\ session <= session'
      BY <2>0, <2>2
    <3> QED BY <2>2, <3>1, AnswersAre
  <2>3. CASE /\ \E more \in BOOLEAN : tab' = [tab EXCEPT !.line[i].answer = Result(session, more)]
             /\ UNCHANGED session
    <3>1. session' \in 1..MaxSessions /\ session' \in Nat /\ session <= session'
          /\ session' = session
      BY <2>0, <2>3
    <3>2. PICK more \in BOOLEAN : tab' = [tab EXCEPT !.line[i].answer = Result(session, more)]
      BY <2>3
    <3>3. /\ Result(session, more) \in AnswerType /\ Result(session, more) # NoAnswer
          /\ Result(session, more).session = session
      BY AnswersAre
    <3> QED BY <3>1, <3>2, <3>3
  <2> QED BY <1>1, <2>1, <2>2, <2>3
<1>3. session \in Nat
  OBVIOUS
<1> QED BY <1>2, <1>3, AnsweredKeeps

-----------------------------------------------------------------------------
(* The invariant.                                                          *)

(* A page begins well.                                                     *)
LEMMA InvariantInit == Init => PageInvariant
<1> SUFFICES ASSUME Init PROVE PageInvariant
  OBVIOUS
<1>1. PICK kind \in Pages : tab = Connect(Fresh(kind))
  BY DEF Init
<1>2. kind \in Kinds
  BY IntelligenceAssumption
<1> DEFINE q == Fresh(kind)
<1>3. q \in Tabs
  BY <1>2, FreshIs
<1>4. /\ q.line = <<>> /\ q.socket = 0 /\ q.live = {} /\ ~q.retry /\ ~q.disposed
      /\ q.loads = {} /\ q.generation = 0
      /\ ~q.busy /\ ~q.refreshing /\ q.export = NoExport /\ q.file = NoExport
      /\ q.view.session = 0 /\ q.shown.session = 0 /\ q.rows = NoRows /\ q.items = 0 /\ ~q.auto
  BY DEF Fresh, View
<1> HIDE DEF q
<1>5. session = 1 /\ session \in 1..MaxSessions /\ 1 \in Nat
  BY NumbersAre DEF Init
<1>6. TabOK(q, {}, 1)
  BY <1>3, <1>4, EmptyKeeps
<1>7. TabOK(Connect(q), {}, 1)
  BY <1>4, <1>6, ConnectKeeps
<1> QED BY <1>1, <1>5, <1>7 DEF PageInvariant, q

(* Every step keeps the page to its rules.                                 *)
LEMMA InvariantStep == PageInvariant /\ [Next]_vars => PageInvariant'
<1> SUFFICES ASSUME PageInvariant, [Next]_vars PROVE PageInvariant'
  OBVIOUS
<1>1. session \in 1..MaxSessions /\ TabOK(tab, {}, session) /\ session \in Nat
  BY NumbersAre DEF PageInvariant
<1>2. SUFFICES session' \in 1..MaxSessions /\ TabOK(tab', {}, session')
  BY DEF PageInvariant
<1>3. CASE UNCHANGED vars
  BY <1>1, <1>3 DEF vars
<1>4. CASE Renders
  BY <1>1, <1>4, RendersKeeps DEF Renders
<1>5. CASE TerminalChanges
  BY <1>1, <1>5, TerminalChangesKeeps DEF TerminalChanges
<1>6. CASE RetryClicked
  BY <1>1, <1>6, ConnectKeeps DEF RetryClicked
<1>7. CASE FilterClicked \/ DeleteClicked \/ AccountClicked
  BY <1>1, <1>7, RunClicked DEF FilterClicked, DeleteClicked, AccountClicked, Run
<1>8. CASE ExportClicked
  BY <1>1, <1>8, ExportClickedKeeps DEF ExportClicked
<1>9. CASE SearchClicked
  BY <1>1, <1>9, RetrieveKeeps DEF SearchClicked, Shows
<1>10. CASE SubmitClicked
  BY <1>1, <1>10, SubmitClickedKeeps DEF SubmitClicked
<1>11. CASE AutoRetrieves
  BY <1>1, <1>11, AutoRetrievesKeeps DEF AutoRetrieves
<1>12. CASE Leaves
  BY <1>1, <1>12, DisposeKeeps DEF Leaves
<1>13. CASE Switches
  <2>1. session' \in 1..MaxSessions
    BY <1>1, <1>13, NumbersAre DEF Switches
  <2> QED BY <1>1, <1>13, <2>1, SwitchesKeeps
<1>14. CASE RefreshDue
  BY <1>1, <1>14, RefreshKeeps DEF RefreshDue
<1>15. CASE RetryFires
  BY <1>1, <1>15, RetryFiresKeeps DEF RetryFires
<1>16. CASE \E attempt \in tab.loads : LoadEnds(attempt) \/ LoadFails(attempt)
  BY <1>1, <1>16, LoadKeeps DEF LoadEnds, LoadFails
<1>17. CASE \/ ChallengeArrives \/ ReadyArrives \/ HandshakeTimesOut
            \/ \E socket \in tab.signing : ProofEnds(socket)
  BY <1>1, <1>17, HandshakeKeeps DEF ChallengeArrives, ReadyArrives, HandshakeTimesOut, ProofEnds
<1>18. CASE SocketEnds
  BY <1>1, <1>18, EndedKeeps DEF SocketEnds
<1>19. ASSUME NEW i \in DOMAIN tab.line, RequestTimesOut(i)
       PROVE  session' \in 1..MaxSessions /\ TabOK(tab', {}, session')
  <2>1. /\ tab.line[i].waits /\ UNCHANGED session
        /\ tab' = Rejected([tab EXCEPT !.line[i].waits = FALSE], {tab.line[i]})
    BY <1>19 DEF RequestTimesOut
  <2>2. TabOK([tab EXCEPT !.line[i].waits = FALSE], {tab.line[i]}, session)
    BY <1>1, <2>1, TimesOut
  <2>3. {tab.line[i]} \in SUBSET EntryType
    BY <1>1, TabsAre, LinesAre DEF TabOK
  <2> QED BY <1>1, <2>1, <2>2, <2>3, RejectedKeeps
<1>20. CASE AnswerArrives
  BY <1>1, <1>20, AnswerArrivesKeeps DEF AnswerArrives
<1>21. CASE HostAnswers
  BY <1>1, <1>21, HostAnswersKeeps
<1>22. CASE SessionReplaced
  <2>1. session' \in 1..MaxSessions /\ session' \in Nat /\ session <= session' /\ tab' = tab
    BY <1>1, <1>22, NumbersAre DEF SessionReplaced
  <2> QED BY <1>1, <2>1, ReplacedKeeps
<1> QED BY <1>3, <1>4, <1>5, <1>6, <1>7, <1>8, <1>9, <1>10, <1>11, <1>12, <1>13, <1>14, <1>15,
           <1>16, <1>17, <1>18, <1>19, <1>20, <1>21, <1>22 DEF Next

(* The invariant of every page.                                            *)
THEOREM PagesCorrect == Spec => []PageInvariant
<1>1. QED BY InvariantInit, InvariantStep, PTL DEF Spec

(* The page keeps to its shape: the requests that wait and the reconnects  *)
(* without a success are bounded (client.ts:258, client.ts:267).           *)
THEOREM PagesTypeOK == Spec => []TypeOK
<1>1. ASSUME PageInvariant PROVE TypeOK
  <2>1. session \in 1..MaxSessions /\ tab \in Tabs /\ Cardinality(Waiting(tab)) <= MaxPending
    BY <1>1 DEF PageInvariant, TabOK
  <2>2. \A i \in DOMAIN tab.line : tab.line[i].answer \in AnswerType
    BY <2>1, TabsAre, LinesAre, EntriesAre
  <2>3. /\ tab.state \in ClientStates /\ tab.phase \in Phases
        /\ tab.view \in ViewType /\ tab.shown \in ViewType /\ tab.attempts \in 0..MaxRetries
        /\ tab.loads \subseteq Attempts /\ tab.signing \subseteq Attempts
        /\ tab.live \subseteq Attempts /\ tab.socket \in Attempts \cup {0}
        /\ tab.rows \in [read : SessionOrNone, for : SessionOrNone]
        /\ tab.items \in SessionOrNone
    BY <2>1 DEF Tabs
  <2> QED BY <2>1, <2>2, <2>3 DEF TypeOK
<1> QED BY <1>1, PagesCorrect, PTL

(* A page holds at most one connection, no reconnect is due while there is *)
(* one, and a page that was left holds none (client.ts open, dispose).     *)
THEOREM PagesOneConnection == Spec => []OneConnection
<1>1. ASSUME PageInvariant PROVE OneConnection
  <2>1. ConnectionOK(tab) /\ tab.live \subseteq Attempts
    BY <1>1 DEF PageInvariant, TabOK, Tabs
  <2> QED BY <2>1, NumbersAre DEF OneConnection, ConnectionOK
<1> QED BY <1>1, PagesCorrect, PTL

(* Nobody waits for an answer that cannot come (client.ts failed,          *)
(* IntelligencePanel.tsx sequence).                                        *)
THEOREM PagesBusyIsWaiting == Spec => []BusyIsWaiting
<1>1. ASSUME PageInvariant PROVE BusyIsWaiting
  <2>1. ConnectionOK(tab) /\ WaitingOK(tab, {})
    BY <1>1 DEF PageInvariant, TabOK
  <2> QED BY <2>1 DEF BusyIsWaiting, ConnectionOK, WaitingOK, Awaited
<1> QED BY <1>1, PagesCorrect, PTL

(* Nothing read for an earlier session is on show under a later one        *)
(* (IntelligencePage.tsx dataSession, IntelligencePanel.tsx key).          *)
THEOREM PagesShowTheirSession == Spec => []NothingOfEarlierSessions
<1>1. ASSUME PageInvariant PROVE NothingOfEarlierSessions
  <2>1. AnswersOK(tab, session) /\ PanelOK(tab)
    BY <1>1 DEF PageInvariant, TabOK
  <2> QED BY <2>1 DEF NothingOfEarlierSessions, Displayed, AnswersOK, PanelOK
<1> QED BY <1>1, PagesCorrect, PTL

-----------------------------------------------------------------------------
(* The rules about steps.                                                  *)

(* Nothing is handed over, and the hook has the session it had or none.    *)
Quiet(t, q) ==
  /\ DOMAIN q = DOMAIN t /\ q.file = t.file /\ q.kind = t.kind
  /\ q.view = t.view \/ q.view.session = 0

Fields == {"file", "view", "kind"}

(* One quiet step after another.                                           *)
LEMMA QuietTwice ==
  ASSUME NEW t, NEW u, NEW q, Quiet(t, u), Quiet(u, q)
  PROVE  Quiet(t, q)
BY DEF Quiet

(* What the client does by itself.                                         *)
LEMMA QuietClient ==
  ASSUME NEW t, Fields \subseteq DOMAIN t
  PROVE  /\ \A es : Quiet(t, Rejected(t, es))
         /\ \A use, n : Quiet(t, Request(t, use, n))
         /\ Quiet(t, Refresh(t))
         /\ \A state : Quiet(t, SetState(t, state))
         /\ Quiet(t, Open(t)) /\ Quiet(t, Connect(t)) /\ Quiet(t, Closing(t)) /\ Quiet(t, Failed(t))
<1>1. \A q, es : Fields \subseteq DOMAIN q => Quiet(q, Rejected(q, es))
  BY DEF Quiet, Rejected, View, Fields
<1>2. \A q, use, n : Fields \subseteq DOMAIN q => Quiet(q, Request(q, use, n))
  <2>1. SUFFICES ASSUME NEW q, NEW use, NEW n, Fields \subseteq DOMAIN q
                 PROVE  Quiet(q, Request(q, use, n))
    OBVIOUS
  <2>2. Quiet(q, [q EXCEPT !.line = Append(@, Entry(use, n))])
    BY <2>1 DEF Quiet, Fields
  <2> QED BY <1>1, <2>1, <2>2 DEF Request
<1>3. \A q : Fields \subseteq DOMAIN q => Quiet(q, Refresh(q))
  <2>1. SUFFICES ASSUME NEW q, Fields \subseteq DOMAIN q
                 PROVE  Quiet(q, Refresh(q))
    OBVIOUS
  <2> DEFINE u == [q EXCEPT !.refreshing = TRUE]
  <2>2. Quiet(q, u) /\ Quiet(q, q)
    BY <2>1 DEF Quiet, Fields
  <2>3. Refresh(q) = q \/ Refresh(q) = Request(u, "refresh", 0)
    BY DEF Refresh
  <2> HIDE DEF u
  <2>4. Quiet(u, Request(u, "refresh", 0))
    BY <1>2, <2>1, <2>2 DEF Quiet
  <2> QED BY <2>2, <2>3, <2>4, QuietTwice
<1>4. \A q, state : Fields \subseteq DOMAIN q => Quiet(q, SetState(q, state))
  <2>1. SUFFICES ASSUME NEW q, NEW state, Fields \subseteq DOMAIN q
                 PROVE  Quiet(q, SetState(q, state))
    OBVIOUS
  <2> DEFINE u == [q EXCEPT !.state = state, !.view = IF q.disposed THEN @ ELSE View(state, 0)]
  <2>2. Quiet(q, u)
    BY <2>1 DEF Quiet, Fields, View
  <2>3. SetState(q, state) = u \/ SetState(q, state) = Refresh(u)
    BY DEF SetState
  <2> HIDE DEF u
  <2>4. Quiet(u, Refresh(u))
    BY <1>3, <2>1, <2>2 DEF Quiet
  <2> QED BY <2>2, <2>3, <2>4, QuietTwice
<1>5. \A q : Fields \subseteq DOMAIN q => Quiet(q, Open(q))
  <2>1. SUFFICES ASSUME NEW q, Fields \subseteq DOMAIN q
                 PROVE  Quiet(q, Open(q))
    OBVIOUS
  <2> DEFINE u == [q EXCEPT !.generation = @ + 1, !.loads = @ \cup {q.generation + 1}]
  <2>2. Quiet(q, u)
    BY <2>1 DEF Quiet, Fields
  <2>3. Open(q) = SetState(u, "connecting")
    BY DEF Open
  <2> HIDE DEF u
  <2>4. Quiet(u, SetState(u, "connecting"))
    BY <1>4, <2>1, <2>2 DEF Quiet
  <2> QED BY <2>2, <2>3, <2>4, QuietTwice
<1>6. Quiet(t, Connect(t))
  <2> DEFINE u == [t EXCEPT !.retry = FALSE, !.attempts = 0]
  <2>1. Quiet(t, u) /\ Quiet(t, t)
    BY DEF Quiet, Fields
  <2>2. Connect(t) = t \/ Connect(t) = SetState(t, "ready") \/ Connect(t) = Open(u)
    BY DEF Connect
  <2> HIDE DEF u
  <2>3. Quiet(u, Open(u))
    BY <1>5, <2>1 DEF Quiet
  <2> QED BY <1>4, <2>1, <2>2, <2>3, QuietTwice
<1>7. Quiet(t, Closing(t))
  BY DEF Quiet, Closing, Fields
<1>8. Quiet(t, Failed(t))
  <2> DEFINE u == [t EXCEPT !.line = <<>>]
             rejected == Rejected(u, {t.line[i] : i \in Waiting(t)})
             told == SetState(rejected, "unavailable")
             q == [told EXCEPT !.attempts = @ + 1, !.retry = TRUE]
  <2>1. Quiet(t, u)
    BY DEF Quiet, Fields
  <2>2. Failed(t) = rejected \/ Failed(t) = told \/ Failed(t) = q
    BY DEF Failed
  <2> HIDE DEF u
  <2>3. Quiet(u, rejected)
    BY <1>1, <2>1 DEF Quiet
  <2> HIDE DEF rejected
  <2>4. Quiet(t, rejected)
    BY <2>1, <2>3, QuietTwice
  <2>5. Quiet(rejected, told)
    BY <1>4, <2>4 DEF Quiet
  <2> HIDE DEF told
  <2>6. Quiet(t, told)
    BY <2>4, <2>5, QuietTwice
  <2>7. Quiet(told, q)
    BY <2>6 DEF Quiet, Fields
  <2> HIDE DEF q
  <2> QED BY <2>2, <2>4, <2>6, <2>7, QuietTwice
<1> QED BY <1>1, <1>2, <1>3, <1>4, <1>5, <1>6, <1>7, <1>8

(* What the page does with the client.                                     *)
LEMMA QuietPage ==
  ASSUME NEW t, Fields \subseteq DOMAIN t
  PROVE  /\ Quiet(t, Ended(t)) /\ Quiet(t, Ready(t)) /\ Quiet(t, Dispose(t))
         /\ \A attempt : Quiet(t, SocketMade(t, attempt))
         /\ Quiet(t, Retrieve(t))
         /\ \A analytics : Quiet(t, TerminalEffect(t, analytics)) /\ Quiet(t, Rendered(t, analytics))
<1> DEFINE Told(q) == Fields \subseteq DOMAIN q
<1>1. Quiet(t, Ended(t))
  <2> DEFINE u == Closing(t)
             q == [u EXCEPT !.socket = 0]
  <2>1. Quiet(t, u)
    BY QuietClient
  <2>2. Ended(t) = Failed(q)
    BY DEF Ended
  <2> HIDE DEF u
  <2>3. Quiet(u, q)
    BY <2>1 DEF Quiet, Fields
  <2> HIDE DEF q
  <2>4. Quiet(t, q)
    BY <2>1, <2>3, QuietTwice
  <2>5. Quiet(q, Failed(q))
    BY <2>4, QuietClient DEF Quiet
  <2> QED BY <2>2, <2>4, <2>5, QuietTwice
<1>2. Quiet(t, Ready(t))
  <2> DEFINE u == [t EXCEPT !.phase = "active", !.attempts = 0]
  <2>1. Quiet(t, u)
    BY DEF Quiet, Fields
  <2>2. Ready(t) = SetState(u, "ready")
    BY DEF Ready
  <2> HIDE DEF u
  <2>3. Quiet(u, SetState(u, "ready"))
    <3>1. Fields \subseteq DOMAIN u
      BY <2>1 DEF Quiet
    <3> QED BY <3>1, QuietClient
  <2> QED BY <2>1, <2>2, <2>3, QuietTwice
<1>3. Quiet(t, Dispose(t))
  <2> DEFINE u == Closing(t)
             q == [u EXCEPT !.disposed = TRUE, !.generation = @ + 1, !.retry = FALSE, !.socket = 0]
  <2>1. Quiet(t, u)
    BY QuietClient
  <2>2. Dispose(t) = Failed(q)
    BY DEF Dispose
  <2> HIDE DEF u
  <2>3. Quiet(u, q)
    BY <2>1 DEF Quiet, Fields
  <2> HIDE DEF q
  <2>4. Quiet(t, q)
    BY <2>1, <2>3, QuietTwice
  <2>5. Quiet(q, Failed(q))
    BY <2>4, QuietClient DEF Quiet
  <2> QED BY <2>2, <2>4, <2>5, QuietTwice
<1>4. \A attempt : Quiet(t, SocketMade(t, attempt))
  BY DEF SocketMade, Quiet, Fields
<1>5. Quiet(t, Retrieve(t))
  <2> DEFINE u == [t EXCEPT !.line = Fenced(@, {"retrieve"}), !.busy = TRUE, !.items = 0]
  <2>1. Quiet(t, u)
    BY DEF Quiet, Fields
  <2>2. Retrieve(t) = Request(u, "retrieve", 0)
    BY DEF Retrieve
  <2> HIDE DEF u
  <2>3. Quiet(u, Request(u, "retrieve", 0))
    BY <2>1, QuietClient DEF Quiet
  <2> QED BY <2>1, <2>2, <2>3, QuietTwice
<1>6. ASSUME NEW q, Told(q), NEW analytics
      PROVE  Quiet(q, TerminalEffect(q, analytics))
  <2> DEFINE u == IF q.connected /\ q.shown.state = "pairing-required" THEN Connect(q) ELSE q
  <2>1. Quiet(q, q)
    BY DEF Quiet
  <2>2. Quiet(q, u)
    BY <1>6, <2>1, QuietClient
  <2>3. TerminalEffect(q, analytics) = u \/ TerminalEffect(q, analytics) = Request(u, "record", 0)
    BY DEF TerminalEffect
  <2> HIDE DEF u
  <2>4. Quiet(u, Request(u, "record", 0))
    <3>1. Fields \subseteq DOMAIN u
      BY <1>6, <2>2 DEF Quiet
    <3> QED BY <3>1, QuietClient
  <2> QED BY <2>2, <2>3, <2>4, QuietTwice
<1>7. ASSUME NEW analytics
      PROVE  Quiet(t, Rendered(t, analytics))
  <2> DEFINE shows == [t EXCEPT !.shown = t.view]
             left == [shows EXCEPT !.line = Fenced(@, {"load"})]
             made == Remounted(shows, t.shown)
             auto == AutoEffect(made)
  <2>1. Quiet(t, shows)
    BY DEF Quiet, Fields
  <2>2. \/ Rendered(t, analytics) = shows
        \/ Rendered(t, analytics) = left
        \/ Rendered(t, analytics) = Request(left, "load", left.shown.session)
        \/ Rendered(t, analytics) = TerminalEffect(auto, analytics)
    BY DEF Rendered, LoadEffect
  <2> HIDE DEF shows
  <2>3. Quiet(shows, left)
    BY <2>1 DEF Quiet, Fields
  <2>4. Quiet(shows, made)
    BY <2>1 DEF Quiet, Fields, Remounted
  <2> HIDE DEF left, made
  <2>5. Quiet(t, left) /\ Quiet(t, made)
    BY <2>1, <2>3, <2>4, QuietTwice
  <2>6. Quiet(left, Request(left, "load", left.shown.session))
    <3>1. Fields \subseteq DOMAIN left
      BY <2>5 DEF Quiet
    <3> QED BY <3>1, QuietClient
  <2>7. Quiet(made, auto)
    BY <2>5 DEF Quiet, Fields, AutoEffect
  <2> HIDE DEF auto
  <2>8. Quiet(t, auto)
    BY <2>5, <2>7, QuietTwice
  <2>9. Quiet(auto, TerminalEffect(auto, analytics))
    BY <1>6, <2>8 DEF Quiet
  <2> QED BY <2>1, <2>2, <2>5, <2>6, <2>8, <2>9, QuietTwice
<1> QED BY <1>1, <1>2, <1>3, <1>4, <1>5, <1>6, <1>7

(* The session a page has goes forward, and a file is of one session, the  *)
(* one on show.                                                            *)
Allowed(t, q) ==
  /\ t.view.session # 0 /\ q.view.session # 0 => q.view.session >= t.view.session
  /\ q.file # t.file => q.file.read = {q.file.owner} /\ q.file.owner = t.shown.session

(* Quiet steps are allowed.                                                *)
LEMMA QuietIsAllowed ==
  ASSUME NEW t, NEW q, Quiet(t, q), t.view.session \in Nat
  PROVE  Allowed(t, q)
BY DEF Quiet, Allowed

(* So is what the page makes of an answer.                                 *)
LEMMA ResolvedIsAllowed ==
  ASSUME NEW t, NEW s \in Nat, NEW e, Heard(t, e, s)
  PROVE  Allowed(t, Resolved(t, e))
<1> DEFINE over == [t EXCEPT !.busy = @ /\ ~EndsBusy(e)]
<1>0. /\ t \in Tabs /\ e \in EntryType /\ e.use \in Uses /\ t.view.session \in Nat
      /\ e.answer.session \in Nat /\ t.view.session <= e.answer.session /\ t.view \in ViewType
  BY TabsAre, EntriesAre DEF Heard, TabOK, InTime
<1>1. Fields \subseteq DOMAIN t
  BY <1>0 DEF Fields, Tabs
<1>2. Quiet(t, over) /\ Quiet(t, t) /\ over.view = t.view
  BY <1>1 DEF Quiet, Fields
<1>3. CASE e.use = "refresh"
  <2>1. Resolved(t, e) = [t EXCEPT !.refreshing = FALSE, !.view = View("ready", e.answer.session)]
    BY <1>3 DEF Resolved
  <2>2. Resolved(t, e).file = t.file /\ Resolved(t, e).view.session = e.answer.session
    BY <1>1, <2>1 DEF Fields, View
  <2> QED BY <1>0, <2>2 DEF Allowed
<1>4. CASE e.use = "account"
  <2> DEFINE view == [over.view EXCEPT !.session = e.answer.session]
  <2>1. Resolved(t, e) = [over EXCEPT !.view = view]
    BY <1>4 DEF Resolved
  <2>2. view.session = e.answer.session
    BY <1>0, <1>2 DEF ViewType
  <2> HIDE DEF over, view
  <2>3. Resolved(t, e).file = t.file /\ Resolved(t, e).view.session = e.answer.session
    BY <1>1, <1>2, <2>1, <2>2 DEF Fields, Quiet
  <2> QED BY <1>0, <2>3 DEF Allowed
<1>5. CASE e.use = "check"
  <2>1. Resolved(t, e) = ExportEnds(t, e)
    BY <1>5 DEF Resolved
  <2>2. /\ ExportEnds(t, e).view = t.view \/ ExportEnds(t, e).view.session = 0
        /\ ExportEnds(t, e).file # t.file =>
             /\ ExportEnds(t, e).file.read = {ExportEnds(t, e).file.owner}
             /\ ExportEnds(t, e).file.owner = t.shown.session
    BY <1>5, ExportEndsKeeps
  <2> QED BY <1>0, <2>1, <2>2 DEF Allowed
<1>6. CASE e.use = "export"
  <2> DEFINE kept == [t EXCEPT !.export.read = @ \cup {e.answer.session}, !.export.pages = @ + 1]
             use == IF e.answer.more THEN "export" ELSE "check"
  <2>1. Resolved(t, e) = Rejected(t, {e}) \/ Resolved(t, e) = Request(kept, use, 0)
    BY <1>6 DEF Resolved, ExportPage
  <2>2. Quiet(t, kept)
    BY <1>1 DEF Quiet, Fields
  <2> HIDE DEF kept, use
  <2>3. Quiet(kept, Request(kept, use, 0))
    <3>1. Fields \subseteq DOMAIN kept
      BY <1>1, <2>2 DEF Quiet
    <3> QED BY <3>1, QuietClient
  <2>4. Quiet(t, Resolved(t, e))
    BY <1>1, <2>1, <2>2, <2>3, QuietClient, QuietTwice
  <2> QED BY <1>0, <2>4, QuietIsAllowed
<1>7. CASE e.use \in {"load", "filter", "delete", "retrieve", "command", "record"}
  <2> DEFINE loaded == [t EXCEPT !.rows = [read |-> e.answer.session, for |-> e.for]]
             filtered == [over EXCEPT !.rows.read = e.answer.session]
             deleted == [over EXCEPT !.rows.read = 0]
             retrieved == [over EXCEPT !.items = e.answer.session]
  <2>1. Resolved(t, e) \in {t, loaded, filtered, deleted, retrieved, Retrieve(t)}
    BY <1>7 DEF Resolved
  <2> HIDE DEF over
  <2>2. /\ Quiet(t, loaded) /\ Quiet(over, filtered) /\ Quiet(over, deleted)
        /\ Quiet(over, retrieved)
    BY <1>1, <1>2 DEF Quiet, Fields
  <2>3. Quiet(t, Retrieve(t))
    BY <1>1, QuietPage
  <2> HIDE DEF loaded, filtered, deleted, retrieved
  <2>4. Quiet(t, Resolved(t, e))
    BY <1>2, <2>1, <2>2, <2>3, QuietTwice
  <2> QED BY <1>0, <2>4, QuietIsAllowed
<1> QED BY <1>0, <1>3, <1>4, <1>5, <1>6, <1>7 DEF Uses, Runs

(* Every step is allowed.                                                  *)
LEMMA StepIsAllowed ==
  ASSUME PageInvariant, [Next]_vars
  PROVE  Allowed(tab, tab')
<1>1. /\ TabOK(tab, {}, session) /\ session \in Nat /\ tab \in Tabs /\ tab.view.session \in Nat
      /\ tab.line \in Seq(EntryType) /\ DOMAIN tab.line = 1..Len(tab.line)
  BY NumbersAre, TabsAre, LinesAre DEF PageInvariant, TabOK
<1>2. Fields \subseteq DOMAIN tab
  BY <1>1 DEF Fields, Tabs
<1>3. SUFFICES ASSUME Next, ~Quiet(tab, tab') PROVE Allowed(tab, tab')
  <2>1. Quiet(tab, tab)
    BY DEF Quiet
  <2> QED BY <1>1, <2>1, QuietIsAllowed DEF vars
<1>4. CASE AnswerArrives
  <2> DEFINE e == Head(tab.line)
             t == [tab EXCEPT !.line = Tail(@)]
  <2>1. /\ tab.line # <<>>
        /\ tab' = IF ~e.waits THEN t
                  ELSE IF Answered(e) THEN Resolved(t, e) ELSE Rejected(t, {e})
    BY <1>4 DEF AnswerArrives, Answered
  <2>2. e.waits /\ Answered(e) => Heard(t, e, session)
    BY <1>1, <2>1, HeadLeaves
  <2>3. Quiet(tab, t) /\ t.shown = tab.shown /\ t.view = tab.view
    BY <1>1, <1>2 DEF Quiet, Fields, Tabs
  <2> HIDE DEF e, t
  <2>4. Fields \subseteq DOMAIN t
    BY <1>2, <2>3 DEF Quiet
  <2>5. Quiet(t, Rejected(t, {e}))
    BY <2>4, QuietClient
  <2>6. Quiet(tab, Rejected(t, {e}))
    BY <2>3, <2>5, QuietTwice
  <2>7. e.waits /\ Answered(e) /\ tab' = Resolved(t, e)
    BY <1>3, <2>1, <2>3, <2>6
  <2>8. Allowed(t, tab')
    BY <1>1, <2>2, <2>7, ResolvedIsAllowed
  <2> QED BY <2>3, <2>8 DEF Allowed, Quiet
<1>5. CASE Switches
  <2> DEFINE q == [Fresh("panel") EXCEPT
                     !.born = tab.generation, !.generation = tab.generation,
                     !.loads = Dispose(tab).loads, !.signing = Dispose(tab).signing,
                     !.live = Dispose(tab).live, !.connected = tab.connected]
  <2>1. tab' = Connect(q) /\ tab.kind = "panel"
    BY <1>5 DEF Switches
  <2>2. Fields \subseteq DOMAIN q /\ q.file = NoExport /\ q.view.session = 0
    BY DEF Fields, Fresh, View
  <2> HIDE DEF q
  <2>3. Quiet(q, tab')
    BY <2>1, <2>2, QuietClient
  <2>4. tab.file = NoExport
    BY <1>1, <2>1 DEF TabOK, WaitingOK
  <2> QED BY <2>2, <2>3, <2>4 DEF Allowed, Quiet
<1>6. CASE Renders
  BY <1>2, <1>3, <1>6, QuietPage DEF Renders
<1>7. CASE TerminalChanges
  <2> DEFINE q == [tab EXCEPT !.connected = ~@]
  <2>1. Quiet(tab, q) /\ Fields \subseteq DOMAIN q
    BY <1>2 DEF Quiet, Fields
  <2>2. PICK analytics \in BOOLEAN : tab' = TerminalEffect(q, analytics)
    BY <1>7 DEF TerminalChanges
  <2> HIDE DEF q
  <2>3. Quiet(q, tab')
    BY <2>1, <2>2, QuietPage
  <2> QED BY <1>3, <2>1, <2>3, QuietTwice
<1>8. CASE RetryClicked
  BY <1>2, <1>3, <1>8, QuietClient DEF RetryClicked
<1>9. CASE FilterClicked \/ DeleteClicked \/ AccountClicked \/ ExportClicked
  <2> DEFINE ran == [tab EXCEPT !.busy = TRUE]
             exported == [tab EXCEPT !.busy = TRUE, !.export.owner = tab.shown.session]
  <2>1. PICK q \in {ran, exported}, use \in Runs : tab' = Request(q, use, 0)
    BY <1>9 DEF FilterClicked, DeleteClicked, AccountClicked, ExportClicked, Run, Runs
  <2>2. Quiet(tab, ran) /\ Quiet(tab, exported)
    BY <1>2 DEF Quiet, Fields
  <2> HIDE DEF ran, exported
  <2>3. Quiet(tab, q)
    BY <2>1, <2>2
  <2>4. Fields \subseteq DOMAIN q
    BY <1>2, <2>3 DEF Quiet
  <2>5. Quiet(q, tab')
    BY <2>1, <2>4, QuietClient
  <2> QED BY <1>3, <2>3, <2>5, QuietTwice
<1>10. CASE SearchClicked
  BY <1>2, <1>3, <1>10, QuietPage DEF SearchClicked
<1>11. CASE SubmitClicked
  BY <1>2, <1>3, <1>11, QuietClient DEF SubmitClicked
<1>12. CASE AutoRetrieves
  <2> DEFINE q == [tab EXCEPT !.auto = FALSE]
  <2>1. Quiet(tab, q) /\ Fields \subseteq DOMAIN q
    BY <1>2 DEF Quiet, Fields
  <2>2. tab' = Retrieve(q)
    BY <1>12 DEF AutoRetrieves
  <2> HIDE DEF q
  <2>3. Quiet(q, tab')
    BY <2>1, <2>2, QuietPage
  <2> QED BY <1>3, <2>1, <2>3, QuietTwice
<1>13. CASE Leaves
  BY <1>2, <1>3, <1>13, QuietPage DEF Leaves
<1>14. CASE RefreshDue
  BY <1>2, <1>3, <1>14, QuietClient DEF RefreshDue
<1>15. CASE RetryFires
  <2> DEFINE q == [tab EXCEPT !.retry = FALSE]
  <2>1. Quiet(tab, q) /\ Fields \subseteq DOMAIN q
    BY <1>2 DEF Quiet, Fields
  <2>2. tab' = Open(q)
    BY <1>15 DEF RetryFires
  <2> HIDE DEF q
  <2>3. Quiet(q, tab')
    BY <2>1, <2>2, QuietClient
  <2> QED BY <1>3, <2>1, <2>3, QuietTwice
<1>16. ASSUME NEW attempt \in tab.loads, LoadEnds(attempt) \/ LoadFails(attempt)
       PROVE  FALSE
  <2> DEFINE q == [tab EXCEPT !.loads = @ \ {attempt}]
  <2>1. Quiet(tab, q) /\ Fields \subseteq DOMAIN q
    BY <1>2 DEF Quiet, Fields
  <2>2. tab' \in {SocketMade(q, attempt), SetState(q, "pairing-required"), Failed(q), q,
                  SetState(q, "unavailable")}
    BY <1>16 DEF LoadEnds, LoadFails
  <2> HIDE DEF q
  <2>3. /\ Quiet(q, SocketMade(q, attempt)) /\ Quiet(q, SetState(q, "pairing-required"))
        /\ Quiet(q, Failed(q)) /\ Quiet(q, SetState(q, "unavailable"))
    BY <2>1, QuietClient, QuietPage
  <2>4. tab' = q \/ Quiet(q, tab')
    BY <2>2, <2>3
  <2> QED BY <1>3, <2>1, <2>4, QuietTwice
<1>17. CASE ChallengeArrives \/ HandshakeTimesOut
  <2> DEFINE q == [tab EXCEPT !.phase = "signing", !.signing = @ \cup {tab.socket}]
  <2>1. Quiet(tab, q)
    BY <1>2 DEF Quiet, Fields
  <2>2. tab' \in {q, Closing(tab)}
    BY <1>17 DEF ChallengeArrives, HandshakeTimesOut
  <2> HIDE DEF q
  <2> QED BY <1>2, <1>3, <2>1, <2>2, QuietClient
<1>18. ASSUME NEW socket \in tab.signing, ProofEnds(socket)
       PROVE  FALSE
  <2> DEFINE t == [tab EXCEPT !.signing = @ \ {socket}]
             q == [t EXCEPT !.phase = "ready"]
  <2>1. Quiet(tab, t) /\ Fields \subseteq DOMAIN t
    BY <1>2 DEF Quiet, Fields
  <2>2. tab' \in {t, q, Closing(t)}
    BY <1>18 DEF ProofEnds
  <2> HIDE DEF t
  <2>3. Quiet(t, q)
    BY <2>1 DEF Quiet, Fields
  <2> HIDE DEF q
  <2>4. Quiet(t, Closing(t))
    BY <2>1, QuietClient
  <2> QED BY <1>3, <2>1, <2>2, <2>3, <2>4, QuietTwice
<1>19. CASE ReadyArrives
  BY <1>2, <1>3, <1>19, QuietPage DEF ReadyArrives
<1>20. CASE SocketEnds
  BY <1>2, <1>3, <1>20, QuietPage DEF SocketEnds
<1>21. ASSUME NEW i \in DOMAIN tab.line, RequestTimesOut(i)
       PROVE  FALSE
  <2> DEFINE q == [tab EXCEPT !.line[i].waits = FALSE]
  <2>1. Quiet(tab, q) /\ Fields \subseteq DOMAIN q
    BY <1>2 DEF Quiet, Fields
  <2>2. tab' = Rejected(q, {tab.line[i]})
    BY <1>21 DEF RequestTimesOut
  <2> HIDE DEF q
  <2>3. Quiet(q, tab')
    BY <2>1, <2>2, QuietClient
  <2> QED BY <1>3, <2>1, <2>3, QuietTwice
<1>22. CASE HostAnswers
  <2>1. PICK i, a : tab' = [tab EXCEPT !.line[i].answer = a]
    BY <1>22 DEF HostAnswers
  <2>2. Quiet(tab, tab')
    BY <1>2, <2>1 DEF Quiet, Fields
  <2> QED BY <1>3, <2>2
<1>23. CASE SessionReplaced
  BY <1>3, <1>23 DEF SessionReplaced, Quiet
<1> QED BY <1>3, <1>4, <1>5, <1>6, <1>7, <1>8, <1>9, <1>10, <1>11, <1>12, <1>13, <1>14, <1>15,
           <1>16, <1>17, <1>18, <1>19, <1>20, <1>21, <1>22, <1>23 DEF Next

(* The session a page has is never replaced by an earlier one              *)
(* (useIntelligence.ts refresh, setSession).                               *)
THEOREM PagesSessionGoesForward == Spec => SessionGoesForward
<1>1. ASSUME PageInvariant, [Next]_vars
      PROVE  [tab.view.session # 0 /\ tab'.view.session # 0
                => tab'.view.session >= tab.view.session]_vars
  BY <1>1, StepIsAllowed DEF Allowed
<1> QED BY <1>1, PagesCorrect, PTL DEF Spec, SessionGoesForward

(* A file of private data is of one session, the one on show as it is      *)
(* handed over (export.ts collectPrivateExport).                           *)
THEOREM PagesExportIsOwn == Spec => ExportIsOwn
<1>1. ASSUME PageInvariant, [Next]_vars
      PROVE  [tab'.file # tab.file => /\ tab'.file.read = {tab'.file.owner}
                                      /\ tab'.file.owner = tab.shown.session]_vars
  BY <1>1, StepIsAllowed DEF Allowed
<1> QED BY <1>1, PagesCorrect, PTL DEF Spec, ExportIsOwn
=============================================================================
