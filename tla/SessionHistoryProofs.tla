------------------------ MODULE SessionHistoryProofs ------------------------
(***************************************************************************)
(* What is kept of a session's output, and the frames that carry it, for   *)
(* any number of sessions, connections and bytes.                          *)
(***************************************************************************)
EXTENDS SessionHistory, FiniteSetTheorems, SequenceTheorems, WellFoundedInduction, TLAPS

Entries == [session : Sessions, from : 0..MaxSequence, to : 0..MaxSequence, age : Nat \ {0}]

(* The entries of a list: one for each age, none empty.                    *)
Listed(entries) ==
  /\ entries \subseteq Entries
  /\ IsFiniteSet(entries)
  /\ \A e \in entries : e.from < e.to
  /\ \A e, f \in entries : e.age = f.age => e = f

(* The entries of one session: in the order of their offsets, and from the *)
(* first one to the session's end every offset is in one.                  *)
InOrder(entries) == \A e, f \in entries : e.age < f.age => e.to <= f.from

Covered(entries, end) ==
  \A e \in entries :
    /\ e.to <= end
    /\ \A o \in e.from .. end - 1 : \E f \in entries : o \in f.from .. f.to - 1

HistoryOK ==
  /\ Listed(history)
  /\ \A e \in history : Running(e.session)
  /\ \A s \in Sessions : InOrder(Of(history, s)) /\ Covered(Of(history, s), nextOffset[s])
  /\ AccountsBalance

(* The copier of a session has output of it in hand for this connection.   *)
Carries(c, s) == copier[s] \in {"sending", "detaching"} /\ sendTo[s] = c

Watches(c, s) == owner[s] = c /\ ~replaying[s]

(* Whoever watches a session, or is about to be sent a chunk, has opened or*)
(* reopened it; a read loop that ended before has lost its transport.      *)
Serves(c, s) ==
  /\ target[c] = s
  /\ reader[c] \in {"opening", "serving"} \/ (reader[c] = "ended" /\ ~up[c])

SessionOK(s) ==
  /\ life[s] = "none" => nextOffset[s] = 0 /\ copier[s] = "none" /\ ~replaying[s]
  /\ owner[s] # NoConnection =>
       /\ Running(s)
       /\ ~replaying[s] => Serves(owner[s], s)
       /\ replaying[s] => /\ target[owner[s]] = s
                          /\ reader[owner[s]] \in {"replaying", "sending", "releasing"}
  /\ copier[s] \in {"sending", "detaching"} =>
       sendTo[s] \in Connections /\ Serves(sendTo[s], s)
  /\ copier[s] = "sending" => chunk[s].from < chunk[s].to /\ chunk[s].to = nextOffset[s]

(* The session the two machines of a connection are about.                 *)
MachineOK(c) ==
  LET m == machine[c]
      b == browser[c]
  IN  /\ reader[c] = "idle" =>
           target[c] = NoSession /\ m = NewMachine /\ b = NewBrowser /\ received[c] = {}
      /\ reader[c] # "idle" =>
           target[c] \in Sessions /\ life[target[c]] # "none" /\ m.Session # "NONE"
      /\ m.sessionID \in {NoSession, target[c]}
      /\ m.Session \notin {"NONE", "OPENING"} => m.sessionID = target[c]
      /\ reader[c] = "opening" => m.Session = "OPENING"
      /\ m.Session = "OPENING" =>
           b.offsets = Browser!NewOffsets /\ reader[c] \in {"opening", "ended"}
      /\ reader[c] = "serving" => m.Session \in {"OPEN", "DETACHING"}
      /\ m.historyBegun => /\ m.Session = "REPLAYING"
                           /\ m.historyCursor <= m.historyEnd
                           /\ m.historyEnd = m.nextOutput
                           /\ reader[c] \notin {"opening", "serving"}
      /\ \A o \in received[c] : target[c] # NoSession /\ o < nextOffset[target[c]]

(* The browser's machine goes with the agent's as long as frames arrive.   *)
InStep(c) ==
  LET m == machine[c]
      b == browser[c]
  IN  /\ ~b.refused
      /\ b.states.connectionState = "READY"
      /\ b.states.sessionId \in {NoSession, target[c]}
      /\ up[c] => /\ b.states.sessionState = m.Session
                  /\ b.offsets.begun = m.historyBegun
                  /\ m.historyBegun => /\ b.offsets.cursor = m.historyCursor
                                       /\ b.offsets.endOffset = m.historyEnd

(* What a connection still is sent begins where the last frame ended, at   *)
(* `at`, and it has been given everything before that is kept.             *)
UpTo(c, at) ==
  /\ \A o \in received[c] : o < at
  /\ received[c] # {} => at - 1 \in received[c]
  /\ Start(history, target[c]) .. at - 1 \subseteq received[c]
  /\ up[c] /\ ~machine[c].historyBegun => browser[c].offsets.nextOutputOffset = at

(* A connection that is sent live output.                                  *)
Feeds(c, s) == 
  \/ copier[s] = "sending" /\ sendTo[s] = c
  \/ Watches(c, s) /\ ~Carries(c, s)

FeedOK(c, s) ==
  Feeds(c, s) =>
    /\ ~machine[c].historyBegun
    /\ machine[c].nextOutput = IF Carries(c, s) THEN chunk[s].from ELSE nextOffset[s]
    /\ UpTo(c, machine[c].nextOutput)

(* The frames of a replay.  Each is of its kind, and follows the one before*)
ReplayFrame(f, s, end) ==
  /\ f.session = s
  /\ f.from \in 0..MaxSequence /\ f.to \in 0..nextOffset[s] /\ f.from <= f.to
  /\ f.type \in {"session_reopened", "history_begin", "history_chunk", "history_end",
                 "terminal_output"}
  /\ f.type = "history_begin" => /\ f.from <= Start(history, s)
                                 /\ f.to = end /\ end - f.from <= MaxSessionHistory
  /\ f.type = "history_chunk" => f.from < f.to /\ f.to <= end
  /\ f.type = "history_end" => f.from = end /\ f.to = end
  /\ f.type = "terminal_output" => f.from < f.to

Follows(f, g) ==
  \/ f.type = "session_reopened" /\ g.type = "history_begin"
  \/ f.type = "history_begin" /\ g.type \in {"history_chunk", "history_end"} /\ g.from = f.from
  \/ f.type = "history_chunk" /\ g.type \in {"history_chunk", "history_end"} /\ g.from = f.to
  \/ f.type = "terminal_output" /\ g.type = "terminal_output" /\ g.from = f.to

Script(frames, s, end) ==
  /\ \A i \in 1..Len(frames) : ReplayFrame(frames[i], s, end)
  /\ \A i \in 1..Len(frames) - 1 : Follows(frames[i], frames[i + 1])
  /\ frames # <<>> => frames[Len(frames)].type \in {"history_end", "terminal_output"}

(* A replay: the machine accepts the next frame, and when the snapshot is  *)
(* out, the machine is open.                                               *)
ReplayOK(c) ==
  LET m == machine[c]
  IN  /\ Script(queue[c], target[c], cursor[c])
      /\ m.nextOutput = cursor[c] /\ cursor[c] <= nextOffset[target[c]]
      /\ m.Session \in {"REOPENING", "REPLAYING", "OPEN"}
      /\ queue[c] = <<>> => m.Session = "OPEN"
      /\ queue[c] # <<>> => Accepted(m, Head(queue[c]))
      /\ m.Session = "OPEN" =>
           /\ UpTo(c, cursor[c])
           /\ \A i \in 1..Len(queue[c]) : queue[c][i].type = "terminal_output"
      /\ m.historyBegun => UpTo(c, m.historyCursor)
      /\ m.Session # "OPEN" /\ ~m.historyBegun =>
           received[c] = {} /\ ~browser[c].offsets.nextOutputOffsetKnown
      /\ up[c] /\ m.historyBegun => browser[c].offsets.nextOutputOffset = cursor[c]

(* The frames of the agent, and what is known of a browser's machine.      *)
Frames == [type : Messages, session : Sessions, from : 0..MaxSequence, to : 0..MaxSequence]

Offsets == 0..MaxSequence

Browsers ==
  [states : [connectionState : ConnectionStates, sessionState : SessionStates,
             sessionId : Sessions \cup {NoSession}],
   offsets : [nextOutputOffset : Offsets, nextOutputOffsetKnown : BOOLEAN,
              begun : BOOLEAN, cursor : Offsets, endOffset : Offsets],
   refused : BOOLEAN]

IInv ==
  /\ TypeOK
  /\ browser \in [Connections -> Browsers]
  /\ queue \in [Connections -> Seq(Frames)]
  /\ HistoryOK
  /\ \A s \in Sessions : SessionOK(s)
  /\ \A c \in Connections : /\ MachineOK(c)
                            /\ InStep(c)
                            /\ reader[c] = "sending" => queue[c] # <<>>
                            /\ reader[c] \in {"replaying", "sending"} => ReplayOK(c)
  /\ \A c \in Connections, s \in Sessions : FeedOK(c, s)

-----------------------------------------------------------------------------
(* Numbers and sets.                                                       *)

(* The limits are positive numbers.                                        *)
LEMMA LimitsAre ==
  /\ MaxTerminalOutput \in Nat \ {0} /\ MaxSessionHistory \in Nat \ {0}
  /\ MaxAgentHistory \in Nat \ {0} /\ MaxSequence \in Nat \ {0}
BY HistoryAssumption

(* A set of natural numbers has a least one.                               *)
LEMMA LeastOne ==
  ASSUME NEW S, S \subseteq Nat, S # {}
  PROVE  \E m \in S : \A i \in S : m <= i
<1>1. PICK m \in S : \A i \in S : ~(<<i, m>> \in OpToRel(<, Nat))
  BY NatLessThanWellFounded, WFMin
<1>2. ASSUME NEW i \in S PROVE m <= i
  <2>1. i \in Nat /\ m \in Nat
    OBVIOUS
  <2>2. ~(i < m)
    BY <1>1, <2>1 DEF OpToRel
  <2> QED BY <2>1, <2>2
<1> QED BY <1>2

LEMMA MinIs ==
  ASSUME NEW S, S \subseteq Nat, S # {}
  PROVE  Min(S) \in S /\ \A i \in S : Min(S) <= i
BY LeastOne DEF Min

(* A finite set of natural numbers has a greatest one: the smallest set    *)
(* without one would have one without any of its elements.                 *)
LEMMA GreatestOne ==
  ASSUME NEW S, S \subseteq Nat, S # {}, IsFiniteSet(S)
  PROVE  \E m \in S : \A i \in S : i <= m
<1> DEFINE Has(T) == \E m \in T : \A i \in T : i <= m
           Bad == {T \in SUBSET S : T # {} /\ ~Has(T)}
           sizes == {n \in Nat : \E T \in Bad : n = Cardinality(T)}
<1>1. SUFFICES ASSUME ~Has(S) PROVE FALSE
  OBVIOUS
<1>2. \A T \in SUBSET S : IsFiniteSet(T) /\ Cardinality(T) \in Nat
  BY FS_Subset, FS_CardinalityType
<1>3. S \in Bad
  BY <1>1
<1>4. Cardinality(S) \in sizes
  BY <1>2, <1>3
<1>5. PICK n \in sizes : \A i \in sizes : n <= i
  <2>1. sizes \subseteq Nat /\ sizes # {}
    BY <1>4
  <2> HIDE DEF sizes
  <2> QED BY <2>1, LeastOne
<1>6. PICK T \in Bad : n = Cardinality(T)
  BY <1>5
<1>7. PICK x \in T : TRUE
  BY <1>6
<1> DEFINE U == T \ {x}
<1>8. U \in SUBSET S /\ IsFiniteSet(U) /\ Cardinality(U) = n - 1 /\ n \in Nat
  BY <1>2, <1>6, <1>7, FS_RemoveElement
<1>9. U \notin Bad
  <2>1. SUFFICES ASSUME U \in Bad PROVE FALSE
    OBVIOUS
  <2>2. n - 1 \in Nat
    BY <1>2, <1>8
  <2>3. n - 1 \in sizes
    BY <1>8, <2>1, <2>2
  <2> QED BY <1>5, <1>8, <2>3
<1>10. CASE U = {}
  <2>1. T = {x} /\ x \in Nat
    BY <1>7, <1>10, <1>6
  <2> QED BY <2>1, <1>6
<1>11. CASE U # {}
  <2>1. PICK m \in U : \A i \in U : i <= m
    BY <1>8, <1>9, <1>11
  <2>2. m \in Nat /\ x \in Nat /\ m \in T /\ \A i \in T : i \in Nat /\ (i = x \/ i \in U)
    BY <1>6, <1>7, <2>1
  <2>3. CASE x <= m
    BY <2>1, <2>2, <2>3, <1>6
  <2>4. CASE ~(x <= m)
    <3>1. \A i \in T : i <= x
      BY <2>1, <2>2, <2>4
    <3> QED BY <3>1, <1>6, <1>7
  <2> QED BY <2>3, <2>4
<1> QED BY <1>10, <1>11

LEMMA MaxIs ==
  ASSUME NEW S, S \subseteq Nat, S # {}, IsFiniteSet(S)
  PROVE  Max(S) \in S /\ \A i \in S : i <= Max(S)
<1>1. PICK m \in S : \A i \in S : i <= m
  BY GreatestOne
<1>2. \A i \in S : m >= i
  BY <1>1
<1>3. Max(S) \in S /\ \A i \in S : Max(S) >= i
  BY <1>2 DEF Max
<1> QED BY <1>3

(* The greater of two.                                                     *)
LEMMA MaxOfTwo ==
  ASSUME NEW a \in Int, NEW b \in Int
  PROVE  Max({a, b}) = IF a >= b THEN a ELSE b
<1>1. CASE a >= b
  <2>1. \A y \in {a, b} : a >= y
    BY <1>1
  <2>2. Max({a, b}) \in {a, b} /\ \A y \in {a, b} : Max({a, b}) >= y
    BY <2>1 DEF Max
  <2>3. Max({a, b}) >= a
    BY <2>2
  <2> QED BY <2>2, <2>3, <1>1
<1>2. CASE ~(a >= b)
  <2>1. \A y \in {a, b} : b >= y
    BY <1>2
  <2>2. Max({a, b}) \in {a, b} /\ \A y \in {a, b} : Max({a, b}) >= y
    BY <2>1 DEF Max
  <2>3. Max({a, b}) >= b
    BY <2>2
  <2> QED BY <2>2, <2>3, <1>2
<1> QED BY <1>1, <1>2

-----------------------------------------------------------------------------
(* The bytes of entries.                                                   *)

(* Entries are numbers, and never as many as their bytes can be none.      *)
LEMMA EntriesAre ==
  ASSUME NEW E, Listed(E), NEW e \in E
  PROVE  /\ e \in Entries /\ e.session \in Sessions
         /\ e.from \in Nat /\ e.to \in Nat /\ e.to \in 0..MaxSequence
         /\ e.from < e.to /\ e.age \in Nat \ {0}
         /\ Length(e) \in Nat \ {0} /\ Length(e) = e.to - e.from
BY LimitsAre DEF Listed, Entries, Length

(* A part of a list is a list.                                             *)
LEMMA PartIsListed ==
  ASSUME NEW E, Listed(E), NEW F \in SUBSET E
  PROVE  Listed(F)
BY FS_Subset DEF Listed

(* The ages of a list are a finite set.                                    *)
LEMMA AgesAre ==
  ASSUME NEW E, Listed(E)
  PROVE  LET ages == {e.age : e \in E} IN IsFiniteSet(ages) /\ ages \subseteq Nat
<1> DEFINE ages == {e.age : e \in E}
           f == [e \in E |-> e.age]
<1>1. f \in Surjection(E, ages)
  BY DEF Surjection
<1>2. IsFiniteSet(ages)
  BY <1>1, FS_Surjection DEF Listed
<1>3. ages \subseteq Nat
  BY EntriesAre
<1> QED BY <1>2, <1>3

LEMMA ContentsAre ==
  ASSUME NEW E, Listed(E)
  PROVE  IsFiniteSet(Contents(E)) /\ Bytes(E) \in Nat
<1> DEFINE ages == {e.age : e \in E}
<1>1. IsFiniteSet(ages \X (0..MaxSequence))
  <2>1. 0 \in Int /\ MaxSequence \in Int
    BY LimitsAre
  <2>2. IsFiniteSet(0..MaxSequence) /\ IsFiniteSet(ages)
    BY <2>1, AgesAre, FS_Interval
  <2> QED BY <2>2, FS_Product
<1>2. Contents(E) \subseteq ages \X (0..MaxSequence)
  <2>1. ASSUME NEW e \in E PROVE {e.age} \X (e.from .. e.to - 1) \subseteq ages \X (0..MaxSequence)
    <3>1. e.from .. e.to - 1 \subseteq 0..MaxSequence
      BY EntriesAre, LimitsAre
    <3> QED BY <3>1
  <2> QED BY <2>1 DEF Contents
<1>3. IsFiniteSet(Contents(E))
  BY <1>1, <1>2, FS_Subset
<1> QED BY <1>3, FS_CardinalityType DEF Bytes

LEMMA NoBytes == Bytes({}) = 0
BY FS_EmptySet DEF Bytes, Contents

LEMMA FewerBytes ==
  ASSUME NEW E, Listed(E), NEW F, Listed(F), Contents(F) \subseteq Contents(E)
  PROVE  Bytes(F) <= Bytes(E)
BY ContentsAre, FS_Subset DEF Bytes

(* Entries of different ages share no byte.                                *)
LEMMA BytesOfBoth ==
  ASSUME NEW E, NEW F, Listed(E \cup F), E \cap F = {}
  PROVE  Bytes(E \cup F) = Bytes(E) + Bytes(F)
<1>1. Listed(E) /\ Listed(F)
  BY PartIsListed
<1>2. Contents(E \cup F) = Contents(E) \cup Contents(F)
  BY DEF Contents
<1>3. Contents(E) \cap Contents(F) = {}
  <2>1. SUFFICES ASSUME NEW p \in Contents(E), p \in Contents(F) PROVE FALSE
    OBVIOUS
  <2>2. PICK e \in E : p \in {e.age} \X (e.from .. e.to - 1)
    BY <2>1 DEF Contents
  <2>3. PICK f \in F : p \in {f.age} \X (f.from .. f.to - 1)
    BY <2>1 DEF Contents
  <2>4. e.age = f.age
    BY <2>2, <2>3
  <2> QED BY <2>4 DEF Listed
<1>4. IsFiniteSet(Contents(E)) /\ IsFiniteSet(Contents(F))
  BY <1>1, ContentsAre
<1>5. Cardinality(Contents(E) \cup Contents(F)) =
        Cardinality(Contents(E)) + Cardinality(Contents(F)) - Cardinality({})
  BY <1>3, <1>4, FS_Union
<1>6. Bytes(E) \in Nat /\ Bytes(F) \in Nat /\ Cardinality({}) = 0
  BY <1>1, ContentsAre, FS_EmptySet
<1>7. Bytes(E \cup F) = Bytes(E) + Bytes(F) - Cardinality({})
  BY <1>2, <1>5 DEF Bytes
<1> QED BY <1>6, <1>7

LEMMA BytesOfOne ==
  ASSUME NEW e, Listed({e})
  PROVE  Bytes({e}) = Length(e)
<1>1. Contents({e}) = {e.age} \X (e.from .. e.to - 1)
  BY DEF Contents
<1>2. e.from \in Nat /\ e.to \in Nat /\ e.from < e.to /\ Length(e) = e.to - e.from
  BY EntriesAre
<1> DEFINE offsets == e.from .. e.to - 1
<1>3. e.from \in Int /\ e.to - 1 \in Int /\ ~(e.from > e.to - 1)
  BY <1>2
<1>4. IsFiniteSet(offsets) /\ Cardinality(offsets) = (e.to - 1) - e.from + 1
  BY <1>3, FS_Interval
<1>5. IsFiniteSet({e.age}) /\ Cardinality({e.age}) = 1
  BY FS_Singleton
<1>6. Cardinality({e.age} \X offsets) = 1 * Cardinality(offsets)
  BY <1>4, <1>5, FS_Product
<1>7. Bytes({e}) = Cardinality({e.age} \X offsets)
  BY <1>1 DEF Bytes
<1> HIDE DEF offsets
<1> QED BY <1>2, <1>4, <1>6, <1>7

(* The entries before one, and the youngest entry.                         *)
Before(E, e) == {x \in E : x.age < e.age}

LEMMA BytesBefore ==
  ASSUME NEW E, Listed(E), NEW e \in E, NEW F \in SUBSET E, Before(E, e) \cup {e} \subseteq F
  PROVE  /\ Bytes(Before(E, e)) \in Nat /\ Bytes(F) \in Nat
         /\ Bytes(Before(E, e)) + Length(e) <= Bytes(F)
<1> DEFINE B == Before(E, e)
<1>1. B \subseteq E /\ e \notin B
  BY EntriesAre DEF Before
<1>2. Listed(B) /\ Listed(B \cup {e}) /\ Listed({e}) /\ Listed(F)
  BY <1>1, PartIsListed
<1>3. Bytes(B \cup {e}) = Bytes(B) + Length(e)
  BY <1>1, <1>2, BytesOfBoth, BytesOfOne
<1>4. Contents(B \cup {e}) \subseteq Contents(F)
  BY DEF Contents
<1>5. Bytes(B \cup {e}) <= Bytes(F)
  BY <1>2, <1>4, FewerBytes
<1> QED BY <1>2, <1>3, <1>5, ContentsAre

LEMMA YoungestIs ==
  ASSUME NEW E, Listed(E), E # {}
  PROVE  \E e \in E : /\ \A x \in E : x.age <= e.age
                      /\ Bytes(E) = Bytes(Before(E, e)) + Length(e)
<1> DEFINE ages == {e.age : e \in E}
<1>1. PICK m \in ages : \A i \in ages : i <= m
  <2>1. ages # {} /\ ages \subseteq Nat /\ IsFiniteSet(ages)
    BY AgesAre
  <2> HIDE DEF ages
  <2> QED BY <2>1, GreatestOne
<1>2. PICK e \in E : e.age = m
  BY <1>1
<1>3. \A x \in E : x.age <= e.age
  BY <1>1, <1>2
<1>4. E = Before(E, e) \cup {e}
  <2>1. ASSUME NEW x \in E, x # e PROVE x.age < e.age
    <3>1. x.age # e.age
      BY <2>1 DEF Listed
    <3> QED BY <3>1, <1>3, EntriesAre
  <2> QED BY <2>1 DEF Before
<1>5. e \notin Before(E, e) /\ Listed({e})
  BY EntriesAre, PartIsListed DEF Before
<1>6. Bytes(E) = Bytes(Before(E, e)) + Length(e)
  BY <1>4, <1>5, BytesOfBoth, BytesOfOne
<1> QED BY <1>3, <1>6

-----------------------------------------------------------------------------
(* Eviction.                                                               *)

(* What is left of an entry that is cut.                                   *)
Rest(E, count, e) == [e EXCEPT !.from = Max({@, @ + count - Bytes(Before(E, e))})]

Stays(E, count, e) == Bytes(Before(E, e)) + Length(e) > count

CutOf(k, e) == /\ k.session = e.session /\ k.age = e.age /\ k.to = e.to
               /\ e.from <= k.from /\ k.from < k.to

LEMMA EvictedAre ==
  ASSUME NEW E, NEW count
  PROVE  Evicted(E, count) = {Rest(E, count, e) : e \in {x \in E : Stays(E, count, x)}}
BY DEF Evicted, Rest, Stays, Before

LEMMA RestIs ==
  ASSUME NEW E, Listed(E), NEW count \in Nat, NEW e \in E, Stays(E, count, e), NEW k,
         k = Rest(E, count, e)
  PROVE  /\ k \in Entries /\ CutOf(k, e)
         /\ k.from = IF count <= Bytes(Before(E, e)) THEN e.from
                     ELSE e.from + count - Bytes(Before(E, e))
         /\ count <= Bytes(Before(E, e)) => k = e
<1> DEFINE b == Bytes(Before(E, e))
           from == Max({e.from, e.from + count - b})
<1>1. /\ e \in Entries /\ e.from \in Nat /\ e.to \in 0..MaxSequence /\ e.to \in Nat
      /\ Length(e) = e.to - e.from /\ e.from < e.to
  BY EntriesAre
<1>2. b \in Nat
  BY ContentsAre, PartIsListed DEF Before
<1>3. k = [e EXCEPT !.from = from]
  BY DEF Rest
<1> HIDE DEF b
<1>4. from = IF e.from >= e.from + count - b THEN e.from ELSE e.from + count - b
  BY <1>1, <1>2, MaxOfTwo
<1>5. e.from >= e.from + count - b <=> count <= b
  BY <1>1, <1>2
<1>6. b + (e.to - e.from) > count
  BY <1>1 DEF Stays, b
<1>7. from = IF count <= b THEN e.from ELSE e.from + count - b
  BY <1>4, <1>5
<1> HIDE DEF from
<1>8. from \in Nat /\ e.from <= from /\ from < e.to
  BY <1>1, <1>2, <1>6, <1>7
<1>9. from \in 0..MaxSequence
  BY <1>1, <1>8, LimitsAre
<1>10. k \in Entries
  BY <1>1, <1>3, <1>9 DEF Entries
<1>11. k.from = from /\ k.to = e.to /\ k.age = e.age /\ k.session = e.session
  BY <1>1, <1>3 DEF Entries
<1>12. CutOf(k, e)
  BY <1>8, <1>11 DEF CutOf
<1>13. ASSUME count <= b PROVE k = e
  <2>1. from = e.from
    BY <1>7, <1>13
  <2> QED BY <1>1, <1>3, <2>1 DEF Entries
<1> QED BY <1>7, <1>10, <1>11, <1>12, <1>13 DEF b

(* When an entry stays, the younger ones stay whole.                       *)
LEMMA YoungerStay ==
  ASSUME NEW E, Listed(E), NEW count \in Nat, NEW e \in E, Stays(E, count, e),
         NEW f \in E, e.age < f.age
  PROVE  Stays(E, count, f) /\ f = Rest(E, count, f)
<1>1. Before(E, f) \in SUBSET E /\ Before(E, e) \cup {e} \subseteq Before(E, f)
  <2>1. ASSUME NEW x \in E, x.age < e.age PROVE x.age < f.age
    BY <2>1, EntriesAre
  <2> QED BY <2>1 DEF Before
<1>2. /\ Bytes(Before(E, e)) \in Nat /\ Bytes(Before(E, f)) \in Nat
      /\ Bytes(Before(E, e)) + Length(e) <= Bytes(Before(E, f))
  BY <1>1, BytesBefore
<1>3. Length(e) \in Nat /\ Length(f) \in Nat
  BY EntriesAre
<1>4. count <= Bytes(Before(E, f)) /\ Stays(E, count, f)
  BY <1>2, <1>3 DEF Stays
<1> QED BY <1>4, RestIs

(* The entries that are left are a list of the youngest, whole but for the *)
(* oldest of them.                                                         *)
LEMMA EvictedIs ==
  ASSUME NEW E, Listed(E), NEW count \in Nat, NEW K, K = Evicted(E, count)
  PROVE  /\ Listed(K)
         /\ \A k \in K : \E e \in E : CutOf(k, e)
         /\ \A k \in K, f \in E : k.age < f.age => f \in K
         /\ \A e \in E : e \in K \/ (count > 0 /\ \A k \in K : e.age <= k.age)
<1> DEFINE left == {x \in E : Stays(E, count, x)}
<1>1. K = {Rest(E, count, e) : e \in left}
  BY EvictedAre
<1>2. \A k \in K : \E e \in left : k = Rest(E, count, e) /\ k \in Entries /\ CutOf(k, e)
  BY <1>1, RestIs
<1>3. \A k \in K : \E e \in E : CutOf(k, e)
  BY <1>2
<1>4. \A k \in K : k \in Entries /\ k.from < k.to
  BY <1>2 DEF CutOf
<1>5. \A j, k \in K : j.age = k.age => j = k
  <2>1. SUFFICES ASSUME NEW j \in K, NEW k \in K, j.age = k.age PROVE j = k
    OBVIOUS
  <2>2. PICK e \in left : j = Rest(E, count, e) /\ CutOf(j, e)
    BY <1>2
  <2>3. PICK f \in left : k = Rest(E, count, f) /\ CutOf(k, f)
    BY <1>2
  <2>4. e.age = f.age
    BY <2>1, <2>2, <2>3 DEF CutOf
  <2>5. e = f
    BY <2>4 DEF Listed
  <2> QED BY <2>2, <2>3, <2>5
<1>6. IsFiniteSet(K)
  <2> DEFINE f == [e \in left |-> Rest(E, count, e)]
  <2>1. f \in Surjection(left, K)
    BY <1>1 DEF Surjection
  <2>2. IsFiniteSet(left)
    BY FS_Subset DEF Listed
  <2> QED BY <2>1, <2>2, FS_Surjection
<1>7. Listed(K)
  BY <1>4, <1>5, <1>6 DEF Listed
<1>8. ASSUME NEW k \in K, NEW f \in E, k.age < f.age PROVE f \in K
  <2>1. PICK e \in left : CutOf(k, e)
    BY <1>2
  <2>2. e.age < f.age
    BY <2>1, <1>8 DEF CutOf
  <2>3. Stays(E, count, f) /\ f = Rest(E, count, f)
    BY <2>2, YoungerStay
  <2> QED BY <1>1, <2>3
<1>9. ASSUME NEW e \in E, e \notin K PROVE count > 0 /\ \A k \in K : e.age <= k.age
  <2>1. count > 0
    <3>1. SUFFICES ASSUME count = 0 PROVE FALSE
      OBVIOUS
    <3>2. Bytes(Before(E, e)) \in Nat /\ Length(e) \in Nat \ {0}
      BY EntriesAre, ContentsAre, PartIsListed DEF Before
    <3>3. count <= Bytes(Before(E, e)) /\ Stays(E, count, e)
      BY <3>1, <3>2 DEF Stays
    <3>4. Rest(E, count, e) = e
      BY <3>3, RestIs
    <3> QED BY <1>1, <1>9, <3>3, <3>4
  <2>2. ASSUME NEW k \in K PROVE e.age <= k.age
    <3>1. k.age \in Nat /\ e.age \in Nat
      BY <1>4, EntriesAre DEF Entries
    <3>2. ~(k.age < e.age)
      BY <1>8, <1>9
    <3> QED BY <3>1, <3>2
  <2> QED BY <2>1, <2>2
<1> HIDE DEF left
<1> QED BY <1>3, <1>7, <1>8, <1>9

(* As many bytes go as are asked for.                                      *)
LEMMA EvictedBytes ==
  ASSUME NEW E, Listed(E), NEW count \in Nat, count <= Bytes(E)
  PROVE  Bytes(Evicted(E, count)) = Bytes(E) - count
<1> DEFINE K == Evicted(E, count)
           left == {x \in E : Stays(E, count, x)}
<1> SUFFICES Bytes(K) = Bytes(E) - count
  OBVIOUS
<1>1. K = {Rest(E, count, e) : e \in left}
  BY EvictedAre
<1>2. Listed(K) /\ Bytes(E) \in Nat
  BY EvictedIs, ContentsAre
<1>3. CASE K = {}
  <2>1. CASE E = {}
    <3>1. Bytes(E) = 0 /\ Bytes(K) = 0
      BY <1>3, <2>1, NoBytes
    <3> HIDE DEF K
    <3> QED BY <3>1
  <2>2. CASE E # {}
    <3>1. PICK e \in E : Bytes(E) = Bytes(Before(E, e)) + Length(e)
      BY <2>2, YoungestIs
    <3>2. ~Stays(E, count, e)
      BY <1>1, <1>3
    <3>3. Bytes(E) <= count
      BY <1>2, <3>1, <3>2 DEF Stays
    <3>4. Bytes(K) = 0
      BY <1>3, NoBytes
    <3> HIDE DEF K
    <3> QED BY <1>2, <3>3, <3>4
  <2> QED BY <2>1, <2>2
<1>4. CASE K # {}
  <2> DEFINE ages == {k.age : k \in K}
  <2>1. PICK m \in ages : \A i \in ages : m <= i
    <3>1. ages \subseteq Nat /\ ages # {}
      BY <1>2, <1>4, AgesAre
    <3> HIDE DEF ages
    <3> QED BY <3>1, LeastOne
  <2>2. PICK k \in K : k.age = m
    BY <2>1
  <2>3. \A j \in K : k.age <= j.age
    BY <2>1, <2>2
  <2>4. PICK e \in left : k = Rest(E, count, e)
    BY <1>1
  <2> DEFINE B == Before(E, e)
             Y == {f \in E : e.age < f.age}
  <2>5. /\ k \in Entries /\ CutOf(k, e)
        /\ k.from = IF count <= Bytes(B) THEN e.from ELSE e.from + count - Bytes(B)
    BY <2>4, RestIs
  <2>6. e \in E /\ Stays(E, count, e) /\ k.age = e.age
    BY <2>5 DEF CutOf
  <2>7. K = {k} \cup Y
    <3>1. ASSUME NEW f \in Y PROVE f \in K
      BY <1>1, <2>6, <3>1, YoungerStay
    <3>2. ASSUME NEW j \in K, j # k PROVE j \in Y
      <4>1. PICK f \in left : j = Rest(E, count, f)
        BY <1>1
      <4>2. CutOf(j, f) /\ j.age = f.age
        <5>1. CutOf(j, f)
          BY <4>1, RestIs
        <5> QED BY <5>1 DEF CutOf
      <4>3. j.age # k.age
        BY <1>2, <3>2 DEF Listed
      <4>4. e.age < f.age
        <5>1. e.age \in Nat /\ f.age \in Nat
          BY <2>6, EntriesAre
        <5> QED BY <2>3, <2>6, <4>2, <4>3, <5>1
      <4>5. f = Rest(E, count, f)
        BY <2>6, <4>4, YoungerStay
      <4> QED BY <4>1, <4>4, <4>5
    <3> QED BY <3>1, <3>2
  <2>8. E = (B \cup {e}) \cup Y /\ B \cap {e} = {} /\ (B \cup {e}) \cap Y = {}
    <3>1. ASSUME NEW x \in E, x # e PROVE x.age < e.age \/ e.age < x.age
      <4>1. x.age # e.age
        BY <2>6, <3>1 DEF Listed
      <4> QED BY <2>6, <4>1, EntriesAre
    <3>2. \A x \in E : ~(x.age < e.age /\ e.age < x.age) /\ ~(e.age < e.age)
      BY <2>6, EntriesAre
    <3> QED BY <2>6, <3>1, <3>2 DEF Before
  <2>9. Listed(B) /\ Listed({e}) /\ Listed(Y) /\ Listed(B \cup {e}) /\ Listed({k})
    <3>1. B \in SUBSET E /\ {e} \in SUBSET E /\ Y \in SUBSET E /\ B \cup {e} \in SUBSET E
      BY <2>6 DEF Before
    <3> QED BY <1>2, <3>1, PartIsListed
  <2>10. Bytes(E) = Bytes(B) + Length(e) + Bytes(Y)
    <3>1. Bytes(E) = Bytes(B \cup {e}) + Bytes(Y)
      BY <2>8, <2>9, BytesOfBoth
    <3>2. Bytes(B \cup {e}) = Bytes(B) + Bytes({e})
      BY <2>8, <2>9, BytesOfBoth
    <3>3. Bytes({e}) = Length(e)
      BY <2>9, BytesOfOne
    <3> QED BY <3>1, <3>2, <3>3
  <2>11. Bytes(K) = Length(k) + Bytes(Y)
    <3>1. {k} \cap Y = {}
      <4>1. ~(e.age < e.age)
        BY <2>6, EntriesAre
      <4> QED BY <2>6, <4>1
    <3>2. Bytes({k} \cup Y) = Bytes({k}) + Bytes(Y)
      BY <1>2, <2>7, <3>1, BytesOfBoth
    <3>3. Bytes({k}) = Length(k)
      BY <2>9, BytesOfOne
    <3> QED BY <2>7, <3>2, <3>3
  <2>12. Bytes(B) \in Nat /\ Bytes(Y) \in Nat
    BY <2>9, ContentsAre
  <2>13. Bytes(B) <= count
    <3>1. SUFFICES ASSUME count < Bytes(B) PROVE FALSE
      BY <2>12
    <3>2. B # {}
      BY <2>12, <3>1, NoBytes
    <3>3. PICK p \in B : Bytes(B) = Bytes(Before(B, p)) + Length(p)
      BY <2>9, <3>2, YoungestIs
    <3>4. p \in E /\ p.age < e.age
      BY DEF Before
    <3>5. Before(B, p) = Before(E, p)
      <4>1. \A x \in E : x.age < p.age => x.age < e.age
        BY <2>6, <3>4, EntriesAre
      <4> QED BY <4>1 DEF Before
    <3>6. Stays(E, count, p)
      BY <2>12, <3>1, <3>3, <3>5 DEF Stays
    <3> DEFINE j == Rest(E, count, p)
    <3>7. j \in K /\ CutOf(j, p)
      BY <1>1, <3>4, <3>6, RestIs
    <3>8. j.age = p.age
      BY <3>7 DEF CutOf
    <3>9. p.age \in Nat /\ e.age \in Nat
      BY <2>6, <3>4, EntriesAre
    <3> HIDE DEF j
    <3> QED BY <2>3, <2>6, <3>4, <3>7, <3>8, <3>9
  <2>14. /\ Length(e) = e.to - e.from /\ Length(k) = k.to - k.from /\ k.to = e.to
         /\ e.from \in Nat /\ e.to \in Nat
    BY <2>5, <2>6, EntriesAre DEF Length, CutOf
  <2>15. k.from = e.from + count - Bytes(B)
    BY <2>5, <2>12, <2>13, <2>14
  <2> HIDE DEF K, B, Y
  <2> QED BY <2>10, <2>11, <2>12, <2>14, <2>15
<1> QED BY <1>3, <1>4

(* Of a session no byte is kept that was not.                              *)
LEMMA EvictedOf ==
  ASSUME NEW E, Listed(E), NEW K, Listed(K), \A k \in K : \E e \in E : CutOf(k, e), NEW s
  PROVE  Contents(Of(K, s)) \subseteq Contents(Of(E, s))
<1>1. SUFFICES ASSUME NEW k \in Of(K, s), NEW p \in {k.age} \X (k.from .. k.to - 1)
               PROVE  p \in Contents(Of(E, s))
  BY DEF Contents
<1>2. PICK e \in E : CutOf(k, e)
  BY DEF Of
<1>3. e \in Of(E, s) /\ k.age = e.age
  BY <1>2 DEF Of, CutOf
<1>4. k.from .. k.to - 1 \subseteq e.from .. e.to - 1
  <2>1. e.from \in Nat /\ e.to \in Nat /\ k.from \in Nat
    BY EntriesAre DEF Of
  <2>2. k.to = e.to /\ e.from <= k.from
    BY <1>2 DEF CutOf
  <2> QED BY <2>1, <2>2
<1> QED BY <1>3, <1>4 DEF Contents

(* What is left when the oldest bytes of a list are gone.                  *)
Newest(K, E) ==
  /\ Listed(K)
  /\ \A k \in K : \E e \in E : CutOf(k, e)
  /\ \A k \in K, f \in E : k.age < f.age => f \in K

(* Where entries begin, and where they will when there are none.           *)
Begin(E, end) == IF E = {} THEN end ELSE Min({e.from : e \in E})

LEMMA StartIs ==
  ASSUME NEW E, NEW s
  PROVE  Start(E, s) = Begin(Of(E, s), nextOffset[s])
BY DEF Start, Begin

LEMMA BeginIs ==
  ASSUME NEW E, Listed(E), NEW end \in Nat, Covered(E, end)
  PROVE  /\ Begin(E, end) \in Nat /\ Begin(E, end) <= end
         /\ \A e \in E : Begin(E, end) <= e.from
         /\ \A o \in Begin(E, end) .. end - 1 : \E e \in E : o \in e.from .. e.to - 1
<1>1. CASE E = {}
  BY <1>1 DEF Begin
<1>2. CASE E # {}
  <2> DEFINE froms == {e.from : e \in E}
  <2>1. froms \subseteq Nat /\ froms # {}
    BY <1>2, EntriesAre
  <2>2. Begin(E, end) = Min(froms)
    BY <1>2 DEF Begin
  <2>3. Begin(E, end) \in froms /\ \A i \in froms : Begin(E, end) <= i
    <3> HIDE DEF froms
    <3> QED BY <2>1, <2>2, MinIs
  <2>4. PICK e \in E : Begin(E, end) = e.from
    BY <2>3
  <2>5. e.from \in Nat /\ e.to \in Nat /\ e.from < e.to /\ e.to <= end
    BY EntriesAre DEF Covered
  <2>6. Begin(E, end) <= end
    BY <2>4, <2>5
  <2>7. \A f \in E : Begin(E, end) <= f.from
    BY <2>3
  <2>8. \A o \in Begin(E, end) .. end - 1 : \E f \in E : o \in f.from .. f.to - 1
    BY <2>4 DEF Covered
  <2> QED BY <2>4, <2>5, <2>6, <2>7, <2>8
<1> QED BY <1>1, <1>2

(* The oldest may go: order and cover stay, and the beginning moves on.    *)
LEMMA NewestKeeps ==
  ASSUME NEW E, Listed(E), InOrder(E), NEW end \in Nat, Covered(E, end), NEW K, Newest(K, E)
  PROVE  InOrder(K) /\ Covered(K, end) /\ Begin(E, end) <= Begin(K, end)
<1>1. Listed(K)
  BY DEF Newest
<1>2. InOrder(K)
  <2>1. SUFFICES ASSUME NEW j \in K, NEW k \in K, j.age < k.age PROVE j.to <= k.from
    BY DEF InOrder
  <2>2. PICK e \in E, f \in E : CutOf(j, e) /\ CutOf(k, f)
    BY DEF Newest
  <2>3. e.to <= f.from
    BY <2>1, <2>2 DEF CutOf, InOrder
  <2>4. e.to \in Nat /\ f.from \in Nat /\ k.from \in Nat
    BY <1>1, EntriesAre
  <2> QED BY <2>2, <2>3, <2>4 DEF CutOf
<1>3. Covered(K, end)
  <2>1. SUFFICES ASSUME NEW k \in K
                 PROVE  /\ k.to <= end
                        /\ \A o \in k.from .. end - 1 : \E f \in K : o \in f.from .. f.to - 1
    BY DEF Covered
  <2>2. PICK e \in E : CutOf(k, e)
    BY DEF Newest
  <2>3. /\ e.from \in Nat /\ e.to \in Nat /\ e.age \in Nat /\ k.from \in Nat /\ k.to = e.to
        /\ e.from <= k.from /\ k.age = e.age
    BY <1>1, <2>2, EntriesAre DEF CutOf
  <2>4. k.to <= end
    BY <2>3 DEF Covered
  <2>5. ASSUME NEW o \in k.from .. end - 1 PROVE \E f \in K : o \in f.from .. f.to - 1
    <3>1. o \in e.from .. end - 1
      BY <2>3
    <3>2. PICK f \in E : o \in f.from .. f.to - 1
      BY <3>1 DEF Covered
    <3>3. f.from \in Nat /\ f.to \in Nat /\ f.age \in Nat
      BY EntriesAre
    <3>4. CASE f.age = e.age
      <4>1. f = e
        BY <3>4 DEF Listed
      <4> QED BY <2>3, <3>2, <4>1
    <3>5. CASE f.age < e.age
      <4>1. f.to <= e.from
        BY <3>5 DEF InOrder
      <4> QED BY <2>3, <3>2, <3>3, <4>1
    <3>6. CASE e.age < f.age
      <4>1. f \in K
        BY <2>3, <3>6 DEF Newest
      <4> QED BY <3>2, <4>1
    <3> QED BY <2>3, <3>3, <3>4, <3>5, <3>6
  <2> QED BY <2>4, <2>5
<1>4. Begin(E, end) <= Begin(K, end)
  <2>1. Begin(E, end) \in Nat /\ Begin(E, end) <= end /\ \A e \in E : Begin(E, end) <= e.from
    BY BeginIs
  <2>2. CASE K = {}
    BY <2>1, <2>2 DEF Begin
  <2>3. CASE K # {}
    <3> DEFINE froms == {k.from : k \in K}
    <3>1. froms \subseteq Nat /\ froms # {}
      BY <1>1, <2>3, EntriesAre
    <3>2. Begin(K, end) = Min(froms)
      BY <2>3 DEF Begin
    <3>3. Begin(K, end) \in froms
      <4> HIDE DEF froms
      <4> QED BY <3>1, <3>2, MinIs
    <3>4. PICK k \in K : Begin(K, end) = k.from
      BY <3>3
    <3>5. PICK e \in E : CutOf(k, e)
      BY DEF Newest
    <3>6. e.from \in Nat /\ k.from \in Nat /\ e.from <= k.from /\ Begin(E, end) <= e.from
      BY <1>1, <2>1, <3>5, EntriesAre DEF CutOf
    <3> QED BY <2>1, <3>4, <3>6
  <2> QED BY <2>2, <2>3
<1> QED BY <1>2, <1>3, <1>4

(* A stretch of offsets has no more of them than there are bytes.          *)
LEMMA SpanIs ==
  ASSUME NEW E, Listed(E), NEW end \in Nat, Covered(E, end)
  PROVE  end - Begin(E, end) <= Bytes(E)
<1> DEFINE b == Begin(E, end)
           offsets == b .. end - 1
           In(o) == CHOOSE e \in E : o \in e.from .. e.to - 1
           g == [o \in offsets |-> <<In(o).age, o>>]
<1>1. b \in Nat /\ b <= end /\ \A o \in offsets : \E e \in E : o \in e.from .. e.to - 1
  BY BeginIs
<1>2. \A o \in offsets : In(o) \in E /\ o \in In(o).from .. In(o).to - 1
  BY <1>1
<1>3. ASSUME NEW o \in offsets PROVE g[o] \in Contents(E)
  <2>1. PICK e \in E : e = In(o) /\ o \in e.from .. e.to - 1
    BY <1>2
  <2>2. <<e.age, o>> \in {e.age} \X (e.from .. e.to - 1)
    BY <2>1
  <2>3. g[o] = <<e.age, o>>
    BY <2>1
  <2> QED BY <2>2, <2>3 DEF Contents
<1>4. g \in Injection(offsets, Contents(E))
  <2>1. g \in [offsets -> Contents(E)]
    BY <1>3
  <2>2. \A o, p \in offsets : g[o] = g[p] => o = p
    OBVIOUS
  <2> QED BY <2>1, <2>2 DEF Injection, IsInjective
<1> HIDE DEF g, b
<1>5. Cardinality(offsets) <= Cardinality(Contents(E))
  BY <1>4, ContentsAre, FS_Injection
<1>6. b \in Int /\ end - 1 \in Int
  BY <1>1
<1>7. Cardinality(offsets) = IF b > end - 1 THEN 0 ELSE (end - 1) - b + 1
  BY <1>6, FS_Interval
<1>8. Cardinality(offsets) = end - b
  BY <1>1, <1>7
<1>9. Cardinality(offsets) <= Bytes(E)
  BY <1>5 DEF Bytes
<1> QED BY <1>8, <1>9 DEF b

-----------------------------------------------------------------------------
(* Entries by age.                                                         *)

Increasing(list) == \A i, j \in DOMAIN list : i < j => list[i].age < list[j].age

(* Every list of entries can be ordered: the smallest that could not could *)
(* without its youngest entry.                                             *)
LEMMA OrderExists ==
  ASSUME NEW E, Listed(E)
  PROVE  \E list \in [1..Cardinality(E) -> E] : Increasing(list)
<1> DEFINE Ordered(T) == \E list \in [1..Cardinality(T) -> T] : Increasing(list)
           Bad == {T \in SUBSET E : ~Ordered(T)}
           sizes == {n \in Nat : \E T \in Bad : n = Cardinality(T)}
<1>1. SUFFICES ASSUME ~Ordered(E) PROVE FALSE
  OBVIOUS
<1>2. \A T \in SUBSET E : IsFiniteSet(T) /\ Cardinality(T) \in Nat /\ Listed(T)
  BY FS_Subset, FS_CardinalityType, PartIsListed DEF Listed
<1>3. Cardinality(E) \in sizes
  BY <1>1, <1>2
<1>4. PICK n \in sizes : \A i \in sizes : n <= i
  <2>1. sizes \subseteq Nat /\ sizes # {}
    BY <1>3
  <2> HIDE DEF sizes
  <2> QED BY <2>1, LeastOne
<1>5. PICK T \in Bad : n = Cardinality(T)
  BY <1>4
<1>6. n \in Nat /\ T \in SUBSET E /\ ~Ordered(T)
  BY <1>4, <1>5
<1>7. n # 0
  <2>1. SUFFICES ASSUME n = 0 PROVE FALSE
    OBVIOUS
  <2>2. T = {}
    BY <1>2, <1>5, <1>6, <2>1, FS_EmptySet
  <2> DEFINE none == [i \in 1..Cardinality(T) |-> i]
  <2>3. 1..Cardinality(T) = {}
    BY <1>5, <2>1
  <2>4. none \in [1..Cardinality(T) -> T] /\ Increasing(none)
    BY <2>3 DEF Increasing
  <2> HIDE DEF none
  <2> QED BY <1>6, <2>4
<1>8. T # {}
  BY <1>5, <1>7, FS_EmptySet
<1>9. PICK m \in T : \A x \in T : x.age <= m.age
  BY <1>2, <1>6, <1>8, YoungestIs
<1> DEFINE U == T \ {m}
<1>10. U \in SUBSET E /\ Cardinality(U) = n - 1 /\ n - 1 \in Nat
  <2>1. Cardinality(U) = Cardinality(T) - 1
    BY <1>2, <1>6, <1>9, FS_RemoveElement
  <2> QED BY <1>5, <1>6, <1>7, <2>1
<1>11. Ordered(U)
  <2>1. SUFFICES ASSUME U \in Bad PROVE FALSE
    BY <1>10
  <2>2. n - 1 \in sizes
    BY <1>10, <2>1
  <2> QED BY <1>4, <1>6, <2>2
<1>12. PICK g \in [1..n - 1 -> U] : Increasing(g)
  BY <1>10, <1>11
<1> DEFINE h == [i \in 1..n |-> IF i = n THEN m ELSE g[i]]
<1>13. \A i \in 1..n : i # n => i \in 1..n - 1
  BY <1>6
<1>14. h \in [1..n -> T]
  BY <1>9, <1>12, <1>13
<1>15. Increasing(h)
  <2>1. SUFFICES ASSUME NEW i \in 1..n, NEW j \in 1..n, i < j PROVE h[i].age < h[j].age
    BY DEF Increasing
  <2>2. i \in 1..n - 1 /\ i # n
    BY <1>6, <2>1
  <2>3. h[i] = g[i] /\ g[i] \in U
    BY <1>12, <2>2
  <2>4. CASE j = n
    <3>1. h[j] = m
      BY <2>4
    <3>2. g[i].age # m.age
      <4>1. g[i] \in T /\ g[i] # m
        BY <2>3
      <4> QED BY <1>2, <1>6, <1>9, <4>1 DEF Listed
    <3>3. g[i].age \in Nat /\ m.age \in Nat /\ g[i].age <= m.age
      BY <1>2, <1>6, <1>9, <2>3, EntriesAre
    <3> QED BY <2>3, <3>1, <3>2, <3>3
  <2>5. CASE j # n
    <3>1. j \in 1..n - 1
      BY <1>13, <2>5
    <3>2. h[j] = g[j]
      BY <2>5
    <3>3. DOMAIN g = 1..n - 1
      BY <1>12
    <3>4. g[i].age < g[j].age
      BY <1>12, <2>1, <2>2, <3>1, <3>3 DEF Increasing
    <3> QED BY <2>3, <3>2, <3>4
  <2> QED BY <2>4, <2>5
<1> HIDE DEF h
<1> QED BY <1>5, <1>6, <1>14, <1>15

(* ByAge is that order, and leaves none out.                               *)
LEMMA ByAgeIs ==
  ASSUME NEW E, Listed(E)
  PROVE  /\ Cardinality(E) \in Nat
         /\ ByAge(E) \in [1..Cardinality(E) -> E]
         /\ Increasing(ByAge(E))
         /\ \A e \in E : \E i \in 1..Cardinality(E) : ByAge(E)[i] = e
<1> DEFINE n == Cardinality(E)
           list == ByAge(E)
<1>1. IsFiniteSet(E) /\ n \in Nat
  BY FS_CardinalityType DEF Listed
<1>2. \E l \in [1..n -> E] : \A i, j \in DOMAIN l : i < j => l[i].age < l[j].age
  BY OrderExists DEF Increasing
<1>3. list \in [1..n -> E] /\ Increasing(list)
  BY <1>2 DEF ByAge, Increasing
<1> HIDE DEF list
<1>4. ASSUME NEW i \in 1..n, NEW j \in 1..n, list[i] = list[j] PROVE i = j
  <2>1. DOMAIN list = 1..n /\ list[i] \in E
    BY <1>3
  <2>2. ~(list[i].age < list[i].age)
    BY <2>1, EntriesAre
  <2>3. ~(i < j) /\ ~(j < i)
    BY <1>3, <1>4, <2>1, <2>2 DEF Increasing
  <2> QED BY <1>1, <2>3
<1>5. list \in Injection(1..n, E)
  BY <1>3, <1>4 DEF Injection, IsInjective
<1>6. 1 \in Int /\ n \in Int
  BY <1>1
<1>7. Cardinality(1..n) = IF 1 > n THEN 0 ELSE n - 1 + 1
  BY <1>6, FS_Interval
<1>8. Cardinality(1..n) = n
  BY <1>1, <1>7
<1>9. list \in Surjection(1..n, E)
  BY <1>1, <1>5, <1>8, FS_Injection
<1>10. \A e \in E : \E i \in 1..n : list[i] = e
  BY <1>9 DEF Surjection
<1> QED BY <1>1, <1>3, <1>10 DEF list

-----------------------------------------------------------------------------
(* The frames made of what is kept.                                        *)

(* What is kept of a session is a list.                                    *)
LEMMA OfIsListed ==
  ASSUME NEW E, Listed(E), NEW s
  PROVE  Listed(Of(E, s)) /\ Of(E, s) \in SUBSET E /\ \A e \in Of(E, s) : e.session = s
<1>1. Of(E, s) \in SUBSET E /\ \A e \in Of(E, s) : e.session = s
  BY DEF Of
<1> QED BY <1>1, PartIsListed

(* What is kept beyond an offset.                                          *)
Beyond(s, from) == {e \in Of(history, s) : e.to > from}

(* The frames are those of what is kept.                                   *)
IsKept(frames, type, s, from) == frames = Kept(type, s, from)

LEMMA KeptAre ==
  ASSUME NEW s \in Sessions, NEW type \in Messages, NEW from \in 0..MaxSequence,
         Listed(history), Covered(Of(history, s), nextOffset[s]), nextOffset[s] \in 0..MaxSequence,
         NEW frames, IsKept(frames, type, s, from)
  PROVE  LET list == ByAge(Beyond(s, from)) IN
         /\ frames \in Seq(Frames)
         /\ DOMAIN list = 1..Len(frames)
         /\ \A i \in 1..Len(frames) :
              /\ list[i] \in Of(history, s)
              /\ frames[i].type = type /\ frames[i].session = s
              /\ frames[i].from = IF list[i].from >= from THEN list[i].from ELSE from
              /\ frames[i].to = list[i].to
              /\ frames[i].from < frames[i].to /\ frames[i].to <= nextOffset[s]
<1> USE DEF Beyond
<1> DEFINE E == Beyond(s, from)
           n == Cardinality(E)
           list == ByAge(E)
<1>1. Listed(E) /\ E \subseteq Of(history, s)
  BY OfIsListed, PartIsListed
<1>2. n \in Nat /\ list \in [1..n -> E]
  BY <1>1, ByAgeIs
<1>3. frames = [i \in 1..n |-> Frame(type, s, Max({list[i].from, from}), list[i].to)]
  BY <1>2 DEF Kept, IsKept
<1> HIDE DEF list, n
<1>4. ASSUME NEW i \in 1..n
      PROVE  /\ list[i] \in Of(history, s)
             /\ frames[i].type = type /\ frames[i].session = s
             /\ frames[i].from = IF list[i].from >= from THEN list[i].from ELSE from
             /\ frames[i].to = list[i].to
             /\ frames[i].from < frames[i].to /\ frames[i].to <= nextOffset[s]
             /\ frames[i] \in Frames
  <2>1. PICK e \in E : e = list[i]
    BY <1>2
  <2>2. /\ e \in Of(history, s) /\ from < e.to /\ e.from \in Nat /\ e.to \in 0..MaxSequence
        /\ e.from < e.to /\ e.to <= nextOffset[s]
    BY <1>1, EntriesAre DEF Covered
  <2> DEFINE cut == Max({e.from, from})
  <2>3. cut = IF e.from >= from THEN e.from ELSE from
    BY <2>2, MaxOfTwo
  <2>4. frames[i] = Frame(type, s, cut, e.to)
    BY <1>3, <2>1
  <2> HIDE DEF cut
  <2>5. cut \in 0..MaxSequence /\ cut < e.to
    BY <2>2, <2>3, LimitsAre
  <2>6. frames[i] \in Frames
    BY <2>2, <2>4, <2>5 DEF Frame, Frames
  <2>7. /\ frames[i].type = type /\ frames[i].session = s /\ frames[i].from = cut
        /\ frames[i].to = e.to
    BY <2>4 DEF Frame
  <2> QED BY <2>1, <2>2, <2>3, <2>5, <2>6, <2>7
<1>5. frames \in Seq(Frames) /\ Len(frames) = n
  <2>1. DOMAIN frames = 1..n /\ \A i \in 1..n : frames[i] \in Frames
    BY <1>3, <1>4
  <2>2. frames \in [1..n -> Frames]
    BY <1>3, <2>1
  <2> QED BY <1>2, <2>2
<1>6. DOMAIN list = 1..Len(frames)
  BY <1>2, <1>5
<1> QED BY <1>4, <1>5, <1>6 DEF list

(* From the beginning of what is kept on, they have no gap.                *)
LEMMA KeptIsWhole ==
  ASSUME NEW s \in Sessions, NEW type \in Messages,
         Listed(history), InOrder(Of(history, s)), Covered(Of(history, s), nextOffset[s]),
         nextOffset[s] \in 0..MaxSequence,
         NEW frames, frames = Kept(type, s, Start(history, s))
  PROVE  Contiguous(frames, Start(history, s), nextOffset[s])
<1> DEFINE E == Of(history, s)
           end == nextOffset[s]
           start == Start(history, s)
           list == ByAge(E)
<1>1. /\ start = Begin(E, end) /\ end \in Nat /\ Listed(E)
      /\ \A e \in E : e.from \in Nat /\ e.to \in Nat /\ e.from < e.to /\ e.to <= end
  BY StartIs, OfIsListed, EntriesAre, LimitsAre DEF Covered
<1>2. /\ start \in Nat /\ start <= end /\ \A e \in E : start <= e.from
      /\ \A o \in start .. end - 1 : \E e \in E : o \in e.from .. e.to - 1
  BY <1>1, BeginIs
<1>3. Beyond(s, start) = E
  BY <1>1, <1>2 DEF Beyond
<1>4. start \in 0..MaxSequence
  BY <1>1, <1>2, LimitsAre
<1> DEFINE n == Len(frames)
<1>5. /\ frames \in Seq(Frames) /\ DOMAIN list = 1..n
      /\ \A i \in 1..n : /\ list[i] \in E
                         /\ frames[i].from = IF list[i].from >= start THEN list[i].from ELSE start
                         /\ frames[i].to = list[i].to
  <2>1. IsKept(frames, type, s, start)
    BY DEF IsKept
  <2> QED BY <1>3, <1>4, <2>1, KeptAre
<1>6. /\ Increasing(list) /\ list \in [1..Cardinality(E) -> E] /\ Cardinality(E) \in Nat
      /\ \A e \in E : \E i \in 1..Cardinality(E) : list[i] = e
  BY <1>1, ByAgeIs
<1>7. n \in Nat /\ n = Cardinality(E)
  <2>1. 1..n = 1..Cardinality(E) /\ n \in Nat
    BY <1>5, <1>6
  <2> HIDE DEF n, E
  <2>2. n = Cardinality(E)
    BY <2>1, <1>6
  <2> QED BY <2>1, <2>2
<1>8. \A e \in E : \E i \in 1..n : list[i] = e
  BY <1>6, <1>7
<1>9. \A i \in 1..n : frames[i].from = list[i].from /\ frames[i].to = list[i].to
  <2>1. ASSUME NEW i \in 1..n PROVE frames[i].from = list[i].from /\ frames[i].to = list[i].to
    <3>1. list[i] \in E /\ start <= list[i].from
      BY <1>2, <1>5
    <3> QED BY <1>1, <1>2, <1>5, <3>1
  <2> QED BY <2>1
<1>10. \A i, j \in 1..n : i < j => list[i].to <= list[j].from
  BY <1>5, <1>6 DEF Increasing, InOrder
<1> HIDE DEF n, list, start, end
<1>11. CASE frames = <<>>
  <2>1. n = 0
    BY <1>11 DEF n
  <2>2. E = {}
    BY <1>8, <2>1
  <2>3. start = end
    BY <1>1, <2>2 DEF Begin
  <2> QED BY <1>11, <2>3 DEF Contiguous, start, end
<1>12. CASE frames # <<>>
  <2>1. n >= 1
    BY <1>5, <1>7, <1>12 DEF n
  <2>2. frames[1].from = start
    <3>1. 1 \in 1..n /\ list[1] \in E
      BY <1>5, <1>7, <2>1
    <3>2. start \in start .. end - 1
      BY <1>1, <1>2, <3>1
    <3>3. PICK f \in E : start \in f.from .. f.to - 1
      BY <1>2, <3>2
    <3>4. PICK j \in 1..n : list[j] = f
      BY <1>8
    <3>5. f.from = start
      BY <1>1, <1>2, <3>3
    <3>6. CASE j = 1
      BY <1>9, <3>1, <3>4, <3>5, <3>6
    <3>7. CASE j # 1
      <4>1. 1 < j
        BY <1>7, <3>7
      <4>2. list[1].to <= start
        BY <1>10, <3>1, <3>4, <3>5, <4>1
      <4> QED BY <1>1, <1>2, <3>1, <4>2
    <3> QED BY <3>6, <3>7
  <2>3. frames[n].to = end
    <3>1. n \in 1..n /\ list[n] \in E /\ frames[n].to = list[n].to
      BY <1>5, <1>7, <1>9, <2>1
    <3>2. SUFFICES ASSUME list[n].to # end PROVE FALSE
      BY <3>1
    <3> DEFINE o == list[n].to
    <3>3. o \in list[n].from .. end - 1 /\ list[n].from < o /\ list[n].from \in Nat /\ o \in Nat
      BY <1>1, <3>1, <3>2
    <3>4. PICK f \in E : o \in f.from .. f.to - 1
      BY <3>1, <3>3 DEF Covered, end
    <3>5. PICK j \in 1..n : list[j] = f
      BY <1>8
    <3>6. o < f.to /\ f.to \in Nat
      BY <1>1, <3>3, <3>4
    <3>7. j # n
      BY <3>3, <3>5, <3>6
    <3>8. f.to <= list[n].from
      <4>1. j < n
        BY <1>7, <3>7
      <4> QED BY <1>10, <3>1, <3>5, <4>1
    <3> HIDE DEF o
    <3> QED BY <3>3, <3>6, <3>8
  <2>4. ASSUME NEW i \in 1..n - 1 PROVE frames[i].to = frames[i + 1].from
    <3> DEFINE o == list[i].to
               k == i + 1
    <3>1. i \in 1..n /\ k \in 1..n /\ i < k /\ \A j \in 1..n : j < i \/ j = i \/ j = k \/ k < j
      BY <1>7
    <3>2. /\ list[i] \in E /\ list[k] \in E
          /\ frames[i].to = o /\ frames[k].from = list[k].from
      BY <1>5, <1>9, <3>1
    <3> HIDE DEF k
    <3>3. /\ list[i].from \in Nat /\ o \in Nat /\ list[k].from \in Nat /\ list[k].to \in Nat
          /\ list[i].from < o /\ list[k].from < list[k].to /\ list[k].to <= end
      BY <1>1, <3>2
    <3>4. o <= list[k].from
      BY <1>10, <3>1
    <3>5. o \in list[i].from .. end - 1
      BY <1>1, <3>3, <3>4
    <3>6. PICK f \in E : o \in f.from .. f.to - 1
      BY <3>2, <3>5 DEF Covered, end
    <3>7. PICK j \in 1..n : list[j] = f
      BY <1>8
    <3>8. f.from \in Nat /\ f.to \in Nat /\ f.from <= o /\ o < f.to
      BY <1>1, <3>3, <3>6
    <3>9. ~(j < i)
      <4>1. SUFFICES ASSUME j < i PROVE FALSE
        OBVIOUS
      <4>2. f.to <= list[i].from
        BY <1>10, <3>1, <3>7, <4>1
      <4> QED BY <3>3, <3>8, <4>2
    <3>10. j # i
      BY <3>3, <3>7, <3>8
    <3>11. ~(k < j)
      <4>1. SUFFICES ASSUME k < j PROVE FALSE
        OBVIOUS
      <4>2. list[k].to <= f.from
        BY <1>10, <3>1, <3>7, <4>1
      <4> QED BY <3>3, <3>4, <3>8, <4>2
    <3>12. list[k] = f
      BY <3>1, <3>7, <3>9, <3>10, <3>11
    <3>13. list[k].from = o
      BY <3>3, <3>4, <3>8, <3>12
    <3> HIDE DEF o
    <3> QED BY <3>2, <3>13 DEF k
  <2> QED BY <1>12, <2>2, <2>3, <2>4 DEF Contiguous, n, start, end
<1> QED BY <1>11, <1>12

-----------------------------------------------------------------------------
(* Output is appended.                                                     *)

LEMMA ExcessIs ==
  ASSUME NEW a \in Nat, NEW limit \in Nat
  PROVE  /\ Excess(a, limit) \in Nat /\ Excess(a, limit) <= a /\ a - Excess(a, limit) <= limit
         /\ Excess(a, limit) > 0 => a - Excess(a, limit) = limit
<1>1. 0 \in Int /\ a - limit \in Int
  OBVIOUS
<1>2. Excess(a, limit) = IF 0 >= a - limit THEN 0 ELSE a - limit
  BY <1>1, MaxOfTwo DEF Excess
<1> QED BY <1>2

(* The new entry is the youngest and continues its session.                *)
LEMMA PushBackIs ==
  ASSUME NEW s \in Sessions, NEW n \in Nat \ {0}, TypeOK, Listed(history),
         nextOffset[s] + n <= MaxSequence
  PROVE  \E x : /\ PushBack(s, n) = history \cup {x} /\ x \notin history
                /\ Listed(history \cup {x})
                /\ x.session = s /\ x.from = nextOffset[s] /\ x.to = nextOffset[s] + n
                /\ \A e \in history : e.age < x.age
<1> DEFINE ages == {e.age : e \in history}
           age == IF history = {} THEN 1 ELSE 1 + Max(ages)
           x == [session |-> s, from |-> nextOffset[s], to |-> nextOffset[s] + n, age |-> age]
<1>1. PushBack(s, n) = history \cup {x}
  BY DEF PushBack
<1>2. age \in Nat \ {0} /\ \A e \in history : e.age < age
  <2>1. CASE history = {}
    BY <2>1
  <2>2. CASE history # {}
    <3>1. ages \subseteq Nat /\ ages # {} /\ IsFiniteSet(ages)
      BY <2>2, AgesAre
    <3>2. Max(ages) \in ages /\ \A i \in ages : i <= Max(ages)
      <4> HIDE DEF ages
      <4> QED BY <3>1, MaxIs
    <3>3. Max(ages) \in Nat /\ age = 1 + Max(ages)
      BY <2>2, <3>1, <3>2
    <3>4. \A e \in history : e.age \in ages /\ e.age \in Nat
      BY EntriesAre
    <3> HIDE DEF ages, age
    <3> QED BY <3>2, <3>3, <3>4
  <2> QED BY <2>1, <2>2
<1> HIDE DEF age
<1>3. nextOffset[s] \in Nat /\ nextOffset[s] \in 0..MaxSequence
  BY LimitsAre DEF TypeOK
<1>4. x \in Entries /\ x.from < x.to
  BY <1>2, <1>3, LimitsAre DEF Entries
<1>5. \A e \in history : e.age \in Nat /\ e.age # x.age
  BY <1>2, EntriesAre
<1>6. x \notin history
  BY <1>5
<1>7. IsFiniteSet(history \cup {x})
  BY FS_AddElement DEF Listed
<1>8. Listed(history \cup {x})
  <2>1. history \cup {x} \subseteq Entries /\ \A e \in history \cup {x} : e.from < e.to
    BY <1>4 DEF Listed
  <2>2. \A e, f \in history \cup {x} : e.age = f.age => e = f
    BY <1>5 DEF Listed
  <2> HIDE DEF x
  <2> QED BY <1>7, <2>1, <2>2 DEF Listed
<1>9. /\ x.session = s /\ x.from = nextOffset[s] /\ x.to = nextOffset[s] + n
      /\ \A e \in history : e.age < x.age
  BY <1>2
<1> HIDE DEF x
<1> QED BY <1>1, <1>6, <1>8, <1>9

(* With it the session has its bytes, in order and without a gap.          *)
LEMMA PushedIs ==
  ASSUME NEW s \in Sessions, NEW n \in Nat \ {0}, TypeOK, HistoryOK,
         nextOffset[s] + n <= MaxSequence, NEW P, P = Of(PushBack(s, n), s)
  PROVE  /\ Listed(PushBack(s, n)) /\ Listed(P) /\ P \subseteq PushBack(s, n)
         /\ \A e \in PushBack(s, n) \ P : e \in history /\ e.session # s
         /\ \A e \in history : e \in PushBack(s, n)
         /\ InOrder(P) /\ Covered(P, nextOffset[s] + n)
         /\ Bytes(P) = historyBytes[s] + n
         /\ Bytes(PushBack(s, n)) = agentBytes + n
         /\ Begin(Of(history, s), nextOffset[s]) <= Begin(P, nextOffset[s] + n)
<1> DEFINE H == Of(history, s)
           end == nextOffset[s]
           W == PushBack(s, n)
<1>1. PICK x : /\ W = history \cup {x} /\ x \notin history
               /\ Listed(history \cup {x})
               /\ x.session = s /\ x.from = end /\ x.to = end + n
               /\ \A e \in history : e.age < x.age
  BY PushBackIs DEF HistoryOK
<1>2. P = H \cup {x} /\ x \notin H
  BY <1>1 DEF Of
<1>3. Listed(W) /\ Listed(P) /\ Listed(H) /\ Listed({x}) /\ P \subseteq W
  <2>1. P \in SUBSET W /\ H \in SUBSET W /\ {x} \in SUBSET W
    BY <1>1 DEF Of
  <2> QED BY <1>1, <2>1, PartIsListed
<1>4. \A e \in W \ P : e \in history /\ e.session # s
  BY <1>1 DEF Of
<1>5. end \in Nat /\ x.age \in Nat
  BY <1>3, EntriesAre DEF TypeOK
<1>6. InOrder(H) /\ Covered(H, end)
  BY DEF HistoryOK
<1>7. InOrder(P)
  <2>1. SUFFICES ASSUME NEW e \in P, NEW f \in P, e.age < f.age PROVE e.to <= f.from
    BY DEF InOrder
  <2>2. e.age \in Nat /\ f.age \in Nat
    BY <1>3, EntriesAre
  <2>3. CASE e \in H /\ f \in H
    BY <1>6, <2>1, <2>3 DEF InOrder
  <2>4. CASE e \in H /\ f = x
    BY <1>1, <1>6, <2>4 DEF Covered
  <2>5. e # x
    <3>1. SUFFICES ASSUME e = x PROVE FALSE
      OBVIOUS
    <3>2. f.age <= x.age
      BY <1>1, <1>2, <1>5, <2>2 DEF Of
    <3> QED BY <1>5, <2>1, <2>2, <3>1, <3>2
  <2> QED BY <1>2, <2>3, <2>4, <2>5
<1>8. Covered(P, end + n)
  <2> DEFINE new == end + n
  <2>1. ASSUME NEW e \in P
        PROVE  /\ e.to <= new
               /\ \A o \in e.from .. new - 1 : \E f \in P : o \in f.from .. f.to - 1
    <3>1. e.from \in Nat /\ e.to \in Nat
      BY <1>3, EntriesAre
    <3>2. e.to <= new
      <4>1. e \in H => e.to <= end
        BY <1>6 DEF Covered
      <4>2. e = x => e.to = end + n
        BY <1>1
      <4> HIDE DEF end, H
      <4> QED BY <1>2, <1>5, <3>1, <4>1, <4>2
    <3>3. ASSUME NEW o \in e.from .. new - 1 PROVE \E f \in P : o \in f.from .. f.to - 1
      <4>1. o \in Int /\ x \in P
        BY <1>2
      <4>2. CASE o >= end
        <5>1. o \in x.from .. x.to - 1
          BY <1>1, <1>5, <3>1, <4>1, <4>2
        <5> QED BY <4>1, <5>1
      <4>3. CASE ~(o >= end)
        <5>1. e # x
          BY <1>1, <1>5, <3>1, <4>1, <4>3
        <5>2. e \in H /\ o \in e.from .. end - 1
          BY <1>2, <1>5, <3>1, <4>1, <4>3, <5>1
        <5>3. PICK f \in H : o \in f.from .. f.to - 1
          BY <1>6, <5>2 DEF Covered
        <5> QED BY <1>2, <5>3
      <4> QED BY <4>2, <4>3
    <3> QED BY <3>2, <3>3
  <2> HIDE DEF new
  <2>2. Covered(P, new)
    BY <2>1 DEF Covered
  <2> QED BY <2>2 DEF new
<1>9. Bytes(P) = historyBytes[s] + n /\ Bytes(W) = agentBytes + n
  <2>1. Bytes({x}) = n
    <3>1. Bytes({x}) = x.to - x.from
      BY <1>3, BytesOfOne, EntriesAre
    <3> QED BY <1>1, <1>5, <3>1
  <2>2. Bytes(P) = Bytes(H) + Bytes({x})
    BY <1>2, <1>3, BytesOfBoth
  <2>3. Bytes(W) = Bytes(history) + Bytes({x})
    BY <1>1, BytesOfBoth
  <2>4. Bytes(H) = historyBytes[s] /\ Bytes(history) = agentBytes
    BY DEF HistoryOK, AccountsBalance
  <2> QED BY <2>1, <2>2, <2>3, <2>4
<1>10. Begin(H, end) <= Begin(P, end + n)
  <2> DEFINE froms == {e.from : e \in P}
  <2>1. Begin(P, end + n) \in froms
    <3>1. froms \subseteq Nat /\ froms # {}
      BY <1>2, <1>3, EntriesAre
    <3>2. Begin(P, end + n) = Min(froms)
      BY <1>2 DEF Begin
    <3> HIDE DEF froms
    <3> QED BY <3>1, <3>2, MinIs
  <2>2. PICK e \in P : Begin(P, end + n) = e.from
    BY <2>1
  <2>3. Begin(H, end) \in Nat /\ Begin(H, end) <= end /\ \A f \in H : Begin(H, end) <= f.from
    BY <1>3, <1>5, <1>6, BeginIs
  <2> QED BY <1>1, <1>2, <2>2, <2>3
<1>11. \A e \in history : e \in W
  BY <1>1
<1> QED BY <1>3, <1>4, <1>7, <1>8, <1>9, <1>10, <1>11

(* What appendHistoryLocked evicts, first of the session, then of all.     *)
Over(s, n) == Excess(historyBytes[s] + n, MaxSessionHistory)

Trimmed(s, n) ==
  LET pushed == PushBack(s, n)
  IN  (pushed \ Of(pushed, s)) \cup Evicted(Of(pushed, s), Over(s, n))

Appended(s, n) ==
  Evicted(Trimmed(s, n), Excess(agentBytes + n - Over(s, n), MaxAgentHistory))

(* What is left of the new list when the session and the agent have evicted*)
(* what is too much.                                                       *)
LEMMA AppendedAre ==
  ASSUME NEW s \in Sessions, NEW n \in Nat \ {0}, TypeOK, HistoryOK,
         nextOffset[s] + n <= MaxSequence
  PROVE  LET over == Over(s, n)
             kept == Trimmed(s, n)
             total == agentBytes + n - over
             final == Appended(s, n)
         IN
         /\ over \in Nat
         /\ over > 0 => historyBytes[s] + n - over = MaxSessionHistory
         /\ total \in Nat /\ Listed(kept) /\ Listed(final)
         /\ \A t \in Sessions :
              Bytes(Of(kept, t)) = historyBytes[t] + (IF t = s THEN n - over ELSE 0)
         /\ Bytes(final) = total - Excess(total, MaxAgentHistory)
         /\ \A t \in Sessions : /\ Newest(Of(final, t), Of(kept, t))
                                /\ Bytes(Of(final, t)) <= Bytes(Of(kept, t))
                                /\ Bytes(Of(kept, t)) <= MaxSessionHistory
         /\ \A t \in Sessions :
              LET end == IF t = s THEN nextOffset[s] + n ELSE nextOffset[t]
              IN  /\ InOrder(Of(final, t)) /\ Covered(Of(final, t), end)
                  /\ Begin(Of(history, t), nextOffset[t]) <= Begin(Of(final, t), end)
         /\ \A e \in history :
              \/ e \in final
              \/ Excess(total, MaxAgentHistory) > 0 /\ \A f \in final : e.age <= f.age
              \/ over > 0 /\ e.session = s /\ Of(final, s) = Of(kept, s)
<1> DEFINE over == Over(s, n)
           kept == Trimmed(s, n)
           total == agentBytes + n - over
           final == Appended(s, n)
           W == PushBack(s, n)
           P == Of(W, s)
           E1 == Evicted(P, over)
           excess == Excess(total, MaxAgentHistory)
<1>1. /\ Listed(W) /\ Listed(P) /\ P \subseteq W
      /\ \A e \in W \ P : e \in history /\ e.session # s
      /\ \A e \in history : e \in W
      /\ InOrder(P) /\ Covered(P, nextOffset[s] + n)
      /\ Bytes(P) = historyBytes[s] + n /\ Bytes(W) = agentBytes + n
      /\ Begin(Of(history, s), nextOffset[s]) <= Begin(P, nextOffset[s] + n)
  BY PushedIs
<1>2. \A t \in Sessions : /\ historyBytes[t] \in Nat /\ historyBytes[t] <= MaxSessionHistory
                          /\ nextOffset[t] \in Nat
                          /\ historyBytes[t] = Bytes(Of(history, t))
  BY LimitsAre DEF TypeOK, HistoryOK, AccountsBalance
<1>3. /\ over \in Nat /\ over <= historyBytes[s] + n
      /\ historyBytes[s] + n - over <= MaxSessionHistory
      /\ over > 0 => historyBytes[s] + n - over = MaxSessionHistory
  <2> DEFINE a == historyBytes[s] + n
  <2>1. a \in Nat /\ MaxSessionHistory \in Nat
    BY <1>2, LimitsAre
  <2>2. over = Excess(a, MaxSessionHistory)
    BY DEF Over
  <2> HIDE DEF a, over
  <2>3. /\ over \in Nat /\ over <= a /\ a - over <= MaxSessionHistory
        /\ over > 0 => a - over = MaxSessionHistory
    BY <2>1, <2>2, ExcessIs
  <2> QED BY <1>2, <2>3 DEF a
<1>4. /\ Listed(E1) /\ Bytes(E1) = historyBytes[s] + n - over
      /\ \A k \in E1 : \E e \in P : CutOf(k, e)
      /\ \A k \in E1, f \in P : k.age < f.age => f \in E1
      /\ \A e \in P : e \in E1 \/ (over > 0 /\ \A k \in E1 : e.age <= k.age)
  <2>1. Bytes(E1) = Bytes(P) - over
    BY <1>1, <1>3, EvictedBytes
  <2> HIDE DEF P
  <2>2. E1 = Evicted(P, over)
    OBVIOUS
  <2> HIDE DEF E1
  <2>3. Bytes(E1) = historyBytes[s] + n - over
    BY <1>1, <1>2, <1>3, <2>1
  <2> QED BY <1>1, <1>3, <2>2, <2>3, EvictedIs
<1> HIDE DEF W, E1, over, kept, final
<1>5. kept = (W \ P) \cup E1
  BY DEF W, E1, kept, over, Trimmed
<1>6. \A k \in E1 : k.session = s /\ k \notin W \ P
  <2>1. SUFFICES ASSUME NEW k \in E1 PROVE k.session = s /\ k \notin W \ P
    OBVIOUS
  <2>2. PICK e \in P : CutOf(k, e)
    BY <1>4
  <2>3. k.session = s
    BY <2>2 DEF Of, CutOf
  <2> QED BY <1>1, <2>3
<1>7. Listed(kept)
  <2>1. kept \subseteq Entries /\ \A e \in kept : e.from < e.to
    BY <1>1, <1>4, <1>5 DEF Listed
  <2>2. IsFiniteSet(kept)
    <3>1. IsFiniteSet(W) /\ IsFiniteSet(E1)
      BY <1>1, <1>4 DEF Listed
    <3>2. IsFiniteSet(W \ P)
      BY <3>1, FS_Difference
    <3> QED BY <1>5, <3>1, <3>2, FS_Union
  <2>3. ASSUME NEW e \in W \ P, NEW k \in E1 PROVE e.age # k.age
    <3>1. PICK f \in P : CutOf(k, f)
      BY <1>4
    <3>2. e # f /\ e \in W /\ f \in W /\ k.age = f.age
      BY <1>1, <3>1 DEF CutOf
    <3> QED BY <1>1, <3>2 DEF Listed
  <2>4. ASSUME NEW e \in kept, NEW f \in kept, e.age = f.age PROVE e = f
    <3>1. CASE e \in E1 /\ f \in E1
      BY <1>4, <2>4, <3>1 DEF Listed
    <3>2. CASE e \in W \ P /\ f \in W \ P
      BY <1>1, <2>4, <3>2 DEF Listed
    <3> QED BY <1>5, <2>3, <2>4, <3>1, <3>2
  <2> QED BY <2>1, <2>2, <2>4 DEF Listed
<1>8. Of(kept, s) = E1 /\ \A t \in Sessions : t # s => Of(kept, t) = Of(history, t)
  <2>1. Of(kept, s) = E1
    BY <1>1, <1>5, <1>6 DEF Of
  <2>2. ASSUME NEW t \in Sessions, t # s PROVE Of(kept, t) = Of(history, t)
    <3>1. \A e \in kept : e.session = t => e \in history
      BY <1>1, <1>5, <1>6, <2>2
    <3>2. \A e \in history : e.session = t => e \in kept
      BY <1>1, <1>5, <2>2 DEF Of
    <3> QED BY <3>1, <3>2 DEF Of
  <2> QED BY <2>1, <2>2
<1>9. \A t \in Sessions :
        /\ Bytes(Of(kept, t)) = historyBytes[t] + (IF t = s THEN n - over ELSE 0)
        /\ Bytes(Of(kept, t)) <= MaxSessionHistory
  <2>1. SUFFICES ASSUME NEW t \in Sessions
                 PROVE  /\ Bytes(Of(kept, t)) = historyBytes[t] + (IF t = s THEN n - over ELSE 0)
                        /\ Bytes(Of(kept, t)) <= MaxSessionHistory
    OBVIOUS
  <2>2. CASE t = s
    <3>1. Bytes(Of(kept, t)) = historyBytes[s] + n - over
      BY <1>4, <1>8, <2>2
    <3> QED BY <1>2, <1>3, <2>2, <3>1
  <2>3. CASE t # s
    <3>1. Bytes(Of(kept, t)) = historyBytes[t]
      BY <1>2, <1>8, <2>3
    <3> QED BY <1>2, <2>3, <3>1
  <2> QED BY <2>2, <2>3
<1>10. Bytes(kept) = total /\ total \in Nat
  <2> DEFINE D == W \ P
  <2>1. W = D \cup P /\ D \cap P = {} /\ kept = D \cup E1 /\ D \cap E1 = {}
    BY <1>1, <1>5, <1>6
  <2> HIDE DEF D, P
  <2>2. Bytes(W) = Bytes(D) + Bytes(P)
    BY <1>1, <2>1, BytesOfBoth
  <2>3. Bytes(kept) = Bytes(D) + Bytes(E1)
    BY <1>7, <2>1, BytesOfBoth
  <2>4. Bytes(D) \in Nat
    <3>1. D \in SUBSET W
      BY <2>1
    <3> QED BY <1>1, <3>1, PartIsListed, ContentsAre
  <2>5. agentBytes \in Nat /\ historyBytes[s] \in Nat
    BY <1>2, LimitsAre DEF TypeOK
  <2>6. Bytes(kept) = total
    BY <1>1, <1>3, <1>4, <2>2, <2>3, <2>4, <2>5 DEF total
  <2>7. Bytes(kept) \in Nat
    BY <1>7, ContentsAre
  <2> QED BY <2>6, <2>7
<1>11. excess \in Nat /\ excess <= total
  BY <1>10, LimitsAre, ExcessIs
<1> HIDE DEF excess
<1>12. final = Evicted(kept, excess)
  BY DEF excess, final, Appended, kept, over
<1> HIDE DEF total
<1>13. /\ Listed(final) /\ Bytes(final) = total - excess
       /\ \A k \in final : \E e \in kept : CutOf(k, e)
       /\ \A k \in final, f \in kept : k.age < f.age => f \in final
       /\ \A e \in kept : e \in final \/ (excess > 0 /\ \A k \in final : e.age <= k.age)
  <2>1. Bytes(final) = total - excess
    BY <1>7, <1>10, <1>11, <1>12, EvictedBytes
  <2> QED BY <1>7, <1>11, <1>12, <2>1, EvictedIs
<1>14. ASSUME NEW t \in Sessions
       PROVE  Newest(Of(final, t), Of(kept, t)) /\ Bytes(Of(final, t)) <= Bytes(Of(kept, t))
  <2>1. Listed(Of(final, t)) /\ Listed(Of(kept, t))
    BY <1>7, <1>13, OfIsListed
  <2>2. \A k \in Of(final, t) : \E e \in Of(kept, t) : CutOf(k, e)
    BY <1>13 DEF Of, CutOf
  <2>3. \A k \in Of(final, t), f \in Of(kept, t) : k.age < f.age => f \in Of(final, t)
    BY <1>13 DEF Of
  <2>4. Newest(Of(final, t), Of(kept, t))
    BY <2>1, <2>2, <2>3 DEF Newest
  <2>5. Contents(Of(final, t)) \subseteq Contents(Of(kept, t))
    BY <1>7, <1>13, EvictedOf
  <2> QED BY <2>1, <2>4, <2>5, FewerBytes
<1>15. ASSUME NEW t \in Sessions, NEW end, end = IF t = s THEN nextOffset[s] + n ELSE nextOffset[t]
       PROVE  /\ InOrder(Of(final, t)) /\ Covered(Of(final, t), end)
              /\ Begin(Of(history, t), nextOffset[t]) <= Begin(Of(final, t), end)
  <2>1. end \in Nat
    BY <1>2, <1>15
  <2>2. Listed(Of(kept, t)) /\ Newest(Of(final, t), Of(kept, t))
    BY <1>7, <1>14, OfIsListed
  <2>3. /\ InOrder(Of(kept, t)) /\ Covered(Of(kept, t), end)
        /\ Begin(Of(history, t), nextOffset[t]) <= Begin(Of(kept, t), end)
    <3>1. CASE t = s
      <4>1. nextOffset[s] + n \in Nat
        BY <1>2
      <4>2. Newest(E1, P)
        BY <1>4 DEF Newest
      <4>3. /\ InOrder(E1) /\ Covered(E1, nextOffset[s] + n)
            /\ Begin(P, nextOffset[s] + n) <= Begin(E1, nextOffset[s] + n)
        BY <1>1, <4>1, <4>2, NewestKeeps
      <4>4. /\ Begin(P, nextOffset[s] + n) \in Nat /\ Begin(E1, nextOffset[s] + n) \in Nat
            /\ Begin(Of(history, s), nextOffset[s]) \in Nat
        <5>1. Listed(Of(history, s)) /\ Covered(Of(history, s), nextOffset[s]) /\ nextOffset[s] \in Nat
          BY <1>2, OfIsListed DEF HistoryOK
        <5> QED BY <1>1, <1>4, <4>1, <4>3, <5>1, BeginIs
      <4>5. Begin(Of(history, s), nextOffset[s]) <= Begin(E1, nextOffset[s] + n)
        BY <1>1, <4>3, <4>4
      <4>6. end = nextOffset[s] + n /\ Of(kept, t) = E1
        BY <1>8, <1>15, <3>1
      <4> QED BY <3>1, <4>3, <4>5, <4>6
    <3>2. CASE t # s
      <4>1. /\ InOrder(Of(history, t)) /\ Covered(Of(history, t), end) /\ Listed(Of(history, t))
            /\ end = nextOffset[t]
        BY <1>15, <3>2, OfIsListed DEF HistoryOK
      <4>2. Begin(Of(history, t), end) \in Nat
        BY <2>1, <4>1, BeginIs
      <4> QED BY <1>8, <3>2, <4>1, <4>2
    <3> QED BY <3>1, <3>2
  <2>4. /\ InOrder(Of(final, t)) /\ Covered(Of(final, t), end)
        /\ Begin(Of(kept, t), end) <= Begin(Of(final, t), end)
    BY <2>1, <2>2, <2>3, NewestKeeps
  <2>5. Listed(Of(final, t)) /\ Listed(Of(history, t)) /\ Covered(Of(history, t), nextOffset[t])
    BY <1>13, OfIsListed DEF HistoryOK
  <2>6. /\ Begin(Of(kept, t), end) \in Nat /\ Begin(Of(final, t), end) \in Nat
        /\ Begin(Of(history, t), nextOffset[t]) \in Nat
    BY <1>2, <2>1, <2>2, <2>3, <2>4, <2>5, BeginIs
  <2> QED BY <2>3, <2>4, <2>6
<1>16. ASSUME NEW e \in history, e \notin final
       PROVE  \/ excess > 0 /\ \A f \in final : e.age <= f.age
              \/ over > 0 /\ e.session = s /\ Of(final, s) = Of(kept, s)
  <2>1. CASE e \in kept
    BY <1>13, <1>16, <2>1
  <2>2. CASE e \notin kept
    <3>1. e \in P /\ e.session = s /\ e \notin E1
      BY <1>1, <1>5, <2>2 DEF Of
    <3>2. over > 0 /\ \A k \in E1 : e.age <= k.age
      BY <1>4, <3>1
    <3>3. CASE \A x \in Of(kept, s) : x \in final
      <4>1. ASSUME NEW f \in Of(final, s) PROVE f \in Of(kept, s)
        <5>1. f \in final /\ f.session = s
          BY DEF Of
        <5>2. PICK k \in kept : CutOf(f, k)
          BY <1>13, <5>1
        <5>3. k \in Of(kept, s) /\ f.age = k.age
          BY <5>1, <5>2 DEF Of, CutOf
        <5>4. k \in final
          BY <3>3, <5>3
        <5>5. f = k
          BY <1>13, <5>1, <5>3, <5>4 DEF Listed
        <5> QED BY <5>3, <5>5
      <4>2. ASSUME NEW x \in Of(kept, s) PROVE x \in Of(final, s)
        BY <3>3, <4>2 DEF Of
      <4>3. Of(final, s) = Of(kept, s)
        BY <4>1, <4>2
      <4> QED BY <3>1, <3>2, <4>3
    <3>4. CASE \E x \in Of(kept, s) : x \notin final
      <4>1. PICK x \in Of(kept, s) : x \notin final
        BY <3>4
      <4>2. x \in kept /\ x \in E1
        BY <1>8, <4>1 DEF Of
      <4>3. excess > 0 /\ \A f \in final : x.age <= f.age
        BY <1>13, <4>1, <4>2
      <4>4. e.age \in Nat /\ x.age \in Nat /\ \A f \in final : f.age \in Nat
        BY <1>1, <1>4, <1>13, <3>1, <4>2, EntriesAre
      <4>5. ASSUME NEW f \in final PROVE e.age <= f.age
        <5>1. e.age <= x.age /\ x.age <= f.age
          BY <3>2, <4>2, <4>3
        <5> QED BY <4>4, <5>1
      <4> QED BY <4>3, <4>5
    <3> QED BY <3>3, <3>4
  <2> QED BY <2>1, <2>2
<1> QED BY <1>3, <1>7, <1>9, <1>10, <1>13, <1>14, <1>15, <1>16
        DEF excess, over, kept, total, final

(* An append keeps the list, the counts and their limits; where a session's*)
(* history begins only moves on, and what is lost is lost for the reasons  *)
(* EvictsTheOldest gives.                                                  *)
HistoryTypes ==
  /\ nextOffset \in [Sessions -> 0..MaxSequence]
  /\ historyBytes \in [Sessions -> 0..MaxSessionHistory]
  /\ agentBytes \in 0..MaxAgentHistory

MovesOn == \A t \in Sessions : Start(history, t) <= Start(history, t)'

LostForReason ==
  \A e \in history :
    life'[e.session] = "running" /\ ~Survives(e) =>
      \/ historyBytes'[e.session] = MaxSessionHistory
      \/ /\ agentBytes' = MaxAgentHistory
         /\ \A f \in history' : f.age >= e.age

(* The account of one session: what it had and what was appended, without  *)
(* what was evicted of it.                                                 *)
LEMMA AppendIs ==
  ASSUME NEW s \in Sessions, NEW n, AppendHistory(s, n)
  PROVE  LET total == agentBytes + n - Over(s, n) IN
         /\ nextOffset' = [nextOffset EXCEPT ![s] = @ + n]
         /\ history' = Appended(s, n)
         /\ historyBytes' = [t \in Sessions |->
              historyBytes[t] + (IF t = s THEN n - Over(s, n) ELSE 0)
                - (Bytes(Of(Trimmed(s, n), t)) - Bytes(Of(Appended(s, n), t)))]
         /\ agentBytes' = total - Excess(total, MaxAgentHistory)
BY DEF AppendHistory, Over, Trimmed, Appended

LEMMA AppendKeeps ==
  ASSUME NEW s \in Sessions, NEW n \in Nat \ {0}, TypeOK, HistoryOK, Running(s),
         nextOffset[s] + n <= MaxSequence, AppendHistory(s, n), life' = life
  PROVE  /\ HistoryOK' /\ HistoryTypes' /\ MovesOn /\ LostForReason
         /\ nextOffset' = [nextOffset EXCEPT ![s] = @ + n]
<1> DEFINE over == Over(s, n)
           kept == Trimmed(s, n)
           total == agentBytes + n - over
           final == Appended(s, n)
           excess == Excess(total, MaxAgentHistory)
<1>1. /\ over \in Nat
      /\ over > 0 => historyBytes[s] + n - over = MaxSessionHistory
      /\ total \in Nat /\ Listed(kept) /\ Listed(final)
      /\ \A t \in Sessions :
           Bytes(Of(kept, t)) = historyBytes[t] + (IF t = s THEN n - over ELSE 0)
      /\ Bytes(final) = total - excess
      /\ \A t \in Sessions : /\ Newest(Of(final, t), Of(kept, t))
                             /\ Bytes(Of(final, t)) <= Bytes(Of(kept, t))
                             /\ Bytes(Of(kept, t)) <= MaxSessionHistory
  BY AppendedAre
<1>2. \A t \in Sessions :
        LET end == IF t = s THEN nextOffset[s] + n ELSE nextOffset[t]
        IN  /\ InOrder(Of(final, t)) /\ Covered(Of(final, t), end)
            /\ Begin(Of(history, t), nextOffset[t]) <= Begin(Of(final, t), end)
  BY AppendedAre
<1>3. \A e \in history :
        \/ e \in final
        \/ excess > 0 /\ \A f \in final : e.age <= f.age
        \/ over > 0 /\ e.session = s /\ Of(final, s) = Of(kept, s)
  BY AppendedAre
<1>4. /\ nextOffset' = [nextOffset EXCEPT ![s] = @ + n] /\ history' = final
      /\ agentBytes' = total - excess
      /\ historyBytes' = [t \in Sessions |->
              historyBytes[t] + (IF t = s THEN n - over ELSE 0)
                - (Bytes(Of(kept, t)) - Bytes(Of(final, t)))]
  BY AppendIs
<1>5. /\ excess \in Nat /\ total - excess \in 0..MaxAgentHistory
      /\ excess > 0 => total - excess = MaxAgentHistory
  <2> HIDE DEF total
  <2>1. total \in Nat /\ MaxAgentHistory \in Nat
    BY <1>1, LimitsAre
  <2>2. /\ Excess(total, MaxAgentHistory) \in Nat /\ Excess(total, MaxAgentHistory) <= total
        /\ total - Excess(total, MaxAgentHistory) <= MaxAgentHistory
        /\ Excess(total, MaxAgentHistory) > 0 =>
             total - Excess(total, MaxAgentHistory) = MaxAgentHistory
    BY <2>1, ExcessIs
  <2> QED BY <2>1, <2>2
<1> HIDE DEF over, kept, total, final, excess
<1>6. \A t \in Sessions :
        /\ Bytes(Of(final, t)) \in Nat /\ Bytes(Of(kept, t)) \in Nat
        /\ historyBytes[t] \in Nat
  BY <1>1, OfIsListed, ContentsAre DEF TypeOK
<1>7. \A t \in Sessions : /\ historyBytes'[t] = Bytes(Of(final, t))
                          /\ historyBytes'[t] \in 0..MaxSessionHistory
  <2> DEFINE account(t) == historyBytes[t] + (IF t = s THEN n - over ELSE 0)
                - (Bytes(Of(kept, t)) - Bytes(Of(final, t)))
  <2>0. historyBytes' = [t \in Sessions |-> account(t)]
    BY <1>4
  <2> TAKE t \in Sessions
  <2> HIDE DEF account
  <2>a. historyBytes'[t] = account(t)
    BY <2>0
  <2> DEFINE more == IF t = s THEN n - over ELSE 0
             k == Bytes(Of(kept, t))
             f == Bytes(Of(final, t))
  <2>1. historyBytes'[t] = historyBytes[t] + (more - (k - f))
    BY <2>a DEF account
  <2>2. k = historyBytes[t] + more
    BY <1>1
  <2>4. k \in Nat /\ f \in Nat /\ historyBytes[t] \in Nat /\ more \in Int
    BY <1>1, <1>6
  <2>5. historyBytes'[t] = f
    <3> HIDE DEF more, k, f
    <3> QED BY <2>1, <2>2, <2>4
  <2>6. Bytes(Of(final, t)) <= Bytes(Of(kept, t)) /\ Bytes(Of(kept, t)) <= MaxSessionHistory
    BY <1>1
  <2> QED BY <2>4, <2>5, <2>6, LimitsAre
<1>8. HistoryTypes'
  <2>1. nextOffset' \in [Sessions -> 0..MaxSequence]
    BY <1>4, LimitsAre DEF TypeOK
  <2>2. historyBytes' \in [Sessions -> 0..MaxSessionHistory]
    BY <1>4, <1>7
  <2> QED BY <1>4, <1>5, <2>1, <2>2 DEF HistoryTypes
<1>9. \A t \in Sessions : nextOffset'[t] = IF t = s THEN nextOffset[s] + n ELSE nextOffset[t]
  BY <1>4 DEF TypeOK
<1>10. \A t \in Sessions : Start(history, t)' = Begin(Of(final, t), nextOffset'[t])
  BY <1>4 DEF Start, Begin
<1>11. MovesOn
  BY <1>2, <1>9, <1>10, StartIs DEF MovesOn
<1>12. HistoryOK'
  <2>1. Listed(history)'
    BY <1>1, <1>4 DEF Listed, Entries
  <2>2. \A e \in history' : Running(e.session)'
    <3> TAKE e \in history'
    <3>1. e.session \in Sessions
      BY <1>1, <1>4, EntriesAre
    <3>2. e \in Of(final, e.session)
      BY <1>4 DEF Of
    <3>3. PICK f \in Of(kept, e.session) : CutOf(e, f)
      BY <1>1, <3>1, <3>2 DEF Newest
    <3> HIDE DEF Of
    <3>4. f \in kept /\ f.session = e.session
      BY <3>3 DEF Of
    <3>5. e.session = s \/ \E g \in history : g.session = e.session
      <4>1. CASE f \in Evicted(Of(PushBack(s, n), s), over)
        <5>1. Listed(Of(PushBack(s, n), s))
          BY PushedIs
        <5>2. \E g \in Of(PushBack(s, n), s) : CutOf(f, g)
          BY <1>1, <4>1, <5>1, EvictedIs
        <5> QED BY <5>2, <3>4 DEF CutOf, Of
      <4>2. CASE f \in PushBack(s, n) \ Of(PushBack(s, n), s)
        BY <4>2, <3>4, PushedIs
      <4> QED BY <3>4, <4>1, <4>2 DEF kept, Trimmed, over
    <3>6. Running(e.session)
      BY <3>5 DEF HistoryOK
    <3> QED BY <3>6 DEF Running
  <2>3. \A t \in Sessions : InOrder(Of(history, t))' /\ Covered(Of(history, t), nextOffset[t])'
    <3> TAKE t \in Sessions
    <3>1. Of(history, t)' = Of(final, t)
      BY <1>4 DEF Of
    <3>2. InOrder(Of(final, t)) /\ Covered(Of(final, t), nextOffset'[t])
      BY <1>2, <1>9
    <3> HIDE DEF Of
    <3> QED BY <3>1, <3>2 DEF InOrder, Covered
  <2>4. AccountsBalance'
    BY <1>1, <1>4, <1>5, <1>7, LimitsAre DEF AccountsBalance, Bytes, Contents, Of
  <2> QED BY <2>1, <2>2, <2>3, <2>4 DEF HistoryOK
<1>13. LostForReason
  <2> SUFFICES ASSUME NEW e \in history, ~Survives(e)
               PROVE  \/ historyBytes'[e.session] = MaxSessionHistory
                      \/ /\ agentBytes' = MaxAgentHistory
                         /\ \A f \in history' : f.age >= e.age
    BY DEF LostForReason
  <2>1. e \notin final
    BY <1>4 DEF Survives
  <2>2. CASE excess > 0 /\ \A f \in final : e.age <= f.age
    <3>1. agentBytes' = MaxAgentHistory
      BY <1>4, <1>5, <2>2
    <3>2. \A f \in history' : f.age \in Nat /\ e.age \in Nat
      BY <1>1, <1>4, EntriesAre DEF HistoryOK
    <3> QED BY <1>4, <2>2, <3>1, <3>2
  <2>3. CASE over > 0 /\ e.session = s /\ Of(final, s) = Of(kept, s)
    <3>1. Bytes(Of(kept, s)) = historyBytes[s] + (n - over)
      BY <1>1
    <3>2. historyBytes[s] + n - over = historyBytes[s] + (n - over)
      BY <1>1, <1>6
    <3> QED BY <1>1, <1>7, <2>3, <3>1, <3>2
  <2> QED BY <1>3, <2>1, <2>2, <2>3
<1> QED BY <1>4, <1>8, <1>11, <1>12, <1>13

(* Closing a session takes its entries and their bytes away, and no others.*)
LEMMA CloseKeeps ==
  ASSUME NEW s \in Sessions, TypeOK, HistoryOK, Close(s)
  PROVE  HistoryOK' /\ HistoryTypes' /\ MovesOn /\ LostForReason
<1> DEFINE gone == Of(history, s)
           left == history \ gone
<1>1. /\ Listed(history) /\ Listed(gone) /\ gone \in SUBSET history
      /\ \A e \in gone : e.session = s
  BY OfIsListed DEF HistoryOK
<1>2. Listed(left) /\ left \in SUBSET history
  BY <1>1, PartIsListed
<1>3. /\ history' = left /\ nextOffset' = nextOffset
      /\ life' = [life EXCEPT ![s] = "closed"]
      /\ historyBytes' = [historyBytes EXCEPT ![s] = @ - Bytes(gone)]
      /\ agentBytes' = agentBytes - Bytes(gone)
  BY DEF Close
<1>4. \A t \in Sessions : Of(left, t) = IF t = s THEN {} ELSE Of(history, t)
  BY DEF Of
<1>5. /\ agentBytes = Bytes(left) + Bytes(gone)
      /\ Bytes(left) \in Nat /\ Bytes(gone) \in Nat
  <2>1. history = left \cup gone /\ left \cap gone = {}
    BY <1>1
  <2> HIDE DEF left, gone
  <2>2. Bytes(left \cup gone) = Bytes(left) + Bytes(gone)
    BY <1>1, <2>1, BytesOfBoth
  <2> QED BY <1>1, <1>2, <2>1, <2>2, ContentsAre DEF HistoryOK, AccountsBalance
<1>6. historyBytes[s] = Bytes(gone)
  BY DEF HistoryOK, AccountsBalance
<1> HIDE DEF gone, left
<1>7. agentBytes' = Bytes(left) /\ agentBytes' \in 0..MaxAgentHistory
  BY <1>3, <1>5, LimitsAre DEF TypeOK
<1>8. \A t \in Sessions : /\ historyBytes'[t] = Bytes(Of(left, t))
                          /\ historyBytes'[t] \in 0..MaxSessionHistory
  <2> TAKE t \in Sessions
  <2>1. CASE t = s
    <3>1. historyBytes'[t] = Bytes(gone) - Bytes(gone)
      BY <1>3, <1>6, <2>1 DEF TypeOK
    <3>2. Bytes(Of(left, t)) = 0
      BY <1>4, <2>1, NoBytes
    <3> QED BY <1>5, <3>1, <3>2, LimitsAre
  <2>2. CASE t # s
    <3>1. historyBytes'[t] = historyBytes[t]
      BY <1>3, <2>2 DEF TypeOK
    <3> QED BY <1>4, <2>2, <3>1 DEF HistoryOK, AccountsBalance, TypeOK
  <2> QED BY <2>1, <2>2
<1>9. HistoryTypes'
  <2>1. historyBytes' \in [Sessions -> 0..MaxSessionHistory]
    BY <1>3, <1>8 DEF TypeOK
  <2> QED BY <1>3, <1>7, <2>1 DEF HistoryTypes, TypeOK
<1>10. MovesOn
  <2> SUFFICES ASSUME NEW t \in Sessions PROVE Start(history, t) <= Start(history, t)'
    BY DEF MovesOn
  <2>1. Start(history, t)' = Begin(Of(left, t), nextOffset[t])
    BY <1>3 DEF Start, Begin
  <2>2. /\ Start(history, t) = Begin(Of(history, t), nextOffset[t])
        /\ Start(history, t) \in Nat /\ Start(history, t) <= nextOffset[t]
    <3>1. Listed(Of(history, t)) /\ Covered(Of(history, t), nextOffset[t]) /\ nextOffset[t] \in Nat
      BY <1>1, OfIsListed DEF HistoryOK, TypeOK
    <3> QED BY <3>1, StartIs, BeginIs
  <2>3. CASE t = s
    <3>1. Begin(Of(left, t), nextOffset[t]) = nextOffset[t]
      BY <1>4, <2>3 DEF Begin
    <3> QED BY <2>1, <2>2, <3>1
  <2>4. CASE t # s
    BY <1>4, <2>1, <2>2, <2>4
  <2> QED BY <2>3, <2>4
<1>11. HistoryOK'
  <2>1. Listed(history)'
    BY <1>2, <1>3 DEF Listed, Entries
  <2>2. \A e \in history' : Running(e.session)'
    <3> TAKE e \in history'
    <3>1. e \in history /\ e \notin gone
      BY <1>3 DEF left
    <3>2. e.session # s
      BY <3>1 DEF gone, Of
    <3> QED BY <1>1, <1>3, <3>1, <3>2, EntriesAre DEF HistoryOK, Running, TypeOK
  <2>3. \A t \in Sessions : InOrder(Of(history, t))' /\ Covered(Of(history, t), nextOffset[t])'
    <3> TAKE t \in Sessions
    <3>1. Of(history, t)' = Of(left, t)
      BY <1>3 DEF Of
    <3>2. InOrder(Of(left, t)) /\ Covered(Of(left, t), nextOffset'[t])
      <4>1. CASE t = s
        BY <1>4, <4>1 DEF InOrder, Covered
      <4>2. CASE t # s
        BY <1>3, <1>4, <4>2 DEF HistoryOK
      <4> QED BY <4>1, <4>2
    <3> QED BY <3>1, <3>2 DEF InOrder, Covered
  <2>4. AccountsBalance'
    <3>1. Bytes(history)' = Bytes(left) /\ \A t \in Sessions : Bytes(Of(history, t))' = Bytes(Of(left, t))
      BY <1>3 DEF Bytes, Contents, Of
    <3>2. agentBytes' <= MaxAgentHistory
          /\ \A t \in Sessions : historyBytes'[t] <= MaxSessionHistory
      BY <1>7, <1>8, LimitsAre
    <3> QED BY <1>7, <1>8, <3>1, <3>2 DEF AccountsBalance
  <2> QED BY <2>1, <2>2, <2>3, <2>4 DEF HistoryOK
<1>12. LostForReason
  <2> SUFFICES ASSUME NEW e \in history, life'[e.session] = "running" PROVE Survives(e)
    BY DEF LostForReason
  <2>1. e.session # s
    BY <1>1, <1>3, EntriesAre DEF TypeOK
  <2>2. e \in history'
    BY <1>1, <1>3, <2>1 DEF left
  <2> QED BY <2>2 DEF Survives
<1> QED BY <1>9, <1>10, <1>11, <1>12

-----------------------------------------------------------------------------
(* The two machines.                                                       *)

FrameTypes == {"session_opened", "session_reopened", "history_begin", "history_chunk",
               "history_end", "terminal_output"}

(* The rows of the agent's frames.                                         *)
Moves(state, type, next) ==
  \/ state = "OPENING" /\ type = "session_opened" /\ next = "OPEN"
  \/ state = "REOPENING" /\ type = "session_reopened" /\ next = "REPLAYING"
  \/ state = "REPLAYING" /\ type \in {"history_begin", "history_chunk"} /\ next = "REPLAYING"
  \/ state = "REPLAYING" /\ type = "history_end" /\ next = "OPEN"
  \/ state = "OPEN" /\ type = "terminal_output" /\ next = "OPEN"

(* Both tables have them and no other row for such a frame.                *)
LEMMA RowsAre ==
  ASSUME NEW state, NEW type \in FrameTypes
  PROVE  /\ \A next : next \in NextSession("READY", state, "agent", type) <=>
                        Moves(state, type, next)
         /\ \A next : next \in Browser!Successors(Browser!sessionTransitions, state, "agent", type)
                        <=> Moves(state, type, next)
         /\ Browser!Successors(Browser!connectionTransitions, "READY", "agent", type) = {}
<1>1. /\ \A row \in SessionTable :
            row[2] = "agent" /\ row[3] = type => Moves(row[1], type, row[4])
      /\ \A next : Moves(state, type, next) => <<state, "agent", type, next>> \in SessionTable
  BY DEF SessionTable, Moves, FrameTypes
<1>2. Browser!sessionTransitions = SessionTable
  BY DEF Browser!sessionTransitions, SessionTable
<1>4. ASSUME NEW next
      PROVE  next \in {row[4] : row \in {r \in SessionTable : /\ r[1] = state
                                                            /\ r[2] = "agent"
                                                            /\ r[3] = type}}
             <=> Moves(state, type, next)
  <2>1. ASSUME Moves(state, type, next)
        PROVE  \E row \in SessionTable : row[1] = state /\ row[2] = "agent" /\ row[3] = type
                                        /\ row[4] = next
    <3> DEFINE row == <<state, "agent", type, next>>
    <3>1. row \in SessionTable
      BY <1>1, <2>1
    <3>2. row[1] = state /\ row[2] = "agent" /\ row[3] = type /\ row[4] = next
      OBVIOUS
    <3> QED BY <3>1, <3>2
  <2> QED BY <1>1, <2>1
<1>3. Browser!Successors(Browser!connectionTransitions, "READY", "agent", type) = {}
  BY DEF Browser!Successors, Browser!connectionTransitions, FrameTypes
<1> QED BY <1>2, <1>3, <1>4 DEF NextSession, Successors, Browser!Successors

(* A state has at most one row for a frame.                                *)
LEMMA OneMove ==
  ASSUME NEW state, NEW type, NEW a, NEW b, Moves(state, type, a), Moves(state, type, b)
  PROVE  a = b
BY DEF Moves

(* What Apply makes of a frame whose offsets it allows.                    *)
LEMMA AppliedIs ==
  ASSUME NEW m, NEW f, f.type \in FrameTypes, SemanticsAllow(m, f)
  PROVE  /\ \A next : Moves(m.Session, f.type, next) =>
              Accepted(m, f) /\ Applied(m, f) = [SemanticsApplied(m, f) EXCEPT !.Session = next]
         /\ (\A next : ~Moves(m.Session, f.type, next)) =>
              ~Accepted(m, f) /\ Applied(m, f) = SemanticsApplied(m, f)
<1>1. \A next : next \in NextStates(m, f) <=> Moves(m.Session, f.type, next)
  BY RowsAre DEF NextStates
<1>2. ASSUME NEW next, Moves(m.Session, f.type, next)
      PROVE  Accepted(m, f) /\ Applied(m, f) = [SemanticsApplied(m, f) EXCEPT !.Session = next]
  <2>1. NextStates(m, f) = {next}
    BY <1>1, <1>2, OneMove
  <2>2. (CHOOSE x \in NextStates(m, f) : TRUE) = next
    BY <2>1
  <2>3. Applied(m, f) = [SemanticsApplied(m, f) EXCEPT !.Session = CHOOSE x \in NextStates(m, f) : TRUE]
    BY <2>1 DEF Applied
  <2> QED BY <2>1, <2>2, <2>3 DEF Accepted
<1>3. (\A next : ~Moves(m.Session, f.type, next)) => NextStates(m, f) = {}
  BY <1>1
<1> QED BY <1>2, <1>3 DEF Accepted, Applied

(* The browser takes a frame that its row and its offsets allow.           *)
LEMMA TakesIs ==
  ASSUME NEW b \in Browsers, NEW f, f.type \in FrameTypes, f.session \in Sessions,
         b.states.connectionState = "READY", b.states.sessionId \in {NoSession, f.session},
         Browser!OffsetsAllowed(b.offsets, f),
         NEW next, Moves(b.states.sessionState, f.type, next)
  PROVE  Takes(b, f) =
           [states |-> [connectionState |-> "READY", sessionState |-> next,
                        sessionId |-> IF f.type \in {"session_opened", "session_reopened"}
                                      THEN f.session ELSE b.states.sessionId],
            offsets |-> Browser!OffsetsApplied(b.offsets, f),
            refused |-> b.refused]
<1> DEFINE m == b.states
           to == [m EXCEPT !.sessionState = next]
<1>1. m \in [connectionState : ConnectionStates, sessionState : SessionStates,
             sessionId : Sessions \cup {NoSession}]
  BY DEF Browsers
<1>2. Browser!findTransition(m, "agent", f.type) = {to}
  <2>1. f.type # "error"
    BY DEF FrameTypes
  <2>2. Browser!Successors(Browser!connectionTransitions, m.connectionState, "agent", f.type) = {}
    BY RowsAre
  <2>3. Browser!Successors(Browser!sessionTransitions, m.sessionState, "agent", f.type) = {next}
    BY RowsAre, OneMove
  <2>4. Browser!findTransition(m, "agent", f.type) =
          {[m EXCEPT !.sessionState = x] :
             x \in Browser!Successors(Browser!sessionTransitions, m.sessionState, "agent", f.type)}
    BY <2>1, <2>2 DEF Browser!findTransition
  <2> QED BY <2>3, <2>4
<1>3. Browser!Accepts(m, "agent", f.type, f.session)
  BY <1>2 DEF Browser!Accepts, Browser!SameSession
<1>4. (CHOOSE x \in Browser!findTransition(m, "agent", f.type) : TRUE) = to
  BY <1>2
<1>5. Browser!Advanced(m, "agent", f.type, f.session) = Browser!Named(to, f.type, f.session)
  BY <1>4 DEF Browser!Advanced
<1>6. Takes(b, f) = [b EXCEPT !.states = Browser!Named(to, f.type, f.session),
                             !.offsets = Browser!OffsetsApplied(@, f)]
  BY <1>3, <1>5 DEF Takes
<1>7. to = [connectionState |-> "READY", sessionState |-> next, sessionId |-> m.sessionId]
  BY <1>1
<1>8. Browser!Named(to, f.type, f.session) =
        [connectionState |-> "READY", sessionState |-> next,
         sessionId |-> IF f.type \in {"session_opened", "session_reopened"}
                       THEN f.session ELSE m.sessionId]
  BY <1>7 DEF Browser!Named
<1> DEFINE states == Browser!Named(to, f.type, f.session)
           offsets == Browser!OffsetsApplied(b.offsets, f)
<1>9. Takes(b, f) = [b EXCEPT !.states = states, !.offsets = offsets]
  BY <1>6
<1>10. b = [states |-> m, offsets |-> b.offsets, refused |-> b.refused]
  BY DEF Browsers
<1> HIDE DEF m, to, states, offsets
<1>11. Takes(b, f) = [states |-> states, offsets |-> offsets, refused |-> b.refused]
  BY <1>9, <1>10
<1> QED BY <1>8, <1>11 DEF states, offsets, m

-----------------------------------------------------------------------------
(* What every step does to the sessions: they go on and never back.        *)
Grows ==
  \A t \in Sessions :
    /\ nextOffset[t] \in Nat /\ nextOffset'[t] \in Nat /\ nextOffset[t] <= nextOffset'[t]
    /\ Start(history, t) \in Nat /\ Start(history, t)' \in Nat
    /\ Start(history, t) <= Start(history, t)'
    /\ life[t] # "none" => life'[t] # "none"

(* What a history begins with is an offset, now and after a step.          *)
LEMMA StartIsNat ==
  ASSUME TypeOK, HistoryOK, NEW t \in Sessions
  PROVE  Start(history, t) \in Nat /\ Start(history, t) <= nextOffset[t]
<1>1. Listed(Of(history, t)) /\ Covered(Of(history, t), nextOffset[t]) /\ nextOffset[t] \in Nat
  BY OfIsListed DEF HistoryOK, TypeOK
<1> QED BY <1>1, StartIs, BeginIs

LEMMA StartIsNatNext ==
  ASSUME HistoryTypes', HistoryOK', NEW t \in Sessions
  PROVE  Start(history, t)' \in Nat /\ Start(history, t)' <= nextOffset'[t]
<1> DEFINE kept == Of(history', t)
           end == nextOffset'[t]
<1>0. end \in Nat
  BY LimitsAre DEF HistoryTypes
<1>1. Listed(history') /\ Covered(kept, end)
  <2>1. Listed(history')
    BY DEF HistoryOK, Listed, Entries
  <2>2. Covered(kept, end)
    BY DEF HistoryOK, Covered, Of
  <2> QED BY <2>1, <2>2
<1>2. Listed(kept)
  BY <1>1, OfIsListed
<1>3. Start(history, t)' = Begin(kept, end)
  BY DEF Start, Begin
<1> HIDE DEF kept, end
<1>4. Begin(kept, end) \in Nat /\ Begin(kept, end) <= end
  BY <1>0, <1>1, <1>2, BeginIs
<1> QED BY <1>3, <1>4 DEF end

LEMMA GrowsIs ==
  ASSUME TypeOK, HistoryOK, HistoryTypes', HistoryOK', MovesOn,
         \A t \in Sessions : nextOffset[t] <= nextOffset'[t],
         \A t \in Sessions : life[t] # "none" => life'[t] # "none"
  PROVE  Grows
<1>1. \A t \in Sessions : nextOffset[t] \in Nat /\ nextOffset'[t] \in Nat
  BY LimitsAre DEF TypeOK, HistoryTypes
<1> QED BY <1>1, StartIsNat, StartIsNatNext DEF Grows, MovesOn

(* Most steps leave the history alone.                                     *)
LEMMA HistoryStays ==
  ASSUME TypeOK, HistoryOK, UNCHANGED historyVars,
         \A t \in Sessions : Running(t) => Running(t)'
  PROVE  HistoryOK' /\ HistoryTypes' /\ MovesOn
<1> USE DEF historyVars
<1>1. HistoryTypes'
  BY DEF HistoryTypes, TypeOK
<1>2. \A e \in history : e.session \in Sessions
  BY EntriesAre DEF HistoryOK
<1>3. Listed(history)' /\ \A e \in history' : Running(e.session)'
  BY <1>2 DEF HistoryOK, Listed, Entries
<1>4. AccountsBalance'
  BY DEF HistoryOK, AccountsBalance, Bytes, Contents, Of
<1>5. \A s \in Sessions : InOrder(Of(history, s))' /\ Covered(Of(history, s), nextOffset[s])'
  BY DEF HistoryOK, InOrder, Covered, Of
<1>6. \A t \in Sessions : Start(history, t)' = Start(history, t)
  BY DEF Start, Of
<1>7. MovesOn
  <2>1. \A t \in Sessions : Start(history, t) \in Nat
    BY StartIsNat
  <2> QED BY <1>6, <2>1 DEF MovesOn
<1> QED BY <1>1, <1>3, <1>4, <1>5, <1>7 DEF HistoryOK

(* A step that is not about a connection.                                  *)
Same(c) ==
  /\ machine'[c] = machine[c] /\ browser'[c] = browser[c] /\ received'[c] = received[c]
  /\ target'[c] = target[c] /\ (up'[c] => up[c])

GoesOn(c) ==
  \/ reader'[c] = reader[c]
  \/ /\ reader[c] \in {"replaying", "sending", "releasing"}
     /\ reader'[c] \in {"replaying", "sending", "releasing", "ended"}

LEMMA MachineStays ==
  ASSUME NEW c \in Connections, TypeOK, MachineOK(c), InStep(c), Same(c), GoesOn(c), Grows
  PROVE  MachineOK(c)' /\ InStep(c)'
<1>1. InStep(c)'
  BY DEF InStep, Same
<1>2. \A o \in received'[c] : target'[c] # NoSession /\ o < nextOffset'[target'[c]]
  <2> TAKE o \in received'[c]
  <2>1. o \in Nat /\ target[c] \in Sessions /\ o < nextOffset[target[c]]
    BY LimitsAre DEF MachineOK, Same, TypeOK
  <2>2. nextOffset[target[c]] <= nextOffset'[target[c]] /\ nextOffset[target[c]] \in Nat
        /\ nextOffset'[target[c]] \in Nat
    BY <2>1 DEF Grows
  <2>3. target[c] # NoSession
    BY <2>1, HistoryAssumption
  <2> QED BY <2>1, <2>2, <2>3 DEF Same
<1>3. MachineOK(c)'
  <2>1. reader'[c] # "idle" => target'[c] \in Sessions /\ life'[target'[c]] # "none"
                               /\ machine'[c].Session # "NONE"
    BY DEF MachineOK, Same, GoesOn, Grows
  <2> QED BY <1>2, <2>1 DEF MachineOK, Same, GoesOn
<1> QED BY <1>1, <1>3

LEMMA UpToStays ==
  ASSUME NEW c \in Connections, NEW at \in Nat, NEW s \in Sessions, target[c] = s, Same(c), Grows,
         UpTo(c, at)
  PROVE  UpTo(c, at)'
<1>1. Start(history, s) \in Nat /\ Start(history, s)' \in Nat
      /\ Start(history, s) <= Start(history, s)'
  BY DEF Grows
<1>2. Start(history, s)' .. at - 1 \subseteq Start(history, s) .. at - 1
  BY <1>1
<1>3. Start(history, s)' .. at - 1 \subseteq received'[c]
  BY <1>2 DEF UpTo, Same
<1>4. Start(history, target[c])' = Start(history, s)'
  BY DEF Same
<1> HIDE DEF Start
<1> QED BY <1>3, <1>4 DEF UpTo, Same

(* A connection that is still fed the same chunk, or still none.           *)
LEMMA FeedStays ==
  ASSUME NEW c \in Connections, NEW s \in Sessions, TypeOK, target[c] = s, Same(c), Grows,
         FeedOK(c, s), Feeds(c, s),
         Carries(c, s)' <=> Carries(c, s),
         Carries(c, s) => chunk'[s].from = chunk[s].from,
         ~Carries(c, s) => nextOffset'[s] = nextOffset[s]
  PROVE  FeedOK(c, s)'
<1>1. machine[c].nextOutput \in Nat
  BY LimitsAre DEF TypeOK
<1>2. UpTo(c, machine[c].nextOutput)
  BY DEF FeedOK
<1> DEFINE at == machine[c].nextOutput
<1>3. \A o \in Nat : UpTo(c, o) => UpTo(c, o)'
  BY UpToStays
<1>4. machine'[c] = machine[c]
  BY DEF Same
<1>5. UpTo(c, machine[c].nextOutput)'
  <2>1. PICK o \in Nat : o = machine[c].nextOutput
    BY <1>1
  <2>2. UpTo(c, o)'
    BY <1>2, <1>3, <2>1
  <2> HIDE DEF Start
  <2> QED BY <1>4, <2>1, <2>2 DEF UpTo
<1> QED BY <1>4, <1>5 DEF FeedOK

LEMMA ScriptStays ==
  ASSUME NEW frames, NEW s \in Sessions, NEW end, Script(frames, s, end), Grows
  PROVE  Script(frames, s, end)'
<1>1. /\ nextOffset[s] \in Nat /\ nextOffset'[s] \in Nat /\ nextOffset[s] <= nextOffset'[s]
      /\ Start(history, s) \in Nat /\ Start(history, s)' \in Nat
      /\ Start(history, s) <= Start(history, s)'
  BY DEF Grows
<1>2. ASSUME NEW f, ReplayFrame(f, s, end)
      PROVE  ReplayFrame(f, s, end)'
  <2>1. f.to \in 0..nextOffset'[s]
    BY <1>1, <1>2 DEF ReplayFrame
  <2>2. f.type = "history_begin" => f.from <= Start(history, s)'
    <3>1. f.from \in Nat
      BY <1>2, LimitsAre DEF ReplayFrame
    <3> QED BY <1>1, <1>2, <3>1 DEF ReplayFrame
  <2> HIDE DEF Start
  <2> QED BY <1>2, <2>1, <2>2 DEF ReplayFrame
<1> QED BY <1>2 DEF Script, Follows

LEMMA ReplayStays ==
  ASSUME NEW c \in Connections, NEW s \in Sessions, target[c] = s, TypeOK, Same(c), Grows,
         ReplayOK(c), queue'[c] = queue[c], cursor'[c] = cursor[c]
  PROVE  ReplayOK(c)'
<1>1. \A o \in Nat : UpTo(c, o) => UpTo(c, o)'
  BY UpToStays
<1>2. machine[c].historyCursor \in Nat /\ cursor[c] \in Nat
  BY LimitsAre DEF TypeOK
<1>3. Script(queue[c], target[c], cursor[c])'
  <2>1. PICK frames, end : frames = queue[c] /\ end = cursor[c]
    OBVIOUS
  <2>2. Script(frames, s, end)'
    BY <2>1, ScriptStays DEF ReplayOK
  <2> QED BY <2>1, <2>2 DEF Script, ReplayFrame, Follows, Same
<1>4. UpTo(c, cursor[c]) => UpTo(c, cursor[c])'
  <2>1. PICK o \in Nat : o = cursor[c]
    BY <1>2
  <2> QED BY <1>1, <2>1 DEF UpTo
<1>5. UpTo(c, machine[c].historyCursor) => UpTo(c, machine[c].historyCursor)'
  <2>1. PICK o \in Nat : o = machine[c].historyCursor
    BY <1>2
  <2> QED BY <1>1, <2>1 DEF UpTo, Same
<1>6. cursor'[c] <= nextOffset'[s]
  BY <1>2 DEF ReplayOK, Grows
<1> QED BY <1>3, <1>4, <1>5, <1>6 DEF ReplayOK, Same

(* What is known of one connection.                                        *)
ConnectionOK(c) ==
  /\ MachineOK(c)
  /\ InStep(c)
  /\ reader[c] = "sending" => queue[c] # <<>>
  /\ reader[c] \in {"replaying", "sending"} => ReplayOK(c)

LEMMA IInvIs ==
  IInv <=> /\ TypeOK
           /\ browser \in [Connections -> Browsers]
           /\ queue \in [Connections -> Seq(Frames)]
           /\ HistoryOK
           /\ \A s \in Sessions : SessionOK(s)
           /\ \A c \in Connections : ConnectionOK(c)
           /\ \A c \in Connections, s \in Sessions : FeedOK(c, s)
BY DEF IInv, ConnectionOK

LEMMA IInvIsNext ==
  ASSUME TypeOK', browser' \in [Connections -> Browsers], queue' \in [Connections -> Seq(Frames)],
         HistoryOK', \A s \in Sessions : SessionOK(s)', \A c \in Connections : ConnectionOK(c)',
         \A c \in Connections, s \in Sessions : FeedOK(c, s)'
  PROVE  IInv'
BY DEF IInv, ConnectionOK

(* A connection that does nothing, or whose replay goes on.                *)
LEMMA ConnectionStays ==
  ASSUME NEW c \in Connections, IInv, Grows, Same(c), GoesOn(c),
         queue'[c] = queue[c], cursor'[c] = cursor[c],
         reader'[c] \in {"replaying", "sending"} => reader[c] \in {"replaying", "sending"},
         reader'[c] = "sending" => queue[c] # <<>>
  PROVE  ConnectionOK(c)'
<1>1. MachineOK(c)' /\ InStep(c)'
  BY IInvIs, MachineStays DEF ConnectionOK
<1>2. ASSUME reader'[c] \in {"replaying", "sending"}
      PROVE  ReplayOK(c)'
  <2>1. target[c] \in Sessions /\ ReplayOK(c)
    BY <1>2, IInvIs DEF ConnectionOK, MachineOK
  <2> QED BY <2>1, IInvIs, ReplayStays
<1> QED BY <1>1, <1>2 DEF ConnectionOK

(* Who is fed has the session, and is not being replayed.                  *)
LEMMA FeedsServe ==
  ASSUME NEW c \in Connections, NEW s \in Sessions, SessionOK(s), Feeds(c, s)
  PROVE  Serves(c, s)
BY HistoryAssumption DEF SessionOK, Feeds, Watches

LEMMA FeedStill ==
  ASSUME NEW c \in Connections, NEW s \in Sessions, IInv, Grows, Same(c),
         Feeds(c, s)' => /\ Feeds(c, s)
                         /\ Carries(c, s)' <=> Carries(c, s)
                         /\ Carries(c, s) => chunk'[s].from = chunk[s].from
                         /\ ~Carries(c, s) => nextOffset'[s] = nextOffset[s]
  PROVE  FeedOK(c, s)'
<1>1. CASE Feeds(c, s)'
  <2>1. /\ TypeOK /\ FeedOK(c, s) /\ Feeds(c, s) /\ SessionOK(s)
    BY <1>1, IInvIs
  <2>2. target[c] = s
    BY <2>1, FeedsServe DEF Serves
  <2> QED BY <1>1, <2>1, <2>2, FeedStays
<1>2. CASE ~Feeds(c, s)'
  BY <1>2 DEF FeedOK
<1> QED BY <1>1, <1>2

(* A session nobody touches.                                               *)
Steady(s) ==
  /\ life'[s] = life[s] /\ owner'[s] = owner[s] /\ replaying'[s] = replaying[s]
  /\ copier'[s] = copier[s] /\ sendTo'[s] = sendTo[s] /\ chunk'[s] = chunk[s]
  /\ nextOffset'[s] = nextOffset[s]

ServesStill(s) == \A c \in Connections : Serves(c, s) => Serves(c, s)'

ReplaysStill(s) ==
  \A c \in Connections :
    /\ owner[s] = c /\ replaying[s] /\ target[c] = s
    /\ reader[c] \in {"replaying", "sending", "releasing"}
    => target'[c] = s /\ reader'[c] \in {"replaying", "sending", "releasing"}

LEMMA SessionStays ==
  ASSUME NEW s \in Sessions, TypeOK, SessionOK(s), Steady(s), ServesStill(s), ReplaysStill(s)
  PROVE  SessionOK(s)'
<1>1. owner[s] # NoConnection => owner[s] \in Connections
  BY DEF TypeOK
<1> QED BY <1>1 DEF SessionOK, Steady, Running, ServesStill, ReplaysStill

(* Connections that do nothing serve as they did.                          *)
LEMMA ServesOn ==
  ASSUME NEW s \in Sessions, \A c \in Connections : Same(c), reader' = reader
  PROVE  ServesStill(s) /\ ReplaysStill(s)
BY DEF ServesStill, ReplaysStill, Serves, Same

(* A step of the registry or of a copier, which no connection takes part in*)
LEMMA SilentStep ==
  ASSUME IInv, TypeOK', HistoryOK', HistoryTypes', MovesOn,
         \A t \in Sessions : nextOffset[t] <= nextOffset'[t] /\ (life[t] # "none" => life'[t] # "none"),
         UNCHANGED <<machines, received, target, queue, cursor>>,
         \A c \in Connections : /\ up'[c] => up[c]
                                /\ GoesOn(c)
                                /\ reader'[c] \in {"replaying", "sending"} =>
                                     reader[c] \in {"replaying", "sending"}
                                /\ reader'[c] = "sending" => queue[c] # <<>>,
         \A s \in Sessions : SessionOK(s)',
         \A c \in Connections, s \in Sessions : Grows /\ Same(c) => FeedOK(c, s)'
  PROVE  IInv'
<1>1. Grows
  BY GrowsIs, IInvIs
<1>2. \A c \in Connections : Same(c)
  BY DEF Same, machines
<1>3. \A c \in Connections : ConnectionOK(c)'
  <2> TAKE c \in Connections
  <2>1. queue'[c] = queue[c] /\ cursor'[c] = cursor[c]
    OBVIOUS
  <2> QED BY <1>1, <1>2, <2>1, ConnectionStays
<1>4. browser' \in [Connections -> Browsers] /\ queue' \in [Connections -> Seq(Frames)]
  BY IInvIs DEF machines
<1>5. \A c \in Connections, s \in Sessions : FeedOK(c, s)'
  BY <1>1, <1>2
<1> QED BY <1>3, <1>4, <1>5, IInvIsNext

(* The entries have their types as long as they are a list.                *)
LEMMA EntryTypes ==
  ASSUME HistoryOK'
  PROVE  \A e \in history' : /\ e.session \in Sessions
                             /\ [from |-> e.from, to |-> e.to] \in Chunks
                             /\ e.age \in Nat \ {0}
<1>1. history' \subseteq Entries
  BY DEF HistoryOK, Listed, Entries
<1> QED BY <1>1 DEF Entries, Chunks

LEMMA CopyReadsKeeps ==
  ASSUME IInv, NEW s \in Sessions, CopyReads(s)
  PROVE  IInv' /\ LostForReason
<1> USE DEF registryVars, copierVars, replayVars
<1>1. TypeOK /\ HistoryOK /\ Running(s) /\ copier[s] = "reading" /\ SessionOK(s)
  BY IInvIs DEF CopyReads
<1>2. PICK n \in 1..MaxTerminalOutput :
        /\ nextOffset[s] <= MaxSequence - n
        /\ AppendHistory(s, n)
        /\ IF Live(s)
           THEN /\ copier' = [copier EXCEPT ![s] = "sending"]
                /\ chunk' = [chunk EXCEPT ![s] = [from |-> nextOffset[s], to |-> nextOffset[s] + n]]
                /\ sendTo' = [sendTo EXCEPT ![s] = owner[s]]
           ELSE UNCHANGED copierVars
  BY DEF CopyReads
<1>3. /\ UNCHANGED <<life, owner, replaying, up, reader>>
      /\ UNCHANGED <<machines, received, target, queue, cursor>>
  BY DEF CopyReads
<1>4. /\ n \in Nat \ {0} /\ nextOffset[s] \in Nat /\ nextOffset[s] + n <= MaxSequence
      /\ nextOffset[s] + n \in 0..MaxSequence /\ nextOffset[s] \in 0..MaxSequence
  BY <1>1, <1>2, LimitsAre DEF TypeOK
<1>5. /\ HistoryOK' /\ HistoryTypes' /\ MovesOn /\ LostForReason
      /\ nextOffset' = [nextOffset EXCEPT ![s] = @ + n]
  BY <1>1, <1>2, <1>3, <1>4, AppendKeeps
<1>6. \A t \in Sessions : nextOffset'[t] = IF t = s THEN nextOffset[s] + n ELSE nextOffset[t]
  BY <1>1, <1>5 DEF TypeOK
<1>7. TypeOK'
  <2>1. chunk' \in [Sessions -> Chunks] /\ copier' \in [Sessions -> {"none", "reading", "sending", "detaching", "ended"}]
        /\ sendTo' \in [Sessions -> Connections \cup {NoConnection}]
    <3>1. [from |-> nextOffset[s], to |-> nextOffset[s] + n] \in Chunks
      BY <1>4 DEF Chunks
    <3>2. owner[s] \in Connections \cup {NoConnection}
      BY <1>1 DEF TypeOK
    <3>3. CASE Live(s)
      <4> DEFINE piece == [from |-> nextOffset[s], to |-> nextOffset[s] + n]
      <4>1. /\ copier' = [copier EXCEPT ![s] = "sending"] /\ chunk' = [chunk EXCEPT ![s] = piece]
            /\ sendTo' = [sendTo EXCEPT ![s] = owner[s]]
        BY <1>2, <3>3
      <4>2. piece \in Chunks
        BY <3>1
      <4> HIDE DEF piece
      <4>3. chunk' \in [Sessions -> Chunks]
        BY <1>1, <4>1, <4>2 DEF TypeOK
      <4> QED BY <1>1, <3>2, <4>1, <4>3 DEF TypeOK
    <3>4. CASE ~Live(s)
      BY <1>1, <1>2, <3>4 DEF TypeOK
    <3> QED BY <3>3, <3>4
  <2> QED BY <1>1, <1>3, <1>5, <2>1, EntryTypes DEF TypeOK, HistoryTypes, machines
<1>8. \A c \in Connections : Same(c)
  BY <1>3 DEF Same, machines
<1>9. \A t \in Sessions : SessionOK(t)'
  <2> TAKE t \in Sessions
  <2>1. ServesStill(t) /\ ReplaysStill(t)
    BY <1>3, <1>8, ServesOn
  <2>2. CASE t # s
    <3>1. Steady(t)
      BY <1>1, <1>2, <1>3, <1>6, <2>2 DEF Steady, TypeOK
    <3> QED BY <1>1, <2>1, <3>1, SessionStays, IInvIs
  <2>3. CASE t = s
    <3>1. owner[s] # NoConnection => owner[s] \in Connections
      BY <1>1 DEF TypeOK
    <3>2. CASE Live(s)
      <4>1. /\ copier'[s] = "sending" /\ sendTo'[s] = owner[s]
            /\ chunk'[s].from = nextOffset[s] /\ chunk'[s].to = nextOffset[s] + n
        BY <1>1, <1>2, <3>2 DEF TypeOK
      <4>2. Serves(owner[s], s)' /\ owner[s] \in Connections
        <5>1. PICK c \in Connections : c = owner[s]
          BY <3>1, <3>2 DEF Live
        <5>2. Serves(c, s)'
          BY <1>1, <2>1, <2>3, <3>2, <5>1 DEF SessionOK, Live, ServesStill
        <5> QED BY <1>3, <5>1, <5>2 DEF Serves
      <4>3. chunk'[s].from < chunk'[s].to /\ chunk'[s].to = nextOffset'[s]
        BY <1>4, <1>6, <4>1
      <4> QED BY <1>1, <1>3, <2>3, <3>2, <4>1, <4>2, <4>3 DEF SessionOK, Running, Live, Serves
    <3>3. CASE ~Live(s)
      BY <1>1, <1>2, <1>3, <2>1, <2>3, <3>1, <3>3
         DEF SessionOK, Running, Live, ServesStill, ReplaysStill
    <3> QED BY <3>2, <3>3
  <2> QED BY <2>2, <2>3
<1>10. \A c \in Connections, t \in Sessions : Grows /\ Same(c) => FeedOK(c, t)'
  <2> SUFFICES ASSUME NEW c \in Connections, NEW t \in Sessions, Grows, Same(c)
               PROVE  FeedOK(c, t)'
    OBVIOUS
  <2>1. CASE t # s
    <3>1. copier'[t] = copier[t] /\ sendTo'[t] = sendTo[t] /\ chunk'[t] = chunk[t]
          /\ nextOffset'[t] = nextOffset[t]
      BY <1>1, <1>2, <1>6, <2>1 DEF TypeOK
    <3> QED BY <1>3, <3>1, FeedStill DEF Feeds, Carries, Watches
  <2>2. CASE t = s
    <3>1. SUFFICES ASSUME Feeds(c, s)' PROVE FeedOK(c, s)'
      BY <2>2 DEF FeedOK
    <3>2. Watches(c, s) /\ Live(s)
      BY <1>1, <1>2, <1>3, <3>1, HistoryAssumption DEF Feeds, Watches, Live, Carries, TypeOK
    <3>3. Feeds(c, s) /\ ~Carries(c, s)
      BY <1>1, <3>2 DEF Feeds, Carries
    <3>4. target[c] = s
      BY <1>1, <3>3, FeedsServe DEF Serves
    <3>5. /\ ~machine[c].historyBegun /\ machine[c].nextOutput = nextOffset[s]
          /\ UpTo(c, nextOffset[s])
      BY <3>3, IInvIs DEF FeedOK
    <3>6. PICK o \in Nat : o = nextOffset[s]
      BY <1>4
    <3>7. UpTo(c, o)'
      BY <3>4, <3>5, <3>6, UpToStays
    <3>8. chunk'[s].from = o /\ machine'[c] = machine[c]
      BY <1>1, <1>2, <3>2, <3>6 DEF TypeOK, Same
    <3>9. Carries(c, s)'
      BY <1>1, <1>2, <3>2 DEF Carries, Watches, TypeOK
    <3>10. UpTo(c, machine[c].nextOutput)'
      BY <3>5, <3>6, <3>7, <3>8 DEF UpTo
    <3> QED BY <3>5, <3>6, <3>8, <3>9, <3>10 DEF FeedOK
  <2> QED BY <2>1, <2>2
<1>11. \A t \in Sessions : nextOffset[t] <= nextOffset'[t] /\ (life[t] # "none" => life'[t] # "none")
  <2> TAKE t \in Sessions
  <2>1. nextOffset[t] \in Nat
    BY <1>1, LimitsAre DEF TypeOK
  <2> QED BY <1>3, <1>4, <1>6, <2>1
<1>12. \A c \in Connections : /\ up'[c] => up[c]
                              /\ GoesOn(c)
                              /\ reader'[c] \in {"replaying", "sending"} =>
                                   reader[c] \in {"replaying", "sending"}
                              /\ reader'[c] = "sending" => queue[c] # <<>>
  BY <1>3, IInvIs DEF GoesOn, ConnectionOK
<1> HIDE DEF registryVars, copierVars, replayVars
<1> QED BY <1>3, <1>5, <1>7, <1>9, <1>10, <1>11, <1>12, SilentStep

(* A session is closed, whoever closes it.                                 *)
LEMMA ClosingKeeps ==
  ASSUME IInv, NEW s \in Sessions, Close(s), Running(s),
         UNCHANGED <<chunk, sendTo, up, machines, replayVars, received>>,
         copier' = copier \/ (copier[s] = "reading" /\ copier' = [copier EXCEPT ![s] = "ended"])
  PROVE  IInv' /\ LostForReason
<1> USE DEF replayVars
<1>1. TypeOK /\ HistoryOK /\ SessionOK(s)
  BY IInvIs
<1>2. HistoryOK' /\ HistoryTypes' /\ MovesOn /\ LostForReason
  BY <1>1, CloseKeeps
<1>3. /\ life' = [life EXCEPT ![s] = "closed"] /\ owner' = [owner EXCEPT ![s] = NoConnection]
      /\ replaying' = replaying /\ nextOffset' = nextOffset
  BY DEF Close
<1>4. TypeOK'
  <2>1. /\ life' \in [Sessions -> {"none", "running", "closed"}]
        /\ owner' \in [Sessions -> Connections \cup {NoConnection}]
        /\ copier' \in [Sessions -> {"none", "reading", "sending", "detaching", "ended"}]
    BY <1>1, <1>3 DEF TypeOK
  <2> QED BY <1>1, <1>2, <1>3, <2>1, EntryTypes DEF TypeOK, HistoryTypes, machines
<1>5. (\A c \in Connections : Same(c)) /\ reader' = reader
  BY DEF Same, machines
<1>6. \A t \in Sessions : SessionOK(t)'
  <2> TAKE t \in Sessions
  <2>1. ServesStill(t) /\ ReplaysStill(t)
    BY <1>5, ServesOn
  <2>2. CASE t # s
    <3>1. Steady(t)
      BY <1>1, <1>3, <2>2 DEF Steady, TypeOK
    <3> QED BY <1>1, <2>1, <3>1, SessionStays, IInvIs
  <2>3. CASE t = s
    <3>1. life'[s] = "closed" /\ owner'[s] = NoConnection /\ copier'[s] \in {copier[s], "ended"}
      BY <1>1, <1>3 DEF TypeOK
    <3> QED BY <1>1, <1>3, <2>1, <2>3, <3>1 DEF SessionOK, ServesStill
  <2> QED BY <2>2, <2>3
<1>7. \A c \in Connections, t \in Sessions : Grows /\ Same(c) => FeedOK(c, t)'
  <2> SUFFICES ASSUME NEW c \in Connections, NEW t \in Sessions, Grows, Same(c)
               PROVE  FeedOK(c, t)'
    OBVIOUS
  <2>1. Carries(c, t)' => Carries(c, t)
    BY <1>1 DEF Carries, TypeOK
  <2>2. Watches(c, t)' => Watches(c, t) /\ t # s
    BY <1>1, <1>3, HistoryAssumption DEF Watches, TypeOK
  <2>3. t # s => copier'[t] = copier[t]
    BY <1>1 DEF TypeOK
  <2>4. copier'[t] = "sending" => copier[t] = "sending"
    BY <1>1 DEF TypeOK
  <2> QED BY <1>3, <2>1, <2>2, <2>3, <2>4, FeedStill DEF Feeds, Carries
<1>8. \A t \in Sessions : nextOffset[t] <= nextOffset'[t] /\ (life[t] # "none" => life'[t] # "none")
  <2> TAKE t \in Sessions
  <2>1. nextOffset[t] \in Nat
    BY <1>1, LimitsAre DEF TypeOK
  <2> QED BY <1>1, <1>3, <2>1 DEF TypeOK
<1>9. \A c \in Connections : /\ up'[c] => up[c]
                             /\ GoesOn(c)
                             /\ reader'[c] \in {"replaying", "sending"} =>
                                  reader[c] \in {"replaying", "sending"}
                             /\ reader'[c] = "sending" => queue[c] # <<>>
  BY IInvIs DEF GoesOn, ConnectionOK
<1> HIDE DEF replayVars
<1>10. UNCHANGED <<machines, received, target, queue, cursor>>
  BY DEF replayVars
<1>11. IInv'
  BY <1>2, <1>4, <1>6, <1>7, <1>8, <1>9, <1>10, SilentStep
<1> QED BY <1>2, <1>11

LEMMA CopyExhaustsKeeps ==
  ASSUME IInv, NEW s \in Sessions, CopyExhausts(s)
  PROVE  IInv' /\ LostForReason
BY ClosingKeeps DEF CopyExhausts

LEMMA CloseManagedKeeps ==
  ASSUME IInv, NEW s \in Sessions, CloseManaged(s)
  PROVE  IInv' /\ LostForReason
<1>1. Close(s) /\ Running(s) /\ copier' = copier
      /\ UNCHANGED <<chunk, sendTo, up, machines, replayVars, received>>
  BY DEF CloseManaged, copierVars
<1> QED BY <1>1, ClosingKeeps

(* A step that leaves the history alone loses nothing of it.               *)
LEMMA NothingLost ==
  ASSUME history' = history
  PROVE  LostForReason
BY DEF LostForReason, Survives

(* Sessions may only lose their owners.                                    *)
Loosens ==
  /\ owner' \in [Sessions -> Connections \cup {NoConnection}]
  /\ replaying' \in [Sessions -> BOOLEAN]
  /\ \A s \in Sessions :
       \/ owner'[s] = owner[s] /\ replaying'[s] = replaying[s]
       \/ owner'[s] = NoConnection /\ (replaying'[s] => replaying[s])

LEMMA LetGoLoosens ==
  ASSUME NEW c, NEW s \in Sessions, TypeOK, LetGo(c, s)
  PROVE  Loosens /\ (owner[s] = c => owner'[s] = NoConnection) /\ life' = life
                 /\ owner'[s] \in {owner[s], NoConnection}
BY DEF LetGo, Loosens, TypeOK

(* Readers go on, but for a replay that its connection has let go of.      *)
ReadersGoOn ==
  /\ reader' \in [Connections ->
       {"idle", "opening", "serving", "replaying", "sending", "releasing", "ended"}]
  /\ \A c \in Connections :
       /\ GoesOn(c)
       /\ reader'[c] \in {"replaying", "sending"} => reader[c] \in {"replaying", "sending"}
       /\ reader'[c] = "sending" => queue[c] # <<>>
       /\ \A s \in Sessions :
            owner'[s] = c /\ replaying[s] /\ target[c] = s
            /\ reader[c] \in {"replaying", "sending", "releasing"}
            => reader'[c] \in {"replaying", "sending", "releasing"}

CopiersGoOn ==
  /\ copier' \in [Sessions -> {"none", "reading", "sending", "detaching", "ended"}]
  /\ \A s \in Sessions :
       \/ copier'[s] = copier[s]
       \/ copier[s] = "reading" /\ copier'[s] = "ended"
       \/ copier[s] = "detaching" /\ copier'[s] = "reading" /\ owner'[s] # sendTo[s]

(* A step that neither sends nor writes.                                   *)
LEMMA QuietStep ==
  ASSUME IInv, Loosens, ReadersGoOn, CopiersGoOn,
         up' \in [Connections -> BOOLEAN], \A c \in Connections : up'[c] => up[c],
         UNCHANGED <<historyVars, life, chunk, sendTo>>,
         UNCHANGED <<machines, received, target, queue, cursor>>
  PROVE  IInv' /\ LostForReason
<1>1. TypeOK /\ HistoryOK
  BY IInvIs
<1>2. UNCHANGED historyVars /\ UNCHANGED <<life, chunk, sendTo>>
      /\ UNCHANGED <<machine, browser, received, target, queue, cursor>>
  BY DEF machines
<1>3. HistoryOK' /\ HistoryTypes' /\ MovesOn
  BY <1>1, <1>2, HistoryStays DEF Running
<1>4. UNCHANGED <<nextOffset, history, historyBytes, agentBytes>>
  BY <1>2 DEF historyVars
<1>5. TypeOK'
  BY <1>1, <1>2, <1>4 DEF TypeOK, Loosens, ReadersGoOn, CopiersGoOn
<1>6. \A c \in Connections : Same(c)
  BY <1>2 DEF Same
<1>7. \A s \in Sessions : SessionOK(s)'
  <2> TAKE s \in Sessions
  <2>1. SessionOK(s)
    BY IInvIs
  <2>2. \A c \in Connections : Serves(c, s) => Serves(c, s)'
    BY <1>6 DEF Serves, Same, ReadersGoOn, GoesOn
  <2>3. life'[s] = life[s] /\ nextOffset'[s] = nextOffset[s] /\ chunk'[s] = chunk[s]
        /\ sendTo'[s] = sendTo[s]
    BY <1>2, <1>4
  <2>4. life[s] = "none" => copier'[s] = "none" /\ ~replaying'[s]
    BY <2>1 DEF SessionOK, CopiersGoOn, Loosens
  <2>5. /\ copier'[s] \in {"sending", "detaching"} => copier[s] \in {"sending", "detaching"}
        /\ copier'[s] = "sending" => copier[s] = "sending"
    BY DEF CopiersGoOn
  <2>6. owner'[s] # NoConnection =>
          /\ owner[s] \in Connections /\ owner'[s] = owner[s] /\ replaying'[s] = replaying[s]
          /\ replaying[s] => /\ target'[owner[s]] = s
                             /\ reader'[owner[s]] \in {"replaying", "sending", "releasing"}
    <3>1. SUFFICES ASSUME owner'[s] # NoConnection
                   PROVE  /\ owner[s] \in Connections /\ owner'[s] = owner[s]
                          /\ replaying'[s] = replaying[s]
                          /\ replaying[s] => /\ target'[owner[s]] = s
                                 /\ reader'[owner[s]] \in {"replaying", "sending", "releasing"}
      OBVIOUS
    <3>2. PICK c \in Connections : c = owner[s] /\ owner'[s] = c /\ replaying'[s] = replaying[s]
      BY <1>1, <3>1 DEF Loosens, TypeOK
    <3>3. replaying[s] => target[c] = s /\ reader[c] \in {"replaying", "sending", "releasing"}
      BY <2>1, <3>1, <3>2 DEF SessionOK
    <3> QED BY <1>2, <3>2, <3>3 DEF ReadersGoOn
  <2>7. owner'[s] # NoConnection => Running(s)' /\ (~replaying'[s] => Serves(owner[s], s)')
    <3>1. SUFFICES ASSUME owner'[s] # NoConnection
                   PROVE  Running(s)' /\ (~replaying'[s] => Serves(owner[s], s)')
      OBVIOUS
    <3>2. PICK c \in Connections : c = owner[s]
      BY <2>6, <3>1
    <3>3. Running(s) /\ (~replaying[s] => Serves(c, s)')
      BY <2>1, <2>2, <2>6, <3>1, <3>2 DEF SessionOK
    <3> QED BY <2>3, <2>6, <3>1, <3>2, <3>3 DEF Running, Serves
  <2>8. copier'[s] \in {"sending", "detaching"} =>
          sendTo[s] \in Connections /\ Serves(sendTo[s], s)'
    BY <2>1, <2>2, <2>5, <2>3 DEF SessionOK, Serves
  <2> QED BY <2>1, <2>3, <2>4, <2>5, <2>6, <2>7, <2>8 DEF SessionOK, Serves, Running
<1>8. \A c \in Connections, s \in Sessions : Grows /\ Same(c) => FeedOK(c, s)'
  <2> SUFFICES ASSUME NEW c \in Connections, NEW s \in Sessions, Grows, Same(c)
               PROVE  FeedOK(c, s)'
    OBVIOUS
  <2>1. Watches(c, s)' => Watches(c, s)
    BY HistoryAssumption DEF Watches, Loosens
  <2>2. Feeds(c, s)' => Feeds(c, s) /\ (Carries(c, s)' <=> Carries(c, s))
    <3>1. sendTo'[s] = sendTo[s]
      BY <1>2
    <3>2. CASE copier'[s] = copier[s]
      BY <2>1, <3>1, <3>2 DEF Feeds, Carries
    <3>3. CASE copier[s] = "reading" /\ copier'[s] = "ended"
      BY <2>1, <3>1, <3>3 DEF Feeds, Carries
    <3>4. CASE copier[s] = "detaching" /\ copier'[s] = "reading" /\ owner'[s] # sendTo[s]
      BY <2>1, <3>1, <3>4 DEF Feeds, Carries, Watches
    <3> QED BY <3>2, <3>3, <3>4 DEF CopiersGoOn
  <2> QED BY <1>2, <1>4, <2>2, FeedStill
<1>9. \A t \in Sessions : nextOffset[t] <= nextOffset'[t] /\ (life[t] # "none" => life'[t] # "none")
  BY <1>1, <1>2, <1>4, LimitsAre DEF TypeOK
<1>10. \A c \in Connections : /\ up'[c] => up[c]
                              /\ GoesOn(c)
                              /\ reader'[c] \in {"replaying", "sending"} =>
                                   reader[c] \in {"replaying", "sending"}
                              /\ reader'[c] = "sending" => queue[c] # <<>>
  BY DEF ReadersGoOn
<1>11. IInv'
  BY <1>3, <1>5, <1>7, <1>8, <1>9, <1>10, SilentStep
<1> QED BY <1>4, <1>11, NothingLost

(* The steps of that kind.                                                 *)
LEMMA ReadersStay ==
  ASSUME IInv, reader' = reader
  PROVE  ReadersGoOn
<1>1. \A c \in Connections : reader[c] = "sending" => queue[c] # <<>>
  BY IInvIs DEF ConnectionOK
<1>2. reader \in [Connections ->
       {"idle", "opening", "serving", "replaying", "sending", "releasing", "ended"}]
  BY IInvIs DEF TypeOK
<1> QED BY <1>1, <1>2 DEF ReadersGoOn, GoesOn

LEMMA CopiersStay ==
  ASSUME TypeOK, copier' = copier
  PROVE  CopiersGoOn
BY DEF TypeOK, CopiersGoOn

LEMMA RegistryStays ==
  ASSUME TypeOK, UNCHANGED registryVars
  PROVE  Loosens /\ life' = life
BY DEF TypeOK, Loosens, registryVars

LEMMA CopyEndsKeeps ==
  ASSUME IInv, NEW s \in Sessions, CopyEnds(s)
  PROVE  IInv' /\ LostForReason
<1> USE DEF CopyEnds, replayVars
<1>1. TypeOK
  BY IInvIs
<1>2. Loosens /\ ReadersGoOn /\ life' = life
  BY <1>1, RegistryStays, ReadersStay
<1>3. CopiersGoOn
  BY <1>1 DEF CopiersGoOn, TypeOK
<1>4. up' \in [Connections -> BOOLEAN] /\ \A c \in Connections : up'[c] => up[c]
  BY <1>1 DEF TypeOK
<1> QED BY <1>2, <1>3, <1>4, QuietStep

LEMMA CopyDetachesKeeps ==
  ASSUME IInv, NEW s \in Sessions, CopyDetaches(s)
  PROVE  IInv' /\ LostForReason
<1> USE DEF CopyDetaches, replayVars
<1>1. TypeOK /\ SessionOK(s)
  BY IInvIs
<1>2. /\ Loosens /\ ReadersGoOn /\ life' = life
      /\ owner[s] = sendTo[s] => owner'[s] = NoConnection
      /\ owner'[s] \in {owner[s], NoConnection}
  BY <1>1, LetGoLoosens, ReadersStay
<1>3. owner'[s] # sendTo[s]
  <2>1. sendTo[s] # NoConnection
    BY <1>1, HistoryAssumption DEF SessionOK
  <2> QED BY <1>2, <2>1
<1>4. CopiersGoOn
  BY <1>1, <1>3 DEF CopiersGoOn, TypeOK
<1>5. up' \in [Connections -> BOOLEAN] /\ \A c \in Connections : up'[c] => up[c]
  BY <1>1 DEF TypeOK
<1> QED BY <1>2, <1>4, <1>5, QuietStep

LEMMA BreaksKeeps ==
  ASSUME IInv, NEW c \in Connections, Breaks(c)
  PROVE  IInv' /\ LostForReason
<1> USE DEF Breaks, replayVars, copierVars
<1>1. TypeOK
  BY IInvIs
<1>2. Loosens /\ ReadersGoOn /\ CopiersGoOn /\ life' = life
  BY <1>1, RegistryStays, ReadersStay, CopiersStay
<1>3. up' \in [Connections -> BOOLEAN] /\ \A d \in Connections : up'[d] => up[d]
  BY <1>1 DEF TypeOK
<1> QED BY <1>2, <1>3, QuietStep

LEMMA DisconnectedKeeps ==
  ASSUME IInv, NEW c \in Connections, Disconnected(c)
  PROVE  IInv' /\ LostForReason
<1> USE DEF replayVars, copierVars
<1>1. PICK s \in Sessions :
        /\ Holds(c, s)
        /\ \/ LetGo(c, s) /\ UNCHANGED historyVars
           \/ Close(s)
  BY DEF Disconnected
<1>2. UNCHANGED <<copierVars, up, machines, replayVars, received>>
  BY DEF Disconnected
<1>3. CASE LetGo(c, s) /\ UNCHANGED historyVars
  <2>1. TypeOK
    BY IInvIs
  <2>2. Loosens /\ ReadersGoOn /\ CopiersGoOn /\ life' = life
    BY <1>2, <1>3, <2>1, LetGoLoosens, ReadersStay, CopiersStay
  <2>3. up' \in [Connections -> BOOLEAN] /\ \A d \in Connections : up'[d] => up[d]
    BY <1>2, <2>1 DEF TypeOK
  <2> QED BY <1>2, <1>3, <2>2, <2>3, QuietStep
<1>4. CASE Close(s)
  <2>1. Running(s) /\ copier' = copier
        /\ UNCHANGED <<chunk, sendTo, up, machines, replayVars, received>>
    BY <1>1, <1>2 DEF Holds
  <2> HIDE DEF replayVars
  <2> QED BY <1>4, <2>1, ClosingKeeps
<1> QED BY <1>1, <1>3, <1>4

(* The read loop of a replay moves on without sending.                     *)
LEMMA ReaderStep ==
  ASSUME IInv, NEW c \in Connections, Loosens, life' = life,
         UNCHANGED <<historyVars, copierVars, up>>,
         UNCHANGED <<machines, received, target, queue, cursor>>,
         NEW to \in {"sending", "replaying", "releasing", "ended"},
         reader[c] \in {"replaying", "sending", "releasing"}, reader' = [reader EXCEPT ![c] = to],
         to \in {"replaying", "sending"} => reader[c] \in {"replaying", "sending"},
         to = "sending" => queue[c] # <<>>,
         to = "ended" => \A s \in Sessions : ~(owner'[s] = c /\ replaying[s] /\ target[c] = s)
  PROVE  IInv' /\ LostForReason
<1>1. TypeOK
  BY IInvIs
<1>2. \A d \in Connections : reader'[d] = IF d = c THEN to ELSE reader[d]
  BY <1>1 DEF TypeOK
<1>3. \A d \in Connections : reader[d] = "sending" => queue[d] # <<>>
  BY IInvIs DEF ConnectionOK
<1>4. reader' \in [Connections ->
       {"idle", "opening", "serving", "replaying", "sending", "releasing", "ended"}]
  BY <1>1 DEF TypeOK
<1>5. ReadersGoOn
  BY <1>2, <1>3, <1>4 DEF ReadersGoOn, GoesOn
<1>6. CopiersGoOn
  BY <1>1, CopiersStay DEF copierVars
<1>7. up' \in [Connections -> BOOLEAN] /\ \A d \in Connections : up'[d] => up[d]
  BY <1>1 DEF TypeOK
<1>8. UNCHANGED <<historyVars, life, chunk, sendTo>>
  BY DEF copierVars
<1> QED BY <1>5, <1>6, <1>7, <1>8, QuietStep

LEMMA ReplayAllowedKeeps ==
  ASSUME IInv, NEW c \in Connections, ReplayAllowed(c)
  PROVE  IInv' /\ LostForReason
<1>1. Loosens /\ life' = life
  BY IInvIs, RegistryStays DEF ReplayAllowed
<1>2. UNCHANGED <<historyVars, copierVars, up>>
      /\ UNCHANGED <<machines, received, target, queue, cursor>>
  BY DEF ReplayAllowed
<1> QED BY <1>1, <1>2, ReaderStep DEF ReplayAllowed

LEMMA ReplayLostKeeps ==
  ASSUME IInv, NEW c \in Connections, ReplayLost(c)
  PROVE  IInv' /\ LostForReason
<1>1. Loosens /\ life' = life
  BY IInvIs, RegistryStays DEF ReplayLost
<1>2. UNCHANGED <<historyVars, copierVars, up>>
      /\ UNCHANGED <<machines, received, target, queue, cursor>>
  BY DEF ReplayLost
<1>3. \A s \in Sessions : ~(owner'[s] = c /\ replaying[s] /\ target[c] = s)
  <2> SUFFICES ASSUME NEW s \in Sessions, owner'[s] = c, replaying[s], target[c] = s PROVE FALSE
    OBVIOUS
  <2>1. owner[s] = c
    BY DEF ReplayLost, registryVars
  <2>2. SessionOK(s) /\ owner[s] # NoConnection
    BY <2>1, IInvIs, HistoryAssumption
  <2> QED BY <2>1, <2>2 DEF ReplayLost, Replays, Holds, SessionOK
<1> QED BY <1>1, <1>2, <1>3, ReaderStep DEF ReplayLost

LEMMA ReplayEvictedKeeps ==
  ASSUME IInv, NEW c \in Connections, ReplayEvicted(c)
  PROVE  IInv' /\ LostForReason
<1>1. Loosens /\ life' = life
  BY IInvIs, RegistryStays DEF ReplayEvicted
<1>2. UNCHANGED <<historyVars, copierVars, up>>
      /\ UNCHANGED <<machines, received, target, queue, cursor>>
  BY DEF ReplayEvicted
<1> QED BY <1>1, <1>2, ReaderStep DEF ReplayEvicted, CaughtUp

LEMMA ReopenReleasedKeeps ==
  ASSUME IInv, NEW c \in Connections, ReopenReleased(c)
  PROVE  IInv' /\ LostForReason
<1>1. target[c] \in Sessions /\ TypeOK
  BY IInvIs DEF ReopenReleased, ConnectionOK, MachineOK
<1>2. UNCHANGED <<historyVars, copierVars, up>>
      /\ UNCHANGED <<machines, received, target, queue, cursor>>
  BY DEF ReopenReleased
<1>3. /\ Loosens /\ life' = life
      /\ \A s \in Sessions : ~(owner'[s] = c /\ replaying[s] /\ target[c] = s)
  <2>1. CASE replaying[target[c]]
    <3>1. LetGo(c, target[c])
      BY <2>1 DEF ReopenReleased
    <3>2. /\ Loosens /\ life' = life
          /\ owner[target[c]] = c => owner'[target[c]] = NoConnection
          /\ owner'[target[c]] \in {owner[target[c]], NoConnection}
      BY <1>1, <3>1, LetGoLoosens
    <3> QED BY <3>2, HistoryAssumption
  <2>2. CASE ~replaying[target[c]]
    <3>1. UNCHANGED registryVars
      BY <2>2 DEF ReopenReleased
    <3> QED BY <1>1, <2>2, <3>1, RegistryStays
  <2> QED BY <2>1, <2>2
<1> QED BY <1>2, <1>3, ReaderStep DEF ReopenReleased

-----------------------------------------------------------------------------
(* What a frame does to both machines.                                     *)

Machines ==
  [Session : SessionStates, sessionID : Sessions \cup {NoSession},
   nextOutput : 0..MaxSequence, historyBegun : BOOLEAN,
   historyCursor : 0..MaxSequence, historyEnd : 0..MaxSequence]

LEMMA StatesAre ==
  /\ {"NONE", "OPENING", "OPEN", "REOPENING", "REPLAYING", "DETACHING"} \subseteq SessionStates
  /\ "READY" \in ConnectionStates
  /\ FrameTypes \subseteq Messages
<1>1. {"NONE", "OPENING", "OPEN", "REOPENING", "REPLAYING", "DETACHING"} \subseteq
        {row[1] : row \in SessionTable}
  BY DEF SessionTable
<1>2. "READY" \in {row[1] : row \in ConnectionTable}
  BY DEF ConnectionTable
<1>3. FrameTypes \subseteq {row[3] : row \in SessionTable}
  BY DEF SessionTable, FrameTypes
<1> QED BY <1>1, <1>2, <1>3 DEF SessionStates, ConnectionStates, Messages

LEMMA SemanticsAre ==
  ASSUME NEW m \in Machines, NEW f \in Frames, NEW to
  PROVE  /\ SemanticsApplied(m, f) \in Machines
         /\ [SemanticsApplied(m, f) EXCEPT !.Session = to] =
              [Session |-> to, sessionID |-> f.session,
               nextOutput |-> IF f.type = "terminal_output" THEN f.to ELSE m.nextOutput,
               historyBegun |-> (m.historyBegun /\ f.type # "history_end")
                                \/ f.type = "history_begin",
               historyCursor |-> IF f.type = "history_begin" THEN f.from
                                 ELSE IF f.type = "history_chunk" THEN f.to
                                 ELSE m.historyCursor,
               historyEnd |-> IF f.type = "history_begin" THEN f.to ELSE m.historyEnd]
         /\ SemanticsApplied(m, f) = [SemanticsApplied(m, f) EXCEPT !.Session = m.Session]
<1> DEFINE next == IF f.type = "terminal_output" THEN f.to ELSE m.nextOutput
           begun == (m.historyBegun /\ f.type # "history_end") \/ f.type = "history_begin"
           at == IF f.type = "history_begin" THEN f.from
                 ELSE IF f.type = "history_chunk" THEN f.to ELSE m.historyCursor
           end == IF f.type = "history_begin" THEN f.to ELSE m.historyEnd
           session == f.session
<1>1. m = [Session |-> m.Session, sessionID |-> m.sessionID, nextOutput |-> m.nextOutput,
           historyBegun |-> m.historyBegun, historyCursor |-> m.historyCursor,
           historyEnd |-> m.historyEnd]
  BY DEF Machines
<1>2. SemanticsApplied(m, f) =
        [m EXCEPT !.sessionID = session, !.nextOutput = next, !.historyBegun = begun,
                  !.historyCursor = at, !.historyEnd = end]
  BY <1>1 DEF SemanticsApplied
<1>3. /\ next \in 0..MaxSequence /\ begun \in BOOLEAN /\ at \in 0..MaxSequence
      /\ end \in 0..MaxSequence /\ session \in Sessions /\ m.Session \in SessionStates
  BY DEF Machines, Frames
<1> HIDE DEF next, begun, at, end, session
<1>4. SemanticsApplied(m, f) =
        [Session |-> m.Session, sessionID |-> session, nextOutput |-> next,
         historyBegun |-> begun, historyCursor |-> at, historyEnd |-> end]
  BY <1>1, <1>2
<1>5. SemanticsApplied(m, f) \in Machines
  BY <1>3, <1>4 DEF Machines
<1>6. [SemanticsApplied(m, f) EXCEPT !.Session = to] =
        [Session |-> to, sessionID |-> session, nextOutput |-> next,
         historyBegun |-> begun, historyCursor |-> at, historyEnd |-> end]
  BY <1>4
<1>7. SemanticsApplied(m, f) = [SemanticsApplied(m, f) EXCEPT !.Session = m.Session]
  BY <1>4
<1> QED BY <1>5, <1>6, <1>7 DEF next, begun, at, end, session

(* Whatever Apply makes of a frame is a machine.                           *)
LEMMA AppliedType ==
  ASSUME NEW m \in Machines, NEW f \in Frames, f.type \in FrameTypes
  PROVE  Applied(m, f) \in Machines
<1>1. CASE ~SemanticsAllow(m, f)
  <2>1. Applied(m, f) = [m EXCEPT !.sessionID = IF @ = NoSession THEN f.session ELSE @]
    BY <1>1 DEF Applied
  <2> DEFINE id == IF m.sessionID = NoSession THEN f.session ELSE m.sessionID
  <2>2. Applied(m, f) = [m EXCEPT !.sessionID = id]
    BY <2>1
  <2>3. id \in Sessions \cup {NoSession}
    BY DEF Machines, Frames
  <2> HIDE DEF id
  <2> QED BY <2>2, <2>3 DEF Machines
<1>2. CASE SemanticsAllow(m, f) /\ \A next : ~Moves(m.Session, f.type, next)
  <2>1. Applied(m, f) = SemanticsApplied(m, f)
    BY <1>2, AppliedIs
  <2>2. \A to : to = "OPEN" => SemanticsApplied(m, f) \in Machines
    BY SemanticsAre
  <2> QED BY <2>1, <2>2
<1>3. CASE SemanticsAllow(m, f) /\ \E next : Moves(m.Session, f.type, next)
  <2>1. PICK next : Moves(m.Session, f.type, next)
    BY <1>3
  <2>2. Applied(m, f) = [SemanticsApplied(m, f) EXCEPT !.Session = next]
    BY <1>3, <2>1, AppliedIs
  <2>3. next \in SessionStates
    BY <2>1, StatesAre DEF Moves
  <2>4. \A to : to = next => SemanticsApplied(m, f) \in Machines
    BY SemanticsAre
  <2> QED BY <2>2, <2>3, <2>4 DEF Machines
<1> QED BY <1>1, <1>2, <1>3

(* Nobody but the two ends of a connection sees what is sent over it.      *)
LEMMA SendIs ==
  ASSUME NEW c \in Connections, NEW f, TypeOK, browser \in [Connections -> Browsers], Send(c, f)
  PROVE  /\ machine'[c] = Applied(machine[c], f)
         /\ browser'[c] = IF Sent(c, f) THEN Takes(browser[c], f) ELSE browser[c]
         /\ received'[c] = IF Sent(c, f) /\ CarriesOutput(f)
                           THEN received[c] \cup f.from .. f.to - 1 ELSE received[c]
         /\ \A d \in Connections \ {c} :
              machine'[d] = machine[d] /\ browser'[d] = browser[d] /\ received'[d] = received[d]
BY DEF Send, TypeOK

(* A frame that is sent is a frame, to a browser that takes it.            *)
LEMMA SendTypes ==
  ASSUME NEW c \in Connections, NEW f \in Frames, f.type \in FrameTypes,
         TypeOK, browser \in [Connections -> Browsers], Send(c, f),
         Sent(c, f) => Takes(browser[c], f) \in Browsers
  PROVE  /\ machine' \in [Connections -> Machines]
         /\ browser' \in [Connections -> Browsers]
         /\ received' \in [Connections -> SUBSET (0..MaxSequence - 1)]
<1>1. machine \in [Connections -> Machines]
  BY DEF TypeOK, Machines
<1>2. Applied(machine[c], f) \in Machines
  BY <1>1, AppliedType
<1>3. machine' = [machine EXCEPT ![c] = Applied(machine[c], f)]
  BY DEF Send
<1> DEFINE b == IF Sent(c, f) THEN Takes(browser[c], f) ELSE browser[c]
           r == IF Sent(c, f) /\ CarriesOutput(f)
                THEN received[c] \cup f.from .. f.to - 1 ELSE received[c]
<1>4. browser' = [browser EXCEPT ![c] = b] /\ received' = [received EXCEPT ![c] = r]
  BY DEF Send
<1>5. b \in Browsers
  OBVIOUS
<1>6. r \in SUBSET (0..MaxSequence - 1)
  <2>1. f.from .. f.to - 1 \subseteq 0..MaxSequence - 1
    BY LimitsAre DEF Frames
  <2> QED BY <2>1 DEF TypeOK
<1> HIDE DEF b, r
<1> QED BY <1>1, <1>2, <1>3, <1>4, <1>5, <1>6 DEF TypeOK

-----------------------------------------------------------------------------
(* A step of one connection.                                               *)
OnlyAbout(c) ==
  \A d \in Connections \ {c} :
    Same(d) /\ reader'[d] = reader[d] /\ queue'[d] = queue[d] /\ cursor'[d] = cursor[d]

LEMMA ActiveStep ==
  ASSUME IInv, NEW c \in Connections, OnlyAbout(c), UNCHANGED historyVars, UNCHANGED chunk,
         \A t \in Sessions : /\ Running(t) => Running(t)'
                             /\ life[t] # "none" => life'[t] # "none",
         TypeOK', browser' \in [Connections -> Browsers], queue' \in [Connections -> Seq(Frames)],
         \A s \in Sessions : SessionOK(s)',
         Grows => ConnectionOK(c)' /\ \A s \in Sessions : FeedOK(c, s)',
         \A d \in Connections \ {c}, s \in Sessions :
           Feeds(d, s)' => Feeds(d, s) /\ (Carries(d, s)' <=> Carries(d, s))
  PROVE  IInv' /\ LostForReason
<1>1. TypeOK /\ HistoryOK
  BY IInvIs
<1>2. HistoryOK' /\ HistoryTypes' /\ MovesOn
  BY <1>1, HistoryStays
<1>3. history' = history /\ nextOffset' = nextOffset
  BY DEF historyVars
<1>4. \A t \in Sessions : nextOffset[t] <= nextOffset'[t]
  BY <1>1, <1>3, LimitsAre DEF TypeOK
<1>5. Grows
  BY <1>1, <1>2, <1>4, GrowsIs
<1>6. \A d \in Connections \ {c} : ConnectionOK(d)'
  <2> TAKE d \in Connections \ {c}
  <2>1. Same(d) /\ GoesOn(d) /\ reader'[d] = reader[d] /\ queue'[d] = queue[d]
        /\ cursor'[d] = cursor[d] /\ (reader[d] = "sending" => queue[d] # <<>>)
    BY IInvIs DEF OnlyAbout, GoesOn, ConnectionOK
  <2> QED BY <1>5, <2>1, ConnectionStays
<1>7. \A d \in Connections \ {c}, s \in Sessions : FeedOK(d, s)'
  <2> TAKE d \in Connections \ {c}, s \in Sessions
  <2>1. Same(d) /\ chunk'[s] = chunk[s] /\ nextOffset'[s] = nextOffset[s]
    BY <1>3 DEF OnlyAbout
  <2> QED BY <1>5, <2>1, FeedStill
<1>8. IInv'
  BY <1>2, <1>5, <1>6, <1>7, IInvIsNext
<1> QED BY <1>3, <1>8, NothingLost

(* An offset more is known, and the frame before it is with the browser.   *)
LEMMA Delivered ==
  ASSUME NEW c \in Connections, NEW s \in Sessions, target[c] = s, target'[c] = s, Grows,
         UNCHANGED historyVars, NEW from \in Nat, NEW to \in Nat, from < to, UpTo(c, from),
         received'[c] = received[c] \cup from .. to - 1,
         up'[c] /\ ~machine'[c].historyBegun => browser'[c].offsets.nextOutputOffset = to,
         received[c] \subseteq Nat
  PROVE  UpTo(c, to)'
<1>1. \A o \in received'[c] : o < to
  BY DEF UpTo
<1>2. to - 1 \in received'[c]
  OBVIOUS
<1>3. Start(history, target[c])' = Start(history, s)
  BY DEF Start, historyVars
<1>4. Start(history, s) .. from - 1 \subseteq received[c]
  BY DEF UpTo
<1>5. Start(history, s) .. to - 1 \subseteq received'[c]
  <2>1. Start(history, s) \in Nat
    BY DEF Grows
  <2>2. \A o \in Start(history, s) .. to - 1 :
          o \in Start(history, s) .. from - 1 \/ o \in from .. to - 1
    BY <2>1
  <2> QED BY <1>4, <2>2
<1> HIDE DEF Start
<1> QED BY <1>1, <1>2, <1>3, <1>5 DEF UpTo

(* A copier that has output in hand, and the two ends of where it goes.    *)
HasOutput(s, c, f, m, b) ==
  /\ copier[s] = "sending" /\ c = sendTo[s] /\ f = OutputFrame(s)
  /\ m = machine[c] /\ b = browser[c]

(* The copier's frame: the offsets are always what the machine expects, and*)
(* it goes out when the session is open on a transport that works.         *)
LEMMA OutputGoes ==
  ASSUME IInv, NEW s \in Sessions, NEW c \in Connections, NEW f, NEW m, NEW b,
         HasOutput(s, c, f, m, b)
  PROVE  /\ f \in Frames /\ f.type = "terminal_output" /\ f.session = s
         /\ f.from = chunk[s].from /\ f.to = chunk[s].to /\ f.from < f.to
         /\ f.from \in Nat /\ f.to \in Nat /\ f.to = nextOffset[s]
         /\ target[c] = s /\ Serves(c, s) /\ UpTo(c, f.from)
         /\ SemanticsAllow(m, f)
         /\ Sent(c, f) <=> up[c] /\ m.Session = "OPEN"
         /\ Applied(m, f) = [Session |-> m.Session, sessionID |-> s, nextOutput |-> f.to,
                             historyBegun |-> FALSE, historyCursor |-> m.historyCursor,
                             historyEnd |-> m.historyEnd]
<1> USE DEF HasOutput
<1>1. TypeOK /\ SessionOK(s) /\ FeedOK(c, s) /\ MachineOK(c)
  BY IInvIs DEF ConnectionOK
<1>2. /\ chunk[s] \in Chunks /\ chunk[s].from < chunk[s].to /\ chunk[s].to = nextOffset[s]
      /\ Serves(c, s)
  BY <1>1 DEF SessionOK, TypeOK
<1>3. /\ f \in Frames /\ f.type = "terminal_output" /\ f.session = s
      /\ f.from = chunk[s].from /\ f.to = chunk[s].to /\ f.from < f.to
      /\ f.from \in Nat /\ f.to \in Nat /\ f.to \in 0..MaxSequence
      /\ f.type \in FrameTypes
  <2>1. chunk[s].from \in 0..MaxSequence /\ chunk[s].to \in 0..MaxSequence
    BY <1>2 DEF Chunks
  <2>2. "terminal_output" \in Messages /\ "terminal_output" \in FrameTypes
    BY StatesAre DEF FrameTypes
  <2> QED BY <1>2, <2>1, <2>2, LimitsAre DEF OutputFrame, Frame, Frames
<1>4. ~m.historyBegun /\ m.nextOutput = f.from /\ UpTo(c, f.from)
  BY <1>1, <1>3 DEF FeedOK, Feeds, Carries
<1>5. target[c] = s
  BY <1>2 DEF Serves
<1>6. m \in Machines /\ m.sessionID \in {NoSession, s}
  BY <1>1, <1>5 DEF TypeOK, Machines, MachineOK
<1>7. SemanticsAllow(m, f)
  BY <1>3, <1>4, <1>6, LimitsAre DEF SemanticsAllow
<1>8. Applied(m, f) = [SemanticsApplied(m, f) EXCEPT !.Session = m.Session]
      /\ (Accepted(m, f) <=> m.Session = "OPEN")
  <2>1. CASE m.Session = "OPEN"
    <3> DEFINE to == m.Session
    <3>1. Moves(m.Session, f.type, to)
      BY <1>3, <2>1 DEF Moves
    <3>2. \A next : Moves(m.Session, f.type, next) =>
            Accepted(m, f) /\ Applied(m, f) = [SemanticsApplied(m, f) EXCEPT !.Session = next]
      BY <1>3, <1>7, AppliedIs
    <3> HIDE DEF to
    <3>3. Accepted(m, f) /\ Applied(m, f) = [SemanticsApplied(m, f) EXCEPT !.Session = to]
      BY <3>1, <3>2
    <3> QED BY <2>1, <3>3 DEF to
  <2>2. CASE m.Session # "OPEN"
    <3>1. \A next : ~Moves(m.Session, f.type, next)
      BY <1>3, <2>2 DEF Moves
    <3>2. Applied(m, f) = SemanticsApplied(m, f) /\ ~Accepted(m, f)
      BY <1>3, <1>7, <3>1, AppliedIs
    <3>3. SemanticsApplied(m, f) = [SemanticsApplied(m, f) EXCEPT !.Session = m.Session]
      <4>1. \A to : to = "OPEN" =>
              SemanticsApplied(m, f) = [SemanticsApplied(m, f) EXCEPT !.Session = m.Session]
        BY <1>3, <1>6, SemanticsAre
      <4> QED BY <4>1
    <3> QED BY <2>2, <3>2, <3>3
  <2> QED BY <2>1, <2>2
<1>9. [SemanticsApplied(m, f) EXCEPT !.Session = m.Session] =
        [Session |-> m.Session, sessionID |-> s, nextOutput |-> f.to,
         historyBegun |-> FALSE, historyCursor |-> m.historyCursor,
         historyEnd |-> m.historyEnd]
  <2> DEFINE to == m.Session
  <2>1. [SemanticsApplied(m, f) EXCEPT !.Session = to] =
              [Session |-> to, sessionID |-> f.session,
               nextOutput |-> IF f.type = "terminal_output" THEN f.to ELSE m.nextOutput,
               historyBegun |-> (m.historyBegun /\ f.type # "history_end")
                                \/ f.type = "history_begin",
               historyCursor |-> IF f.type = "history_begin" THEN f.from
                                 ELSE IF f.type = "history_chunk" THEN f.to
                                 ELSE m.historyCursor,
               historyEnd |-> IF f.type = "history_begin" THEN f.to ELSE m.historyEnd]
    <3> HIDE DEF to
    <3> QED BY <1>3, <1>6, SemanticsAre
  <2> QED BY <1>3, <1>4, <2>1
<1> QED BY <1>2, <1>3, <1>4, <1>5, <1>7, <1>8, <1>9 DEF Sent

(* What a browser knows of its offsets stays of its type.                  *)
LEMMA OffsetsType ==
  ASSUME NEW b \in Browsers, NEW f \in Frames, f.type \in FrameTypes
  PROVE  Browser!OffsetsApplied(b.offsets, f) \in
           [nextOutputOffset : Offsets, nextOutputOffsetKnown : BOOLEAN,
            begun : BOOLEAN, cursor : Offsets, endOffset : Offsets]
<1>1. b.offsets \in [nextOutputOffset : Offsets, nextOutputOffsetKnown : BOOLEAN,
                     begun : BOOLEAN, cursor : Offsets, endOffset : Offsets]
  BY DEF Browsers
<1>2. f.from \in Offsets /\ f.to \in Offsets /\ 0 \in Offsets
  BY LimitsAre DEF Frames, Offsets
<1> QED BY <1>1, <1>2 DEF Browser!OffsetsApplied, FrameTypes

(* A frame that the browser's machine has a row and the offsets for.       *)
LEMMA TakenType ==
  ASSUME NEW b \in Browsers, NEW f \in Frames, f.type \in FrameTypes,
         b.states.connectionState = "READY", b.states.sessionId \in {NoSession, f.session},
         Browser!OffsetsAllowed(b.offsets, f),
         NEW next, Moves(b.states.sessionState, f.type, next)
  PROVE  Takes(b, f) \in Browsers
<1>1. f.session \in Sessions
  BY DEF Frames
<1> DEFINE id == IF f.type \in {"session_opened", "session_reopened"}
                 THEN f.session ELSE b.states.sessionId
           offsets == Browser!OffsetsApplied(b.offsets, f)
<1>2. Takes(b, f) = [states |-> [connectionState |-> "READY", sessionState |-> next,
                                 sessionId |-> id],
                     offsets |-> offsets, refused |-> b.refused]
  BY <1>1, TakesIs
<1>3. offsets \in [nextOutputOffset : Offsets, nextOutputOffsetKnown : BOOLEAN,
                   begun : BOOLEAN, cursor : Offsets, endOffset : Offsets]
  BY OffsetsType
<1>4. id \in Sessions \cup {NoSession} /\ b.refused \in BOOLEAN
  BY <1>1 DEF Browsers
<1>5. "READY" \in ConnectionStates /\ next \in SessionStates
  BY StatesAre DEF Moves
<1> HIDE DEF id, offsets
<1> QED BY <1>2, <1>3, <1>4, <1>5 DEF Browsers

LEMMA OutputTaken ==
  ASSUME IInv, NEW s \in Sessions, NEW c \in Connections, NEW f, NEW m, NEW b,
         HasOutput(s, c, f, m, b), Sent(c, f)
  PROVE  /\ Takes(b, f) \in Browsers
         /\ Takes(b, f) = [states |-> [connectionState |-> "READY", sessionState |-> "OPEN",
                                       sessionId |-> b.states.sessionId],
                           offsets |-> [b.offsets EXCEPT !.nextOutputOffset = f.to],
                           refused |-> b.refused]
<1>1. /\ f \in Frames /\ f.type = "terminal_output" /\ f.session = s /\ f.type \in FrameTypes
      /\ target[c] = s /\ UpTo(c, f.from)
      /\ up[c] /\ m.Session = "OPEN" /\ f.to \in Nat /\ f.session \in Sessions
  BY OutputGoes DEF FrameTypes
<1> USE DEF HasOutput
<1>2. InStep(c) /\ FeedOK(c, s) /\ b \in Browsers
  BY IInvIs DEF ConnectionOK
<1>3. b.states.connectionState = "READY" /\ b.states.sessionId \in {NoSession, s}
      /\ b.states.sessionState = "OPEN"
  BY <1>1, <1>2 DEF InStep
<1>4. Browser!OffsetsAllowed(b.offsets, f)
  <2>1. ~machine[c].historyBegun
    BY <1>2 DEF FeedOK, Feeds
  <2>2. b.offsets.nextOutputOffset = f.from
    BY <1>1, <2>1 DEF UpTo
  <2>3. f.to <= MaxSequence
    BY <1>1, LimitsAre DEF Frames
  <2> QED BY <1>1, <2>2, <2>3 DEF Browser!OffsetsAllowed
<1>5. Moves(b.states.sessionState, f.type, "OPEN")
  BY <1>1, <1>3 DEF Moves
<1>6. Browser!OffsetsApplied(b.offsets, f) = [b.offsets EXCEPT !.nextOutputOffset = f.to]
  BY <1>1 DEF Browser!OffsetsApplied
<1>7. f.type \notin {"session_opened", "session_reopened"}
  BY <1>1
<1>8. Takes(b, f) \in Browsers
  BY <1>1, <1>2, <1>3, <1>4, <1>5, TakenType
<1> DEFINE offsets == [b.offsets EXCEPT !.nextOutputOffset = f.to]
           id == IF f.type \in {"session_opened", "session_reopened"}
                                      THEN f.session ELSE b.states.sessionId
<1>9. Takes(b, f) =
           [states |-> [connectionState |-> "READY", sessionState |-> "OPEN", sessionId |-> id],
            offsets |-> Browser!OffsetsApplied(b.offsets, f),
            refused |-> b.refused]
  BY <1>1, <1>2, <1>3, <1>4, <1>5, TakesIs
<1>10. id = b.states.sessionId
  BY <1>7
<1> HIDE DEF id, offsets
<1>11. Takes(b, f) = [states |-> [connectionState |-> "READY", sessionState |-> "OPEN",
                                       sessionId |-> b.states.sessionId],
                      offsets |-> offsets, refused |-> b.refused]
  BY <1>6, <1>9, <1>10 DEF offsets
<1> QED BY <1>8, <1>11 DEF offsets

LEMMA CopySendsKeeps ==
  ASSUME IInv, NEW s \in Sessions, CopySends(s)
  PROVE  IInv' /\ LostForReason
<1> USE DEF replayVars, registryVars
<1>1. /\ TypeOK /\ SessionOK(s) /\ browser \in [Connections -> Browsers]
      /\ queue \in [Connections -> Seq(Frames)] /\ copier[s] = "sending"
  BY IInvIs DEF CopySends
<1>2. PICK c \in Connections : c = sendTo[s]
  BY <1>1 DEF SessionOK
<1>3. PICK f : f = OutputFrame(s)
  OBVIOUS
<1>4. PICK m : m = machine[c]
  OBVIOUS
<1>5. PICK b : b = browser[c]
  OBVIOUS
<1>0. HasOutput(s, c, f, m, b)
  BY <1>1, <1>2, <1>3, <1>4, <1>5 DEF HasOutput
<1>6. /\ f \in Frames /\ f.type = "terminal_output" /\ f.session = s
      /\ f.from = chunk[s].from /\ f.to = chunk[s].to /\ f.from < f.to
      /\ f.from \in Nat /\ f.to \in Nat /\ f.to = nextOffset[s]
      /\ target[c] = s /\ Serves(c, s) /\ UpTo(c, f.from)
      /\ SemanticsAllow(m, f)
      /\ Sent(c, f) <=> up[c] /\ m.Session = "OPEN"
      /\ Applied(m, f) = [Session |-> m.Session, sessionID |-> s, nextOutput |-> f.to,
                          historyBegun |-> FALSE, historyCursor |-> m.historyCursor,
                          historyEnd |-> m.historyEnd]
  BY <1>0, OutputGoes
<1>7. Sent(c, f) =>
        /\ Takes(b, f) \in Browsers
        /\ Takes(b, f) = [states |-> [connectionState |-> "READY", sessionState |-> "OPEN",
                                       sessionId |-> b.states.sessionId],
                          offsets |-> [b.offsets EXCEPT !.nextOutputOffset = f.to],
                          refused |-> b.refused]
  BY <1>0, OutputTaken
<1>8. /\ Send(c, f)
      /\ copier' = [copier EXCEPT ![s] = IF Sent(c, f) THEN "reading" ELSE "detaching"]
      /\ UNCHANGED <<registryVars, historyVars, chunk, sendTo, up, replayVars>>
  BY <1>2, <1>3 DEF CopySends
<1>9. /\ machine'[c] = Applied(m, f)
      /\ browser'[c] = IF Sent(c, f) THEN Takes(b, f) ELSE b
      /\ received'[c] = IF Sent(c, f) THEN received[c] \cup f.from .. f.to - 1 ELSE received[c]
      /\ \A d \in Connections \ {c} :
           machine'[d] = machine[d] /\ browser'[d] = browser[d] /\ received'[d] = received[d]
  <2>1. CarriesOutput(f)
    BY <1>6 DEF CarriesOutput
  <2> QED BY <1>1, <1>4, <1>5, <1>8, <2>1, SendIs
<1>10. /\ machine' \in [Connections -> Machines] /\ browser' \in [Connections -> Browsers]
       /\ received' \in [Connections -> SUBSET (0..MaxSequence - 1)]
  <2>1. f.type \in FrameTypes
    BY <1>6 DEF FrameTypes
  <2> QED BY <1>1, <1>5, <1>6, <1>7, <1>8, <2>1, SendTypes
<1>11. OnlyAbout(c)
  BY <1>8, <1>9 DEF OnlyAbout, Same
<1>12. \A t \in Sessions : copier'[t] = IF t # s THEN copier[t]
                                         ELSE IF Sent(c, f) THEN "reading" ELSE "detaching"
  BY <1>1, <1>8 DEF TypeOK
<1>13. TypeOK' /\ queue' \in [Connections -> Seq(Frames)]
  <2>1. copier' \in [Sessions -> {"none", "reading", "sending", "detaching", "ended"}]
    BY <1>1, <1>8 DEF TypeOK
  <2>2. /\ UNCHANGED <<life, owner, replaying, nextOffset, history, historyBytes, agentBytes>>
        /\ UNCHANGED <<chunk, sendTo, up, reader, target, queue, cursor>>
    BY <1>8 DEF historyVars
  <2> QED BY <1>1, <1>10, <2>1, <2>2 DEF TypeOK, Machines
<1>14. \A t \in Sessions : SessionOK(t)'
  <2> TAKE t \in Sessions
  <2>1. ServesStill(t) /\ ReplaysStill(t)
    BY <1>8 DEF ServesStill, ReplaysStill, Serves
  <2>2. CASE t # s
    <3>1. Steady(t)
      BY <1>8, <1>12, <2>2 DEF Steady, historyVars
    <3> QED BY <1>1, <2>1, <3>1, SessionStays, IInvIs
  <2>3. CASE t = s
    <3>1. copier'[s] \in {"reading", "detaching"}
      BY <1>12
    <3>2. life[s] # "none"
      BY <1>1 DEF SessionOK
    <3>3. owner[s] # NoConnection => owner[s] \in Connections
      BY <1>1 DEF TypeOK
    <3> QED BY <1>1, <1>8, <2>3, <3>1, <3>2, <3>3 DEF SessionOK, Serves, Running
  <2> QED BY <2>2, <2>3
<1>15. ASSUME Grows
       PROVE  ConnectionOK(c)' /\ \A t \in Sessions : FeedOK(c, t)'
  <2>1. MachineOK(c) /\ InStep(c) /\ FeedOK(c, s) /\ reader[c] \in {"opening", "serving", "ended"}
    BY <1>6, IInvIs DEF ConnectionOK, Serves
  <2>2. ~m.historyBegun /\ UNCHANGED nextOffset
    BY <1>1, <1>2, <1>4, <1>8, <2>1 DEF FeedOK, Feeds, historyVars
  <2>3. received'[c] \subseteq 0..MaxSequence - 1 /\ received[c] \subseteq 0..MaxSequence - 1
    BY <1>1, <1>10 DEF TypeOK
  <2>4. \A o \in received'[c] : o < nextOffset[s]
    BY <1>4, <1>6, <1>9, <2>1 DEF MachineOK
  <2>5. MachineOK(c)'
    <3>1. s # NoSession /\ life[s] # "none"
      BY <1>1, HistoryAssumption DEF SessionOK
    <3>2. m.Session = "OPENING" => browser'[c] = b
      BY <1>6, <1>9
    <3> QED BY <1>4, <1>5, <1>6, <1>8, <1>9, <2>1, <2>2, <2>4, <3>1, <3>2 DEF MachineOK
  <2>a. /\ machine'[c].Session = m.Session /\ ~machine'[c].historyBegun
        /\ machine'[c].historyBegun = FALSE
        /\ target'[c] = target[c] /\ up'[c] = up[c]
    BY <1>6, <1>8, <1>9
  <2>b. /\ ~b.refused /\ b.states.connectionState = "READY"
        /\ b.states.sessionId \in {NoSession, target[c]}
        /\ up[c] => b.states.sessionState = m.Session /\ b.offsets.begun = FALSE
    BY <1>4, <1>5, <1>10, <2>1, <2>2 DEF InStep
  <2>6. InStep(c)'
    <3>1. CASE Sent(c, f)
      <4>1. /\ browser'[c].refused = b.refused
            /\ browser'[c].states.connectionState = "READY"
            /\ browser'[c].states.sessionState = "OPEN"
            /\ browser'[c].states.sessionId = b.states.sessionId
            /\ browser'[c].offsets = [b.offsets EXCEPT !.nextOutputOffset = f.to]
        BY <1>7, <1>9, <3>1
      <4>2. browser'[c].offsets.begun = b.offsets.begun
        BY <1>1, <1>5, <4>1 DEF Browsers
      <4> QED BY <1>6, <2>a, <2>b, <3>1, <4>1, <4>2 DEF InStep
    <3>2. CASE ~Sent(c, f)
      BY <1>9, <2>a, <2>b, <3>2 DEF InStep
    <3> QED BY <3>1, <3>2
  <2>7. \A t \in Sessions : FeedOK(c, t)'
    <3> TAKE t \in Sessions
    <3>1. CASE t # s
      <4>1. ~Feeds(c, t)
        BY <1>6, <3>1, FeedsServe, IInvIs DEF Serves
      <4>2. ~Feeds(c, t)'
        BY <1>8, <1>12, <3>1, <4>1 DEF Feeds, Carries, Watches
      <4> QED BY <4>2 DEF FeedOK
    <3>2. CASE t = s /\ ~Sent(c, f)
      <4>1. ~Feeds(c, s)'
        BY <1>2, <1>8, <1>12, <3>2 DEF Feeds, Carries, Watches
      <4> QED BY <3>2, <4>1 DEF FeedOK
    <3>3. CASE t = s /\ Sent(c, f)
      <4>1. browser'[c].offsets.nextOutputOffset = f.to
        <5>1. browser'[c].offsets = [b.offsets EXCEPT !.nextOutputOffset = f.to]
          BY <1>7, <1>9, <3>3
        <5> QED BY <1>1, <1>5, <5>1 DEF Browsers
      <4>2. machine'[c].nextOutput = f.to /\ ~machine'[c].historyBegun
        BY <1>6, <1>9
      <4>3. UpTo(c, f.to)'
        <5>1. /\ target'[c] = s /\ received[c] \subseteq Nat
              /\ received'[c] = received[c] \cup f.from .. f.to - 1
          BY <1>6, <1>8, <1>9, <2>3, <3>3
        <5>2. PICK from \in Nat, to \in Nat : from = f.from /\ to = f.to
          BY <1>6
        <5>3. UpTo(c, to)'
          BY <1>6, <1>8, <1>15, <4>1, <5>1, <5>2, Delivered
        <5> QED BY <5>2, <5>3 DEF UpTo
      <4>4. ~Carries(c, s)' /\ nextOffset'[s] = f.to
        BY <1>6, <1>12, <2>2, <3>3 DEF Carries
      <4>5. UpTo(c, machine[c].nextOutput)'
        BY <4>2, <4>3 DEF UpTo
      <4> QED BY <3>3, <4>2, <4>4, <4>5 DEF FeedOK
    <3> QED BY <3>1, <3>2, <3>3
  <2> QED BY <1>8, <2>1, <2>5, <2>6, <2>7 DEF ConnectionOK
<1>16. \A d \in Connections \ {c}, t \in Sessions :
         Feeds(d, t)' => Feeds(d, t) /\ (Carries(d, t)' <=> Carries(d, t))
  BY <1>2, <1>8, <1>12 DEF Feeds, Carries, Watches
<1>17. \A t \in Sessions : /\ Running(t) => Running(t)'
                           /\ life[t] # "none" => life'[t] # "none"
  BY <1>8 DEF Running
<1> HIDE DEF replayVars, registryVars
<1>18. UNCHANGED historyVars /\ UNCHANGED chunk
  BY <1>8
<1> QED BY <1>10, <1>11, <1>13, <1>14, <1>15, <1>16, <1>17, <1>18, ActiveStep

(* A replay that is over: the machine is open, and the session's end is    *)
(* where it has come to.                                                   *)
LEMMA ReplayEndsKeeps ==
  ASSUME IInv, NEW c \in Connections, ReplayEnds(c)
  PROVE  IInv' /\ LostForReason
<1>1. PICK s : s = target[c]
  OBVIOUS
<1>2. /\ TypeOK /\ browser \in [Connections -> Browsers] /\ queue \in [Connections -> Seq(Frames)]
      /\ MachineOK(c) /\ InStep(c) /\ ReplayOK(c)
  BY IInvIs DEF ReplayEnds, CaughtUp, ConnectionOK
<1>3. /\ s \in Sessions /\ SessionOK(s) /\ owner[s] = c /\ replaying[s] /\ Running(s)
      /\ reader[c] = "replaying" /\ queue[c] = <<>> /\ cursor[c] = nextOffset[s]
  BY <1>1, <1>2, IInvIs DEF MachineOK, ReplayEnds, CaughtUp, Replays, Holds
<1>4. /\ replaying' = [replaying EXCEPT ![s] = FALSE]
      /\ reader' = [reader EXCEPT ![c] = "serving"]
      /\ UNCHANGED <<life, owner, historyVars, copierVars, up, machines, target, queue, cursor, received>>
  BY <1>1 DEF ReplayEnds
<1>5. UNCHANGED <<life, owner, nextOffset, history, historyBytes, agentBytes, copier, chunk, sendTo,
                  up, machine, browser, target, queue, cursor, received>>
  BY <1>4 DEF historyVars, copierVars, machines
<1>6. OnlyAbout(c)
  BY <1>2, <1>4, <1>5 DEF OnlyAbout, Same, TypeOK
<1>7. TypeOK'
  <2>1. replaying' \in [Sessions -> BOOLEAN] /\ reader' \in [Connections ->
          {"idle", "opening", "serving", "replaying", "sending", "releasing", "ended"}]
    BY <1>2, <1>4 DEF TypeOK
  <2> QED BY <1>2, <1>5, <2>1 DEF TypeOK
<1>8. machine[c].Session = "OPEN" /\ ~machine[c].historyBegun
      /\ machine[c].nextOutput = nextOffset[s] /\ UpTo(c, cursor[c])
  BY <1>2, <1>3 DEF ReplayOK, MachineOK
<1>9. ~Carries(c, s)
  BY <1>3, HistoryAssumption DEF SessionOK, Carries, Serves
<1>10. \A t \in Sessions : SessionOK(t)'
  <2> TAKE t \in Sessions
  <2>1. SessionOK(t) /\ (owner[t] # NoConnection => owner[t] \in Connections)
    BY <1>2, IInvIs DEF TypeOK
  <2>2. CASE t # s
    <3>1. Steady(t)
      BY <1>2, <1>4, <1>5, <2>2 DEF Steady, TypeOK
    <3>2. ServesStill(t)
      BY <1>2, <1>3, <1>4, <1>5 DEF ServesStill, Serves, TypeOK
    <3>3. ReplaysStill(t)
      BY <1>1, <1>2, <1>4, <1>5, <2>2 DEF ReplaysStill, TypeOK
    <3> QED BY <1>2, <2>1, <3>1, <3>2, <3>3, SessionStays
  <2>3. CASE t = s
    <3>1. ServesStill(t)
      BY <1>2, <1>3, <1>4, <1>5 DEF ServesStill, Serves, TypeOK
    <3>2. copier[s] \in {"sending", "detaching"} =>
            sendTo[s] \in Connections /\ Serves(sendTo[s], s)'
      BY <1>3, <1>5, <2>3, <3>1 DEF SessionOK, ServesStill, Serves
    <3>3. Serves(c, s)' /\ ~replaying'[s] /\ owner'[s] = c
      BY <1>1, <1>2, <1>3, <1>4, <1>5 DEF Serves, TypeOK
    <3> QED BY <1>3, <1>5, <2>3, <3>2, <3>3 DEF SessionOK, Running, Serves
  <2> QED BY <2>2, <2>3
<1>11. ASSUME Grows
       PROVE  ConnectionOK(c)' /\ \A t \in Sessions : FeedOK(c, t)'
  <2>1. reader'[c] = "serving"
    BY <1>2, <1>4 DEF TypeOK
  <2>2. MachineOK(c)'
    BY <1>2, <1>3, <1>5, <1>8, <2>1 DEF MachineOK
  <2>3. InStep(c)'
    BY <1>2, <1>5 DEF InStep
  <2>4. \A t \in Sessions : FeedOK(c, t)'
    <3> TAKE t \in Sessions
    <3>1. Same(c)
      BY <1>5 DEF Same
    <3>2. CASE t # s
      <4>1. Feeds(c, t)' => Feeds(c, t) /\ (Carries(c, t)' <=> Carries(c, t))
        BY <1>2, <1>4, <1>5, <3>2 DEF Feeds, Carries, Watches, TypeOK
      <4> QED BY <1>5, <1>11, <3>1, <4>1, FeedStill
    <3>3. CASE t = s
      <4>1. PICK o \in Nat : o = cursor[c]
        BY <1>2, LimitsAre DEF TypeOK
      <4>2. UpTo(c, o)'
        BY <1>1, <1>3, <1>8, <1>11, <3>1, <4>1, UpToStays
      <4>3. ~Carries(c, s)'
        BY <1>5, <1>9 DEF Carries
      <4>4. machine'[c].nextOutput = o /\ o = nextOffset'[s] /\ ~machine'[c].historyBegun
        BY <1>3, <1>5, <1>8, <4>1
      <4>5. UpTo(c, machine[c].nextOutput)'
        BY <4>2, <4>4 DEF UpTo
      <4> QED BY <3>3, <4>3, <4>4, <4>5 DEF FeedOK
    <3> QED BY <3>2, <3>3
  <2> QED BY <2>1, <2>2, <2>3, <2>4 DEF ConnectionOK
<1>12. \A d \in Connections \ {c}, t \in Sessions :
         Feeds(d, t)' => Feeds(d, t) /\ (Carries(d, t)' <=> Carries(d, t))
  BY <1>2, <1>3, <1>4, <1>5 DEF Feeds, Carries, Watches, TypeOK
<1>13. \A t \in Sessions : /\ Running(t) => Running(t)'
                           /\ life[t] # "none" => life'[t] # "none"
  BY <1>5 DEF Running
<1>14. UNCHANGED historyVars /\ UNCHANGED chunk
       /\ browser' \in [Connections -> Browsers] /\ queue' \in [Connections -> Seq(Frames)]
  BY <1>2, <1>4, <1>5
<1> QED BY <1>6, <1>7, <1>10, <1>11, <1>12, <1>13, <1>14, ActiveStep

(* What a replay still owes: output that goes on where it has come to.     *)
LEMMA OwedIs ==
  ASSUME TypeOK, HistoryOK, NEW s \in Sessions, NEW at \in 0..MaxSequence, NEW frames,
         frames = Kept("terminal_output", s, at), Contiguous(frames, at, nextOffset[s]),
         at # nextOffset[s]
  PROVE  /\ frames \in Seq(Frames) /\ frames # <<>>
         /\ Script(frames, s, at)
         /\ \A i \in 1..Len(frames) : frames[i].type = "terminal_output"
         /\ Head(frames) \in Frames /\ Head(frames).type = "terminal_output"
         /\ Head(frames).session = s /\ Head(frames).from = at
<1>1. Listed(history) /\ Covered(Of(history, s), nextOffset[s])
      /\ nextOffset[s] \in 0..MaxSequence /\ nextOffset[s] \in Nat
      /\ "terminal_output" \in Messages
  BY StatesAre, LimitsAre DEF HistoryOK, TypeOK, FrameTypes
<1>2. /\ frames \in Seq(Frames)
      /\ \A i \in 1..Len(frames) :
           /\ frames[i].type = "terminal_output" /\ frames[i].session = s
           /\ frames[i].from < frames[i].to /\ frames[i].to <= nextOffset[s]
  <2>1. PICK type \in Messages : type = "terminal_output"
    BY <1>1
  <2>2. IsKept(frames, type, s, at)
    BY <2>1 DEF IsKept
  <2>3. /\ frames \in Seq(Frames)
        /\ \A i \in 1..Len(frames) :
             /\ frames[i].type = type /\ frames[i].session = s
             /\ frames[i].from < frames[i].to /\ frames[i].to <= nextOffset[s]
    BY <1>1, <2>2, KeptAre
  <2> QED BY <2>1, <2>3
<1>3. frames # <<>> /\ Len(frames) \in Nat /\ Len(frames) >= 1
  BY <1>2 DEF Contiguous
<1>4. \A i \in 1..Len(frames) : frames[i] \in Frames
  BY <1>2, <1>3
<1>5. /\ frames[1].from = at
      /\ \A i \in 1..Len(frames) - 1 : frames[i].to = frames[i + 1].from
  BY <1>3 DEF Contiguous
<1>6. \A i \in 1..Len(frames) : ReplayFrame(frames[i], s, at)
  <2> TAKE i \in 1..Len(frames)
  <2>1. frames[i].from \in 0..MaxSequence /\ frames[i].to \in 0..MaxSequence
    BY <1>4 DEF Frames
  <2>2. frames[i].from \in Nat /\ frames[i].to \in Nat
    BY <2>1, LimitsAre
  <2>3. /\ frames[i].type = "terminal_output" /\ frames[i].session = s
        /\ frames[i].from < frames[i].to /\ frames[i].to <= nextOffset[s]
    BY <1>2
  <2>4. frames[i].from <= frames[i].to /\ frames[i].to \in 0..nextOffset[s]
    BY <1>1, <2>2, <2>3
  <2> QED BY <2>1, <2>3, <2>4 DEF ReplayFrame
<1>7. \A i \in 1..Len(frames) - 1 : Follows(frames[i], frames[i + 1])
  BY <1>2, <1>3, <1>5 DEF Follows
<1>8. Script(frames, s, at)
  BY <1>2, <1>3, <1>6, <1>7 DEF Script
<1>9. Head(frames) = frames[1]
  BY <1>2, <1>3
<1> QED BY <1>2, <1>3, <1>4, <1>5, <1>8, <1>9

(* Queues of frames have the types of a frame.                             *)
LEMMA QueueTypes ==
  ASSUME NEW q \in [Connections -> Seq(Frames)]
  PROVE  \A c \in Connections : \A i \in 1..Len(q[c]) :
           /\ q[c][i].type \in Messages
           /\ [from |-> q[c][i].from, to |-> q[c][i].to] \in Chunks
<1>1. ASSUME NEW c \in Connections, NEW i \in 1..Len(q[c])
      PROVE  q[c][i] \in Frames
  OBVIOUS
<1>2. \A f \in Frames : f.type \in Messages /\ [from |-> f.from, to |-> f.to] \in Chunks
  BY DEF Frames, Chunks
<1> QED BY <1>1, <1>2

LEMMA ReplayContinuesKeeps ==
  ASSUME IInv, NEW c \in Connections, ReplayContinues(c)
  PROVE  IInv' /\ LostForReason
<1>1. PICK s : s = target[c]
  OBVIOUS
<1>2. /\ TypeOK /\ browser \in [Connections -> Browsers] /\ queue \in [Connections -> Seq(Frames)]
      /\ MachineOK(c) /\ InStep(c) /\ ReplayOK(c) /\ HistoryOK
  BY IInvIs DEF ReplayContinues, CaughtUp, ConnectionOK
<1>3. /\ s \in Sessions /\ owner[s] = c /\ replaying[s] /\ Running(s)
      /\ reader[c] = "replaying" /\ queue[c] = <<>>
  BY <1>1, <1>2 DEF MachineOK, ReplayContinues, CaughtUp, Replays, Holds
<1>4. UNCHANGED <<registryVars, historyVars, copierVars, up, machines, reader, target, cursor, received>>
  BY DEF ReplayContinues
<1>5. UNCHANGED <<life, owner, replaying, nextOffset, history, historyBytes, agentBytes, copier,
                  chunk, sendTo, up, machine, browser, reader, target, cursor, received>>
  BY <1>4 DEF historyVars, copierVars, machines, registryVars
<1>6. PICK frames : frames = Owed(c)
  OBVIOUS
<1>7. PICK at : at = cursor[c]
  OBVIOUS
<1>8. at \in 0..MaxSequence
  BY <1>2, <1>7 DEF TypeOK
<1>9. /\ frames = Kept("terminal_output", s, at) /\ Contiguous(frames, at, nextOffset[s])
      /\ at # nextOffset[s] /\ queue' = [queue EXCEPT ![c] = frames]
  BY <1>1, <1>6, <1>7 DEF ReplayContinues, StillKept, Owed
<1>10. /\ frames \in Seq(Frames) /\ frames # <<>>
       /\ Script(frames, s, at)
       /\ \A i \in 1..Len(frames) : frames[i].type = "terminal_output"
       /\ Head(frames) \in Frames /\ Head(frames).type = "terminal_output"
       /\ Head(frames).session = s /\ Head(frames).from = at
  BY <1>2, <1>3, <1>8, <1>9, OwedIs
<1>11. queue' \in [Connections -> Seq(Frames)] /\ queue'[c] = frames
       /\ \A d \in Connections \ {c} : queue'[d] = queue[d]
  BY <1>2, <1>9, <1>10
<1>12. OnlyAbout(c) /\ Same(c)
  BY <1>5, <1>11 DEF OnlyAbout, Same
<1>13. TypeOK'
  <2>1. \A d \in Connections : \A i \in 1..Len(queue'[d]) :
          /\ queue'[d][i].type \in Messages
          /\ [from |-> queue'[d][i].from, to |-> queue'[d][i].to] \in Chunks
    BY <1>11, QueueTypes
  <2> QED BY <1>2, <1>5, <2>1 DEF TypeOK
<1>14. \A t \in Sessions : SessionOK(t)'
  BY <1>5, IInvIs DEF SessionOK, Serves, Running
<1>15. ASSUME Grows
       PROVE  ConnectionOK(c)' /\ \A t \in Sessions : FeedOK(c, t)'
  <2>1. MachineOK(c)' /\ InStep(c)'
    <3>1. GoesOn(c)
      BY <1>5 DEF GoesOn
    <3> QED BY <1>2, <1>12, <1>15, <3>1, MachineStays
  <2>2. \A t \in Sessions : FeedOK(c, t)'
    <3> TAKE t \in Sessions
    <3>1. Feeds(c, t)' => Feeds(c, t) /\ (Carries(c, t)' <=> Carries(c, t))
      BY <1>5 DEF Feeds, Carries, Watches
    <3> QED BY <1>5, <1>12, <1>15, <3>1, FeedStill
  <2>3. ReplayOK(c)'
    <3>1. Script(queue[c], target[c], cursor[c])'
      <4>1. Script(frames, s, at)'
        BY <1>3, <1>10, <1>15, ScriptStays
      <4> QED BY <1>1, <1>5, <1>7, <1>11, <4>1 DEF Script, ReplayFrame, Follows
    <3>2. /\ machine[c].Session = "OPEN" /\ ~machine[c].historyBegun
          /\ machine[c].nextOutput = at /\ UpTo(c, at) /\ at <= nextOffset[s]
      BY <1>1, <1>2, <1>3, <1>7 DEF ReplayOK, MachineOK
    <3>3. UpTo(c, cursor[c])'
      <4>1. at \in Nat
        BY <1>8, LimitsAre
      <4>2. UpTo(c, at)'
        BY <1>1, <1>3, <1>12, <1>15, <3>2, <4>1, UpToStays
      <4> QED BY <1>5, <1>7, <4>2 DEF UpTo
    <3>4. Accepted(machine[c], Head(frames))
      <4>1. machine[c].sessionID = s
        BY <1>1, <1>2, <3>2 DEF MachineOK
      <4>2. Head(frames).to <= MaxSequence
        BY <1>10, LimitsAre DEF Frames
      <4>3. SemanticsAllow(machine[c], Head(frames))
        BY <1>10, <3>2, <4>1, <4>2 DEF SemanticsAllow
      <4>4. Moves(machine[c].Session, Head(frames).type, "OPEN")
            /\ Head(frames).type \in FrameTypes
        BY <1>10, <3>2 DEF Moves, FrameTypes
      <4> QED BY <4>3, <4>4, AppliedIs
    <3> QED BY <1>1, <1>5, <1>7, <1>10, <1>11, <3>1, <3>2, <3>3, <3>4 DEF ReplayOK
  <2>4. queue'[c] # <<>>
    BY <1>10, <1>11
  <2> QED BY <2>1, <2>2, <2>3, <2>4 DEF ConnectionOK
<1>16. \A d \in Connections \ {c}, t \in Sessions :
         Feeds(d, t)' => Feeds(d, t) /\ (Carries(d, t)' <=> Carries(d, t))
  BY <1>5 DEF Feeds, Carries, Watches
<1>17. \A t \in Sessions : /\ Running(t) => Running(t)'
                           /\ life[t] # "none" => life'[t] # "none"
  BY <1>5 DEF Running
<1>18. UNCHANGED historyVars /\ UNCHANGED chunk /\ browser' \in [Connections -> Browsers]
  BY <1>2, <1>4, <1>5
<1> QED BY <1>11, <1>12, <1>13, <1>14, <1>15, <1>16, <1>17, <1>18, ActiveStep

-----------------------------------------------------------------------------
(* A frame of a replay.                                                    *)
HasFrame(s, c, f, m, b) ==
  /\ reader[c] = "sending" /\ s = target[c] /\ f = Head(queue[c])
  /\ m = machine[c] /\ b = browser[c]

LEMMA FrameIs ==
  ASSUME IInv, NEW s, NEW c \in Connections, NEW f, NEW m, NEW b, HasFrame(s, c, f, m, b)
  PROVE  /\ s \in Sessions /\ f \in Frames /\ f.type \in FrameTypes \ {"session_opened"}
         /\ f.session = s /\ f.from \in Nat /\ f.to \in Nat /\ f.from <= f.to
         /\ f.to <= nextOffset[s] /\ f.to <= MaxSequence
         /\ ReplayFrame(f, s, cursor[c]) /\ cursor[c] \in Nat
         /\ m \in Machines /\ b \in Browsers /\ m.sessionID = s
         /\ SemanticsAllow(m, f) /\ Accepted(m, f)
         /\ Sent(c, f) <=> up[c]
         /\ Len(queue[c]) \in Nat /\ Len(queue[c]) >= 1 /\ f = queue[c][1]
<1> USE DEF HasFrame
<1>1. /\ TypeOK /\ browser \in [Connections -> Browsers] /\ queue \in [Connections -> Seq(Frames)]
      /\ MachineOK(c) /\ ReplayOK(c) /\ queue[c] # <<>>
  BY IInvIs DEF ConnectionOK
<1>2. queue[c] \in Seq(Frames)
  BY <1>1
<1>3. /\ Len(queue[c]) \in Nat /\ Len(queue[c]) >= 1 /\ f = queue[c][1] /\ f \in Frames
  BY <1>1, <1>2
<1>4. s \in Sessions /\ m.sessionID = s
  BY <1>1 DEF MachineOK, ReplayOK
<1>5. ReplayFrame(f, s, cursor[c])
  BY <1>1, <1>3 DEF ReplayOK, Script
<1>6. Accepted(m, f)
  BY <1>1 DEF ReplayOK
<1>7. nextOffset[s] \in 0..MaxSequence /\ m \in Machines /\ b \in Browsers /\ cursor[c] \in Nat
  BY <1>1, <1>4, LimitsAre DEF TypeOK, Machines
<1>8. /\ f.type \in FrameTypes \ {"session_opened"} /\ f.session = s /\ f.from \in Nat
      /\ f.to \in Nat /\ f.from <= f.to /\ f.to <= nextOffset[s] /\ f.to <= MaxSequence
  BY <1>5, <1>7, LimitsAre DEF ReplayFrame, FrameTypes
<1> QED BY <1>3, <1>4, <1>5, <1>6, <1>7, <1>8 DEF Accepted, Sent

(* The state it takes both machines to.                                    *)
LEMMA FrameMoves ==
  ASSUME IInv, NEW s, NEW c \in Connections, NEW f, NEW m, NEW b, HasFrame(s, c, f, m, b)
  PROVE  \E next : Moves(m.Session, f.type, next)
<1>1. f.type \in FrameTypes /\ SemanticsAllow(m, f) /\ Accepted(m, f)
  BY FrameIs
<1> QED BY <1>1, AppliedIs

(* What Apply makes of it.                                                 *)
AfterFrame(m, f, next) ==
  [Session |-> next, sessionID |-> f.session,
   nextOutput |-> IF f.type = "terminal_output" THEN f.to ELSE m.nextOutput,
   historyBegun |-> (m.historyBegun /\ f.type # "history_end") \/ f.type = "history_begin",
   historyCursor |-> IF f.type = "history_begin" THEN f.from
                     ELSE IF f.type = "history_chunk" THEN f.to
                     ELSE m.historyCursor,
   historyEnd |-> IF f.type = "history_begin" THEN f.to ELSE m.historyEnd]

LEMMA FrameApplied ==
  ASSUME IInv, NEW s, NEW c \in Connections, NEW f, NEW m, NEW b, HasFrame(s, c, f, m, b),
         NEW next, Moves(m.Session, f.type, next)
  PROVE  Applied(m, f) = AfterFrame(m, f, next)
<1>1. /\ f \in Frames /\ f.type \in FrameTypes /\ SemanticsAllow(m, f) /\ m \in Machines
  BY FrameIs
<1>2. Applied(m, f) = [SemanticsApplied(m, f) EXCEPT !.Session = next]
  BY <1>1, AppliedIs
<1>3. [SemanticsApplied(m, f) EXCEPT !.Session = next] = AfterFrame(m, f, next)
  BY <1>1, SemanticsAre DEF AfterFrame
<1> QED BY <1>2, <1>3

(* The browser's machine allows it as well.                                *)
LEMMA FrameAllowed ==
  ASSUME IInv, NEW s, NEW c \in Connections, NEW f, NEW m, NEW b, HasFrame(s, c, f, m, b), up[c]
  PROVE  /\ Browser!OffsetsAllowed(b.offsets, f)
         /\ b.states.connectionState = "READY" /\ b.states.sessionId \in {NoSession, s}
         /\ b.states.sessionState = m.Session /\ ~b.refused
<1>1. /\ s \in Sessions /\ f.from \in Nat /\ f.to \in Nat /\ f.to <= MaxSequence
      /\ SemanticsAllow(m, f) /\ ReplayFrame(f, s, cursor[c]) /\ m \in Machines /\ b \in Browsers
      /\ f.type \in FrameTypes
  BY FrameIs
<1> USE DEF HasFrame
<1>2. MachineOK(c) /\ InStep(c) /\ ReplayOK(c)
  BY IInvIs DEF ConnectionOK
<1>3. /\ b.states.connectionState = "READY" /\ b.states.sessionId \in {NoSession, s}
      /\ b.states.sessionState = m.Session /\ ~b.refused
      /\ b.offsets.begun = m.historyBegun
      /\ m.historyBegun => b.offsets.cursor = m.historyCursor /\ b.offsets.endOffset = m.historyEnd
  BY <1>2 DEF InStep
<1>4. PICK next : Moves(m.Session, f.type, next)
  <2> HIDE DEF HasFrame
  <2> QED BY FrameMoves
<1>5. Browser!OffsetsAllowed(b.offsets, f)
  <2>1. CASE f.type = "session_reopened"
    BY <2>1 DEF Browser!OffsetsAllowed
  <2>2. CASE f.type = "history_begin"
    <3>1. m.Session = "REPLAYING" /\ ~m.historyBegun
      BY <1>1, <1>4, <2>2 DEF Moves, SemanticsAllow
    <3>2. ~b.offsets.nextOutputOffsetKnown
      BY <1>2, <3>1 DEF ReplayOK
    <3> QED BY <1>1, <2>2, <3>2 DEF Browser!OffsetsAllowed, SemanticsAllow
  <2>3. CASE f.type = "history_chunk"
    <3>1. m.historyBegun /\ f.from = m.historyCursor
          /\ f.to - f.from <= m.historyEnd - m.historyCursor
      BY <1>1, <2>3 DEF SemanticsAllow
    <3>2. m.historyEnd \in Nat /\ m.historyCursor \in Nat
      BY <1>1, LimitsAre DEF Machines
    <3>3. f.to <= m.historyEnd
      BY <1>1, <3>1, <3>2
    <3> QED BY <1>1, <1>3, <2>3, <3>1, <3>3 DEF Browser!OffsetsAllowed
  <2>4. CASE f.type = "history_end"
    BY <1>1, <1>3, <2>4 DEF Browser!OffsetsAllowed, SemanticsAllow
  <2>5. CASE f.type = "terminal_output"
    <3>1. m.Session = "OPEN" /\ ~m.historyBegun /\ f.from = m.nextOutput
      BY <1>1, <1>2, <1>4, <2>5 DEF Moves, SemanticsAllow, MachineOK
    <3>2. b.offsets.nextOutputOffset = f.from
      BY <1>2, <3>1 DEF ReplayOK, UpTo
    <3> QED BY <1>1, <2>5, <3>2 DEF Browser!OffsetsAllowed
  <2> QED BY <1>1, <1>4, <2>1, <2>2, <2>3, <2>4, <2>5, FrameIs DEF FrameTypes, ReplayFrame
<1> QED BY <1>3, <1>5

(* And ends in the same state.                                             *)
TakenAs(t, offsets, f, next, s) ==
  /\ t \in Browsers /\ ~t.refused
  /\ t.offsets = Browser!OffsetsApplied(offsets, f)
  /\ t.states.connectionState = "READY" /\ t.states.sessionState = next
  /\ t.states.sessionId \in {NoSession, s}

LEMMA FrameTaken ==
  ASSUME IInv, NEW s, NEW c \in Connections, NEW f, NEW m, NEW b, HasFrame(s, c, f, m, b), up[c],
         NEW next, Moves(m.Session, f.type, next)
  PROVE  TakenAs(Takes(b, f), b.offsets, f, next, s)
<1>1. /\ f \in Frames /\ f.type \in FrameTypes /\ f.session = s /\ s \in Sessions /\ b \in Browsers
  BY FrameIs
<1>2. /\ Browser!OffsetsAllowed(b.offsets, f)
      /\ b.states.connectionState = "READY" /\ b.states.sessionId \in {NoSession, f.session}
      /\ Moves(b.states.sessionState, f.type, next) /\ ~b.refused
  BY <1>1, FrameAllowed
<1>3. Takes(b, f) \in Browsers
  BY <1>1, <1>2, TakenType
<1> DEFINE id == IF f.type \in {"session_opened", "session_reopened"}
                 THEN f.session ELSE b.states.sessionId
           offsets == Browser!OffsetsApplied(b.offsets, f)
<1>4. Takes(b, f) = [states |-> [connectionState |-> "READY", sessionState |-> next,
                                 sessionId |-> id],
                     offsets |-> offsets, refused |-> b.refused]
  BY <1>1, <1>2, TakesIs
<1>5. id \in {NoSession, s}
  BY <1>1, <1>2
<1> HIDE DEF id, offsets
<1> QED BY <1>2, <1>3, <1>4, <1>5 DEF offsets, TakenAs

(* What is left of a script when its first frame is out.                   *)
LEMMA ScriptTail ==
  ASSUME NEW q \in Seq(Frames), q # <<>>, NEW s, NEW end, Script(q, s, end)
  PROVE  /\ Tail(q) \in Seq(Frames) /\ Script(Tail(q), s, end)
         /\ Tail(q) = <<>> => Head(q).type \in {"history_end", "terminal_output"}
         /\ Tail(q) # <<>> => /\ Follows(Head(q), Head(Tail(q)))
                              /\ ReplayFrame(Head(Tail(q)), s, end)
         /\ \A i \in 1..Len(Tail(q)) : \E j \in 1..Len(q) : Tail(q)[i] = q[j]
<1>1. /\ Len(q) \in Nat /\ Len(q) >= 1 /\ Tail(q) \in Seq(Frames) /\ Len(Tail(q)) = Len(q) - 1
      /\ Head(q) = q[1] /\ \A i \in 1..Len(Tail(q)) : Tail(q)[i] = q[i + 1]
  OBVIOUS
<1>2. Tail(q) = <<>> <=> Len(q) = 1
  <2>1. \A t \in Seq(Frames) : t = <<>> <=> Len(t) = 0
    BY EmptySeq
  <2>2. Tail(q) = <<>> <=> Len(Tail(q)) = 0
    BY <1>1, <2>1
  <2> QED BY <1>1, <2>2
<1>3. /\ \A i \in 1..Len(q) : ReplayFrame(q[i], s, end)
      /\ \A i \in 1..Len(q) - 1 : Follows(q[i], q[i + 1])
      /\ q[Len(q)].type \in {"history_end", "terminal_output"}
  BY DEF Script
<1>4. \A i \in 1..Len(Tail(q)) : i + 1 \in 1..Len(q) /\ Tail(q)[i] = q[i + 1]
  BY <1>1
<1>5. \A i \in 1..Len(Tail(q)) - 1 : /\ i + 1 \in 1..Len(q) - 1
                                     /\ Tail(q)[i] = q[i + 1] /\ Tail(q)[i + 1] = q[(i + 1) + 1]
  BY <1>1
<1>6. Tail(q) # <<>> => /\ Head(Tail(q)) = q[2] /\ 1 \in 1..Len(q) - 1 /\ 2 \in 1..Len(q)
                        /\ Tail(q)[Len(Tail(q))] = q[Len(q)]
  BY <1>1, <1>2
<1>7. Script(Tail(q), s, end)
  <2>1. \A i \in 1..Len(Tail(q)) : ReplayFrame(Tail(q)[i], s, end)
    BY <1>3, <1>4
  <2>2. \A i \in 1..Len(Tail(q)) - 1 : Follows(Tail(q)[i], Tail(q)[i + 1])
    BY <1>3, <1>5
  <2>3. Tail(q) # <<>> => Tail(q)[Len(Tail(q))].type \in {"history_end", "terminal_output"}
    BY <1>3, <1>6
  <2> QED BY <2>1, <2>2, <2>3 DEF Script
<1>8. Tail(q) = <<>> => Head(q).type \in {"history_end", "terminal_output"}
  BY <1>1, <1>2, <1>3
<1>9. Tail(q) # <<>> => /\ Follows(Head(q), Head(Tail(q)))
                        /\ ReplayFrame(Head(Tail(q)), s, end)
  <2>1. \A i \in 1..Len(q) - 1 : i = 1 => Follows(q[1], q[2])
    BY <1>3
  <2> QED BY <1>1, <1>3, <1>6, <2>1
<1> QED BY <1>1, <1>4, <1>7, <1>8, <1>9

(* The end of the snapshot is only a matter of its frames.                 *)
LEMMA OutputScript ==
  ASSUME NEW q, NEW s, NEW end, NEW other, Script(q, s, end),
         \A i \in 1..Len(q) : q[i].type = "terminal_output"
  PROVE  Script(q, s, other)
BY DEF Script, ReplayFrame

(* The machine that has let a frame of a replay out accepts the next.      *)
LEMMA NextAccepted ==
  ASSUME NEW m \in Machines, NEW f \in Frames, NEW g \in Frames, NEW s \in Sessions,
         NEW end \in Nat, NEW next,
         m.sessionID = s, m.nextOutput = end, m.historyBegun => m.Session = "REPLAYING",
         m.historyBegun => m.historyEnd = end,
         f.session = s, g.session = s, SemanticsAllow(m, f), Moves(m.Session, f.type, next),
         ReplayFrame(f, s, end), ReplayFrame(g, s, end), Follows(f, g)
  PROVE  Accepted(AfterFrame(m, f, next), g)
<1> DEFINE n == AfterFrame(m, f, next)
<1>1. /\ f.from \in Nat /\ f.to \in Nat /\ g.from \in Nat /\ g.to \in Nat /\ g.to <= MaxSequence
      /\ m.historyCursor \in Nat /\ m.historyEnd \in Nat /\ g.from <= g.to
  BY LimitsAre DEF Frames, Machines, ReplayFrame
<1>2. /\ n.Session = next /\ n.sessionID = s
      /\ n.nextOutput = IF f.type = "terminal_output" THEN f.to ELSE end
      /\ n.historyBegun = ((m.historyBegun /\ f.type # "history_end") \/ f.type = "history_begin")
      /\ n.historyCursor = IF f.type = "history_begin" THEN f.from
                           ELSE IF f.type = "history_chunk" THEN f.to ELSE m.historyCursor
      /\ n.historyEnd = IF f.type = "history_begin" THEN f.to ELSE m.historyEnd
  BY DEF AfterFrame
<1>3. SemanticsAllow(n, g) /\ g.type \in FrameTypes /\ \E to : Moves(next, g.type, to)
  <2> HIDE DEF n
  <2>1. CASE f.type = "session_reopened" /\ g.type = "history_begin"
    <3>1. next = "REPLAYING" /\ ~m.historyBegun
      BY <2>1 DEF Moves
    <3>2. g.to = end /\ g.to - g.from <= MaxSessionHistory
      BY <2>1 DEF ReplayFrame
    <3>3. SemanticsAllow(n, g)
      BY <1>1, <1>2, <2>1, <3>1, <3>2 DEF SemanticsAllow
    <3>4. Moves(next, g.type, "REPLAYING") /\ g.type \in FrameTypes
      BY <2>1, <3>1 DEF Moves, FrameTypes
    <3> QED BY <3>3, <3>4
  <2>2. CASE f.type = "history_begin" /\ g.type \in {"history_chunk", "history_end"} /\ g.from = f.from
    <3>1. next = "REPLAYING" /\ f.to = end
      BY <2>2 DEF Moves, ReplayFrame
    <3>2. SemanticsAllow(n, g)
      <4>1. n.historyBegun /\ n.historyCursor = f.from /\ n.historyEnd = end
        BY <1>2, <2>2, <3>1
      <4>2. g.type = "history_chunk" => g.to <= end
        BY DEF ReplayFrame
      <4>3. g.type = "history_end" => g.from = end /\ g.to = end
        BY DEF ReplayFrame
      <4> QED BY <1>1, <1>2, <2>2, <4>1, <4>2, <4>3 DEF SemanticsAllow
    <3>3. (Moves(next, g.type, "REPLAYING") \/ Moves(next, g.type, "OPEN")) /\ g.type \in FrameTypes
      BY <2>2, <3>1 DEF Moves, FrameTypes
    <3> QED BY <3>2, <3>3
  <2>3. CASE f.type = "history_chunk" /\ g.type \in {"history_chunk", "history_end"} /\ g.from = f.to
    <3>1. next = "REPLAYING" /\ m.historyBegun
      BY <2>3 DEF Moves, SemanticsAllow
    <3>2. SemanticsAllow(n, g)
      <4>1. n.historyBegun /\ n.historyCursor = f.to /\ n.historyEnd = end
        BY <1>2, <2>3, <3>1
      <4>2. g.type = "history_chunk" => g.to <= end
        BY DEF ReplayFrame
      <4>3. g.type = "history_end" => g.from = end /\ g.to = end
        BY DEF ReplayFrame
      <4> QED BY <1>1, <1>2, <2>3, <4>1, <4>2, <4>3 DEF SemanticsAllow
    <3>3. (Moves(next, g.type, "REPLAYING") \/ Moves(next, g.type, "OPEN")) /\ g.type \in FrameTypes
      BY <2>3, <3>1 DEF Moves, FrameTypes
    <3> QED BY <3>2, <3>3
  <2>4. CASE f.type = "terminal_output" /\ g.type = "terminal_output" /\ g.from = f.to
    <3>1. next = "OPEN"
      BY <2>4 DEF Moves
    <3>2. SemanticsAllow(n, g)
      BY <1>1, <1>2, <2>4 DEF SemanticsAllow
    <3>3. Moves(next, g.type, "OPEN") /\ g.type \in FrameTypes
      BY <2>4, <3>1 DEF Moves, FrameTypes
    <3> QED BY <3>2, <3>3
  <2> QED BY <2>1, <2>2, <2>3, <2>4 DEF Follows
<1>4. PICK to : Moves(next, g.type, to)
  BY <1>3
<1>5. Moves(n.Session, g.type, to)
  BY <1>2, <1>4
<1> HIDE DEF n
<1>6. Accepted(n, g)
  BY <1>3, <1>5, AppliedIs
<1> QED BY <1>6 DEF n

(* The step that sends it, or fails to, as the connection sees it.         *)
FrameSent(s, c, f, m, b, next) ==
  /\ HasFrame(s, c, f, m, b) /\ Moves(m.Session, f.type, next)
  /\ machine'[c] = AfterFrame(m, f, next)
  /\ target'[c] = target[c] /\ up'[c] = up[c] /\ UNCHANGED historyVars
  /\ received'[c] = IF up[c] /\ CarriesOutput(f)
                    THEN received[c] \cup f.from .. f.to - 1 ELSE received[c]
  /\ browser'[c] = IF up[c] THEN Takes(b, f) ELSE b
  /\ reader'[c] = IF up[c] THEN "replaying" ELSE "releasing"
  /\ queue'[c] = IF up[c] THEN Tail(queue[c]) ELSE queue[c]
  /\ cursor'[c] = IF up[c] /\ f.type = "terminal_output" THEN f.to ELSE cursor[c]

(* What is known of the connection before, and of the machine after it.    *)
FrameFact(s, c, f, m, n, next) ==
  /\ n.Session = next /\ n.sessionID = s /\ next \in {"REPLAYING", "OPEN"}
  /\ n.nextOutput = IF f.type = "terminal_output" THEN f.to ELSE cursor[c]
  /\ f.type \in {"session_reopened", "history_begin", "history_chunk", "history_end",
                 "terminal_output"}
  /\ f.type = "session_reopened" =>
       /\ m.Session = "REOPENING" /\ next = "REPLAYING"
       /\ ~m.historyBegun /\ ~n.historyBegun
  /\ f.type = "history_begin" =>
       /\ m.Session = "REPLAYING" /\ next = "REPLAYING" /\ ~m.historyBegun /\ n.historyBegun
       /\ n.historyCursor = f.from /\ n.historyEnd = cursor[c]
       /\ f.to = cursor[c] /\ f.from <= Start(history, s)
  /\ f.type = "history_chunk" =>
       /\ m.Session = "REPLAYING" /\ next = "REPLAYING" /\ m.historyBegun /\ n.historyBegun
       /\ n.historyCursor = f.to /\ n.historyEnd = cursor[c] /\ m.historyEnd = cursor[c]
       /\ m.historyCursor = f.from /\ f.from < f.to /\ f.to <= cursor[c]
  /\ f.type = "history_end" =>
       /\ m.Session = "REPLAYING" /\ next = "OPEN" /\ m.historyBegun /\ ~n.historyBegun
       /\ m.historyCursor = cursor[c] /\ f.to = cursor[c]
  /\ f.type = "terminal_output" =>
       /\ m.Session = "OPEN" /\ next = "OPEN" /\ ~m.historyBegun /\ ~n.historyBegun
       /\ f.from = cursor[c] /\ f.from < f.to

LEMMA FrameFacts ==
  ASSUME IInv, NEW s, NEW c \in Connections, NEW f, NEW m, NEW b, NEW next,
         FrameSent(s, c, f, m, b, next)
  PROVE  FrameFact(s, c, f, m, machine'[c], next)
<1> DEFINE n == machine'[c]
<1>1. /\ s \in Sessions /\ f \in Frames /\ f.session = s /\ f.from \in Nat /\ f.to \in Nat
      /\ ReplayFrame(f, s, cursor[c]) /\ cursor[c] \in Nat
      /\ m \in Machines /\ SemanticsAllow(m, f)
  BY FrameIs DEF FrameSent
<1>2. MachineOK(c) /\ ReplayOK(c) /\ m = machine[c]
  BY IInvIs DEF FrameSent, HasFrame, ConnectionOK
<1>3. /\ m.nextOutput = cursor[c]
      /\ m.historyBegun => m.Session = "REPLAYING" /\ m.historyEnd = cursor[c]
  BY <1>2 DEF MachineOK, ReplayOK
<1>4. /\ n.Session = next /\ n.sessionID = s
      /\ n.nextOutput = IF f.type = "terminal_output" THEN f.to ELSE cursor[c]
      /\ n.historyBegun = ((m.historyBegun /\ f.type # "history_end") \/ f.type = "history_begin")
      /\ n.historyCursor = IF f.type = "history_begin" THEN f.from
                           ELSE IF f.type = "history_chunk" THEN f.to ELSE m.historyCursor
      /\ n.historyEnd = IF f.type = "history_begin" THEN f.to ELSE m.historyEnd
  BY <1>1, <1>3 DEF FrameSent, AfterFrame
<1>5. Moves(m.Session, f.type, next)
  BY DEF FrameSent
<1>6. /\ f.type \in {"session_reopened", "history_begin", "history_chunk", "history_end",
                      "terminal_output"}
      /\ next \in {"REPLAYING", "OPEN"} /\ m.historyBegun \in BOOLEAN
  BY <1>1, <1>5 DEF ReplayFrame, Machines, Moves
<1> HIDE DEF FrameSent
<1>7. CASE f.type = "session_reopened"
  BY <1>3, <1>4, <1>5, <1>6, <1>7 DEF FrameFact, Moves
<1>8. CASE f.type = "history_begin"
  BY <1>1, <1>3, <1>4, <1>5, <1>6, <1>8 DEF FrameFact, Moves, ReplayFrame, SemanticsAllow
<1>9. CASE f.type = "history_chunk"
  BY <1>1, <1>3, <1>4, <1>5, <1>6, <1>9 DEF FrameFact, Moves, ReplayFrame, SemanticsAllow
<1>10. CASE f.type = "history_end"
  BY <1>1, <1>3, <1>4, <1>5, <1>6, <1>10 DEF FrameFact, Moves, ReplayFrame, SemanticsAllow
<1>11. CASE f.type = "terminal_output"
  BY <1>1, <1>3, <1>4, <1>5, <1>6, <1>11 DEF FrameFact, Moves, ReplayFrame, SemanticsAllow
<1> QED BY <1>6, <1>7, <1>8, <1>9, <1>10, <1>11 DEF FrameFact

(* The agent's machine.                                                    *)
LEMMA FrameMachineOK ==
  ASSUME IInv, NEW s, NEW c \in Connections, NEW f, NEW m, NEW b, NEW next,
         FrameSent(s, c, f, m, b, next), Grows
  PROVE  MachineOK(c)'
<1> DEFINE n == machine'[c]
<1>1. /\ s \in Sessions /\ f.from \in Nat /\ f.to \in Nat /\ f.from <= f.to
      /\ f.to <= nextOffset[s] /\ cursor[c] \in Nat
  BY FrameIs DEF FrameSent
<1>2. MachineOK(c) /\ target[c] = s /\ reader[c] = "sending" /\ TypeOK
  BY IInvIs DEF FrameSent, HasFrame, ConnectionOK
<1>3. target'[c] = s /\ reader'[c] \in {"replaying", "releasing"} /\ nextOffset' = nextOffset
  BY <1>2 DEF FrameSent, historyVars
<1>4. s # NoSession /\ life'[s] # "none"
  BY <1>1, <1>2, HistoryAssumption DEF MachineOK, Grows
<1>5. \A o \in received'[c] : target'[c] # NoSession /\ o < nextOffset'[s]
  <2>1. \A o \in received[c] : o < nextOffset[s]
    BY <1>2 DEF MachineOK
  <2>2. nextOffset[s] \in Nat
    BY <1>1 DEF Grows
  <2>3. \A o \in f.from .. f.to - 1 : o < nextOffset[s]
    BY <1>1, <2>2
  <2> QED BY <1>3, <1>4, <2>1, <2>3 DEF FrameSent
<1>6. /\ n.Session \in {"REPLAYING", "OPEN"} /\ n.sessionID = s
      /\ n.historyBegun => /\ n.Session = "REPLAYING" /\ n.historyCursor <= n.historyEnd
                           /\ n.historyEnd = n.nextOutput
  <2>1. FrameFact(s, c, f, m, n, next)
    BY FrameFacts
  <2> HIDE DEF n
  <2> QED BY <1>1, <2>1 DEF FrameFact
<1> HIDE DEF n
<1>7. MachineOK(c)'
  BY <1>1, <1>3, <1>4, <1>5, <1>6 DEF MachineOK, n
<1> QED BY <1>7

(* The browser's.                                                          *)
LEMMA FrameInStep ==
  ASSUME IInv, NEW s, NEW c \in Connections, NEW f, NEW m, NEW b, NEW next,
         FrameSent(s, c, f, m, b, next)
  PROVE  /\ InStep(c)'
         /\ up[c] => browser'[c].offsets = Browser!OffsetsApplied(b.offsets, f)
         /\ up[c] => b.offsets.begun = m.historyBegun
         /\ b.offsets \in [nextOutputOffset : Offsets, nextOutputOffsetKnown : BOOLEAN,
                           begun : BOOLEAN, cursor : Offsets, endOffset : Offsets]
<1> DEFINE n == machine'[c]
           t == browser'[c]
<1>1. s \in Sessions /\ b \in Browsers /\ HasFrame(s, c, f, m, b) /\ m \in Machines
  BY FrameIs DEF FrameSent
<1>2. InStep(c) /\ target[c] = s /\ b = browser[c] /\ m = machine[c]
  BY IInvIs DEF FrameSent, HasFrame, ConnectionOK
<1>3. b.offsets \in [nextOutputOffset : Offsets, nextOutputOffsetKnown : BOOLEAN,
                     begun : BOOLEAN, cursor : Offsets, endOffset : Offsets]
  BY <1>1 DEF Browsers
<1>4. CASE ~up[c]
  <2>1. t = b /\ ~up'[c] /\ target'[c] = s
    BY <1>2, <1>4 DEF FrameSent
  <2> QED BY <1>2, <1>3, <1>4, <2>1 DEF InStep
<1>5. CASE up[c]
  <2>1. t = Takes(b, f) /\ up'[c] /\ target'[c] = s
    BY <1>2, <1>5 DEF FrameSent
  <2>2. Moves(m.Session, f.type, next)
    BY DEF FrameSent
  <2>3. /\ ~t.refused
        /\ t.offsets = Browser!OffsetsApplied(b.offsets, f)
        /\ t.states.connectionState = "READY" /\ t.states.sessionState = next
        /\ t.states.sessionId \in {NoSession, s}
    <3>1. TakenAs(Takes(b, f), b.offsets, f, next, s)
      BY <1>1, <1>5, <2>2, FrameTaken
    <3> QED BY <2>1, <3>1 DEF TakenAs
  <2>4. /\ b.offsets.begun = m.historyBegun
        /\ m.historyBegun => /\ b.offsets.cursor = m.historyCursor
                             /\ b.offsets.endOffset = m.historyEnd
    BY <1>2, <1>5 DEF InStep
  <2>5. /\ n.Session = next
        /\ t.offsets.begun = n.historyBegun
        /\ n.historyBegun => /\ t.offsets.cursor = n.historyCursor
                             /\ t.offsets.endOffset = n.historyEnd
    <3>1. /\ n.Session = next
          /\ n.historyBegun = ((m.historyBegun /\ f.type # "history_end") \/ f.type = "history_begin")
          /\ n.historyCursor = IF f.type = "history_begin" THEN f.from
                               ELSE IF f.type = "history_chunk" THEN f.to ELSE m.historyCursor
          /\ n.historyEnd = IF f.type = "history_begin" THEN f.to ELSE m.historyEnd
      BY DEF FrameSent, AfterFrame
    <3>2. f.type \in {"session_reopened", "history_begin", "history_chunk", "history_end",
                        "terminal_output"}
      <4>1. FrameFact(s, c, f, m, machine'[c], next)
        BY FrameFacts
      <4> QED BY <4>1 DEF FrameFact
    <3>3. m.historyBegun \in BOOLEAN
      BY <1>1 DEF Machines
    <3>4. /\ f.type = "history_begin" => /\ t.offsets.begun = TRUE /\ t.offsets.cursor = f.from
                                         /\ t.offsets.endOffset = f.to
          /\ f.type = "history_chunk" => /\ t.offsets.begun = b.offsets.begun
                                         /\ t.offsets.cursor = f.to
                                         /\ t.offsets.endOffset = b.offsets.endOffset
          /\ f.type = "history_end" => t.offsets.begun = FALSE
          /\ f.type \in {"session_reopened", "terminal_output"} =>
               /\ t.offsets.begun = b.offsets.begun
               /\ t.offsets.cursor = b.offsets.cursor
               /\ t.offsets.endOffset = b.offsets.endOffset
      <4>1. t.offsets = Browser!OffsetsApplied(b.offsets, f)
        BY <2>3
      <4>2. PICK o : o = t.offsets
        OBVIOUS
      <4>3. PICK p : p = b.offsets
        OBVIOUS
      <4>4. o = Browser!OffsetsApplied(p, f)
        BY <4>1, <4>2, <4>3
      <4>5. p \in [nextOutputOffset : Offsets, nextOutputOffsetKnown : BOOLEAN,
                  begun : BOOLEAN, cursor : Offsets, endOffset : Offsets]
        BY <1>3, <4>3
      <4> HIDE DEF t
      <4>6. /\ f.type = "history_begin" => o.begun = TRUE /\ o.cursor = f.from /\ o.endOffset = f.to
            /\ f.type = "history_chunk" => /\ o.begun = p.begun /\ o.cursor = f.to
                                           /\ o.endOffset = p.endOffset
            /\ f.type = "history_end" => o.begun = FALSE
            /\ f.type \in {"session_reopened", "terminal_output"} =>
                 o.begun = p.begun /\ o.cursor = p.cursor /\ o.endOffset = p.endOffset
        <5>1. CASE f.type = "history_begin"
          BY <4>4, <5>1 DEF Browser!OffsetsApplied
        <5>2. CASE f.type = "history_chunk"
          BY <4>4, <4>5, <5>2 DEF Browser!OffsetsApplied
        <5>3. CASE f.type = "history_end"
          BY <4>4, <4>5, <5>3 DEF Browser!OffsetsApplied
        <5>4. CASE f.type \in {"session_reopened", "terminal_output"}
          BY <4>4, <4>5, <5>4 DEF Browser!OffsetsApplied
        <5> QED BY <5>1, <5>2, <5>3, <5>4
      <4> QED BY <4>2, <4>3, <4>6
    <3> HIDE DEF n, t
    <3> QED BY <2>4, <3>1, <3>2, <3>3, <3>4
  <2> HIDE DEF n, t
  <2>6. InStep(c)'
    BY <2>1, <2>3, <2>5 DEF InStep, n, t
  <2> QED BY <1>3, <2>3, <2>4, <2>6 DEF t
<1> QED BY <1>4, <1>5

(* What the browser has been given after it.                               *)
LEMMA FrameUpTo ==
  ASSUME IInv, NEW s, NEW c \in Connections, NEW f, NEW m, NEW b, NEW next,
         FrameSent(s, c, f, m, b, next), Grows, up[c]
  PROVE  /\ next = "OPEN" => UpTo(c, cursor[c])'
         /\ machine'[c].historyBegun =>
              /\ UpTo(c, machine[c].historyCursor)'
              /\ browser'[c].offsets.nextOutputOffset = cursor'[c]
         /\ next # "OPEN" /\ ~machine'[c].historyBegun =>
              received'[c] = {} /\ ~browser'[c].offsets.nextOutputOffsetKnown
<1> DEFINE n == machine'[c]
<1>1. /\ s \in Sessions /\ f.from \in Nat /\ f.to \in Nat /\ f.from <= f.to
      /\ cursor[c] \in Nat
  BY FrameIs DEF FrameSent
<1>2. ReplayOK(c) /\ TypeOK /\ target[c] = s /\ m = machine[c] /\ b = browser[c]
      /\ reader[c] = "sending"
  BY IInvIs DEF FrameSent, HasFrame, ConnectionOK
<1>3. FrameFact(s, c, f, m, n, next)
  BY FrameFacts
<1>4. PICK at : at = cursor[c]
  OBVIOUS
<1>5. PICK p : p = b.offsets
  OBVIOUS
<1>6. PICK o : o = browser'[c].offsets
  OBVIOUS
<1>7. /\ o = Browser!OffsetsApplied(p, f)
      /\ p \in [nextOutputOffset : Offsets, nextOutputOffsetKnown : BOOLEAN,
                begun : BOOLEAN, cursor : Offsets, endOffset : Offsets]
  BY <1>5, <1>6, FrameInStep
<1>8. /\ target'[c] = s /\ UNCHANGED historyVars
      /\ received'[c] = IF CarriesOutput(f) THEN received[c] \cup f.from .. f.to - 1 ELSE received[c]
      /\ cursor'[c] = IF f.type = "terminal_output" THEN f.to ELSE at
  BY <1>2, <1>4 DEF FrameSent
<1>9. /\ Start(history, s)' = Start(history, s) /\ Start(history, s) \in Nat
      /\ Start(history, target[c])' = Start(history, s)
  BY <1>1, <1>8 DEF Start, historyVars, Grows
<1>10. received[c] \subseteq Nat
  BY <1>2, LimitsAre DEF TypeOK
<1> HIDE DEF n
<1>11. CASE f.type = "session_reopened"
  <2>1. received[c] = {} /\ ~p.nextOutputOffsetKnown /\ next = "REPLAYING" /\ ~n.historyBegun
    BY <1>2, <1>3, <1>5, <1>11 DEF ReplayOK, FrameFact
  <2>2. received'[c] = {} /\ o = p
    BY <1>7, <1>8, <1>11, <2>1 DEF CarriesOutput, Browser!OffsetsApplied
  <2> QED BY <1>6, <2>1, <2>2 DEF n
<1>12. CASE f.type = "history_begin"
  <2>1. /\ received[c] = {} /\ next = "REPLAYING" /\ n.historyBegun /\ n.historyCursor = f.from
        /\ f.to = at /\ f.from <= Start(history, s)
    BY <1>2, <1>3, <1>4, <1>12 DEF ReplayOK, FrameFact
  <2>2. received'[c] = {} /\ o.nextOutputOffset = f.to /\ cursor'[c] = at
    BY <1>7, <1>8, <1>12, <2>1 DEF CarriesOutput, Browser!OffsetsApplied
  <2>3. UpTo(c, machine[c].historyCursor)'
    <3>1. Start(history, s) .. f.from - 1 = {}
      BY <1>1, <1>9, <2>1
    <3> HIDE DEF Start
    <3> QED BY <1>9, <2>1, <2>2, <3>1 DEF UpTo, n
  <2> QED BY <1>6, <2>1, <2>2, <2>3 DEF n
<1>13. CASE f.type = "history_chunk"
  <2>1. /\ next = "REPLAYING" /\ n.historyBegun /\ m.historyBegun /\ n.historyCursor = f.to
        /\ f.from < f.to /\ UpTo(c, f.from) /\ p.nextOutputOffset = at
    BY <1>2, <1>3, <1>4, <1>5, <1>13 DEF ReplayOK, FrameFact
  <2>2. /\ received'[c] = received[c] \cup f.from .. f.to - 1
        /\ o.nextOutputOffset = p.nextOutputOffset /\ cursor'[c] = at
    BY <1>7, <1>8, <1>13, <2>1 DEF CarriesOutput, Browser!OffsetsApplied
  <2>3. PICK from \in Nat, to \in Nat : from = f.from /\ to = f.to
    BY <1>1
  <2>4. UpTo(c, from)
    BY <2>1, <2>3
  <2>5. UpTo(c, to)'
    BY <1>1, <1>2, <1>8, <1>10, <2>1, <2>2, <2>3, <2>4, Delivered DEF n
  <2>6. UpTo(c, machine[c].historyCursor)'
    BY <2>1, <2>3, <2>5 DEF UpTo, n
  <2> QED BY <1>6, <2>1, <2>2, <2>6 DEF n
<1>14. CASE f.type = "history_end"
  <2>1. /\ next = "OPEN" /\ ~n.historyBegun /\ m.historyBegun /\ f.to = at /\ UpTo(c, at)
    BY <1>2, <1>3, <1>4, <1>14 DEF ReplayOK, FrameFact
  <2>2. received'[c] = received[c] /\ o.nextOutputOffset = f.to /\ cursor'[c] = at
    BY <1>7, <1>8, <1>14, <2>1 DEF CarriesOutput, Browser!OffsetsApplied
  <2>3. UpTo(c, at)'
    <3>1. Start(history, s) .. at - 1 \subseteq received'[c]
      BY <1>2, <2>1, <2>2 DEF UpTo
    <3>2. browser'[c].offsets.nextOutputOffset = at
      BY <1>6, <2>1, <2>2
    <3>3. received'[c] # {} => at - 1 \in received'[c]
      BY <2>1, <2>2 DEF UpTo
    <3>4. \A x \in received'[c] : x < at
      BY <2>1, <2>2 DEF UpTo
    <3> HIDE DEF Start
    <3> QED BY <1>9, <3>1, <3>2, <3>3, <3>4 DEF UpTo
  <2>4. UpTo(c, cursor[c])'
    BY <2>2, <2>3 DEF UpTo
  <2> QED BY <2>1, <2>4 DEF n
<1>15. CASE f.type = "terminal_output"
  <2>1. /\ next = "OPEN" /\ ~n.historyBegun /\ f.from = at /\ f.from < f.to /\ UpTo(c, f.from)
    BY <1>2, <1>3, <1>4, <1>15 DEF ReplayOK, FrameFact
  <2>2. /\ received'[c] = received[c] \cup f.from .. f.to - 1
        /\ o.nextOutputOffset = f.to /\ cursor'[c] = f.to
    BY <1>7, <1>8, <1>15, <2>1 DEF CarriesOutput, Browser!OffsetsApplied
  <2>3. PICK from \in Nat, to \in Nat : from = f.from /\ to = f.to
    BY <1>1
  <2>4. UpTo(c, from)
    BY <2>1, <2>3
  <2>5. UpTo(c, to)'
    BY <1>1, <1>2, <1>6, <1>8, <1>10, <2>1, <2>2, <2>3, <2>4, Delivered
  <2>6. UpTo(c, cursor[c])'
    BY <2>2, <2>3, <2>5 DEF UpTo
  <2> QED BY <2>1, <2>6 DEF n
<1> QED BY <1>3, <1>11, <1>12, <1>13, <1>14, <1>15 DEF FrameFact

LEMMA FrameReplayOK ==
  ASSUME IInv, NEW s, NEW c \in Connections, NEW f, NEW m, NEW b, NEW next,
         FrameSent(s, c, f, m, b, next), Grows, up[c]
  PROVE  ReplayOK(c)'
<1> DEFINE n == machine'[c]
<1>1. /\ s \in Sessions /\ f \in Frames /\ f.session = s /\ f.from \in Nat /\ f.to \in Nat
      /\ f.from <= f.to /\ f.to <= nextOffset[s] /\ cursor[c] \in Nat
      /\ ReplayFrame(f, s, cursor[c]) /\ m \in Machines /\ m.sessionID = s /\ SemanticsAllow(m, f)
  BY FrameIs DEF FrameSent
<1>2. /\ MachineOK(c) /\ ReplayOK(c) /\ TypeOK /\ target[c] = s /\ m = machine[c]
      /\ queue \in [Connections -> Seq(Frames)] /\ queue[c] # <<>> /\ f = Head(queue[c])
  BY IInvIs DEF FrameSent, HasFrame, ConnectionOK
<1>3. FrameFact(s, c, f, m, n, next) /\ Moves(m.Session, f.type, next)
  BY FrameFacts DEF FrameSent
<1>4. PICK at \in Nat : at = cursor[c]
  BY <1>1
<1>5. PICK q \in Seq(Frames) : q = queue[c]
  BY <1>2
<1>6. q # <<>> /\ Script(q, s, at) /\ f = Head(q)
  BY <1>2, <1>4, <1>5 DEF ReplayOK
<1>7. /\ Tail(q) \in Seq(Frames) /\ Script(Tail(q), s, at)
      /\ Tail(q) = <<>> => f.type \in {"history_end", "terminal_output"}
      /\ Tail(q) # <<>> => Follows(f, Head(Tail(q))) /\ ReplayFrame(Head(Tail(q)), s, at)
      /\ \A i \in 1..Len(Tail(q)) : \E j \in 1..Len(q) : Tail(q)[i] = q[j]
  BY <1>6, ScriptTail
<1>8. /\ target'[c] = s /\ nextOffset' = nextOffset /\ queue'[c] = Tail(q)
      /\ cursor'[c] = IF f.type = "terminal_output" THEN f.to ELSE at
  BY <1>2, <1>4, <1>5 DEF FrameSent, historyVars
<1> HIDE DEF n
<1>9. n.nextOutput = cursor'[c] /\ cursor'[c] <= nextOffset'[s] /\ next \in {"REPLAYING", "OPEN"}
      /\ n.Session = next
  <2>1. at <= nextOffset[s]
    BY <1>2, <1>4 DEF ReplayOK
  <2> QED BY <1>1, <1>3, <1>4, <1>8, <2>1 DEF FrameFact
<1>10. next = "OPEN" => \A i \in 1..Len(Tail(q)) : Tail(q)[i].type = "terminal_output"
  <2> SUFFICES ASSUME next = "OPEN"
               PROVE  \A i \in 1..Len(Tail(q)) : Tail(q)[i].type = "terminal_output"
    OBVIOUS
  <2>1. CASE f.type = "terminal_output"
    <3>1. m.Session = "OPEN"
      BY <1>3, <2>1 DEF FrameFact
    <3>2. \A i \in 1..Len(q) : q[i].type = "terminal_output"
      BY <1>2, <1>5, <3>1 DEF ReplayOK
    <3> QED BY <1>7, <3>2
  <2>2. CASE f.type # "terminal_output"
    <3>1. f.type = "history_end"
      BY <1>3, <2>2 DEF FrameFact
    <3>2. Tail(q) = <<>>
      BY <1>7, <3>1 DEF Follows
    <3>3. Len(Tail(q)) = 0
      BY <3>2, EmptySeq
    <3> QED BY <3>3
  <2> QED BY <2>1, <2>2
<1>11. Script(queue[c], target[c], cursor[c])'
  <2>1. PICK end : end = cursor'[c]
    OBVIOUS
  <2>2. Script(Tail(q), s, end)
    <3>1. CASE f.type = "terminal_output"
      <4>1. next = "OPEN"
        BY <1>3, <3>1 DEF FrameFact
      <4> QED BY <1>7, <1>10, <4>1, OutputScript
    <3>2. CASE f.type # "terminal_output"
      BY <1>7, <1>8, <2>1, <3>2
    <3> QED BY <3>1, <3>2
  <2>3. Script(Tail(q), s, end)'
    BY <1>1, <2>2, ScriptStays
  <2> QED BY <1>8, <2>1, <2>3 DEF Script, ReplayFrame, Follows
<1>12. Tail(q) = <<>> => n.Session = "OPEN"
  BY <1>3, <1>7, <1>9 DEF FrameFact
<1>13. Tail(q) # <<>> => Accepted(n, Head(Tail(q)))
  <2> SUFFICES ASSUME Tail(q) # <<>> PROVE Accepted(n, Head(Tail(q)))
    OBVIOUS
  <2>1. PICK g : g = Head(Tail(q))
    OBVIOUS
  <2>2. g \in Frames /\ g.session = s /\ ReplayFrame(g, s, at) /\ Follows(f, g)
    <3>1. PICK t \in Seq(Frames) : t = Tail(q)
      BY <1>7
    <3>2. t # <<>> /\ g = Head(t)
      BY <2>1, <3>1
    <3>3. g \in Frames
      BY <3>2
    <3>4. ReplayFrame(g, s, at) /\ Follows(f, g)
      BY <1>7, <2>1
    <3>5. g.session = s
      BY <3>4 DEF ReplayFrame
    <3> QED BY <3>3, <3>4, <3>5
  <2>3. /\ m.nextOutput = at
        /\ m.historyBegun => m.Session = "REPLAYING"
        /\ m.historyBegun => m.historyEnd = at
    BY <1>2, <1>4 DEF ReplayOK, MachineOK
  <2>4. ReplayFrame(f, s, at)
    BY <1>1, <1>4
  <2>5. Accepted(AfterFrame(m, f, next), g)
    BY <1>1, <1>3, <2>2, <2>3, <2>4, NextAccepted
  <2> QED BY <2>1, <2>5 DEF FrameSent, n
<1>14. /\ next = "OPEN" => UpTo(c, cursor[c])'
       /\ n.historyBegun => /\ UpTo(c, machine[c].historyCursor)'
                            /\ browser'[c].offsets.nextOutputOffset = cursor'[c]
       /\ next # "OPEN" /\ ~n.historyBegun =>
            received'[c] = {} /\ ~browser'[c].offsets.nextOutputOffsetKnown
  BY FrameUpTo DEF n
<1> QED BY <1>8, <1>9, <1>10, <1>11, <1>12, <1>13, <1>14 DEF ReplayOK, n

LEMMA ReplaySendsKeeps ==
  ASSUME IInv, NEW c \in Connections, ReplaySends(c)
  PROVE  IInv' /\ LostForReason
<1>1. /\ TypeOK /\ browser \in [Connections -> Browsers] /\ queue \in [Connections -> Seq(Frames)]
      /\ reader[c] = "sending"
  BY IInvIs DEF ReplaySends
<1>2. PICK s : s = target[c]
  OBVIOUS
<1>3. PICK f : f = Head(queue[c])
  OBVIOUS
<1>4. PICK m : m = machine[c]
  OBVIOUS
<1>5. PICK b : b = browser[c]
  OBVIOUS
<1>6. HasFrame(s, c, f, m, b)
  BY <1>1, <1>2, <1>3, <1>4, <1>5 DEF HasFrame
<1>7. PICK next : Moves(m.Session, f.type, next)
  BY <1>6, FrameMoves
<1>8. /\ s \in Sessions /\ f \in Frames /\ f.type \in FrameTypes
      /\ f.from \in Nat /\ f.to \in Nat /\ f.to <= MaxSequence
      /\ (Sent(c, f) <=> up[c]) /\ queue[c] # <<>>
  <2>1. /\ s \in Sessions /\ f \in Frames /\ f.type \in FrameTypes
        /\ f.from \in Nat /\ f.to \in Nat /\ f.to <= MaxSequence
        /\ (Sent(c, f) <=> up[c])
    BY <1>6, FrameIs
  <2> QED BY <1>1, <2>1, IInvIs DEF ConnectionOK
<1>9. /\ Send(c, f)
      /\ reader' = [reader EXCEPT ![c] = IF up[c] THEN "replaying" ELSE "releasing"]
      /\ queue' = IF up[c] THEN [queue EXCEPT ![c] = Tail(@)] ELSE queue
      /\ cursor' = IF up[c] THEN [cursor EXCEPT ![c] = IF f.type = "terminal_output" THEN f.to ELSE @]
                   ELSE cursor
      /\ UNCHANGED <<registryVars, historyVars, copierVars, up, target>>
  BY <1>3, <1>8 DEF ReplaySends
<1>10. UNCHANGED <<life, owner, replaying, nextOffset, history, historyBytes, agentBytes, copier,
                   chunk, sendTo, up, target>>
  BY <1>9 DEF registryVars, historyVars, copierVars
<1>11. /\ machine'[c] = Applied(m, f)
       /\ browser'[c] = IF up[c] THEN Takes(b, f) ELSE b
       /\ received'[c] = IF up[c] /\ CarriesOutput(f)
                         THEN received[c] \cup f.from .. f.to - 1 ELSE received[c]
       /\ \A d \in Connections \ {c} :
            machine'[d] = machine[d] /\ browser'[d] = browser[d] /\ received'[d] = received[d]
  BY <1>1, <1>4, <1>5, <1>8, <1>9, SendIs
<1>12. /\ machine' \in [Connections -> Machines] /\ browser' \in [Connections -> Browsers]
       /\ received' \in [Connections -> SUBSET (0..MaxSequence - 1)]
  <2>1. Sent(c, f) => Takes(browser[c], f) \in Browsers
    <3>1. ASSUME up[c] PROVE Takes(b, f) \in Browsers
      <4>1. TakenAs(Takes(b, f), b.offsets, f, next, s)
        BY <1>6, <1>7, <3>1, FrameTaken
      <4> QED BY <4>1 DEF TakenAs
    <3> QED BY <1>5, <1>8, <3>1
  <2> QED BY <1>1, <1>8, <1>9, <2>1, SendTypes
<1>13. /\ reader'[c] = (IF up[c] THEN "replaying" ELSE "releasing")
       /\ queue'[c] = (IF up[c] THEN Tail(queue[c]) ELSE queue[c])
       /\ cursor'[c] = IF up[c] /\ f.type = "terminal_output" THEN f.to ELSE cursor[c]
       /\ \A d \in Connections \ {c} :
            reader'[d] = reader[d] /\ queue'[d] = queue[d] /\ cursor'[d] = cursor[d]
  BY <1>1, <1>9 DEF TypeOK
<1>14. FrameSent(s, c, f, m, b, next)
  <2>1. Applied(m, f) = AfterFrame(m, f, next)
    BY <1>6, <1>7, FrameApplied
  <2>2. target'[c] = target[c] /\ up'[c] = up[c] /\ UNCHANGED historyVars
    BY <1>9
  <2> QED BY <1>6, <1>7, <1>11, <1>13, <2>1, <2>2 DEF FrameSent
<1>15. OnlyAbout(c)
  BY <1>10, <1>11, <1>13 DEF OnlyAbout, Same
<1>16. queue' \in [Connections -> Seq(Frames)]
  <2>1. Tail(queue[c]) \in Seq(Frames)
    BY <1>1, <1>8
  <2> QED BY <1>1, <1>9, <2>1
<1>17. TypeOK'
  <2>1. \A d \in Connections : \A i \in 1..Len(queue'[d]) :
          /\ queue'[d][i].type \in Messages
          /\ [from |-> queue'[d][i].from, to |-> queue'[d][i].to] \in Chunks
    BY <1>16, QueueTypes
  <2>2. reader' \in [Connections ->
          {"idle", "opening", "serving", "replaying", "sending", "releasing", "ended"}]
    BY <1>1, <1>9 DEF TypeOK
  <2>3. cursor' \in [Connections -> 0..MaxSequence]
    <3>1. f.to \in 0..MaxSequence
      BY <1>8, LimitsAre
    <3> QED BY <1>1, <1>9, <3>1 DEF TypeOK
  <2> QED BY <1>1, <1>10, <1>12, <2>1, <2>2, <2>3 DEF TypeOK, Machines
<1>18. \A t \in Sessions : SessionOK(t)'
  <2> TAKE t \in Sessions
  <2>1. SessionOK(t)
    BY IInvIs
  <2>2. Steady(t)
    BY <1>10 DEF Steady
  <2>3. ServesStill(t) /\ ReplaysStill(t)
    BY <1>1, <1>10, <1>13 DEF ServesStill, ReplaysStill, Serves
  <2> QED BY <1>1, <2>1, <2>2, <2>3, SessionStays
<1>19. ASSUME Grows
       PROVE  ConnectionOK(c)' /\ \A t \in Sessions : FeedOK(c, t)'
  <2>1. MachineOK(c)' /\ InStep(c)'
    BY <1>14, <1>19, FrameMachineOK, FrameInStep
  <2>2. up[c] => ReplayOK(c)'
    BY <1>14, <1>19, FrameReplayOK
  <2>3. ConnectionOK(c)'
    BY <1>13, <2>1, <2>2 DEF ConnectionOK
  <2>4. \A t \in Sessions : FeedOK(c, t)'
    <3> TAKE t \in Sessions
    <3>1. ~Feeds(c, t)
      BY <1>1, IInvIs, FeedsServe DEF Serves
    <3>2. ~Feeds(c, t)'
      BY <1>10, <3>1 DEF Feeds, Carries, Watches
    <3> QED BY <3>2 DEF FeedOK
  <2> QED BY <2>3, <2>4
<1>20. \A d \in Connections \ {c}, t \in Sessions :
         Feeds(d, t)' => Feeds(d, t) /\ (Carries(d, t)' <=> Carries(d, t))
  BY <1>10 DEF Feeds, Carries, Watches
<1>21. \A t \in Sessions : /\ Running(t) => Running(t)'
                           /\ life[t] # "none" => life'[t] # "none"
  BY <1>10 DEF Running
<1>22. UNCHANGED historyVars /\ UNCHANGED chunk
  BY <1>9, <1>10
<1> QED BY <1>12, <1>15, <1>16, <1>17, <1>18, <1>19, <1>20, <1>21, <1>22, ActiveStep

-----------------------------------------------------------------------------
(* The frames of the browser that the session lives by.                    *)
AskTypes == {"open_session", "reopen_session", "detach"}

AskMoves(state, type, next) ==
  \/ state = "NONE" /\ type = "open_session" /\ next = "OPENING"
  \/ state = "NONE" /\ type = "reopen_session" /\ next = "REOPENING"
  \/ state = "OPEN" /\ type = "detach" /\ next = "DETACHING"

LEMMA AskRows ==
  ASSUME NEW state, NEW type \in AskTypes, NEW next, AskMoves(state, type, next)
  PROVE  /\ Browser!Successors(Browser!sessionTransitions, state, "client", type) = {next}
         /\ Browser!Successors(Browser!connectionTransitions, "READY", "client", type) = {}
<1>1. /\ \A row \in Browser!sessionTransitions :
            row[1] = state /\ row[2] = "client" /\ row[3] = type => row[4] = next
      /\ <<state, "client", type, next>> \in Browser!sessionTransitions
  BY DEF Browser!sessionTransitions, AskMoves, AskTypes
<1>2. Browser!Successors(Browser!connectionTransitions, "READY", "client", type) = {}
  BY DEF Browser!Successors, Browser!connectionTransitions, AskTypes
<1>3. \E row \in Browser!sessionTransitions :
        row[1] = state /\ row[2] = "client" /\ row[3] = type /\ row[4] = next
  <2> DEFINE row == <<state, "client", type, next>>
  <2>1. row \in Browser!sessionTransitions
    BY <1>1
  <2>2. row[1] = state /\ row[2] = "client" /\ row[3] = type /\ row[4] = next
    OBVIOUS
  <2> QED BY <2>1, <2>2
<1>4. {row[4] : row \in {r \in Browser!sessionTransitions : /\ r[1] = state
                                                           /\ r[2] = "client"
                                                           /\ r[3] = type}} = {next}
  <2> DEFINE table == Browser!sessionTransitions
  <2> HIDE DEF table
  <2> QED BY <1>1, <1>3 DEF table
<1> QED BY <1>2, <1>4 DEF Browser!Successors

(* A browser that has asked: only its state has moved.                     *)
Asked(b, t, next) ==
  /\ t \in Browsers
  /\ t.states.connectionState = "READY" /\ t.states.sessionState = next
  /\ t.states.sessionId = b.states.sessionId
  /\ t.offsets = b.offsets /\ t.refused = b.refused

LEMMA AsksIs ==
  ASSUME NEW c \in Connections, browser \in [Connections -> Browsers],
         NEW type \in AskTypes, NEW s, Asks(c, type, s), NEW next,
         browser[c].states.connectionState = "READY",
         AskMoves(browser[c].states.sessionState, type, next)
  PROVE  /\ browser' \in [Connections -> Browsers]
         /\ Asked(browser[c], browser'[c], next)
         /\ \A d \in Connections \ {c} : browser'[d] = browser[d]
<1>1. PICK b \in Browsers : b = browser[c]
  OBVIOUS
<1>2. PICK m : m = b.states
  OBVIOUS
<1>3. m \in [connectionState : ConnectionStates, sessionState : SessionStates,
             sessionId : Sessions \cup {NoSession}]
  BY <1>1, <1>2 DEF Browsers
<1> DEFINE to == [m EXCEPT !.sessionState = next]
<1>4. Browser!findTransition(m, "client", type) = {to}
  <2>1. type # "error" /\ m.connectionState = "READY" /\ AskMoves(m.sessionState, type, next)
    BY <1>1, <1>2 DEF AskTypes
  <2>2. Browser!Successors(Browser!connectionTransitions, m.connectionState, "client", type) = {}
    BY <2>1, AskRows
  <2>3. Browser!Successors(Browser!sessionTransitions, m.sessionState, "client", type) = {next}
    BY <2>1, AskRows
  <2>4. Browser!findTransition(m, "client", type) =
          {[m EXCEPT !.sessionState = x] :
             x \in Browser!Successors(Browser!sessionTransitions, m.sessionState, "client", type)}
    BY <2>1, <2>2 DEF Browser!findTransition
  <2> QED BY <2>3, <2>4
<1>5. Browser!Advanced(m, "client", type, s) = to
  <2>1. (CHOOSE x \in Browser!findTransition(m, "client", type) : TRUE) = to
    BY <1>4
  <2>2. type \notin {"session_opened", "session_reopened"}
    BY DEF AskTypes
  <2> HIDE DEF to
  <2> QED BY <2>1, <2>2 DEF Browser!Advanced, Browser!Named
<1>6. browser' = [browser EXCEPT ![c].states = to]
  BY <1>1, <1>2, <1>5 DEF Asks
<1>7. to = [connectionState |-> "READY", sessionState |-> next, sessionId |-> m.sessionId]
  BY <1>1, <1>2, <1>3
<1>8. next \in SessionStates /\ "READY" \in ConnectionStates
  BY StatesAre DEF AskMoves
<1>9. to \in [connectionState : ConnectionStates, sessionState : SessionStates,
              sessionId : Sessions \cup {NoSession}]
  BY <1>3, <1>7, <1>8
<1>10. to.connectionState = "READY" /\ to.sessionState = next /\ to.sessionId = m.sessionId
  BY <1>7
<1> HIDE DEF to
<1>11. browser'[c] = [b EXCEPT !.states = to]
  BY <1>1, <1>6
<1>12. browser'[c] \in Browsers /\ browser'[c].states = to
       /\ browser'[c].offsets = b.offsets /\ browser'[c].refused = b.refused
  BY <1>9, <1>11 DEF Browsers
<1>13. browser' \in [Connections -> Browsers]
       /\ \A d \in Connections \ {c} : browser'[d] = browser[d]
  BY <1>6, <1>11, <1>12
<1>14. Asked(b, browser'[c], next)
  BY <1>2, <1>10, <1>12 DEF Asked
<1> QED BY <1>1, <1>13, <1>14

(* The agent's machine takes the frames that were asked with.              *)
LEMMA MachineMoves ==
  ASSUME TypeOK, NEW c \in Connections,
         NEW state \in {"OPENING", "REOPENING", "DETACHING"},
         machine' = [machine EXCEPT ![c].Session = state]
  PROVE  /\ machine' \in [Connections -> Machines]
         /\ machine'[c].Session = state /\ machine'[c].sessionID = machine[c].sessionID
         /\ machine'[c].nextOutput = machine[c].nextOutput
         /\ machine'[c].historyBegun = machine[c].historyBegun
         /\ machine'[c].historyCursor = machine[c].historyCursor
         /\ machine'[c].historyEnd = machine[c].historyEnd
         /\ \A d \in Connections \ {c} : machine'[d] = machine[d]
<1>1. machine \in [Connections -> Machines] /\ state \in SessionStates
  BY StatesAre DEF TypeOK, Machines
<1>2. PICK m \in Machines : m = machine[c]
  BY <1>1
<1>3. PICK n : n = [m EXCEPT !.Session = state]
  OBVIOUS
<1>4. machine' = [machine EXCEPT ![c] = n]
  BY <1>2, <1>3
<1>5. /\ n \in Machines /\ n.Session = state /\ n.sessionID = m.sessionID
      /\ n.nextOutput = m.nextOutput /\ n.historyBegun = m.historyBegun
      /\ n.historyCursor = m.historyCursor /\ n.historyEnd = m.historyEnd
  BY <1>1, <1>2, <1>3 DEF Machines
<1> QED BY <1>1, <1>2, <1>4, <1>5

LEMMA DetachKeeps ==
  ASSUME IInv, NEW c \in Connections, Detach(c)
  PROVE  IInv' /\ LostForReason
<1>1. PICK s : s = target[c]
  OBVIOUS
<1>2. /\ TypeOK /\ browser \in [Connections -> Browsers] /\ queue \in [Connections -> Seq(Frames)]
      /\ MachineOK(c) /\ InStep(c)
  BY IInvIs DEF ConnectionOK
<1>3. /\ reader[c] = "serving" /\ up[c] /\ Running(s) /\ owner[s] = c /\ ~replaying[s]
      /\ machine[c].Session = "OPEN" /\ LetGo(c, s) /\ Asks(c, "detach", s)
      /\ machine' = [machine EXCEPT ![c].Session = "DETACHING"]
      /\ UNCHANGED <<historyVars, copierVars, up, replayVars, received>>
  BY <1>1 DEF Detach, Holds
<1>4. s \in Sessions /\ SessionOK(s)
  BY <1>1, <1>2, <1>3, IInvIs DEF MachineOK
<1>5. UNCHANGED <<life, nextOffset, history, historyBytes, agentBytes, copier, chunk, sendTo, up,
                  reader, target, queue, cursor, received>>
  BY <1>3 DEF historyVars, copierVars, replayVars, LetGo
<1>6. /\ owner' = [owner EXCEPT ![s] = NoConnection]
      /\ \A t \in Sessions : replaying'[t] = replaying[t]
      /\ owner' \in [Sessions -> Connections \cup {NoConnection}]
      /\ replaying' \in [Sessions -> BOOLEAN]
  BY <1>2, <1>3, <1>4 DEF LetGo, TypeOK
<1>7. /\ machine' \in [Connections -> Machines]
      /\ machine'[c].Session = "DETACHING" /\ machine'[c].sessionID = machine[c].sessionID
      /\ machine'[c].nextOutput = machine[c].nextOutput
      /\ machine'[c].historyBegun = machine[c].historyBegun
      /\ \A d \in Connections \ {c} : machine'[d] = machine[d]
  <2>1. PICK state \in {"OPENING", "REOPENING", "DETACHING"} : state = "DETACHING"
    OBVIOUS
  <2>2. machine' = [machine EXCEPT ![c].Session = state]
    BY <1>3, <2>1
  <2> QED BY <1>2, <2>1, <2>2, MachineMoves
<1>8. /\ browser' \in [Connections -> Browsers]
      /\ Asked(browser[c], browser'[c], "DETACHING")
      /\ \A d \in Connections \ {c} : browser'[d] = browser[d]
  <2>1. AskMoves(browser[c].states.sessionState, "detach", "DETACHING")
        /\ browser[c].states.connectionState = "READY"
    BY <1>2, <1>3 DEF InStep, AskMoves
  <2>2. PICK type \in AskTypes : type = "detach"
    BY DEF AskTypes
  <2> QED BY <1>2, <1>3, <2>1, <2>2, AsksIs
<1>9. ~machine[c].historyBegun
  BY <1>2, <1>3 DEF MachineOK
<1>10. TypeOK'
  BY <1>2, <1>5, <1>6, <1>7 DEF TypeOK, Machines
<1>11. OnlyAbout(c)
  BY <1>5, <1>7, <1>8 DEF OnlyAbout, Same
<1>12. \A t \in Sessions : SessionOK(t)'
  <2> TAKE t \in Sessions
  <2>1. SessionOK(t) /\ (owner[t] # NoConnection => owner[t] \in Connections)
    BY <1>2, IInvIs DEF TypeOK
  <2>2. CASE t # s
    BY <1>5, <1>6, <2>1, <2>2 DEF SessionOK, Serves, Running
  <2>3. CASE t = s
    BY <1>2, <1>5, <1>6, <2>1, <2>3 DEF SessionOK, Serves, Running, TypeOK
  <2> QED BY <2>2, <2>3
<1>13. ASSUME Grows
       PROVE  ConnectionOK(c)' /\ \A t \in Sessions : FeedOK(c, t)'
  <2>1. MachineOK(c)'
    BY <1>2, <1>3, <1>5, <1>7, <1>9 DEF MachineOK
  <2>2. InStep(c)'
    BY <1>2, <1>5, <1>7, <1>8, <1>9 DEF InStep, Asked
  <2>3. \A t \in Sessions : FeedOK(c, t)'
    <3> TAKE t \in Sessions
    <3>1. FeedOK(c, t)
      BY IInvIs
    <3>2. Carries(c, t)' <=> Carries(c, t)
      BY <1>5 DEF Carries
    <3>3. Feeds(c, t)' => Feeds(c, t)
      BY <1>4, <1>5, <1>6, <3>2, HistoryAssumption, <1>2 DEF Feeds, Watches, TypeOK
    <3>4. UpTo(c, machine[c].nextOutput) => UpTo(c, machine[c].nextOutput)'
      <4>1. Start(history, target[c])' = Start(history, target[c])
        BY <1>5 DEF Start
      <4> HIDE DEF Start
      <4> QED BY <1>5, <1>7, <1>8, <4>1 DEF UpTo, Asked
    <3> QED BY <1>5, <1>7, <3>1, <3>2, <3>3, <3>4 DEF FeedOK
  <2> QED BY <1>3, <1>5, <2>1, <2>2, <2>3 DEF ConnectionOK
<1>14. \A d \in Connections \ {c}, t \in Sessions :
         Feeds(d, t)' => Feeds(d, t) /\ (Carries(d, t)' <=> Carries(d, t))
  BY <1>2, <1>4, <1>5, <1>6, HistoryAssumption DEF Feeds, Carries, Watches, TypeOK
<1>15. \A t \in Sessions : /\ Running(t) => Running(t)'
                           /\ life[t] # "none" => life'[t] # "none"
  BY <1>5 DEF Running
<1>16. UNCHANGED historyVars /\ UNCHANGED chunk /\ queue' \in [Connections -> Seq(Frames)]
  BY <1>2, <1>3, <1>5
<1> QED BY <1>8, <1>10, <1>11, <1>12, <1>13, <1>14, <1>15, <1>16, ActiveStep

(* The session is open on both ends, or the transport is gone.             *)
LEMMA OpenedKeeps ==
  ASSUME IInv, NEW c \in Connections, Opened(c)
  PROVE  IInv' /\ LostForReason
<1>1. PICK s : s = target[c]
  OBVIOUS
<1>2. /\ TypeOK /\ browser \in [Connections -> Browsers] /\ queue \in [Connections -> Seq(Frames)]
      /\ MachineOK(c) /\ InStep(c) /\ reader[c] = "opening"
  BY IInvIs DEF ConnectionOK, Opened
<1>3. s \in Sessions /\ life[s] # "none" /\ s # NoSession
  BY <1>1, <1>2, HistoryAssumption DEF MachineOK
<1>4. PICK f : f = OpenedFrame(c)
  OBVIOUS
<1>5. PICK m \in Machines : m = machine[c]
  BY <1>2 DEF TypeOK, Machines
<1>6. PICK b \in Browsers : b = browser[c]
  BY <1>2
<1>7. /\ f \in Frames /\ f.type = "session_opened" /\ f.type \in FrameTypes /\ f.session = s
      /\ f.from = 0 /\ f.to = 0
  <2>1. 0 \in 0..MaxSequence /\ "session_opened" \in FrameTypes /\ "session_opened" \in Messages
    BY LimitsAre, StatesAre DEF FrameTypes
  <2> QED BY <1>1, <1>3, <1>4, <2>1 DEF OpenedFrame, Frame, Frames
<1>8. m.Session = "OPENING" /\ m.sessionID \in {NoSession, s} /\ ~m.historyBegun
      /\ b.offsets = Browser!NewOffsets
  BY <1>1, <1>2, <1>5, <1>6 DEF MachineOK
<1>9. /\ Accepted(m, f)
      /\ machine'[c] = Applied(m, f)
      /\ Applied(m, f).Session = "OPEN" /\ Applied(m, f).sessionID = s
      /\ Applied(m, f).nextOutput = m.nextOutput /\ Applied(m, f).historyBegun = FALSE
  <2>1. SemanticsAllow(m, f)
    BY <1>7, <1>8 DEF SemanticsAllow
  <2>2. PICK next : next = "OPEN"
    OBVIOUS
  <2>3. Moves(m.Session, f.type, next)
    BY <1>7, <1>8, <2>2 DEF Moves
  <2>4. Accepted(m, f) /\ Applied(m, f) = [SemanticsApplied(m, f) EXCEPT !.Session = next]
    BY <1>7, <2>1, <2>3, AppliedIs
  <2>5. [SemanticsApplied(m, f) EXCEPT !.Session = next] = AfterFrame(m, f, next)
    BY <1>7, SemanticsAre DEF AfterFrame
  <2>6. Applied(m, f) = AfterFrame(m, f, next)
    BY <2>4, <2>5
  <2>7. Send(c, f)
    BY <1>4 DEF Opened
  <2>8. machine'[c] = Applied(m, f)
    BY <1>2, <1>5, <2>7, SendIs
  <2>9. PICK n : n = AfterFrame(m, f, next)
    OBVIOUS
  <2>10. n.Session = next /\ n.sessionID = s /\ n.nextOutput = m.nextOutput
         /\ n.historyBegun = FALSE
    BY <1>7, <1>8, <2>9 DEF AfterFrame
  <2> QED BY <2>2, <2>4, <2>6, <2>8, <2>9, <2>10
<1>10. Sent(c, f) <=> up[c]
  BY <1>5, <1>9 DEF Sent
<1>11. /\ Send(c, f)
       /\ reader' = [reader EXCEPT ![c] = IF up[c] THEN "serving" ELSE "ended"]
       /\ UNCHANGED <<registryVars, historyVars, copierVars, up, target, queue, cursor>>
  BY <1>4, <1>10 DEF Opened
<1>12. UNCHANGED <<life, owner, replaying, nextOffset, history, historyBytes, agentBytes, copier,
                   chunk, sendTo, up, target, queue, cursor>>
  BY <1>11 DEF registryVars, historyVars, copierVars
<1>13. up[c] => /\ Takes(b, f) \in Browsers
                /\ Takes(b, f) = [states |-> [connectionState |-> "READY", sessionState |-> "OPEN",
                                              sessionId |-> s],
                                  offsets |-> [b.offsets EXCEPT !.nextOutputOffset = 0,
                                                               !.nextOutputOffsetKnown = TRUE],
                                  refused |-> b.refused]
  <2> SUFFICES ASSUME up[c]
               PROVE  /\ Takes(b, f) \in Browsers
                      /\ Takes(b, f) =
                           [states |-> [connectionState |-> "READY", sessionState |-> "OPEN",
                                        sessionId |-> s],
                            offsets |-> [b.offsets EXCEPT !.nextOutputOffset = 0,
                                                         !.nextOutputOffsetKnown = TRUE],
                            refused |-> b.refused]
    OBVIOUS
  <2>1. PICK next : next = "OPEN"
    OBVIOUS
  <2>2. /\ b.states.connectionState = "READY" /\ b.states.sessionId \in {NoSession, f.session}
        /\ Moves(b.states.sessionState, f.type, next)
    BY <1>1, <1>2, <1>5, <1>6, <1>7, <1>8, <2>1 DEF InStep, Moves
  <2>3. Browser!OffsetsAllowed(b.offsets, f)
    BY <1>7 DEF Browser!OffsetsAllowed
  <2>4. Takes(b, f) \in Browsers
    BY <1>7, <2>2, <2>3, TakenType
  <2> DEFINE offsets == [b.offsets EXCEPT !.nextOutputOffset = 0, !.nextOutputOffsetKnown = TRUE]
  <2>5. Browser!OffsetsApplied(b.offsets, f) = offsets
    BY <1>7 DEF Browser!OffsetsApplied
  <2>6. Takes(b, f) =
           [states |-> [connectionState |-> "READY", sessionState |-> next,
                        sessionId |-> IF f.type \in {"session_opened", "session_reopened"}
                                      THEN f.session ELSE b.states.sessionId],
            offsets |-> Browser!OffsetsApplied(b.offsets, f),
            refused |-> b.refused]
    BY <1>3, <1>7, <2>2, <2>3, TakesIs
  <2>7. (IF f.type \in {"session_opened", "session_reopened"}
         THEN f.session ELSE b.states.sessionId) = s
    BY <1>7
  <2> HIDE DEF offsets
  <2>8. Takes(b, f) = [states |-> [connectionState |-> "READY", sessionState |-> next,
                                   sessionId |-> s],
                       offsets |-> offsets, refused |-> b.refused]
    BY <2>5, <2>6, <2>7
  <2> QED BY <2>1, <2>4, <2>8 DEF offsets
<1>14. /\ browser'[c] = IF up[c] THEN Takes(b, f) ELSE b
       /\ received'[c] = received[c]
       /\ \A d \in Connections \ {c} :
            machine'[d] = machine[d] /\ browser'[d] = browser[d] /\ received'[d] = received[d]
  <2>1. ~CarriesOutput(f)
    BY <1>7 DEF CarriesOutput
  <2> QED BY <1>2, <1>6, <1>10, <1>11, <2>1, SendIs
<1>15. /\ machine' \in [Connections -> Machines] /\ browser' \in [Connections -> Browsers]
       /\ received' \in [Connections -> SUBSET (0..MaxSequence - 1)]
  BY <1>2, <1>6, <1>7, <1>10, <1>11, <1>13, SendTypes
<1>16. /\ reader'[c] = (IF up[c] THEN "serving" ELSE "ended")
       /\ \A d \in Connections \ {c} : reader'[d] = reader[d]
       /\ reader' \in [Connections ->
            {"idle", "opening", "serving", "replaying", "sending", "releasing", "ended"}]
  BY <1>2, <1>11 DEF TypeOK
<1>17. TypeOK'
  BY <1>2, <1>12, <1>15, <1>16 DEF TypeOK, Machines
<1>18. OnlyAbout(c)
  BY <1>12, <1>14, <1>16 DEF OnlyAbout, Same
<1>19. \A t \in Sessions : SessionOK(t)'
  <2> TAKE t \in Sessions
  <2>1. SessionOK(t)
    BY IInvIs
  <2>2. Steady(t)
    BY <1>12 DEF Steady
  <2>3. ServesStill(t) /\ ReplaysStill(t)
    BY <1>2, <1>12, <1>16 DEF ServesStill, ReplaysStill, Serves
  <2> QED BY <1>2, <2>1, <2>2, <2>3, SessionStays
<1>20. /\ up[c] => /\ browser'[c].states.connectionState = "READY"
                   /\ browser'[c].states.sessionState = "OPEN"
                   /\ browser'[c].states.sessionId = s
                   /\ browser'[c].refused = b.refused
                   /\ browser'[c].offsets.begun = FALSE
                   /\ browser'[c].offsets.nextOutputOffset = 0
       /\ ~up[c] => browser'[c] = b
       /\ b.offsets.nextOutputOffset = 0
  <2>1. PICK p : p = b.offsets
    OBVIOUS
  <2>2. p = Browser!NewOffsets
    BY <1>8, <2>1
  <2>3. p.nextOutputOffset = 0 /\ p.begun = FALSE
    BY <2>2 DEF Browser!NewOffsets
  <2>4. PICK o : o = [p EXCEPT !.nextOutputOffset = 0, !.nextOutputOffsetKnown = TRUE]
    OBVIOUS
  <2>5. o.nextOutputOffset = 0 /\ o.begun = FALSE
    BY <2>2, <2>4 DEF Browser!NewOffsets
  <2>6. up[c] => browser'[c] = [states |-> [connectionState |-> "READY", sessionState |-> "OPEN",
                                            sessionId |-> s],
                                offsets |-> o, refused |-> b.refused]
    BY <1>13, <1>14, <2>1, <2>4
  <2> QED BY <1>14, <2>1, <2>3, <2>5, <2>6
<1>21. ASSUME Grows
       PROVE  ConnectionOK(c)' /\ \A t \in Sessions : FeedOK(c, t)'
  <2>1. MachineOK(c)'
    BY <1>1, <1>2, <1>3, <1>9, <1>12, <1>14, <1>16 DEF MachineOK
  <2>2. InStep(c)'
    BY <1>1, <1>2, <1>6, <1>9, <1>12, <1>20 DEF InStep
  <2>3. \A t \in Sessions : FeedOK(c, t)'
    <3> TAKE t \in Sessions
    <3>1. FeedOK(c, t)
      BY IInvIs
    <3>2. (Carries(c, t)' <=> Carries(c, t)) /\ (Feeds(c, t)' <=> Feeds(c, t))
      BY <1>12 DEF Carries, Feeds, Watches
    <3>3. machine'[c].nextOutput = machine[c].nextOutput /\ ~machine'[c].historyBegun
      BY <1>5, <1>9
    <3>4. UpTo(c, machine[c].nextOutput) => UpTo(c, machine[c].nextOutput)'
      <4>1. Start(history, target[c])' = Start(history, target[c])
        BY <1>12 DEF Start
      <4>2. up[c] /\ browser[c].offsets.nextOutputOffset = machine[c].nextOutput =>
              browser'[c].offsets.nextOutputOffset = machine'[c].nextOutput
        BY <1>6, <1>20, <3>3
      <4>3. ~machine[c].historyBegun /\ up'[c] = up[c]
        BY <1>5, <1>8, <1>12
      <4> HIDE DEF Start
      <4> QED BY <1>14, <3>3, <4>1, <4>2, <4>3 DEF UpTo
    <3> QED BY <1>12, <3>1, <3>2, <3>3, <3>4 DEF FeedOK
  <2> QED BY <1>16, <2>1, <2>2, <2>3 DEF ConnectionOK
<1>22. \A d \in Connections \ {c}, t \in Sessions :
         Feeds(d, t)' => Feeds(d, t) /\ (Carries(d, t)' <=> Carries(d, t))
  BY <1>12 DEF Feeds, Carries, Watches
<1>23. \A t \in Sessions : /\ Running(t) => Running(t)'
                           /\ life[t] # "none" => life'[t] # "none"
  BY <1>12 DEF Running
<1>24. UNCHANGED historyVars /\ UNCHANGED chunk /\ queue' \in [Connections -> Seq(Frames)]
  BY <1>2, <1>11, <1>12
<1> QED BY <1>15, <1>17, <1>18, <1>19, <1>21, <1>22, <1>23, <1>24, ActiveStep

(* Both ends as they begin.                                                *)
LEMMA NewOnes ==
  /\ NewMachine \in Machines /\ NewBrowser \in Browsers
  /\ NewMachine.Session = "NONE" /\ NewMachine.sessionID = NoSession /\ NewMachine.nextOutput = 0
  /\ NewMachine.historyBegun = FALSE
  /\ NewBrowser.states.connectionState = "READY" /\ NewBrowser.states.sessionState = "NONE"
  /\ NewBrowser.states.sessionId = NoSession /\ NewBrowser.refused = FALSE
  /\ NewBrowser.offsets = Browser!NewOffsets /\ NewBrowser.offsets.begun = FALSE
  /\ NewBrowser.offsets.nextOutputOffset = 0
  /\ NewBrowser.offsets.nextOutputOffsetKnown = FALSE
<1>1. 0 \in 0..MaxSequence /\ 0 \in Offsets
  BY LimitsAre DEF Offsets
<1>2. NewMachine \in Machines
  BY <1>1, StatesAre DEF NewMachine, Machines
<1>3. PICK states : states = [Browser!NewStates EXCEPT !.connectionState = "READY"]
  OBVIOUS
<1>4. states = [connectionState |-> "READY", sessionState |-> "NONE", sessionId |-> NoSession]
  BY <1>3 DEF Browser!NewStates
<1>5. PICK offsets : offsets = Browser!NewOffsets
  OBVIOUS
<1>6. /\ offsets \in [nextOutputOffset : Offsets, nextOutputOffsetKnown : BOOLEAN,
                      begun : BOOLEAN, cursor : Offsets, endOffset : Offsets]
      /\ offsets.begun = FALSE /\ offsets.nextOutputOffset = 0
      /\ offsets.nextOutputOffsetKnown = FALSE
  BY <1>1, <1>5 DEF Browser!NewOffsets
<1>7. NewBrowser = [states |-> states, offsets |-> offsets, refused |-> FALSE]
  BY <1>3, <1>5 DEF NewBrowser
<1>8. states \in [connectionState : ConnectionStates, sessionState : SessionStates,
                  sessionId : Sessions \cup {NoSession}]
  BY <1>4, StatesAre
<1>9. NewBrowser \in Browsers
  BY <1>6, <1>7, <1>8 DEF Browsers
<1>10. NewBrowser.states = states /\ NewBrowser.offsets = offsets /\ NewBrowser.refused = FALSE
  BY <1>7
<1> QED BY <1>2, <1>4, <1>5, <1>6, <1>9, <1>10 DEF NewMachine

(* A read loop that has done nothing has no part in any session.           *)
LEMMA IdleIs ==
  ASSUME IInv, NEW c \in Connections, reader[c] = "idle"
  PROVE  /\ target[c] = NoSession /\ received[c] = {}
         /\ machine[c] = NewMachine /\ browser[c] = NewBrowser
         /\ \A s \in Sessions : ~Serves(c, s) /\ ~Feeds(c, s) /\ target[c] # s /\ owner[s] # c
<1>1. MachineOK(c)
  BY IInvIs DEF ConnectionOK
<1>2. target[c] = NoSession /\ received[c] = {}
      /\ machine[c] = NewMachine /\ browser[c] = NewBrowser
  BY <1>1 DEF MachineOK
<1>3. ASSUME NEW s \in Sessions
      PROVE  ~Serves(c, s) /\ ~Feeds(c, s) /\ target[c] # s /\ owner[s] # c
  <2>1. ~Serves(c, s)
    BY DEF Serves
  <2>2. SessionOK(s)
    BY IInvIs
  <2>3. ~Feeds(c, s)
    BY <2>1, <2>2, FeedsServe
  <2>4. c # NoConnection /\ s # NoSession
    BY HistoryAssumption
  <2> QED BY <1>2, <2>1, <2>2, <2>3, <2>4 DEF SessionOK
<1> QED BY <1>2, <1>3

LEMMA OpenKeeps ==
  ASSUME IInv, NEW c \in Connections, NEW s \in Sessions, Open(c, s)
  PROVE  IInv' /\ LostForReason
<1>1. /\ TypeOK /\ browser \in [Connections -> Browsers] /\ queue \in [Connections -> Seq(Frames)]
      /\ SessionOK(s) /\ c # NoConnection /\ s # NoSession
  BY IInvIs, HistoryAssumption
<1>2. /\ reader[c] = "idle" /\ life[s] = "none"
      /\ life' = [life EXCEPT ![s] = "running"]
      /\ owner' = [owner EXCEPT ![s] = c]
      /\ copier' = [copier EXCEPT ![s] = "reading"]
      /\ machine' = [machine EXCEPT ![c].Session = "OPENING"]
      /\ Asks(c, "open_session", NoSession)
      /\ reader' = [reader EXCEPT ![c] = "opening"]
      /\ target' = [target EXCEPT ![c] = s]
      /\ UNCHANGED <<replaying, historyVars, chunk, sendTo, up, queue, cursor, received>>
  BY DEF Open
<1>3. /\ target[c] = NoSession /\ received[c] = {}
      /\ machine[c] = NewMachine /\ browser[c] = NewBrowser
      /\ \A t \in Sessions : ~Serves(c, t) /\ ~Feeds(c, t) /\ target[c] # t /\ owner[t] # c
  BY <1>2, IdleIs
<1>4. nextOffset[s] = 0 /\ copier[s] = "none" /\ ~replaying[s] /\ owner[s] = NoConnection
  BY <1>1, <1>2 DEF SessionOK, Running
<1>5. UNCHANGED <<replaying, nextOffset, history, historyBytes, agentBytes, chunk, sendTo, up,
                  queue, cursor, received>>
  BY <1>2 DEF historyVars
<1>6. /\ machine' \in [Connections -> Machines]
      /\ machine'[c].Session = "OPENING" /\ machine'[c].sessionID = NoSession
      /\ machine'[c].nextOutput = 0
      /\ machine'[c].historyBegun = FALSE
      /\ \A d \in Connections \ {c} : machine'[d] = machine[d]
  <2>1. PICK state \in {"OPENING", "REOPENING", "DETACHING"} : state = "OPENING"
    OBVIOUS
  <2>2. machine' = [machine EXCEPT ![c].Session = state]
    BY <1>2, <2>1
  <2>3. /\ machine' \in [Connections -> Machines]
        /\ machine'[c].Session = state /\ machine'[c].sessionID = machine[c].sessionID
        /\ machine'[c].nextOutput = machine[c].nextOutput
        /\ machine'[c].historyBegun = machine[c].historyBegun
        /\ \A d \in Connections \ {c} : machine'[d] = machine[d]
    BY <1>1, <2>2, MachineMoves
  <2> QED BY <1>3, <2>1, <2>3, NewOnes
<1>7. /\ browser' \in [Connections -> Browsers]
      /\ Asked(NewBrowser, browser'[c], "OPENING")
      /\ \A d \in Connections \ {c} : browser'[d] = browser[d]
  <2>1. AskMoves(browser[c].states.sessionState, "open_session", "OPENING")
        /\ browser[c].states.connectionState = "READY"
    BY <1>3, NewOnes DEF AskMoves
  <2>2. PICK type \in AskTypes : type = "open_session"
    BY DEF AskTypes
  <2> QED BY <1>1, <1>2, <1>3, <2>1, <2>2, AsksIs
<1>8. /\ reader'[c] = "opening" /\ target'[c] = s
      /\ \A d \in Connections \ {c} : reader'[d] = reader[d] /\ target'[d] = target[d]
      /\ \A t \in Sessions \ {s} : life'[t] = life[t] /\ owner'[t] = owner[t] /\ copier'[t] = copier[t]
      /\ life'[s] = "running" /\ owner'[s] = c /\ copier'[s] = "reading"
  BY <1>1, <1>2 DEF TypeOK
<1>9. TypeOK'
  <2>1. /\ life' \in [Sessions -> {"none", "running", "closed"}]
        /\ owner' \in [Sessions -> Connections \cup {NoConnection}]
        /\ copier' \in [Sessions -> {"none", "reading", "sending", "detaching", "ended"}]
        /\ reader' \in [Connections ->
             {"idle", "opening", "serving", "replaying", "sending", "releasing", "ended"}]
        /\ target' \in [Connections -> Sessions \cup {NoSession}]
    BY <1>1, <1>2 DEF TypeOK
  <2> QED BY <1>1, <1>5, <1>6, <2>1 DEF TypeOK, Machines
<1>10. OnlyAbout(c)
  BY <1>5, <1>6, <1>7, <1>8 DEF OnlyAbout, Same
<1>11. \A t \in Sessions : SessionOK(t)'
  <2> TAKE t \in Sessions
  <2>1. CASE t # s
    <3>1. SessionOK(t)
      BY IInvIs
    <3>2. Steady(t)
      BY <1>5, <1>8, <2>1 DEF Steady
    <3>3. ServesStill(t) /\ ReplaysStill(t)
      BY <1>3, <1>5, <1>8 DEF ServesStill, ReplaysStill, Serves
    <3> QED BY <1>1, <3>1, <3>2, <3>3, SessionStays
  <2>2. CASE t = s
    BY <1>4, <1>5, <1>8, <2>2 DEF SessionOK, Serves, Running
  <2> QED BY <2>1, <2>2
<1>12. ASSUME Grows
       PROVE  ConnectionOK(c)' /\ \A t \in Sessions : FeedOK(c, t)'
  <2>1. MachineOK(c)'
    BY <1>1, <1>3, <1>5, <1>6, <1>7, <1>8, NewOnes DEF MachineOK, Asked
  <2>2. InStep(c)'
    BY <1>5, <1>6, <1>7, <1>8, NewOnes DEF InStep, Asked
  <2>3. \A t \in Sessions : FeedOK(c, t)'
    <3> TAKE t \in Sessions
    <3>1. CASE t # s
      <4>1. ~Feeds(c, t)'
        BY <1>3, <1>5, <1>8, <3>1 DEF Feeds, Carries, Watches
      <4> QED BY <4>1 DEF FeedOK
    <3>2. CASE t = s
      <4>1. ~Carries(c, s)'
        BY <1>8 DEF Carries
      <4>2. Start(history, s)' \in Nat
        BY <1>12 DEF Grows
      <4>3. Start(history, s)' .. 0 - 1 = {}
        BY <4>2
      <4>4. UpTo(c, 0)'
        <5>1. Start(history, target[c])' = Start(history, s)'
          BY <1>8
        <5>2. browser'[c].offsets.nextOutputOffset = 0
          BY <1>7, NewOnes DEF Asked
        <5>3. received'[c] = {}
          BY <1>3, <1>5
        <5> HIDE DEF Start
        <5> QED BY <4>3, <5>1, <5>2, <5>3 DEF UpTo
      <4>5. UpTo(c, machine[c].nextOutput)'
        BY <1>6, <4>4 DEF UpTo
      <4> QED BY <1>4, <1>5, <1>6, <3>2, <4>1, <4>5 DEF FeedOK
    <3> QED BY <3>1, <3>2
  <2> QED BY <1>8, <2>1, <2>2, <2>3 DEF ConnectionOK
<1>13. \A d \in Connections \ {c}, t \in Sessions :
         Feeds(d, t)' => Feeds(d, t) /\ (Carries(d, t)' <=> Carries(d, t))
  <2> TAKE d \in Connections \ {c}, t \in Sessions
  <2>1. CASE t # s
    BY <1>5, <1>8, <2>1 DEF Feeds, Carries, Watches
  <2>2. CASE t = s
    BY <1>5, <1>8, <2>2 DEF Feeds, Carries, Watches
  <2> QED BY <2>1, <2>2
<1>14. \A t \in Sessions : /\ Running(t) => Running(t)'
                           /\ life[t] # "none" => life'[t] # "none"
  BY <1>8 DEF Running
<1>15. UNCHANGED historyVars /\ UNCHANGED chunk /\ queue' \in [Connections -> Seq(Frames)]
  BY <1>1, <1>2, <1>5
<1> QED BY <1>7, <1>9, <1>10, <1>11, <1>12, <1>13, <1>14, <1>15, ActiveStep

-----------------------------------------------------------------------------
(* The frames of a snapshot.                                               *)
LEMMA JoinIs ==
  ASSUME NEW S, NEW a \in S, NEW b \in S, NEW z \in S, NEW k \in Seq(S)
  PROVE  LET q == <<a, b>> \o k \o <<z>> IN
         /\ q \in Seq(S) /\ Len(q) = Len(k) + 3
         /\ q[1] = a /\ q[2] = b /\ q[Len(k) + 3] = z
         /\ \A i \in 1..Len(k) : q[i + 2] = k[i]
<1>1. Len(k) \in Nat
  OBVIOUS
<1>2. PICK p : p = <<a, b>> \o k
  OBVIOUS
<1>3. /\ p \in Seq(S) /\ Len(p) = Len(k) + 2
      /\ p[1] = a /\ p[2] = b /\ \A i \in 1..Len(k) : p[i + 2] = k[i]
  <2>1. <<a, b>> \in Seq(S) /\ Len(<<a, b>>) = 2
    OBVIOUS
  <2>2. \A i \in 1..Len(k) : i + 2 \in 1..2 + Len(k) /\ ~(i + 2 <= 2) /\ i + 2 - 2 = i
    BY <1>1
  <2> QED BY <1>1, <1>2, <2>1, <2>2
<1>4. PICK q : q = p \o <<z>>
  OBVIOUS
<1>5. <<z>> \in Seq(S) /\ Len(<<z>>) = 1
  OBVIOUS
<1>6. q \in Seq(S) /\ Len(q) = Len(k) + 3
  BY <1>1, <1>3, <1>4, <1>5
<1>7. \A i \in 1..Len(p) : q[i] = p[i]
  BY <1>3, <1>4, <1>5
<1>8. q[Len(k) + 3] = z
  BY <1>1, <1>3, <1>4, <1>5
<1>9. \A i \in 1..Len(k) : i + 2 \in 1..Len(p)
  BY <1>1, <1>3
<1>10. 1 \in 1..Len(p) /\ 2 \in 1..Len(p)
  BY <1>1, <1>3
<1> QED BY <1>2, <1>3, <1>4, <1>6, <1>7, <1>8, <1>9, <1>10

LEMMA SnapshotIs ==
  ASSUME TypeOK, HistoryOK, NEW s \in Sessions, NEW q, q = Snapshot(s)
  PROVE  /\ q \in Seq(Frames) /\ q # <<>> /\ Script(q, s, nextOffset[s])
         /\ Head(q).type = "session_reopened" /\ Head(q).session = s
         /\ nextOffset[s] \in 0..MaxSequence
<1>1. /\ Listed(history) /\ InOrder(Of(history, s)) /\ Covered(Of(history, s), nextOffset[s])
      /\ nextOffset[s] \in 0..MaxSequence /\ AccountsBalance
  BY DEF HistoryOK, TypeOK
<1>2. PICK end \in Nat : end = nextOffset[s]
  BY <1>1, LimitsAre
<1>3. PICK start \in Nat : start = Start(history, s) /\ start <= end
  BY <1>2, StartIsNat
<1>4. end \in 0..MaxSequence /\ start \in 0..MaxSequence
  BY <1>1, <1>2, <1>3, LimitsAre
<1>5. end - start <= MaxSessionHistory
  <2> DEFINE E == Of(history, s)
  <2>1. Listed(E) /\ Covered(E, end) /\ start = Begin(E, end)
    BY <1>1, <1>2, <1>3, OfIsListed, StartIs
  <2>2. end - start <= Bytes(E) /\ Bytes(E) \in Nat
    BY <2>1, SpanIs, ContentsAre
  <2>3. Bytes(E) <= MaxSessionHistory
    BY <1>1 DEF AccountsBalance
  <2> HIDE DEF E
  <2> QED BY <1>2, <1>3, <2>2, <2>3, LimitsAre
<1>6. PICK type \in Messages : type = "history_chunk"
  BY StatesAre DEF FrameTypes
<1>7. PICK k : k = Kept(type, s, start)
  OBVIOUS
<1>8. PICK n : n = Len(k)
  OBVIOUS
<1>9. /\ k \in Seq(Frames) /\ n \in Nat
      /\ \A i \in 1..n : /\ k[i].type = type /\ k[i].session = s
                         /\ k[i].from < k[i].to /\ k[i].to <= end
  <2>1. IsKept(k, type, s, start)
    BY <1>7 DEF IsKept
  <2>2. /\ k \in Seq(Frames)
        /\ \A i \in 1..Len(k) : /\ k[i].type = type /\ k[i].session = s
                                /\ k[i].from < k[i].to /\ k[i].to <= nextOffset[s]
    BY <1>1, <1>4, <2>1, KeptAre
  <2> QED BY <1>2, <1>8, <2>2
<1>10. Contiguous(k, start, end)
  BY <1>1, <1>2, <1>3, <1>7, KeptIsWhole
<1> DEFINE a == Frame("session_reopened", s, 0, 0)
           b == Frame("history_begin", s, start, end)
           z == Frame("history_end", s, end, end)
<1>11. a \in Frames /\ b \in Frames /\ z \in Frames
  BY <1>4, StatesAre, LimitsAre DEF Frame, Frames, FrameTypes
<1>12. /\ a.type = "session_reopened" /\ a.session = s /\ a.from = 0 /\ a.to = 0
       /\ b.type = "history_begin" /\ b.session = s /\ b.from = start /\ b.to = end
       /\ z.type = "history_end" /\ z.session = s /\ z.from = end /\ z.to = end
  BY DEF Frame
<1>13. q = <<a, b>> \o k \o <<z>>
  BY <1>2, <1>3, <1>6, <1>7 DEF Snapshot
<1> HIDE DEF a, b, z
<1>14. /\ q \in Seq(Frames) /\ Len(q) = n + 3
       /\ q[1] = a /\ q[2] = b /\ q[n + 3] = z
       /\ \A i \in 1..n : q[i + 2] = k[i]
  BY <1>8, <1>9, <1>11, <1>13, JoinIs
<1>15. \A f \in Frames : f.from \in 0..MaxSequence /\ f.to \in 0..MaxSequence
                        /\ f.from \in Nat /\ f.to \in Nat
  BY LimitsAre DEF Frames
<1>16. ReplayFrame(a, s, end) /\ ReplayFrame(b, s, end) /\ ReplayFrame(z, s, end)
  BY <1>2, <1>3, <1>4, <1>5, <1>12, LimitsAre DEF ReplayFrame
<1>17. ASSUME NEW i \in 1..n PROVE ReplayFrame(k[i], s, end)
  <2>1. PICK f \in Frames : f = k[i]
    BY <1>8, <1>9
  <2>2. /\ f.type = "history_chunk" /\ f.session = s /\ f.from < f.to /\ f.to <= end
        /\ f.from \in 0..MaxSequence /\ f.from \in Nat /\ f.to \in Nat
    BY <1>6, <1>9, <1>15, <2>1
  <2>3. ReplayFrame(f, s, end)
    BY <1>2, <2>2 DEF ReplayFrame
  <2> QED BY <2>1, <2>3
<1>18. ASSUME NEW i \in 1..Len(q) PROVE ReplayFrame(q[i], s, end)
  <2>1. CASE i = 1
    BY <1>14, <1>16, <2>1
  <2>2. CASE i = 2
    BY <1>14, <1>16, <2>2
  <2>3. CASE i = n + 3
    BY <1>14, <1>16, <2>3
  <2>4. CASE i # 1 /\ i # 2 /\ i # n + 3
    <3>1. PICK j \in 1..n : i = j + 2
      <4>1. i \in 3..n + 2
        BY <1>9, <1>14, <2>4
      <4>2. i - 2 \in 1..n /\ i = (i - 2) + 2
        BY <1>9, <4>1
      <4> QED BY <4>2
    <3> QED BY <1>14, <1>17, <3>1
  <2> QED BY <2>1, <2>2, <2>3, <2>4
<1>19. ASSUME NEW i \in 1..Len(q) - 1 PROVE Follows(q[i], q[i + 1])
  <2>1. CASE i = 1
    BY <1>12, <1>14, <2>1 DEF Follows
  <2>2. CASE i = 2 /\ n = 0
    <3>1. q[i] = b /\ q[i + 1] = z
      BY <1>14, <2>2
    <3>2. start = end
      <4>1. k = <<>>
        BY <1>8, <1>9, <2>2, EmptySeq
      <4> QED BY <1>10, <4>1 DEF Contiguous
    <3> QED BY <1>12, <3>1, <3>2 DEF Follows
  <2>3. CASE i = 2 /\ n # 0
    <3>1. 1 \in 1..n /\ q[i] = b /\ q[i + 1] = k[1]
      <4>1. 1 \in 1..n
        BY <1>9, <2>3
      <4> QED BY <1>14, <2>3, <4>1
    <3>2. k[1].from = start
      <4>1. k # <<>>
        BY <1>8, <2>3, EmptySeq
      <4> QED BY <1>10, <4>1 DEF Contiguous
    <3> QED BY <1>6, <1>9, <1>12, <3>1, <3>2 DEF Follows
  <2>4. CASE i # 1 /\ i # 2
    <3>1. PICK j \in 1..n : i = j + 2
      <4>1. i \in 3..n + 2
        BY <1>9, <1>14, <2>4
      <4>2. i - 2 \in 1..n /\ i = (i - 2) + 2
        BY <1>9, <4>1
      <4> QED BY <4>2
    <3>2. k # <<>>
      BY <1>8, <3>1, EmptySeq
    <3>3. q[i] = k[j]
      BY <1>14, <3>1
    <3>4. CASE j = n
      <4>1. q[i + 1] = z
        BY <1>9, <1>14, <3>1, <3>4
      <4>2. k[n].to = end
        BY <1>8, <1>10, <3>2 DEF Contiguous
      <4> QED BY <1>6, <1>9, <1>12, <3>3, <3>4, <4>1, <4>2 DEF Follows
    <3>5. CASE j # n
      <4>1. j \in 1..n - 1 /\ j + 1 \in 1..n /\ i + 1 = (j + 1) + 2
        BY <1>9, <3>1, <3>5
      <4>2. q[i + 1] = k[j + 1]
        BY <1>14, <4>1
      <4>3. k[j].to = k[j + 1].from
        BY <1>8, <1>10, <3>2, <4>1 DEF Contiguous
      <4> QED BY <1>6, <1>9, <3>3, <4>1, <4>2, <4>3 DEF Follows
    <3> QED BY <3>4, <3>5
  <2> QED BY <2>1, <2>2, <2>3, <2>4
<1>20. Script(q, s, end) /\ q # <<>>
  <2>1. q # <<>>
    BY <1>9, <1>14, EmptySeq
  <2>2. q[Len(q)].type = "history_end"
    BY <1>12, <1>14
  <2> QED BY <1>18, <1>19, <2>1, <2>2 DEF Script
<1>21. Head(q) = a
  BY <1>14, <1>20
<1> QED BY <1>1, <1>2, <1>12, <1>14, <1>20, <1>21

LEMMA ReopenKeeps ==
  ASSUME IInv, NEW c \in Connections, NEW s \in Sessions, Reopen(c, s)
  PROVE  IInv' /\ LostForReason
<1>1. /\ TypeOK /\ browser \in [Connections -> Browsers] /\ queue \in [Connections -> Seq(Frames)]
      /\ SessionOK(s) /\ HistoryOK /\ c # NoConnection /\ s # NoSession
  BY IInvIs, HistoryAssumption
<1>2. PICK q : q = Snapshot(s)
  OBVIOUS
<1>3. PICK end : end = nextOffset[s]
  OBVIOUS
<1>4. /\ q \in Seq(Frames) /\ q # <<>> /\ Script(q, s, end)
      /\ Head(q).type = "session_reopened" /\ Head(q).session = s
      /\ end \in 0..MaxSequence
  BY <1>1, <1>2, <1>3, SnapshotIs
<1>5. /\ reader[c] = "idle" /\ Running(s) /\ owner[s] = NoConnection
      /\ owner' = [owner EXCEPT ![s] = c]
      /\ replaying' = [replaying EXCEPT ![s] = TRUE]
      /\ machine' = [machine EXCEPT ![c].Session = "REOPENING", ![c].sessionID = s,
                                    ![c].nextOutput = end]
      /\ Asks(c, "reopen_session", s)
      /\ reader' = [reader EXCEPT ![c] = "replaying"]
      /\ target' = [target EXCEPT ![c] = s]
      /\ queue' = [queue EXCEPT ![c] = q]
      /\ cursor' = [cursor EXCEPT ![c] = end]
      /\ UNCHANGED <<life, historyVars, copierVars, up, received>>
  BY <1>2, <1>3 DEF Reopen
<1>6. /\ target[c] = NoSession /\ received[c] = {}
      /\ machine[c] = NewMachine /\ browser[c] = NewBrowser
      /\ \A t \in Sessions : ~Serves(c, t) /\ ~Feeds(c, t) /\ target[c] # t /\ owner[t] # c
  BY <1>5, IdleIs
<1>7. UNCHANGED <<life, nextOffset, history, historyBytes, agentBytes, copier, chunk, sendTo, up,
                  received>>
  BY <1>5 DEF historyVars, copierVars
<1>8. /\ machine' \in [Connections -> Machines]
      /\ machine'[c].Session = "REOPENING" /\ machine'[c].sessionID = s
      /\ machine'[c].nextOutput = end
      /\ machine'[c].historyBegun = FALSE
      /\ \A d \in Connections \ {c} : machine'[d] = machine[d]
  <2>1. PICK m \in Machines : m = NewMachine
    BY NewOnes
  <2>2. PICK n : n = [m EXCEPT !.Session = "REOPENING", !.sessionID = s, !.nextOutput = end]
    OBVIOUS
  <2>3. /\ n \in Machines /\ n.Session = "REOPENING" /\ n.sessionID = s /\ n.nextOutput = end
        /\ n.historyBegun = m.historyBegun
    BY <1>4, <2>1, <2>2, StatesAre DEF Machines
  <2>4. machine \in [Connections -> Machines]
    BY <1>1 DEF TypeOK, Machines
  <2>5. machine' = [machine EXCEPT ![c] = n]
    BY <1>5, <1>6, <2>1, <2>2, <2>4
  <2>6. m.historyBegun = FALSE
    BY <2>1, NewOnes
  <2> QED BY <2>3, <2>4, <2>5, <2>6
<1>9. /\ browser' \in [Connections -> Browsers]
      /\ Asked(NewBrowser, browser'[c], "REOPENING")
      /\ \A d \in Connections \ {c} : browser'[d] = browser[d]
  <2>1. AskMoves(browser[c].states.sessionState, "reopen_session", "REOPENING")
        /\ browser[c].states.connectionState = "READY"
    BY <1>6, NewOnes DEF AskMoves
  <2>2. PICK type \in AskTypes : type = "reopen_session"
    BY DEF AskTypes
  <2> QED BY <1>1, <1>5, <1>6, <2>1, <2>2, AsksIs
<1>10. /\ reader'[c] = "replaying" /\ target'[c] = s /\ queue'[c] = q /\ cursor'[c] = end
       /\ \A d \in Connections \ {c} : /\ reader'[d] = reader[d] /\ target'[d] = target[d]
                                       /\ queue'[d] = queue[d] /\ cursor'[d] = cursor[d]
       /\ \A t \in Sessions \ {s} : owner'[t] = owner[t] /\ replaying'[t] = replaying[t]
       /\ owner'[s] = c /\ replaying'[s] = TRUE
  BY <1>1, <1>5 DEF TypeOK
<1>11. queue' \in [Connections -> Seq(Frames)]
  BY <1>1, <1>4, <1>5
<1>12. TypeOK'
  <2>1. /\ owner' \in [Sessions -> Connections \cup {NoConnection}]
        /\ replaying' \in [Sessions -> BOOLEAN]
        /\ reader' \in [Connections ->
             {"idle", "opening", "serving", "replaying", "sending", "releasing", "ended"}]
        /\ target' \in [Connections -> Sessions \cup {NoSession}]
        /\ cursor' \in [Connections -> 0..MaxSequence]
    BY <1>1, <1>4, <1>5 DEF TypeOK
  <2>2. \A d \in Connections : \A i \in 1..Len(queue'[d]) :
          /\ queue'[d][i].type \in Messages
          /\ [from |-> queue'[d][i].from, to |-> queue'[d][i].to] \in Chunks
    BY <1>11, QueueTypes
  <2> QED BY <1>1, <1>7, <1>8, <2>1, <2>2 DEF TypeOK, Machines
<1>13. OnlyAbout(c)
  BY <1>7, <1>8, <1>9, <1>10 DEF OnlyAbout, Same
<1>14. \A t \in Sessions : SessionOK(t)'
  <2> TAKE t \in Sessions
  <2>1. ServesStill(t) /\ SessionOK(t)
    BY <1>6, <1>7, <1>10, IInvIs DEF ServesStill, Serves
  <2>2. CASE t # s
    <3>1. Steady(t)
      BY <1>7, <1>10, <2>2 DEF Steady
    <3>2. ReplaysStill(t)
      BY <1>6, <1>10 DEF ReplaysStill
    <3> QED BY <1>1, <2>1, <3>1, <3>2, SessionStays
  <2>3. CASE t = s
    <3>1. life'[s] # "none" /\ Running(s)'
      BY <1>5, <1>7 DEF Running
    <3>2. copier'[s] \in {"sending", "detaching"} =>
            sendTo'[s] \in Connections /\ Serves(sendTo[s], s)'
      BY <1>7, <2>1, <2>3 DEF SessionOK, ServesStill, Serves
    <3>3. copier'[s] = "sending" => chunk'[s].from < chunk'[s].to /\ chunk'[s].to = nextOffset'[s]
      BY <1>7, <2>1, <2>3 DEF SessionOK
    <3> QED BY <1>10, <2>3, <3>1, <3>2, <3>3 DEF SessionOK
  <2> QED BY <2>2, <2>3
<1>15. ASSUME Grows
       PROVE  ConnectionOK(c)' /\ \A t \in Sessions : FeedOK(c, t)'
  <2>1. MachineOK(c)'
    <3>1. life'[s] # "none"
      BY <1>5, <1>7 DEF Running
    <3> QED BY <1>1, <1>6, <1>7, <1>8, <1>10, <3>1 DEF MachineOK
  <2>2. InStep(c)'
    BY <1>7, <1>8, <1>9, <1>10, NewOnes DEF InStep, Asked
  <2>3. ReplayOK(c)'
    <3>1. Script(queue[c], target[c], cursor[c])'
      <4>1. Script(q, s, end)'
        BY <1>4, <1>15, ScriptStays
      <4> QED BY <1>10, <4>1 DEF Script, ReplayFrame, Follows
    <3>2. cursor'[c] <= nextOffset'[s]
      <4>1. end \in Nat
        BY <1>4, LimitsAre
      <4> QED BY <1>3, <1>7, <1>10, <4>1
    <3>3. Accepted(machine'[c], Head(q))
      <4>1. PICK f : f = Head(q)
        OBVIOUS
      <4>2. PICK n : n = machine'[c]
        OBVIOUS
      <4>3. f.type = "session_reopened" /\ f.session = s /\ f.type \in FrameTypes
        BY <1>4, <4>1 DEF FrameTypes
      <4>4. SemanticsAllow(n, f)
        BY <1>8, <4>2, <4>3 DEF SemanticsAllow
      <4>5. PICK next : next = "REPLAYING"
        OBVIOUS
      <4>6. Moves(n.Session, f.type, next)
        BY <1>8, <4>2, <4>3, <4>5 DEF Moves
      <4> QED BY <4>1, <4>2, <4>3, <4>4, <4>6, AppliedIs
    <3>4. received'[c] = {} /\ ~browser'[c].offsets.nextOutputOffsetKnown
      BY <1>6, <1>7, <1>9, NewOnes DEF Asked
    <3> QED BY <1>4, <1>8, <1>10, <3>1, <3>2, <3>3, <3>4 DEF ReplayOK
  <2>4. \A t \in Sessions : FeedOK(c, t)'
    <3> TAKE t \in Sessions
    <3>1. ~Feeds(c, t)'
      BY <1>6, <1>7, <1>10 DEF Feeds, Carries, Watches
    <3> QED BY <3>1 DEF FeedOK
  <2> QED BY <1>10, <2>1, <2>2, <2>3, <2>4 DEF ConnectionOK
<1>16. \A d \in Connections \ {c}, t \in Sessions :
         Feeds(d, t)' => Feeds(d, t) /\ (Carries(d, t)' <=> Carries(d, t))
  <2> TAKE d \in Connections \ {c}, t \in Sessions
  <2>1. CASE t # s
    BY <1>7, <1>10, <2>1 DEF Feeds, Carries, Watches
  <2>2. CASE t = s
    BY <1>7, <1>10, <2>2 DEF Feeds, Carries, Watches
  <2> QED BY <2>1, <2>2
<1>17. \A t \in Sessions : /\ Running(t) => Running(t)'
                           /\ life[t] # "none" => life'[t] # "none"
  BY <1>7 DEF Running
<1>18. UNCHANGED historyVars /\ UNCHANGED chunk
  BY <1>5, <1>7
<1> QED BY <1>9, <1>11, <1>12, <1>13, <1>14, <1>15, <1>16, <1>17, <1>18, ActiveStep

-----------------------------------------------------------------------------
(* The invariant of the specification.                                     *)

LEMMA NothingKept ==
  ASSUME Init
  PROVE  HistoryOK
<1> USE DEF Init
<1>1. Listed({})
  BY FS_EmptySet DEF Listed
<1>2. \A s \in Sessions : Of(history, s) = {}
  BY DEF Of
<1>3. \A s \in Sessions : InOrder(Of(history, s)) /\ Covered(Of(history, s), nextOffset[s])
  BY <1>2 DEF InOrder, Covered
<1>4. AccountsBalance
  <2>1. 0 <= MaxAgentHistory /\ 0 <= MaxSessionHistory
    BY LimitsAre
  <2>2. history = {} /\ agentBytes = 0 /\ Bytes(history) = 0
    BY NoBytes
  <2>3. \A s \in Sessions : historyBytes[s] = 0 /\ Bytes(Of(history, s)) = 0
    BY <1>2, NoBytes
  <2> QED BY <2>1, <2>2, <2>3 DEF AccountsBalance
<1> QED BY <1>1, <1>3, <1>4 DEF HistoryOK

LEMMA InitTypes ==
  ASSUME Init
  PROVE  TypeOK /\ browser \in [Connections -> Browsers] /\ queue \in [Connections -> Seq(Frames)]
<1>1. 0 \in 0..MaxSequence /\ 0 \in 0..MaxSessionHistory /\ 0 \in 0..MaxAgentHistory
  BY LimitsAre
<1>2. NewMachine \in Machines /\ NewBrowser \in Browsers
  BY NewOnes
<1>3. machine \in [Connections -> Machines] /\ browser \in [Connections -> Browsers]
  BY <1>2 DEF Init
<1>4. queue \in [Connections -> Seq(Frames)]
  BY EmptySeq DEF Init
<1>5. \A c \in Connections : \A i \in 1..Len(queue[c]) :
        /\ queue[c][i].type \in Messages
        /\ [from |-> queue[c][i].from, to |-> queue[c][i].to] \in Chunks
  BY <1>4, QueueTypes
<1>6. NoChunk \in Chunks
  BY <1>1 DEF NoChunk, Chunks
<1>7. /\ life \in [Sessions -> {"none", "running", "closed"}]
      /\ owner \in [Sessions -> Connections \cup {NoConnection}]
      /\ replaying \in [Sessions -> BOOLEAN]
      /\ nextOffset \in [Sessions -> 0..MaxSequence]
      /\ history = {}
      /\ historyBytes \in [Sessions -> 0..MaxSessionHistory]
      /\ agentBytes \in 0..MaxAgentHistory
  BY <1>1 DEF Init
<1>8. /\ copier \in [Sessions -> {"none", "reading", "sending", "detaching", "ended"}]
      /\ chunk \in [Sessions -> Chunks]
      /\ sendTo \in [Sessions -> Connections \cup {NoConnection}]
      /\ up \in [Connections -> BOOLEAN]
  BY <1>6 DEF Init
<1>9. /\ reader \in [Connections ->
           {"idle", "opening", "serving", "replaying", "sending", "releasing", "ended"}]
      /\ target \in [Connections -> Sessions \cup {NoSession}]
      /\ cursor \in [Connections -> 0..MaxSequence]
      /\ received \in [Connections -> SUBSET (0..MaxSequence - 1)]
  BY <1>1 DEF Init
<1>10. TypeOK
  BY <1>3, <1>5, <1>7, <1>8, <1>9 DEF TypeOK, Machines
<1> QED BY <1>3, <1>4, <1>10

LEMMA InitOK == Init => IInv
<1> SUFFICES ASSUME Init PROVE IInv
  OBVIOUS
<1>1. TypeOK /\ HistoryOK /\ browser \in [Connections -> Browsers]
      /\ queue \in [Connections -> Seq(Frames)]
  BY InitTypes, NothingKept
<1>2. \A s \in Sessions : SessionOK(s)
  BY DEF Init, SessionOK
<1>3. \A c \in Connections : MachineOK(c)
  BY NewOnes DEF Init, MachineOK
<1>4. \A c \in Connections : InStep(c)
  BY NewOnes DEF Init, InStep
<1>5. \A c \in Connections : reader[c] = "idle"
  BY DEF Init
<1>6. \A c \in Connections, s \in Sessions : ~Feeds(c, s)
  BY HistoryAssumption DEF Init, Feeds, Watches
<1> QED BY <1>1, <1>2, <1>3, <1>4, <1>5, <1>6 DEF IInv, FeedOK

LEMMA ReplayKeeps ==
  ASSUME IInv, NEW c \in Connections, Replay(c)
  PROVE  IInv' /\ LostForReason
<1>1. CASE ReplayAllowed(c)
  BY <1>1, ReplayAllowedKeeps
<1>2. CASE ReplayLost(c)
  BY <1>2, ReplayLostKeeps
<1>3. CASE ReplaySends(c)
  BY <1>3, ReplaySendsKeeps
<1>4. CASE ReopenReleased(c)
  BY <1>4, ReopenReleasedKeeps
<1>5. CASE ReplayEvicted(c)
  BY <1>5, ReplayEvictedKeeps
<1>6. CASE ReplayContinues(c)
  BY <1>6, ReplayContinuesKeeps
<1>7. CASE ReplayEnds(c)
  BY <1>7, ReplayEndsKeeps
<1> QED BY <1>1, <1>2, <1>3, <1>4, <1>5, <1>6, <1>7 DEF Replay

LEMMA CopyOutputKeeps ==
  ASSUME IInv, NEW s \in Sessions, CopyOutput(s)
  PROVE  IInv' /\ LostForReason
<1>1. CASE CopyReads(s)
  BY <1>1, CopyReadsKeeps
<1>2. CASE CopyExhausts(s)
  BY <1>2, CopyExhaustsKeeps
<1>3. CASE CopyEnds(s)
  BY <1>3, CopyEndsKeeps
<1>4. CASE CopySends(s)
  BY <1>4, CopySendsKeeps
<1>5. CASE CopyDetaches(s)
  BY <1>5, CopyDetachesKeeps
<1> QED BY <1>1, <1>2, <1>3, <1>4, <1>5 DEF CopyOutput

(* A step of nobody changes nothing.                                       *)
LEMMA StutterKeeps ==
  ASSUME IInv, UNCHANGED vars
  PROVE  IInv' /\ LostForReason
<1>1. UNCHANGED <<registryVars, historyVars, copierVars, up, machines, replayVars, received>>
  BY DEF vars
<1>2. UNCHANGED <<life, owner, replaying, copier, chunk, sendTo, reader, target, queue, cursor>>
  BY <1>1 DEF registryVars, copierVars, replayVars
<1>3. TypeOK
  BY IInvIs
<1>4. Loosens
  BY <1>2, <1>3 DEF Loosens, TypeOK
<1>5. ReadersGoOn /\ CopiersGoOn
  BY <1>2, <1>3, ReadersStay, CopiersStay
<1>6. up' \in [Connections -> BOOLEAN] /\ \A c \in Connections : up'[c] => up[c]
  BY <1>1, <1>3 DEF TypeOK
<1> QED BY <1>1, <1>2, <1>4, <1>5, <1>6, QuietStep

LEMMA NextKeeps == IInv /\ [Next]_vars => IInv' /\ LostForReason
<1> SUFFICES ASSUME IInv, [Next]_vars PROVE IInv' /\ LostForReason
  OBVIOUS
<1>1. ASSUME NEW s \in Sessions, CopyOutput(s) \/ CloseManaged(s)
      PROVE  IInv' /\ LostForReason
  BY <1>1, CopyOutputKeeps, CloseManagedKeeps
<1>2. ASSUME NEW c \in Connections, Opened(c) \/ Detach(c)
      PROVE  IInv' /\ LostForReason
  BY <1>2, OpenedKeeps, DetachKeeps
<1>3. ASSUME NEW c \in Connections, Breaks(c) \/ Disconnected(c)
      PROVE  IInv' /\ LostForReason
  BY <1>3, BreaksKeeps, DisconnectedKeeps
<1>4. ASSUME NEW c \in Connections, Replay(c)
      PROVE  IInv' /\ LostForReason
  BY <1>4, ReplayKeeps
<1>5. ASSUME NEW c \in Connections, NEW s \in Sessions, Open(c, s) \/ Reopen(c, s)
      PROVE  IInv' /\ LostForReason
  BY <1>5, OpenKeeps, ReopenKeeps
<1>6. CASE UNCHANGED vars
  BY <1>6, StutterKeeps
<1> QED BY <1>1, <1>2, <1>3, <1>4, <1>5, <1>6 DEF Next

-----------------------------------------------------------------------------
(* The invariant: a list without holes, a session with one who watches it, *)
(* and two machines of a connection that are where the next frame begins.  *)
THEOREM HistoryInvariant == Spec => []IInv
<1>1. Init => IInv
  BY InitOK
<1>2. IInv /\ [Next]_vars => IInv'
  BY NextKeeps
<1> QED BY <1>1, <1>2, PTL DEF Spec

(* What HistoryIsContiguous says of one session.                           *)
LEMMA SessionIsContiguous ==
  ASSUME IInv, NEW s \in Sessions
  PROVE  /\ ~Running(s) => Of(history, s) = {}
         /\ UNION {e.from .. e.to - 1 : e \in Of(history, s)}
              = Start(history, s) .. nextOffset[s] - 1
         /\ \A e, f \in Of(history, s) : e.age < f.age => e.from < e.to /\ e.to <= f.from
<1> DEFINE E == Of(history, s)
           end == nextOffset[s]
<1>1. TypeOK /\ HistoryOK
  BY IInvIs
<1>2. Listed(E) /\ InOrder(E) /\ Covered(E, end) /\ end \in Nat
  BY <1>1, OfIsListed DEF HistoryOK, TypeOK
<1>3. ~Running(s) => E = {}
  BY <1>1 DEF HistoryOK, Of
<1>4. \A e, f \in E : e.age < f.age => e.from < e.to /\ e.to <= f.from
  BY <1>2 DEF Listed, InOrder
<1>5. PICK start : start = Begin(E, end)
  OBVIOUS
<1>6. /\ start \in Nat /\ Start(history, s) = start
      /\ \A e \in E : start <= e.from
      /\ \A o \in start .. end - 1 : \E e \in E : o \in e.from .. e.to - 1
  BY <1>2, <1>5, BeginIs, StartIs
<1>7. \A e \in E : e.from \in Nat /\ e.to \in Nat /\ e.to <= end
  BY <1>2, EntriesAre DEF Covered
<1>8. UNION {e.from .. e.to - 1 : e \in E} = start .. end - 1
  <2> HIDE DEF E, end
  <2>1. \A e \in E : e.from .. e.to - 1 \subseteq start .. end - 1
    BY <1>2, <1>6, <1>7
  <2>2. \A o \in start .. end - 1 : o \in UNION {e.from .. e.to - 1 : e \in E}
    BY <1>6
  <2> QED BY <2>1, <2>2
<1> QED BY <1>3, <1>4, <1>6, <1>8

(* What the agent keeps of a session is its newest output without a hole,  *)
(* in order, nothing is kept of a closed one, and the counts of one        *)
(* session and of all are what the entries add up to and in their limits.  *)
THEOREM HistoryStaysSound == Spec => []HistoryIsSound
<1>1. IInv => HistoryIsSound
  <2>1. SUFFICES ASSUME IInv PROVE HistoryIsSound
    OBVIOUS
  <2>2. HistoryIsContiguous
    BY <2>1, SessionIsContiguous DEF HistoryIsContiguous
  <2> QED BY <2>1, <2>2 DEF IInv, HistoryOK, HistoryIsSound
<1> QED BY <1>1, HistoryInvariant, PTL

(* A session that runs loses output only to its own limit or to the        *)
(* agent's, and then nothing older than the loss is kept.                  *)
THEOREM EvictionTakesTheOldest == Spec => EvictsTheOldest
<1>1. IInv /\ [Next]_vars => [LostForReason]_vars
  BY NextKeeps
<1> QED BY <1>1, HistoryInvariant, PTL DEF Spec, EvictsTheOldest, LostForReason

(* The agent's machine allows the chunk the copier has read for the holder,*)
(* and accepts the next frame of a replay.                                 *)
THEOREM AgentAcceptsItsFrames == Spec => []OwnFramesAccepted
<1>1. IInv => OwnFramesAccepted
  <2>1. SUFFICES ASSUME IInv PROVE OwnFramesAccepted
    OBVIOUS
  <2>2. ASSUME NEW s \in Sessions, copier[s] = "sending"
        PROVE  SemanticsAllow(machine[sendTo[s]], OutputFrame(s))
    <3>1. PICK c \in Connections : c = sendTo[s]
      BY <2>1, <2>2, IInvIs DEF SessionOK
    <3>2. PICK f : f = OutputFrame(s)
      OBVIOUS
    <3>3. PICK m : m = machine[c]
      OBVIOUS
    <3>4. PICK b : b = browser[c]
      OBVIOUS
    <3>5. HasOutput(s, c, f, m, b)
      BY <2>2, <3>1, <3>2, <3>3, <3>4 DEF HasOutput
    <3>6. SemanticsAllow(m, f)
      BY <2>1, <3>5, OutputGoes
    <3> QED BY <3>1, <3>2, <3>3, <3>6
  <2>3. ASSUME NEW c \in Connections, reader[c] = "sending"
        PROVE  Accepted(machine[c], Head(queue[c]))
    <3>1. queue[c] # <<>> /\ ReplayOK(c)
      BY <2>1, <2>3, IInvIs DEF ConnectionOK
    <3> QED BY <3>1 DEF ReplayOK
  <2> QED BY <2>2, <2>3 DEF OwnFramesAccepted
<1> QED BY <1>1, HistoryInvariant, PTL

(* The browser's machine accepts every frame that the agent's lets out.    *)
THEOREM BrowserAcceptsAll == Spec => []BrowserAccepts
<1>1. IInv => BrowserAccepts
  BY IInvIs DEF ConnectionOK, InStep, BrowserAccepts
<1> QED BY <1>1, HistoryInvariant, PTL

(* A browser that holds a session has all the agent keeps of it when the   *)
(* copier has nothing in hand.                                             *)
THEOREM LiveOutputIsComplete == Spec => []LiveIsComplete
<1>1. IInv => LiveIsComplete
  <2>1. SUFFICES ASSUME IInv, NEW c \in Connections, NEW s \in Sessions,
                        Holds(c, s), ~replaying[s], copier[s] = "reading"
                 PROVE  Start(history, s) .. nextOffset[s] - 1 \subseteq received[c]
    BY DEF LiveIsComplete
  <2>2. SessionOK(s) /\ FeedOK(c, s) /\ TypeOK
    BY <2>1, IInvIs
  <2>3. target[c] = s
    BY <2>1, <2>2, HistoryAssumption DEF SessionOK, Holds, Serves
  <2>4. ~Carries(c, s) /\ Feeds(c, s)
    BY <2>1 DEF Carries, Feeds, Watches, Holds
  <2>5. UpTo(c, nextOffset[s])
    BY <2>2, <2>4 DEF FeedOK
  <2> QED BY <2>3, <2>5 DEF UpTo
<1> QED BY <1>1, HistoryInvariant, PTL

-----------------------------------------------------------------------------
(* A browser gets one stretch of the output (OutputStream).                *)

Watched == [c \in Connections |-> machine[c].sessionID]

(* A step that neither writes, nor sends, nor says what a connection is    *)
(* about.                                                                  *)
LEMMA SilentOnStream ==
  ASSUME UNCHANGED <<nextOffset, received>>,
         \A c \in Connections : machine'[c].sessionID = machine[c].sessionID
  PROVE  [Stream!Next]_(Stream!vars)
<1>1. Watched' = Watched
  BY DEF Watched
<1> QED BY <1>1 DEF Stream!vars, Watched

(* Output is appended.                                                     *)
LEMMA WritesStream ==
  ASSUME TypeOK, NEW s \in Sessions, NEW n \in Nat \ {0}, nextOffset[s] + n <= MaxSequence,
         nextOffset' = [nextOffset EXCEPT ![s] = @ + n], UNCHANGED <<machine, received>>
  PROVE  Stream!Next
<1>1. nextOffset[s] \in Nat /\ nextOffset[s] + n \in nextOffset[s] + 1 .. MaxSequence
  BY LimitsAre DEF TypeOK
<1>2. Watched' = Watched
  BY DEF Watched
<1>3. Stream!Write(s)
  BY <1>1, <1>2 DEF Stream!Write, Watched
<1> QED BY <1>3 DEF Stream!Next

(* The agent's machine learns what the connection is about.                *)
LEMMA WatchesStream ==
  ASSUME TypeOK, NEW c \in Connections, NEW s \in Sessions,
         machine[c].sessionID = NoSession, machine'[c].sessionID = s,
         \A d \in Connections \ {c} : machine'[d].sessionID = machine[d].sessionID,
         UNCHANGED <<nextOffset, received>>
  PROVE  Stream!Next
<1>1. Watched' = [Watched EXCEPT ![c] = s] /\ Watched[c] = NoSession
  BY DEF Watched
<1>2. Stream!Watch(c, s)
  BY <1>1 DEF Stream!Watch, Watched
<1> QED BY <1>2 DEF Stream!Next

(* A frame carries the next output to a connection.                        *)
LEMMA DeliversStream ==
  ASSUME TypeOK, NEW c \in Connections, NEW s \in Sessions, NEW from \in Nat, NEW to \in Nat,
         machine[c].sessionID = s, from < to, to <= nextOffset[s], UpTo(c, from),
         received' = [received EXCEPT ![c] = @ \cup from .. to - 1],
         \A d \in Connections : machine'[d].sessionID = machine[d].sessionID,
         UNCHANGED nextOffset
  PROVE  Stream!Next
<1>1. Watched' = Watched /\ Watched[c] = s
  BY DEF Watched
<1>2. s # NoSession /\ nextOffset[s] \in Nat
  BY HistoryAssumption DEF TypeOK
<1>3. from \in 0 .. nextOffset[s] - 1 /\ to - 1 \in from .. nextOffset[s] - 1
  BY <1>2
<1>4. received[c] # {} => from = Stream!Max(received[c]) + 1
  <2>1. SUFFICES ASSUME received[c] # {} PROVE from = Stream!Max(received[c]) + 1
    OBVIOUS
  <2>2. received[c] \subseteq Nat /\ IsFiniteSet(received[c])
    <3>1. received[c] \subseteq 0 .. MaxSequence - 1
      BY DEF TypeOK
    <3>2. IsFiniteSet(0 .. MaxSequence - 1)
      BY LimitsAre, FS_Interval
    <3>3. IsFiniteSet(received[c])
      BY <3>1, <3>2, FS_Subset
    <3>4. 0 .. MaxSequence - 1 \subseteq Nat
      BY LimitsAre
    <3> QED BY <3>1, <3>3, <3>4
  <2>3. Stream!Max(received[c]) = Max(received[c])
    BY DEF Stream!Max, Max
  <2>4. Max(received[c]) \in received[c] /\ \A i \in received[c] : i <= Max(received[c])
    BY <2>1, <2>2, MaxIs
  <2>5. from - 1 \in received[c] /\ \A o \in received[c] : o < from
    BY <2>1 DEF UpTo
  <2> QED BY <2>2, <2>3, <2>4, <2>5
<1>5. Stream!Deliver(c)
  <2>1. Watched[c] # NoSession /\ UNCHANGED Watched /\ nextOffset[Watched[c]] = nextOffset[s]
    BY <1>1, <1>2
  <2>2. \E last \in from .. nextOffset[s] - 1 :
          received' = [received EXCEPT ![c] = @ \cup from .. last]
    BY <1>3
  <2> QED BY <1>3, <1>4, <2>1, <2>2 DEF Stream!Deliver, Watched
<1> QED BY <1>5 DEF Stream!Next

(* A frame about a session goes out on a connection about it, or about     *)
(* none so far: only the next output is delivered, and only to the first.  *)
LEMMA SendStreams ==
  ASSUME TypeOK, browser \in [Connections -> Browsers], NEW c \in Connections,
         NEW s \in Sessions, NEW f, f.session = s, f.from \in Nat, f.to \in Nat,
         Send(c, f), UNCHANGED nextOffset, machine[c].sessionID \in {NoSession, s},
         Sent(c, f) /\ CarriesOutput(f) =>
           /\ machine[c].sessionID = s
           /\ f.from < f.to /\ f.to <= nextOffset[s] /\ UpTo(c, f.from)
  PROVE  [Stream!Next]_(Stream!vars)
<1>1. PICK m \in Machines : m = machine[c]
  BY DEF TypeOK, Machines
<1>2. /\ machine'[c] = Applied(m, f)
      /\ \A d \in Connections \ {c} : machine'[d] = machine[d]
  BY <1>1, SendIs
<1>3. Applied(m, f).sessionID = s
  <2>1. SemanticsApplied(m, f).sessionID = s
    BY DEF SemanticsApplied, Machines
  <2>2. [m EXCEPT !.sessionID = IF @ = NoSession THEN f.session ELSE @].sessionID = s
    BY <1>1 DEF Machines
  <2>3. PICK n : n = SemanticsApplied(m, f)
    OBVIOUS
  <2>4. n \in [Session : SessionStates, sessionID : {s}, nextOutput : {n.nextOutput},
               historyBegun : {n.historyBegun}, historyCursor : {n.historyCursor},
               historyEnd : {n.historyEnd}]
    BY <2>1, <2>3 DEF SemanticsApplied, Machines
  <2>5. \A state : [n EXCEPT !.Session = state].sessionID = s
    BY <2>4
  <2> QED BY <2>1, <2>2, <2>3, <2>5 DEF Applied
<1>4. received' = [received EXCEPT ![c] =
        IF Sent(c, f) /\ CarriesOutput(f) THEN @ \cup f.from .. f.to - 1 ELSE @]
  BY DEF Send
<1>5. CASE Sent(c, f) /\ CarriesOutput(f)
  <2>1. \A d \in Connections : machine'[d].sessionID = machine[d].sessionID
    BY <1>1, <1>2, <1>3, <1>5
  <2>2. received' = [received EXCEPT ![c] = @ \cup f.from .. f.to - 1]
    BY <1>4, <1>5
  <2> QED BY <1>5, <2>1, <2>2, DeliversStream
<1>6. CASE ~(Sent(c, f) /\ CarriesOutput(f))
  <2>1. received' = received
    BY <1>4, <1>6 DEF TypeOK
  <2>2. CASE m.sessionID = s
    BY <1>1, <1>2, <1>3, <2>1, <2>2, SilentOnStream
  <2>3. CASE m.sessionID = NoSession
    BY <1>1, <1>2, <1>3, <2>1, <2>3, WatchesStream
  <2> QED BY <1>1, <2>2, <2>3
<1> QED BY <1>5, <1>6

(* The steps that nothing of it is seen of.                                *)
LEMMA QuietOnStream ==
  ASSUME UNCHANGED <<machine, received, nextOffset>>
  PROVE  [Stream!Next]_(Stream!vars)
BY SilentOnStream

LEMMA OpeningStreams ==
  ASSUME IInv, NEW c \in Connections
  PROVE  /\ \A s \in Sessions : Open(c, s) => [Stream!Next]_(Stream!vars)
         /\ Detach(c) => [Stream!Next]_(Stream!vars)
<1>1. TypeOK
  BY IInvIs
<1>2. ASSUME NEW state \in {"OPENING", "REOPENING", "DETACHING"},
             machine' = [machine EXCEPT ![c].Session = state], UNCHANGED <<nextOffset, received>>
      PROVE  [Stream!Next]_(Stream!vars)
  <2>1. machine'[c].sessionID = machine[c].sessionID
    BY <1>1, <1>2, MachineMoves
  <2>2. \A d \in Connections \ {c} : machine'[d] = machine[d]
    BY <1>1, <1>2 DEF TypeOK
  <2> QED BY <1>2, <2>1, <2>2, SilentOnStream
<1>3. \A s \in Sessions : Open(c, s) => [Stream!Next]_(Stream!vars)
  BY <1>2 DEF Open, historyVars
<1>4. Detach(c) => [Stream!Next]_(Stream!vars)
  BY <1>2 DEF Detach, historyVars
<1> QED BY <1>3, <1>4

LEMMA ReopenStreams ==
  ASSUME IInv, NEW c \in Connections, NEW s \in Sessions, Reopen(c, s)
  PROVE  [Stream!Next]_(Stream!vars)
<1>1. TypeOK /\ reader[c] = "idle" /\ UNCHANGED <<nextOffset, received>>
  BY IInvIs DEF Reopen, historyVars
<1>2. machine[c].sessionID = NoSession
  BY <1>1, IdleIs, NewOnes
<1>3. PICK m \in Machines : m = machine[c]
  BY <1>1 DEF TypeOK, Machines
<1>4. machine' = [machine EXCEPT ![c] =
        [m EXCEPT !.Session = "REOPENING", !.sessionID = s, !.nextOutput = nextOffset[s]]]
  BY <1>1, <1>3 DEF Reopen, TypeOK
<1>5. machine'[c] = [m EXCEPT !.Session = "REOPENING", !.sessionID = s, !.nextOutput = nextOffset[s]]
      /\ \A d \in Connections \ {c} : machine'[d] = machine[d]
  BY <1>1, <1>4 DEF TypeOK
<1>6. machine'[c].sessionID = s
  BY <1>3, <1>5 DEF Machines
<1> QED BY <1>1, <1>2, <1>5, <1>6, WatchesStream

LEMMA CopyReadsStreams ==
  ASSUME IInv, NEW s \in Sessions, CopyReads(s)
  PROVE  Stream!Next
<1>1. TypeOK
  BY IInvIs
<1>2. PICK n \in 1..MaxTerminalOutput : nextOffset[s] <= MaxSequence - n /\ AppendHistory(s, n)
  BY DEF CopyReads
<1>3. n \in Nat \ {0} /\ nextOffset[s] + n <= MaxSequence
  BY <1>1, <1>2, LimitsAre DEF TypeOK
<1>4. nextOffset' = [nextOffset EXCEPT ![s] = @ + n] /\ UNCHANGED <<machine, received>>
  BY <1>2 DEF AppendHistory, CopyReads, machines
<1> QED BY <1>1, <1>3, <1>4, WritesStream

LEMMA CopySendsStreams ==
  ASSUME IInv, NEW s \in Sessions, CopySends(s)
  PROVE  [Stream!Next]_(Stream!vars)
<1>1. /\ TypeOK /\ SessionOK(s) /\ browser \in [Connections -> Browsers]
      /\ copier[s] = "sending" /\ UNCHANGED nextOffset
  BY IInvIs DEF CopySends, historyVars
<1>2. PICK c \in Connections : c = sendTo[s]
  BY <1>1 DEF SessionOK
<1>3. PICK f : f = OutputFrame(s)
  OBVIOUS
<1>4. PICK m : m = machine[c]
  OBVIOUS
<1>5. PICK b : b = browser[c]
  OBVIOUS
<1>6. HasOutput(s, c, f, m, b)
  BY <1>1, <1>2, <1>3, <1>4, <1>5 DEF HasOutput
<1>7. /\ f.session = s /\ f.from < f.to /\ f.from \in Nat /\ f.to \in Nat
      /\ f.to = nextOffset[s] /\ UpTo(c, f.from) /\ target[c] = s
      /\ Sent(c, f) => m.Session = "OPEN"
  BY <1>6, OutputGoes
<1>8. /\ m.sessionID \in {NoSession, s}
      /\ m.Session = "OPEN" => m.sessionID = s
  BY <1>4, <1>7, IInvIs DEF ConnectionOK, MachineOK
<1>9. Send(c, f)
  BY <1>2, <1>3 DEF CopySends
<1> QED BY <1>1, <1>4, <1>7, <1>8, <1>9, SendStreams

LEMMA OpenedStreams ==
  ASSUME IInv, NEW c \in Connections, Opened(c)
  PROVE  [Stream!Next]_(Stream!vars)
<1>1. /\ TypeOK /\ MachineOK(c) /\ browser \in [Connections -> Browsers]
      /\ reader[c] = "opening" /\ UNCHANGED nextOffset
  BY IInvIs DEF ConnectionOK, Opened, historyVars
<1>2. PICK s : s = target[c]
  OBVIOUS
<1>3. s \in Sessions /\ machine[c].sessionID \in {NoSession, s}
  BY <1>1, <1>2 DEF MachineOK
<1>4. PICK f : f = OpenedFrame(c)
  OBVIOUS
<1>5. f.session = s /\ f.from = 0 /\ f.to = 0 /\ ~CarriesOutput(f) /\ Send(c, f)
  BY <1>2, <1>4 DEF OpenedFrame, Frame, CarriesOutput, Opened
<1> QED BY <1>1, <1>3, <1>5, SendStreams

LEMMA ReplaySendsStreams ==
  ASSUME IInv, NEW c \in Connections, ReplaySends(c)
  PROVE  [Stream!Next]_(Stream!vars)
<1>1. /\ TypeOK /\ MachineOK(c) /\ browser \in [Connections -> Browsers]
      /\ reader[c] = "sending" /\ UNCHANGED nextOffset
  BY IInvIs DEF ConnectionOK, ReplaySends, historyVars
<1>2. PICK s : s = target[c]
  OBVIOUS
<1>3. PICK f : f = Head(queue[c])
  OBVIOUS
<1>4. PICK m : m = machine[c]
  OBVIOUS
<1>5. PICK b : b = browser[c]
  OBVIOUS
<1>6. HasFrame(s, c, f, m, b)
  BY <1>1, <1>2, <1>3, <1>4, <1>5 DEF HasFrame
<1>7. /\ s \in Sessions /\ f.session = s /\ f.from \in Nat /\ f.to \in Nat
      /\ f.to <= nextOffset[s] /\ ReplayFrame(f, s, cursor[c])
      /\ SemanticsAllow(m, f)
  BY <1>6, FrameIs
<1>8. ReplayOK(c)
  BY <1>1, IInvIs DEF ConnectionOK
<1>9. m.sessionID = s
  BY <1>1, <1>2, <1>4, <1>8 DEF MachineOK, ReplayOK
<1>10. CarriesOutput(f) => f.from < f.to /\ UpTo(c, f.from)
  <2>1. CASE f.type = "history_chunk"
    <3>1. m.historyBegun /\ f.from = m.historyCursor
      BY <1>7, <2>1 DEF SemanticsAllow
    <3>2. UpTo(c, m.historyCursor)
      BY <1>4, <1>8, <3>1 DEF ReplayOK
    <3> QED BY <1>7, <2>1, <3>1, <3>2 DEF ReplayFrame
  <2>2. CASE f.type = "terminal_output"
    <3>1. f.from = m.nextOutput /\ m.nextOutput = cursor[c]
      BY <1>4, <1>7, <1>8, <2>2 DEF SemanticsAllow, ReplayOK
    <3>2. PICK next : Moves(m.Session, f.type, next)
      BY <1>6, FrameMoves
    <3>3. m.Session = "OPEN"
      BY <2>2, <3>2 DEF Moves
    <3>4. UpTo(c, cursor[c])
      BY <1>4, <1>8, <3>3 DEF ReplayOK
    <3> QED BY <1>7, <2>2, <3>1, <3>4 DEF ReplayFrame
  <2> QED BY <2>1, <2>2 DEF CarriesOutput
<1>11. Send(c, f)
  BY <1>3 DEF ReplaySends
<1> QED BY <1>1, <1>4, <1>7, <1>9, <1>10, <1>11, SendStreams

LEMMA CopyStreams ==
  ASSUME IInv, NEW s \in Sessions, CopyOutput(s) \/ CloseManaged(s)
  PROVE  [Stream!Next]_(Stream!vars)
<1>1. CASE CopyReads(s)
  BY <1>1, CopyReadsStreams
<1>2. CASE CopyExhausts(s)
  BY <1>2, QuietOnStream DEF CopyExhausts, Close, machines
<1>3. CASE CopyEnds(s)
  BY <1>3, QuietOnStream DEF CopyEnds, machines, historyVars
<1>4. CASE CopySends(s)
  BY <1>4, CopySendsStreams
<1>5. CASE CopyDetaches(s)
  BY <1>5, QuietOnStream DEF CopyDetaches, machines, historyVars
<1>6. CASE CloseManaged(s)
  BY <1>6, QuietOnStream DEF CloseManaged, Close, machines
<1> QED BY <1>1, <1>2, <1>3, <1>4, <1>5, <1>6 DEF CopyOutput

LEMMA ReplayStreams ==
  ASSUME IInv, NEW c \in Connections, Replay(c)
  PROVE  [Stream!Next]_(Stream!vars)
<1>1. CASE ReplaySends(c)
  BY <1>1, ReplaySendsStreams
<1>2. CASE ReplayAllowed(c) \/ ReplayLost(c) \/ ReopenReleased(c)
  BY <1>2, QuietOnStream DEF ReplayAllowed, ReplayLost, ReopenReleased, machines, historyVars
<1>3. CASE ReplayEvicted(c) \/ ReplayContinues(c) \/ ReplayEnds(c)
  BY <1>3, QuietOnStream DEF ReplayEvicted, ReplayContinues, ReplayEnds, machines, historyVars
<1> QED BY <1>1, <1>2, <1>3 DEF Replay

LEMMA NextStreams ==
  IInv /\ [Next]_vars => [Stream!Next]_(Stream!vars)
<1> SUFFICES ASSUME IInv, [Next]_vars PROVE [Stream!Next]_(Stream!vars)
  OBVIOUS
<1>1. ASSUME NEW s \in Sessions, CopyOutput(s) \/ CloseManaged(s)
      PROVE  [Stream!Next]_(Stream!vars)
  BY <1>1, CopyStreams
<1>2. ASSUME NEW c \in Connections, Opened(c) \/ Detach(c)
      PROVE  [Stream!Next]_(Stream!vars)
  BY <1>2, OpenedStreams, OpeningStreams
<1>3. ASSUME NEW c \in Connections, Breaks(c) \/ Disconnected(c)
      PROVE  [Stream!Next]_(Stream!vars)
  BY <1>3, QuietOnStream DEF Breaks, Disconnected, Close, machines, historyVars
<1>4. ASSUME NEW c \in Connections, Replay(c)
      PROVE  [Stream!Next]_(Stream!vars)
  BY <1>4, ReplayStreams
<1>5. ASSUME NEW c \in Connections, NEW s \in Sessions, Open(c, s) \/ Reopen(c, s)
      PROVE  [Stream!Next]_(Stream!vars)
  BY <1>5, OpeningStreams, ReopenStreams
<1>6. CASE UNCHANGED vars
  BY <1>6, QuietOnStream DEF vars, machines, historyVars
<1> QED BY <1>1, <1>2, <1>3, <1>4, <1>5, <1>6 DEF Next

(* Live or replayed, reopened or evicted in between: what a browser is     *)
(* given is a stretch of what the process wrote, in order and with nothing *)
(* missing inside.  Every step of the agent is a write, a connection that  *)
(* takes up a session, a delivery of the next bytes, or nothing.           *)
THEOREM BrowsersGetOneStretch == Spec => StreamIsWhole
<1>1. Init => Stream!Init
  <2>1. SUFFICES ASSUME Init PROVE Stream!Init
    OBVIOUS
  <2>2. \A c \in Connections : machine[c].sessionID = NoSession
    <3>1. \A c \in Connections : machine[c] = NewMachine
      BY <2>1 DEF Init
    <3> QED BY <3>1, NewOnes
  <2>3. Watched = [c \in Connections |-> NoSession]
    BY <2>2 DEF Watched
  <2> QED BY <2>1, <2>3 DEF Init, Stream!Init, Watched
<1>2. IInv /\ [Next]_vars => [Stream!Next]_(Stream!vars)
  BY NextStreams
<1> QED BY <1>1, <1>2, HistoryInvariant, PTL DEF Spec, StreamIsWhole, Stream!Spec
=============================================================================
