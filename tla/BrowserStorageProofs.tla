------------------------ MODULE BrowserStorageProofs ------------------------
(***************************************************************************)
(* What the tabs of a browser share, for any number of tabs, pairings and  *)
(* terminals, and whatever older deployments have saved.                   *)
(***************************************************************************)
EXTENDS BrowserStorage, FiniteSetTheorems, SequenceTheorems, WellFoundedInduction, TLAPS

(* The entries that the list of recent terminals may have.                 *)
Terminals ==
  {[scope |-> HostOf[s], credential |-> OwnerOf[s], session |-> s] : s \in Sessions}

Lists == {list \in Seq(Terminals) : Len(list) <= Limit /\ IsInjective(list)}

(* What readPersistedConnectState may return.                              *)
States == [selected : Modes \cup {NoMode}, profiles : Seq(Profiles)]

AtMostOne(set) == \A x, y \in set : x = y

(* A profile the page may connect with.                                    *)
Allowed(p) ==
  /\ p.origin = Page
  /\ p.endpoint.scheme = "wss" /\ p.endpoint.bare
  /\ p.mode = "local" <=> p.endpoint.host = "loopback"
  /\ \A q \in Range(Env) : p.mode = q.mode /\ IsConnectProfile(q) => p = q

-----------------------------------------------------------------------------
(* The profiles                                                            *)

(* A nonempty set of positions has a last one.                             *)
LEMMA LastExists ==
  ASSUME NEW n \in Nat, NEW S, S \subseteq 1..n, S # {}
  PROVE  \E i \in S : \A j \in S : j <= i
<1> DEFINE T == {n - i : i \in S}
<1>1. T \subseteq Nat /\ T # {}
  <2>1. \A i \in S : n - i \in Nat
    OBVIOUS
  <2> QED
    BY <2>1, Zenon
<1>2. PICK x \in T : \A y \in T : ~(<<y, x>> \in OpToRel(<, Nat))
  <2> HIDE DEF T
  <2> QED
    BY <1>1, NatLessThanWellFounded, WFMin
<1>3. PICK i \in S : x = n - i
  OBVIOUS
<1>4. ASSUME NEW j \in S PROVE j <= i
  <2>1. n - j \in T
    OBVIOUS
  <2>2. ~(n - j < n - i)
    BY <1>1, <1>2, <1>3, <2>1 DEF OpToRel
  <2> QED
    BY <2>2
<1> QED
  BY <1>4

(* What LastOf returns: nothing, or a valid profile of the mode that no     *)
(* other valid one of the mode comes after.                                *)
LEMMA LastOfIs ==
  ASSUME NEW profiles \in Seq(Profiles), NEW mode
  PROVE  \/ LastOf(profiles, mode) = <<>>
         \/ \E i \in 1..Len(profiles) :
              /\ LastOf(profiles, mode) = <<profiles[i]>>
              /\ IsConnectProfile(profiles[i]) /\ profiles[i].mode = mode
              /\ \A j \in 1..Len(profiles) :
                   IsConnectProfile(profiles[j]) /\ profiles[j].mode = mode => j <= i
<1> DEFINE ofMode == {i \in DOMAIN profiles :
                        IsConnectProfile(profiles[i]) /\ profiles[i].mode = mode}
<1>1. CASE ofMode = {}
  BY <1>1 DEF LastOf
<1>2. CASE ofMode # {}
  <2>1. Len(profiles) \in Nat /\ ofMode \subseteq 1..Len(profiles)
    OBVIOUS
  <2>2. \E i \in ofMode : \A j \in ofMode : j <= i
    <3> HIDE DEF ofMode
    <3> QED
      BY <1>2, <2>1, LastExists
  <2> DEFINE last == CHOOSE i \in ofMode : \A j \in ofMode : j <= i
  <2>3. last \in ofMode /\ \A j \in ofMode : j <= last
    BY <2>2
  <2>4. LastOf(profiles, mode) = <<profiles[last]>>
    BY <1>2 DEF LastOf
  <2> HIDE DEF last
  <2> QED
    BY <2>3, <2>4
<1> QED
  BY <1>1, <1>2

(* resolveProfiles, and the page's own filter: what the page may choose    *)
(* from is allowed, and there is at most one profile of each mode.         *)
LEMMA ResolvedIsAllowed ==
  ASSUME NEW saved \in States
  PROVE  /\ Resolve(Env, saved) \in Seq(Profiles)
         /\ \A p \in Available(Resolve(Env, saved)) :
              p \in Profiles /\ p.mode \in Modes /\ Allowed(p)
         /\ \A mode \in Modes : AtMostOne(OfMode(Available(Resolve(Env, saved)), mode))
<1> DEFINE all == saved.profiles \o Env
<1>1. saved.profiles \in Seq(Profiles) /\ Env \in Seq(Profiles)
  BY DeploymentAssumption DEF States
<1>2. /\ all \in Seq(Profiles)
      /\ Len(all) = Len(saved.profiles) + Len(Env)
      /\ \A i \in 1..Len(Env) : all[Len(saved.profiles) + i] = Env[i]
      /\ \A i \in 1..Len(all) :
           i > Len(saved.profiles) => /\ i - Len(saved.profiles) \in 1..Len(Env)
                                      /\ all[i] = Env[i - Len(saved.profiles)]
  BY <1>1
<1> HIDE DEF all
<1>3. Resolve(Env, saved) = LastOf(all, "local") \o LastOf(all, "private")
  BY DEF Resolve, all
(* The deployment's profile of a mode is the last of the mode.             *)
<1>4. ASSUME NEW i \in 1..Len(all), IsConnectProfile(all[i]),
             \A j \in 1..Len(all) :
               IsConnectProfile(all[j]) /\ all[j].mode = all[i].mode => j <= i,
             NEW q \in Range(Env), all[i].mode = q.mode, IsConnectProfile(q)
      PROVE  all[i] = q
  <2>1. PICK k \in 1..Len(Env) : q = Env[k]
    BY <1>1 DEF Range
  <2> DEFINE kept == Len(saved.profiles)
             given == Len(Env)
  <2>k. kept \in Nat /\ given \in Nat /\ DOMAIN Env = 1..given
    BY <1>1
  <2>a. /\ Len(all) = kept + given /\ \A j \in 1..given : all[kept + j] = Env[j]
        /\ \A j \in 1..Len(all) : j > kept => j - kept \in 1..given /\ all[j] = Env[j - kept]
    BY <1>2
  <2>q. k \in 1..given
    BY <2>1
  <2> HIDE DEF kept, given
  <2>2. kept + k <= i
    <3>1. kept + k \in 1..Len(all)
      BY <2>k, <2>a, <2>q
    <3>2. all[kept + k] = q
      BY <2>1, <2>a, <2>q
    <3> QED
      BY <1>4, <3>1, <3>2
  <2>3. PICK l \in 1..given : all[i] = Env[l]
    <3>1. i > kept
      BY <2>k, <2>q, <2>2
    <3> QED
      BY <2>a, <3>1
  <2>4. Env[k].mode = Env[l].mode
    BY <1>4, <2>1, <2>3
  <2>5. k = l
    BY <2>k, <2>q, <2>3, <2>4, DeploymentAssumption
  <2> QED
    BY <2>1, <2>3, <2>5
<1>5. ASSUME NEW mode \in Modes
      PROVE  /\ LastOf(all, mode) \in Seq(Profiles) /\ Len(LastOf(all, mode)) <= 1
             /\ \A i \in 1..Len(LastOf(all, mode)) :
                  LET p == LastOf(all, mode)[i]
                  IN  p.mode = mode /\ (p.origin = Page => Allowed(p))
  <2>2. ASSUME NEW i \in 1..Len(all),
               LastOf(all, mode) = <<all[i]>>,
               IsConnectProfile(all[i]), all[i].mode = mode,
               \A j \in 1..Len(all) : IsConnectProfile(all[j]) /\ all[j].mode = mode => j <= i
        PROVE  /\ LastOf(all, mode) \in Seq(Profiles) /\ Len(LastOf(all, mode)) = 1
               /\ LastOf(all, mode)[1] = all[i]
               /\ all[i].origin = Page => Allowed(all[i])
    <3>1. all[i] \in Profiles
      BY <1>2
    <3>2. /\ all[i].endpoint.scheme = "wss" /\ all[i].endpoint.bare
          /\ all[i].mode = "local" <=> all[i].endpoint.host = "loopback"
      BY <2>2 DEF IsConnectProfile, Valid, ValidLocal, ValidPrivate, CommonUrls, Private, Modes
    <3>3. \A q \in Range(Env) : all[i].mode = q.mode /\ IsConnectProfile(q) => all[i] = q
      BY <1>4, <2>2
    <3> QED
      BY <2>2, <3>1, <3>2, <3>3 DEF Allowed
  <2> DEFINE last == LastOf(all, mode)
  <2>3. \/ last = <<>>
        \/ /\ last \in Seq(Profiles) /\ Len(last) = 1
           /\ last[1].mode = mode /\ (last[1].origin = Page => Allowed(last[1]))
    <3>1. CASE LastOf(all, mode) = <<>>
      BY <3>1
    <3>2. CASE \E i \in 1..Len(all) :
              /\ LastOf(all, mode) = <<all[i]>>
              /\ IsConnectProfile(all[i]) /\ all[i].mode = mode
              /\ \A j \in 1..Len(all) :
                   IsConnectProfile(all[j]) /\ all[j].mode = mode => j <= i
      <4>1. PICK i \in 1..Len(all) :
              /\ LastOf(all, mode) = <<all[i]>>
              /\ IsConnectProfile(all[i]) /\ all[i].mode = mode
              /\ \A j \in 1..Len(all) :
                   IsConnectProfile(all[j]) /\ all[j].mode = mode => j <= i
        BY <3>2
      <4>2. /\ LastOf(all, mode) \in Seq(Profiles) /\ Len(LastOf(all, mode)) = 1
            /\ LastOf(all, mode)[1] = all[i]
            /\ all[i].origin = Page => Allowed(all[i])
        BY <2>2, <4>1
      <4> QED
        BY <4>1, <4>2
    <3>3. all \in Seq(Profiles)
      BY <1>2
    <3> QED
      BY <3>1, <3>2, <3>3, LastOfIs
  <2> HIDE DEF last
  <2>4. /\ last \in Seq(Profiles) /\ Len(last) <= 1
        /\ \A i \in 1..Len(last) :
             last[i].mode = mode /\ (last[i].origin = Page => Allowed(last[i]))
    <3>1. CASE last = <<>>
      BY <3>1
    <3>2. CASE last # <<>>
      <4>1. Len(last) = 1
        BY <2>3, <3>2
      <4> QED
        BY <2>3, <3>2, <4>1
    <3> QED
      BY <3>1, <3>2
  <2> QED
    BY <2>4 DEF last
<1> DEFINE first == LastOf(all, "local")
           second == LastOf(all, "private")
<1>6. /\ first \in Seq(Profiles) /\ Len(first) <= 1
      /\ \A i \in 1..Len(first) :
           first[i].mode = "local" /\ (first[i].origin = Page => Allowed(first[i]))
      /\ second \in Seq(Profiles) /\ Len(second) <= 1
      /\ \A i \in 1..Len(second) :
           second[i].mode = "private" /\ (second[i].origin = Page => Allowed(second[i]))
  BY <1>5 DEF Modes
<1> HIDE DEF first, second
<1>7. Resolve(Env, saved) = first \o second
  BY <1>3 DEF first, second
<1>8. /\ first \o second \in Seq(Profiles)
      /\ \A i \in DOMAIN (first \o second) :
           LET p == (first \o second)[i]
           IN  /\ p \in Profiles /\ p.mode \in Modes /\ (p.origin = Page => Allowed(p))
               /\ p.mode = "local" => i <= Len(first)
               /\ p.mode = "private" => i = Len(first) + 1
  BY <1>6 DEF Modes
<1>9. \A mode \in Modes : AtMostOne(OfMode(Available(first \o second), mode))
  BY <1>6, <1>8 DEF AtMostOne, OfMode, Available, Modes
<1> QED
  BY <1>7, <1>8, <1>9 DEF Available

(* What the page selects.                                                  *)
LEMMA SelectedIsAllowed ==
  ASSUME NEW saved \in States, NEW chosen
  PROVE  /\ \A p \in Selected(chosen, saved) : p \in Profiles /\ Allowed(p)
         /\ AtMostOne(Selected(chosen, saved))
<1> DEFINE available == Available(Resolve(Env, saved))
<1>1. /\ \A p \in available : p \in Profiles /\ p.mode \in Modes /\ Allowed(p)
      /\ \A mode \in Modes : AtMostOne(OfMode(available, mode))
  BY ResolvedIsAllowed
<1> HIDE DEF available
<1>2. \A mode : AtMostOne(OfMode(available, mode)) /\ OfMode(available, mode) \subseteq available
  BY <1>1 DEF AtMostOne, OfMode
<1>3. \E mode : Selected(chosen, saved) = OfMode(available, mode)
  BY DEF Selected, SelectInitial, available
<1> QED
  BY <1>1, <1>2, <1>3

(* What a tab makes of the connect state it reads is a connect state.      *)
LEMMA ReadIsState ==
  ASSUME NEW stored \in States
  PROVE  ReadState(stored) \in States
BY DEF ReadState, NoState, States

-----------------------------------------------------------------------------
(* The recent terminals                                                    *)

(* An update keeps the list within its limit, and no terminal twice in it. *)
LEMMA UpdatedIsList ==
  ASSUME NEW list \in Lists, NEW entry \in Terminals, NEW ended \in BOOLEAN
  PROVE  Updated(list, entry, ended) \in Lists
<1>1. Limit \in Nat \ {0}
  BY StorageAssumption
<1>2. list \in Seq(Terminals) /\ Len(list) \in Nat /\ IsInjective(list)
  BY DEF Lists
<1> DEFINE rest == Without(list, entry)
<1>3. rest \in Seq(Terminals) /\ IsInjective(rest) /\ \A i \in 1..Len(rest) : rest[i] # entry
  <2>1. CASE entry \notin Range(list)
    BY <1>2, <2>1 DEF Without, Range
  <2>2. CASE entry \in Range(list)
    <3>1. PICK at \in 1..Len(list) :
            list[at] = entry /\ rest = SubSeq(list, 1, at - 1) \o SubSeq(list, at + 1, Len(list))
      <4> DEFINE place == CHOOSE i \in DOMAIN list : list[i] = entry
      <4>1. place \in 1..Len(list) /\ list[place] = entry
        BY <1>2, <2>2 DEF Range
      <4>2. rest = SubSeq(list, 1, place - 1) \o SubSeq(list, place + 1, Len(list))
        BY <2>2 DEF Without, RemoveAt
      <4> HIDE DEF place, rest
      <4> QED
        BY <4>1, <4>2
    <3> HIDE DEF rest
    <3>2. at \in Int /\ 1 <= at /\ at <= Len(list)
      BY <1>2
    <3>3. /\ rest \in Seq(Terminals) /\ Len(rest) = Len(list) - 1
          /\ \A i \in 1..at - 1 : rest[i] = list[i]
          /\ \A i \in at..Len(list) - 1 : rest[i] = list[i + 1]
      <4> DEFINE before == SubSeq(list, 1, at - 1)
                 after == SubSeq(list, at + 1, Len(list))
      <4>1. /\ before \in Seq(Terminals) /\ Len(before) = at - 1
            /\ \A i \in 1..at - 1 : before[i] = list[i]
        BY <1>2, <3>2
      <4>2. /\ after \in Seq(Terminals) /\ Len(after) = Len(list) - at
            /\ \A i \in 1..Len(list) - at : after[i] = list[at + i]
        BY <1>2, <3>2
      <4> HIDE DEF before, after
      <4>3. /\ before \o after \in Seq(Terminals)
            /\ Len(before \o after) = Len(before) + Len(after)
            /\ \A i \in 1..Len(before) + Len(after) :
                 (before \o after)[i] = IF i <= Len(before) THEN before[i]
                                        ELSE after[i - Len(before)]
        BY <4>1, <4>2, ConcatProperties
      <4>4. Len(before \o after) = Len(list) - 1
        BY <1>2, <3>2, <4>1, <4>2, <4>3
      <4>5. ASSUME NEW i \in 1..at - 1 PROVE (before \o after)[i] = list[i]
        BY <1>2, <3>2, <4>1, <4>2, <4>3
      <4>6. ASSUME NEW i \in at..Len(list) - 1 PROVE (before \o after)[i] = list[i + 1]
        <5>1. /\ i \in 1..Len(before) + Len(after) /\ ~(i <= Len(before))
              /\ i - Len(before) \in 1..Len(list) - at /\ at + (i - Len(before)) = i + 1
          BY <1>2, <3>2, <4>1, <4>2
        <5>2. (before \o after)[i] = after[i - Len(before)]
          BY <4>3, <5>1
        <5> QED
          BY <4>2, <5>1, <5>2
      <4> QED
        BY <3>1, <4>3, <4>4, <4>5, <4>6 DEF before, after
    <3>4. \A i, j \in 1..Len(list) : list[i] = list[j] => i = j
      BY <1>2 DEF IsInjective
    <3>5. ASSUME NEW i \in 1..Len(rest)
          PROVE  \E k \in 1..Len(list) :
                   rest[i] = list[k] /\ k = (IF i < at THEN i ELSE i + 1)
      BY <1>2, <3>2, <3>3
    <3>6. ASSUME NEW i \in 1..Len(rest), NEW j \in 1..Len(rest), rest[i] = rest[j] PROVE i = j
      BY <1>2, <3>2, <3>3, <3>4, <3>5, <3>6
    <3>7. ASSUME NEW i \in 1..Len(rest) PROVE rest[i] # entry
      <4>1. PICK k \in 1..Len(list) : rest[i] = list[k] /\ k = (IF i < at THEN i ELSE i + 1)
        BY <3>5
      <4>2. k # at
        BY <3>2, <4>1
      <4> QED
        BY <3>1, <3>4, <4>1, <4>2
    <3> QED
      BY <3>3, <3>6, <3>7 DEF IsInjective
  <2> QED
    BY <2>1, <2>2
<1> HIDE DEF rest
<1> DEFINE all == IF ended THEN rest ELSE <<entry>> \o rest
<1>4. all \in Seq(Terminals) /\ IsInjective(all)
  <2>1. CASE ended
    BY <1>3, <2>1
  <2>2. CASE ~ended
    <3>1. /\ all \in Seq(Terminals) /\ Len(all) = Len(rest) + 1
          /\ \A i \in 1..Len(all) : all[i] = IF i = 1 THEN entry ELSE rest[i - 1]
      BY <1>3, <2>2
    <3> HIDE DEF all
    <3>2. \A i, j \in 1..Len(rest) : rest[i] = rest[j] => i = j
      BY <1>3 DEF IsInjective
    <3>3. ASSUME NEW i \in 1..Len(all), NEW j \in 1..Len(all), all[i] = all[j] PROVE i = j
      <4>1. Len(rest) \in Nat
        BY <1>3
      <4>2. CASE i = 1
        BY <1>3, <3>1, <3>3, <4>1, <4>2
      <4>3. CASE j = 1
        BY <1>3, <3>1, <3>3, <4>1, <4>3
      <4>4. CASE i # 1 /\ j # 1
        <5>1. i - 1 \in 1..Len(rest) /\ j - 1 \in 1..Len(rest)
          BY <3>1, <4>1, <4>4
        <5> QED
          BY <3>1, <3>2, <3>3, <4>4, <5>1, SMTT(30)
      <4> QED
        BY <4>2, <4>3, <4>4
    <3> QED
      BY <3>1, <3>3 DEF IsInjective
  <2> QED
    BY <2>1, <2>2
<1>5. Updated(list, entry, ended) = Cut(all)
  BY DEF Updated, rest
<1> HIDE DEF all
<1>6. /\ Cut(all) \in Seq(Terminals) /\ Len(Cut(all)) <= Limit /\ Len(Cut(all)) <= Len(all)
      /\ \A i \in 1..Len(Cut(all)) : Cut(all)[i] = all[i]
  BY <1>1, <1>4 DEF Cut
<1> QED
  BY <1>4, <1>5, <1>6 DEF Lists, IsInjective

-----------------------------------------------------------------------------
(* The invariant                                                           *)

Pairings == {set \in SUBSET Records : AtMostOne(set)}

(* What a tab holds.                                                       *)
TabStates ==
  [doing   : {"nothing", "loading", "importing", "naming", "updating"},
   seen    : Pairings,
   written : Lists,
   held    : Pairings,
   known   : Instances \cup {NoInstance},
   profile : SUBSET Profiles,
   saved   : States]

(* A tab that does something to a store has its transaction, and what it   *)
(* has read is still there.                                                *)
HasItsStore(t) ==
  /\ tab[t].doing = "loading" => credentials = t /\ tab[t].seen = record
  /\ tab[t].doing = "naming" => metadata = t /\ instance = NoInstance

(* Nothing is good for longer than the maximum, and what is being saved is *)
(* a pairing.                                                              *)
HoldsPairings(t) ==
  /\ \A r \in tab[t].seen : r.expires <= now + MaxLifetime
  /\ tab[t].doing = "importing" => tab[t].seen # NoRecord

IInv ==
  /\ now \in 0..Horizon
  /\ record \in Pairings /\ \A r \in record : r.expires <= now + MaxLifetime
  /\ {credentials, metadata} \subseteq Tabs \cup {NoTab}
  /\ instance \in Instances \cup {NoInstance}
  /\ recents \in Lists
  /\ connect \in States
  /\ tab \in [Tabs -> TabStates]
  /\ \A t \in Tabs :
       /\ HasItsStore(t) /\ HoldsPairings(t)
       /\ tab[t].known \in {instance, NoInstance}
       /\ AtMostOne(tab[t].profile) /\ \A p \in tab[t].profile : Allowed(p)

-----------------------------------------------------------------------------
(* A tab that has just been opened has the type the invariant asks for,    *)
(* and its profile, if it has one, is allowed.                             *)
LEMMA NewTabOK ==
  ASSUME connect \in States
  PROVE  /\ NewTab \in TabStates
         /\ NewTab.doing = "nothing" /\ NewTab.seen = NoRecord /\ NewTab.known = NoInstance
         /\ AtMostOne(NewTab.profile) /\ \A p \in NewTab.profile : Allowed(p)
<1> DEFINE saved == ReadState(connect)
           profile == Selected(NoMode, saved)
<1>1. saved \in States
  BY ReadIsState
<1>2. (\A p \in profile : Allowed(p)) /\ AtMostOne(profile) /\ profile \subseteq Profiles
  BY <1>1, SelectedIsAllowed
<1>3. <<>> \in Lists
  BY StorageAssumption DEF Lists, IsInjective
<1>4. NoRecord \in Pairings
  BY DEF NoRecord, Pairings, AtMostOne
<1> HIDE DEF saved, profile
<1>5. NewTab = [doing |-> "nothing", seen |-> NoRecord, written |-> <<>>, held |-> NoRecord,
                known |-> NoInstance, profile |-> profile, saved |-> saved]
  BY DEF NewTab, profile, saved
<1> QED
  BY <1>1, <1>2, <1>3, <1>4, <1>5 DEF TabStates

(* At the start nothing is stored, but for some saved connect state, and   *)
(* every tab has just been opened.                                         *)
LEMMA InitIInv == Init => IInv
<1> SUFFICES ASSUME Init PROVE IInv
  OBVIOUS
<1>1. connect \in States /\ Horizon \in Nat
  BY StorageAssumption DEF Init, States
<1>2. <<>> \in Lists /\ NoRecord \in Pairings
  BY StorageAssumption DEF Lists, IsInjective, NoRecord, Pairings, AtMostOne
<1>3. \A t \in Tabs : tab[t] = NewTab
  BY DEF Init
<1>4. tab \in [Tabs -> TabStates]
  BY <1>1, NewTabOK DEF Init
<1> QED
  BY <1>1, <1>2, <1>3, <1>4, NewTabOK DEF Init, IInv, HasItsStore, HoldsPairings, NoRecord

(* Every step of any tab, and the passing of time, keeps the invariant.    *)
LEMMA StepIInv == IInv /\ [Next]_vars => IInv'
<1> SUFFICES ASSUME IInv, [Next]_vars PROVE IInv'
  OBVIOUS
<1> USE StorageAssumption DEF IInv, HasItsStore, HoldsPairings, NoRecord
<1>1. ASSUME NEW t \in Tabs, LoadBegins(t) PROVE IInv'
  <2>1. tab' \in [Tabs -> TabStates]
    <3>1. [tab[t] EXCEPT !.doing = "loading", !.seen = record] \in TabStates
      BY <1>1, ZenonT(60) DEF TabStates
    <3>2. tab' = [tab EXCEPT ![t] = [tab[t] EXCEPT !.doing = "loading", !.seen = record]]
      BY <1>1 DEF LoadBegins
    <3> QED
      BY <3>1, <3>2
  <2> QED
    BY <1>1, <2>1 DEF LoadBegins, TabStates, Resting
<1>2. ASSUME NEW t \in Tabs, LoadEnds(t) PROVE IInv'
  <2>1. {} \in Pairings
    BY DEF Pairings, AtMostOne
  <2>2. record' \in Pairings /\ \A r \in record' : r.expires <= now' + MaxLifetime
    BY <1>2, <2>1 DEF LoadEnds
  <2> DEFINE used == IF Expired(tab[t].seen) THEN NoRecord ELSE tab[t].seen
  <2>3. used \in Pairings
    BY <2>1 DEF TabStates
  <2>4. tab' = [tab EXCEPT ![t].doing = "nothing", ![t].seen = NoRecord, ![t].held = used]
    BY <1>2 DEF LoadEnds
  <2> HIDE DEF used
  <2>5. tab' \in [Tabs -> TabStates]
    <3>1. [tab[t] EXCEPT !.doing = "nothing", !.seen = NoRecord, !.held = used] \in TabStates
      BY <2>1, <2>3, ZenonT(60) DEF TabStates
    <3>2. tab' = [tab EXCEPT ![t] = [tab[t] EXCEPT !.doing = "nothing", !.seen = NoRecord, !.held = used]]
      BY <2>4
    <3> QED
      BY <3>1, <3>2
  <2> QED
    BY <1>2, <2>2, <2>4, <2>5 DEF LoadEnds, TabStates
<1>3. ASSUME NEW t \in Tabs, NEW c \in Credentials, NEW expires \in 0..Horizon + MaxLifetime + 1,
             SaveBegins(t, c, expires)
      PROVE  IInv'
  <2> DEFINE new == [id |-> c, expires |-> expires]
  <2>1. new \in Records /\ expires <= now + MaxLifetime
    BY <1>3 DEF SaveBegins, Records
  <2>2. {new} \in Pairings
    BY <2>1 DEF Pairings, AtMostOne
  <2>3. tab' = [tab EXCEPT ![t].doing = "importing", ![t].seen = {new}]
    BY <1>3 DEF SaveBegins
  <2>4. \A r \in {new} : r.expires <= now + MaxLifetime
    BY <2>1
  <2> HIDE DEF new
  <2>5. tab' \in [Tabs -> TabStates]
    <3>1. [tab[t] EXCEPT !.doing = "importing", !.seen = {new}] \in TabStates
      BY <2>2, ZenonT(60) DEF TabStates
    <3>2. tab' = [tab EXCEPT ![t] = [tab[t] EXCEPT !.doing = "importing", !.seen = {new}]]
      BY <2>3
    <3> QED
      BY <3>1, <3>2
  <2> QED
    BY <1>3, <2>3, <2>4, <2>5 DEF SaveBegins, TabStates, Resting
<1>4. ASSUME NEW t \in Tabs, SaveEnds(t) PROVE IInv'
  <2>1. {} \in Pairings
    BY DEF Pairings, AtMostOne
  <2>2. tab' \in [Tabs -> TabStates]
    BY <1>4, <2>1 DEF SaveEnds, TabStates
  <2> QED
    BY <1>4, <2>2 DEF SaveEnds, TabStates
<1>5. ASSUME NEW t \in Tabs, NameBegins(t) PROVE IInv'
  <2>1. CASE instance # NoInstance
    BY <1>5, <2>1 DEF NameBegins, TabStates, Resting
  <2>2. CASE instance = NoInstance
    BY <1>5, <2>2 DEF NameBegins, TabStates, Resting
  <2> QED
    BY <2>1, <2>2
<1>6. ASSUME NEW t \in Tabs, NEW id \in Instances, NameEnds(t, id) PROVE IInv'
  BY <1>6 DEF NameEnds, TabStates
<1>7. ASSUME NEW t \in Tabs, NEW s \in Sessions, NEW ended \in BOOLEAN, RememberReads(t, s, ended)
      PROVE  IInv'
  <2> DEFINE entry == [scope |-> Scope(t), credential |-> OwnerOf[s], session |-> s]
             list == Updated(recents, entry, ended)
  <2>1. entry \in Terminals
    BY <1>7 DEF RememberReads, Terminals
  <2>2. list \in Lists
    BY <2>1, UpdatedIsList
  <2>3. tab' = [tab EXCEPT ![t].doing = "updating", ![t].written = list]
    BY <1>7 DEF RememberReads
  <2> HIDE DEF list
  <2>4. tab' \in [Tabs -> TabStates]
    <3>1. [tab[t] EXCEPT !.doing = "updating", !.written = list] \in TabStates
      BY <2>2, ZenonT(60) DEF TabStates
    <3>2. tab' = [tab EXCEPT ![t] = [tab[t] EXCEPT !.doing = "updating", !.written = list]]
      BY <2>3
    <3> QED
      BY <3>1, <3>2
  <2> QED
    BY <1>7, <2>3, <2>4 DEF RememberReads, TabStates, Resting
<1>8. ASSUME NEW t \in Tabs, RememberWrites(t) PROVE IInv'
  <2>1. <<>> \in Lists
    BY DEF Lists, IsInjective
  <2>2. recents' \in Lists
    BY <1>8 DEF RememberWrites, TabStates
  <2>3. tab' \in [Tabs -> TabStates]
    <3>1. [tab[t] EXCEPT !.doing = "nothing", !.written = <<>>] \in TabStates
      BY <2>1, ZenonT(60) DEF TabStates
    <3>2. tab' = [tab EXCEPT ![t] = [tab[t] EXCEPT !.doing = "nothing", !.written = <<>>]]
      BY <1>8 DEF RememberWrites
    <3> QED
      BY <3>1, <3>2
  <2> QED
    BY <1>8, <2>2, <2>3 DEF RememberWrites, TabStates
<1>9. ASSUME NEW t \in Tabs, Reload(t) PROVE IInv'
  <2>1. /\ NewTab \in TabStates
        /\ NewTab.doing = "nothing" /\ NewTab.seen = NoRecord /\ NewTab.known = NoInstance
        /\ AtMostOne(NewTab.profile) /\ \A p \in NewTab.profile : Allowed(p)
    BY NewTabOK
  <2>2. tab' = [tab EXCEPT ![t] = NewTab] /\ tab' \in [Tabs -> TabStates]
    BY <1>9, <2>1 DEF Reload
  <2> QED
    BY <1>9, <2>1, <2>2 DEF Reload
<1>10. ASSUME NEW t \in Tabs, NEW mode \in Modes, SelectProfile(t, mode) PROVE IInv'
  <2> DEFINE profiles == Resolve(Env, tab[t].saved)
             chosen == OfMode(Available(profiles), mode)
  <2>1. tab[t].saved \in States
    BY DEF TabStates
  <2>2. /\ profiles \in Seq(Profiles)
        /\ AtMostOne(chosen) /\ chosen \subseteq Profiles /\ \A p \in chosen : Allowed(p)
    BY <2>1, ResolvedIsAllowed DEF OfMode
  <2>3. /\ tab' = [tab EXCEPT ![t].profile = chosen, ![t].held = NoRecord]
        /\ connect' \in {connect, [selected |-> mode, profiles |-> profiles]}
        /\ UNCHANGED <<now, record, credentials, instance, metadata, recents>>
        /\ Resting(t)
    BY <1>10 DEF SelectProfile
  <2> HIDE DEF profiles, chosen
  <2>4. connect' \in States
    BY <2>2, <2>3 DEF States
  <2>5. {} \in Pairings
    BY DEF Pairings, AtMostOne
  <2>6. tab' \in [Tabs -> TabStates]
    <3>1. [tab[t] EXCEPT !.profile = chosen, !.held = NoRecord] \in TabStates
      BY <2>2, <2>5, ZenonT(60) DEF TabStates
    <3>2. tab' = [tab EXCEPT ![t] = [tab[t] EXCEPT !.profile = chosen, !.held = NoRecord]]
      BY <2>3
    <3> QED
      BY <3>1, <3>2
  <2> QED
    BY <2>2, <2>3, <2>4, <2>6 DEF TabStates, Resting
<1>11. CASE Tick
  <2>1. now' \in 0..Horizon /\ now' = now + 1
    BY <1>11 DEF Tick
  <2>2. \A set \in Pairings : \A r \in set :
          r.expires <= now + MaxLifetime => r.expires <= now' + MaxLifetime
    BY <2>1 DEF Pairings, Records
  <2> QED
    BY <1>11, <2>1, <2>2 DEF Tick, TabStates
<1>12. CASE UNCHANGED vars
  BY <1>12 DEF vars
<1> QED
  BY <1>1, <1>2, <1>3, <1>4, <1>5, <1>6, <1>7, <1>8, <1>9, <1>10, <1>11, <1>12 DEF Next

-----------------------------------------------------------------------------
(* The theorems                                                            *)

(* The invariant holds of every behaviour.                                 *)
THEOREM StorageInvariant == Spec => []IInv
<1>1. IInv /\ [Next]_vars => IInv'
  BY StepIInv
<1> QED
  BY InitIInv, <1>1, PTL DEF Spec

(* The types, with the bounds: no pairing in the record is good for longer *)
(* than the maximum, and the recent terminals stay within their limit and  *)
(* name none twice.                                                        *)
THEOREM StorageTyped == Spec => []TypeOK
<1>1. IInv => TypeOK
  <2> SUFFICES ASSUME IInv PROVE TypeOK
    OBVIOUS
  <2>1. record \subseteq Records /\ Cardinality(record) <= 1
    <3>1. record \subseteq Records /\ \A x, y \in record : x = y
      BY DEF IInv, Pairings, AtMostOne
    <3>2. CASE record = {}
      BY <3>2, FS_EmptySet
    <3>3. ASSUME NEW r \in record PROVE Cardinality(record) <= 1
      <4>1. record = {r}
        BY <3>1
      <4>2. Cardinality({r}) = 1
        BY FS_Singleton
      <4> QED
        BY <4>1, <4>2
    <3> QED
      BY <3>1, <3>2, <3>3
  <2>2. \A e \in Range(recents) :
          e.scope \in Url /\ e.credential \in Credentials /\ e.session \in Sessions
    <3>1. \A e \in Range(recents) : e \in Terminals
      BY DEF IInv, Lists, Range
    <3> QED
      BY <3>1, StorageAssumption DEF Terminals
  <2> QED
    BY <2>1, <2>2 DEF IInv, TypeOK, Lists, TabStates, Pairings, AtMostOne
<1> QED
  BY <1>1, StorageInvariant, PTL

(* However the tabs race for it, a tab that knows an instance id knows the *)
(* one that is stored (getClientInstanceId reads and writes in one         *)
(* transaction).                                                           *)
THEOREM OneInstanceForAll == Spec => []OneInstance
<1>1. IInv => OneInstance
  BY DEF IInv, OneInstance
<1> QED
  BY <1>1, StorageInvariant, PTL

(* What a page offers is at the endpoint it connects to and belongs to the *)
(* pairing that is stored, whatever the tabs wrote over each other.        *)
THEOREM OffersOnlyItsOwn == Spec => []OffersItsOwn
<1>1. IInv => OffersItsOwn
  <2> SUFFICES ASSUME IInv, NEW t \in Tabs, NEW s \in Offered(t)
               PROVE  HostOf[s] = Scope(t) /\ \E r \in record : OwnerOf[s] = r.id
    BY DEF OffersItsOwn
  <2>1. PICK r \in record : s \in Listed(Scope(t), r.id)
    BY DEF Offered
  <2>2. PICK e \in Range(recents) : e.scope = Scope(t) /\ e.credential = r.id /\ e.session = s
    BY <2>1 DEF Listed
  <2>3. e \in Terminals
    BY <2>2 DEF IInv, Lists, Range
  <2> QED
    BY <2>2, <2>3 DEF Terminals
<1> QED
  BY <1>1, StorageInvariant, PTL

(* The profile of a page is one that the policy allows at its origin, and  *)
(* the deployment's own where the deployment has a valid one of the mode.  *)
THEOREM OnlyAllowedProfiles == Spec => []ConnectsWhereAllowed
<1>1. IInv => ConnectsWhereAllowed
  BY DEF IInv, ConnectsWhereAllowed, Allowed
<1> QED
  BY <1>1, StorageInvariant, PTL

(* A stored pairing that has not expired is replaced by a newer one or     *)
(* stays: the clean-up deletes in the transaction that read it.            *)
THEOREM FreshPairingIsKept == Spec => FreshPairingStays
<1>1. IInv /\ [Next]_vars => [(\E r \in record : r.expires > now) => record' # NoRecord]_vars
  <2> SUFFICES ASSUME IInv, Next, NEW r \in record, r.expires > now
               PROVE  record' # NoRecord
    OBVIOUS
  <2>1. ASSUME NEW t \in Tabs, LoadEnds(t) PROVE record' # NoRecord
    <3>1. tab[t].seen = record
      BY <2>1 DEF LoadEnds, IInv, HasItsStore
    <3>2. ~Expired(tab[t].seen)
      BY <3>1 DEF Expired, IInv, Pairings, Records
    <3> QED
      BY <2>1, <3>2 DEF LoadEnds, NoRecord
  <2>2. ASSUME NEW t \in Tabs, SaveEnds(t) PROVE record' # NoRecord
    BY <2>2 DEF SaveEnds, IInv, HoldsPairings
  <2>3. CASE record' = record
    BY <2>3 DEF NoRecord
  <2> QED
    BY <2>1, <2>2, <2>3 DEF Next, LoadBegins, SaveBegins, NameBegins, NameEnds, RememberReads,
       RememberWrites, Reload, SelectProfile, Tick
<1> QED
  BY <1>1, StorageInvariant, PTL DEF Spec, FreshPairingStays
=============================================================================
