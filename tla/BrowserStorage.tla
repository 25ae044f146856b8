--------------------------- MODULE BrowserStorage ---------------------------
(***************************************************************************)
(* What the tabs of one browser share at one page origin: the credential   *)
(* and the client instance id in IndexedDB (protocol/credentialStore.ts),  *)
(* the recent terminals (recentSessions.ts) and the connection profiles    *)
(* (connectConfig.ts) in localStorage.                                     *)
(*                                                                         *)
(* A readwrite transaction of IndexedDB has its object store to itself, so *)
(* it is a lock; between its requests the other tabs run.  localStorage    *)
(* has no transactions: a tab reads, and writes back what it made of that, *)
(* and another tab may have written in between.  One tab does one of these *)
(* at a time: the adapter puts its own in a queue (TerminalAdapter models  *)
(* the queue), and the recent terminals are updated in one task.  A tab    *)
(* may be closed at any point, which aborts its transaction.               *)
(***************************************************************************)
EXTENDS ConnectProfiles, FiniteSets, SequencesExt

CONSTANTS
  Tabs, NoTab,
  Credentials,   \* what agents may issue, one pairing each
  Sessions,      \* the terminals that exist, at any agent
  HostOf,        \* the endpoint each session is at
  OwnerOf,       \* the credential each session belongs to
  Instances,     \* random client instance ids
  NoInstance,
  Saved,         \* the states that older deployments may have saved
  MaxLifetime,   \* MAX_CREDENTIAL_LIFETIME_MS
  Limit,         \* LIMIT, the most recent terminals that are kept
  Horizon        \* bound: the clock stops here

ASSUME StorageAssumption ==
  /\ NoTab \notin Tabs
  /\ HostOf \in [Sessions -> Url]
  /\ OwnerOf \in [Sessions -> Credentials]
  /\ NoInstance \notin Instances
  /\ Saved \subseteq [selected : Modes \cup {NoMode}, profiles : Seq(Profiles)]
  /\ MaxLifetime \in Nat \ {0}
  /\ Limit \in Nat \ {0}
  /\ Horizon \in Nat

VARIABLES
  now,
  record,       \* the record "active", or NoRecord
  credentials,  \* the tab whose transaction has the store "credentials"
  instance,     \* the record "client-instance-id"
  metadata,     \* the tab whose transaction has the store "metadata"
  recents,      \* terminus-recent-sessions-v1, the latest first
  connect,      \* terminus.connect.profiles.v1
  tab           \* what each tab holds and is in the middle of

vars == <<now, record, credentials, instance, metadata, recents, connect, tab>>

NoRecord == {}

-----------------------------------------------------------------------------
(* The tab                                                                 *)

\* The page reads what is saved and selects a profile.
Selected(chosen, saved) ==
  SelectInitial(Available(Resolve(Env, saved)),
                IF chosen # NoMode THEN chosen ELSE saved.selected)

NewTab == [doing |-> "nothing", seen |-> NoRecord, written |-> <<>>,
           held |-> NoRecord, known |-> NoInstance,
           profile |-> Selected(NoMode, ReadState(connect)),
           saved |-> ReadState(connect)]

Resting(t) == tab[t].doing = "nothing"

\* recentScope: the profile, of which the endpoint is told apart.
Scope(t) == (CHOOSE p \in tab[t].profile : TRUE).endpoint

-----------------------------------------------------------------------------
(* Credentials                                                             *)

\* Mutant: the record is read before the transaction that may delete it.
LoadBeginsOutside(t) ==
  /\ Resting(t)
  /\ tab' = [tab EXCEPT ![t].doing = "loading", ![t].seen = record]
  /\ UNCHANGED <<now, record, credentials, instance, metadata, recents, connect>>

\* loadCredential up to the answer of get.
LoadBegins(t) ==
  /\ Resting(t)
  /\ credentials = NoTab
  /\ credentials' = t
  /\ tab' = [tab EXCEPT ![t].doing = "loading", ![t].seen = record]
  /\ UNCHANGED <<now, record, instance, metadata, recents, connect>>

Expired(seen) == \A r \in seen : r.expires <= now

\* The rest of it: what has expired is deleted, the rest is used.
LoadEnds(t) ==
  /\ tab[t].doing = "loading"
  /\ record' = IF Expired(tab[t].seen) THEN NoRecord ELSE record
  /\ tab' = [tab EXCEPT ![t].doing = "nothing", ![t].seen = NoRecord,
                        ![t].held = IF Expired(tab[t].seen) THEN NoRecord ELSE tab[t].seen]
  /\ credentials' = NoTab
  /\ UNCHANGED <<now, instance, metadata, recents, connect>>

Issued(c) == \E r \in record \cup UNION {tab[t].seen \cup tab[t].held : t \in Tabs} : r.id = c

\* A pairing has come through: saveCredential checks the metadata, then
\* imports the key, before it opens its transaction.
SaveBegins(t, c, expires) ==
  /\ Resting(t)
  /\ tab[t].profile # {}
  /\ ~Issued(c)
  /\ expires > now /\ expires - now <= MaxLifetime
  /\ tab' = [tab EXCEPT ![t].doing = "importing", ![t].seen = {[id |-> c, expires |-> expires]}]
  /\ UNCHANGED <<now, record, credentials, instance, metadata, recents, connect>>

SaveEnds(t) ==
  /\ tab[t].doing = "importing"
  /\ credentials = NoTab
  /\ record' = tab[t].seen
  /\ tab' = [tab EXCEPT ![t].doing = "nothing", ![t].seen = NoRecord, ![t].held = tab[t].seen]
  /\ UNCHANGED <<now, credentials, instance, metadata, recents, connect>>

-----------------------------------------------------------------------------
(* The client instance id                                                  *)

\* Mutant: get and put are transactions of their own.
NameBeginsAlone(t) ==
  /\ Resting(t)
  /\ tab' = IF instance # NoInstance
            THEN [tab EXCEPT ![t].known = instance]
            ELSE [tab EXCEPT ![t].doing = "naming"]
  /\ UNCHANGED <<now, record, credentials, instance, metadata, recents, connect>>

\* getClientInstanceId up to the answer of get.
NameBegins(t) ==
  /\ Resting(t)
  /\ metadata = NoTab
  /\ IF instance # NoInstance
     THEN /\ tab' = [tab EXCEPT ![t].known = instance]
          /\ metadata' = NoTab
     ELSE /\ tab' = [tab EXCEPT ![t].doing = "naming"]
          /\ metadata' = t
  /\ UNCHANGED <<now, record, credentials, instance, recents, connect>>

NameEnds(t, id) ==
  /\ tab[t].doing = "naming"
  /\ \A u \in Tabs : tab[u].known # id
  /\ instance' = id
  /\ metadata' = NoTab
  /\ tab' = [tab EXCEPT ![t].doing = "nothing", ![t].known = id]
  /\ UNCHANGED <<now, record, credentials, recents, connect>>

-----------------------------------------------------------------------------
(* Recent terminals                                                        *)

\* The list holds an entry at most once (TypeOK).
Without(entries, entry) ==
  IF entry \in Range(entries)
  THEN RemoveAt(entries, CHOOSE i \in DOMAIN entries : entries[i] = entry)
  ELSE entries

Cut(entries) == SubSeq(entries, 1, IF Len(entries) <= Limit THEN Len(entries) ELSE Limit)

\* Mutant: the list is cut before the entry is put in front.
UpdatedThenCut(entries, entry, ended) ==
  IF ended THEN Cut(Without(entries, entry))
           ELSE <<entry>> \o Cut(Without(entries, entry))

\* update: the entry comes first or, when the terminal has ended, goes.
Updated(entries, entry, ended) ==
  IF ended THEN Cut(Without(entries, entry))
           ELSE Cut(<<entry>> \o Without(entries, entry))

\* The adapter has opened, reopened or ended a session at its endpoint with
\* the credential it authenticated with.
RememberReads(t, s, ended) ==
  /\ Resting(t)
  /\ tab[t].profile # {}
  /\ HostOf[s] = Scope(t)
  /\ \E r \in tab[t].held : OwnerOf[s] = r.id
  /\ tab' = [tab EXCEPT ![t].doing = "updating",
               ![t].written = Updated(recents, [scope |-> Scope(t), credential |-> OwnerOf[s],
                                                session |-> s], ended)]
  /\ UNCHANGED <<now, record, credentials, instance, metadata, recents, connect>>

\* setItem writes, or throws: the list is optional.
RememberWrites(t) ==
  /\ tab[t].doing = "updating"
  /\ recents' \in {tab[t].written, recents}
  /\ tab' = [tab EXCEPT ![t].doing = "nothing", ![t].written = <<>>]
  /\ UNCHANGED <<now, record, credentials, instance, metadata, connect>>

\* Mutant: the credential alone decides.
ListedAnyScope(scope, credential) ==
  {e.session : e \in {x \in Range(recents) : x.credential = credential}}

\* list: what a page offers, by its profile and the stored credential.
Listed(scope, credential) ==
  {e.session : e \in {x \in Range(recents) : x.scope = scope /\ x.credential = credential}}

\* What getRecentSessions gives the page of t.
Offered(t) ==
  IF tab[t].profile = {} THEN {}
  ELSE UNION {Listed(Scope(t), r.id) : r \in record}

-----------------------------------------------------------------------------
(* Profiles                                                                *)

\* selectProfile: the page goes on with a new adapter.
SelectProfile(t, mode) ==
  LET available == Available(Resolve(Env, tab[t].saved))
  IN  /\ Resting(t)
      /\ OfMode(available, mode) # {}
      /\ tab[t].profile # OfMode(available, mode)
      /\ tab' = [tab EXCEPT ![t].profile = OfMode(available, mode), ![t].held = NoRecord]
      /\ connect' \in {connect,
                       [selected |-> mode, profiles |-> Resolve(Env, tab[t].saved)]}
      /\ UNCHANGED <<now, record, credentials, instance, metadata, recents>>

-----------------------------------------------------------------------------
(* The browser                                                             *)

\* The tab is closed or reloaded; a transaction it had is aborted.
Reload(t) ==
  /\ tab' = [tab EXCEPT ![t] = NewTab]
  /\ credentials' = IF credentials = t THEN NoTab ELSE credentials
  /\ metadata' = IF metadata = t THEN NoTab ELSE metadata
  /\ UNCHANGED <<now, record, instance, recents, connect>>

Tick ==
  /\ now < Horizon
  /\ now' = now + 1
  /\ UNCHANGED <<record, credentials, instance, metadata, recents, connect, tab>>

Init ==
  /\ now = 0
  /\ record = NoRecord
  /\ credentials = NoTab
  /\ instance = NoInstance
  /\ metadata = NoTab
  /\ recents = <<>>
  /\ connect \in Saved
  /\ tab = [t \in Tabs |-> NewTab]

Next ==
  \/ \E t \in Tabs : LoadBegins(t) \/ LoadEnds(t) \/ SaveEnds(t) \/ NameBegins(t)
  \/ \E t \in Tabs, c \in Credentials, expires \in 0..Horizon + MaxLifetime + 1 :
        SaveBegins(t, c, expires)
  \/ \E t \in Tabs, id \in Instances : NameEnds(t, id)
  \/ \E t \in Tabs, s \in Sessions, ended \in BOOLEAN : RememberReads(t, s, ended)
  \/ \E t \in Tabs : RememberWrites(t) \/ Reload(t)
  \/ \E t \in Tabs, mode \in Modes : SelectProfile(t, mode)
  \/ Tick

Spec == Init /\ [][Next]_vars

-----------------------------------------------------------------------------
Records == [id : Credentials, expires : 0..Horizon + MaxLifetime]

\* The types of the variables.  No pairing is good for longer than the maximum;
\* the list of recent terminals never grows beyond its limit, on which read()
\* would discard all of it, and never holds a terminal twice.
TypeOK ==
  /\ now \in 0..Horizon
  /\ record \subseteq Records /\ Cardinality(record) <= 1
  /\ \A r \in record : r.expires <= now + MaxLifetime
  /\ {credentials, metadata} \subseteq Tabs \cup {NoTab}
  /\ instance \in Instances \cup {NoInstance}
  /\ Len(recents) <= Limit /\ IsInjective(recents)
  /\ \A e \in Range(recents) : e.scope \in Url /\ e.credential \in Credentials /\ e.session \in Sessions
  /\ \A t \in Tabs :
       /\ tab[t].doing \in {"nothing", "loading", "importing", "naming", "updating"}
       /\ tab[t].held \subseteq Records
       /\ \A p, q \in tab[t].profile : p = q

\* The tabs of a browser are one client: whichever first asked for the
\* instance id, and however they raced, all that know it know the stored one.
OneInstance == \A t \in Tabs : tab[t].known \in {instance, NoInstance}

\* A pairing that has not expired stays until a newer one replaces it: the
\* clean-up of an expired record never removes what another tab has saved
\* since.
FreshPairingStays == [][(\E r \in record : r.expires > now) => record' # NoRecord]_vars

\* A page offers only terminals of the endpoint it connects to and of the
\* credential it will authenticate with, whatever profiles and pairings the
\* tabs went through.
OffersItsOwn ==
  \A t \in Tabs : \A s \in Offered(t) :
    HostOf[s] = Scope(t) /\ \E r \in record : OwnerOf[s] = r.id

\* Whatever older deployments have left in the browser: the page connects over
\* wss, from its own origin, to a loopback endpoint in local mode and never to
\* one in private mode; and in a mode that the deployment configures, to the
\* deployment's endpoint, whichever tab saved what.
ConnectsWhereAllowed ==
  \A t \in Tabs : \A p \in tab[t].profile :
    /\ p.origin = Page
    /\ p.endpoint.scheme = "wss" /\ p.endpoint.bare
    /\ p.mode = "local" <=> p.endpoint.host = "loopback"
    /\ \A q \in Range(Env) : p.mode = q.mode /\ IsConnectProfile(q) => p = q
=============================================================================
