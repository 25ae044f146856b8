--------------------------- MODULE ConnectProfiles ---------------------------
(***************************************************************************)
(* Which endpoint a page connects to: the endpoint policy of               *)
(* protocol/endpointPolicy.ts, and the merge of the profiles of the        *)
(* deployment with those that the browser has saved, connectConfig.ts.     *)
(*                                                                         *)
(* A URL is what the policy tells apart: its scheme, the kind of its host, *)
(* and whether it is bare, without credentials, query and fragment (and,   *)
(* for an origin, exactly an origin).  A profile is [mode, endpoint,       *)
(* origin].                                                                *)
(***************************************************************************)
EXTENDS Naturals, Sequences

CONSTANTS
  Env,          \* the profiles of the deployment, in the order they are built
  DefaultMode,  \* NEXT_PUBLIC_... default, or NoMode
  NoMode,       \* no mode is chosen
  Page          \* the origin the page was loaded from

Modes == {"local", "private"}

Url == [scheme : {"ws", "wss", "http", "https"},
        host : {"none", "loopback", "dotlocal", "hostA", "hostB"},
        bare : BOOLEAN]

Profiles == [mode : STRING, endpoint : Url, origin : Url]

\* buildConnectProfilesFromEnv: one profile of each mode at most.
ASSUME DeploymentAssumption ==
  /\ Env \in Seq(Profiles)
  /\ \A i, j \in DOMAIN Env : Env[i].mode = Env[j].mode => i = j
  /\ NoMode \notin Modes
  /\ DefaultMode \in Modes \cup {NoMode}
  /\ Page \in Url

Private(host) == host \notin {"none", "loopback", "dotlocal"}

\* parseCommonUrls; what cannot be parsed has the host "none".
CommonUrls(profile) ==
  /\ profile.endpoint.scheme = "wss"
  /\ profile.endpoint.bare
  /\ profile.origin.bare

ValidPrivate(profile, current) ==
  /\ CommonUrls(profile)
  /\ profile.origin.scheme = "https"
  /\ profile.origin = current
  /\ Private(profile.endpoint.host)
  /\ profile.origin.host # "none"

ValidLocal(profile, current) ==
  /\ CommonUrls(profile)
  /\ profile.origin.scheme \in {"http", "https"}
  /\ profile.origin = current
  /\ profile.endpoint.host = "loopback"
  /\ profile.origin.host = "loopback"

\* validateWssPolicy.
Valid(profile, current) ==
  IF profile.mode = "local" THEN ValidLocal(profile, current)
                            ELSE ValidPrivate(profile, current)

\* isConnectProfile: valid for a page of its own origin.
IsConnectProfile(profile) ==
  profile.mode \in Modes /\ Valid(profile, profile.origin)

\* readPersistedConnectState: a state with no profile left is no state.  What
\* is not a profile is left to resolveProfiles, which passes over it again.
NoState == [selected |-> NoMode, profiles |-> <<>>]

ReadState(stored) ==
  IF \/ stored.selected = NoMode
     \/ \A i \in DOMAIN stored.profiles : ~IsConnectProfile(stored.profiles[i])
  THEN NoState
  ELSE stored

\* What the map by mode holds at the end: the last profile of the mode.
LastOf(profiles, mode) ==
  LET ofMode == {i \in DOMAIN profiles :
                   IsConnectProfile(profiles[i]) /\ profiles[i].mode = mode}
  IN  IF ofMode = {} THEN <<>>
      ELSE <<profiles[CHOOSE i \in ofMode : \A j \in ofMode : j <= i]>>

\* Mutant: what was saved comes last.
ResolveSavedLast(env, saved) ==
  LastOf(env \o saved.profiles, "local") \o LastOf(env \o saved.profiles, "private")

\* resolveProfiles: the deployment's come after the saved ones, and win.
Resolve(env, saved) ==
  LastOf(saved.profiles \o env, "local") \o LastOf(saved.profiles \o env, "private")

\* The profiles of the shell that fit the page's own origin.
Available(profiles) ==
  {profiles[i] : i \in {i \in DOMAIN profiles : profiles[i].origin = Page}}

OfMode(profiles, mode) == {p \in profiles : p.mode = mode}

\* selectInitialProfile: the chosen mode, the default, or the first.
SelectInitial(profiles, chosen) ==
  IF OfMode(profiles, chosen) # {} THEN OfMode(profiles, chosen)
  ELSE IF OfMode(profiles, DefaultMode) # {} THEN OfMode(profiles, DefaultMode)
  ELSE IF OfMode(profiles, "local") # {} THEN OfMode(profiles, "local")
  ELSE OfMode(profiles, "private")
=============================================================================
