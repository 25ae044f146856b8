-------------------------- MODULE MCBrowserStorage --------------------------
(***************************************************************************)
(* An instance of BrowserStorage for TLC: a deployment with a private      *)
(* endpoint, in a browser where an older one may have left a local and     *)
(* another private endpoint, and profiles that the policy refuses.         *)
(***************************************************************************)
EXTENDS BrowserStorage, TLC

CONSTANTS k1, k2, s1, s2, s3

Origin == [scheme |-> "https", host |-> "loopback", bare |-> TRUE]
Wss(host) == [scheme |-> "wss", host |-> host, bare |-> TRUE]
Profile(mode, endpoint) == [mode |-> mode, endpoint |-> endpoint, origin |-> Origin]

Deployed == <<Profile("private", Wss("hostA"))>>

Left ==
  {NoState,
   [selected |-> "local",
    profiles |-> <<Profile("local", Wss("loopback")), Profile("private", Wss("hostB")),
                   Profile("local", Wss("hostB"))>>]}

Hosts  == s1 :> Wss("hostA") @@ s2 :> Wss("loopback") @@ s3 :> Wss("hostA")
Owners == s1 :> k1 @@ s2 :> k2 @@ s3 :> k1

Interchangeable == Permutations(Tabs) \cup Permutations(Instances)
=============================================================================
