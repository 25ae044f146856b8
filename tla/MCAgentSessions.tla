-------------------------- MODULE MCAgentSessions --------------------------
(***************************************************************************)
(* Small instances of AgentSessions for TLC.                               *)
(***************************************************************************)
EXTENDS AgentSessions, TLC

CONSTANTS c1, c2, k1, k2, d1, d2

(* Both connections are the same browser, before and after a reload.       *)
SameCredential == c1 :> k1 @@ c2 :> k1
SameDevice     == c1 :> d1 @@ c2 :> d1

(* c1 opens the session and leaves it one way or another, c2 comes for it  *)
TakeoverInputs == c1 :> {"open", "detach", "lost", "rejected", "exit"}
               @@ c2 :> {"reopen", "close", "timeout", "ping", "error"}

(* A revocation or Close meets an open and a takeover after a lost        *)
(* connection.  To bound the run the host does one of the two.             *)
FenceInputs == c1 :> {"open", "lost"} @@ c2 :> {"reopen"}

OneHostCall ==
  \/ stopper = "idle"
  \/ \A k \in Credentials : revoker[k] = "idle"

(* One connection and the ways its peer may end or break a session.        *)
AloneInputs == c1 :> {"open", "detach", "close", "rejected", "lost", "exit"}

(* The same and the frames that leave the session alone.                   *)
PeerInputs == c1 :> {"open", "detach", "close", "rejected", "lost", "exit", "ping",
                     "error"}

(* One connection that holds on, lets go or is lost before its time is up. *)
LifetimeInputs == c1 :> {"open", "detach", "lost"}

AloneCredential == c1 :> k1
AloneDevice     == c1 :> d1

=============================================================================
