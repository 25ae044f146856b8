----------------------------- MODULE SessionLife -----------------------------
(***************************************************************************)
(* What the agent promises of a session, whatever goroutines it takes: one *)
(* connection holds it at a time and a connection holds one; it is left    *)
(* before another takes it, which only its own credential and device may;  *)
(* once closed it stays closed; and when a credential is barred or the     *)
(* agent stops, what may not run any more is over at that moment.          *)
(***************************************************************************)
CONSTANTS Connections, Sessions, Credentials, CredentialOf, DeviceOf, NoConnection

VARIABLES
  phase,      \* absent, running or closed
  creator,    \* the connection that opened it
  holder,     \* the connection that has it, or NoConnection
  barred      \* the credentials no session is opened or taken for any more

vars == <<phase, creator, holder, barred>>

Init ==
  /\ phase = [s \in Sessions |-> "absent"]
  /\ creator = [s \in Sessions |-> NoConnection]
  /\ holder = [s \in Sessions |-> NoConnection]
  /\ barred = {}

Admitted(c) == CredentialOf[c] \notin barred /\ \A s \in Sessions : holder[s] # c

Open(c, s) ==
  /\ phase[s] = "absent" /\ Admitted(c)
  /\ phase' = [phase EXCEPT ![s] = "running"]
  /\ creator' = [creator EXCEPT ![s] = c]
  /\ holder' = [holder EXCEPT ![s] = c]
  /\ UNCHANGED barred

(* A detach or a lost connection: the session runs on without a holder.    *)
Leave(s) ==
  /\ phase[s] = "running" /\ holder[s] # NoConnection
  /\ holder' = [holder EXCEPT ![s] = NoConnection]
  /\ UNCHANGED <<phase, creator, barred>>

Reopen(c, s) ==
  /\ phase[s] = "running" /\ holder[s] = NoConnection /\ Admitted(c)
  /\ CredentialOf[c] = CredentialOf[creator[s]] /\ DeviceOf[c] = DeviceOf[creator[s]]
  /\ holder' = [holder EXCEPT ![s] = c]
  /\ UNCHANGED <<phase, creator, barred>>

(* The running sessions of S are over.                                     *)
Ends(S) ==
  /\ phase' = [s \in Sessions |-> IF s \in S /\ phase[s] = "running" THEN "closed" ELSE phase[s]]
  /\ holder' = [s \in Sessions |-> IF s \in S THEN NoConnection ELSE holder[s]]
  /\ UNCHANGED creator

Close(s) == Ends({s}) /\ UNCHANGED barred

Bar(k) ==
  /\ barred' = barred \cup {k}
  /\ Ends({s \in Sessions : phase[s] = "running" /\ CredentialOf[creator[s]] = k})

Stop == barred' = Credentials /\ Ends(Sessions)

Next ==
  \/ \E c \in Connections, s \in Sessions : Open(c, s) \/ Reopen(c, s)
  \/ \E s \in Sessions : Leave(s) \/ Close(s)
  \/ \E k \in Credentials : Bar(k)
  \/ Stop

Spec == Init /\ [][Next]_vars

=============================================================================
