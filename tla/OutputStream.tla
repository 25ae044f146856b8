---------------------------- MODULE OutputStream ----------------------------
(***************************************************************************)
(* What a browser may rely on when it watches a session: the bytes it gets *)
(* are a stretch of what the process wrote, in order, with nothing missing *)
(* inside and nothing that was not written.  Where the stretch begins is   *)
(* the agent's choice, because it keeps only the newest output.            *)
(***************************************************************************)
EXTENDS Integers, FiniteSetsExt

CONSTANTS Connections, Sessions, NoSession, MaxSequence

VARIABLES
  written,    \* how many bytes the process of a session has written
  watches,    \* the session a connection is about
  received    \* the offsets of the bytes a connection has been given

vars == <<written, watches, received>>

Init ==
  /\ written = [s \in Sessions |-> 0]
  /\ watches = [c \in Connections |-> NoSession]
  /\ received = [c \in Connections |-> {}]

Write(s) ==
  /\ \E total \in written[s] + 1 .. MaxSequence : written' = [written EXCEPT ![s] = total]
  /\ UNCHANGED <<watches, received>>

(* A connection is about one session for as long as it lives.              *)
Watch(c, s) ==
  /\ watches[c] = NoSession
  /\ watches' = [watches EXCEPT ![c] = s]
  /\ UNCHANGED <<written, received>>

(* The next bytes after the ones it has; the first may be any.             *)
Deliver(c) ==
  /\ watches[c] # NoSession
  /\ \E from \in 0 .. written[watches[c]] - 1 :
       \E last \in from .. written[watches[c]] - 1 :
         /\ received[c] # {} => from = Max(received[c]) + 1
         /\ received' = [received EXCEPT ![c] = @ \cup from .. last]
  /\ UNCHANGED <<written, watches>>

Next ==
  \/ \E s \in Sessions : Write(s)
  \/ \E c \in Connections : Deliver(c) \/ \E s \in Sessions : Watch(c, s)

Spec == Init /\ [][Next]_vars

=============================================================================
