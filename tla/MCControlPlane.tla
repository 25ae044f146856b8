--------------------------- MODULE MCControlPlane ---------------------------
(* Instances of ControlPlane for TLC.                                      *)
EXTENDS ControlPlane, TLC

\* Transactions are compared only by equality, and so are the members beside
\* the founder.
Interchangeable == Permutations(Transactions)
=============================================================================
