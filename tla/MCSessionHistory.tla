-------------------------- MODULE MCSessionHistory --------------------------
(***************************************************************************)
(* Small instances of SessionHistory for TLC.                              *)
(***************************************************************************)
EXTENDS SessionHistory, TLC

Interchangeable == Permutations(Sessions) \cup Permutations(Connections)

=============================================================================
