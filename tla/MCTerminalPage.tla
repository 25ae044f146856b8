--------------------------- MODULE MCTerminalPage ---------------------------
(***************************************************************************)
(* Small instances of TerminalPage for TLC.                                *)
(***************************************************************************)
EXTENDS TerminalPage, TLC

Interchangeable == Permutations(Sessions) \cup Permutations(Credentials)

=============================================================================
