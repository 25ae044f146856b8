------------------------ MODULE MCIntelligencePages ------------------------
(***************************************************************************)
(* IntelligencePages for TLC.                                              *)
(***************************************************************************)
EXTENDS IntelligencePages
=============================================================================
