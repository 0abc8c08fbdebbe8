--------------------------- MODULE MCPaperSession ---------------------------
(* Instances of PaperSession for TLC. *)
EXTENDS PaperSession, TLC

\* Client order ids are random: any two of the same kind are alike.
IdSymmetry == Permutations(Entries) \cup Permutations(Exits)
=============================================================================
