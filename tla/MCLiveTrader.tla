---------------------------- MODULE MCLiveTrader ----------------------------
(* Instances of LiveTrader for TLC. *)
EXTENDS LiveTrader, TLC

\* Client order ids are random: any two of the same kind are alike.
IdSymmetry == Permutations(Entries) \cup Permutations(Exits)
=============================================================================
