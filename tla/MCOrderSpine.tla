--------------------------- MODULE MCOrderSpine ---------------------------
(* Model-checking instances of OrderSpine. *)
EXTENDS OrderSpine, TLC

\* Client order ids are interchangeable: random, and compared for equality only.
OrderSymmetry == Permutations(Orders)

=============================================================================
