--------------------------- MODULE MCPhysicalNand ---------------------------
(* Model-checking instances of PhysicalNand.                               *)
EXTENDS PhysicalNand, TLC

\* Two blocks on sound storage, and one on storage whose transfers fail.
MCSettings == {[io |-> FALSE, blocks |-> Blocks]} \cup {[io |-> TRUE, blocks |-> {b}] : b \in Blocks}

\* Blocks are interchangeable: no block id is ordered or computed with.
BlockSymmetry == Permutations(Blocks)

=============================================================================
