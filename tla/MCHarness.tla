------------------------------ MODULE MCHarness ------------------------------
(***************************************************************************)
(* Harness and Deployed with what TLC needs: the values of MCPolicy and    *)
(* interchangeable identifiers.                                            *)
(***************************************************************************)
EXTENDS Deployed, MCPolicy

Symmetry == Permutations(Decider) \cup Permutations(Resumer) \cup Permutations(Chat)
            \cup Permutations(Appender) \cup Permutations(Review)
            \cup Permutations(Thread)
=============================================================================
