------------------------- MODULE MCInterruptManager -------------------------
(***************************************************************************)
(* InterruptManager with what TLC needs: interchangeable identifiers.      *)
(***************************************************************************)
EXTENDS InterruptManager, TLC

\* The calls, the reviews and the threads are told apart by nothing but what
\* they do.
Symmetry == Permutations(Decider) \cup Permutations(Resumer)
            \cup Permutations(Pauser) \cup Permutations(Review)
            \cup Permutations(Thread)
=============================================================================
