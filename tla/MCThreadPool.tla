---------------------------- MODULE MCThreadPool ----------------------------
(* Instances of ThreadPool for TLC: the workers are interchangeable. *)
EXTENDS ThreadPool, TLC

Symm == Permutations(Workers)

=============================================================================
