---------------------------- MODULE MCCopyEngine ----------------------------
(* Instances of CopyEngine for TLC. *)
EXTENDS CopyEngine, TLC

CONSTANTS Native, Big   \* files of size 0 and of size 3; the others have size 1

MCSize == [f \in Files |-> CASE f \in Native -> 0 [] f \in Big -> 3 [] OTHER -> 1]

\* Threads of the pool are alike, and so are files of one kind.
Symmetry == Permutations(Workers)
            \union Permutations(Files \ (Shortcuts \union Native \union Big))
=============================================================================
