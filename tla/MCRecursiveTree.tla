-------------------------- MODULE MCRecursiveTree --------------------------
(* Instances of RecursiveTree for TLC. *)
EXTENDS RecursiveTree

\* A step that fits every budget, and one that fits the tree alone.
Steps == {1, 3}
=============================================================================
