---------------------------- MODULE MCLinkedList ----------------------------
(***************************************************************************)
(* LinkedList on a small heap.  Elements, lists and values are             *)
(* interchangeable, so all of them are symmetry sets.                      *)
(***************************************************************************)
EXTENDS LinkedList, TLC

Symmetry == Permutations(Elem) \union Permutations(List) \union Permutations(Value)
=============================================================================
