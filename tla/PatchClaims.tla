---------------------------- MODULE PatchClaims ----------------------------
(***************************************************************************)
(* Patch against the RFCs: what it keeps to, and sentences of the          *)
(* documentation that it does not.                                         *)
(***************************************************************************)
EXTENDS Patch, PatchTrees

CONSTANTS Quantity, Departures    \* of PatchSpec

ImplementationSpec == INSTANCE PatchSpec WITH value <- tree[document]
RFC == INSTANCE PatchSpec WITH value <- tree[document], Departures <- {}

ASSUME DeparturesAssumption == Departures \subseteq ImplementationSpec!Points

(***************************************************************************)
(* Every call of Patch, Merge and the edits by paths and pointers does to  *)
(* the JSON value of the document what PatchSpec says, with the departures *)
(* from the RFCs that it has; and a handle to a tree that was swapped out  *)
(* changes nothing and says so.                                            *)
(***************************************************************************)
ImplementsPatchSpec == ImplementationSpec!Spec

-----------------------------------------------------------------------------
\* A step of a call that RFC 6901, 6902 and 7396 allow: seen from outside, or not seen at all.
FollowsRFC == RFC!Next \/ UNCHANGED <<tree[document], call>>

(***************************************************************************)
(* json/merge_patch.go:3 "applies an RFC 7396 JSON Merge Patch to target": *)
(* what a merge does is what RFC 7396 says.                                *)
(***************************************************************************)
FollowsRFC7396 == [][call'.kind = "merge" => FollowsRFC]_vars
=============================================================================
