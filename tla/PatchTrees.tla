----------------------------- MODULE PatchTrees -----------------------------
(***************************************************************************)
(* What json/patch.go and json/merge_patch.go do level by level: comparing *)
(* values, merging one into another, and reading a value that comes from   *)
(* elsewhere in the syntax of the target.                                  *)
(***************************************************************************)
EXTENDS Pointer

CONSTANT Foreign    \* number literals that the syntax of the target does not allow

RECURSIVE HasForeign(_)
HasForeign(v) ==
  \/ v.type = "number" /\ v.literal \in Foreign
  \/ \E i \in DOMAIN v.items : HasForeign(v.items[i])

\* The value as Replace and the insertions take it.
Accepted(v) == IF HasForeign(v) THEN Invalid ELSE v

-----------------------------------------------------------------------------
\* A fault: the members are compared by their places.
RECURSIVE jsonNodesEqualInOrder(_, _)
jsonNodesEqualInOrder(a, b) ==
  /\ a.type = b.type
  /\ Len(a.items) = Len(b.items)
  /\ IF a.type = "number" THEN jsonNumbersEqual(a.literal, b.literal) ELSE a.literal = b.literal
  /\ a.names = b.names
  /\ \A i \in DOMAIN a.items : jsonNodesEqualInOrder(a.items[i], b.items[i])

RECURSIVE jsonNodesEqual(_, _)
jsonNodesEqual(a, b) ==
  /\ a.type = b.type
  /\ Len(a.items) = Len(b.items)
  /\ IF a.type = "number" THEN jsonNumbersEqual(a.literal, b.literal) ELSE a.literal = b.literal
  /\ \A i \in DOMAIN a.items :
       IF a.type = "object"
       THEN Has(b, a.names[i]) /\ jsonNodesEqual(a.items[i], b.items[IndexOf(b, a.names[i])])
       ELSE jsonNodesEqual(a.items[i], b.items[i])

-----------------------------------------------------------------------------
Members == [type |-> "object", literal |-> <<>>, names |-> <<>>, items |-> <<>>]

Field(op, v, name, given) == Answer(v, Here(v), [op |-> op, name |-> name, given |-> given])

RECURSIVE mergePatch(_, _)

\* A fault: a member that is to be removed is set to null.
MergeFieldKeepsNull(v, name, new) ==
  LET i == IndexOf(v, name)
      merged == mergePatch(v.items[i], new)
  IN  CASE ~Has(v, name) -> Field("insert field", v, name, Accepted(new))
        [] Has(v, name) /\ new.type # "object" -> Field("replace field", v, name, Accepted(new))
        [] Has(v, name) /\ new.type = "object" ->
             [result |-> merged.result, value |-> [v EXCEPT !.items[i] = merged.value]]

\* One turn of the loop over the fields of the patch.
MergeField(v, name, new) ==
  LET i == IndexOf(v, name)
      merged == mergePatch(v.items[i], new)
  IN  CASE new.type = "null" ->
             IF Has(v, name) THEN Field("remove field", v, name, Invalid) ELSE [result |-> "ok", value |-> v]
        [] new.type # "null" /\ ~Has(v, name) -> Field("insert field", v, name, Accepted(new))
        [] new.type \notin {"null", "object"} /\ Has(v, name) -> Field("replace field", v, name, Accepted(new))
        [] new.type = "object" /\ Has(v, name) ->
             [result |-> merged.result, value |-> [v EXCEPT !.items[i] = merged.value]]

mergePatch(v, patch) ==
  LET start == IF v.type = "object" THEN v ELSE Members
      after[i \in 0 .. Len(patch.names)] ==
        IF i = 0 THEN [result |-> "ok", value |-> start]
        ELSE LET before == after[i - 1]
             IN  IF before.result # "ok" THEN before
                 ELSE MergeField(before.value, patch.names[i], patch.items[i])
  IN  IF patch.type # "object" THEN EditHere("replace", v, Accepted(patch))
      ELSE after[Len(patch.names)]
=============================================================================
