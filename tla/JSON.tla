-------------------------------- MODULE JSON --------------------------------
(***************************************************************************)
(* JSON values, places in them, and what the edits of json/meta.go mean    *)
(* for them.  A value is a tree: an object has its names and, under the    *)
(* same positions, its members in `items'; an array has its items.         *)
(***************************************************************************)
EXTENDS Integers, Sequences, SequencesExt

Invalid == [type |-> "invalid", literal |-> "", names |-> <<>>, items |-> <<>>]

\* The values met on the way along a path, the document first.
Along(v, path) ==
  LET at[i \in 0 .. Len(path)] == IF i = 0 THEN v ELSE at[i - 1].items[path[i]]
  IN  at

Leads(v, path) ==
  LET leads[i \in 0 .. Len(path)] ==
        i = 0 \/ (leads[i - 1] /\ path[i] \in DOMAIN Along(v, path)[i - 1].items)
  IN  leads[Len(path)]

\* The document with the value at the path replaced.
Put(v, path, new) ==
  LET at == Along(v, path)
      put[i \in 0 .. Len(path)] ==
        IF i = Len(path) THEN new ELSE [at[i] EXCEPT !.items[path[i + 1]] = put[i + 1]]
  IN  put[0]

-----------------------------------------------------------------------------
(***************************************************************************)
(* A call c names an operation, its arguments, and the value it gives; it  *)
(* is answered by the value v at its place.                                *)
(***************************************************************************)
OnFields == {"insert field", "replace field", "remove field", "rename field"}
OnValues == {"insert value", "replace value", "remove value"}
Giving == {"replace", "replace field", "replace value", "insert field", "insert value"}

Has(v, name) == \E i \in DOMAIN v.names : v.names[i] = name
IndexOf(v, name) == SelectInSeq(v.names, LAMBDA n : n = name)

\* Why call c on value v is refused, in the order the reasons are looked for.
WrongType(c, v) ==
  (c.op \in OnFields /\ v.type # "object") \/ (c.op \in OnValues /\ v.type # "array")

NotFound(c, v) ==
  c.op \in OnFields \ {"insert field"} /\ ~Has(v, c.name)

Exists(c, v) ==
  \/ c.op = "insert field" /\ Has(v, c.name)
  \/ c.op = "rename field" /\ c.name # c.to /\ Has(v, c.to)

OutOfRange(c, v) ==
  c.op \in OnValues
    /\ c.index \notin 1 .. Len(v.items) + IF c.op = "insert value" THEN 1 ELSE 0

Result(c, v) ==
  IF WrongType(c, v) THEN "wrong type"
  ELSE IF NotFound(c, v) THEN "not found"
  ELSE IF Exists(c, v) THEN "exists"
  ELSE IF OutOfRange(c, v) THEN "out of range"
  ELSE IF c.op \in Giving /\ c.given.type = "invalid" THEN "invalid" ELSE "ok"

\* What an accepted call turns v into.
Effect(c, v) ==
  LET i == IF c.op \in OnFields THEN IndexOf(v, c.name) ELSE c.index
  IN  CASE c.op = "replace" -> c.given
        [] c.op \in {"replace field", "replace value"} -> [v EXCEPT !.items[i] = c.given]
        [] c.op = "insert field" -> [v EXCEPT !.names = Append(@, c.name), !.items = Append(@, c.given)]
        [] c.op = "insert value" -> [v EXCEPT !.items = InsertAt(@, i, c.given)]
        [] c.op = "remove field" -> [v EXCEPT !.names = RemoveAt(@, i), !.items = RemoveAt(@, i)]
        [] c.op = "remove value" -> [v EXCEPT !.items = RemoveAt(@, i)]
        [] c.op = "rename field" -> [v EXCEPT !.names[i] = c.to]
=============================================================================
