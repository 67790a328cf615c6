------------------------------- MODULE Patch -------------------------------
(***************************************************************************)
(* json/patch.go and json/merge_patch.go: changing a document by a patch,  *)
(* all or nothing.                                                         *)
(*                                                                         *)
(* Trees are named by the order in which they are made.  The document of a *)
(* Meta is one of them, and a handle refers to a node of the tree it came  *)
(* from for ever.  A call works on a clone; when it succeeds, Node.Patch   *)
(* and Node.Merge replace the node they were called on by the clone, while *)
(* Meta.Patch and Meta.Merge make the clone the document.                  *)
(*                                                                         *)
(* Which nodes of one tree have become stale is the matter of Document:    *)
(* here the handles are to nodes that are in their tree.                   *)
(***************************************************************************)
EXTENDS Pointer

CONSTANTS Source,             \* the values that the document may have at first
          PatchDocument,      \* the documents that callers decode patches from,
          PatchList,          \* the lists of operations that callers put together,
          MergeDocument,      \* the values that callers merge, and
          PathEdit,           \* the edits by paths and pointers that callers make,
                              \* one set for each call in a row
          Receiver,           \* pointers to the nodes whose handles callers keep
          InSyntax(_),        \* a value in the syntax of the document, or Invalid
          SameValue(_, _),    \* jsonNodesEqual
          Merged(_, _),       \* mergePatch
          MaxCalls            \* bound: the calls

VARIABLES tree,      \* the trees, in the order they were made
          document,  \* the tree that m.SST is
          former,    \* the trees that it was before
          target,    \* the receiver of the call that is going on
          working,   \* the clone it works on
          todo,      \* the operations it has still to apply, or the value to merge
          call,      \* the last call, with its result: "running" until it returns
          calls      \* how many there were

vars == <<tree, document, former, target, working, todo, call, calls>>

None == 0
Nobody == [tree |-> None, path |-> <<>>]
NodeIn(t, path) == Along(tree[t], path)[Len(path)]

-----------------------------------------------------------------------------
(***************************************************************************)
(* DecodePatch.  An operation is an object; what it says is in its members.*)
(***************************************************************************)
Member(v, name) == v.items[IndexOf(v, name)]

\* Decoding a member into a Go string: null leaves it as it is, the empty string.
IsText(v, name) == Has(v, name) => Member(v, name).type \in {"string", "null"}
TextOf(v, name) ==
  IF Has(v, name) /\ Member(v, name).type = "string" THEN Member(v, name).literal ELSE <<>>

WithValue == {<<"add">>, <<"replace">>, <<"test">>}
WithFrom == {<<"move">>, <<"copy">>}
WithNeither == {<<"remove">>}

validatePatch(p) ==
  CASE p.op = <<>> -> "invalid operation"
    [] p.op # <<>> /\ parseJSONPointer(p.path).result # "ok" -> "invalid pointer"
    [] OTHER ->
         IF p.op \in WithFrom THEN parseJSONPointer(p.from).result
         ELSE IF p.op \in WithValue \union WithNeither THEN "ok" ELSE "invalid operation"

unmarshalPatch(v) ==
  LET p == [op |-> TextOf(v, <<"op">>), path |-> TextOf(v, <<"path">>), from |-> TextOf(v, <<"from">>),
            value |-> IF Has(v, <<"value">>) THEN Member(v, <<"value">>) ELSE Invalid]
  IN  [result |->
         IF \E name \in {<<"op">>, <<"path">>, <<"from">>} : ~IsText(v, name) THEN "not a string"
         ELSE IF \/ ~Has(v, <<"op">>) \/ ~Has(v, <<"path">>)
                 \/ p.op \in WithValue /\ ~Has(v, <<"value">>)
                 \/ p.op \in WithFrom /\ ~Has(v, <<"from">>) THEN "invalid operation"
         ELSE validatePatch(p),
       patch |-> p]

decodePatch(v) ==
  LET read == [i \in DOMAIN v.items |->
                 IF v.items[i].type = "object" THEN unmarshalPatch(v.items[i])
                                               ELSE [result |-> "invalid operation"]]
      wrong == SelectInSeq(read, LAMBDA r : r.result # "ok")
  IN  IF v.type # "array" THEN [result |-> "invalid patch", patches |-> <<>>]
      ELSE IF wrong # 0 THEN [result |-> read[wrong].result, patches |-> <<>>]
      ELSE [result |-> "ok", patches |-> [i \in DOMAIN read |-> read[i].patch]]

-----------------------------------------------------------------------------
(***************************************************************************)
(* One operation, on the value v of the clone.  The value of an operation  *)
(* may be a handle: it is read when the operation is applied.              *)
(***************************************************************************)
Operand(p) == IF p.value.type = "node" THEN NodeIn(p.value.tree, p.value.path) ELSE p.value

addCall(v, token, given) ==
  pointerCall(IF v.type = "object" /\ Has(v, token) THEN "replace" ELSE "insert", v, token, given)

patchAdd(v, pointer, given) ==
  LET p == parseJSONPointer(pointer)
  IN  IF p.result # "ok" THEN Unchanging(v, p.result)
      ELSE IF p.tokens = <<>> THEN EditHere("replace", v, given)
      ELSE EditBelow(v, p.tokens, pointerToken, LAMBDA u, t : addCall(u, t, given))

patchCopy(v, from, path) ==
  LET source == JSONPointer(v, from)
  IN  IF source.result = "ok" THEN patchAdd(v, path, InSyntax(source.value))
                              ELSE Unchanging(v, source.result)

patchMove(v, from, path) ==
  LET source == JSONPointer(v, from)
      removed == EditPointer("remove", v, from, Invalid)
  IN  IF from = path THEN [result |-> "ok", value |-> v]
      ELSE IF Below(path, from) THEN Unchanging(v, "invalid operation")
      ELSE IF source.result # "ok" THEN Unchanging(v, source.result)
      ELSE IF removed.result # "ok" THEN removed
      ELSE patchAdd(removed.value, path, InSyntax(source.value))

patchTest(v, path, expected) ==
  LET found == JSONPointer(v, path)
  IN  IF found.result # "ok" THEN Unchanging(v, found.result)
      ELSE IF expected.type = "invalid" THEN Unchanging(v, "invalid")
      ELSE Unchanging(v, IF SameValue(found.value, expected) THEN "ok" ELSE "test failed")

-----------------------------------------------------------------------------
(***************************************************************************)
(* Calls.                                                                  *)
(***************************************************************************)
Idle == target = Nobody

\* A fault: the call works on the document itself.
CloneInPlace == document

\* The name of the next tree.
Clone == Len(tree) + 1

\* Where the handle that a caller got by a pointer refers to.
Handle(t, pointer) == JSONPointer(tree[t], pointer)

\* A call on a node of tree t: by the pointer that the caller got its handle with.
Start(kind, on, t, pointer, args) ==
  /\ calls' = calls + 1
  /\ call' = [kind |-> kind, on |-> on, live |-> t = document, receiver |-> pointer,
              args |-> args, result |-> "running"]
  /\ target' = [tree |-> t, path |-> Handle(t, pointer).path]
  /\ working' = Clone
  /\ tree' = Append(tree, Handle(t, pointer).value)
  /\ UNCHANGED <<document, former>>

\* A call that returns at once.
AnswerAtOnce(kind, on, t, pointer, args, result) ==
  /\ calls' = calls + 1
  /\ call' = [kind |-> kind, on |-> on, live |-> t = document, receiver |-> pointer,
              args |-> args, result |-> result]
  /\ UNCHANGED <<document, former, target, working, todo>>

\* A call that is going on returns.
Return(result) ==
  /\ call' = [call EXCEPT !.result = result]
  /\ target' = Nobody
  /\ working' = None
  /\ todo' = <<>>
  /\ UNCHANGED calls

\* Methods of a Meta start from its root; a Node may be one of a tree that was swapped out.
Receives(on, t, pointer) ==
  \/ on = "meta" /\ t = document /\ pointer = <<>>
  \/ on = "node" /\ Handle(t, pointer).result = "ok"

PatchFrom(on, t, pointer, d) ==
  LET decoded == decodePatch(d)
  IN  /\ Idle /\ Receives(on, t, pointer)
      /\ IF decoded.result = "ok"
         THEN Start("patch document", on, t, pointer, d) /\ todo' = decoded.patches
         ELSE AnswerAtOnce("patch document", on, t, pointer, d, decoded.result) /\ UNCHANGED tree

\* The value of an operation may be the node of the document that a pointer leads to.
Bound(p) ==
  IF p.value.type = "pointer"
  THEN [p EXCEPT !.value = [type |-> "node", tree |-> document, path |-> Handle(document, p.value.pointer).path]]
  ELSE p

Bindable(p) == p.value.type = "pointer" => Handle(document, p.value.pointer).result = "ok"

PatchWith(on, t, pointer, list) ==
  LET bound == [i \in DOMAIN list |-> Bound(list[i])]
      read == [i \in DOMAIN list |-> [list[i] EXCEPT !.value = Operand(bound[i])]]
  IN  /\ Idle /\ Receives(on, t, pointer) /\ \A i \in DOMAIN list : Bindable(list[i])
      /\ Start("patch list", on, t, pointer, read)
      /\ todo' = bound

Apply(outcome) ==
  IF outcome.result = "ok"
  THEN /\ tree' = [tree EXCEPT ![working] = outcome.value]
       /\ todo' = Tail(todo)
       /\ UNCHANGED <<document, former, target, working, call, calls>>
  ELSE Return(outcome.result) /\ UNCHANGED <<tree, document, former>>

Patching == ~Idle /\ todo # <<>> /\ call.kind \in {"patch document", "patch list"}

\* The next operation is an op, and looks right.
Operation(op) == Patching /\ validatePatch(todo[1]) = "ok" /\ todo[1].op = <<op>>

AddOp == Operation("add") /\ Apply(patchAdd(tree[working], todo[1].path, InSyntax(Operand(todo[1]))))

ReplaceOp ==
  Operation("replace")
    /\ Apply(EditPointer("replace", tree[working], todo[1].path, InSyntax(Operand(todo[1]))))

RemoveOp == Operation("remove") /\ Apply(EditPointer("remove", tree[working], todo[1].path, Invalid))
CopyOp == Operation("copy") /\ Apply(patchCopy(tree[working], todo[1].from, todo[1].path))
MoveOp == Operation("move") /\ Apply(patchMove(tree[working], todo[1].from, todo[1].path))
TestOp == Operation("test") /\ Apply(patchTest(tree[working], todo[1].path, Operand(todo[1])))

Reject ==
  /\ Patching /\ validatePatch(todo[1]) # "ok"
  /\ Apply(Unchanging(tree[working], validatePatch(todo[1])))

Merge(on, t, pointer, patch) ==
  /\ Idle /\ Receives(on, t, pointer)
  /\ Start("merge", on, t, pointer, patch)
  /\ todo' = <<patch>>

MergeAll == ~Idle /\ todo # <<>> /\ call.kind = "merge" /\ Apply(Merged(tree[working], todo[1]))

-----------------------------------------------------------------------------
\* The token list of the document refuses the tokens of another tree.
ReplaceResult ==
  IF InSyntax(tree[working]).type = "invalid" THEN "invalid"
  ELSE IF target.tree = document THEN "ok" ELSE "panic"

CommitNode ==
  /\ ~Idle /\ todo = <<>> /\ call.on = "node"
  /\ Return(ReplaceResult)
  /\ tree' = IF ReplaceResult = "ok"
             THEN [tree EXCEPT ![document] = Put(@, target.path, tree[working])] ELSE tree
  /\ UNCHANGED <<document, former>>

CommitMeta ==
  /\ ~Idle /\ todo = <<>> /\ call.on = "meta"
  /\ Return("ok")
  /\ document' = working
  /\ former' = former \union {document}
  /\ UNCHANGED tree

\* A fault: an edit through an old handle goes into the old tree.
EditResultAnywhere(t, outcome) == outcome.result

EditResult(t, outcome) == IF outcome.result = "ok" /\ t # document THEN "panic" ELSE outcome.result

\* ReplaceAt, InsertAt, RemoveAt and the three forms with a pointer.
Edit(t, pointer, e) ==
  LET node == Handle(t, pointer)
      given == InSyntax(e.value)
      outcome == IF e.by = "pointer" THEN EditPointer(e.op, node.value, e.pointer, given)
                                     ELSE EditAt(e.op, node.value, e.segments, given)
      result == EditResult(t, outcome)
  IN  /\ Idle /\ Receives("node", t, pointer)
      /\ AnswerAtOnce("edit", "node", t, pointer, e, result)
      /\ tree' = IF result = "ok" THEN [tree EXCEPT ![t] = Put(@, node.path, outcome.value)] ELSE tree

-----------------------------------------------------------------------------
Init ==
  /\ \E v \in Source : tree = <<v>>
  /\ document = 1
  /\ former = {}
  /\ target = Nobody
  /\ working = None
  /\ todo = <<>>
  /\ call = [kind |-> "none", on |-> "meta", live |-> TRUE, receiver |-> <<>>, args |-> <<>>, result |-> "ok"]
  /\ calls = 0

Begin ==
  /\ calls < MaxCalls
  /\ \E t \in former \union {document}, on \in {"meta", "node"}, pointer \in Receiver :
       \/ \E d \in PatchDocument[calls + 1] : PatchFrom(on, t, pointer, d)
       \/ \E list \in PatchList[calls + 1] : PatchWith(on, t, pointer, list)
       \/ \E patch \in MergeDocument[calls + 1] : Merge(on, t, pointer, patch)
       \/ \E e \in PathEdit[calls + 1] : Edit(t, pointer, e)

Step == AddOp \/ ReplaceOp \/ RemoveOp \/ CopyOp \/ MoveOp \/ TestOp \/ Reject \/ MergeAll

Next == Begin \/ Step \/ CommitNode \/ CommitMeta

Spec == Init /\ [][Next]_vars

-----------------------------------------------------------------------------
(***************************************************************************)
(* A call works on a tree that nobody else has: neither the document nor   *)
(* one that was the document, which handles may still refer to.            *)
(***************************************************************************)
CloneIsPrivate ==
  ~Idle => /\ working \in DOMAIN tree
           /\ working \notin former \union {document}

(***************************************************************************)
(* All or nothing: the document changes only in the step in which a call   *)
(* returns that it succeeded.  Neither an operation of a patch nor a       *)
(* failure in the middle of it is ever seen in the document.               *)
(***************************************************************************)
AllOrNothing == [][tree'[document'] # tree[document] => call'.result = "ok"]_vars

(***************************************************************************)
(* A tree that was swapped out stays as it was: what is still read through *)
(* its handles is the document at one moment, whatever is done with them   *)
(* or with the document.                                                   *)
(***************************************************************************)
FormerTreesKept == [][\A t \in former : tree'[t] = tree[t]]_vars
=============================================================================
