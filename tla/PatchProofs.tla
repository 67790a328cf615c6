---------------------------- MODULE PatchProofs ----------------------------
(***************************************************************************)
(* Patches are all or nothing and leave the trees alone that were swapped  *)
(* out: whatever an operation, a comparison or a merge makes of a value,   *)
(* for any documents, patches and handles and any number of calls.         *)
(*                                                                         *)
(* The proofs look at no operation.  They rest on where a call writes: in  *)
(* its clone, or, when it succeeds, in the document.                       *)
(***************************************************************************)
EXTENDS Patch, TLAPS

\* The trees make a sequence, of which the document and its predecessors are members.
TreesNamed ==
  /\ \E T : tree \in Seq(T)
  /\ document \in 1 .. Len(tree)
  /\ former \subseteq 1 .. Len(tree)
  /\ document \notin former

IInv == TreesNamed /\ CloneIsPrivate /\ "result" \in DOMAIN call

\* What a step leaves alone.
Safe ==
  /\ tree'[document'] # tree[document] => call'.result = "ok"
  /\ \A t \in former : tree'[t] = tree[t]

-----------------------------------------------------------------------------
(***************************************************************************)
(* Sequences of trees.                                                     *)
(***************************************************************************)
LEMMA AppendTree ==
  ASSUME NEW T, NEW s \in Seq(T), NEW v
  PROVE  /\ \E U : Append(s, v) \in Seq(U)
         /\ Len(Append(s, v)) = Len(s) + 1
         /\ \A t \in 1 .. Len(s) : Append(s, v)[t] = s[t]
<1> DEFINE U == T \union {v}
<1>1. s \in Seq(U) /\ v \in U
  OBVIOUS
<1>2. Append(s, v) \in Seq(U)
  BY <1>1
<1> HIDE DEF U
<1> QED BY <1>1, <1>2

LEMMA WriteTree ==
  ASSUME NEW T, NEW s \in Seq(T), NEW i \in 1 .. Len(s), NEW v
  PROVE  /\ \E U : [s EXCEPT ![i] = v] \in Seq(U)
         /\ Len([s EXCEPT ![i] = v]) = Len(s)
         /\ \A t \in 1 .. Len(s) : t # i => [s EXCEPT ![i] = v][t] = s[t]
<1> DEFINE U == T \union {v}
<1>1. s \in Seq(U) /\ v \in U
  OBVIOUS
<1>2. [s EXCEPT ![i] = v] \in Seq(U) /\ Len([s EXCEPT ![i] = v]) = Len(s)
  BY <1>1
<1> HIDE DEF U
<1> QED BY <1>1, <1>2

-----------------------------------------------------------------------------
(***************************************************************************)
(* The steps.                                                              *)
(***************************************************************************)
LEMMA StartSafe ==
  ASSUME IInv, NEW kind, NEW on, NEW t \in former \union {document}, NEW pointer, NEW args,
         Start(kind, on, t, pointer, args)
  PROVE  IInv' /\ Safe
<1>1. PICK T : tree \in Seq(T)
  BY DEF IInv, TreesNamed
<1> DEFINE v == Handle(t, pointer).value
<1>2. /\ tree' = Append(tree, v) /\ working' = Len(tree) + 1
      /\ document' = document /\ former' = former
  BY DEF Start, Clone
<1> HIDE DEF v
<1>3. /\ \E U : tree' \in Seq(U)
      /\ Len(tree') = Len(tree) + 1
      /\ \A u \in 1 .. Len(tree) : tree'[u] = tree[u]
  BY <1>1, <1>2, AppendTree
<1>4. Len(tree) \in Nat
  BY <1>1
<1>5. TreesNamed'
  BY <1>2, <1>3, <1>4 DEF IInv, TreesNamed
<1>6. CloneIsPrivate'
  <2>1. working' \in 1 .. Len(tree') /\ working' \notin 1 .. Len(tree)
    BY <1>2, <1>3, <1>4
  <2>2. DOMAIN tree' = 1 .. Len(tree')
    BY <1>3
  <2> QED BY <1>2, <2>1, <2>2 DEF IInv, TreesNamed, CloneIsPrivate
<1>7. "result" \in DOMAIN call'
  BY DEF Start
<1>8. Safe
  BY <1>2, <1>3 DEF Safe, IInv, TreesNamed
<1> QED BY <1>5, <1>6, <1>7, <1>8 DEF IInv

LEMMA AtOnceSafe ==
  ASSUME IInv, Idle, NEW kind, NEW on, NEW t, NEW pointer, NEW args, NEW result,
         AnswerAtOnce(kind, on, t, pointer, args, result),
         \/ tree' = tree
         \/ result = "ok" /\ \E v : tree' = [tree EXCEPT ![document] = v]
  PROVE  IInv' /\ Safe
<1>1. PICK T : tree \in Seq(T)
  BY DEF IInv, TreesNamed
<1>2. /\ document' = document /\ former' = former /\ target' = target
      /\ call'.result = result /\ "result" \in DOMAIN call'
  BY DEF AnswerAtOnce
<1>3. /\ \E U : tree' \in Seq(U)
      /\ Len(tree') = Len(tree)
      /\ \A u \in 1 .. Len(tree) : u # document => tree'[u] = tree[u]
  <2>1. CASE tree' = tree
    BY <1>1, <2>1
  <2>2. CASE \E v : tree' = [tree EXCEPT ![document] = v]
    BY <1>1, <2>2, WriteTree DEF IInv, TreesNamed
  <2> QED BY <2>1, <2>2
<1>4. TreesNamed'
  BY <1>2, <1>3 DEF IInv, TreesNamed
<1>5. CloneIsPrivate'
  BY <1>2 DEF Idle, CloneIsPrivate
<1>6. Safe
  BY <1>2, <1>3 DEF Safe, IInv, TreesNamed
<1> QED BY <1>2, <1>4, <1>5, <1>6 DEF IInv

LEMMA ApplySafe ==
  ASSUME IInv, ~Idle, NEW outcome, Apply(outcome)
  PROVE  IInv' /\ Safe
<1>1. PICK T : tree \in Seq(T)
  BY DEF IInv, TreesNamed
<1>2. working \in 1 .. Len(tree) /\ working \notin former \union {document}
  BY <1>1 DEF IInv, CloneIsPrivate
<1>3. document' = document /\ former' = former
  BY DEF Apply
<1>4. CASE outcome.result = "ok"
  <2> DEFINE v == outcome.value
  <2>1. /\ tree' = [tree EXCEPT ![working] = v]
        /\ UNCHANGED <<target, working, call>>
    BY <1>4 DEF Apply
  <2> HIDE DEF v
  <2>2. /\ \E U : tree' \in Seq(U)
        /\ Len(tree') = Len(tree)
        /\ \A u \in 1 .. Len(tree) : u # working => tree'[u] = tree[u]
    BY <1>1, <1>2, <2>1, WriteTree
  <2>3. TreesNamed'
    BY <1>3, <2>2 DEF IInv, TreesNamed
  <2>4. CloneIsPrivate'
    <3>1. DOMAIN tree' = 1 .. Len(tree')
      BY <2>2
    <3> QED BY <1>2, <1>3, <2>1, <2>2, <3>1 DEF CloneIsPrivate
  <2>5. Safe
    BY <1>2, <1>3, <2>2 DEF Safe, IInv, TreesNamed
  <2> QED BY <2>1, <2>3, <2>4, <2>5 DEF IInv
<1>5. CASE outcome.result # "ok"
  <2>1. Return(outcome.result) /\ tree' = tree
    BY <1>5 DEF Apply
  <2>2. TreesNamed'
    BY <1>3, <2>1 DEF IInv, TreesNamed
  <2>3. CloneIsPrivate' /\ "result" \in DOMAIN call'
    BY <2>1 DEF Return, Idle, CloneIsPrivate, IInv
  <2> QED BY <1>3, <2>1, <2>2, <2>3 DEF IInv, Safe
<1> QED BY <1>4, <1>5

LEMMA CommitNodeSafe ==
  ASSUME IInv, CommitNode
  PROVE  IInv' /\ Safe
<1>1. PICK T : tree \in Seq(T)
  BY DEF IInv, TreesNamed
<1>2. Return(ReplaceResult) /\ document' = document /\ former' = former
  BY DEF CommitNode
<1>3. call'.result = ReplaceResult /\ "result" \in DOMAIN call' /\ CloneIsPrivate'
  BY <1>2 DEF Return, Idle, CloneIsPrivate, IInv
<1> DEFINE v == Put(tree[document], target.path, tree[working])
<1>4. tree' = IF ReplaceResult = "ok" THEN [tree EXCEPT ![document] = v] ELSE tree
  BY DEF CommitNode
<1> HIDE DEF v
<1>5. /\ \E U : tree' \in Seq(U)
      /\ Len(tree') = Len(tree)
      /\ \A u \in 1 .. Len(tree) : u # document => tree'[u] = tree[u]
  <2>1. CASE ReplaceResult = "ok"
    <3>1. tree' = [tree EXCEPT ![document] = v] /\ document \in 1 .. Len(tree)
      BY <1>4, <2>1 DEF IInv, TreesNamed
    <3> QED BY <1>1, <3>1, WriteTree
  <2>2. CASE ReplaceResult # "ok"
    BY <1>1, <1>4, <2>2
  <2> QED BY <2>1, <2>2
<1>6. TreesNamed'
  BY <1>2, <1>5 DEF IInv, TreesNamed
<1>7. Safe
  BY <1>2, <1>3, <1>4, <1>5 DEF Safe, IInv, TreesNamed
<1> QED BY <1>3, <1>6, <1>7 DEF IInv

LEMMA CommitMetaSafe ==
  ASSUME IInv, CommitMeta
  PROVE  IInv' /\ Safe
<1>1. PICK T : tree \in Seq(T)
  BY DEF IInv, TreesNamed
<1>2. /\ Return("ok") /\ ~Idle /\ tree' = tree
      /\ document' = working /\ former' = former \union {document}
  BY DEF CommitMeta
<1>3. working \in 1 .. Len(tree) /\ working \notin former \union {document}
  BY <1>1, <1>2 DEF IInv, CloneIsPrivate
<1>4. call'.result = "ok" /\ "result" \in DOMAIN call' /\ CloneIsPrivate'
  BY <1>2 DEF Return, Idle, CloneIsPrivate, IInv
<1>5. TreesNamed'
  BY <1>2, <1>3 DEF IInv, TreesNamed
<1> QED BY <1>2, <1>4, <1>5 DEF IInv, Safe

-----------------------------------------------------------------------------
LEMMA EditSafe ==
  ASSUME IInv, NEW t, NEW pointer, NEW e, Edit(t, pointer, e)
  PROVE  IInv' /\ Safe
<1> DEFINE node == Handle(t, pointer)
           given == InSyntax(e.value)
           outcome == IF e.by = "pointer" THEN EditPointer(e.op, node.value, e.pointer, given)
                                          ELSE EditAt(e.op, node.value, e.segments, given)
           result == EditResult(t, outcome)
           v == Put(tree[t], node.path, outcome.value)
<1>1. /\ Idle /\ AnswerAtOnce("edit", "node", t, pointer, e, result)
      /\ tree' = IF result = "ok" THEN [tree EXCEPT ![t] = v] ELSE tree
  BY DEF Edit
<1>2. result = "ok" => t = document
  BY DEF EditResult
<1> HIDE DEF result, v
<1>3. \/ tree' = tree
      \/ result = "ok" /\ \E w : tree' = [tree EXCEPT ![document] = w]
  BY <1>1, <1>2
<1> QED BY <1>1, <1>3, AtOnceSafe

LEMMA BeginSafe ==
  ASSUME IInv, Begin
  PROVE  IInv' /\ Safe
<1>1. PICK t \in former \union {document}, on \in {"meta", "node"}, pointer \in Receiver :
        \/ \E d \in PatchDocument[calls + 1] : PatchFrom(on, t, pointer, d)
        \/ \E list \in PatchList[calls + 1] : PatchWith(on, t, pointer, list)
        \/ \E patch \in MergeDocument[calls + 1] : Merge(on, t, pointer, patch)
        \/ \E e \in PathEdit[calls + 1] : Edit(t, pointer, e)
  BY DEF Begin
<1>2. ASSUME NEW d \in PatchDocument[calls + 1], PatchFrom(on, t, pointer, d) PROVE IInv' /\ Safe
  <2>1. CASE Start("patch document", on, t, pointer, d)
    BY <2>1, StartSafe
  <2>2. CASE /\ Idle /\ tree' = tree
             /\ AnswerAtOnce("patch document", on, t, pointer, d, decodePatch(d).result)
    BY <2>2, AtOnceSafe
  <2> QED BY <1>2, <2>1, <2>2 DEF PatchFrom
<1>3. ASSUME NEW list \in PatchList[calls + 1], PatchWith(on, t, pointer, list) PROVE IInv' /\ Safe
  <2>1. \E read : Start("patch list", on, t, pointer, read)
    BY <1>3 DEF PatchWith
  <2> QED BY <2>1, StartSafe
<1>4. ASSUME NEW patch \in MergeDocument[calls + 1], Merge(on, t, pointer, patch) PROVE IInv' /\ Safe
  <2>1. Start("merge", on, t, pointer, patch)
    BY <1>4 DEF Merge
  <2> QED BY <2>1, StartSafe
<1>5. ASSUME NEW e \in PathEdit[calls + 1], Edit(t, pointer, e) PROVE IInv' /\ Safe
  BY <1>5, EditSafe
<1> QED BY <1>1, <1>2, <1>3, <1>4, <1>5

LEMMA StepSafe ==
  ASSUME IInv, Step
  PROVE  IInv' /\ Safe
<1>1. ~Idle /\ \E outcome : Apply(outcome)
  BY DEF Step, AddOp, ReplaceOp, RemoveOp, CopyOp, MoveOp, TestOp, Reject, MergeAll, Operation, Patching
<1> QED BY <1>1, ApplySafe

LEMMA NextSafe == IInv /\ [Next]_vars => IInv' /\ (Safe \/ UNCHANGED vars)
<1> SUFFICES ASSUME IInv, [Next]_vars
             PROVE  IInv' /\ (Safe \/ UNCHANGED vars)
  OBVIOUS
<1>1. CASE Begin
  BY <1>1, BeginSafe
<1>2. CASE Step
  BY <1>2, StepSafe
<1>3. CASE CommitNode
  BY <1>3, CommitNodeSafe
<1>4. CASE CommitMeta
  BY <1>4, CommitMetaSafe
<1>5. CASE UNCHANGED vars
  BY <1>5 DEF vars, IInv, TreesNamed, CloneIsPrivate, Idle
<1> QED BY <1>1, <1>2, <1>3, <1>4, <1>5 DEF Next

LEMMA InitIInv == Init => IInv
<1> SUFFICES ASSUME Init PROVE IInv
  OBVIOUS
<1>1. PICK v \in Source : tree = <<v>>
  BY DEF Init
<1>2. tree \in Seq({v}) /\ Len(tree) = 1
  BY <1>1
<1>3. "result" \in DOMAIN call /\ Idle /\ document = 1 /\ former = {}
  BY DEF Init, Idle
<1> QED BY <1>2, <1>3 DEF IInv, TreesNamed, CloneIsPrivate

LEMMA SpecIInv == Spec => []IInv
<1>1. IInv /\ [Next]_vars => IInv'
  BY NextSafe
<1> QED BY <1>1, InitIInv, PTL DEF Spec

-----------------------------------------------------------------------------
(***************************************************************************)
(* The clone that Node.Patch, Meta.Patch and the merges work on is neither *)
(* the document nor a tree that handles refer to.                          *)
(***************************************************************************)
THEOREM ClonesArePrivate == Spec => []CloneIsPrivate
<1>1. IInv => CloneIsPrivate
  BY DEF IInv
<1> QED BY <1>1, SpecIInv, PTL

(***************************************************************************)
(* Patches, merges and edits are all or nothing.                           *)
(***************************************************************************)
THEOREM PatchIsAtomic == Spec => AllOrNothing
<1>1. IInv /\ [Next]_vars => [tree'[document'] # tree[document] => call'.result = "ok"]_vars
  BY NextSafe DEF Safe
<1> QED BY <1>1, SpecIInv, PTL DEF Spec, AllOrNothing

(***************************************************************************)
(* A tree that Meta.Patch or Meta.Merge has swapped out never changes.     *)
(***************************************************************************)
THEOREM FormerTreesStay == Spec => FormerTreesKept
<1>1. IInv /\ [Next]_vars => [\A t \in former : tree'[t] = tree[t]]_vars
  BY NextSafe DEF Safe
<1> QED BY <1>1, SpecIInv, PTL DEF Spec, FormerTreesKept
=============================================================================
