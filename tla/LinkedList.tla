----------------------------- MODULE LinkedList -----------------------------
(***************************************************************************)
(* internal/list: the mutable doubly linked list that holds the tokens of  *)
(* a document, at the level of its pointers.  A list owns its elements: an *)
(* element handle is accepted only by the list its owner field names.      *)
(*                                                                         *)
(* Elements are never reused: `used' holds those ever allocated, so an     *)
(* element that is used and owned by no list is a handle gone stale.  A    *)
(* list that a call returns is an empty member of List: an empty list that *)
(* nobody holds and one just allocated are the same object.                *)
(***************************************************************************)
EXTENDS Integers, FiniteSets, Functions

CONSTANTS Elem,     \* the elements the heap can allocate
          List,     \* the lists
          Value,    \* what an element holds
          Nil       \* the nil pointer

ASSUME NilAssumption == Nil \notin Elem \union List
ASSUME ElemAssumption == IsFiniteSet(Elem)

VARIABLES h,        \* the heap: the fields of every element and every list
          used,     \* the elements allocated so far
          out       \* how the last call ended

vars == <<h, used, out>>

Ptr == Elem \union {Nil}

Heap == [prev : [Elem -> Ptr], next : [Elem -> Ptr],
         owner : [Elem -> List \union {Nil}], value : [Elem -> Value],
         head : [List -> Ptr], tail : [List -> Ptr], len : [List -> Nat]]

-----------------------------------------------------------------------------
\* A fault of Join: the end of the list is forgotten.
JoinForgetsTail(hp, l, p, n, a, b) ==
  [hp EXCEPT !.next = [e \in Elem |-> IF e = p THEN a ELSE @[e]],
             !.prev = [e \in Elem |-> IF e = n THEN b ELSE @[e]],
             !.head = [k \in List |-> IF k = l /\ p = Nil THEN a ELSE @[k]]]

(***************************************************************************)
(* The pointer manipulations.  Every operation ends by making `a' follow p *)
(* and `b' precede n in list l, where a nil p or n is an end of the list.  *)
(***************************************************************************)
Join(hp, l, p, n, a, b) ==
  [hp EXCEPT !.next = [e \in Elem |-> IF e = p THEN a ELSE @[e]],
             !.prev = [e \in Elem |-> IF e = n THEN b ELSE @[e]],
             !.head = [k \in List |-> IF k = l /\ p = Nil THEN a ELSE @[k]],
             !.tail = [k \in List |-> IF k = l /\ n = Nil THEN b ELSE @[k]]]

(***************************************************************************)
(* The elements a loop visits that starts at `from', follows next and ends *)
(* at `stop' or at nil: the smallest set with `from' that next cannot      *)
(* leave but for stop and nil.                                             *)
(***************************************************************************)
Closed(S, next, stop) ==
  \A e \in S : next[e] \in Elem \ {stop} => next[e] \in S

Visited(next, from, stop) ==
  {e \in Elem : /\ from # stop
                /\ \A S \in SUBSET Elem : from \in S /\ Closed(S, next, stop) => e \in S}

\* The owner field of every element of S set to l, the other owners kept.
Owned(hp, S, l) == [e \in Elem |-> IF e \in S THEN l ELSE hp.owner[e]]

Insert(hp, l, p, n, e, v) ==
  LET new == [hp EXCEPT !.prev[e] = p, !.next[e] = n, !.owner[e] = l, !.value[e] = v]
  IN  [Join(new, l, p, n, e, e) EXCEPT !.len[l] = @ + 1]

\* A fault of Unlink: the removed element keeps its pointers.
UnlinkKeepsPointers(hp, l, e) ==
  [Join(hp, l, hp.prev[e], hp.next[e], hp.next[e], hp.prev[e]) EXCEPT
     !.owner[e] = Nil, !.len[l] = @ - 1]

Unlink(hp, l, e) ==
  [Join(hp, l, hp.prev[e], hp.next[e], hp.next[e], hp.prev[e]) EXCEPT
     !.prev[e] = Nil, !.next[e] = Nil, !.owner[e] = Nil, !.len[l] = @ - 1]

Cut(hp, l, first, last, dst) ==
  LET p == hp.prev[first]
      n == hp.next[last]
      apart == [Join(hp, l, p, n, n, p) EXCEPT !.prev[first] = Nil, !.next[last] = Nil,
                                               !.head[dst] = first, !.tail[dst] = last]
      moved == Visited(apart.next, first, Nil)
  IN  [apart EXCEPT !.owner = Owned(apart, moved, dst),
                    !.len[dst] = Cardinality(moved), !.len[l] = @ - Cardinality(moved)]

DetachRange(hp, l, first, after) ==
  LET gone == Visited(hp.next, first, after)
      loose == [hp EXCEPT !.prev = [e \in Elem |-> IF e \in gone THEN Nil ELSE @[e]],
                          !.next = [e \in Elem |-> IF e \in gone THEN Nil ELSE @[e]],
                          !.owner = Owned(hp, gone, Nil)]
  IN  [Join(loose, l, hp.prev[first], after, after, hp.prev[first]) EXCEPT
         !.len[l] = @ - Cardinality(gone)]

Splice(hp, l, p, n, src) ==
  LET joined == [Join(hp, l, p, n, hp.head[src], hp.tail[src]) EXCEPT
                   !.prev[hp.head[src]] = p, !.next[hp.tail[src]] = n]
      moved == Visited(joined.next, hp.head[src], n)
  IN  IF hp.len[src] = 0 THEN hp
      ELSE [joined EXCEPT !.owner = Owned(joined, moved, l),
                          !.len[l] = @ + hp.len[src], !.len[src] = 0,
                          !.head[src] = Nil, !.tail[src] = Nil]

(***************************************************************************)
(* dst, empty, receives by PushBack one copy of each element of S, in      *)
(* their order; copy is the map from originals to copies that the call     *)
(* returns.                                                                *)
(***************************************************************************)
CopyInto(hp, S, first, last, dst, copy) ==
  LET new == Range(copy)
      orig == Inverse(copy, S, new)
      At(e) == IF e \in S THEN copy[e] ELSE Nil
  IN  IF S = {} THEN hp
      ELSE [hp EXCEPT
              !.prev = [e \in Elem |-> IF e \in new THEN At(hp.prev[orig[e]]) ELSE @[e]],
              !.next = [e \in Elem |-> IF e \in new THEN At(hp.next[orig[e]]) ELSE @[e]],
              !.value = [e \in Elem |-> IF e \in new THEN @[orig[e]] ELSE @[e]],
              !.owner = Owned(hp, new, dst),
              !.head[dst] = copy[first], !.tail[dst] = copy[last],
              !.len[dst] = Cardinality(new)]

-----------------------------------------------------------------------------
(***************************************************************************)
(* The checks every operation that takes a handle starts with.             *)
(***************************************************************************)
\* A fault of check: any element will do.
OwnsAny(l, e) == e # Nil

Owns(l, e) == e # Nil /\ h.owner[e] = l

\* A fault of checkRange: the walk decides, and no owner is looked at.
InOrderUnowned(l, first, last) == last \in Visited(h.next, first, Nil)

InOrder(l, first, last) ==
  Owns(l, first) /\ Owns(l, last) /\ last \in Visited(h.next, first, Nil)

Handle == used \union {Nil}
Empty(l) == h.len[l] = 0

Ok(hp) == h' = hp /\ out' = "ok"
Panic == out' = "panic" /\ UNCHANGED <<h, used>>

New(l, p, n, v) == \E e \in Elem \ used : Ok(Insert(h, l, p, n, e, v)) /\ used' = used \union {e}

PushFront(l, v) == New(l, Nil, h.head[l], v)
PushBack(l, v) == New(l, h.tail[l], Nil, v)

InsertBefore(l, mark, v) ==
  \/ Owns(l, mark) /\ New(l, h.prev[mark], mark, v)
  \/ ~Owns(l, mark) /\ Panic

InsertAfter(l, mark, v) ==
  \/ Owns(l, mark) /\ New(l, mark, h.next[mark], v)
  \/ ~Owns(l, mark) /\ Panic

Move(l, p, n, src) ==
  \/ src # l /\ Ok(Splice(h, l, p, n, src)) /\ UNCHANGED used
  \/ src = l /\ Panic

PushFrontList(l, src) == Move(l, Nil, h.head[l], src)
PushBackList(l, src) == Move(l, h.tail[l], Nil, src)

InsertListBefore(l, mark, src) ==
  \/ Owns(l, mark) /\ Move(l, h.prev[mark], mark, src)
  \/ ~Owns(l, mark) /\ Panic

InsertListAfter(l, mark, src) ==
  \/ Owns(l, mark) /\ Move(l, mark, h.next[mark], src)
  \/ ~Owns(l, mark) /\ Panic

Remove(l, e) ==
  \/ Owns(l, e) /\ Ok(Unlink(h, l, e)) /\ UNCHANGED used
  \/ ~Owns(l, e) /\ Panic

CutRange(l, first, last, dst) ==
  \/ /\ InOrder(l, first, last) /\ Empty(dst)
     /\ Ok(Cut(h, l, first, last, dst)) /\ UNCHANGED used
  \/ ~InOrder(l, first, last) /\ Panic

\* A fault of Clone: the ends of the copy are swapped.
CopiesBackwards(S, first, last, dst) ==
  \E copy \in Injection(S, Elem \ used) :
    Ok(CopyInto(h, S, last, first, dst, copy)) /\ used' = used \union Range(copy)

Copies(S, first, last, dst) ==
  \E copy \in Injection(S, Elem \ used) :
    Ok(CopyInto(h, S, first, last, dst, copy)) /\ used' = used \union Range(copy)

Clone(l, dst) ==
  Empty(dst) /\ Copies(Visited(h.next, h.head[l], Nil), h.head[l], h.tail[l], dst)

(***************************************************************************)
(* CloneRange checks the range against the list that owns its first        *)
(* element, which is nil for a removed element: both ends then pass the    *)
(* owner check, and the walk from first decides.                           *)
(***************************************************************************)
CloneRange(first, last, dst) ==
  LET ordered == first # Nil /\ InOrder(h.owner[first], first, last)
  IN  \/ /\ ordered /\ Empty(dst)
         /\ Copies(Visited(h.next, first, h.next[last]), first, last, dst)
      \/ ~ordered /\ Panic

(***************************************************************************)
(* ReplaceRange detaches the range before splice looks at src: with the    *)
(* list itself as src it panics after the range is gone.                   *)
(***************************************************************************)
ReplaceRange(l, first, last, src) ==
  LET p == h.prev[first]
      n == h.next[last]
      without == DetachRange(h, l, first, n)
  IN  \/ /\ InOrder(l, first, last) /\ UNCHANGED used
         /\ \/ src # l /\ Ok(Splice(without, l, p, n, src))
            \/ src = l /\ h' = without /\ out' = "panic"
      \/ ~InOrder(l, first, last) /\ Panic

Replace(l, e, src) == e # Nil /\ ReplaceRange(l, e, e, src)

\* Value is an exported field: a client writes it through any handle.
SetValue(e, v) == Ok([h EXCEPT !.value[e] = v]) /\ UNCHANGED used

-----------------------------------------------------------------------------
Init ==
  /\ \E v \in Value :
       h = [prev |-> [e \in Elem |-> Nil], next |-> [e \in Elem |-> Nil],
            owner |-> [e \in Elem |-> Nil], value |-> [e \in Elem |-> v],
            head |-> [l \in List |-> Nil], tail |-> [l \in List |-> Nil],
            len |-> [l \in List |-> 0]]
  /\ used = {}
  /\ out = "ok"

Next ==
  \/ \E l \in List, v \in Value :
       \/ PushFront(l, v) \/ PushBack(l, v)
       \/ \E mark \in Handle : InsertBefore(l, mark, v) \/ InsertAfter(l, mark, v)
  \/ \E l, src \in List :
       \/ PushFrontList(l, src) \/ PushBackList(l, src)
       \/ \E mark \in Handle : InsertListBefore(l, mark, src) \/ InsertListAfter(l, mark, src)
       \/ \E e \in used : Replace(l, e, src)
       \/ \E first, last \in Handle : ReplaceRange(l, first, last, src)
  \/ \E l \in List, e \in Handle : Remove(l, e)
  \/ \E l, dst \in List, first, last \in Handle : l # dst /\ CutRange(l, first, last, dst)
  \/ \E l, dst \in List : l # dst /\ Clone(l, dst)
  \/ \E dst \in List, first, last \in Handle : CloneRange(first, last, dst)
  \/ \E e \in used, v \in Value : SetValue(e, v)

Spec == Init /\ [][Next]_vars

-----------------------------------------------------------------------------
(***************************************************************************)
(* What the pointers mean: the elements of list l in the order Elems       *)
(* yields them.                                                            *)
(***************************************************************************)
Elems(hp, l) ==
  LET at[i \in 1 .. hp.len[l]] ==
        IF i = 1 THEN hp.head[l]
        ELSE IF at[i - 1] \in Elem THEN hp.next[at[i - 1]] ELSE Nil
  IN  at

\* Every field of the heap has its type, and only used elements are owned.
TypeOK ==
  /\ h \in Heap
  /\ used \subseteq Elem
  /\ out \in {"ok", "panic"}

(***************************************************************************)
(* Chain: s is list l.  It holds each element l owns exactly once, and     *)
(* both directions, both ends and the length tell the same story.          *)
(***************************************************************************)
Chain(hp, l, s) ==
  /\ \A i, j \in 1 .. hp.len[l] : s[i] = s[j] => i = j
  /\ {e \in Elem : hp.owner[e] = l} = {s[i] : i \in 1 .. hp.len[l]}
  /\ hp.head[l] = IF hp.len[l] = 0 THEN Nil ELSE s[1]
  /\ hp.tail[l] = IF hp.len[l] = 0 THEN Nil ELSE s[hp.len[l]]
  /\ \A i \in 1 .. hp.len[l] :
       /\ hp.prev[s[i]] = IF i = 1 THEN Nil ELSE s[i - 1]
       /\ hp.next[s[i]] = IF i = hp.len[l] THEN Nil ELSE s[i + 1]

(***************************************************************************)
(* After any sequence of calls, refused ones included, every list can be   *)
(* walked both ways over exactly the elements that name it as their owner, *)
(* and Len is their number: no splice, cut or partial replacement leaves a *)
(* dangling, shared or foreign element.                                    *)
(***************************************************************************)
WellLinked == \A l \in List : Chain(h, l, Elems(h, l))

(***************************************************************************)
(* An element that left its list points at nothing: a client that still    *)
(* holds the handle cannot walk from it into the list it was in.           *)
(***************************************************************************)
Loose ==
  /\ \A e \in Elem : h.owner[e] = Nil => h.prev[e] = Nil /\ h.next[e] = Nil
  /\ \A e \in Elem \ used : h.owner[e] = Nil

(***************************************************************************)
(* A handle that went stale stays stale: no later call makes a list own a  *)
(* removed element again, so check refuses it for good.                    *)
(***************************************************************************)
DetachedForever ==
  [][\A e \in used : h.owner[e] = Nil => h'.owner[e] = Nil]_vars

(***************************************************************************)
(* The pointer code implements lists that are sequences: moving runs of    *)
(* elements between lists never reorders them.  Node handles rely on it,   *)
(* which keep the first and last token of a node while its tokens travel.  *)
(***************************************************************************)
Abs == INSTANCE ListSpec WITH contents <- [l \in List |-> Elems(h, l)], value <- h.value

ImplementsListSpec == Abs!Spec
=============================================================================
