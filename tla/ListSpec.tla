------------------------------ MODULE ListSpec ------------------------------
(***************************************************************************)
(* What internal/list promises its callers, without a pointer in sight:    *)
(* each list is a sequence of elements, no element is in two places, and   *)
(* every call inserts, moves, removes or copies a run of consecutive       *)
(* elements.  A refused call changes nothing, but for a list told to       *)
(* replace a range with itself, which loses the range.                     *)
(***************************************************************************)
EXTENDS Integers, Sequences, Functions

CONSTANTS Elem, List, Value

VARIABLES contents, value, used, out

vars == <<contents, value, used, out>>

Prefix(s, i) == SubSeq(s, 1, i)
Suffix(s, i) == SubSeq(s, i + 1, Len(s))

Ranges(s) == {r \in (1 .. Len(s)) \X (1 .. Len(s)) : r[1] <= r[2]}
Without(s, r) == Prefix(s, r[1] - 1) \o Suffix(s, r[2])
Run(s, r) == SubSeq(s, r[1], r[2])

Listed == UNION {Range(contents[l]) : l \in List}

Add(l) ==
  \E e \in Elem \ used, v \in Value, i \in 0 .. Len(contents[l]) :
    /\ contents' = [contents EXCEPT ![l] = Prefix(@, i) \o <<e>> \o Suffix(@, i)]
    /\ value' = [value EXCEPT ![e] = v]
    /\ used' = used \union {e}

Take(l, src) ==
  \E i \in 0 .. Len(contents[l]) :
    /\ contents' = [contents EXCEPT ![l] = Prefix(@, i) \o contents[src] \o Suffix(@, i),
                                    ![src] = <<>>]
    /\ UNCHANGED <<value, used>>

Drop(l) ==
  \E r \in Ranges(contents[l]) :
    /\ contents' = [contents EXCEPT ![l] = Without(@, r)]
    /\ UNCHANGED <<value, used>>

CutOut(l, dst) ==
  \E r \in Ranges(contents[l]) :
    /\ contents[dst] = <<>>
    /\ contents' = [contents EXCEPT ![l] = Without(@, r), ![dst] = Run(contents[l], r)]
    /\ UNCHANGED <<value, used>>

Exchange(l, src) ==
  \E r \in Ranges(contents[l]) :
    /\ contents' = [contents EXCEPT
                      ![l] = Prefix(@, r[1] - 1) \o contents[src] \o Suffix(@, r[2]),
                      ![src] = <<>>]
    /\ UNCHANGED <<value, used>>

\* What can be copied: a run of a list, or an element that left its list.
Copyable ==
  (UNION {{Run(contents[l], r) : r \in Ranges(contents[l])} : l \in List})
    \union {<<e>> : e \in used \ Listed}

Copy(dst) ==
  /\ contents[dst] = <<>>
  /\ \E s \in Copyable :
       \E t \in Injection(1 .. Len(s), Elem \ used) :
         /\ contents' = [contents EXCEPT ![dst] = t]
         /\ value' = [e \in Elem |-> IF e \in Range(t)
                                     THEN value[s[CHOOSE i \in 1 .. Len(s) : t[i] = e]]
                                     ELSE value[e]]
         /\ used' = used \union Range(t)

Write == \E e \in used, v \in Value :
           value' = [value EXCEPT ![e] = v] /\ UNCHANGED <<contents, used>>

Nothing == UNCHANGED <<contents, value, used>>

Init ==
  /\ contents = [l \in List |-> <<>>]
  /\ value \in [Elem -> Value]
  /\ used = {}
  /\ out = "ok"

Done ==
  /\ out' = "ok"
  /\ \/ \E l \in List : Add(l) \/ Drop(l) \/ Copy(l)
     \/ \E l, m \in List : l # m /\ (Take(l, m) \/ CutOut(l, m) \/ Exchange(l, m))
     \/ Write \/ Nothing

Refused == out' = "panic" /\ (Nothing \/ \E l \in List : Drop(l))

Next == Done \/ Refused

Spec == Init /\ [][Next]_vars
=============================================================================
