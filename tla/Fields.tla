------------------------------- MODULE Fields -------------------------------
(***************************************************************************)
(* Which fields of a Go struct are members of its JSON object: the search  *)
(* of json/marshal.go through the embedded structs, and the table of every *)
(* struct type in a cache that all goroutines share.                       *)
(***************************************************************************)
EXTENDS Integers, Sequences, FiniteSets, SequencesExt, TLC

CONSTANTS Goroutine,
          Type,         \* the types: kind, element type, length, declared fields
          Asked,        \* the struct types whose tables are asked for
          TagName,      \* the names that a tag may give
          MaxDepth,     \* bound: levels of embedding
          MaxCalls      \* bound: tables asked for

VARIABLES cache,        \* structFieldCache: the tables of some types
          search,       \* what every goroutine is looking up, and how far it is
          calls         \* counted against MaxCalls

fieldVars == <<cache, search, calls>>

Kind(t) == Type[t].kind
Nested(t) == IF Kind(t) = "pointer" THEN Type[t].elem ELSE t

Basic == {"bool", "int", "string"}

-----------------------------------------------------------------------------
(***************************************************************************)
(* A declared field is left out, or is a member, or is a struct whose      *)
(* fields are looked at next.  A tag without a usable name is no name.     *)
(***************************************************************************)
parseFieldInfo(parent, i) ==
  LET Info(f, nested) ==
        LET tagged == f.tag \in TagName
            struct == Kind(nested) = "struct"
            hidden == f.tag = "-" \/ (~f.exported /\ (f.embedded => ~struct))
            explored == ~tagged /\ f.embedded /\ struct
        IN  [include |-> ~hidden /\ ~explored,
             explore |-> ~hidden /\ explored,
             name |-> IF tagged THEN f.tag ELSE f.name,
             tagged |-> tagged,
             index |-> Append(parent.index, i),
             options |-> IF Kind(nested) \in Basic THEN f.options ELSE f.options \ {"string"},
             type |-> nested]
  IN  CHOOSE info \in {Info(f, Nested(f.type)) : f \in {Type[parent.type].fields[i]}} : TRUE

Parsed(parent) == [i \in DOMAIN Type[parent.type].fields |-> parseFieldInfo(parent, i)]

Entry(f) == [name |-> f.name, index |-> f.index, options |-> f.options, tagged |-> f.tagged]

\* Twice the members of a struct that is embedded more than once.
FieldsIn(p) ==
  LET fields == SelectSeq(Parsed(p), LAMBDA f : f.include)
      once == [k \in DOMAIN fields |-> Entry(fields[k])]
  IN  IF p.times > 1 THEN once \o once ELSE once

\* How often a type is in a sequence of fields.
Times(fields, t) == Cardinality({i \in DOMAIN fields : fields[i].type = t})

\* Of several fields of one type only the first is looked into.
FirstOfType(fields) ==
  LET first == {i \in DOMAIN fields : \A j \in 1 .. i - 1 : fields[j].type # fields[i].type}
  IN  [k \in 1 .. Cardinality(first) |->
         fields[CHOOSE i \in first : Cardinality({j \in first : j <= i}) = k]]

-----------------------------------------------------------------------------
\* slices.Compare of two indexes, as less than.
Precedes(a, b) ==
  \E n \in 0 .. Len(a) :
    /\ n <= Len(b) /\ SubSeq(a, 1, n) = SubSeq(b, 1, n)
    /\ IF n = Len(a) THEN n < Len(b) ELSE n < Len(b) /\ a[n + 1] < b[n + 1]

\* Fields in the order of their indexes.
InOrder(fields) ==
  [k \in 1 .. Cardinality(fields) |->
     CHOOSE f \in fields : Cardinality({e \in fields : Precedes(e.index, f.index)}) = k - 1]

\* Of two fields with one name, the one to prefer: nearer, tagged, declared before.
Preferred(a, b) ==
  IF Len(a.index) # Len(b.index) THEN Len(a.index) < Len(b.index)
  ELSE IF a.tagged # b.tagged THEN a.tagged ELSE Precedes(a.index, b.index)

\* A fault: a tag makes no difference.
DominantUntagged(fields) ==
  LET Of(name) == SortSeq(SelectSeq(fields, LAMBDA f : f.name = name), Preferred)
      Alone(s) == Len(s) = 1 \/ Len(s[1].index) # Len(s[2].index)
      winners == {Of(name)[1] : name \in {n \in {f.name : f \in ToSet(fields)} : Alone(Of(n))}}
  IN  InOrder(winners)

\* One field is left of each name, or none when the two best are equally good.
Dominant(fields) ==
  LET Of(name) == SortSeq(SelectSeq(fields, LAMBDA f : f.name = name), Preferred)
      Alone(s) == Len(s) = 1 \/ Len(s[1].index) # Len(s[2].index) \/ s[1].tagged # s[2].tagged
      winners == {Of(name)[1] : name \in {n \in {f.name : f \in ToSet(fields)} : Alone(Of(n))}}
  IN  InOrder(winners)

-----------------------------------------------------------------------------
(***************************************************************************)
(* structFieldIndexes, as a goroutine g runs it: between two steps others  *)
(* run.  A table has an identity, as a slice has: who made it.             *)
(***************************************************************************)
None == [fields |-> <<>>, by |-> "none"]
Idle == [at |-> "idle", type |-> "", next |-> <<>>, visited |-> {}, fields |-> <<>>, table |-> None]

FieldsInit ==
  /\ cache = [t \in {} |-> None]
  /\ search = [g \in Goroutine |-> Idle]
  /\ calls = 0

Ask(g, t) ==
  /\ search[g].at = "idle"
  /\ calls < MaxCalls
  /\ calls' = calls + 1
  /\ search' = [search EXCEPT ![g] = [Idle EXCEPT !.at = "load", !.type = t]]
  /\ UNCHANGED cache

Found(g, table) ==
  search' = [search EXCEPT ![g] = [Idle EXCEPT !.at = "found", !.type = search[g].type, !.table = table]]

Load(g) ==
  /\ search[g].at = "load"
  /\ LET t == search[g].type
     IN  IF t \in DOMAIN cache THEN Found(g, cache[t])
         ELSE search' = [search EXCEPT ![g].at = "explore",
                                       ![g].next = <<[type |-> t, index |-> <<>>, times |-> 0]>>]
  /\ UNCHANGED <<cache, calls>>

\* A fault: a struct is looked into again wherever it is met.
UnvisitedForgotten(s) == s.next

Unvisited(s) == SelectSeq(s.next, LAMBDA p : p.type \notin s.visited)

\* The structs of one level of embedding.
Explore(g) ==
  /\ search[g].at = "explore" /\ search[g].next # <<>>
  /\ \A p \in ToSet(search[g].next) : Len(p.index) < MaxDepth
  /\ \E parents \in {Unvisited(search[g])} :
     \E fields \in {FlattenSeq([k \in DOMAIN parents |-> FieldsIn(parents[k])])},
        deeper \in {FlattenSeq([k \in DOMAIN parents |-> SelectSeq(Parsed(parents[k]), LAMBDA f : f.explore)])} :
     \E first \in {FirstOfType(deeper)} :
       search' = [search EXCEPT
         ![g].visited = @ \union {p.type : p \in ToSet(parents)},
         ![g].fields = @ \o fields,
         ![g].next = [k \in DOMAIN first |->
            [type |-> first[k].type, index |-> first[k].index, times |-> Times(deeper, first[k].type)]]]
  /\ UNCHANGED <<cache, calls>>

\* A fault: whoever is last replaces the table of the others.
StoreAlways(t, table) == (t :> table) @@ cache

\* LoadOrStore: a table that is there stays.
Store(t, table) == cache @@ (t :> table)

Publish(g) ==
  /\ search[g].at = "explore" /\ search[g].next = <<>>
  /\ LET t == search[g].type
     IN  cache' = Store(t, [fields |-> Dominant(search[g].fields), by |-> g]) /\ Found(g, cache'[t])
  /\ UNCHANGED calls

\* The caller has used the table.
Return(g) ==
  /\ search[g].at = "found"
  /\ search' = [search EXCEPT ![g] = Idle]
  /\ UNCHANGED <<cache, calls>>

Advance(g) == Load(g) \/ Explore(g) \/ Publish(g) \/ Return(g)
Structs == {t \in DOMAIN Type : Kind(t) = "struct"}

-----------------------------------------------------------------------------
(***************************************************************************)
(* What Go says of promoted fields, amended for tags.  A struct is embed-  *)
(* ded along paths, on which no struct needs to come twice; the fields     *)
(* found along all of them compete for their names, and the nearest one,   *)
(* or the only tagged one among the nearest, wins.                         *)
(***************************************************************************)
Paths(t) ==
  LET paths[n \in 0 .. MaxDepth] ==
        IF n = 0 THEN {[type |-> t, index |-> <<>>, met |-> {t}]}
        ELSE UNION {{[type |-> f.type, index |-> f.index, met |-> p.met \union {f.type}] :
                       f \in {f \in ToSet(Parsed(p)) : f.explore /\ f.type \notin p.met}} :
                     p \in paths[n - 1]}
  IN  UNION {paths[n] : n \in 0 .. MaxDepth}

Candidates(t) == UNION {{Entry(f) : f \in {f \in ToSet(Parsed(p)) : f.include}} : p \in Paths(t)}

Wins(f, others) ==
  \A e \in others :
    \/ Len(f.index) < Len(e.index)
    \/ Len(f.index) = Len(e.index) /\ f.tagged /\ ~e.tagged

Promoted ==
  [t \in Structs |->
     LET all == Candidates(t) IN {f \in all : Wins(f, {e \in all : e.name = f.name} \ {f})}]

(***************************************************************************)
(* Of a struct that is embedded twice at one level the search counts the   *)
(* fields twice, but not those of the structs embedded in it in turn; then *)
(* it can take a field for a member that Go calls ambiguous.  The property *)
(* below leaves such types aside.                                          *)
(***************************************************************************)
IsPlain ==
  [t \in Structs |->
     \A p, q \in Paths(t) :
       p # q /\ p.type = q.type /\ Len(p.index) = Len(q.index) => ~\E f \in ToSet(Parsed(p)) : f.explore]

(***************************************************************************)
(* Whoever asks for the table of a type, while others do, gets the one     *)
(* that everybody gets, and in it, in the order of their declaration,      *)
(* exactly the fields that Go's rules promote.                             *)
(***************************************************************************)
TablesRight ==
  /\ \A t \in DOMAIN cache :
       LET fields == cache[t].fields
       IN  /\ IsPlain[t] => ToSet(fields) = Promoted[t]
           /\ \A i, j \in DOMAIN fields : i < j => Precedes(fields[i].index, fields[j].index)
  /\ \A g \in Goroutine :
       search[g].at = "found" => search[g].type \in DOMAIN cache /\ search[g].table = cache[search[g].type]

(***************************************************************************)
(* Whoever asks is answered, also about a struct that embeds itself, as    *)
(* long as every goroutine gets to run.                                    *)
(***************************************************************************)
LookupsEnd == \A g \in Goroutine : search[g].at = "load" ~> search[g].at = "found"
=============================================================================
