# roundtrip: specifications, model checks and proofs

roundtrip is a Go package that decodes JSON (strict, JSONC or JSON5) into Go
values *and* a syntax tree over the tokens of the text, so that a document can
be edited through node handles and written back with its spaces and comments.
This directory holds TLA+ modules for the parts of it that keep state, TLC
configurations that check them on small instances, and proofs that TLAPS checks
for every instance.

## 1. Inventory

| Component | State | Operations | Interacts with |
|---|---|---|---|
| `internal/list` | doubly linked elements, their owner, list head, tail and length | `PushFront/Back`, `Insert*`, `Push*List` and `Insert*List` (splice), `Remove`, `CutRange`, `ReplaceRange`, `Clone`, `CloneRange`, `Elems` | holds the tokens of every document |
| `internal/sst` | nodes: type, first and last token, children | `Tokens`, `Bytes`, `Clone`, walks | nodes point into the list |
| lexer, cursor (`json/lexer.go`, `internal/cursor`) | a buffered reader, one peeked token, the position and the one before it | `next`, `peekToken` | calls the reader, is called by the decoder only |
| decoder (`json/decoder.go`, `syntax.go`) | its lexer from call to call; in a call the tokens kept, the current element, the open calls of `parse` | `DecodeMeta`; `Decode`, `More`, `Buffered`, `InputOffset` on a stream | builds list and tree |
| documents (`json/meta.go`, `comment.go`) | `Meta`: list, root, indent, options; `Node` and `Comment` handles kept by callers | `Replace`, insert, replace, remove and rename of fields, insert, replace and remove of array values, `Clone`, `Comments`, `ReplaceText` | encoder for values, decoder to validate foreign nodes, list for every change |
| encoder (`json/encoder.go`) | tokens being produced, depth | `encode`, `EncodeMeta` | tables of fields; re-decodes what a `Marshaler` returns |
| struct fields (`json/marshal.go`) | `structFieldCache`, shared by all goroutines | `structFieldIndexes`, `fieldIndex`, `fieldByIndex` | asked by the encoder and by `decodeInto` |
| paths and pointers (`json/path.go`) | none | `At`, `ReplaceAt`, `InsertAt`, `RemoveAt`, pointer forms | calls the methods of `Node` |
| JSON Patch, Merge Patch (`json/patch.go`, `merge_patch.go`) | a working clone | `Patch`, `Merge` on `Node` and `Meta` | pointers and edits on the clone, then one replacement |
| reading values (`json/unmarshal.go`, `value.go`) | the variable that is read into, with what it held before | `decodeInto` | read-only on the tree; tables of fields |
| formatting, indentation (`json/format.go`, `indent.go`) | none | `Compact`, `Indent`, `HTMLEscape`, `detectIndent` | lexer |
| errors, names (`json/errors.go`, `types.go`) | none | | |

Nothing is persisted, and a `Meta` is "not safe for concurrent use"; the cache of
struct fields is the only thing that goroutines share. What is hard is elsewhere:
two structures (the token list and the tree) that every edit must change
together; handles that outlive what they point to; long sequences of legal
edits, each of which decides where commas, gaps and anchors go from what earlier
ones left; text that means something else once other text stands in front of
it; a stream that comes in pieces, of which calls take what they need and leave
the rest, a peeked token included, to the next call; variables that are read
into again, or left half-way by an error.

What makes each component correct:

- *list*: elements, owners, ends and lengths agree after any sequence of calls;
  a removed element is never mistaken for one in the list.
- *decoder*: accepts exactly the grammar the options name; keeps every
  character; the tree it builds nests.
- *documents*: the bytes parse, as long as comments are comments, and into the tree the handles see; an
  edit does to the JSON value what its name says and refuses for the reason it
  gives; it touches no other node; comments stay in reach.
- *paths, patches*: all or nothing; agreement with RFC 6901, 6902 and 7396, but
  for named departures.
- *stream*: each character is taken once, or still buffered; the answers do not
  depend on how the stream is cut into pieces; no call waits for more than it
  needs.
- *fields*: Go's rule of promotion; everybody gets the same table; the search
  ends.
- *values*: what is written reads back; an error leaves the rest alone; nothing
  of an earlier document shows in a later one.
- *layouts*: the tokens and comments of a text survive its layout.

## 2. Plan

Done: 1 to 8. The order is that of dependence and of weight.

1. `LinkedList`, with `ListSpec` as its abstract specification; its invariant
   proved. Everything else is stored in it.
2. `Syntax` (lexemes, parser, anchors) with `Grammar` as the reference.
3. `Document` (meta.go) over `Syntax`, with `JSONValue` as its abstract
   specification; comments.
4. `DocumentClaims`: what the documentation says and the edits do not do.
5. `Pointer` (paths and pointers) and `Patch` (JSON Patch, Merge Patch) over
   JSON values, with `PatchSpec`, the RFCs, as their abstract specification:
   atomicity on `Node` and on `Meta`, handles after a patch. `Number` and
   `Texts` for the characters of pointers and number literals. That nothing is
   done by halves is proved.
6. `Lexer` (characters, peek and unread, positions) and `Stream` over it
   (`Decode`, `DecodeMeta`, `More`, `Buffered`, `InputOffset`, a reader that
   gives pieces and may fail), with `StreamSpec` as their abstract
   specification; liveness.
7. `Fields` (promotion, cache) and `Values` over it (`decodeInto`, `encode`).
8. `Strings` (literals, both ways) and `Layout` (`Compact`, `Indent`,
   `detectIndent`).
9. Proofs. Done: `LinkedList` and that it implements `ListSpec`; `Patch`;
   `Stream`; the parser of `Syntax`, in `Grammar`; the token list and the tree of
   `Document`, what an edit of it leaves alone, which comments it keeps, and that a node
   reports each of them. To come:
   that all goroutines get one table (`Fields`, for any types and goroutines).
10. To model: `ObjectFields` while fields are removed (meta.go:324 shifts the
    slice that the iterator ranges over).

Recursion is written as recursive functions or as folds of the library
(`FlattenSeq`), so that a module may be proved about. `PatchTrees`, `PatchSpec` and `Values` are the exceptions: they walk trees
with RECURSIVE operators. `Fields`, below `Values`, has none, and `Patch`, about which theorems are proved, has what it
takes from `PatchTrees` as operator constants.

## 3. Modules

| Module | Models | EXTENDS |
|---|---|---|
| `LinkedList` | `internal/list/list.go`, pointers and all | |
| `ListSpec` | what a list promises: sequences | |
| `MCLinkedList` | instance for TLC | `LinkedList` |
| `LinkedListProofs` | theorems: the invariant of the heap, the refinement of `ListSpec` | `LinkedList`, TLAPS |
| `Syntax` | lexemes, `decoder.go` from `DecodeMeta` down | |
| `Grammar` | reference grammar, and a writer that types texts | `Syntax` |
| `SyntaxProofs` | lemmas: what the parser keeps from token to token, and where it lets separators stand | `Syntax`, `SequenceFacts` |
| `GrammarProofs` | theorems: the text and the tree of a parsed document | `Grammar`, `SyntaxProofs` |
| `Layout` | `format.go` but for `HTMLEscape`, `indent.go` | `Grammar` |
| `MCGrammar` | instances for TLC | `Layout` |
| `Document` | `meta.go`, `comment.go`, `internal/sst` | `Syntax` |
| `JSONValue` | what an edit promises | |
| `DocumentClaims` | sentences of the documentation | `Document` |
| `MCDocument` | instances for TLC | `DocumentClaims` |
| `DocumentTrees` | lemmas: a document whose list, tree, anchors and separators fit, and the changes that keep it so | `Document`, `SyntaxProofs` |
| `DocumentProofs` | theorems: no call breaks a document, or loses sight of a comment | `DocumentTrees` |
| `JSON` | JSON values, and what the edits of `meta.go` mean for them; used by `JSONValue` and `Pointer` | |
| `Number` | number literals (`util.go`, `unmarshal.go`), their comparison (`patch.go`), `strconv.Atoi` | |
| `Pointer` | `path.go` | `JSON`, `Number` |
| `Strings` | string literals read (`unmarshal.go`) and written (`encoder.go`), `HTMLEscape` | `Number` |
| `Texts` | a writer that types two texts or a string; reference grammars | `Pointer`, `Strings` |
| `MCTexts` | instance for TLC | `Texts` |
| `Lexemes` | classes of characters (`util.go`), positions (`cursor.go`), what the parser sees of a token | `Strings`, `Syntax` |
| `Lexer` | `lexer.go`, and the reader it calls | `Lexemes` |
| `Stream` | the calls of a `Decoder` | `Lexer` |
| `StreamSpec` | what a decoder promises of a stream | `Lexemes` |
| `MCStream` | instance for TLC | `Stream` |
| `StreamProofs` | theorems | `Stream`, `SequenceFacts` |
| `Fields` | the members of structs and their cache (`marshal.go`) | |
| `Values` | `unmarshal.go`, `value.go`, and `encoder.go` for values | `Fields`, `JSON` |
| `MCValues` | instance for TLC | `Values` |
| `PatchTrees` | `jsonNodesEqual`, `mergePatch`, the syntax check of foreign nodes | `Pointer` |
| `Patch` | `patch.go`, the calls of `merge_patch.go` | `Pointer` |
| `PatchSpec` | what a patch promises: RFC 6901, 6902 and 7396 | `Pointer` |
| `PatchClaims` | refinement, and sentences of the documentation | `Patch`, `PatchTrees` |
| `MCPatch` | instances for TLC | `PatchClaims` |
| `PatchProofs` | theorems | `Patch`, TLAPS |
| `SequenceFacts` | lemmas about sequences, and about functions defined along one | TLAPS |

### LinkedList

The heap is a record of functions: `next`, `prev`, `owner` and `value` of each
element, `head`, `tail` and `len` of each list, named as the struct fields.
`used` is the set of elements allocated so far; they are never freed, because a
caller may keep a pointer. One action per method; a call whose element or range
is refused by `check` or `checkRange` is the action `Panic`, which leaves the
heap as the code leaves it at that point (in `ReplaceRange`, after the range
was detached). `Join`, `Unlink`, `Cut`, `DetachRange`, `Splice` and `CopyInto`
are the unexported helpers; loops over pointers are the least set closed under
the step of the loop (`Visited`), so that nothing is assumed about the chain
being acyclic.

### Syntax

A text is a sequence of lexemes, each a model string, because no property here
tells two numbers or two names of the same class apart by their characters. The
parser is a function from a state (tokens kept, nodes built, nodes open, place)
and a token to the next state: the stack of open nodes is the stack of calls of
`parse`, `parseObject` and `parseArray`, and `at` is where the innermost one
stands. Anchors, which the code inserts around a field or element when it is
complete, are emitted when their place is reached; the result is the same list.

### Document

`token` and `node` are heaps that only grow, indexed by allocation order; `list`
is `m.SST.Tokens` as a sequence, which `LinkedList` justifies: no two elements
are the same, an element not in it has no neighbours, and the calls insert, cut
and replace ranges. A handle is an index into `node`, and every node ever
allocated may be the receiver of a call, so stale handles are always among the
actors. Replace overwrites the node in place, as `*n.node = *newNode` does.
Values to be inserted are *fragments*: tokens and nodes with positions of their
own, from an encoded Go value, a foreign document or the clone of a node of
this document (validated first, as `validateNodeSyntax` does). An edit names its
result first (an error, a panic of the token list, or `"ok"`) and changes state
only in the last case.

`call` and `value` are history: the call with its receiver as a path, and the
JSON value of the bytes as `MarshalMeta` would write them. `ImplementsJSONValue`
says that the two, alone, behave as `JSONValue`: there the document is a value,
a handle a path, and every call has one result and one effect. The mapping is
the identity on these two variables, the work is in the reading of the bytes (and
the third is `CommentsWhole`, below).

The body of a comment is a member of `Body`, and what the literal around it is to
the lexer is a table for each style (`LineOf`, `BlockOf`): a comment, nothing when
the body is refused, or, for a body that ends the block early, a comment and what
follows. The token stays one comment to the handles; its text is lexed again when the
document is written. `CommentsWhole` says that no such comment is in the
document, nor a space that was copied with one. `RoundTrips` has it as its premise, and `JSONValue` as
a variable: only an accepted body may make it false (`Broken`), and while it is
false nothing is promised but that refused calls change nothing (`StillBroken`).

Left out: indentation of encoded values (`depth`, `newline`); the characters of
strings and numbers; the token positions.

### Pointer, Number, Texts

Here a text is a sequence of characters, since escapes, prefixes, signs and
leading zeros are what the code has to get right. Paths and pointers are read
step by step (`Follow` with `pathSegment` or `pointerToken`), and each edit ends
in a call of the parent, which `JSON!Result` and `JSON!Effect` answer; that the
methods of `meta.go` do what these two say is `ImplementsJSONValue` of the
document runs. Left out of `Number`: the literals NaN and Infinity.

`Strings` reads a literal as the loop of `unquoteStringOptions` does, place by
place, and writes one character by character. A character is a character of the
text, not a byte; what is not UTF-8 is the one character `BadByte`. In `Texts` a
string is typed in pieces, some of which are halves of escapes; its reference is
a cut of the text into pieces that stand for something.

### Lexer, Stream

The reader is the environment. When the buffer does not suffice it gives a piece
of one of the `Streams`, or an error, or it ends; in between it may wait for
ever. `given` is the history of what it gave, errors included, since an error
between two characters of a word ends the word: every loop of the lexer breaks
on an error and returns what it has. `bufio.Reader` is modelled by what it does
here: a character comes from the buffer or from a call of the reader, and an
error is handed on once.

A step of the lexer is one character read, or read and taken back. A scan is
always the work of `peekToken`, since the decoder peeks before it takes; `scan`
is the place in `scanToken` and the function that consumes, and the two tests of
`assert` are two steps, between which the reader may be called. A step of the
decoder takes the peeked token, and gives it to `ParseStep` of `Syntax` (the
same parser as in the document runs) as `Seen` shows it: with its validity for a
string, a number and a space. `Decode` returns when the value is complete,
`DecodeMeta` when it has seen the end, `More` at the first token that is no
trivia. `tokens` is the decoder's list, which `onlyConsumedTrivia` looks at, and
`spent` the history of all characters that were taken.

`StreamSpec` has no lexer, buffer or lookahead. It says which words a prefix of
a stream is certain to have (the last is known only when what follows it is),
and which answer they determine: the first place at which the parser is done or
has an error. `used` is how far the calls have got, and the only memory between
them. `Answers` has no element as long as what was read decides nothing, and one
from then on: `ReturnsPromptly` is about this moment.

### Layout

Functions of an accepted text, its tokens and its tree, evaluated on every text
that the writer of `Grammar` has typed. `Laid` is one turn of the loop of
`IndentWithOptions`; `detectIndent` is a set of candidates, one for each node
that begins a line, and has an answer when there is one candidate.

### Fields, Values

`search[g]` is what goroutine g is doing in `structFieldIndexes`: a step is the
look into the cache, one level of the search, or `LoadOrStore`, and other
goroutines run in between. A table carries who made it, as a slice has its own
identity. The reference is Go's rule: among all paths of embedding, the nearest
field of a name wins, a tagged one before others, and two that are equal hide
each other. `IsPlain` leaves aside types with a struct embedded twice at one
level that embeds others in turn; there the code counts differently, as
encoding/json does.

`Values` reads one document after another into a variable, by recursion over
the JSON value and the type as in `decodeValue`; each function returns the value
as far as it was changed, and whether there was an error. Writing gives a JSON
value or an error. Tables are taken from the cache, after `Declare` has filled
it as `TablesRight` says; lookups and reads are not interleaved. A type is a
record (kind, element, key, fields), so that the instance chooses them: pairs
that differ in case, slices and arrays of structs, embedded pointers exported
and not, quoted members, a recursive type, `any`, `RawMessage`, `Number`, maps
with string, integer and unsupported keys.

### Patch

A step of the model is one operation of a patch, so that what a failure in the
middle leaves behind is a state. Trees are numbered in the order in which they
are made and named by these numbers: `document` is the one that `m.SST` is,
`former` those it was, `working` the clone of the current call. A handle is a
tree and a path; it may be into a former tree, and the value of an operation
may be a handle into the document. `CommitNode` is the end of `Node.Patch` and
`Node.Merge` (the clone replaces the node), `CommitMeta` that of the `Meta`
forms (the clone becomes the document). A call through a handle into a former
tree ends in a panic of the token list, after all refusals that come before it.
An operation that a caller puts together is validated when it is applied, one
from `DecodePatch` also when it is read.

`PatchSpec` has the document and the last call as its only variables. It looks
at a JSON value as a set of places, the pointers to everything in it, each with
a type and a literal, and says in these terms what the RFCs say: a merge patch,
for instance, is not a recursion but a set of places that must be objects, a set
of places where values are put, and what is kept. `Departures` names five points
on which the code does something else (section 6); with all five, `Patch` implements `PatchSpec`
(`ImplementsPatchSpec`, with `value <- tree[document]`).

Left out: spaces and comments inside values (the document runs follow them),
stale handles within one tree (also there), and `Indent`.

## 4. Runs

| Run | Bounds | Distinct states | Shows |
|---|---|---|---|
| `linked_list` | 4 elements, 3 lists, 2 values, symmetric | 258 | pointers, owners, ends and lengths agree after any calls; a removed element stays removed; implements `ListSpec` |
| `document_strict` | 2 texts, 3 inputs, 3 edits | 39,555 | `ImplementsJSONValue` on strict JSON |
| `document_json5` | 6 texts, 4 inputs, 4 bodies, 2 edits | 5,341 | the same with comments, trailing commas and bare keys; the tree is that of the bytes while comments are whole; anchors; no other node is touched; comments in reach and kept |
| `grammar_strict` | texts up to 9 lexemes over 11 | 385,272 | the parser accepts exactly the grammar; the tree nests |
| `grammar_json5` | texts up to 6 lexemes over 13 | 605,548 | the same with all extensions; the text is kept, by both layouts too; indentation is found again |
| `texts` | two texts over 9 characters, up to 5 and 2, together 6; or 4 pieces of a string, of 17 | 1,350,901 | pointers, escapes and prefixes; number literals under all options; comparison by value; string literals under all options, written and read |
| `patch` | 3 documents, 2 receivers, about 900 calls, then 9 more, old handles | 28,109 | all or nothing; clones are private; former trees are kept; implements `PatchSpec` |
| `stream` | 1,464 streams of up to 3 characters over 11, and 11 of up to 13; pieces of 1 or 2; 1 error | 68,992 | no character is lost or read twice; positions; implements `StreamSpec`; prompt answers |
| `values` | 2 goroutines, 2 lookups of 6 types, 3 levels of embedding; 13 types, 110 documents, any number of reads | 3,493 | tables; what is written reads back; what an error leaves; nothing stale; lookups end |
| `claim_*` | one text or document each | few | the findings of section 6 |

Why the bounds are enough. Lists: an operation touches at most two lists, the
range of one and a mark in the other, with one neighbour on each side; four
elements and a third list hold a range of two with both neighbours, or two
ranges. Document: an edit of a container looks at one child, its two neighbours
and the ends; texts with none, one and two children, grown to three and four by
the edits, meet every branch. Two edits are a cause and its effect; the third
in strict JSON is there for stale handles (replace, remove the parent, use the
child). Of the bodies one fits both styles, one each is refused by a line and by a block,
and one ends a block early; the second edit mends or removes that comment, or works on
the broken document. Grammar: nine lexemes are two members of an object, the least text with
a duplicate name; six with comments are an array or object with a trailing comma
and a comment. Texts are extended only while the parser has found no error,
which loses no accepted text, and the second half of `AcceptsGrammar` says that
it finds none while some sentence still goes on.

Pointers: two tokens with an escape each, or one name that begins another, fit
into four characters and two. Numbers: sign, digit, point and digit, or
exponent, are five characters. Patches: an operation looks at a place and its
parent, so documents three levels deep have every case; the eleven pointers of
`patch` go to an object, an array, an item, behind the last item, and to
places that are not there, and its pairs have operations whose success depends
on the one before. Two calls are one that swaps the tree and one through an old
handle or on the new document.

Strings: the longest thing that is read at once is a pair of surrogates, three
or four pieces; with four, one of its halves has a neighbour that is no mate or
the end. Streams: three characters are a word, what ends it and one more, or a
comment's opening and what it might be; the longer ones have what does not fit
into three (an object with a repeated name, an escaped quote, blocks with
stars, several values in a row, carriage returns and line separators). Pieces of
two characters divide a word from the next in both ways. Any number of calls is
made: the stream is what ends. Values: two names and their fold, in both
orders, with values of a right type, a wrong type and null, inside arrays of
none, one and three; the number of reads is not bounded, the states being
finitely many. Two goroutines are enough for one to run between any two steps
of another.

Deadlock is not checked in `Document`, `Grammar`, `Texts`, `Patch` and `Values`,
whose callers stop at a bound (`MaxEdits`, `MaxText`, `MaxPath`, `MaxPieces`,
`MaxCalls`) or need not call, nor in `Stream`, whose callers need not. `MCDocument` has a view without the two history
variables: `value` is a function of the rest, no action reads `call`, and the
properties of steps are evaluated on every step, not on states.

Fairness. `Stream`: a call that can go on goes on (the goroutine that made it
runs), and a reader that has reported its end answers again at once, as
`bufio.Reader` needs of it. Nothing is assumed of a reader before its end: it may
be a connection on which nothing comes. So `ReturnsPromptly` promises an answer
from what was read, and `Returns` one only on the premise that the reader
answers. `Values`: every goroutine that is looking up a table runs; nobody has to
ask or to read. The rest is synchronous and sequential, without fairness; that
loops end is part of the safety of the list (`WellLinked` makes every chain
finite and closed at the ends).

## 5. Proofs

`tlapm` checks every theorem below to its last leaf. Each module of proofs
extends the module that it is about, and has nothing else: no model is
reformulated for a proof.

### LinkedListProofs

For any number of elements, lists and values,

- `TypeCorrect`, `Spec => []TypeOK`;
- `ListsWellLinked`, `Spec => []WellLinked`: every list is a chain both ways
  over exactly the elements it owns, with its ends and its length;
- `RemovedAreLoose`, `Spec => []Loose`: an element no list owns points at nothing;
- `StaleForever`, `Spec => DetachedForever`: a removed element is never owned again;

from two assumptions on the constants: nil is no element and no list, and the
heap is finite.

The argument. `WellLinked` is stated by local facts and a count. It is not
enough by itself for the operations that walk (`CutRange`, `splice`): that the
walk from `first` meets `last`, and what it meets before, is a fact about the
whole chain. The inductive invariant `IInv` adds to `TypeOK` that each list
has a numbering: a bijection between the elements it owns and `1 .. len` under
which `next` is the successor and the ends are 1 and `len`. An insertion shifts
the numbers behind the mark, a removal those behind the range, and a splice adds
the numbers of the source to that of the mark. With the numbering, `Visited`,
the least set closed under `next`, is an interval (`VisitedRun`), proved by
taking the least number that is missing. Each operation has a lemma of the form
"from numbered lists to numbered lists" (`InsertGood`, `UnlinkGood`, `CutGood`,
`DetachGood`, `SpliceGood`, `CopyGood`); each action has one that applies it
(`NewOK`, `MoveOK`, ...); `StepIInv` goes through the actions, and shows of each
what it does to the sequences of elements as well (`Effect`).

It also implements its abstract specification:

- `ListsAreSequences`, `Spec => ImplementsListSpec`: with each chain read from its
  head to its tail, every call is one step of `ListSpec`, where a list is a
  sequence, and a refused call is the step that `ListSpec` has for it.

The argument. `Effect` says in terms of numberings what each call does
to the chains: it adds a run at a gap, drops one, cuts one off, moves a whole
list, exchanges a run for a list, copies a run, or writes a value. For each of
these seven effects, one lemma finds the step of `ListSpec` (`AddOK`, `DropOK`,
`CutOK`, `TakeOK`, `ExchangeOK`, `CopyOK`, `WriteOK`).

### SyntaxProofs and GrammarProofs

For every text over any lexemes, under any options,

- `TextIsKept`, `Spec => []KeepsText`: the tokens of a decoded document, anchors
  included, give back the text, so that neither the lexer nor the parser loses,
  repeats or moves anything;
- `TreesFit`, `Spec => []TreeFits`: every node of the tree has its own first and
  last token, children lie inside their parent, behind each other and in its
  order, and the anchors are exactly the ends of the wrappers;

from `PunctuationAssumption` (a brace, a comma or a space is no number, string,
identifier or comment; the lexer tells them apart by their first character) and
`LexemeAssumption` (what is typed is a lexeme).

The argument. Both are about what `Decode` returns, which is a recursion along the
tokens, so the invariant (`Good`) is one of the parser, between two tokens: the
open nodes are nested in each other and each is the last child of the one before
(`Nested`), closed nodes lie where they should (`Spans`, `Ordered`), an open
wrapper has its first anchor and a closed one both (`Anchored`), and the place
where the parser stands says which children are there already (`Filled`). All
that the parser does is put together from three moves - a token is emitted, a
node is shut, a node is opened - and `Emits`, `Shuts` and `Grows` show what each
keeps; what is left for `ParseValueOK`, `ParseKeyOK` and `ParseAfterOK` is to
follow the places.

### DocumentTrees and DocumentProofs

For any texts that documents are parsed from and values are encoded to, any names and
options, and any calls through any handles but those of fields and elements -
handles of removed nodes included -

- `DocumentTyped`, `Spec => []TypeOK`: the token list holds allocated tokens, each
  once, and every node is over allocated tokens and nodes;
- `AnchorsKept`, `Spec => []AnchorsMatch`: the anchors in the list are the ends of
  the fields and elements of the tree;
- `OthersStayPut`, `Spec => OthersUntouched`: an edit changes the node that it is
  called on and what contains that; every other node that stays in the document
  keeps its record, and its tokens stand unchanged and in one piece;
- `CommentsStay`, `Spec => CommentsKept`: an edit loses a comment only with the value
  that holds it, or with the gap that goes with a removed child, and leaves the
  others in their order;
- `CommentsFound`, `Spec => []EveryCommentFound`: each comment in the list is reported by a
  node, as leading, trailing or dangling;

from `DocumentAssumption` (a document comes from a text that decodes, a value is
encoded as lexemes and a name as a string lexeme, and what is written for a comment is
a line comment, or lexemes of which the first is a block comment), `PunctuationAssumption` and
`CommentAssumption` (a comment is no number, string, word or identifier: it alone
begins with a slash). Handles of fields and elements are
excluded because with them it is false: the run `claim_wrappers` shows how (finding 1).

The argument. `AnchorsMatch` says nothing of where the nodes are, and where an edit
cuts the list is decided by the first and last tokens of the nodes around. The
inductive invariant (`Steady`) is that the document is `WellFormed` and `Tidy`. `Tidy` is
for the comments, below. `WellFormed` says: the list
holds each token once; the nodes in use, those whose first token is in the list,
nest in it in the order of the tree (`Standing`); no node has two parents
(`OneParent`), and every node in use but the root is the child of one in use
(`Kept`); a node that was removed was removed with its last token and all its children
(`Fallen`), so that a stale handle is refused, or does harmless things to
what nobody sees any more; each kind of node has the children it should
(`Formed`); and the anchors in the list are the ends of the wrappers in use
(`Marked`). Two nodes in use therefore lie apart or one inside the other
(`Laminar`), and whatever is inside a span is below its node.

Every edit is of one kind (`Edits`): the tokens between two places of the list
go, with the nodes there, and those of a fragment come in their place, whose first
node becomes a child of one node, or takes the place of one. `EditKeeps`
shows of that kind, once, that it keeps a document well-formed; `ReplacedKeeps`,
`InsertedKeeps` and `RemovedKeeps` show that the three bodies are of the kind.
What is left is what each method hands to them: that an encoded value
is a fragment whose nodes nest (`EncodedIs`, from `SyntaxProofs`), that so is the
clone of a node, in use or not (`ClonedKeeps`: `Span` and `Walk` find just the tokens and
nodes of a subtree, `SpanIs` and `WalkOf`), that gaps and prefixes bring no anchors
along (`GapPlain`, `SpacedIs`), and that the range that goes with a child touches no
other child (`RemoveTakes`).

`OthersUntouched` is proved along the same line. Every edit cuts between two places and
writes the record of no node but its target and new ones
(`EditLeaves`); a node whose span lies wholly in front of the first place or
behind the second (`Clear`) has its tokens moved together (`PieceStays`). A node that does
not contain the target lies apart from it or below it, by `Laminar`; below it, it is
inside a child, and the edit cuts between children or around one. A child that it cuts
around goes, and its first token with it. `EditLeaves` says so of an edit, `ReplaceLeaves`,
`InsertLeaves` and `RemoveLeaves` of the three bodies.

For `CommentsKept`, `EditSpares` shows that the tokens outside of the two places keep
their order (`EditMoves`), so that only what is between the places counts: the
span of a replaced node (`InSpan`), nothing for an insertion, and for a removal what
`Taken` says of the range that `RemoveRange` names - the span of the child, the gap to its neighbour,
or the part of it up to a comma and that comma.

`EveryCommentFound` needs to know what may stand between nodes, of which `WellFormed` says
nothing: a comment between two commas would be reported by no node. `Tidy` says it, of
the outline of a document: the types of its tokens, and where nodes begin and end.
All that is not blank or a separator is the first or last token of a node (`Edged`);
a comma or colon has, but for blanks, the end of a node before it and
the beginning of one, or the end of its container, behind it, and a colon the beginning
(`Parted`); and no node, in use or not, begins or ends with a token that is passed over
(`Voiced`), because a handle that is stale may be cloned. The parser builds such outlines
(last part of `SyntaxProofs`). An edit puts one outline into another (`Patched`): `ReplacedTidy`,
`InsertedTidy` and `RemovedTidy` say what must hold at the two seams, and it does, because
a value begins and ends with a node (`Neat`), a new child comes with its comma on the side
of its neighbour (`SpacedFits`), and with a child goes the comma on one side of it, or the only one
(`CutsMend`). Changing the text of a comment changes no outline (`TextTidy`).
From a comment, then, one looks for what is next on either side, blanks left aside
(`CommentPlaced`): where a node ends before it, it trails that node; where one begins
behind it, it leads that one; otherwise it is in an empty container, or
between the last comma and the end of one, and dangles. `BehindFound`, `BeforeFound`,
`AloneFound` and `LastFound` show that the methods look there.

### StreamProofs

For any streams, any way to cut them into pieces, any number of failures of the
reader and any sequence of calls,

- `StreamTyped`, `Spec => []TypeOK`;
- `NothingLost`, `Spec => []EveryCharacterOnce`: what the reader gave is what the
  calls took, the unfinished word, the token that was peeked at and the buffer, in
  this order: no character is lost or taken twice, whatever stands between;
- `PlacesTrue`, `Spec => []PositionsRight`: the cursor, the token that was peeked
  at and every token kept have the line, column and offset that the text before
  them gives;

from `StreamAssumption` (streams are sequences of characters and bounds are
numbers) and `FailureAssumption` (an error of the reader is no character).

The argument. The three are proved together. `EveryCharacterOnce` is a fact about
four places at which a character can be, and a step of the lexer moves one
from the buffer to the word or back; that it may be taken back needs to know
which character was read last, hence `LexerOK`. That a scan begins only while a
call waits, and with nothing peeked at, is `CallOK`; that the tokens kept
and taken are cut from `spent` one after the other is `TokensOK`. A position
is right after a step because `PlaceAfter` of a longer text is found from that of
the shorter one (`PlaceAfterAppend`); this, too, is a recursion.

### SequenceFacts

Recursion. The induction theorems of the library take an operator, which no
installed prover can instantiate. What is proved here about functions that are
defined along a sequence (`Lex`, `Decode`, `PlaceAfter`, `FlattenSeq`) goes
another way: the set of numbers up to which the function does what its
recursion says has a least missing one (`LeastNat`), and there is none. `FoldExists`
says so once, for any set of values and any step on it that is a function;
`SameFold`, that there is only one such function, which therefore is the one that the
model's CHOOSE takes.

### PatchProofs

For any documents, patches, merges, edits, handles and number of calls,

- `ClonesArePrivate`, `Spec => []CloneIsPrivate`: a call works on a tree that is
  neither the document nor one that older handles refer to;
- `PatchIsAtomic`, `Spec => AllOrNothing`: the document changes only in the step
  in which a call returns success;
- `FormerTreesStay`, `Spec => FormerTreesKept`: a tree that was swapped out is
  never written again.

Nothing is assumed of the constants, and no operation is opened: the comparison,
the merge and the syntax check are arbitrary operators. The inductive invariant
adds to `CloneIsPrivate` that the trees are a sequence, with the document and the
former trees among its members and the document not among the former ones
(`TreesNamed`); without it a new clone might bear the name of an old tree, and an
edit of the document might write into one.

### Model-checked only

- of `Document`: `RoundTrips` and `ImplementsJSONValue`, for which the parser would have
  to be followed along a text that is put together from three others;
- `AcceptsGrammar`: that the parser accepts exactly the grammar. The reference
  is a recursion over sets of texts, not along one;
- `LayoutsKeepText` and `IndentationFound`;
- `Texts` and `Values`. `Values` walks trees with RECURSIVE operators, about which
  nothing can be proved here; `Fields`, below it, has none (section 2);
- `ImplementsPatchSpec`, for the same reason: `PatchSpec` and `PatchTrees` have them;
- `ImplementsStreamSpec`: `StreamSpec` looks a word ahead and decides an answer by
  a parser of its own; the two parsers would have to be proved to walk in step;
- all liveness (`ReturnsPromptly`, `Returns`, `LookupsEnd`): ENABLED and fairness
  are out of reach of the provers.

## 6. Findings

Each of the first three is a `violation` run of one property, a sentence of the
documentation.

1. `claim_wrappers`: `Replace` on a wrapper node leaves a bare value in its
   place, and later calls on the parent panic.
2. `claim_written`: a `Marshaler` that returns a line comment behind its value
   makes a document that `MarshalMeta` refuses.
3. `claim_nulls`: a new member of a merge keeps its nulls.

Other departures have no run of their own, but the models have them:

- removing a child discards comments of its neighbours (`RemoveRange` takes the
  whole gap), and a new field copies the comment of the first one into a token
  of whitespace (`FieldValuePrefix`), against json/README.md:4;
- comments before and after the root value are not written (`Marshaled`);
- `PatchSpec!Departures`: besides the nulls of 3, a move onto itself succeeds
  where there is nothing; `00`, `01`, `+1` and `-0` are array indexes in
  pointers; `"path":null` means the whole document; a `from` that an operation
  does not use is refused when it is no string. The run `patch` needs all five:
  with any of them left out of its cfg, `ImplementsPatchSpec` is violated;
- after `Meta.Patch` or `Meta.Merge` an edit through a handle obtained before,
  the root's included, panics, against json/doc.go:5 (`EditResult`);
- `ReplaceText` accepts any body without `*/` for a block comment, but one that begins with a
  slash ends the block at once (`commentLiteralText`, meta.go:760; lexer.go:198): with the body
  `/2/`, `[/**/]` becomes `[/*/2/*/]`, which is `[2]`, while the handles see an empty array,
  and behind a value the document can no longer be written. This is against
  json/comment.go:55 and json/README.md:247, "replaces the body while preserving the
  original comment style". `RoundTrips` is violated by `document_json5` without its premise
  `CommentsWhole`, and `ImplementsJSONValue` without `JSONValue!Broken`. The body of a comment
  that is `/*/` cannot be read: `commentText` (meta.go:749) slices from 2 to 1, and panics;
- a name that is not valid UTF-8 can be inserted twice, since it is compared with
  the decoded keys before encoding replaces its bytes (meta.go:257), against
  json/meta.go:18;
- `+-1` is a number where leading plus signs are allowed (`IsPlusAndNumber`);
- `/*/` is a complete comment (`consumeMultiLineComment`). `StreamSpec` has it so, too
  (`SlashAt`): the run `stream` does not question it;
- an error of the reader is not reported: inside a word it ends the word, between
  words it is the end of the stream (`ReadFails`), and a later call goes on
  behind it;
- after an error `Decode` goes on at the refused token, in the middle of the
  value (`RefusesToken`); `InputOffset` counts a token that `More` has left, which
  `Buffered` returns too;
- each call of `Indent` adds a line to a text that ends in a line comment (`Laid`);
  `HTMLEscape` breaks a string that goes on in the next line behind a line
  separator (`QuotedReadBack` speaks of strict literals);
- a pointer field with the `string` option is written without quotes and read
  only with them (`QuotesPointers`; encoder.go:292, unmarshal.go:291); a bool
  takes the numbers 0 and 1 (`ParseBool`); a `Number` without text cannot be
  written (`encodeValue`).

The passing runs leave 1 and the names that are not UTF-8 out by their
instances: handles are those of values (`HandleKind` is empty), and every name
survives encoding. Bodies
that end their comment early are in `document_json5`, which says from when to when nothing is
promised. Foreign
documents with nothing behind their value, and whitespace that may hold
comments, are the normal case in `Document`.

## 7. Not modelled

- The digits of numbers: conversion of literals to integers and floats of a
  width, and back, are tables of the instance (`IntOf`, `FloatOf`); base64.
- Types with methods of their own but for `RawMessage` and `Number`: what a
  `MarshalJSON`, `UnmarshalText` or `IsZero` does is the caller's code. What a
  `Marshaler` returns to an edit is in `Document`.
- Reflection: kinds, not Go's type system; named pointer types; aliasing of the
  bytes of a `RawMessage`.
- Invalid UTF-8 in the lexer, and letters and digits beyond ASCII.
- Prefixes and depths of indented output of `Encode`; prefixes of `Indent`.
- Iterators that are running while the tree is edited (section 2, 10).
- Errors and messages are text; which error a call returns is in the actions.
