--------------------------- MODULE DocumentClaims ---------------------------
(***************************************************************************)
(* What the package's documentation says of edits and json/meta.go does    *)
(* not do.  Each definition quotes the text it states; MCDocument has a    *)
(* small instance for each in which the code departs from it.              *)
(***************************************************************************)
EXTENDS Document

(***************************************************************************)
(* "Children() []Node returns wrapper nodes for child entries"             *)
(* (json/README.md:151): everything that reads a container takes its       *)
(* children apart as wrappers, so no call may leave another node there.    *)
(***************************************************************************)
ChildrenAreWrappers ==
  \A n \in Attached :
    /\ Is(n, "object") => \A i \in 1 .. Size(n) : Is(Child(n, i), "field")
    /\ Is(n, "array") => \A i \in 1 .. Size(n) : Is(Child(n, i), "element")

(***************************************************************************)
(* "decoded, inspected, edited, patched, and written back"                 *)
(* (json/README.md:4): when every edit was accepted, the document can      *)
(* still be written.                                                       *)
(***************************************************************************)
CanBeWritten == value # Invalid
=============================================================================
