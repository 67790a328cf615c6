----------------------------- MODULE JSONValue -----------------------------
(***************************************************************************)
(* What editing a document promises its callers: the document is a JSON    *)
(* value, a call names a place in it, and the call either changes the      *)
(* value there as its name says or is refused for the reason it gives.     *)
(* Text, tokens and handles do not exist here; a handle that is no longer  *)
(* in the document is a path that leads nowhere.                           *)
(***************************************************************************)
EXTENDS JSON

VARIABLES value,    \* the document
          call,     \* the last call with its result; the caller chooses it
          whole     \* whether every comment ends where it was meant to

vars == <<value, call, whole>>

-----------------------------------------------------------------------------
\* A call through a handle into the document.
Answered ==
  /\ Leads(value, call'.path)
  /\ LET v == Along(value, call'.path)[Len(call'.path)]
     IN  /\ call'.result = Result(call', v)
         /\ value' = IF call'.result = "ok" THEN Put(value, call'.path, Effect(call', v)) ELSE value

\* A call through a stale handle never gets through.
Refused == ~Leads(value, call'.path) /\ call'.result # "ok" /\ UNCHANGED value

\* Comments are no part of the value.
Commented == call'.op = "comment" /\ whole' /\ UNCHANGED value

\* Only an accepted body of a comment makes a part of the document of it.
Broken == call'.op = "comment" /\ call'.result = "ok" /\ ~whole'

\* Nothing is promised from then on, until that comment is gone or has another body,
\* but that a refused call changes nothing.
StillBroken == call'.result # "ok" => UNCHANGED value

Init == call.op = "decode" /\ value.type # "invalid" /\ whole = TRUE

Next ==
  IF ~whole THEN StillBroken
  ELSE IF call'.op = "comment" THEN Commented \/ Broken
  ELSE whole' /\ (Answered \/ Refused)

Spec == Init /\ [][Next]_vars
=============================================================================
