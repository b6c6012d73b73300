------------------------------ MODULE Response ------------------------------
(***************************************************************************)
(* apitest/response.go: what the assertions of a Response hold to be true  *)
(* of an outcome.  It keeps no state.                                      *)
(*                                                                         *)
(* A JSON value is nil, a scalar [kind, text], an object [kind, text,     *)
(* fields] or an array [kind, text, items]; text is what %v prints of it,  *)
(* so that values of other kinds may have the same.  A body is [text,      *)
(* words, json]: itself, what it contains besides the empty text, and the  *)
(* value it reads as, if it is JSON.                                       *)
(***************************************************************************)
EXTENDS Executor, Sequences

Nil == [kind |-> "nil", text |-> "<nil>"]
NoBody == [text |-> "", words |-> {}, json |-> <<>>]

PathParts == [by : {"name"}, name : STRING] \cup [by : {"index"}, index : Int]

MemberFromOne(value, part) ==
  CASE value.kind = "object" /\ part.by = "name" /\ part.name \in DOMAIN value.fields ->
         value.fields[part.name]
    [] value.kind = "array" /\ part.by = "index" /\ part.index \in 1 .. Len(value.items) ->
         value.items[part.index]
    [] OTHER -> Nil

\* getPath: one name or index after the other; what leads nowhere is nil.
Member(value, part) ==
  CASE value.kind = "object" /\ part.by = "name" /\ part.name \in DOMAIN value.fields ->
         value.fields[part.name]
    [] value.kind = "array" /\ part.by = "index" /\ part.index \in 0 .. Len(value.items) - 1 ->
         value.items[part.index + 1]
    [] OTHER -> Nil

GetPath(value, path) ==
  LET at[n \in 0 .. Len(path)] == IF n = 0 THEN value ELSE Member(at[n - 1], path[n])
  IN  at[Len(path)]

\* The whole of a body that is not JSON is its text, any part of it nil.
JSON(body, path) ==
  IF body.json # <<>> THEN GetPath(body.json[1], path)
  ELSE IF path = <<>> THEN [kind |-> "string", text |-> body.text] ELSE Nil

\* ExpectJSON compares what is printed; values that are the same JSON print alike,
\* so that its second comparison lets no more pass.
Printed(value) == value.text

\* ExpectStatus: no class is all of 2xx, junk fails the test by itself.
StatusWanted(o, want) ==
  /\ ~o.error
  /\ CASE want.form = "default" -> o.status \div 100 = 2
       [] want.form = "class"   -> o.status \div 100 = want.n
       [] want.form = "exact"   -> o.status = want.n
       [] OTHER                 -> FALSE

\* Whether an assertion lets the test go on.
Holds(o, body, a) ==
  CASE a.check = "status"   -> StatusWanted(o, a.want)
    [] a.check = "contains" -> a.want = "" \/ a.want \in body.words
    [] a.check = "json"     -> Printed(JSON(body, a.path)) = Printed(a.want)
    [] a.check = "capture"  -> JSON(body, a.path) # Nil
    [] a.check = "decode"   -> body.json # <<>>
    [] a.check = "no error" -> ~o.error
=============================================================================
