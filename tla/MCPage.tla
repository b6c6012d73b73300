------------------------------- MODULE MCPage -------------------------------
(* Parameters in every place and headers of every kind, a body of one field  *)
(* and a body without fields; a history of one; what another page sends is   *)
(* of the second operation, or of one that the page does not have.           *)
EXTENDS Page
Param(in, name) == [in |-> in, name |-> name]
MCOperations ==
  [get |-> [method |-> "GET",
            params |-> {Param("path", "id"), Param("header", "x-trace"),
                        Param("header", "Authorization")},
            body |-> <<>>],
   put |-> [method |-> "PUT",
            params |-> {Param("query", "q"), Param("header", "X-Id")}, body |-> <<{"name"}>>],
   raw |-> [method |-> "POST",
            params |-> {Param("header", "Content-Type")}, body |-> <<{}>>]]
MCCanonical == [n \in {"x-trace", "X-Id", "Authorization", "Content-Type"} |->
                  IF n = "x-trace" THEN "X-Trace" ELSE n]
MCForeign ==
  {[env |-> "prod", ep |-> "put", path |-> <<>>, query |-> [q |-> "v"],
    headers |-> [Authorization |-> MaskText], body |-> NoText],
   [env |-> "prod", ep |-> "patch", path |-> <<>>, query |-> [q |-> "v"],
    headers |-> <<>>, body |-> Typed]}
=============================================================================
