----------------------------- MODULE MCApiTest ------------------------------
(* Clients with any options, with and without a document, and three tests:   *)
(* an operation by its id, a method and a path without slash, which a client *)
(* with a document takes for an operation id, and a path of an operation     *)
(* without auth.  Answers with two JSON bodies, one short of an item.        *)
EXTENDS ApiTest
CONSTANTS c1, c2, p1
MCCalls == {c1, c2, p1}

Op(id, security) == [opID |-> id, summary |-> "", tags |-> <<>>, security |-> security,
                     params |-> <<>>, body |-> <<>>]
Users == <<Lit("users")>>
UserById == <<Lit("users"), Param("id")>>
MCDoc == [valid |-> TRUE, security |-> 1, schemas |-> <<>>,
          paths |-> << [path |-> Users, params |-> <<>>,
                        ops |-> [GET |-> Op("list", 0), POST |-> Op("create", 1)]],
                       [path |-> UserById, params |-> <<>>, ops |-> [GET |-> Op("get", -1)]] >>]

Ask(byID, method, path, checks) ==
  [byID |-> byID, method |-> method, path |-> path, slash |-> TRUE, plain |-> FALSE,
   noAuth |-> FALSE, header |-> TRUE, readable |-> TRUE, checks |-> checks]
Plainly(ask) == [ask EXCEPT !.slash = FALSE, !.plain = TRUE, !.header = FALSE]

Text(text) == [kind |-> "string", text |-> text]
Number(text) == [kind |-> "number", text |-> text]
ObjectOf(text, fields) == [kind |-> "object", text |-> text, fields |-> fields]
ArrayOf(text, items) == [kind |-> "array", text |-> text, items |-> items]
Name(name) == [by |-> "name", name |-> name]
Index(n) == [by |-> "index", index |-> n]
IdOf(n) == <<Name("items"), Index(n), Name("id")>>

Status(form, n) == [check |-> "status", want |-> [form |-> form, n |-> n]]
Contains(want) == [check |-> "contains", want |-> want]
ExpectJSON(path, want) == [check |-> "json", path |-> path, want |-> want]
MCAsks ==
  [c \in MCCalls |->
     CASE c = c1 -> Ask(TRUE, "create", <<>>,
                        <<Status("exact", 201), [check |-> "capture", path |-> IdOf(0)]>>)
       [] c = c2 -> Plainly(Ask(FALSE, "get", <<Lit("one")>>,
                                <<ExpectJSON(<<Name("gone")>>, Nil), ExpectJSON(<<Name("n")>>, Text("3")),
                                  ExpectJSON(IdOf(1), Text("u2"))>>))
       [] c = p1 -> Ask(FALSE, "GET", Users, <<Contains(""), Status("default", 0), Contains("u2")>>)]

Item(id, text) == ObjectOf(text, [id |-> Text(id)])
Item1 == Item("u1", "map[id:u1]")
Item2 == Item("u2", "map[id:u2]")
Body(n, ids, items) ==
  [text |-> "{}", words |-> ids,
   json |-> <<ObjectOf("map[]", [n |-> n, items |-> ArrayOf("[]", items)])>>]
MCAnswers ==
  {[status |-> 201, body |-> Body(Number("3"), {"u1", "u2"}, <<Item1, Item2>>)],
   [status |-> 201, body |-> Body(Text("3"), {"u2"}, <<Item2>>)],
   [status |-> 304, body |-> NoBody]}

Client(noAuth, hasJWT, cognito) == [noAuth |-> noAuth, jwt |-> hasJWT, cognito |-> cognito]
Setup(k, spec, valid, parallel) ==
  [noAuth |-> k.noAuth, jwt |-> k.jwt, cognito |-> k.cognito, spec |-> spec, valid |-> valid,
   parallel |-> parallel]
MCClients == {Client(TRUE, TRUE, "valid"), Client(FALSE, TRUE, "valid"),
              Client(FALSE, FALSE, "nil"), Client(FALSE, FALSE, "invalid"),
              Client(FALSE, FALSE, "valid")}
MCSetups == {Setup(k, spec, valid, parallel) :
               k \in MCClients, spec \in {<<>>, <<CatalogOf(MCDoc)>>},
               valid \in BOOLEAN, parallel \in BOOLEAN}
=============================================================================
