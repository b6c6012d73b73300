------------------------------ MODULE Catalog -------------------------------
(***************************************************************************)
(* openapi/parser.go and openapi/find.go: the catalog of a document, and   *)
(* which of its operations a reference means.                              *)
(*                                                                         *)
(* A path is the sequence of its segments, without the slashes             *)
(* normalizePath and splitPath take away.  A segment {name} is a           *)
(* parameter, in a template and in what a user types alike; any other is   *)
(* taken literally, even where it holds names in braces.  Upper and lower  *)
(* case of methods and operation ids are not told apart.                   *)
(*                                                                         *)
(* A document is [valid, security, schemas, paths]: whether it can be      *)
(* loaded, how many requirements it states for all operations, its         *)
(* schemas, and its path items in the order of their names.  A path item   *)
(* is [path, params, ops], ops a function from methods to operations       *)
(* [opID, summary, tags, security, params, body].  A body is what is said  *)
(* of each content type, of which one at most is not JSON: which of        *)
(* several is taken is left to the order of a Go map.  Of a parameter and  *)
(* of a content type that is its schema, its example, and its examples in  *)
(* the order of their names.                                               *)
(***************************************************************************)
EXTENDS Schema

\* In the order of the alphabet, as the catalog is sorted.
MethodOrder == <<"DELETE", "GET", "HEAD", "OPTIONS", "PATCH", "POST", "PUT">>
Methods == IdsIn(MethodOrder)
TagOrder == <<"accounts", "orgs", "untagged", "users">>

\* Where a sequence has an element first, or else its end; and the numbers of a
\* finite set in ascending order.
PositionIn(seq, x) == Min({k \in DOMAIN seq : seq[k] = x} \cup {Len(seq) + 1})
Ascending[S \in SUBSET Nat] ==
  [n \in 1 .. Cardinality(S) |-> CHOOSE i \in S : Cardinality({j \in S : j < i}) = n - 1]

LitWith(text, holes) == [param |-> FALSE, text |-> text, holes |-> holes]
Lit(text) == LitWith(text, {})
Param(name) == [param |-> TRUE, text |-> name]
NoParams == <<>>

\* What the loader of the documents hands over: schemas, and path items with their
\* operations.
Segments == [param : {TRUE}, text : STRING]
              \cup [param : {FALSE}, text : STRING, holes : SUBSET STRING]
IsDocument(doc) ==
  /\ IsSchemas(doc.schemas)
  /\ DOMAIN doc.paths = 1 .. Len(doc.paths)
  /\ \A item \in IdsIn(doc.paths) :
       /\ item.path \in Seq(Segments) /\ item.params \in Seq(IdsIn(item.params))
       /\ DOMAIN item.ops \subseteq Methods
       /\ \A method \in DOMAIN item.ops : LET op == item.ops[method] IN
            /\ op.params \in Seq(IdsIn(op.params))
            /\ op.body # Missing =>
                 \A type \in DOMAIN op.body[1] : LET ref == op.body[1][type].schema IN
                   ref = Missing \/ \E i \in DOMAIN doc.schemas : ref = <<i>>

Inherited == -1    \* op.Security is nil

\* An empty list says the operation is public, a missing one says nothing.
RequiresAuth(doc, op) ==
  IF op.security = Inherited THEN doc.security > 0 ELSE op.security > 0

\* viewFromRef, of a schema or of none; and of several examples the one whose name
\* comes first, which may be none.
ViewOf(schemas, ref) == [i \in DOMAIN ref |-> View(schemas, ref[i])]
ExampleFromMap(examples) == IF examples = <<>> THEN Missing ELSE examples[1]

\* collectParams: those of the path item, then those of the operation; what has
\* the name and the place of an earlier one is left out, and a parameter in the
\* path is required whatever it says.
SeenAll(params) == DOMAIN params
Seen(params) ==
  {i \in DOMAIN params : \A k \in 1 .. i - 1 : \/ params[k].in # params[i].in
                                              \/ params[k].name # params[i].name}
SchemaExample(doc, ref) == IF ref = Missing THEN Missing ELSE doc.schemas[ref[1]].example
CollectParams(doc, params) ==
  LET kept == Ascending[Seen(params)] IN
  [n \in DOMAIN kept |->
     LET p == params[kept[n]] IN
     [in |-> p.in, name |-> p.name, required |-> p.required \/ p.in = "path",
      schema |-> ViewOf(doc.schemas, p.schema),
      example |-> First(<<p.example, ExampleFromMap(p.examples),
                          SchemaExample(doc, p.schema)>>)]]

\* preferredMedia
PreferredMedia(media) ==
  IF "json" \in DOMAIN media THEN "json"
  ELSE IF "problem" \in DOMAIN media THEN "problem"
  ELSE CHOOSE type \in DOMAIN media : TRUE

\* collectRequestBody: an example of the content type, or else of its schema.
RequestBody(doc, body) ==
  IF body = Missing THEN Missing
  ELSE IF DOMAIN body[1] = {} THEN <<[type |-> "", schema |-> Missing, example |-> Missing]>>
  ELSE LET type == PreferredMedia(body[1])
           media == body[1][type]
           view == ViewOf(doc.schemas, media.schema)
           made == IF view = Missing THEN Missing ELSE view[1].sample
       IN  <<[type |-> type, schema |-> view,
              example |-> First(<<media.example, ExampleFromMap(media.examples), made>>)]>>

\* endpointFrom
Endpoint(doc, o) ==
  LET item == doc.paths[o[1]]
      op == item.ops[o[2]]
  IN  [method |-> o[2], path |-> item.path, opID |-> op.opID, summary |-> op.summary,
       tags |-> IF op.tags = <<>> THEN <<"untagged">> ELSE op.tags,
       auth |-> RequiresAuth(doc, op),
       params |-> CollectParams(doc, item.params \o op.params),
       body |-> RequestBody(doc, op.body)]

\* catalogFromDoc: every operation, sorted by first tag, path and method.
Operations(doc) ==
  UNION {{<<i, method>> : method \in DOMAIN doc.paths[i].ops} : i \in DOMAIN doc.paths}
FirstTag(op) == IF op.tags = <<>> THEN "untagged" ELSE op.tags[1]
SortKey(doc, o) ==
  LET tag == PositionIn(TagOrder, FirstTag(doc.paths[o[1]].ops[o[2]])) IN
  (tag * (Len(doc.paths) + 1) + o[1]) * (Len(MethodOrder) + 1) + PositionIn(MethodOrder, o[2])
CatalogOf(doc) ==
  LET keys == Ascending[{SortKey(doc, o) : o \in Operations(doc)}]
      endpoint[o \in Operations(doc)] == Endpoint(doc, o)
      with[key \in Nat] == endpoint[CHOOSE o \in Operations(doc) : SortKey(doc, o) = key]
  IN  [n \in DOMAIN keys |-> with[keys[n]]]

\* Filter.  Of a text that is searched for we know the texts and the ids (METHOD
\* path) it is part of; an empty one is Missing, as is an empty tag "".
Matches(ep, tag, search) ==
  /\ tag = "" \/ tag \in IdsIn(ep.tags)
  /\ \A s \in IdsIn(search) :
       \/ <<ep.method, ep.path>> \in s.ids
       \/ ({ep.method, ep.opID, ep.summary} \cup IdsIn(ep.tags)) \cap s.texts # {}
Filter(ops, tag, search) ==
  LET kept == Ascending[{i \in DOMAIN ops : Matches(ops[i], tag, search)}] IN
  [n \in DOMAIN kept |-> ops[kept[n]]]

\* matchTemplate: the parameters, and what the path has in their places; the
\* last place counts for a name that is there twice.
MatchesShape(template, path) ==
  /\ Len(template) = Len(path)
  /\ \E i \in DOMAIN template : template[i].param
MatchesTemplate(template, path) ==
  /\ MatchesShape(template, path)
  /\ \A i \in DOMAIN template : template[i].param \/ template[i] = path[i]

Extracted(template, path) ==
  [name \in {template[i].text : i \in {j \in DOMAIN template : template[j].param}} |->
     path[Max({i \in DOMAIN template : template[i] = Param(name)})]]

Found(op, params) == [ok |-> TRUE, op |-> op, params |-> params]
NotFound == [ok |-> FALSE]

\* The first operation with exactly this path, else the only one whose template
\* the path matches.
LookupMethodPath(ops, method, path) ==
  LET same == {i \in DOMAIN ops : ops[i].method = method}
      exact == {i \in same : ops[i].path = path}
      templated == {i \in same : MatchesTemplate(ops[i].path, path)}
      found == ops[Min(IF exact # {} THEN exact ELSE templated)]
  IN  IF method \notin Methods \/ (exact = {} /\ Cardinality(templated) # 1)
        THEN NotFound
        ELSE Found(found, IF exact # {} THEN NoParams ELSE Extracted(found.path, path))

LookupOperationID(ops, id) ==
  LET found == {i \in DOMAIN ops : ops[i].opID = id} IN
  IF Cardinality(found) = 1 THEN Found(ops[Min(found)], NoParams) ELSE NotFound

\* One argument is an operation id unless it reads METHOD PATH.
Lookup(ops, ref) ==
  IF ref.by = "path" THEN LookupMethodPath(ops, ref.method, ref.path)
                     ELSE LookupOperationID(ops, ref.id)
=============================================================================
