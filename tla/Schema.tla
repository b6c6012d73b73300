------------------------------- MODULE Schema -------------------------------
(***************************************************************************)
(* openapi/schema.go: what the catalog shows of a JSON schema, and the     *)
(* example it proposes.                                                    *)
(*                                                                         *)
(* The schemas of a document are a function from ids (the pointers of the  *)
(* code) to records; anything may refer to anything, itself included.      *)
(* What may be missing is a sequence of at most one.  oneOf stands for     *)
(* oneOf followed by anyOf, of which the first is taken either way.        *)
(* Formats, descriptions and the names of references are left out.         *)
(***************************************************************************)
EXTENDS Integers, Sequences, FiniteSets, FiniteSetsExt

Missing == <<>>
First(options) ==
  LET there == {i \in DOMAIN options : options[i] # Missing} IN
  IF there = {} THEN Missing ELSE options[Min(there)]

\* JSON values: scalars by their type and which one they are, null, and the rest.
Scalar(type, which) == [kind |-> type, which |-> which]
Default(type) == Scalar(type, "default")
Null == [kind |-> "null"]
Object(fields) == [kind |-> "object", fields |-> fields]
Array(item) == [kind |-> "array", item |-> item]

IdsIn(seq) == {seq[i] : i \in DOMAIN seq}

\* Finitely many schemas, that refer to one another.
IsSchemas(schemas) ==
  LET ids == DOMAIN schemas IN
  /\ IsFiniteSet(ids)
  /\ \A id \in ids : LET s == schemas[id] IN
       /\ s.items = Missing \/ \E i \in ids : s.items = <<i>>
       /\ s.allOf \in Seq(ids) /\ s.oneOf \in Seq(ids)
       /\ (\A p \in DOMAIN s.props : s.props[p] \in ids) /\ s.enum \in Seq(IdsIn(s.enum))

\* The properties of the parts on top of a schema's own; of a name that is there
\* twice the last part's counts.
MergedPropsOfParts(schemas, s) ==
  LET last == schemas[s.allOf[Len(s.allOf)]].props IN
  [n \in DOMAIN s.props \cup DOMAIN last |->
     IF n \in DOMAIN last THEN last[n] ELSE s.props[n]]
MergedProps(schemas, s) ==
  LET having(n) == {i \in DOMAIN s.allOf : n \in DOMAIN schemas[s.allOf[i]].props} IN
  [n \in DOMAIN s.props \cup UNION {DOMAIN schemas[p].props : p \in IdsIn(s.allOf)} |->
     IF having(n) = {} THEN s.props[n] ELSE schemas[s.allOf[Max(having(n))]].props[n]]

\* mergeAllOf: of its parts a schema gets the type and the example it has not
\* got, what they require and their properties; neither what the parts compose
\* themselves, nor items and enumerations, its own included.
MergeAllOf(schemas, s) ==
  LET parts == [i \in DOMAIN s.allOf |-> schemas[s.allOf[i]]] IN
  [type |-> First(<<s.type>> \o [i \in DOMAIN parts |-> parts[i].type]),
   example |-> First(<<s.example>> \o [i \in DOMAIN parts |-> parts[i].example]),
   required |-> s.required \cup UNION {parts[i].required : i \in DOMAIN parts},
   props |-> MergedProps(schemas, s), items |-> Missing, enum |-> <<>>]

\* schemaType, and "object" where only properties say so.
TypeOf(s) == IF s.type # Missing THEN s.type[1]
             ELSE IF DOMAIN s.props # {} THEN "object" ELSE ""

\* What is shown where a schema occurs within itself.
Recursive == [type |-> "object", recursive |-> TRUE, required |-> {}, enum |-> <<>>,
              props |-> <<>>, items |-> Missing,
              sample |-> <<Object(<<>>)>>]

\* exampleFromSchemaView, given the views of properties and items.  What has no
\* example itself gets the default of its type there (defaultFor): a string or a
\* number whose enumeration begins with null; anything else is null.
SampleOr(view) ==
  IF view.sample # Missing THEN view.sample[1]
  ELSE IF view.type \in {"string", "integer", "number"} THEN Default(view.type)
  ELSE Null
Enumerated(s) == IF s.enum[1] = Null THEN Missing ELSE <<s.enum[1]>>
Sample(s, props, items) ==
  LET type == TypeOf(s) IN
  CASE s.example # Missing -> s.example
    [] s.example = Missing /\ type \in {"object", ""} ->
         IF type = "" /\ DOMAIN props = {} THEN Missing
         ELSE <<Object([n \in DOMAIN props |-> SampleOr(props[n])])>>
    [] s.example = Missing /\ type = "array" ->
         <<Array(IF items = Missing THEN Null ELSE SampleOr(items[1]))>>
    [] s.example = Missing /\ type \in {"string", "integer", "number"} ->
         IF s.enum = <<>> THEN <<Default(type)>> ELSE Enumerated(s)
    [] s.example = Missing /\ type = "boolean" -> <<Default(type)>>
    [] OTHER -> Missing

\* viewFromSchema: inside is the path of schemas that are being visited, so that
\* an id met again in it is shown as recursive; a schema met beside it is not.
InsideWithSiblings(schemas, visiting, id) ==
  visiting \cup {id} \cup {schemas[id].props[n] : n \in DOMAIN schemas[id].props}
Inside(schemas, visiting, id) == visiting \cup {id}

\* One view, given the views of all places (a schema and what is being visited).
ViewAt(schemas, view, id, visiting) ==
  LET s == schemas[id]
      inside == Inside(schemas, visiting, id)
      shown == IF s.allOf = <<>> THEN s ELSE MergeAllOf(schemas, s)
      props == [n \in DOMAIN shown.props |-> view[<<shown.props[n], inside>>]]
      items == [i \in DOMAIN shown.items |-> view[<<shown.items[i], inside>>]]
  IN  IF id \in visiting THEN Recursive
      ELSE IF s.allOf = <<>> /\ s.oneOf # <<>> THEN view[<<s.oneOf[1], inside>>]
      ELSE [type |-> TypeOf(shown), recursive |-> FALSE,
            required |-> shown.required, enum |-> shown.enum,
            props |-> props, items |-> items,
            sample |-> Sample(shown, props, items)]

ViewIn(schemas) ==
  LET view[place \in (DOMAIN schemas) \X (SUBSET DOMAIN schemas)] ==
        ViewAt(schemas, view, place[1], place[2])
  IN  view
View(schemas, id) == ViewIn(schemas)[<<id, {}>>]
=============================================================================
