------------------------------- MODULE Views --------------------------------
(***************************************************************************)
(* What is right of a view and of an example openapi/schema.go makes of a  *)
(* schema: it shows what the document says, and the example fits.          *)
(***************************************************************************)
EXTENDS Schema

\* The schemas a schema refers to, those it reaches by that, and those it is
\* composed of, itself among them.
References(s) == {s.props[p] : p \in DOMAIN s.props}
                   \cup IdsIn(s.items) \cup IdsIn(s.allOf) \cup IdsIn(s.oneOf)
Reached(schemas, ids) ==
  {i \in DOMAIN schemas : \A closed \in SUBSET DOMAIN schemas :
     ids \subseteq closed /\ (\A j \in closed : References(schemas[j]) \subseteq closed)
       => i \in closed}
Composed(schemas, id) ==
  {i \in DOMAIN schemas : \A closed \in SUBSET DOMAIN schemas :
     id \in closed /\ (\A j \in closed : IdsIn(schemas[j].allOf) \subseteq closed)
       => i \in closed}
Cyclic(schemas, id) ==
  \E i \in Reached(schemas, {id}) : i \in Reached(schemas, References(schemas[i]))

\* The views within a view, to a depth; none is deeper than there are schemas.
Parts(view) == {view.props[p] : p \in DOMAIN view.props} \cup IdsIn(view.items)
Within(view, depth) ==
  LET within[n \in 0 .. depth] ==
        IF n = 0 THEN {view}
        ELSE LET before == within[n - 1] IN before \cup UNION {Parts(v) : v \in before}
  IN  within[depth]

\* What is shown of a schema is what the document says of it: never a
\* property that neither the schema nor a part of it declares, all of them
\* unless a part is composed itself (mergeAllOf goes one level deep), and
\* "recursive" nowhere but where a schema does come back to itself; two places
\* that share a schema show it both.
Faithful(schemas, id, view) ==
  LET s == schemas[id]
      declared == UNION {DOMAIN schemas[i].props : i \in Composed(schemas, id)}
  IN  /\ (\E v \in Within(view, Cardinality(DOMAIN schemas) + 1) : v.recursive)
           => Cyclic(schemas, id)
      /\ s.allOf # <<>> \/ s.oneOf = <<>> =>
           /\ ~view.recursive
           /\ DOMAIN view.props \subseteq declared
           /\ (\A i \in IdsIn(s.allOf) : schemas[i].allOf = <<>>) => DOMAIN view.props = declared
-----------------------------------------------------------------------------
\* A value is of the type of a schema, has what it requires, is one it enumerates.
Conforms(v, s) ==
  /\ s.type # Missing => v.kind = s.type[1]
  /\ v.kind = "object" => s.required \subseteq DOMAIN v.fields
  /\ s.enum # <<>> => v \in IdsIn(s.enum)

\* A schema and what is merged into it; its items, its alternatives and the
\* properties of both, whose views may be within its view; and all the views
\* that its own is made of.
Merged(schemas, id) == {id} \cup IdsIn(schemas[id].allOf)
PropsOf(schemas, id) == DOMAIN schemas[id].props
Shows(schemas, id) ==
  IdsIn(schemas[id].items) \cup IdsIn(schemas[id].oneOf)
    \cup UNION {{schemas[i].props[p] : p \in PropsOf(schemas, i)} : i \in Merged(schemas, id)}
Made(schemas, id) ==
  {i \in DOMAIN schemas : \A closed \in SUBSET DOMAIN schemas :
     id \in closed /\ (\A j \in closed : Shows(schemas, j) \subseteq closed) => i \in closed}

\* A schema the views can follow: it does not come back to itself; its types are
\* JSON's; only strings and numbers are enumerated, and by values of their type;
\* examples are given for scalars only, and fit them; a oneOf stands alone; what
\* is composed is composed of plain objects that share no property; and what is
\* required somewhere is declared there, by the schema or by what is composed
\* into it.
JSONTypes == {"object", "array", "string", "integer", "number", "boolean", "null"}
Plain(s) == s.allOf = <<>> /\ s.oneOf = <<>>
Ordinary(s) ==
  /\ s.type = Missing \/ s.type[1] \in JSONTypes
  /\ s.enum # <<>> => /\ s.type # Missing /\ s.type[1] \in {"string", "integer", "number"}
                      /\ \A v \in IdsIn(s.enum) : v.kind = s.type[1]
  /\ s.example # Missing => /\ s.example[1].kind \notin {"object", "array"}
                            /\ Conforms(s.example[1], s)
  /\ s.oneOf # <<>> /\ s.allOf = <<>> =>
       s.type = Missing /\ DOMAIN s.props = {} /\ s.items = Missing
Followed(schemas, id) ==
  /\ ~Cyclic(schemas, id)
  /\ \A i \in Reached(schemas, {id}) :
       /\ Ordinary(schemas[i])
       /\ schemas[i].allOf # <<>> =>
            LET all == {i} \cup IdsIn(schemas[i].allOf) IN
            \A j \in all : LET part == schemas[j] IN
              /\ j = i \/ Plain(part)
              /\ part.oneOf = <<>> /\ part.items = Missing /\ part.enum = <<>>
              /\ part.type \in {Missing, <<"object">>} /\ part.example = Missing
              /\ \A k \in all \ {j} : DOMAIN part.props \cap DOMAIN schemas[k].props = {}
  /\ \A i \in Made(schemas, id) :
       UNION {schemas[j].required : j \in Merged(schemas, i)}
         \subseteq UNION {PropsOf(schemas, j) : j \in Merged(schemas, i)}

\* The claims a claim that a value fits a schema consists of, to a depth.
Claims(schemas, c) ==
  LET v == c.value
      s == schemas[c.id]
  IN  {[value |-> v, id |-> i] : i \in IdsIn(s.allOf) \cup {s.oneOf[k] : k \in DOMAIN s.oneOf \cap {1}}}
      \cup (IF v.kind # "object" THEN {}
            ELSE {[value |-> v.fields[p], id |-> s.props[p]] :
                    p \in DOMAIN v.fields \cap DOMAIN s.props})
      \cup (IF v.kind # "array" THEN {}
            ELSE {[value |-> v.item, id |-> i] : i \in IdsIn(s.items)})
AllClaims(schemas, c, depth) ==
  LET claims[n \in 0 .. depth] ==
        IF n = 0 THEN {c}
        ELSE LET before == claims[n - 1] IN
             before \cup UNION {Claims(schemas, x) : x \in before}
  IN  claims[depth]

\* An example that is proposed fits its schema to the last part: types,
\* enumerations, and every property that is required is there.
Proposable(schemas, id, example) ==
  Followed(schemas, id) /\ example # Missing =>
    \A c \in AllClaims(schemas, [value |-> example[1], id |-> id],
                      2 * Cardinality(DOMAIN schemas)) :
      Conforms(c.value, schemas[c.id])
=============================================================================
