------------------------------- MODULE MCCli --------------------------------
(* Families of commands.  call: what is called (every kind of reference,     *)
(* over a document with overlapping templates), where and as whom (files,    *)
(* process environment and flags that override one another, a default that   *)
(* is production or not configured), and what is expected of the answer.     *)
(* jwt: the same configurations, and a credentials file instead of them.     *)
(* ui: the configurations, until the server is there.                        *)
(* ls: every small graph of three schemas, what else a document says of a    *)
(* body, and parameters declared twice.                                      *)
EXTENDS Cli

Op(id, security) ==
  [opID |-> id, summary |-> "", tags |-> <<"users">>, security |-> security,
   params |-> <<>>, body |-> Missing]
Item(path, ops) == [path |-> path, params |-> <<>>, ops |-> ops]
OrgUsers == <<Lit("orgs"), Param("org"), Lit("users")>>
Users == <<Lit("users"), Param("id")>>
Me == <<Lit("users"), Lit("me")>>
Links == <<Lit("links"), Param("id"), Param("id")>>
Versions == <<LitWith("v{id}", {"id"}), Param("id")>>
MCPaths ==
  << Item(Links, [GET |-> Op("getLink", 0)]),
     Item(<<Lit("login")>>, [POST |-> Op("login", 0)]),
     Item(<<Lit("orgs"), Lit("acme"), Param("kind")>>, [GET |-> Op("ofAcme", 1)]),
     Item(OrgUsers, [GET |-> Op("same", Inherited)]),
     Item(Me, [GET |-> Op("getMe", Inherited)]),
     Item(Users, [GET |-> Op("getUser", Inherited), PUT |-> Op("same", 2)]),
     Item(Versions, [DELETE |-> Op("dropVersion", 0)]) >>
MCDoc == [valid |-> TRUE, security |-> 1, schemas |-> <<>>, paths |-> MCPaths]
Tagged(tags) == [Op("login", 0) EXCEPT !.tags = tags]
Other == [MCDoc EXCEPT !.security = 0,
            !.paths = << Item(<<Lit("login")>>, [POST |-> Tagged(<<"accounts", "users">>)]),
                         Item(Me, [GET |-> Op("getUser", 1), PUT |-> Tagged(<<>>)]) >>]
MCDocs == [openapi |-> MCDoc, other |-> Other, broken |-> [valid |-> FALSE]]

ByPath(method, path) == [by |-> "path", method |-> method, path |-> path]
ByID(id) == [by |-> "id", id |-> id]
MCRefs ==
  { ByPath("GET", Me), ByPath("PUT", Me),
    ByPath("GET", <<Lit("users"), Lit("u7")>>), ByPath("GET", Users),
    ByPath("GET", <<Lit("orgs"), Lit("u7")>>), ByPath("POST", <<Lit("login")>>),
    ByPath("GET", <<Lit("orgs"), Lit("acme"), Lit("users")>>),
    ByPath("GET", <<Lit("orgs"), Lit("u7"), Lit("users")>>),
    ByPath("FETCH", Users), ByPath("GET", Links),
    ByPath("GET", <<Lit("links"), Lit("u7"), Lit("u9")>>),
    ByPath("DELETE", <<Versions[1], Lit("u7")>>), ByPath("DELETE", <<Lit("v7"), Lit("u7")>>),
    ByID("getUser"), ByID("login"), ByID("same"), ByID("missing") }

Environment(id, production, pool) ==
  [id |-> id, base |-> id, production |-> production, pool |-> pool,
   client |-> IF pool = Empty THEN Empty ELSE id, flow |-> Empty]
Yaml(default, envs) == [valid |-> TRUE, default |-> default, spec |-> Empty, envs |-> envs]
Prod == Environment("prod", TRUE, "prodpool")
Usual == Yaml("dev", <<Environment("dev", FALSE, Empty), Prod>>)
MCYamls ==
  { Usual,
    Yaml(Empty, <<Environment("staging", FALSE, "stagingpool"), Prod>>),
    Yaml("prod", <<Prod, Environment("dev", FALSE, "devpool")>>),
    Yaml(Empty, <<>>) }
Credentials(present, valid) ==
  [present |-> present, valid |-> valid, pool |-> "filepool", client |-> "fileclient",
   flow |-> Empty, username |-> "user", password |-> Padded]
MCFiles == {Credentials(TRUE, TRUE), Credentials(TRUE, FALSE), Credentials(FALSE, TRUE)}
NoOS == [default |-> Empty, spec |-> Empty, base |-> Empty, pool |-> Empty,
         client |-> Empty, flow |-> Empty, username |-> Empty, password |-> Empty]
MCOSs == {NoOS, [NoOS EXCEPT !.default = "prod"],
          [NoOS EXCEPT !.base = "elsewhere", !.pool = "ospool"],
          [NoOS EXCEPT !.username = "osuser", !.password = Password, !.flow = "junk"],
          [NoOS EXCEPT !.username = Blank, !.password = Blank],
          [NoOS EXCEPT !.client = Blank, !.pool = "ospool"]}

Usually == [command |-> "call", argument |-> Missing, tag |-> Empty, search |-> Missing,
           ref |-> ByID("getUser"), env |-> Empty, noAuth |-> FALSE, confirm |-> FALSE,
           client |-> Empty, username |-> Empty, password |-> Empty, header |-> FALSE,
           pathParams |-> [id |-> Lit("u8")], readable |-> TRUE, sendable |-> TRUE,
           json |-> FALSE, expect |-> [form |-> "default", n |-> 0]]
World(docs, yaml, file, os, o) ==
  [docs |-> docs, yaml |-> yaml, file |-> file, os |-> os, opts |-> o]
Here(o) == World(MCDocs, Usual, Credentials(TRUE, TRUE), NoOS, o)

Targets ==
  {Here([Usually EXCEPT !.ref = ref, !.pathParams = params, !.noAuth = noAuth,
                       !.header = header]) :
     ref \in MCRefs, params \in {NoParams, [id |-> Lit("u8")]},
     noAuth \in BOOLEAN, header \in BOOLEAN}
Specs ==
  {World([d \in docs |-> MCDocs[d]], [Usual EXCEPT !.spec = inYaml], Credentials(TRUE, TRUE),
         [NoOS EXCEPT !.spec = inOS], [Usually EXCEPT !.ref = ref]) :
     docs \in SUBSET {"openapi", "other", "broken"}, inYaml \in {Empty, "other", "lost"},
     inOS \in {Empty, "other", "broken", "lost"}, ref \in {ByID("getUser"), ByPath("GET", Me)}}
Logins ==
  {World(MCDocs, yaml, file, os,
         [Usually EXCEPT !.command = command, !.env = env, !.confirm = confirm,
                        !.client = flags[1], !.password = flags[2]]) :
     command \in {"call", "jwt"}, yaml \in MCYamls, file \in MCFiles, os \in MCOSs,
     env \in {Empty, "dev", "prod", "staging"}, confirm \in BOOLEAN,
     flags \in {<<Empty, Empty>>, <<"flagclient", Padded>>, <<Blank, Blank>>}}
Serving ==
  {World(MCDocs, yaml, file, os, [Usually EXCEPT !.command = "ui"]) :
     yaml \in MCYamls, file \in MCFiles, os \in MCOSs}
FromFile ==
  {Here([Usually EXCEPT !.command = "jwt", !.argument = <<file>>, !.env = env, !.json = json,
                       !.username = username, !.password = password]) :
     file \in MCFiles \cup {[Credentials(TRUE, TRUE) EXCEPT !.pool = Blank]},
     env \in {Empty, "staging"}, json \in BOOLEAN,
     username \in {Empty, Blank, "flaguser"}, password \in {Empty, Blank, Padded}}
Expected ==
  {Here([Usually EXCEPT !.expect = [form |-> form, n |-> n], !.json = json,
                       !.readable = readable, !.sendable = sendable]) :
     form \in {"default", "class", "exact", "junk"}, n \in {2, 4, 200, 404},
     json \in BOOLEAN, readable \in BOOLEAN, sendable \in BOOLEAN}
-----------------------------------------------------------------------------
Ls(doc, tag, search) ==
  World([openapi |-> doc], Usual, Credentials(FALSE, TRUE), NoOS,
        [Usually EXCEPT !.command = "ls", !.json = TRUE, !.tag = tag, !.search = search])
Filtered == {[Ls(Other, tag, search) EXCEPT !.opts.json = FALSE] :
               tag \in {Empty, "users", "untagged"},
               search \in {Missing, <<[texts |-> {"PUT"}, ids |-> {<<"PUT", Me>>}]>>,
                          <<[texts |-> {"getUser"}, ids |-> {<<"POST", <<Lit("login")>>>>}]>>}}

\* Schemas: a scalar, an array, an object, and what is composed of others.
Bare == [type |-> Missing, example |-> Missing, required |-> {}, props |-> <<>>,
         items |-> Missing, enum |-> <<>>, allOf |-> <<>>, oneOf |-> <<>>]
Scalars == {[Bare EXCEPT !.type = <<"string">>],
            [Bare EXCEPT !.type = <<"null">>],
            [Bare EXCEPT !.type = <<"string">>, !.enum = <<Scalar("string", "on")>>],
            [Bare EXCEPT !.type = <<"integer">>, !.example = <<Scalar("integer", "given")>>]}
Objects(ids) ==
  {[Bare EXCEPT !.props = props, !.required = {"n"}] :
     props \in [{"n"} -> ids] \cup [{"n", "m"} -> ids]}
Composites(ids) ==
  {[Bare EXCEPT !.allOf = <<i, j>>, !.props = props] :
     i \in ids, j \in ids, props \in {<<>>, [m |-> "c"]}}
  \cup {[Bare EXCEPT !.oneOf = <<i, j>>] : i \in ids, j \in {"c"}}
  \cup {[Bare EXCEPT !.type = <<"array">>, !.items = <<i>>] : i \in ids}
Ids == {"a", "b", "c"}
SchemaGraphs ==
  {[a |-> a, b |-> b, c |-> c] :
     a \in Objects({"b", "c"}) \cup Composites(Ids),
     b \in {Bare} \cup Scalars \cup Objects({"a", "c"}) \cup Composites({"c"}),
     c \in {Bare, [Bare EXCEPT !.required = {"n"}],
            [Bare EXCEPT !.props = [k |-> "b"], !.required = {"k"}],
            [Bare EXCEPT !.type = <<"integer">>, !.enum = <<Null, Scalar("integer", "one")>>]}
           \cup Scalars}
\* One part of a schema requires what another one declares.
Siblings ==
  {[a |-> [Bare EXCEPT !.allOf = <<"b", "c">>, !.required = own],
    b |-> [Bare EXCEPT !.props = [n |-> "d"]],
    c |-> [Bare EXCEPT !.required = {"n"}, !.props = more],
    d |-> [Bare EXCEPT !.type = <<"string">>]] :
     own \in {{}, {"n"}}, more \in {<<>>, [m |-> "d"]}}
MediaType(schema, example, examples) ==
  [schema |-> schema, example |-> example, examples |-> examples]
Of(id) == MediaType(<<id>>, Missing, <<>>)
BodyOp(content) == [Op("body", 0) EXCEPT !.body = <<content>>]
Shown(schemas) ==
  [MCDoc EXCEPT !.schemas = schemas,
     !.paths = << Item(Users, [PATCH |-> BodyOp([json |-> Of("a")]),
                               POST |-> BodyOp([json |-> Of("b")]),
                               PUT |-> BodyOp([problem |-> Of("c"), text |-> Of("a")])]) >>]
Leaf == [a |-> [Bare EXCEPT !.type = <<"string">>],
         b |-> [Bare EXCEPT !.type = <<"integer">>, !.example = <<Scalar("integer", "given")>>]]
Told == Scalar("string", "told")
WithBody(media) ==
  [MCDoc EXCEPT !.schemas = Leaf,
     !.paths = << Item(Users, [PATCH |-> BodyOp(<<>>), POST |-> BodyOp([text |-> media]),
                               PUT |-> BodyOp([json |-> media, text |-> Of("a")])]) >>]
Bodies ==
  {WithBody(MediaType(schema, example, examples)) :
     schema \in {Missing, <<"a">>, <<"b">>}, example \in {Missing, <<Told>>},
     examples \in {<<>>, <<Missing, <<Told>>>>, << <<Scalar("string", "first")>>, <<Told>> >>}}
Parameter(in, name, required, schema) ==
  [in |-> in, name |-> name, required |-> required, schema |-> schema,
   example |-> Missing, examples |-> << <<Told>> >>]
MCParams == {<<>>} \cup
  {<<Parameter(in, name, required, <<"a">>)>> :
     in \in {"path", "header"}, name \in {"id", "trace"}, required \in BOOLEAN}
  \cup {<<Parameter("path", "id", FALSE, <<"b">>), Parameter("query", "id", FALSE, Missing),
          Parameter("path", "id", TRUE, <<"a">>)>>}
WithParams(ofItem, ofOp) ==
  [MCDoc EXCEPT !.schemas = Leaf,
     !.paths = << [path |-> Users, params |-> ofItem,
                   ops |-> [GET |-> [Op("getUser", 1) EXCEPT !.params = ofOp],
                            PUT |-> Op("putUser", 1)]] >>]

MCListed == {Shown(schemas) : schemas \in SchemaGraphs \cup Siblings} \cup Bodies
              \cup {WithParams(ofItem, ofOp) : ofItem \in MCParams, ofOp \in MCParams}
MCDocuments == {MCDocs[d] : d \in DOMAIN MCDocs} \cup MCListed

MCWorlds ==
  Targets \cup Specs \cup Logins \cup Serving \cup FromFile \cup Expected \cup Filtered
    \cup {Ls(doc, Empty, Missing) : doc \in MCListed}
MCStatuses == {200, 304, 404, 503}
=============================================================================
