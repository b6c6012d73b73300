-------------------------------- MODULE Cli ---------------------------------
(***************************************************************************)
(* cli/: one run of `apismith call`, `jwt`, `ls` or `ui`, from the files   *)
(* and flags to the exit code.                                             *)
(*                                                                         *)
(* A command is one goroutine; what is open is everything it is given      *)
(* (world) and what Cognito and the backend do.  A login is made with      *)
(* context.Background and may take for ever; the HTTP client gives up      *)
(* after 30 s.                                                             *)
(***************************************************************************)
EXTENDS Executor, Catalog, Views, EnvConfig

CONSTANTS Documents,   \* OpenAPI documents
          Worlds,      \* what a command may find: [docs, yaml, file, os, opts]
          Statuses,    \* the HTTP statuses the backend answers with
          NoOutput     \* nothing was executed yet

Environments == [id : STRING, base : STRING, production : BOOLEAN,
                 pool : STRING, client : STRING, flow : STRING]

ASSUME CliAssumption ==
  /\ Statuses \subseteq 100 .. 599
  /\ \A doc \in Documents : doc.valid => IsDocument(doc)
  /\ \A w \in Worlds : /\ w.opts.command \in {"call", "jwt", "ls", "ui"}
                       /\ w.yaml.envs \in Seq(Environments)
                       /\ Empty \notin DOMAIN w.docs
                       /\ \A d \in DOMAIN w.docs : w.docs[d] \in Documents

VARIABLES world,    \* documents by file, other files, process environment and flags
          at,       \* where RunE is
          cfg,      \* rt.cfg
          catalog,  \* rt.catalog.Endpoints
          found,    \* the operation and the parameters of its path
          logins,   \* auxiliary: the configurations Cognito was asked with
          jwt,      \* the access token
          sent,     \* auxiliary: what the backend may have received
          out,      \* the outcome of Execute
          listed,   \* what ls printed
          exit      \* the exit code, -1 before the end

runtime == <<cfg, catalog>>
results == <<logins, jwt, sent, out, listed>>
vars == <<world, at, runtime, found, results, exit>>

opts == world.opts

Init == /\ world \in Worlds
        /\ at = "load"
        /\ cfg = [ok |-> FALSE]
        /\ catalog = <<>>
        /\ found = NotFound
        /\ logins = <<>>
        /\ jwt = Absent
        /\ sent = <<>>
        /\ out = NoOutput
        /\ listed = <<>>
        /\ exit = -1

Catalogs == [doc \in {d \in Documents : d.valid} |-> CatalogOf(doc)]

End(code) == at' = "end" /\ exit' = code
Fail == End(1)
Continue(where) == at' = where /\ exit' = exit
-----------------------------------------------------------------------------
\* A credentials file as argument of jwt replaces everything loadRuntime finds.
GivenFile == opts.command = "jwt" /\ opts.argument # Missing

LoadRuntime ==
  /\ at = "load" /\ ~GivenFile
  /\ cfg' = Load(world.yaml, world.file, world.os, DOMAIN world.docs)
  /\ IF cfg'.ok /\ world.docs[cfg'.spec].valid
       THEN /\ catalog' = Catalogs[world.docs[cfg'.spec]]
            /\ Continue(CASE opts.command = "call" -> "resolve"
                          [] opts.command = "jwt"  -> "login"
                          [] opts.command = "ls"   -> "list"
                          [] OTHER                 -> "serve")
       ELSE catalog' = catalog /\ Fail
  /\ UNCHANGED <<world, found, results>>

LoadCredentials ==
  /\ at = "load" /\ GivenFile
  /\ IF opts.argument[1].present /\ opts.argument[1].valid THEN Continue("login") ELSE Fail
  /\ UNCHANGED <<world, runtime, found, results>>

\* RunUI: the server runs until its listener fails.
ListenFails ==
  /\ at = "serve"
  /\ Fail
  /\ UNCHANGED <<world, runtime, found, results>>

\* newLSCmd; printing may fail with --json.
List ==
  /\ at = "list"
  /\ listed' = Filter(catalog, opts.tag, opts.search)
  /\ \/ End(0)
     \/ opts.json /\ Fail
  /\ UNCHANGED <<world, runtime, found, logins, jwt, sent, out>>

ResolveCall ==
  /\ at = "resolve"
  /\ found' = Lookup(catalog, opts.ref)
  /\ IF found'.ok THEN Continue("input") ELSE Fail
  /\ UNCHANGED <<world, runtime, results>>

EnvID == IF opts.env = Empty THEN cfg.default ELSE opts.env
Env == cfg.envs[Find(cfg.envs, EnvID)]

\* The flags that are key=value lists, and the body.
NeedsToken == found.op.auth /\ ~opts.noAuth
BuildInput ==
  /\ at = "input"
  /\ IF Find(cfg.envs, EnvID) = 0 \/ ~opts.readable
       THEN Fail
       ELSE Continue(IF NeedsToken THEN "login" ELSE "execute")
  /\ UNCHANGED <<world, runtime, found, results>>

\* jwt puts its flags on top once more, and untrimmed.
LoginConfig ==
  LET ofEnv == CognitoConfigFor(cfg, EnvID, opts.client, opts.username, opts.password)
      under == IF GivenFile THEN Normalized(opts.argument[1]) ELSE ofEnv
  IN  IF opts.command = "call" THEN ofEnv
      ELSE [under EXCEPT !.client = Overlay(@, opts.client),
                         !.username = Overlay(@, opts.username),
                         !.password = Overlay(@, opts.password)]

\* cognito.Generate normalises a configuration and refuses an incomplete one.
AskCognito ==
  /\ at = "login"
  /\ IF (GivenFile \/ Find(cfg.envs, EnvID) # 0) /\ ValidConfig(Normalized(LoginConfig))
       THEN Continue("await token") /\ logins' = Append(logins, Normalized(LoginConfig))
       ELSE Fail /\ logins' = logins
  /\ UNCHANGED <<world, runtime, found, jwt, sent, out, listed>>

\* External: Cognito issues a token or refuses, if it answers.
CognitoIssues ==
  /\ at = "await token"
  /\ jwt' = SessionValue(logins[1])
  /\ Continue(IF opts.command = "jwt" THEN "print" ELSE "execute")
  /\ UNCHANGED <<world, runtime, found, logins, sent, out, listed>>
CognitoFailsTo(next) ==
  /\ at = "await token"
  /\ next
  /\ UNCHANGED <<world, runtime, found, results>>
CognitoFailsForNow == CognitoFailsTo(Continue("login"))
CognitoFails == CognitoFailsTo(Fail)

\* The end of jwt: printTokens.
PrintTokens ==
  /\ at = "print"
  /\ \/ End(0)
     \/ opts.json /\ Fail
  /\ UNCHANGED <<world, runtime, found, results>>
-----------------------------------------------------------------------------
Input == [mode |-> IF NeedsToken THEN "jwt" ELSE "none",
          header |-> opts.header, custom |-> FALSE, confirm |-> opts.confirm]

\* A --path flag wins over what the path has in the parameter's place.
PathParams ==
  [name \in DOMAIN opts.pathParams \cup DOMAIN found.params |->
     IF name \in DOMAIN opts.pathParams THEN opts.pathParams[name] ELSE found.params[name]]

\* substitutePath: each name in braces that has a value is replaced by it, in a
\* segment of its own or within one.  The value is escaped, so it is a part of
\* that segment whatever is in it, and what the backend reads there.
Holes(segment) == IF segment.param THEN {segment.text} ELSE segment.holes
URLPath == [i \in DOMAIN found.op.path |->
              LET s == found.op.path[i] IN
              [of |-> s, filled |-> [name \in Holes(s) \cap DOMAIN PathParams |-> PathParams[name]]]]

Execute ==
  /\ at = "execute"
  /\ IF Refused(Input, Env.production) \/ ~opts.sendable
       THEN /\ out' = NotSent
            /\ sent' = sent
            /\ Continue("report")
       ELSE /\ sent' = Append(sent, [env |-> EnvID, base |-> Env.base,
                                     method |-> found.op.method, path |-> URLPath,
                                     auth |-> Authorization(Input, jwt)])
            /\ out' = out
            /\ Continue("await answer")
  /\ UNCHANGED <<world, runtime, found, logins, jwt, listed>>

\* External: the backend answers; the body can be read or not.
BackendAnswers(status) ==
  /\ at = "await answer"
  /\ \/ out' = Answer(sent[1].auth, status)
     \/ out' = Unreadable(sent[1].auth, status)
  /\ Continue("report")
  /\ UNCHANGED <<world, runtime, found, logins, jwt, sent, listed>>

GiveUpNever == /\ at = "await for ever"
               /\ UNCHANGED vars
GiveUp ==
  /\ at = "await answer"
  /\ out' = TransportError(sent[1].auth)
  /\ Continue("report")
  /\ UNCHANGED <<world, runtime, found, logins, jwt, sent, listed>>

\* statusMatches; a class is the first digit of "2xx", junk is no number.
StatusIs(o, expect) ==
  CASE expect.form = "default" -> OK(o)
    [] expect.form = "class"   -> o.status \div 100 = expect.n
    [] expect.form = "exact"   -> o.status = expect.n
    [] OTHER                   -> FALSE
MatchesAnyway(o, expect) == StatusIs(o, expect)
StatusMatches(o, expect) == ~o.error /\ StatusIs(o, expect)

\* The outcome is printed, which may fail with --json, and judged.
Report ==
  /\ at = "report"
  /\ \/ End(IF StatusMatches(out, opts.expect) THEN 0 ELSE 1)
     \/ opts.json /\ Fail
  /\ UNCHANGED <<world, runtime, found, results>>
-----------------------------------------------------------------------------
RunE == LoadRuntime \/ LoadCredentials \/ List \/ ResolveCall \/ BuildInput
          \/ AskCognito \/ PrintTokens \/ Execute \/ GiveUp \/ Report

Next == \/ RunE \/ ListenFails
        \/ CognitoIssues \/ CognitoFails
        \/ \E status \in Statuses : BackendAnswers(status)

Spec == Init /\ [][Next]_vars

\* The command goes on when it can, and its HTTP client gives up in the end;
\* Cognito owes it no answer.
FairSpec == Spec /\ WF_vars(RunE)
-----------------------------------------------------------------------------
Doc == world.docs[cfg.spec]
ItemAt(o) == Doc.paths[o[1]]
OpAt(o) == ItemAt(o).ops[o[2]]

\* The operations of the document that an operation of the catalog may be.
Origins(ep) == {o \in Operations(Doc) : o[2] = ep.method /\ ItemAt(o).path = ep.path}

\* The command ends with an exit code, after one login and one request at most.
TypeOK ==
  /\ at \in {"load", "serve", "list", "resolve", "input", "login", "await token", "print",
             "execute", "await answer", "report", "end"}
  /\ exit \in {-1, 0, 1} /\ (exit = -1 <=> at # "end")
  /\ Len(logins) <= 1 /\ Len(sent) <= 1

\* Exit code 0 of call tells a script that the request was made and answered,
\* that the answer could be read, and that its status is one the caller asked
\* for; of jwt, that there is a token, and of neither that more was done.  ui
\* never ends well.
ZeroMeansExpected ==
  exit = 0 =>
    CASE opts.command = "ls"  -> logins = <<>> /\ sent = <<>>
      [] opts.command = "jwt" -> jwt # Absent /\ sent = <<>>
      [] opts.command = "ui"  -> FALSE
      [] OTHER ->
           /\ Len(sent) = 1
           /\ ~out.error
           /\ LET e == opts.expect IN
              CASE e.form = "exact" -> out.status = e.n
                [] e.form = "class" -> out.status \in 100 * e.n .. 100 * e.n + 99
                [] e.form = "junk"  -> FALSE
                [] OTHER            -> out.status < 400

\* Nothing reaches a production environment without --confirm-production, be it
\* named, the configured default or the one that is left when the default is
\* not configured.
ProductionNeedsConfirm ==
  \A k \in DOMAIN sent :
    world.yaml.envs[Find(world.yaml.envs, sent[k].env)].production => opts.confirm

\* What may set an environment, in the order of precedence: the process
\* environment and the credentials file only the one that is asked for as the
\* default, if environments.yaml has it.
Layers(id) ==
  LET own == world.yaml.envs[Find(world.yaml.envs, id)]
      asked == FirstNonEmpty(<<world.os.default, world.yaml.default, "dev">>)
  IN  IF id # asked THEN <<own>>
      ELSE <<world.os, own>> \o IF world.file.present THEN <<Normalized(world.file)>> ELSE <<>>
FirstGiven(values) ==
  LET given == {i \in DOMAIN values : values[i] # Empty} IN
  IF given = {} THEN Empty ELSE values[Min(given)]

\* A login and a request are of one environment, the one that was asked for: the
\* pool and the client are that environment's own, nothing that is meant for the
\* default leaks into another one, and the token sent is the one minted there.  A
\* setting that is blank counts as given, and only a blank flag is passed over.
\* A public operation, by itself or by --no-auth, costs no login and gets no
\* Authorization, not even one given with --header.
OneEnvironment ==
  /\ \A k \in DOMAIN logins : ~GivenFile =>
       LET layers == Layers(EnvID)
           pools == [i \in DOMAIN layers |-> layers[i].pool]
           clients == [i \in DOMAIN layers |-> layers[i].client]
       IN  /\ logins[k].pool = Trim(FirstGiven(pools))
           /\ logins[k].client = FirstNonEmpty(<<opts.client, FirstGiven(clients)>>)
  /\ \A k \in DOMAIN sent :
       /\ sent[k].env = EnvID
       /\ sent[k].base = IF Len(Layers(EnvID)) > 1 /\ world.os.base # Empty
                           THEN world.os.base
                           ELSE world.yaml.envs[Find(world.yaml.envs, EnvID)].base
       /\ \E o \in Origins(found.op) :
            IF RequiresAuth(Doc, OpAt(o)) /\ ~opts.noAuth
              THEN logins # <<>> /\ sent[k].auth = SessionValue(logins[1])
              ELSE logins = <<>> /\ sent[k].auth = Absent

\* What the backend reads in the place of a parameter.
Received(segment) ==
  LET s == segment.of IN
  IF s.text \in DOMAIN segment.filled THEN segment.filled[s.text] ELSE s

\* What is typed is what is requested: a concrete path, except where --path sets
\* a parameter, and then the value of the flag, with its method, and of an
\* operation of the document that the override names, where that exists.  Of a
\* parameter that a template has twice, the last value that is typed counts; what
\* is in braces within a segment must be typed so, and is what a flag says.
ReachesWhatWasAsked ==
  \A k \in DOMAIN sent :
    LET override == FirstNonEmpty(<<world.os.spec, world.yaml.spec>>) IN
    /\ override \in DOMAIN world.docs =>
         \E item \in IdsIn(world.docs[override].paths) :
           item.path = found.op.path /\ sent[k].method \in DOMAIN item.ops
    /\ opts.ref.by = "path" =>
         /\ sent[k].method = opts.ref.method
         /\ Len(sent[k].path) = Len(opts.ref.path)
         /\ \A i \in DOMAIN sent[k].path :
              LET s == found.op.path[i]
                  last == Max({j \in DOMAIN found.op.path : found.op.path[j] = s})
                  flags == DOMAIN opts.pathParams
              IN  IF s.param
                    THEN Received(sent[k].path[i]) = IF s.text \in flags THEN opts.pathParams[s.text]
                                                                       ELSE opts.ref.path[last]
                    ELSE /\ sent[k].path[i].of = opts.ref.path[i]
                         /\ \A name \in s.holes \cap flags :
                              sent[k].path[i].filled[name] = opts.pathParams[name]

\* Unless Cognito keeps it waiting, or it serves the page, a command ends.
EndsUnlessCognitoHangs ==
  <>(at = "end") \/ <>[](at = "await token") \/ (opts.command = "ui" /\ <>[](at = "serve"))
-----------------------------------------------------------------------------
\* What ls prints of the document's parameters and schemas.

\* Of a parameter that a path item and its operation both declare, an operation
\* is listed with one, the path item's, and with all the others; one in the path
\* is required whatever the document says.  Nothing tells ls, call or the page of
\* the declaration that was left out.
ParametersOnce ==
  \A n \in DOMAIN listed : \E o \in Origins(listed[n]) :
    LET params == IdsIn(listed[n].params)
        declared == IdsIn(ItemAt(o).params)
        own == IdsIn(OpAt(o).params)
        places(ps) == {<<p.in, p.name>> : p \in ps}
    IN  /\ places(params) = places(declared \cup own)
        /\ Len(listed[n].params) = Cardinality(places(params))
        /\ \A p \in params :
             \E d \in declared \cup own :
               /\ <<d.in, d.name>> = <<p.in, p.name>>
               /\ d \in declared \/ <<d.in, d.name>> \notin places(declared)
               /\ p.required = (d.required \/ d.in = "path")

\* The listed operations with a body of some content type, what their document
\* says of it, and the schema and the example that are shown.
HasMedia(ep) == ep.body # Missing /\ ep.body[1].type # ""
Media(o, ep) == OpAt(o).body[1][ep.body[1].type]

\* What ls shows of a body's schema is what the document says of it: the names of
\* its properties, with those of what it is composed of, and that it comes back to
\* itself, however deep within it, only where it does.  It says nothing of items,
\* of enumerations, and of parts that are composed themselves.
ViewsFaithful ==
  \A n \in DOMAIN listed : HasMedia(listed[n]) =>
    \E o \in Origins(listed[n]) :
      LET shown == listed[n].body[1].schema
          schema == Media(o, listed[n]).schema
      IN  IF schema = Missing THEN shown = Missing
          ELSE shown # Missing /\ Faithful(Doc.schemas, schema[1], shown[1])

\* The example that is proposed for a body, and sent if nobody touches it, is the
\* one the document gives for the content type, or else fits the body's schema:
\* types, enumerations and what is required, to the last part.
ExamplesConform ==
  \A n \in DOMAIN listed : HasMedia(listed[n]) =>
    \E o \in Origins(listed[n]) :
      LET media == Media(o, listed[n])
          example == listed[n].body[1].example
      IN  CASE media.example # Missing -> example = media.example
            [] media.example = Missing /\ ExampleFromMap(media.examples) # Missing ->
                 example = ExampleFromMap(media.examples)
            [] OTHER -> IF media.schema = Missing THEN example = Missing
                        ELSE Proposable(Doc.schemas, media.schema[1], example)

\* cli/help.go: "Default success is any 2xx", and exit 1 otherwise.
DefaultSuccessIs2xx ==
  exit = 0 /\ opts.command = "call" /\ opts.expect.form = "default"
    => out.status \in 200 .. 299

\* auth/cognito/config.go: "Password is deliberately not trimmed: passwords may
\* contain significant leading or trailing spaces."  A login uses the password
\* as it was given, by flag or, if that is blank, by process environment or file.
PasswordAsGiven ==
  \A k \in DOMAIN logins :
    \/ logins[k].password = opts.password
    \/ /\ Trim(opts.password) = Empty
       /\ logins[k].password = IF GivenFile THEN opts.argument[1].password
                                            ELSE cfg.creds.password
=============================================================================
