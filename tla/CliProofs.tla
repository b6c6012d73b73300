----------------------------- MODULE CliProofs ------------------------------
(***************************************************************************)
(* Proofs about Cli, for any documents, configurations, flags and          *)
(* statuses.                                                               *)
(***************************************************************************)
EXTENDS Cli, CatalogProofs

\* At most one login, at most one request.
Once == /\ logins = <<>> \/ logins = <<logins[1]>>
        /\ sent = <<>> \/ sent = <<sent[1]>>

\* An outcome that is no error is an answer to the request.
Judged == /\ out.error \in BOOLEAN
          /\ out.error \/ (sent = <<sent[1]>> /\ out.status \in Statuses)

\* What has been done by the time RunE is somewhere.
Done ==
  /\ world \in Worlds
  /\ exit \in {-1, 0, 1} /\ (exit = -1 <=> at # "end")
  /\ Once
  /\ at \in {"load", "serve", "list", "resolve", "input", "login"} => logins = <<>>
  /\ at \in {"await answer", "report", "end"} \/ sent = <<>>
  /\ at = "await answer" => sent = <<sent[1]>>
  /\ at = "report" => Judged

\* Which command gets there.
Places ==
  /\ at \in {"load", "serve", "list", "resolve", "input", "login", "await token", "print",
             "execute", "await answer", "report", "end"}
  /\ at = "serve" => opts.command = "ui"
  /\ at = "list" => opts.command = "ls"
  /\ at = "print" => opts.command = "jwt" /\ jwt # Absent
  /\ at \in {"resolve", "input", "execute", "await answer", "report"} => opts.command = "call"
  /\ at \in {"login", "await token"} => opts.command \in {"call", "jwt"}
  /\ opts.command # "call" => sent = <<>>
  /\ opts.command \in {"ls", "ui"} => logins = <<>>

\* The overlays leave the environments what they are.
SameEnvironments(envs, yaml) ==
  /\ DOMAIN envs = DOMAIN yaml
  /\ \A i \in DOMAIN yaml : /\ envs[i].id = yaml[i].id
                            /\ envs[i].production = yaml[i].production

\* A call that goes on has a configuration, and once its input is built the
\* environment is one of it.
Targeted ==
  opts.command = "call" /\ at \notin {"load", "end"} =>
    /\ SameEnvironments(cfg.envs, world.yaml.envs)
    /\ at \in {"login", "await token", "execute"} => Find(cfg.envs, EnvID) # 0

Inv == Done /\ Places /\ Targeted /\ ZeroMeansExpected /\ ProductionNeedsConfirm
-----------------------------------------------------------------------------
\* What Find returns, if it is not 0, is a place of the list.
LEMMA FoundIsThere ==
  ASSUME NEW S, NEW envs \in Seq(S), NEW id, Find(envs, id) # 0
  PROVE  Find(envs, id) \in DOMAIN envs /\ envs[Find(envs, id)].id = id
<1>. DEFINE where == {i \in DOMAIN envs : envs[i].id = id}
<1>1. Len(envs) \in Nat /\ DOMAIN envs = 1 .. Len(envs)
  OBVIOUS
<1>2. where \in SUBSET (1 .. Len(envs)) /\ where \in SUBSET Nat
  BY <1>1
<1>3. CASE where = {}
  BY <1>3 DEF Find
<1>4. CASE where # {}
  <2>1. Min(where) \in where
    <3>. HIDE DEF where
    <3>. QED  BY <1>2, <1>4, MinIsThere
  <2>2. Find(envs, id) = Min(where)
    BY <1>4 DEF Find
  <2>. QED  BY <2>1, <2>2
<1>. QED  BY <1>3, <1>4

LEMMA SameFound ==
  ASSUME NEW envs, NEW yaml, NEW id, SameEnvironments(envs, yaml)
  PROVE  Find(envs, id) = Find(yaml, id)
<1>1. {i \in DOMAIN envs : envs[i].id = id} = {i \in DOMAIN yaml : yaml[i].id = id}
  BY DEF SameEnvironments
<1>. QED  BY <1>1 DEF Find

LEMMA OverlayKeeps ==
  ASSUME NEW e, NEW os, NEW c, DOMAIN e = {"id", "base", "production", "pool", "client", "flow"}
  PROVE  /\ Overlaid(e, os).id = e.id /\ Overlaid(e, os).production = e.production
         /\ Filled(e, c).id = e.id /\ Filled(e, c).production = e.production
         /\ DOMAIN Filled(e, c) = DOMAIN e
<1>. QED  BY DEF Overlaid, Filled

LEMMA OverlaySets ==
  ASSUME NEW e, NEW os, NEW c, DOMAIN e = {"id", "base", "production", "pool", "client", "flow"}
  PROVE  /\ Overlaid(e, os).base = Overlay(e.base, os.base) /\ Filled(e, c).base = e.base
         /\ Overlaid(e, os).pool = Overlay(e.pool, os.pool)
         /\ Overlaid(e, os).client = Overlay(e.client, os.client)
         /\ Filled(e, c).pool = FillEmpty(e.pool, c.pool)
         /\ Filled(e, c).client = FillEmpty(e.client, c.client)
<1>. QED  BY DEF Overlaid, Filled

LEMMA SettingsKeep ==
  ASSUME NEW envs \in Seq(Environments), NEW k, NEW file, NEW os
  PROVE  SameEnvironments(WithSettings(envs, k, file, os), envs)
<1>1. ASSUME NEW i \in DOMAIN envs
      PROVE  DOMAIN envs[i] = {"id", "base", "production", "pool", "client", "flow"}
  <2>1. envs[i] \in Environments
    BY <1>1
  <2>. QED  BY <2>1 DEF Environments
<1>2. CASE k = 0
  BY <1>2 DEF WithSettings, SameEnvironments
<1>3. CASE k # 0
  <2>. DEFINE new == WithSettings(envs, k, file, os)
              under == IF file.present THEN Filled(envs[k], Normalized(file)) ELSE envs[k]
  <2>1. new = [envs EXCEPT ![k] = Overlaid(under, os)]
    BY <1>3 DEF WithSettings
  <2>2. DOMAIN new = DOMAIN envs
    BY <2>1
  <2>3. ASSUME NEW i \in DOMAIN envs
        PROVE  new[i].id = envs[i].id /\ new[i].production = envs[i].production
    <3>1. CASE i # k
      BY <2>1, <3>1
    <3>2. CASE i = k
      <4>1. new[i] = Overlaid(under, os)
        BY <2>1, <3>2
      <4>2. /\ under.id = envs[i].id /\ under.production = envs[i].production
            /\ DOMAIN under = {"id", "base", "production", "pool", "client", "flow"}
        <5>. DEFINE c == Normalized(file)
        <5>1. DOMAIN envs[k] = {"id", "base", "production", "pool", "client", "flow"}
          BY <1>1, <3>2
        <5>. HIDE DEF c, new
        <5>2. /\ Filled(envs[k], c).id = envs[k].id
              /\ Filled(envs[k], c).production = envs[k].production
              /\ DOMAIN Filled(envs[k], c) = {"id", "base", "production", "pool", "client", "flow"}
          BY <5>1, OverlayKeeps
        <5>3. CASE file.present
          <6>1. under = Filled(envs[k], c)
            BY <5>3 DEF c
          <6>. HIDE DEF under
          <6>. QED  BY <3>2, <5>2, <6>1
        <5>4. CASE ~file.present
          <6>1. under = envs[k]
            BY <5>4
          <6>. HIDE DEF under
          <6>. QED  BY <3>2, <5>1, <6>1
        <5>. QED  BY <5>3, <5>4
      <4>. HIDE DEF under, new
      <4>3. Overlaid(under, os).id = under.id /\ Overlaid(under, os).production = under.production
        BY <4>2, OverlayKeeps
      <4>. QED  BY <4>1, <4>2, <4>3
    <3>. QED  BY <3>1, <3>2
  <2>. QED  BY <2>2, <2>3 DEF SameEnvironments
<1>. QED  BY <1>2, <1>3
-----------------------------------------------------------------------------
LEMMA InitInv ==
  ASSUME Init
  PROVE  Inv
<1>1. Done /\ Places /\ Targeted
  BY DEF Init, Done, Places, Targeted, Once, opts
<1>2. ZeroMeansExpected /\ ProductionNeedsConfirm
  BY DEF Init, ZeroMeansExpected, ProductionNeedsConfirm
<1>. QED  BY <1>1, <1>2 DEF Inv

\* A step that ends the command with code 1, or goes on, sends nothing more.
LEMMA QuietlyOn ==
  ASSUME Inv, sent' = sent, world' = world, exit' \in {1, -1}
  PROVE  ZeroMeansExpected' /\ ProductionNeedsConfirm'
<1>1. exit' # 0
  OBVIOUS
<1>2. ZeroMeansExpected'
  BY <1>1 DEF ZeroMeansExpected
<1>3. ProductionNeedsConfirm'
  BY DEF Inv, ProductionNeedsConfirm, opts
<1>. QED  BY <1>2, <1>3

LEMMA LoadStep ==
  ASSUME Inv, LoadRuntime
  PROVE  Inv'
<1>. DEFINE asked == FirstNonEmpty(<<world.os.default, world.yaml.default, "dev">>)
            k == Find(world.yaml.envs, asked)
<1>1. /\ at = "load" /\ world' = world /\ opts' = opts
      /\ logins' = <<>> /\ sent' = <<>> /\ jwt' = jwt /\ out' = out
  BY DEF LoadRuntime, results, Inv, Done, opts
<1>2. \/ at' = "end" /\ exit' = 1
      \/ /\ exit' = -1 /\ cfg'.ok
         /\ at' = CASE opts.command = "call" -> "resolve"
                    [] opts.command = "jwt"  -> "login"
                    [] opts.command = "ls"   -> "list"
                    [] OTHER                 -> "serve"
  BY <1>1 DEF LoadRuntime, Fail, End, Continue, Inv, Done
<1>3. world \in Worlds /\ opts.command \in {"call", "jwt", "ls", "ui"}
  BY CliAssumption DEF Inv, Done, opts
<1>4. cfg'.ok => cfg'.envs = WithSettings(world.yaml.envs, k, world.file, world.os)
  BY DEF LoadRuntime, Load
<1>5. SameEnvironments(WithSettings(world.yaml.envs, k, world.file, world.os), world.yaml.envs)
  BY <1>3, CliAssumption, SettingsKeep
<1>6. Done'
  <2>1. Once'
    BY <1>1 DEF Once
  <2>2. CASE at' = "end" /\ exit' = 1
    BY <1>1, <1>3, <2>1, <2>2 DEF Done
  <2>3. CASE at' \in {"resolve", "login", "list", "serve"} /\ exit' = -1
    BY <1>1, <1>3, <2>1, <2>3 DEF Done
  <2>. QED  BY <1>2, <1>3, <2>2, <2>3
<1>7. Places'
  BY <1>1, <1>2, <1>3 DEF Places
<1>8. Targeted'
  BY <1>1, <1>2, <1>3, <1>4, <1>5 DEF Targeted
<1>9. ZeroMeansExpected' /\ ProductionNeedsConfirm'
  BY <1>1, <1>2, QuietlyOn DEF Inv, Done
<1>. QED  BY <1>6, <1>7, <1>8, <1>9 DEF Inv

\* The steps that do nothing but end with code 1, or go on to another place.
LEMMA MoveStep ==
  ASSUME Inv, UNCHANGED <<world, cfg, logins, jwt, sent, out>>,
         \/ at' = "end" /\ exit' = 1
         \/ /\ exit' = -1
            /\ \/ at = "load" /\ at' = "login" /\ opts.command = "jwt"
               \/ at = "resolve" /\ at' = "input"
               \/ at = "input" /\ at' \in {"login", "execute"} /\ Find(cfg.envs, EnvID) # 0
  PROVE  Inv'
<1>1. opts' = opts /\ EnvID' = EnvID
  BY DEF opts, EnvID
<1>2. Done'
  <2>1. Once'
    BY DEF Inv, Done, Once
  <2>2. at \in {"load", "resolve", "input"} => logins = <<>> /\ sent = <<>>
    BY DEF Inv, Done
  <2>3. CASE at' = "end" /\ exit' = 1
    <3>1. world' = world /\ world \in Worlds
      BY DEF Inv, Done
    <3>. QED  BY <2>1, <2>3, <3>1 DEF Done
  <2>4. CASE exit' = -1 /\ at' \in {"login", "input", "execute"} /\ at \in {"load", "resolve", "input"}
    <3>1. logins' = <<>> /\ sent' = <<>> /\ world' = world
      BY <2>2, <2>4
    <3>. QED  BY <2>1, <2>4, <3>1 DEF Inv, Done
  <2>. QED  BY <2>3, <2>4
<1>3. Places'
  BY <1>1 DEF Inv, Done, Places
<1>4. Targeted'
  BY <1>1 DEF Inv, Places, Targeted
<1>5. ZeroMeansExpected' /\ ProductionNeedsConfirm'
  BY QuietlyOn
<1>. QED  BY <1>2, <1>3, <1>4, <1>5 DEF Inv

LEMMA ListStep ==
  ASSUME Inv, List
  PROVE  Inv'
<1>1. /\ at = "list" /\ opts.command = "ls" /\ logins = <<>> /\ sent = <<>>
      /\ UNCHANGED <<world, cfg, logins, jwt, sent, out>>
      /\ opts' = opts
  BY DEF List, Inv, Done, Places, runtime, opts
<1>2. at' = "end" /\ exit' \in {0, 1}
  BY DEF List, End, Fail
<1>3. Done'
  BY <1>1, <1>2 DEF Inv, Done, Once
<1>4. Places' /\ Targeted'
  BY <1>1, <1>2 DEF Inv, Places, Targeted
<1>5. ZeroMeansExpected'
  BY <1>1 DEF ZeroMeansExpected
<1>6. ProductionNeedsConfirm'
  BY <1>1 DEF ProductionNeedsConfirm
<1>. QED  BY <1>3, <1>4, <1>5, <1>6 DEF Inv

LEMMA AskStep ==
  ASSUME Inv, AskCognito
  PROVE  Inv'
<1>. DEFINE asked == Normalized(LoginConfig)
<1>1. /\ at = "login" /\ opts.command \in {"call", "jwt"} /\ logins = <<>> /\ sent = <<>>
      /\ UNCHANGED <<world, cfg, jwt, sent, out>>
      /\ opts' = opts /\ EnvID' = EnvID
  BY DEF AskCognito, Inv, Done, Places, runtime, opts, EnvID
<1>2. \/ at' = "await token" /\ exit' = -1 /\ logins' = <<asked>>
      \/ at' = "end" /\ exit' = 1 /\ logins' = <<>>
  <2>1. exit = -1
    BY <1>1 DEF Inv, Done
  <2>2. Append(<<>>, asked) = <<asked>>
    OBVIOUS
  <2>. HIDE DEF asked
  <2>3. \/ at' = "await token" /\ exit' = exit /\ logins' = Append(logins, asked)
        \/ at' = "end" /\ exit' = 1 /\ logins' = logins
    BY DEF AskCognito, End, Fail, Continue, asked
  <2>. QED  BY <1>1, <2>1, <2>2, <2>3
<1>3. Once'
  <2>1. <<asked>> = <<<<asked>>[1]>>
    OBVIOUS
  <2>. HIDE DEF asked
  <2>. QED  BY <1>1, <1>2, <2>1 DEF Once
<1>4. Done'
  <2>1. world' = world /\ world \in Worlds /\ sent' = <<>>
    BY <1>1 DEF Inv, Done
  <2>2. \/ at' = "await token" /\ exit' = -1
        \/ at' = "end" /\ exit' = 1
    BY <1>2
  <2>3. CASE at' = "await token" /\ exit' = -1
    BY <1>3, <2>1, <2>3 DEF Done
  <2>4. CASE at' = "end" /\ exit' = 1
    BY <1>3, <2>1, <2>4 DEF Done
  <2>. QED  BY <2>2, <2>3, <2>4
<1>5. Places'
  BY <1>1, <1>2 DEF Inv, Places
<1>6. Targeted'
  BY <1>1, <1>2 DEF Inv, Targeted
<1>7. ZeroMeansExpected' /\ ProductionNeedsConfirm'
  BY <1>1, <1>2, QuietlyOn
<1>. QED  BY <1>4, <1>5, <1>6, <1>7 DEF Inv

\* What Cognito issues is a token.
LEMMA IssueStep ==
  ASSUME Inv, CognitoIssues
  PROVE  Inv'
<1>1. /\ at = "await token" /\ opts.command \in {"call", "jwt"} /\ sent = <<>>
      /\ UNCHANGED <<world, cfg, logins, sent, out>>
      /\ opts' = opts /\ EnvID' = EnvID
  BY DEF CognitoIssues, Inv, Done, Places, runtime, opts, EnvID
<1>2. exit' = -1 /\ at' = IF opts.command = "jwt" THEN "print" ELSE "execute"
  BY <1>1 DEF CognitoIssues, Continue, Inv, Done
<1>3. jwt' # Absent
  BY DEF CognitoIssues, SessionValue, Absent, Value
<1>4. Done'
  BY <1>1, <1>2 DEF Inv, Done, Once
<1>5. Places'
  BY <1>1, <1>2, <1>3 DEF Inv, Places
<1>6. Targeted'
  BY <1>1, <1>2 DEF Inv, Targeted
<1>7. ZeroMeansExpected' /\ ProductionNeedsConfirm'
  BY <1>1, <1>2, QuietlyOn
<1>. QED  BY <1>4, <1>5, <1>6, <1>7 DEF Inv

LEMMA PrintStep ==
  ASSUME Inv, PrintTokens
  PROVE  Inv'
<1>1. /\ at = "print" /\ opts.command = "jwt" /\ jwt # Absent /\ sent = <<>>
      /\ UNCHANGED <<world, cfg, logins, jwt, sent, out>>
      /\ opts' = opts
  BY DEF PrintTokens, Inv, Done, Places, runtime, results, opts
<1>2. at' = "end" /\ exit' \in {0, 1}
  BY DEF PrintTokens, End, Fail
<1>3. Done'
  BY <1>1, <1>2 DEF Inv, Done, Once
<1>4. Places' /\ Targeted'
  BY <1>1, <1>2 DEF Inv, Places, Targeted
<1>5. ZeroMeansExpected'
  BY <1>1 DEF ZeroMeansExpected
<1>6. ProductionNeedsConfirm'
  BY <1>1 DEF ProductionNeedsConfirm
<1>. QED  BY <1>3, <1>4, <1>5, <1>6 DEF Inv

\* What Execute sends is confirmed, if its environment is a production one in the
\* file, whatever the overlays made of it.
LEMMA ExecuteStep ==
  ASSUME Inv, Execute
  PROVE  Inv'
<1>. DEFINE refused == Refused(Input, Env.production) \/ ~opts.sendable
            request == [env |-> EnvID, base |-> Env.base,
                        method |-> found.op.method, path |-> URLPath,
                        auth |-> Authorization(Input, jwt)]
<1>1. /\ at = "execute" /\ opts.command = "call" /\ sent = <<>>
      /\ UNCHANGED <<world, cfg, logins, jwt>>
      /\ opts' = opts /\ EnvID' = EnvID /\ exit = -1
  BY DEF Execute, Inv, Done, Places, runtime, opts, EnvID
<1>2. \/ refused /\ out' = NotSent /\ sent' = <<>> /\ at' = "report" /\ exit' = -1
      \/ ~refused /\ sent' = <<request>> /\ at' = "await answer" /\ exit' = -1
  <2>1. Append(<<>>, request) = <<request>>
    OBVIOUS
  <2>2. \/ refused /\ out' = NotSent /\ sent' = sent /\ at' = "report" /\ exit' = exit
        \/ ~refused /\ sent' = Append(sent, request) /\ at' = "await answer" /\ exit' = exit
    BY DEF Execute, Continue
  <2>. HIDE DEF refused, request
  <2>. QED  BY <1>1, <2>1, <2>2
<1>3. <<request>> = <<<<request>>[1]>> /\ DOMAIN <<request>> = {1} /\ <<request>>[1].env = EnvID
  OBVIOUS
<1>4. ~refused => (Env.production => opts.confirm)
  BY DEF Refused, Input
<1>5. ~refused => (world.yaml.envs[Find(world.yaml.envs, EnvID)].production => opts.confirm)
  <2>1. SameEnvironments(cfg.envs, world.yaml.envs) /\ Find(cfg.envs, EnvID) # 0
    BY <1>1 DEF Inv, Targeted
  <2>2. world.yaml.envs \in Seq(Environments)
    BY CliAssumption DEF Inv, Done
  <2>3. Find(world.yaml.envs, EnvID) = Find(cfg.envs, EnvID)
    BY <2>1, SameFound
  <2>4. Find(world.yaml.envs, EnvID) \in DOMAIN world.yaml.envs
    BY <2>1, <2>2, <2>3, FoundIsThere
  <2>5. Env.production = world.yaml.envs[Find(world.yaml.envs, EnvID)].production
    BY <2>1, <2>3, <2>4 DEF Env, SameEnvironments
  <2>. QED  BY <1>4, <2>5
<1>. HIDE DEF refused, request
<1>6. Once'
  BY <1>1, <1>2, <1>3 DEF Inv, Done, Once
<1>7. Done'
  <2>1. world' = world /\ world \in Worlds
    BY <1>1 DEF Inv, Done
  <2>2. CASE out' = NotSent /\ sent' = <<>> /\ at' = "report" /\ exit' = -1
    <3>1. Judged'
      BY <2>2 DEF NotSent, Judged
    <3>. QED  BY <1>6, <2>1, <2>2, <3>1 DEF Done
  <2>3. CASE sent' = <<request>> /\ at' = "await answer" /\ exit' = -1
    <3>1. sent' = <<sent'[1]>>
      BY <1>3, <2>3
    <3>. QED  BY <1>6, <2>1, <2>3, <3>1 DEF Done
  <2>. QED  BY <1>2, <2>2, <2>3
<1>8. Places'
  BY <1>1, <1>2 DEF Inv, Places
<1>9. Targeted'
  BY <1>1, <1>2 DEF Inv, Targeted
<1>10. ZeroMeansExpected'
  BY <1>2 DEF ZeroMeansExpected
<1>11. ProductionNeedsConfirm'
  <2>1. CASE sent' = <<>>
    BY <2>1 DEF ProductionNeedsConfirm
  <2>2. CASE ~refused /\ sent' = <<request>>
    <3>. SUFFICES ASSUME NEW k \in DOMAIN sent'
                  PROVE  world'.yaml.envs[Find(world'.yaml.envs, sent'[k].env)].production
                            => opts'.confirm
      BY DEF ProductionNeedsConfirm, opts
    <3>1. k = 1 /\ sent'[k].env = EnvID
      BY <1>3, <2>2
    <3>. QED  BY <1>1, <1>5, <2>2, <3>1
  <2>. QED  BY <1>2, <2>1, <2>2
<1>. QED  BY <1>7, <1>8, <1>9, <1>10, <1>11 DEF Inv

\* An answer has a status of the backend's; without one there is an error.
LEMMA AnswerStep ==
  ASSUME Inv,
         \/ GiveUp
         \/ \E status \in Statuses : BackendAnswers(status)
  PROVE  Inv'
<1>1. /\ at = "await answer" /\ opts.command = "call"
      /\ UNCHANGED <<world, cfg, logins, jwt, sent>>
      /\ opts' = opts /\ exit = -1 /\ exit' = -1 /\ at' = "report"
      /\ sent = <<sent[1]>>
  BY DEF GiveUp, BackendAnswers, Continue, Inv, Done, Places, runtime, opts
<1>2. out'.error \in BOOLEAN /\ (out'.error \/ out'.status \in Statuses)
  <2>1. CASE GiveUp
    <3>1. out' = TransportError(sent[1].auth)
      BY <2>1 DEF GiveUp
    <3>. QED  BY <3>1 DEF TransportError
  <2>2. ASSUME NEW status \in Statuses, BackendAnswers(status)
        PROVE  out'.error \in BOOLEAN /\ (out'.error \/ out'.status \in Statuses)
    <3>1. CASE out' = Answer(sent[1].auth, status)
      <4>1. out'.status = status /\ out'.error = FALSE
        BY <3>1 DEF Answer
      <4>. QED  BY <4>1
    <3>2. CASE out' = Unreadable(sent[1].auth, status)
      <4>1. out'.error = TRUE
        BY <3>2 DEF Unreadable
      <4>. QED  BY <4>1
    <3>. QED  BY <2>2, <3>1, <3>2 DEF BackendAnswers
  <2>. QED  BY <2>1, <2>2
<1>3. Judged'
  BY <1>1, <1>2 DEF Judged
<1>4. Once' /\ world' = world /\ world \in Worlds
  BY <1>1 DEF Inv, Done, Once
<1>5. Done'
  BY <1>1, <1>3, <1>4 DEF Done
<1>6. Places'
  BY <1>1 DEF Inv, Places
<1>7. Targeted'
  BY <1>1 DEF Inv, Targeted
<1>8. ZeroMeansExpected' /\ ProductionNeedsConfirm'
  BY <1>1, QuietlyOn
<1>. QED  BY <1>5, <1>6, <1>7, <1>8 DEF Inv

\* An outcome that matches is an answer of a status that is asked for.
LEMMA MatchIsWanted ==
  ASSUME NEW o, NEW e, o.error \in BOOLEAN, StatusMatches(o, e),
         o.error \/ o.status \in Statuses
  PROVE  /\ ~o.error
         /\ CASE e.form = "exact" -> o.status = e.n
              [] e.form = "class" -> o.status \in 100 * e.n .. 100 * e.n + 99
              [] e.form = "junk"  -> FALSE
              [] OTHER            -> o.status < 400
<1>1. ~o.error /\ StatusIs(o, e)
  BY DEF StatusMatches
<1>2. o.status \in 100 .. 599
  BY <1>1, CliAssumption
<1>3. CASE e.form = "class"
  <2>1. o.status \div 100 = e.n
    BY <1>1, <1>3 DEF StatusIs
  <2>2. o.status \in 100 * (o.status \div 100) .. 100 * (o.status \div 100) + 99
    BY <1>2
  <2>. QED  BY <1>1, <1>3, <2>1, <2>2
<1>4. CASE e.form = "exact"
  BY <1>1, <1>4 DEF StatusIs
<1>5. CASE e.form = "default"
  BY <1>1, <1>5 DEF StatusIs, OK
<1>6. CASE e.form \notin {"class", "exact", "default"}
  BY <1>1, <1>6 DEF StatusIs
<1>. QED  BY <1>3, <1>4, <1>5, <1>6

LEMMA ReportStep ==
  ASSUME Inv, Report
  PROVE  Inv'
<1>1. /\ at = "report" /\ opts.command = "call" /\ Judged
      /\ UNCHANGED <<world, cfg, logins, jwt, sent, out>>
      /\ opts' = opts
  BY DEF Report, Inv, Done, Places, runtime, results, opts
<1>2. at' = "end" /\ exit' \in {0, 1} /\ (exit' = 0 => StatusMatches(out, opts.expect))
  BY DEF Report, End, Fail
<1>3. Done'
  <2>1. Once' /\ world' = world /\ world \in Worlds
    BY <1>1 DEF Inv, Done, Once
  <2>. QED  BY <1>2, <2>1 DEF Done
<1>4. Places' /\ Targeted'
  BY <1>1, <1>2 DEF Inv, Places, Targeted
<1>5. ZeroMeansExpected'
  <2>. SUFFICES ASSUME exit' = 0 PROVE ZeroMeansExpected'
    BY DEF ZeroMeansExpected
  <2>1. StatusMatches(out, opts.expect)
    BY <1>2
  <2>2. ~out.error /\ Len(sent) = 1
    BY <1>1, <2>1, MatchIsWanted DEF Judged
  <2>3. (CASE opts.expect.form = "exact" -> out.status = opts.expect.n
           [] opts.expect.form = "class" ->
                out.status \in 100 * opts.expect.n .. 100 * opts.expect.n + 99
           [] opts.expect.form = "junk"  -> FALSE
           [] OTHER                      -> out.status < 400)
    BY <1>1, <2>1, MatchIsWanted DEF Judged
  <2>. QED  BY <1>1, <2>2, <2>3 DEF ZeroMeansExpected
<1>6. ProductionNeedsConfirm'
  BY <1>1 DEF Inv, ProductionNeedsConfirm
<1>. QED  BY <1>3, <1>4, <1>5, <1>6 DEF Inv
-----------------------------------------------------------------------------
LEMMA NextInv ==
  ASSUME Inv, [Next]_vars
  PROVE  Inv'
<1>1. CASE LoadCredentials
  <2>1. /\ UNCHANGED <<world, cfg, logins, jwt, sent, out>>
        /\ at = "load" /\ opts.command = "jwt" /\ exit = -1
    BY <1>1 DEF LoadCredentials, runtime, results, GivenFile, Inv, Done
  <2>2. (at' = "login" /\ exit' = -1) \/ (at' = "end" /\ exit' = 1)
    BY <1>1, <2>1 DEF LoadCredentials, Continue, Fail, End
  <2>. QED  BY <2>1, <2>2, MoveStep
<1>2. CASE ListenFails
  <2>1. UNCHANGED <<world, cfg, logins, jwt, sent, out>> /\ at' = "end" /\ exit' = 1
    BY <1>2 DEF ListenFails, runtime, results, Fail, End
  <2>. QED  BY <2>1, MoveStep
<1>3. CASE ResolveCall
  <2>1. UNCHANGED <<world, cfg, logins, jwt, sent, out>> /\ at = "resolve" /\ exit = -1
    BY <1>3 DEF ResolveCall, runtime, results, Inv, Done
  <2>2. (at' = "input" /\ exit' = -1) \/ (at' = "end" /\ exit' = 1)
    BY <1>3, <2>1 DEF ResolveCall, Continue, Fail, End
  <2>. QED  BY <2>1, <2>2, MoveStep
<1>4. CASE BuildInput
  <2>1. UNCHANGED <<world, cfg, logins, jwt, sent, out>> /\ at = "input" /\ exit = -1
    BY <1>4 DEF BuildInput, runtime, results, Inv, Done
  <2>2. \/ at' \in {"login", "execute"} /\ exit' = -1 /\ Find(cfg.envs, EnvID) # 0
        \/ at' = "end" /\ exit' = 1
    BY <1>4, <2>1 DEF BuildInput, Continue, Fail, End
  <2>. QED  BY <2>1, <2>2, MoveStep
<1>5. CASE CognitoFails
  <2>1. UNCHANGED <<world, cfg, logins, jwt, sent, out>> /\ at' = "end" /\ exit' = 1
    BY <1>5 DEF CognitoFails, CognitoFailsTo, runtime, results, Fail, End
  <2>. QED  BY <2>1, MoveStep
<1>6. CASE UNCHANGED vars
  <2>1. UNCHANGED <<world, at, cfg, logins, jwt, sent, out, exit>>
    BY <1>6 DEF vars, runtime, results
  <2>2. UNCHANGED <<opts, EnvID>>
    BY <2>1 DEF opts, EnvID
  <2>3. Done'
    BY <2>1 DEF Inv, Done, Once, Judged
  <2>4. Places' /\ Targeted'
    BY <2>1, <2>2 DEF Inv, Places, Targeted
  <2>5. ZeroMeansExpected' /\ ProductionNeedsConfirm'
    BY <2>1, <2>2 DEF Inv, ZeroMeansExpected, ProductionNeedsConfirm
  <2>. QED  BY <2>3, <2>4, <2>5 DEF Inv
<1>. QED
  BY <1>1, <1>2, <1>3, <1>4, <1>5, <1>6, LoadStep, ListStep, AskStep, IssueStep, PrintStep,
     ExecuteStep, AnswerStep, ReportStep DEF Next, RunE

LEMMA CliInvariant == Spec => []Inv
<1>. QED  BY InitInv, NextInv, PTL DEF Spec

\* The command ends with an exit code, after one login and one request at most.
THEOREM CliTypeCorrect == Spec => []TypeOK
<1>1. Inv => TypeOK
  <2>. SUFFICES ASSUME Inv PROVE TypeOK
    OBVIOUS
  <2>1. ASSUME NEW s, s = <<>> \/ s = <<s[1]>>
        PROVE  Len(s) <= 1
    <3>1. Len(<<>>) = 0 /\ Len(<<s[1]>>) = 1
      OBVIOUS
    <3>. QED  BY <2>1, <3>1
  <2>2. Len(logins) <= 1 /\ Len(sent) <= 1
    BY <2>1 DEF Inv, Done, Once
  <2>. QED  BY <2>2 DEF Inv, Done, Places, TypeOK
<1>. QED  BY <1>1, CliInvariant, PTL

\* What exit code 0 tells a script, whatever the command, its files and flags, and
\* whatever Cognito and the backend did.
THEOREM ZeroIsExpected == Spec => []ZeroMeansExpected
<1>1. Inv => ZeroMeansExpected
  BY DEF Inv
<1>. QED  BY <1>1, CliInvariant, PTL

\* No overlay and no default takes a request to production unconfirmed.
THEOREM ProductionIsConfirmed == Spec => []ProductionNeedsConfirm
<1>1. Inv => ProductionNeedsConfirm
  BY DEF Inv
<1>. QED  BY <1>1, CliInvariant, PTL
-----------------------------------------------------------------------------
(***************************************************************************)
(* Where what a command holds comes from: the configuration and the        *)
(* catalog from the files it found, the operation from the catalog, the    *)
(* login from the configuration, the token from the login, and what is     *)
(* sent and printed from all of them.                                      *)
(***************************************************************************)
Ready ==
  /\ cfg = Load(world.yaml, world.file, world.os, DOMAIN world.docs) /\ cfg.ok
  /\ cfg.spec \in DOMAIN world.docs /\ Doc.valid /\ catalog = Catalogs[Doc]
Loaded ==
  at \notin {"load", "end"} \/ sent # <<>> \/ listed # <<>> \/ logins # <<>>
    => GivenFile \/ Ready
Chosen ==
  (at \in {"input", "login", "await token", "execute"} /\ opts.command = "call") \/ sent # <<>>
    => found = Lookup(catalog, opts.ref) /\ found.ok
Asked ==
  /\ at = "await token" => logins # <<>>
  /\ logins # <<>> => /\ logins[1] = Normalized(LoginConfig) /\ ValidConfig(logins[1])
                      /\ GivenFile \/ Find(cfg.envs, EnvID) # 0
Authorized ==
  /\ at \in {"login", "await token"} /\ opts.command = "call" => NeedsToken
  /\ at = "execute" \/ sent # <<>> =>
       IF NeedsToken THEN logins # <<>> /\ jwt = SessionValue(logins[1]) ELSE logins = <<>>
Requested ==
  sent # <<>> =>
    /\ sent[1] = [env |-> EnvID, base |-> Env.base, method |-> found.op.method,
                  path |-> URLPath, auth |-> Authorization(Input, jwt)]
    /\ Find(cfg.envs, EnvID) # 0
Printed ==
  listed # <<>> =>
    listed = Filter(catalog, opts.tag, opts.search) /\ at = "end" /\ ~GivenFile

Known == Loaded /\ Chosen /\ Asked /\ Authorized /\ Requested /\ Printed

\* All this is said of what the command holds and has been given.
LEMMA Holding ==
  ASSUME UNCHANGED <<world, cfg, catalog, found>>
  PROVE  /\ (Ready' <=> Ready) /\ (GivenFile' <=> GivenFile) /\ (NeedsToken' <=> NeedsToken)
         /\ opts' = opts /\ EnvID' = EnvID /\ Env' = Env /\ Doc' = Doc
         /\ LoginConfig' = LoginConfig /\ URLPath' = URLPath /\ Input' = Input
         /\ Lookup(catalog, opts.ref)' = Lookup(catalog, opts.ref)
<1>1. opts' = opts /\ EnvID' = EnvID /\ (GivenFile' <=> GivenFile) /\ Doc' = Doc
      /\ (NeedsToken' <=> NeedsToken)
  BY DEF opts, EnvID, GivenFile, Doc, NeedsToken
<1>2. Env' = Env /\ (Ready' <=> Ready)
  BY <1>1 DEF Env, Ready
<1>3. Input' = Input /\ PathParams' = PathParams
  BY <1>1 DEF Input, PathParams
<1>4. LoginConfig' = LoginConfig
  BY <1>1 DEF LoginConfig
<1>5. URLPath' = URLPath
  BY <1>3 DEF URLPath
<1>6. Lookup(catalog, opts.ref)' = Lookup(catalog, opts.ref)
  BY <1>1
<1>. QED  BY <1>1, <1>2, <1>3, <1>4, <1>5, <1>6

\* The OpenAPI file of a configuration exists; it is the one that is asked for, if
\* that exists.
LEMMA SpecIsThere ==
  ASSUME NEW given, NEW existing, Empty \notin existing
  PROVE  /\ ResolveSpec(given, existing) # Empty => ResolveSpec(given, existing) \in existing
         /\ given \in existing => ResolveSpec(given, existing) = given
<1>. DEFINE candidates == (IF given = Empty THEN <<>> ELSE <<given>>)
                            \o <<"openapi", "framework">>
            there == {i \in DOMAIN candidates : candidates[i] \in existing}
<1>1. /\ DOMAIN candidates \in SUBSET Nat /\ \A i \in DOMAIN candidates : i >= 1
      /\ given # Empty => 1 \in DOMAIN candidates /\ candidates[1] = given
  <2>. DEFINE s == <<given>>
              t == <<"openapi", "framework">>
  <2>1. s \in Seq({given}) /\ Len(s) = 1 /\ s[1] = given
    OBVIOUS
  <2>2. t \in Seq({"openapi", "framework"}) /\ Len(t) = 2
    OBVIOUS
  <2>. HIDE DEF s, t
  <2>3. DOMAIN (s \o t) = 1 .. 1 + 2 /\ (s \o t)[1] = s[1]
    <3>. DEFINE all == {given, "openapi", "framework"}
    <3>1. s \in Seq(all) /\ t \in Seq(all)
      BY <2>1, <2>2 DEF s, t
    <3>2. /\ DOMAIN (s \o t) = 1 .. Len(s) + Len(t)
          /\ \A i \in 1 .. Len(s) : (s \o t)[i] = s[i]
      BY <3>1, Joined
    <3>. QED  BY <2>1, <2>2, <3>2
  <2>4. DOMAIN (<<>> \o t) = 1 .. 2
    BY <2>2
  <2>. QED  BY <2>1, <2>3, <2>4 DEF s, t
<1>2. ResolveSpec(given, existing) = IF there = {} THEN Empty ELSE candidates[Min(there)]
  BY DEF ResolveSpec
<1>. HIDE DEF candidates
<1>3. there \in SUBSET Nat
  BY <1>1
<1>4. given \in existing => 1 \in there /\ candidates[1] = given
  BY <1>1
<1>5. \A i \in there : i >= 1 /\ candidates[i] \in existing
  BY <1>1
<1>. HIDE DEF there
<1>6. there # {} => Min(there) \in there /\ (1 \in there => Min(there) = 1)
  <2>1. there # {} => Min(there) \in there /\ \A i \in there : Min(there) <= i
    BY <1>3, MinIsThere
  <2>2. ASSUME 1 \in there PROVE Min(there) = 1
    <3>1. Min(there) \in there /\ Min(there) <= 1
      BY <2>1, <2>2
    <3>2. Min(there) >= 1 /\ Min(there) \in Nat
      BY <1>3, <1>5, <3>1
    <3>. QED  BY <3>1, <3>2
  <2>. QED  BY <2>1, <2>2
<1>. QED  BY <1>2, <1>4, <1>5, <1>6

LEMMA InitKnown ==
  ASSUME Init
  PROVE  Known
<1>. QED
  BY DEF Init, Known, Loaded, Chosen, Asked, Authorized, Requested, Printed

\* The steps that learn nothing: the command ends, reports, or goes on to its
\* login or its request.
LEMMA NothingNew ==
  ASSUME Inv, Known, UNCHANGED <<world, cfg, catalog, found, logins, jwt, sent, listed>>,
         \/ at' \in {"end", "report"} /\ at \notin {"load", "end"}
         \/ at = "load" /\ at' = "end"
         \/ at = "load" /\ at' = "login" /\ GivenFile
         \/ at = "input" /\ at' = IF NeedsToken THEN "login" ELSE "execute"
         \/ at' = at
  PROVE  Known'
<1>1. /\ (Ready' <=> Ready) /\ (GivenFile' <=> GivenFile) /\ (NeedsToken' <=> NeedsToken)
      /\ opts' = opts /\ EnvID' = EnvID /\ Env' = Env
      /\ LoginConfig' = LoginConfig /\ URLPath' = URLPath /\ Input' = Input
  BY Holding
<1>2. Loaded' /\ Printed'
  BY <1>1 DEF Known, Loaded, Printed
<1>3. Chosen'
  <2>1. found' = found /\ Lookup(catalog', opts'.ref) = Lookup(catalog, opts.ref)
    BY <1>1
  <2>. QED  BY <1>1, <2>1 DEF Known, Chosen, GivenFile
<1>4. Asked' /\ Requested'
  BY <1>1 DEF Known, Asked, Requested
<1>5. Authorized'
  <2>1. at = "input" => logins = <<>> /\ sent = <<>>
    BY DEF Inv, Done
  <2>. QED  BY <1>1, <2>1 DEF Known, Authorized, GivenFile
<1>. QED  BY <1>2, <1>3, <1>4, <1>5 DEF Known

LEMMA LoadKnown ==
  ASSUME Inv, Known, LoadRuntime
  PROVE  Known'
<1>1. /\ at = "load" /\ ~GivenFile /\ opts' = opts /\ ~GivenFile'
      /\ logins' = <<>> /\ sent' = <<>> /\ listed' = listed /\ world' = world
  BY DEF LoadRuntime, results, Inv, Done, opts, GivenFile
<1>2. world \in Worlds
  BY DEF Inv, Done
<1>3. at' = "end" \/ (Ready' /\ at' \in {"resolve", "login", "list", "serve"}
                        /\ (opts.command = "call" => at' = "resolve"))
  <2>. SUFFICES ASSUME at' # "end"
                PROVE  Ready' /\ at' \in {"resolve", "login", "list", "serve"}
                         /\ (opts.command = "call" => at' = "resolve")
    OBVIOUS
  <2>1. /\ cfg' = Load(world.yaml, world.file, world.os, DOMAIN world.docs) /\ cfg'.ok
        /\ world.docs[cfg'.spec].valid /\ catalog' = Catalogs[world.docs[cfg'.spec]]
    BY DEF LoadRuntime, Fail, End
  <2>2. at' = CASE opts.command = "call" -> "resolve"
                [] opts.command = "jwt"  -> "login"
                [] opts.command = "ls"   -> "list"
                [] OTHER                 -> "serve"
    BY <2>1 DEF LoadRuntime, Continue
  <2>3. cfg'.spec \in DOMAIN world.docs
    <3>1. /\ cfg'.spec # Empty
          /\ cfg'.spec = ResolveSpec(FirstNonEmpty(<<world.os.spec, world.yaml.spec>>),
                                     DOMAIN world.docs)
      BY <2>1 DEF Load
    <3>2. Empty \notin DOMAIN world.docs
      BY <1>2, CliAssumption
    <3>. QED  BY <3>1, <3>2, SpecIsThere
  <2>4. Ready'
    BY <1>1, <2>1, <2>3 DEF Ready, Doc
  <2>. QED  BY <2>2, <2>4
<1>4. listed = <<>>
  BY <1>1 DEF Known, Printed
<1>. QED
  BY <1>1, <1>3, <1>4 DEF Known, Loaded, Chosen, Asked, Authorized, Requested, Printed

LEMMA ListKnown ==
  ASSUME Inv, Known, List
  PROVE  Known'
<1>1. /\ at = "list" /\ at' = "end" /\ opts.command = "ls"
      /\ UNCHANGED <<world, cfg, catalog, found, logins, jwt, sent>>
      /\ logins = <<>> /\ sent = <<>>
      /\ listed' = Filter(catalog, opts.tag, opts.search)
  BY DEF List, End, Fail, runtime, Inv, Done, Places
<1>2. (Ready' <=> Ready) /\ (GivenFile' <=> GivenFile) /\ opts' = opts
  BY <1>1, Holding
<1>3. ~GivenFile
  BY <1>1 DEF GivenFile
<1>. QED
  BY <1>1, <1>2, <1>3 DEF Known, Loaded, Chosen, Asked, Authorized, Requested, Printed

LEMMA ResolveKnown ==
  ASSUME Inv, Known, ResolveCall
  PROVE  Known'
<1>1. /\ at = "resolve" /\ opts.command = "call"
      /\ UNCHANGED <<world, cfg, catalog, logins, jwt, sent, listed>>
      /\ logins = <<>> /\ sent = <<>> /\ listed = <<>>
      /\ found' = Lookup(catalog, opts.ref)
      /\ (at' = "input" /\ found'.ok) \/ at' = "end"
  BY DEF ResolveCall, Continue, Fail, End, runtime, results, Inv, Done, Places, Known, Printed
<1>2. (Ready' <=> Ready) /\ (GivenFile' <=> GivenFile) /\ opts' = opts
  BY <1>1 DEF Ready, GivenFile, opts, Doc
<1>. QED
  BY <1>1, <1>2 DEF Known, Loaded, Chosen, Asked, Authorized, Requested, Printed

LEMMA AskKnown ==
  ASSUME Inv, Known, AskCognito
  PROVE  Known'
<1>. DEFINE config == Normalized(LoginConfig)
<1>1. /\ at = "login" /\ opts.command \in {"call", "jwt"}
      /\ UNCHANGED <<world, cfg, catalog, found, jwt, sent, listed>>
      /\ logins = <<>> /\ sent = <<>> /\ listed = <<>>
  BY DEF AskCognito, runtime, Inv, Done, Places, Known, Printed
<1>2. /\ (Ready' <=> Ready) /\ (GivenFile' <=> GivenFile) /\ (NeedsToken' <=> NeedsToken)
      /\ opts' = opts /\ EnvID' = EnvID /\ LoginConfig' = LoginConfig
      /\ Lookup(catalog, opts.ref)' = Lookup(catalog, opts.ref)
  BY <1>1, Holding
<1>3. \/ /\ at' = "await token" /\ logins' = Append(logins, config)
         /\ ValidConfig(config) /\ (GivenFile \/ Find(cfg.envs, EnvID) # 0)
      \/ at' = "end" /\ logins' = logins
  BY DEF AskCognito, Continue, Fail, End
<1>4. Append(<<>>, config) # <<>> /\ Append(<<>>, config)[1] = config
  OBVIOUS
<1>5. config' = config
  BY <1>2
<1>. HIDE DEF config
<1>6. \/ /\ at' = "await token" /\ logins' # <<>> /\ logins'[1] = config
         /\ ValidConfig(config) /\ (GivenFile \/ Find(cfg.envs, EnvID) # 0)
      \/ at' = "end" /\ logins' = <<>>
  BY <1>1, <1>3, <1>4
<1>7. Asked'
  <2>1. CASE at' = "end" /\ logins' = <<>>
    BY <2>1 DEF Asked
  <2>2. CASE at' = "await token" /\ logins' # <<>> /\ logins'[1] = config
    <3>1. logins'[1] = Normalized(LoginConfig') /\ ValidConfig(logins'[1])
      BY <1>2, <1>6, <2>2 DEF config
    <3>2. GivenFile' \/ Find(cfg'.envs, EnvID') # 0
      BY <1>1, <1>2, <1>6, <2>2
    <3>. QED  BY <2>2, <3>1, <3>2 DEF Asked
  <2>. QED  BY <1>6, <2>1, <2>2
<1>8. Loaded' /\ Printed' /\ Requested'
  BY <1>1, <1>2, <1>6 DEF Known, Loaded, Printed, Requested
<1>9. Chosen' /\ Authorized'
  BY <1>1, <1>2, <1>6 DEF Known, Chosen, Authorized
<1>. QED  BY <1>7, <1>8, <1>9 DEF Known

LEMMA IssueKnown ==
  ASSUME Inv, Known, CognitoIssues
  PROVE  Known'
<1>1. /\ at = "await token" /\ at' = IF opts.command = "jwt" THEN "print" ELSE "execute"
      /\ opts.command \in {"call", "jwt"}
      /\ UNCHANGED <<world, cfg, catalog, found, logins, sent, listed>>
      /\ sent = <<>> /\ listed = <<>> /\ jwt' = SessionValue(logins[1])
  BY DEF CognitoIssues, Continue, runtime, Inv, Done, Places, Known, Printed
<1>2. /\ (Ready' <=> Ready) /\ (GivenFile' <=> GivenFile) /\ (NeedsToken' <=> NeedsToken)
      /\ opts' = opts /\ EnvID' = EnvID /\ LoginConfig' = LoginConfig
      /\ Lookup(catalog, opts.ref)' = Lookup(catalog, opts.ref)
  BY <1>1, Holding
<1>3. Loaded' /\ Printed' /\ Requested'
  BY <1>1, <1>2 DEF Known, Loaded, Printed, Requested
<1>4. Chosen'
  BY <1>1, <1>2 DEF Known, Chosen
<1>5. Asked' /\ Authorized'
  BY <1>1, <1>2 DEF Known, Asked, Authorized
<1>. QED  BY <1>3, <1>4, <1>5 DEF Known

LEMMA ExecuteKnown ==
  ASSUME Inv, Known, Execute
  PROVE  Known'
<1>. DEFINE request == [env |-> EnvID, base |-> Env.base,
                        method |-> found.op.method, path |-> URLPath,
                        auth |-> Authorization(Input, jwt)]
<1>1. /\ at = "execute" /\ at' \in {"report", "await answer"} /\ opts.command = "call"
      /\ UNCHANGED <<world, cfg, catalog, found, logins, jwt, listed>>
      /\ sent = <<>> /\ listed = <<>> /\ Find(cfg.envs, EnvID) # 0
      /\ sent' = sent \/ sent' = Append(sent, request)
  BY DEF Execute, Continue, runtime, Inv, Done, Places, Targeted, Known, Printed
<1>2. /\ (Ready' <=> Ready) /\ (GivenFile' <=> GivenFile) /\ (NeedsToken' <=> NeedsToken)
      /\ opts' = opts /\ EnvID' = EnvID /\ LoginConfig' = LoginConfig /\ Env' = Env
      /\ URLPath' = URLPath /\ Input' = Input
      /\ Lookup(catalog, opts.ref)' = Lookup(catalog, opts.ref)
  BY <1>1, Holding
<1>3. Append(<<>>, request) # <<>> /\ Append(<<>>, request)[1] = request
  OBVIOUS
<1>4. request' = request
  BY <1>1, <1>2
<1>5. Requested'
  <2>. HIDE DEF request
  <2>1. sent' = <<>> \/ (sent' # <<>> /\ sent'[1] = request')
    BY <1>1, <1>3, <1>4
  <2>2. CASE sent' = <<>>
    BY <2>2 DEF Requested
  <2>3. CASE sent' # <<>> /\ sent'[1] = request'
    <3>1. Find(cfg'.envs, EnvID') # 0
      BY <1>1, <1>2
    <3>. QED  BY <2>3, <3>1 DEF Requested, request
  <2>. QED  BY <2>1, <2>2, <2>3
<1>6. Loaded' /\ Printed'
  BY <1>1, <1>2 DEF Known, Loaded, Printed
<1>7. Chosen'
  BY <1>1, <1>2 DEF Known, Chosen
<1>8. Asked' /\ Authorized'
  BY <1>1, <1>2 DEF Known, Asked, Authorized
<1>. QED  BY <1>5, <1>6, <1>7, <1>8 DEF Known

LEMMA NextKnown ==
  ASSUME Inv, Known, [Next]_vars
  PROVE  Known'
<1>. DEFINE kept == UNCHANGED <<world, cfg, catalog, found, logins, jwt, sent, listed>>
<1>1. CASE LoadCredentials
  <2>1. kept /\ at = "load" /\ at' \in {"login", "end"} /\ GivenFile
    BY <1>1 DEF LoadCredentials, runtime, results, Continue, Fail, End
  <2>. QED  BY <2>1, NothingNew
<1>2. CASE ListenFails \/ CognitoFails \/ PrintTokens \/ Report
  <2>1. kept /\ at' = "end" /\ at \notin {"load", "end"}
    BY <1>2 DEF ListenFails, CognitoFails, CognitoFailsTo, PrintTokens, Report, runtime, results,
                Fail, End
  <2>. QED  BY <2>1, NothingNew
<1>3. CASE BuildInput
  <2>1. /\ kept /\ at = "input"
        /\ at' = "end" \/ at' = IF NeedsToken THEN "login" ELSE "execute"
    BY <1>3 DEF BuildInput, runtime, results, Continue, Fail, End
  <2>. QED  BY <2>1, NothingNew
<1>4. CASE GiveUp \/ \E status \in Statuses : BackendAnswers(status)
  <2>1. kept /\ at' = "report" /\ at = "await answer"
    BY <1>4 DEF GiveUp, BackendAnswers, runtime, Continue
  <2>. QED  BY <2>1, NothingNew
<1>5. CASE UNCHANGED vars
  <2>1. kept /\ at' = at
    BY <1>5 DEF vars, runtime, results
  <2>. QED  BY <2>1, NothingNew
<1>. QED
  BY <1>1, <1>2, <1>3, <1>4, <1>5, LoadKnown, ListKnown, ResolveKnown, AskKnown, IssueKnown,
     ExecuteKnown DEF Next, RunE

LEMMA KnownInvariant == Spec => [](Inv /\ Known)
<1>1. Init => Inv /\ Known
  BY InitInv, InitKnown
<1>2. Inv /\ Known /\ [Next]_vars => (Inv /\ Known)'
  BY NextInv, NextKnown
<1>. QED  BY <1>1, <1>2, PTL DEF Spec
-----------------------------------------------------------------------------
\* What is ready is a document's catalog.
LEMMA DocIsDocument ==
  ASSUME Inv, Ready
  PROVE  Doc \in Documents /\ IsDocument(Doc) /\ catalog = CatalogOf(Doc)
<1>1. world \in Worlds
  BY DEF Inv, Done
<1>2. Doc \in Documents /\ Doc.valid
  BY <1>1, CliAssumption DEF Ready, Doc
<1>3. IsDocument(Doc)
  BY <1>2, CliAssumption
<1>4. catalog = CatalogOf(Doc)
  BY <1>2 DEF Ready, Catalogs
<1>. QED  BY <1>2, <1>3, <1>4

\* What is found, and what is listed, is an operation of the document.
LEMMA FoundIsOfDocument ==
  ASSUME Inv, Known, sent # <<>>
  PROVE  /\ \E o \in Operations(Doc) : found.op = Endpoint(Doc, o)
         /\ found.op.path \in Seq(Segments)
         /\ opts.ref.by = "path" =>
              /\ found.op.method = opts.ref.method
              /\ \/ found.op.path = opts.ref.path /\ found.params = NoParams
                 \/ /\ MatchesTemplate(found.op.path, opts.ref.path)
                    /\ found.params = Extracted(found.op.path, opts.ref.path)
<1>1. Ready /\ found = Lookup(catalog, opts.ref) /\ found.ok
  <2>1. (opts.command = "call" /\ GivenFile) \/ Ready
    BY DEF Inv, Places, Known, Loaded
  <2>. QED  BY <2>1 DEF Known, Loaded, Chosen, GivenFile, Inv, Places
<1>2. IsDocument(Doc) /\ catalog = CatalogOf(Doc)
  BY <1>1, DocIsDocument
<1>3. /\ Len(catalog) \in Nat /\ DOMAIN catalog = 1 .. Len(catalog)
      /\ \A n \in DOMAIN catalog : \E o \in Operations(Doc) : catalog[n] = Endpoint(Doc, o)
  BY <1>2, CatalogIsOfDocument
<1>4. PICK n \in DOMAIN catalog : found.op = catalog[n]
  BY <1>1, <1>3, FoundIsOfCatalog
<1>5. PICK o \in Operations(Doc) : found.op = Endpoint(Doc, o)
  BY <1>3, <1>4
<1>6. found.op.path \in Seq(Segments)
  BY <1>2, <1>5, EndpointIsOfDocument
<1>. QED  BY <1>1, <1>3, <1>5, <1>6, FoundIsOfCatalog
-----------------------------------------------------------------------------
\* The value that is given first, and the first that is not blank.
LEMMA FirstOf ==
  ASSUME NEW values, NEW n \in Nat, DOMAIN values = 1 .. n, NEW i \in 1 .. n
  PROVE  /\ (\A j \in 1 .. i - 1 : values[j] = Empty) /\ (values[i] # Empty \/ i = n)
              => FirstGiven(values) = values[i]
         /\ (\A j \in 1 .. i - 1 : Trim(values[j]) = Empty) /\ (Trim(values[i]) # Empty \/ i = n)
              => FirstNonEmpty(values) = Trim(values[i])
<1>1. ASSUME NEW S \in SUBSET (1 .. n), i \in S, \A j \in 1 .. i - 1 : j \notin S
      PROVE  Min(S) = i
  <2>1. S \in SUBSET Nat /\ S # {}
    BY <1>1
  <2>2. Min(S) \in S /\ \A y \in S : Min(S) =< y
    BY <2>1, MinIsThere
  <2>3. Min(S) <= i /\ Min(S) \in 1 .. n /\ Min(S) \notin 1 .. i - 1
    BY <1>1, <2>2
  <2>. QED  BY <2>3
<1>2. ASSUME NEW S \in SUBSET (1 .. n), \A j \in 1 .. i - 1 : j \notin S, i \notin S, i = n
      PROVE  S = {}
  <2>1. \A j \in 1 .. n : j = i \/ j \in 1 .. i - 1
    BY <1>2
  <2>. QED  BY <1>2, <2>1
<1>3. ASSUME \A j \in 1 .. i - 1 : values[j] = Empty, values[i] # Empty \/ i = n
      PROVE  FirstGiven(values) = values[i]
  <2>. DEFINE given == {j \in DOMAIN values : values[j] # Empty}
  <2>1. given \in SUBSET (1 .. n) /\ \A j \in 1 .. i - 1 : j \notin given
    BY <1>3
  <2>2. i \in given <=> values[i] # Empty
    OBVIOUS
  <2>3. FirstGiven(values) = IF given = {} THEN Empty ELSE values[Min(given)]
    BY DEF FirstGiven
  <2>. HIDE DEF given
  <2>4. CASE i \in given
    BY <1>1, <2>1, <2>3, <2>4
  <2>5. CASE i \notin given
    <3>1. given = {} /\ values[i] = Empty
      BY <1>2, <1>3, <2>1, <2>2, <2>5
    <3>. QED  BY <2>3, <3>1
  <2>. QED  BY <2>4, <2>5
<1>4. ASSUME \A j \in 1 .. i - 1 : Trim(values[j]) = Empty, Trim(values[i]) # Empty \/ i = n
      PROVE  FirstNonEmpty(values) = Trim(values[i])
  <2>. DEFINE full == {j \in DOMAIN values : Trim(values[j]) # Empty}
  <2>1. full \in SUBSET (1 .. n) /\ \A j \in 1 .. i - 1 : j \notin full
    BY <1>4
  <2>2. i \in full <=> Trim(values[i]) # Empty
    OBVIOUS
  <2>3. FirstNonEmpty(values) = IF full = {} THEN Empty ELSE Trim(values[Min(full)])
    BY DEF FirstNonEmpty
  <2>. HIDE DEF full
  <2>4. CASE i \in full
    BY <1>1, <2>1, <2>3, <2>4
  <2>5. CASE i \notin full
    <3>1. full = {} /\ Trim(values[i]) = Empty
      BY <1>2, <1>4, <2>1, <2>2, <2>5
    <3>. QED  BY <2>3, <3>1
  <2>. QED  BY <2>4, <2>5
<1>. QED  BY <1>3, <1>4

LEMMA FirstOfTwo ==
  ASSUME NEW a, NEW b
  PROVE  /\ FirstNonEmpty(<<a, b>>) = IF Trim(a) # Empty THEN Trim(a) ELSE Trim(b)
         /\ Trim(FirstNonEmpty(<<a, b>>)) = FirstNonEmpty(<<a, b>>)
<1>. DEFINE s == <<a, b>>
<1>1. DOMAIN s = 1 .. 2 /\ s[1] = a /\ s[2] = b
  OBVIOUS
<1>2. 1 \in 1 .. 2 /\ 2 \in 1 .. 2 /\ 2 \in Nat /\ 1 .. 1 - 1 = {} /\ 1 .. 2 - 1 = {1}
  OBVIOUS
<1>. HIDE DEF s
<1>3. Trim(a) # Empty => FirstNonEmpty(s) = Trim(a)
  <2>1. \A j \in 1 .. 1 - 1 : Trim(s[j]) = Empty
    BY <1>2
  <2>2. (\A j \in 1 .. 1 - 1 : Trim(s[j]) = Empty) /\ (Trim(s[1]) # Empty \/ 1 = 2)
          => FirstNonEmpty(s) = Trim(s[1])
    BY <1>1, <1>2, FirstOf
  <2>. QED  BY <1>1, <2>1, <2>2
<1>4. Trim(a) = Empty => FirstNonEmpty(s) = Trim(b)
  <2>1. ASSUME Trim(a) = Empty
        PROVE  \A j \in 1 .. 2 - 1 : Trim(s[j]) = Empty
    BY <1>1, <1>2, <2>1
  <2>2. (\A j \in 1 .. 2 - 1 : Trim(s[j]) = Empty) /\ (Trim(s[2]) # Empty \/ 2 = 2)
          => FirstNonEmpty(s) = Trim(s[2])
    BY <1>1, <1>2, FirstOf
  <2>. QED  BY <1>1, <2>1, <2>2
<1>5. FirstNonEmpty(<<a, b>>) = IF Trim(a) # Empty THEN Trim(a) ELSE Trim(b)
  BY <1>3, <1>4 DEF s
<1>6. \A v : Trim(Trim(v)) = Trim(v)
  BY DEF Trim, Empty, Blank, Password, Padded
<1>. QED  BY <1>5, <1>6

LEMMA FirstOfLayers ==
  ASSUME NEW values, NEW n \in 1 .. 3, DOMAIN values = 1 .. n
  PROVE  FirstGiven(values) = IF n = 1 \/ values[1] # Empty THEN values[1]
                              ELSE IF n = 2 \/ values[2] # Empty THEN values[2]
                              ELSE values[3]
<1>1. n \in Nat /\ 1 \in 1 .. n
  OBVIOUS
<1>2. CASE n = 1 \/ values[1] # Empty
  <2>1. \A j \in 1 .. 1 - 1 : values[j] = Empty
    OBVIOUS
  <2>2. FirstGiven(values) = values[1]
    BY <1>1, <1>2, <2>1, FirstOf
  <2>. QED  BY <1>2, <2>2
<1>3. CASE n # 1 /\ values[1] = Empty /\ (n = 2 \/ values[2] # Empty)
  <2>1. 2 \in 1 .. n /\ \A j \in 1 .. 2 - 1 : values[j] = Empty
    BY <1>3
  <2>2. FirstGiven(values) = values[2]
    BY <1>1, <1>3, <2>1, FirstOf
  <2>. QED  BY <1>3, <2>2
<1>4. CASE n # 1 /\ values[1] = Empty /\ n # 2 /\ values[2] = Empty
  <2>1. 3 \in 1 .. n /\ n = 3 /\ \A j \in 1 .. 3 - 1 : values[j] = Empty
    BY <1>4
  <2>2. FirstGiven(values) = values[3]
    BY <1>1, <2>1, FirstOf
  <2>. QED  BY <1>4, <2>2
<1>. QED  BY <1>2, <1>3, <1>4

\* What may set an environment: one layer, two, or three.
LEMMA LayersAre ==
  ASSUME NEW id
  PROVE  LET own == world.yaml.envs[Find(world.yaml.envs, id)]
             asked == FirstNonEmpty(<<world.os.default, world.yaml.default, "dev">>)
             layers == Layers(id)
             n == IF id # asked THEN 1 ELSE IF world.file.present THEN 3 ELSE 2
         IN  /\ DOMAIN layers = 1 .. n /\ Len(layers) = n
             /\ layers[1] = IF id # asked THEN own ELSE world.os
             /\ id = asked => layers[2] = own
             /\ n = 3 => layers[3] = Normalized(world.file)
<1>. DEFINE own == world.yaml.envs[Find(world.yaml.envs, id)]
            asked == FirstNonEmpty(<<world.os.default, world.yaml.default, "dev">>)
            layers == Layers(id)
            file == Normalized(world.file)
<1>1. layers = IF id # asked THEN <<own>>
               ELSE <<world.os, own>> \o IF world.file.present THEN <<file>> ELSE <<>>
  BY DEF Layers
<1>. HIDE DEF own, asked, layers, file
<1>2. CASE id # asked
  BY <1>1, <1>2 DEF own, asked, layers
<1>3. CASE id = asked /\ ~world.file.present
  <2>1. layers = <<world.os, own>> \o <<>>
    BY <1>1, <1>3
  <2>2. <<world.os, own>> \o <<>> = <<world.os, own>>
    OBVIOUS
  <2>. QED  BY <1>3, <2>1, <2>2 DEF own, asked, layers
<1>4. CASE id = asked /\ world.file.present
  <2>. DEFINE S == {world.os, own, file}
              s == <<world.os, own>>
              t == <<file>>
  <2>1. layers = s \o t
    BY <1>1, <1>4
  <2>2. s \in Seq(S) /\ Len(s) = 2 /\ s[1] = world.os /\ s[2] = own
    OBVIOUS
  <2>3. t \in Seq(S) /\ Len(t) = 1 /\ t[1] = file
    OBVIOUS
  <2>. HIDE DEF S, s, t
  <2>4. s \in Seq(S) /\ t \in Seq(S)
    BY <2>2, <2>3
  <2>5. /\ DOMAIN (s \o t) = 1 .. Len(s) + Len(t) /\ Len(s \o t) = Len(s) + Len(t)
        /\ \A i \in 1 .. Len(s) : (s \o t)[i] = s[i]
        /\ \A i \in 1 .. Len(t) : (s \o t)[Len(s) + i] = t[i]
    BY <2>4, Joined
  <2>6. /\ DOMAIN layers = 1 .. 3 /\ Len(layers) = 3
        /\ layers[1] = world.os /\ layers[2] = own /\ layers[3] = file
    BY <2>1, <2>2, <2>3, <2>5
  <2>. QED  BY <1>4, <2>6 DEF own, asked, layers, file
<1>. QED  BY <1>2, <1>3, <1>4

\* The settings of the environment that is asked for are those of its layers.
LEMMA SettingsAreLayered ==
  ASSUME Inv, Ready, Find(cfg.envs, EnvID) # 0
  PROVE  LET layers == Layers(EnvID)
             own == world.yaml.envs[Find(world.yaml.envs, EnvID)]
         IN  /\ Env.pool = FirstGiven([i \in DOMAIN layers |-> layers[i].pool])
             /\ Env.client = FirstGiven([i \in DOMAIN layers |-> layers[i].client])
             /\ Env.base = IF Len(layers) > 1 /\ world.os.base # Empty
                             THEN world.os.base ELSE own.base
<1>. DEFINE yaml == world.yaml.envs
            e == Find(yaml, EnvID)
            own == yaml[e]
            asked == FirstNonEmpty(<<world.os.default, world.yaml.default, "dev">>)
            k == Find(yaml, asked)
            layers == Layers(EnvID)
            pools == [i \in DOMAIN layers |-> layers[i].pool]
            clients == [i \in DOMAIN layers |-> layers[i].client]
            file == Normalized(world.file)
            under == IF world.file.present THEN Filled(own, file) ELSE own
<1>1. yaml \in Seq(Environments)
  BY CliAssumption DEF Inv, Done
<1>2. cfg.envs = WithSettings(yaml, k, world.file, world.os)
  BY DEF Ready, Load
<1>3. SameEnvironments(cfg.envs, yaml)
  BY <1>1, <1>2, SettingsKeep
<1>4. Find(cfg.envs, EnvID) = e /\ e # 0 /\ e \in DOMAIN yaml /\ own.id = EnvID
  BY <1>1, <1>3, SameFound, FoundIsThere
<1>5. Env = cfg.envs[e] /\ DOMAIN own = {"id", "base", "production", "pool", "client", "flow"}
  <2>1. own \in Environments
    BY <1>1, <1>4
  <2>. QED  BY <1>4, <2>1 DEF Env, Environments
<1>6. CASE EnvID # asked
  <2>1. k # e
    <3>1. k # 0 => yaml[k].id = asked
      BY <1>1, FoundIsThere
    <3>. QED  BY <1>4, <1>6, <3>1
  <2>2. Env = own
    <3>. HIDE DEF yaml, e, k
    <3>. QED  BY <1>2, <1>4, <1>5, <2>1 DEF WithSettings
  <2>3. DOMAIN layers = 1 .. 1 /\ Len(layers) = 1 /\ layers[1] = own
    BY <1>6, LayersAre
  <2>. HIDE DEF layers, own, yaml, e
  <2>4. DOMAIN pools = 1 .. 1 /\ pools[1] = own.pool /\ DOMAIN clients = 1 .. 1 /\ clients[1] = own.client
    BY <2>3
  <2>5. 1 \in 1 .. 3
    OBVIOUS
  <2>. HIDE DEF pools, clients
  <2>6. FirstGiven(pools) = own.pool /\ FirstGiven(clients) = own.client
    BY <2>4, <2>5, FirstOfLayers
  <2>. QED  BY <2>2, <2>3, <2>6 DEF pools, clients, layers, own, yaml, e
<1>7. CASE EnvID = asked
  <2>. DEFINE n == IF world.file.present THEN 3 ELSE 2
  <2>1. k = e /\ Env = Overlaid(under, world.os)
    <3>1. k = e
      BY <1>7
    <3>2. cfg.envs = [yaml EXCEPT ![e] = Overlaid(under, world.os)]
      BY <1>2, <1>4, <3>1 DEF WithSettings
    <3>. HIDE DEF under, yaml, e
    <3>. QED  BY <1>4, <1>5, <3>1, <3>2
  <2>2. /\ DOMAIN layers = 1 .. n /\ Len(layers) = n
        /\ layers[1] = world.os /\ layers[2] = own /\ (n = 3 => layers[3] = file)
    BY <1>7, LayersAre
  <2>. HIDE DEF layers, own, yaml, e, file
  <2>3. /\ DOMAIN pools = 1 .. n /\ pools[1] = world.os.pool /\ pools[2] = own.pool
        /\ n = 3 => pools[3] = file.pool
        /\ DOMAIN clients = 1 .. n /\ clients[1] = world.os.client /\ clients[2] = own.client
        /\ n = 3 => clients[3] = file.client
    BY <2>2
  <2>4. n \in 1 .. 3
    OBVIOUS
  <2>. HIDE DEF pools, clients
  <2>5. /\ FirstGiven(pools) = IF world.os.pool # Empty THEN world.os.pool
                               ELSE IF n = 2 \/ own.pool # Empty THEN own.pool ELSE file.pool
        /\ FirstGiven(clients) = IF world.os.client # Empty THEN world.os.client
                                 ELSE IF n = 2 \/ own.client # Empty THEN own.client
                                 ELSE file.client
    BY <2>3, <2>4, FirstOfLayers
  <2>6. /\ under.base = own.base
        /\ under.pool = IF n = 2 \/ own.pool # Empty THEN own.pool ELSE file.pool
        /\ under.client = IF n = 2 \/ own.client # Empty THEN own.client ELSE file.client
        /\ DOMAIN under = {"id", "base", "production", "pool", "client", "flow"}
    BY <1>5, OverlaySets, OverlayKeeps DEF FillEmpty
  <2>. HIDE DEF under
  <2>7. /\ Env.base = Overlay(under.base, world.os.base)
        /\ Env.pool = Overlay(under.pool, world.os.pool)
        /\ Env.client = Overlay(under.client, world.os.client)
    BY <2>1, <2>6, OverlaySets
  <2>. QED  BY <2>2, <2>5, <2>6, <2>7 DEF Overlay, pools, clients, layers, own, yaml, e
<1>. QED  BY <1>6, <1>7

\* A login is one of the environment that is asked for, a request goes there, and
\* carries the token of the login, or none.
LEMMA LoginOfEnvironment ==
  ASSUME Inv, Known, logins # <<>>, ~GivenFile
  PROVE  LET layers == Layers(EnvID)
             pools == [i \in DOMAIN layers |-> layers[i].pool]
             clients == [i \in DOMAIN layers |-> layers[i].client]
         IN  /\ logins[1].pool = Trim(FirstGiven(pools))
             /\ logins[1].client = FirstNonEmpty(<<opts.client, FirstGiven(clients)>>)
<1>. DEFINE ofEnv == CognitoConfigFor(cfg, EnvID, opts.client, opts.username, opts.password)
            client == FirstNonEmpty(<<opts.client, Env.client>>)
<1>1. /\ Ready /\ Find(cfg.envs, EnvID) # 0
      /\ logins[1] = Normalized(LoginConfig) /\ ValidConfig(logins[1])
  BY DEF Known, Loaded, Asked
<1>2. /\ ofEnv.pool = Env.pool /\ ofEnv.client = client
      /\ DOMAIN ofEnv = {"pool", "client", "username", "password", "flow"}
  BY DEF CognitoConfigFor, Env
<1>3. opts.command # "call" => LoginConfig = [ofEnv EXCEPT !.client = Overlay(@, opts.client),
                                                          !.username = Overlay(@, opts.username),
                                                          !.password = Overlay(@, opts.password)]
  BY DEF LoginConfig
<1>4. opts.command = "call" => LoginConfig = ofEnv
  BY DEF LoginConfig
<1>. HIDE DEF ofEnv
<1>5. /\ LoginConfig.pool = Env.pool
      /\ LoginConfig.client = IF opts.command = "call" THEN client ELSE Overlay(client, opts.client)
      /\ DOMAIN LoginConfig = {"pool", "client", "username", "password", "flow"}
  BY <1>2, <1>3, <1>4
<1>6. logins[1].pool = Trim(Env.pool) /\ logins[1].client = Trim(LoginConfig.client)
  BY <1>1, <1>5 DEF Normalized
<1>7. logins[1].client # Empty
  BY <1>1 DEF ValidConfig
<1>8. logins[1].client = client
  <2>1. /\ client = IF Trim(opts.client) # Empty THEN Trim(opts.client) ELSE Trim(Env.client)
        /\ Trim(client) = client
    BY FirstOfTwo
  <2>. HIDE DEF client
  <2>2. CASE opts.command = "call" \/ opts.client = Empty
    BY <1>5, <1>6, <2>1, <2>2 DEF Overlay
  <2>3. CASE opts.command # "call" /\ opts.client # Empty
    <3>1. logins[1].client = Trim(opts.client)
      BY <1>5, <1>6, <2>3 DEF Overlay
    <3>. QED  BY <1>7, <2>1, <3>1
  <2>. QED  BY <2>2, <2>3
<1>9. /\ Env.pool = FirstGiven([i \in DOMAIN Layers(EnvID) |-> Layers(EnvID)[i].pool])
      /\ Env.client = FirstGiven([i \in DOMAIN Layers(EnvID) |-> Layers(EnvID)[i].client])
  BY <1>1, SettingsAreLayered
<1>. QED  BY <1>6, <1>8, <1>9

LEMMA TokenOfLogin ==
  ASSUME NEW v, Input.mode = (IF NeedsToken THEN "jwt" ELSE "none")
  PROVE  /\ NeedsToken => Authorization(Input, SessionValue(v)) = SessionValue(v)
         /\ ~NeedsToken => Authorization(Input, jwt) = Absent
<1>1. SessionValue(v) # Absent
  BY DEF SessionValue, Absent, Value
<1>. QED  BY <1>1 DEF Authorization

LEMMA OnlyOne ==
  ASSUME NEW s, s = <<>> \/ s = <<s[1]>>, NEW k \in DOMAIN s
  PROVE  s # <<>> /\ k = 1
<1>1. DOMAIN <<>> = {} /\ DOMAIN <<s[1]>> = {1}
  OBVIOUS
<1>. QED  BY <1>1

LEMMA KnownIsOfOneEnvironment ==
  ASSUME Inv, Known
  PROVE  OneEnvironment
<1>1. ASSUME NEW k \in DOMAIN logins, ~GivenFile
      PROVE  LET layers == Layers(EnvID)
                 pools == [i \in DOMAIN layers |-> layers[i].pool]
                 clients == [i \in DOMAIN layers |-> layers[i].client]
             IN  /\ logins[k].pool = Trim(FirstGiven(pools))
                 /\ logins[k].client = FirstNonEmpty(<<opts.client, FirstGiven(clients)>>)
  <2>1. logins # <<>> /\ k = 1
    BY OnlyOne DEF Inv, Done, Once
  <2>. QED  BY <1>1, <2>1, LoginOfEnvironment
<1>2. ASSUME NEW k \in DOMAIN sent
      PROVE  /\ sent[k].env = EnvID
             /\ sent[k].base = IF Len(Layers(EnvID)) > 1 /\ world.os.base # Empty
                                 THEN world.os.base
                                 ELSE world.yaml.envs[Find(world.yaml.envs, EnvID)].base
             /\ \E o \in Origins(found.op) :
                  IF RequiresAuth(Doc, OpAt(o)) /\ ~opts.noAuth
                    THEN logins # <<>> /\ sent[k].auth = SessionValue(logins[1])
                    ELSE logins = <<>> /\ sent[k].auth = Absent
  <2>1. sent # <<>> /\ k = 1
    BY OnlyOne DEF Inv, Done, Once
  <2>2. /\ sent[k].env = EnvID /\ sent[k].base = Env.base
        /\ sent[k].auth = Authorization(Input, jwt) /\ Find(cfg.envs, EnvID) # 0
    BY <2>1 DEF Known, Requested
  <2>3. Ready
    BY <2>1 DEF Inv, Places, Known, Loaded, GivenFile
  <2>4. sent[k].base = IF Len(Layers(EnvID)) > 1 /\ world.os.base # Empty
                        THEN world.os.base
                        ELSE world.yaml.envs[Find(world.yaml.envs, EnvID)].base
    BY <2>2, <2>3, SettingsAreLayered
  <2>5. PICK o \in Operations(Doc) : found.op = Endpoint(Doc, o)
    BY <2>1, FoundIsOfDocument
  <2>6. IsDocument(Doc)
    BY <2>3, DocIsDocument
  <2>7. o \in Origins(found.op) /\ found.op.auth = RequiresAuth(Doc, OpAt(o))
    BY <2>5, <2>6, EndpointIsOfDocument DEF Origins, OpAt, ItemAt
  <2>8. IF NeedsToken
          THEN logins # <<>> /\ sent[k].auth = SessionValue(logins[1])
          ELSE logins = <<>> /\ sent[k].auth = Absent
    <3>1. Input.mode = (IF NeedsToken THEN "jwt" ELSE "none")
      BY DEF Input
    <3>2. IF NeedsToken THEN logins # <<>> /\ jwt = SessionValue(logins[1]) ELSE logins = <<>>
      BY <2>1 DEF Known, Authorized
    <3>. QED  BY <2>2, <3>1, <3>2, TokenOfLogin
  <2>9. NeedsToken <=> RequiresAuth(Doc, OpAt(o)) /\ ~opts.noAuth
    BY <2>7 DEF NeedsToken
  <2>. QED  BY <2>2, <2>4, <2>7, <2>8, <2>9
<1>. QED  BY <1>1, <1>2 DEF OneEnvironment

\* A login and a request are of the environment that was asked for, and the token
\* is the one of that login, whatever overrides what.
THEOREM OneEnvironmentOnly == Spec => []OneEnvironment
<1>1. Inv /\ Known => OneEnvironment
  BY KnownIsOfOneEnvironment
<1>. QED  BY <1>1, KnownInvariant, PTL
-----------------------------------------------------------------------------
\* What is requested is the path that is typed, but where a flag sets a parameter.
AsTyped(segment, i) ==
  LET s == found.op.path[i]
      last == Max({j \in DOMAIN found.op.path : found.op.path[j] = s})
      flags == DOMAIN opts.pathParams
  IN  IF s.param
        THEN Received(segment) = IF s.text \in flags THEN opts.pathParams[s.text]
                                                     ELSE opts.ref.path[last]
        ELSE /\ segment.of = opts.ref.path[i]
             /\ \A name \in s.holes \cap flags : segment.filled[name] = opts.pathParams[name]

LEMMA PathAsTyped ==
  ASSUME found.op.path \in Seq(Segments),
         \/ found.op.path = opts.ref.path /\ found.params = NoParams
         \/ /\ MatchesTemplate(found.op.path, opts.ref.path)
            /\ found.params = Extracted(found.op.path, opts.ref.path)
  PROVE  /\ Len(URLPath) = Len(opts.ref.path) /\ DOMAIN URLPath = DOMAIN found.op.path
         /\ \A i \in DOMAIN URLPath : AsTyped(URLPath[i], i)
<1>. DEFINE path == found.op.path
            n == Len(path)
            places(s) == {j \in DOMAIN path : path[j] = s}
<1>1. n \in Nat /\ DOMAIN path = 1 .. n /\ \A i \in 1 .. n : path[i] \in Segments
  OBVIOUS
<1>2. /\ DOMAIN URLPath = 1 .. n
      /\ \A i \in 1 .. n :
           URLPath[i] = [of |-> path[i],
                         filled |-> [name \in Holes(path[i]) \cap DOMAIN PathParams |->
                                       PathParams[name]]]
  BY <1>1 DEF URLPath
<1>3. Len(URLPath) = n /\ n = Len(opts.ref.path)
  <2>1. Len(URLPath) = n
    BY <1>1, <1>2
  <2>. QED  BY <2>1 DEF MatchesTemplate, MatchesShape
<1>4. \A name \in DOMAIN opts.pathParams :
        name \in DOMAIN PathParams /\ PathParams[name] = opts.pathParams[name]
  BY DEF PathParams
<1>5. \A name : name \notin DOMAIN opts.pathParams =>
        /\ name \in DOMAIN PathParams <=> name \in DOMAIN found.params
        /\ name \in DOMAIN found.params => PathParams[name] = found.params[name]
  BY DEF PathParams
<1>6. ASSUME NEW i \in 1 .. n
      PROVE  Max(places(path[i])) \in 1 .. n /\ path[Max(places(path[i]))] = path[i]
  <2>1. places(path[i]) \in SUBSET (0 .. n) /\ i \in places(path[i])
    BY <1>1
  <2>2. Max(places(path[i])) \in places(path[i])
    BY <1>1, <2>1, MaxIsThere
  <2>. QED  BY <1>1, <2>2
<1>7. ASSUME NEW i \in 1 .. n
      PROVE  AsTyped(URLPath[i], i)
  <2>. DEFINE s == path[i]
              last == Max(places(s))
              filled == [name \in Holes(s) \cap DOMAIN PathParams |-> PathParams[name]]
              segment == URLPath[i]
  <2>1. last \in 1 .. n /\ path[last] = s /\ s \in Segments
    BY <1>1, <1>6
  <2>2. segment.of = s /\ segment.filled = filled
    <3>1. segment = [of |-> s, filled |-> filled]
      BY <1>2
    <3>. HIDE DEF segment, s, filled
    <3>. QED  BY <3>1
  <2>3. AsTyped(segment, i) <=>
          IF s.param
            THEN Received(segment) = IF s.text \in DOMAIN opts.pathParams
                                       THEN opts.pathParams[s.text] ELSE opts.ref.path[last]
            ELSE /\ segment.of = opts.ref.path[i]
                 /\ \A name \in s.holes \cap DOMAIN opts.pathParams :
                      segment.filled[name] = opts.pathParams[name]
    BY DEF AsTyped
  <2>. SUFFICES AsTyped(segment, i)
    OBVIOUS
  <2>. HIDE DEF last, s, path, segment
  <2>4. CASE s.param
    <3>1. Received(segment) = IF s.text \in DOMAIN PathParams THEN PathParams[s.text] ELSE s
      <4>1. Holes(s) = {s.text}
        BY <2>4 DEF Holes
      <4>. QED  BY <2>2, <4>1 DEF Received
    <3>2. CASE s.text \in DOMAIN opts.pathParams
      BY <1>4, <2>3, <2>4, <3>1, <3>2
    <3>3. CASE /\ s.text \notin DOMAIN opts.pathParams
               /\ path = opts.ref.path /\ found.params = NoParams
      <4>1. DOMAIN found.params = {}
        BY <3>3 DEF NoParams
      <4>2. Received(segment) = s
        BY <1>5, <3>1, <3>3, <4>1
      <4>. QED  BY <2>1, <2>3, <2>4, <3>3, <4>2
    <3>4. CASE /\ s.text \notin DOMAIN opts.pathParams
               /\ MatchesTemplate(path, opts.ref.path)
               /\ found.params = Extracted(path, opts.ref.path)
      <4>1. s.text \in DOMAIN found.params
        BY <1>1, <2>4, <3>4 DEF Extracted, s
      <4>2. found.params[s.text] =
              opts.ref.path[Max({j \in DOMAIN path : path[j] = Param(s.text)})]
        BY <3>4, <4>1 DEF Extracted
      <4>3. Param(s.text) = s
        BY <2>1, <2>4 DEF Segments, Param
      <4>4. found.params[s.text] = opts.ref.path[last]
        BY <4>2, <4>3 DEF last
      <4>. QED  BY <1>5, <2>3, <2>4, <3>1, <3>4, <4>1, <4>4
    <3>. QED  BY <3>2, <3>3, <3>4 DEF path
  <2>5. CASE ~s.param
    <3>1. s = opts.ref.path[i]
      <4>1. CASE path = opts.ref.path
        BY <4>1 DEF s
      <4>2. CASE MatchesTemplate(path, opts.ref.path)
        BY <1>1, <2>5, <4>2 DEF MatchesTemplate, s
      <4>. QED  BY <4>1, <4>2 DEF path
    <3>2. ASSUME NEW name \in s.holes \cap DOMAIN opts.pathParams
          PROVE  segment.filled[name] = opts.pathParams[name]
      <4>1. Holes(s) = s.holes
        BY <2>5 DEF Holes
      <4>. QED  BY <1>4, <2>2, <4>1
    <3>. QED  BY <2>2, <2>3, <2>5, <3>1, <3>2
  <2>. QED  BY <2>4, <2>5
<1>. QED  BY <1>1, <1>2, <1>3, <1>7

LEMMA KnownReachesWhatWasAsked ==
  ASSUME Inv, Known
  PROVE  ReachesWhatWasAsked
<1>. DEFINE override == FirstNonEmpty(<<world.os.spec, world.yaml.spec>>)
<1>. SUFFICES ASSUME NEW k \in DOMAIN sent
              PROVE  /\ override \in DOMAIN world.docs =>
                          \E item \in IdsIn(world.docs[override].paths) :
                            item.path = found.op.path /\ sent[k].method \in DOMAIN item.ops
                     /\ opts.ref.by = "path" =>
                          /\ sent[k].method = opts.ref.method
                          /\ Len(sent[k].path) = Len(opts.ref.path)
                          /\ \A i \in DOMAIN sent[k].path : AsTyped(sent[k].path[i], i)
  BY DEF ReachesWhatWasAsked, AsTyped
<1>1. sent # <<>> /\ k = 1
  BY OnlyOne DEF Inv, Done, Once
<1>2. sent[k].method = found.op.method /\ sent[k].path = URLPath
  BY <1>1 DEF Known, Requested
<1>3. Ready
  BY <1>1 DEF Inv, Places, Known, Loaded, GivenFile
<1>4. ASSUME override \in DOMAIN world.docs
      PROVE  \E item \in IdsIn(world.docs[override].paths) :
               item.path = found.op.path /\ sent[k].method \in DOMAIN item.ops
  <2>1. Empty \notin DOMAIN world.docs
    BY CliAssumption DEF Inv, Done
  <2>2. cfg.spec = ResolveSpec(override, DOMAIN world.docs)
    BY <1>3 DEF Ready, Load
  <2>. HIDE DEF override
  <2>3. cfg.spec = override
    BY <1>4, <2>1, <2>2, SpecIsThere
  <2>4. PICK o \in Operations(Doc) : found.op = Endpoint(Doc, o)
    BY <1>1, FoundIsOfDocument
  <2>5. /\ ItemAt(o) \in IdsIn(Doc.paths) /\ o[2] \in DOMAIN ItemAt(o).ops
        /\ found.op.path = ItemAt(o).path /\ found.op.method = o[2]
    BY <1>3, <2>4, DocIsDocument, EndpointIsOfDocument DEF ItemAt
  <2>. QED  BY <1>2, <2>3, <2>5 DEF Doc
<1>5. ASSUME opts.ref.by = "path"
      PROVE  /\ sent[k].method = opts.ref.method
             /\ Len(sent[k].path) = Len(opts.ref.path)
             /\ \A i \in DOMAIN sent[k].path : AsTyped(sent[k].path[i], i)
  <2>1. /\ found.op.path \in Seq(Segments) /\ found.op.method = opts.ref.method
        /\ \/ found.op.path = opts.ref.path /\ found.params = NoParams
           \/ /\ MatchesTemplate(found.op.path, opts.ref.path)
              /\ found.params = Extracted(found.op.path, opts.ref.path)
    BY <1>1, <1>5, FoundIsOfDocument
  <2>. QED  BY <1>2, <2>1, PathAsTyped
<1>. QED  BY <1>4, <1>5

\* What is requested is what was typed, of the document that was named, however the
\* templates of the document overlap.
THEOREM ReachesOnlyWhatWasAsked == Spec => []ReachesWhatWasAsked
<1>1. Inv /\ Known => ReachesWhatWasAsked
  BY KnownReachesWhatWasAsked
<1>. QED  BY <1>1, KnownInvariant, PTL
-----------------------------------------------------------------------------
\* What is listed is an operation of the document, as the catalog has it.
LEMMA ListedIsThere ==
  ASSUME Inv, Known, NEW n \in DOMAIN listed
  PROVE  /\ IsDocument(Doc)
         /\ \E o \in Origins(listed[n]) : o \in Operations(Doc) /\ listed[n] = Endpoint(Doc, o)
<1>1. listed # <<>>
  OBVIOUS
<1>2. Ready /\ listed = Filter(catalog, opts.tag, opts.search)
  BY <1>1 DEF Known, Loaded, Printed
<1>3. IsDocument(Doc) /\ catalog = CatalogOf(Doc)
  BY <1>2, DocIsDocument
<1>4. PICK o \in Operations(Doc) : listed[n] = Endpoint(Doc, o)
  BY <1>2, <1>3, ListedIsOfDocument
<1>5. o \in Origins(listed[n])
  BY <1>3, <1>4, EndpointIsOfDocument DEF Origins, ItemAt
<1>. QED  BY <1>3, <1>4, <1>5

LEMMA KnownHasParametersOnce ==
  ASSUME Inv, Known
  PROVE  ParametersOnce
<1>. SUFFICES ASSUME NEW n \in DOMAIN listed
              PROVE  \E o \in Origins(listed[n]) :
                       CollectedOnce(listed[n].params, ItemAt(o).params, OpAt(o).params)
  BY DEF ParametersOnce, CollectedOnce
<1>1. PICK o \in Origins(listed[n]) : o \in Operations(Doc) /\ listed[n] = Endpoint(Doc, o)
  BY ListedIsThere
<1>2. /\ ItemAt(o).params \in Seq(IdsIn(ItemAt(o).params))
      /\ OpAt(o).params \in Seq(IdsIn(OpAt(o).params))
      /\ listed[n].params = CollectParams(Doc, ItemAt(o).params \o OpAt(o).params)
  BY <1>1, ListedIsThere, EndpointIsOfDocument DEF ItemAt, OpAt
<1>. QED  BY <1>2, ParametersCollected

\* However often a parameter is declared, an operation is listed with it once.
THEOREM ParametersListedOnce == Spec => []ParametersOnce
<1>1. Inv /\ Known => ParametersOnce
  BY KnownHasParametersOnce
<1>. QED  BY <1>1, KnownInvariant, PTL
-----------------------------------------------------------------------------
\* What is shown of a body with a content type is what the document says of that.
LEMMA BodyIsOfDocument ==
  ASSUME Inv, Known, NEW n \in DOMAIN listed, HasMedia(listed[n])
  PROVE  /\ IsSchemas(Doc.schemas)
         /\ \E o \in Origins(listed[n]) :
              LET media == Media(o, listed[n])
                  body == listed[n].body[1]
              IN  /\ media.schema = Missing \/ \E i \in DOMAIN Doc.schemas : media.schema = <<i>>
                  /\ body.schema = ViewOf(Doc.schemas, media.schema)
                  /\ body.example =
                       First(<<media.example, ExampleFromMap(media.examples),
                               IF body.schema = Missing THEN Missing ELSE body.schema[1].sample>>)
<1>. DEFINE ep == listed[n]
<1>1. PICK o \in Origins(ep) : o \in Operations(Doc) /\ ep = Endpoint(Doc, o)
  BY ListedIsThere
<1>2. IsDocument(Doc)
  BY ListedIsThere
<1>. DEFINE op == OpAt(o)
            type == PreferredMedia(op.body[1])
            media == op.body[1][type]
            view == ViewOf(Doc.schemas, media.schema)
            made == IF view = Missing THEN Missing ELSE view[1].sample
            body == [type |-> type, schema |-> view,
                     example |-> First(<<media.example, ExampleFromMap(media.examples), made>>)]
            nothing == [type |-> "", schema |-> Missing, example |-> Missing]
<1>3. ep.body = RequestBody(Doc, op.body)
  <2>1. Endpoint(Doc, o).body = RequestBody(Doc, Doc.paths[o[1]].ops[o[2]].body)
    BY DEF Endpoint
  <2>. HIDE DEF ep
  <2>. QED  BY <1>1, <2>1 DEF OpAt, ItemAt
<1>4. op.body # Missing /\ DOMAIN op.body[1] # {}
  <2>1. ep.body # Missing /\ ep.body[1].type # ""
    BY DEF HasMedia
  <2>. HIDE DEF ep, op
  <2>2. op.body # Missing
    BY <1>3, <2>1 DEF RequestBody
  <2>3. ASSUME DOMAIN op.body[1] = {} PROVE FALSE
    <3>1. ep.body = <<nothing>>
      BY <1>3, <2>2, <2>3 DEF RequestBody
    <3>2. nothing.type = "" /\ <<nothing>>[1] = nothing
      OBVIOUS
    <3>. HIDE DEF nothing
    <3>. QED  BY <2>1, <3>1, <3>2
  <2>. QED  BY <2>2, <2>3
<1>5. ep.body = <<body>>
  <2>. HIDE DEF ep, op
  <2>. QED  BY <1>3, <1>4 DEF RequestBody
<1>6. type \in DOMAIN op.body[1]
  BY <1>4 DEF PreferredMedia
<1>7. media.schema = Missing \/ \E i \in DOMAIN Doc.schemas : media.schema = <<i>>
  <2>1. ItemAt(o) \in IdsIn(Doc.paths) /\ o[2] \in DOMAIN ItemAt(o).ops /\ op = ItemAt(o).ops[o[2]]
    BY <1>1, <1>2, EndpointIsOfDocument DEF ItemAt, OpAt
  <2>. HIDE DEF op, type
  <2>. QED  BY <1>2, <1>4, <1>6, <2>1 DEF IsDocument
<1>8. /\ body.type = type /\ body.schema = view
      /\ body.example = First(<<media.example, ExampleFromMap(media.examples), made>>)
  <2>. HIDE DEF view, type, media, made
  <2>. QED  OBVIOUS
<1>9. ep.body[1] = body
  <2>. HIDE DEF body, ep
  <2>. QED  BY <1>5
<1>10. Media(o, ep) = media
  <2>. HIDE DEF body, ep, type, view, made
  <2>. QED  BY <1>8, <1>9 DEF Media
<1>11. LET shown == ep.body[1] IN
       /\ shown.schema = ViewOf(Doc.schemas, Media(o, ep).schema)
       /\ shown.example =
            First(<<Media(o, ep).example, ExampleFromMap(Media(o, ep).examples),
                    IF shown.schema = Missing THEN Missing ELSE shown.schema[1].sample>>)
  <2>. HIDE DEF body, ep, type, media
  <2>. QED  BY <1>8, <1>9, <1>10
<1>. HIDE DEF media
<1>. QED  BY <1>1, <1>2, <1>7, <1>10, <1>11 DEF IsDocument

\* A view is there where a schema is.
LEMMA ViewOfOne ==
  ASSUME NEW schemas, NEW id
  PROVE  /\ ViewOf(schemas, <<id>>) # Missing /\ ViewOf(schemas, <<id>>)[1] = View(schemas, id)
         /\ ViewOf(schemas, Missing) = Missing
<1>1. DOMAIN <<id>> = {1} /\ <<id>>[1] = id
  OBVIOUS
<1>2. DOMAIN ViewOf(schemas, <<id>>) = {1} /\ ViewOf(schemas, <<id>>)[1] = View(schemas, id)
  BY <1>1 DEF ViewOf
<1>3. ViewOf(schemas, <<id>>) # Missing
  BY <1>2 DEF Missing
<1>4. ViewOf(schemas, Missing) = Missing
  BY DEF ViewOf, Missing
<1>. QED  BY <1>2, <1>3, <1>4

\* Of the examples there may be the first is taken.
LEMMA FirstOfThree ==
  ASSUME NEW a, NEW b, NEW c
  PROVE  First(<<a, b, c>>) = IF a # Missing THEN a ELSE IF b # Missing THEN b ELSE c
<1>. DEFINE options == <<a, b, c>>
            there == {i \in DOMAIN options : options[i] # Missing}
<1>. SUFFICES First(options) = IF a # Missing THEN a ELSE IF b # Missing THEN b ELSE c
  OBVIOUS
<1>1. DOMAIN options = 1 .. 3 /\ options[1] = a /\ options[2] = b /\ options[3] = c
  OBVIOUS
<1>2. First(options) = IF there = {} THEN Missing ELSE options[Min(there)]
  BY DEF First
<1>. HIDE DEF options
<1>3. there \in SUBSET (1 .. 3) /\ there \in SUBSET Nat
  BY <1>1
<1>4. (1 \in there <=> a # Missing) /\ (2 \in there <=> b # Missing) /\ (3 \in there <=> c # Missing)
  BY <1>1
<1>. HIDE DEF there
<1>5. CASE there = {}
  BY <1>2, <1>4, <1>5
<1>6. CASE there # {}
  <2>1. Min(there) \in there /\ \A y \in there : Min(there) =< y
    BY <1>3, <1>6, MinIsThere
  <2>2. First(options) = options[Min(there)]
    BY <1>2, <1>6
  <2>3. PICK m \in 1 .. 3 : m = Min(there) /\ m \in there /\ \A y \in there : m =< y
    BY <1>3, <2>1
  <2>4. CASE m = 1
    BY <1>1, <1>4, <2>2, <2>3, <2>4
  <2>5. CASE m = 2
    BY <1>1, <1>4, <2>2, <2>3, <2>5
  <2>6. CASE m = 3
    BY <1>1, <1>4, <2>2, <2>3, <2>6
  <2>. QED  BY <2>3, <2>4, <2>5, <2>6
<1>. QED  BY <1>5, <1>6

\* However a schema is composed, and whether or not it comes back to itself, what
\* ls shows of it is what the document says.
THEOREM ViewsShowTheDocument == Spec => []ViewsFaithful
<1>1. ASSUME Inv, Known, NEW n \in DOMAIN listed, HasMedia(listed[n])
      PROVE  \E o \in Origins(listed[n]) :
               LET shown == listed[n].body[1].schema
                   schema == Media(o, listed[n]).schema
               IN  IF schema = Missing THEN shown = Missing
                   ELSE shown # Missing /\ Faithful(Doc.schemas, schema[1], shown[1])
  <2>1. IsSchemas(Doc.schemas)
    BY <1>1, BodyIsOfDocument
  <2>2. PICK o \in Origins(listed[n]) :
          LET schema == Media(o, listed[n]).schema IN
          /\ schema = Missing \/ \E i \in DOMAIN Doc.schemas : schema = <<i>>
          /\ listed[n].body[1].schema = ViewOf(Doc.schemas, schema)
    BY <1>1, BodyIsOfDocument
  <2>. DEFINE schema == Media(o, listed[n]).schema
              shown == listed[n].body[1].schema
  <2>. HIDE DEF schema, shown
  <2>3. CASE schema = Missing
    <3>1. shown = Missing
      BY <2>2, <2>3, ViewOfOne DEF schema, shown
    <3>. QED  BY <2>3, <3>1 DEF schema, shown
  <2>4. ASSUME NEW i \in DOMAIN Doc.schemas, schema = <<i>>
        PROVE  schema # Missing /\ shown # Missing /\ Faithful(Doc.schemas, schema[1], shown[1])
    <3>1. schema[1] = i /\ schema # Missing
      BY <2>4 DEF Missing
    <3>2. shown # Missing /\ shown[1] = View(Doc.schemas, i)
      BY <2>2, <2>4, ViewOfOne DEF schema, shown
    <3>. QED  BY <2>1, <3>1, <3>2, ViewIsFaithful
  <2>. QED  BY <2>2, <2>3, <2>4 DEF schema, shown
<1>2. Inv /\ Known => ViewsFaithful
  BY <1>1 DEF ViewsFaithful
<1>. QED  BY <1>2, KnownInvariant, PTL

\* What is proposed for a body is the example the document gives for its content
\* type, or one that fits the schema to the last part, if the schema is one the
\* views can follow.
THEOREM ExamplesFitTheirSchemas == Spec => []ExamplesConform
<1>1. ASSUME Inv, Known, NEW n \in DOMAIN listed, HasMedia(listed[n])
      PROVE  \E o \in Origins(listed[n]) :
               LET media == Media(o, listed[n])
                   example == listed[n].body[1].example
               IN  CASE media.example # Missing -> example = media.example
                     [] media.example = Missing /\ ExampleFromMap(media.examples) # Missing ->
                          example = ExampleFromMap(media.examples)
                     [] OTHER -> IF media.schema = Missing THEN example = Missing
                                 ELSE Proposable(Doc.schemas, media.schema[1], example)
  <2>1. IsSchemas(Doc.schemas)
    BY <1>1, BodyIsOfDocument
  <2>2. PICK o \in Origins(listed[n]) :
          LET media == Media(o, listed[n])
              body == listed[n].body[1]
          IN  /\ media.schema = Missing \/ \E i \in DOMAIN Doc.schemas : media.schema = <<i>>
              /\ body.schema = ViewOf(Doc.schemas, media.schema)
              /\ body.example =
                   First(<<media.example, ExampleFromMap(media.examples),
                           IF body.schema = Missing THEN Missing ELSE body.schema[1].sample>>)
    BY <1>1, BodyIsOfDocument
  <2>. DEFINE media == Media(o, listed[n])
              body == listed[n].body[1]
              made == IF body.schema = Missing THEN Missing ELSE body.schema[1].sample
  <2>. HIDE DEF media, body
  <2>3. body.example = IF media.example # Missing THEN media.example
                       ELSE IF ExampleFromMap(media.examples) # Missing
                              THEN ExampleFromMap(media.examples) ELSE made
    BY <2>2, FirstOfThree DEF media, body
  <2>4. CASE media.schema = Missing
    <3>1. made = Missing
      BY <2>2, <2>4, ViewOfOne DEF media, body
    <3>. HIDE DEF made
    <3>. QED  BY <2>3, <2>4, <3>1 DEF media, body
  <2>5. ASSUME NEW i \in DOMAIN Doc.schemas, media.schema = <<i>>
        PROVE  media.schema # Missing /\ Proposable(Doc.schemas, media.schema[1], made)
    <3>1. media.schema[1] = i /\ media.schema # Missing
      BY <2>5 DEF Missing
    <3>2. made = View(Doc.schemas, i).sample
      BY <2>2, <2>5, ViewOfOne DEF media, body
    <3>. QED  BY <2>1, <3>1, <3>2, ExampleIsProposable
  <2>6. CASE media.schema # Missing
    <3>1. Proposable(Doc.schemas, media.schema[1], made)
      BY <2>2, <2>5, <2>6 DEF media
    <3>. HIDE DEF made
    <3>. QED  BY <2>3, <2>6, <3>1 DEF media, body
  <2>. QED  BY <2>4, <2>6
<1>2. Inv /\ Known => ExamplesConform
  BY <1>1 DEF ExamplesConform
<1>. QED  BY <1>2, KnownInvariant, PTL
=============================================================================
