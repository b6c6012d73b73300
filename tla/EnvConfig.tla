----------------------------- MODULE EnvConfig ------------------------------
(***************************************************************************)
(* environments/config.go: the configuration a process starts with, from   *)
(* environments.yaml, the credentials file and the process environment.    *)
(*                                                                         *)
(* Of the Cognito settings of an environment there is pool for UserPoolID, *)
(* Region and Endpoint, which are treated alike, client, and flow.  Load   *)
(* fills Credentials for no environment but "" (all of them), so they are  *)
(* one record.  A name of an OpenAPI file stands for the file in the       *)
(* working directory or, if there is none, beside the configuration.       *)
(***************************************************************************)
EXTENDS Integers, Sequences, FiniteSetsExt

\* strings.TrimSpace, on the values told apart: the empty string, a blank one,
\* and a password with and without a blank at its end.
Empty == ""
Blank == " "
Password == "secret"
Padded == "secret "
Trim(v) == CASE v = Blank -> Empty [] v = Padded -> Password [] OTHER -> v

FirstNonEmpty(values) ==
  LET full == {i \in DOMAIN values : Trim(values[i]) # Empty} IN
  IF full = {} THEN Empty ELSE Trim(values[Min(full)])

\* The first environment with the id; 0 stands for nil.
Find(envs, id) ==
  LET at == {i \in DOMAIN envs : envs[i].id = id} IN IF at = {} THEN 0 ELSE Min(at)

\* LoadFile: the credentials file, normalised; the password stays as it is.
Normalized(c) ==
  [c EXCEPT !.pool = Trim(@), !.client = Trim(@), !.username = Trim(@),
            !.flow = IF Trim(@) = Empty THEN "srp" ELSE Trim(@)]

FillEmpty(old, new) == IF old = Empty THEN new ELSE old
Overlay(old, new) == IF new # Empty THEN new ELSE old

\* The file fills what the environment leaves open; the process environment
\* replaces it.
Filled(env, c) ==
  [env EXCEPT !.pool = FillEmpty(@, c.pool), !.client = FillEmpty(@, c.client),
              !.flow = FillEmpty(@, c.flow)]
Overlaid(env, os) ==
  [env EXCEPT !.base = Overlay(@, os.base), !.pool = Overlay(@, os.pool),
              !.client = Overlay(@, os.client), !.flow = Overlay(@, os.flow)]

WithSettingsAll(envs, at, file, os) ==
  [i \in DOMAIN envs |->
     Overlaid(IF file.present THEN Filled(envs[i], Normalized(file)) ELSE envs[i], os)]
WithSettings(envs, at, file, os) ==
  IF at = 0 THEN envs
  ELSE [envs EXCEPT
          ![at] = Overlaid(IF file.present THEN Filled(@, Normalized(file)) ELSE @, os)]

\* resolveOpenAPISpec: the first candidate that exists.  A name that is given
\* and does not exist is passed over.
ResolveSpec(given, existing) ==
  LET candidates == (IF given = Empty THEN <<>> ELSE <<given>>)
                      \o <<"openapi", "framework">>
      there == {i \in DOMAIN candidates : candidates[i] \in existing}
  IN  IF there = {} THEN Empty ELSE candidates[Min(there)]

\* Load and applyEnvOverlays; file is the credentials file, specs the names
\* under which there is an OpenAPI file.
Load(yaml, file, os, specs) ==
  LET asked == FirstNonEmpty(<<os.default, yaml.default, "dev">>)
      at == Find(yaml.envs, asked)
      spec == ResolveSpec(FirstNonEmpty(<<os.spec, yaml.spec>>), specs)
      creds == IF file.present THEN Normalized(file)
                               ELSE [username |-> Empty, password |-> Empty]
  IN  IF ~yaml.valid \/ (file.present /\ ~file.valid) \/ spec = Empty \/ yaml.envs = <<>>
        THEN [ok |-> FALSE]
        ELSE [ok |-> TRUE, spec |-> spec,
              default |-> IF at = 0 THEN yaml.envs[1].id ELSE asked,
              envs |-> WithSettings(yaml.envs, at, file, os),
              creds |-> [username |-> Overlay(creds.username, os.username),
                         password |-> Overlay(creds.password, os.password)]]

\* CognitoConfigFor an environment that exists.
CognitoConfigFor(cfg, id, client, username, password) ==
  LET env == cfg.envs[Find(cfg.envs, id)] IN
  [pool |-> env.pool,
   client |-> FirstNonEmpty(<<client, env.client>>),
   username |-> FirstNonEmpty(<<username, cfg.creds.username>>),
   password |-> FirstNonEmpty(<<password, cfg.creds.password>>),
   flow |-> FirstNonEmpty(<<env.flow, "srp">>)]

\* Validate, of a configuration it has normalised.
ValidConfig(c) ==
  /\ c.pool # Empty /\ c.client # Empty
  /\ c.username # Empty /\ c.password # Empty
  /\ c.flow \in {"srp", "password"}
=============================================================================
