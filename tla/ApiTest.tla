------------------------------- MODULE ApiTest ------------------------------
(***************************************************************************)
(* apitest/client.go: the calls of one Client, the JWT they share, and     *)
(* what the assertions of their tests tell.                                *)
(*                                                                         *)
(* Do runs in the goroutine of its test.  Nothing guards didAuth, jwt and  *)
(* jwtErr, so every read and write of them is a step of its own, and a     *)
(* read of jwt during its two-word write is a race: it gives the empty     *)
(* string, or a string whose pointer and length do not belong together.    *)
(* setup.parallel says whether tests overlap (t.Parallel) or run in turn.  *)
(***************************************************************************)
EXTENDS Catalog, Response

CONSTANTS Calls,    \* the calls, one per test
          Setups,   \* what New may be given, and how the tests are run
          Asks,     \* of each call: what is called, its options, its assertions
          Answers   \* what the backend may answer: [status, body]

ASSUME ApiTestAssumption ==
  /\ IsFiniteSet(Calls) /\ DOMAIN Asks = Calls
  /\ \A answer \in Answers : answer.status \in Nat
  /\ \A c \in Calls : \A i \in DOMAIN Asks[c].checks : LET a == Asks[c].checks[i] IN
       /\ a.check \in {"status", "contains", "json", "capture", "decode", "no error"}
       /\ a.check \in {"json", "capture"} => a.path \in Seq(PathParts)
  /\ \A s \in Setups : /\ {s.noAuth, s.jwt, s.parallel, s.valid} \subseteq BOOLEAN
                       /\ s.cognito \in {"nil", "invalid", "valid"}

VARIABLES setup,    \* the options of the client: [noAuth, jwt, cognito, spec, valid, parallel]
          didAuth,  \* c.didAuth
          jwt,      \* c.jwt
          jwtErr,   \* c.jwtErr # nil
          call,     \* where each call is: [at, found, jwt, sent, out, body]
          mints     \* external: how many tokens Cognito was asked for

client == <<didAuth, jwt, jwtErr>>
vars == <<setup, client, call, mints>>

\* Strings: no token, the one of WithJWT, a torn read, or that of a mint.
Empty == "empty"
Fixed == "fixed"
Torn == "torn"
Minted == "minted"
Strings == {Empty, Fixed, Torn, Minted}

\* New: WithClientNoAuth wins over a token, a token over Cognito.
KnowsWhenToldNone(s) == s.noAuth
KnowsFromStart(s) == s.noAuth \/ s.jwt

Nothing == [status |-> 0, error |-> FALSE, auth |-> Absent]
Idle == [at |-> "idle", found |-> NotFound, jwt |-> Empty, sent |-> <<>>,
         out |-> Nothing, body |-> NoBody]

Init == /\ setup \in Setups
        /\ didAuth = KnowsFromStart(setup)
        /\ jwt = IF ~setup.noAuth /\ setup.jwt THEN Fixed ELSE Empty
        /\ jwtErr = FALSE
        /\ call = [c \in Calls |-> Idle]
        /\ mints = 0

At(c, where) == call[c].at = where
Goto(c, where) == call' = [call EXCEPT ![c].at = where]
Ended(c) == call[c].at \in {"passed", "failed"}
-----------------------------------------------------------------------------
MayStart(c) == At(c, "idle") /\ (setup.parallel \/ \A d \in Calls : At(d, "idle") \/ Ended(d))

\* The operation of a call.  Without a document the call is taken as it is, and
\* CallByID fails; with one, Do takes the method of a call it does not find for an
\* operation id, if there is no slash in the path and no option.
Operation(spec, ask) ==
  LET ops == spec[1]
      named == LookupOperationID(ops, ask.method)
      asked == LookupMethodPath(ops, ask.method, ask.path)
  IN  IF spec = <<>>
        THEN IF ask.byID THEN NotFound
             ELSE Found([method |-> ask.method, path |-> ask.path, auth |-> TRUE], NoParams)
      ELSE IF ask.byID
        THEN IF named.ok THEN LookupMethodPath(ops, named.op.method, named.op.path) ELSE NotFound
      ELSE IF ~asked.ok /\ ~ask.slash /\ ask.plain THEN named ELSE asked

Resolved == [spec \in {s.spec : s \in Setups} |-> [c \in Calls |-> Operation(spec, Asks[c])]]

NeedsTokenAlways(ask, op) == TRUE
NeedsToken(ask, op) == ~ask.noAuth /\ op.auth

\* Do up to the choice of the auth mode: only an authenticated call goes on to
\* ensureJWT, which begins with the read of didAuth.
Start(c) ==
  /\ MayStart(c)
  /\ LET found == Resolved[setup.spec][c] IN
     call' = [call EXCEPT ![c].found = found,
                ![c].at = IF ~found.ok \/ ~Asks[c].readable THEN "failed"
                          ELSE IF ~NeedsToken(Asks[c], found.op) THEN "send"
                          ELSE IF didAuth THEN "cached" ELSE "claim"]
  /\ UNCHANGED <<setup, client, mints>>

\* return c.jwt
ReadJWT(c) ==
  /\ At(c, "cached")
  /\ \E seen \in IF jwt = Torn THEN {Empty, Torn} ELSE {jwt} :
       call' = [call EXCEPT ![c].at = "returned", ![c].jwt = seen]
  /\ UNCHANGED <<setup, client, mints>>

\* didAuth is set before the token is there; without a complete Cognito
\* configuration there will be none.
Claim(c) ==
  /\ At(c, "claim")
  /\ didAuth' = TRUE
  /\ Goto(c, IF setup.cognito = "valid" THEN "mint" ELSE "returned")
  /\ UNCHANGED <<setup, jwt, jwtErr, mints>>

AskCognito(c) ==
  /\ At(c, "mint")
  /\ mints' = mints + 1
  /\ Goto(c, "await token")
  /\ UNCHANGED <<setup, client>>

\* External: Cognito answers, and the write of c.jwt begins.
CognitoIssues(c) ==
  /\ At(c, "await token")
  /\ jwt' = Torn
  /\ Goto(c, "store")
  /\ UNCHANGED <<setup, didAuth, jwtErr, mints>>

Store(c) ==
  /\ At(c, "store")
  /\ jwt' = Minted
  /\ Goto(c, "cached")
  /\ UNCHANGED <<setup, didAuth, jwtErr, mints>>

\* External: the login fails.  The error stays with the client.
CognitoFailsTo(c, where, err) ==
  /\ At(c, "await token")
  /\ jwtErr' = err
  /\ Goto(c, where)
  /\ UNCHANGED <<setup, didAuth, jwt, mints>>
CognitoFailsOnce(c) == CognitoFailsTo(c, "failed", FALSE)
CognitoFailsForNow(c) == CognitoFailsTo(c, "mint", FALSE)
CognitoFails(c) == CognitoFailsTo(c, "returned", TRUE)

\* Back in Do: an error of any mint fails the test.
CheckErr(c) ==
  /\ At(c, "returned")
  /\ Goto(c, IF jwtErr THEN "failed" ELSE "send")
  /\ UNCHANGED <<setup, client, mints>>
-----------------------------------------------------------------------------
Input(c) == [mode |-> IF NeedsToken(Asks[c], call[c].found.op) THEN "jwt" ELSE "none",
             header |-> Asks[c].header, custom |-> FALSE, confirm |-> FALSE]

\* Execute, never with production set; from some base URLs none can be built.
Send(c) ==
  /\ At(c, "send")
  /\ call' = IF setup.valid
               THEN [call EXCEPT ![c].at = "await answer",
                       ![c].sent = <<Authorization(Input(c),
                                       IF call[c].jwt = Empty THEN Absent
                                                              ELSE SessionValue(call[c].jwt))>>]
               ELSE [call EXCEPT ![c].at = "answered", ![c].out = NotSent]
  /\ UNCHANGED <<setup, client, mints>>

Outcome(c, o, b) ==
  /\ At(c, "await answer")
  /\ call' = [call EXCEPT ![c].at = "answered", ![c].out = o, ![c].body = b]
  /\ UNCHANGED <<setup, client, mints>>

\* External: the backend answers; the body can be read or not.
BackendAnswers(c, answer) ==
  \/ Outcome(c, Answer(call[c].sent[1], answer.status), answer.body)
  \/ Outcome(c, Unreadable(call[c].sent[1], answer.status), NoBody)
GiveUp(c) == At(c, "await answer") /\ Outcome(c, TransportError(call[c].sent[1]), NoBody)

\* The assertions of the test, one after the other.
Judge(c) ==
  /\ At(c, "answered")
  /\ Goto(c, IF \A i \in DOMAIN Asks[c].checks :
                  Holds(call[c].out, call[c].body, Asks[c].checks[i])
               THEN "passed" ELSE "failed")
  /\ UNCHANGED <<setup, client, mints>>
-----------------------------------------------------------------------------
Run(c) == \/ Start(c) \/ ReadJWT(c) \/ Claim(c) \/ AskCognito(c) \/ Store(c)
          \/ CheckErr(c) \/ Send(c) \/ GiveUp(c) \/ Judge(c)

Next == \E c \in Calls : \/ Run(c) \/ CognitoIssues(c) \/ CognitoFails(c)
                         \/ \E answer \in Answers : BackendAnswers(c, answer)

Spec == Init /\ [][Next]_vars

\* A goroutine runs on by itself and the executor's HTTP client gives up in the
\* end; Cognito owes no answer, as the login has no deadline (context.Background).
FairSpec == Spec /\ \A c \in Calls : WF_vars(Run(c))
-----------------------------------------------------------------------------
\* The fields of the client and the points of its calls.
TypeOK ==
  /\ setup \in Setups
  /\ didAuth \in BOOLEAN /\ jwtErr \in BOOLEAN
  /\ jwt \in Strings
  /\ DOMAIN call = Calls
  /\ \A c \in Calls :
       /\ call[c].at \in {"idle", "cached", "claim", "mint", "await token", "store",
                          "returned", "send", "await answer", "answered", "passed", "failed"}
       /\ call[c].jwt \in Strings
  /\ mints \in 0 .. Cardinality(Calls)

LogsIn == ~setup.noAuth /\ ~setup.jwt /\ setup.cognito = "valid"
SentWith(c, auth) == call[c].sent # <<>> => call[c].sent[1] = auth
Authenticated(c) == call[c].found.ok /\ ~Asks[c].noAuth /\ call[c].found.op.auth

\* README, "JWT is cached and thread safe": a client that can log in sends every
\* authenticated call with the token it minted, however its tests are run.
TokenAttached ==
  LogsIn => \A c \in Calls : Authenticated(c) => SentWith(c, SessionValue(Minted))

\* While its tests run in turn that is so, and after a login that failed no
\* authenticated call is sent at all.
TokenAttachedInTurn ==
  ~setup.parallel =>
    /\ TokenAttached
    /\ jwtErr => \A c \in Calls : Authenticated(c) => call[c].sent = <<>>

\* A client never asks Cognito twice while its tests run in turn, whatever the
\* answer was, and never at all, even if they overlap, with a fixed token or told
\* to use none: each authenticated call then carries that token, or what its test
\* put into the header itself.
MintedAtMostOnce ==
  /\ ~setup.parallel => mints <= 1
  /\ setup.noAuth \/ setup.jwt =>
       /\ mints = 0
       /\ \A c \in Calls : Authenticated(c) =>
            SentWith(c, IF setup.noAuth THEN OwnHeader(Asks[c]) ELSE SessionValue(Fixed))

\* An assertion that a call without an answer cannot meet: of one, the body is the
\* empty text, which contains itself, and any part of it is nil.
Telling(a) ==
  CASE a.check = "contains" -> a.want # ""
    [] a.check = "json"     -> Printed(a.want) # IF a.path = <<>> THEN "" ELSE Printed(Nil)
    [] a.check = "capture"  -> a.path # <<>>
    [] OTHER                -> TRUE

\* The values a JSON value consists of, each with the path that leads to it, at a
\* depth; and those of a body at a path.
Contents(place) ==
  CASE place.value.kind = "object" ->
         {[path |-> Append(place.path, [by |-> "name", name |-> n]),
           value |-> place.value.fields[n]] : n \in DOMAIN place.value.fields}
    [] place.value.kind = "array" ->
         {[path |-> Append(place.path, [by |-> "index", index |-> i - 1]),
           value |-> place.value.items[i]] : i \in 1 .. Len(place.value.items)}
    [] OTHER -> {}
PlacesAt(value, depth) ==
  LET places[n \in 0 .. depth] ==
        IF n = 0 THEN {[path |-> <<>>, value |-> value]}
        ELSE UNION {Contents(place) : place \in places[n - 1]}
  IN  places[depth]
ValuesAt(body, path) ==
  IF body.json # <<>>
    THEN {place.value : place \in {p \in PlacesAt(body.json[1], Len(path)) : p.path = path}}
    ELSE {[kind |-> "string", text |-> body.text] : whole \in {<<>>} \cap {path}}

\* What an assertion says of an answer: of its status, that it is of the class that
\* is named, 2xx if none; of its body, that it contains a text, reads as JSON, or has
\* at a path a value that is not nil, or that prints as the one that is wanted.
Bears(o, body, a) ==
  CASE a.check = "status" ->
         CASE a.want.form = "exact" -> o.status = a.want.n
           [] a.want.form = "class" -> o.status \in 100 * a.want.n .. 100 * a.want.n + 99
           [] OTHER                 -> a.want.form = "default" /\ o.status \in 200 .. 299
    [] a.check = "contains" -> a.want \in body.words
    [] a.check = "json"     -> \E v \in ValuesAt(body, a.path) : Printed(v) = Printed(a.want)
    [] a.check = "capture"  -> \E v \in ValuesAt(body, a.path) : v # Nil
    [] a.check = "decode"   -> body.json # <<>>
    [] OTHER                -> TRUE

\* A test that passes has seen what it asserts: unless all it asks for is what a
\* failed call shows too, an answer was there, could be read, and bears it out.  Of
\* a JSON value the code promises no more than that it prints as the one wanted.
PassMeansExpected ==
  \A c \in Calls : At(c, "passed") =>
    \A i \in DOMAIN Asks[c].checks : Telling(Asks[c].checks[i]) =>
      /\ call[c].sent # <<>> /\ ~call[c].out.error
      /\ Bears(call[c].out, call[c].body, Asks[c].checks[i])

\* A public call, by option or by the document, is sent without Authorization,
\* though a login hangs or has failed, and its test comes to an end.
PublicCallsGoThrough ==
  \A c \in Calls :
    call[c].found.ok /\ Asks[c].readable /\ ~Authenticated(c) /\ setup.valid
      ~> Ended(c) /\ call[c].sent = <<Absent>>
=============================================================================
