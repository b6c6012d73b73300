# apismith, modelled

TLA+ models of apismith: a console (web page and local server) and a CLI that
call the operations of an OpenAPI document, log in to Amazon Cognito for a
token, and keep a short history; and a Go package that does the same in tests.
The models follow `src/`; `PROJECT.json` maps every definition to its lines.

## The system

| Part | State | Operations | Modules |
|---|---|---|---|
| `request/history.go` | ring of items, next id, mutex | Add, List, Get, Clear | `RequestJournal` (abstract), `History`, `HistoryProofs` |
| `auth/manager.go`, `auth/cognito` | one session: tokens, client, issued, expires; mutex | Generate (one or two round trips), Set, Clear, AccessToken, Snapshot | `AuthManager`, `AuthManagerProofs` |
| `request/executor.go` | none | Execute, MaskHeaders, BuildURL | `Executor` |
| `server/server.go` | the two above, shared by a goroutine per HTTP request | eight stateful handlers | `Console` (composes `History`, `AuthManager`, `Executor`), `ConsoleProofs` |
| `ui/app.js`, sending | `state`, the dialog, the button, the list | select, send, confirm, restore, clear | `Explorer`, `ExplorerProofs` |
| `ui/app.js`, the form | parameters, body form and editor, the list and what it is of | type, switch, collect, list, restore, clear, reload; the server's restart | `Page` (composes `History`, `Executor`), `PageProofs` |
| `apitest/client.go`, `response.go` | cached JWT and its error, unsynchronised | New, Do, CallByID; the assertions | `ApiTest` (uses `Catalog`, `Executor`), `Response`, `ApiTestProofs` |
| `openapi/schema.go` | none | viewFromSchema, mergeAllOf, exampleFromSchemaView | `Schema`; `Views` says what is right of them |
| `openapi/parser.go`, `find.go` | none | the catalog of a document, Lookup, Filter | `Catalog` (uses `Schema`), `CatalogProofs` |
| `environments/config.go` | configuration, fixed after Load | Load, resolveOpenAPISpec, Find, CognitoConfigFor | `EnvConfig` |
| `cli/` | one run of `call`, `jwt`, `ls` or `ui` | RunE, RunUI | `Cli` (composes `Catalog`, `Views`, `EnvConfig`, `Executor`), `CliProofs` |

How they interact: the page makes HTTP calls to the server and never waits for
one before it lets the user act again. Each handler of the server calls the
history and the manager under their own mutexes; nothing spans two of those
calls, and `Execute` and `Generate` wait for the backend and for Cognito in
between. The CLI and `apitest` use the executor and Cognito directly, without the
server and without its session. A page may outlive the server it was loaded from:
the history is only in memory, and its ids begin at 1 in every start.

What is hard in it: handlers that interleave at every call to a shared part;
logins that end in another order than they began, or after the session was
cleared; timeouts that race answers; a page whose awaits let clicks in; a test
client whose fields are shared by parallel tests; and configuration from four
places that overrides itself. `hazards` in `PROJECT.json` lists each at its line.

## How the modules correspond to the code

**History.** Each method holds `h.mu` throughout, so Add and Clear are actions,
List and Get are operators. What an item carries besides its id is one record.
`journal` and `floor` are auxiliary: everything added, and how much had been at
the last Clear. `RequestJournal` promises a reader an append-only log of which
the newest part since the last clear is listed; `History` refines it with
`listing <- List`, `Window <- Capacity`.

**AuthManager.** The manager's methods are one action or operator each.
`Generate` is `StartLogin`, `ProvePassword` (SRP only), `CognitoIssues`,
`FinishLogin` or `FailLogin`; any other login, a clear or time may come between.
Time is in ticks. A login does not outlive its context's deadline: in the server
that is the 60 s of `middleware.Timeout` (`server/server.go:47`), which the AWS
client honours. A token carries, for the properties only, whom it was issued to
and when.

**Executor.** No state: the production guard, the choice of the Authorization
value, masking, and the five shapes of an outcome. A value is told apart by where
it came from.

**Console.** `handler[r]` is where the goroutine of request `r` is. It is cut
exactly at the calls to history and manager and at the two waits: `handleExecute`
is `Refuse`/`Prepare` (which reads the session's token), `Send`, `BackendAnswers`
or `GiveUp`, `AddToHistory`; `handleGenerateJWT` is the actions of a login and
then `Snapshot`, which is a second visit to the manager. `delivered` is what the
backends received. The session's token belongs to no environment: the code
attaches it to a request to any of them, and so does the model.

**Explorer.** One action per uninterrupted turn of JavaScript. `sends[n]` is the
n-th run of `sendRequest`; restoring a history item and the click on Clear are
the other two callbacks with awaits. Several entries of the list may have been
clicked before the first item comes (`restoring[f]`), and the items come in any
order; so it is in `Page`. The server is the page's environment: it
executes in any order, also what the page gave up on, and any call may fail. The
dialog is modal, and its `returnValue` survives from one opening to the next.

**Page.** The form of the selected operation, as `selectEndpoint`, typing, the
switch between form and editor, and `restoreHistory` leave it, and
`collectRequest` on it. `History` is the server's, instantiated; another page
adds to it and clears it, and `Restart` begins it anew, which nothing on the page
notices (`shown.boot` remembers for the properties which start a list is of).
What `Explorer` treats - overlapping sends, the dialog - is left out here: one
send is on its way at a time. A JSON text is told apart by where it comes from:
the operation's example, a form, the user. A header has its name in the document
and its canonical name, which is what the history records, with the Content-Type
that `Execute` adds when a body goes without one. `Unlisted` are operations the
history may have and the page's catalog has not, since the document may be another
one by now: to restore one leaves the selected operation, and puts the environment,
the values and the body of the entry into its form (`RestoreEndpoint`, `Recalled`).

**ApiTest, Response.** Every read and write of `didAuth`, `jwt`, `jwtErr` is a
step. The write of `jwt`, a two-word Go string, has a state in between in which a
reader gets the empty string or a torn one. `setup` is what `New` was given, and
whether tests overlap. What a call means is looked up in the `Catalog`; a path
without a slash may be an operation's id. The assertions of its test are judged on
what came back, with `Response`'s reading of JSON paths and its status classes. Every
JSON value carries the text `%v` prints of it, because that is what `ExpectJSON`
compares (`Printed`); a body is said to contain some texts, and the empty one always.
What is asserted is stated apart from the code: `Bears` looks for a value at the path
among all the values the body consists of, and `Telling` says which assertions a
failed call cannot meet; it does meet `ExpectBodyContains("")` and a JSON path that
should be nil.

**Schema, Catalog.** Operators. A document has its schemas by id, and a schema
may refer to any, itself included; `View` is `viewFromSchema` with its `visiting`
set as an argument, a recursive function rather than a recursive operator. The
example of a body is the content type's, then its named examples', then its schema's;
that of a parameter likewise. A path is a sequence of segments that are parameters or
literals, which may have placeholders within (`LitWith`): they count in substitution,
and not in matching. A search has the texts and paths that contain it. The order of the
catalog is a number for each operation (`SortKey`), by which they are listed.
`IsSchemas` and `IsDocument` say what the library hands over: finitely many
schemas, `items` at most one, compositions in sequence, every reference resolved.

**Views.** Not code, but what is right of it. `Faithful` judges a view: "recursive"
only if the schema does come back to itself (`Cyclic`), no property the schema and
its parts do not declare, and all of them unless a part is composed itself. It is
about names of properties, and says nothing of items, enumerations and what parts
compose. `Proposable` judges an example that is made of a schema down to its last
part (`AllClaims`): types, enumerations, and that all is there which is required, by
a part it is composed of too. It is for a schema that can be `Followed`: acyclic, with
JSON's types, with enumerations and examples that fit their own schema, composed only
of plain objects that share no property, and requiring only what is declared. Outside
of this the code does propose values that do not fit. An example that the document
gives for the content type itself comes first, and is proposed as it is.

**EnvConfig.** Operators. A string of the configuration is told apart by whether
it is empty, blank or has a blank at its end, because `TrimSpace` is what makes
the differences. Region and endpoint are treated like the pool id and left out.

**Cli.** `world` is everything a command is given: documents by file name, three
sources of configuration, flags. The actions are the stretches of `RunE` between
its waits and its early returns, each with the branch to exit code 1; `jwt` skips
loading when it is given a credentials file, `ui` ends in a server that runs until
its listener fails. A segment of a URL is the segment of the template with the values
that were filled in, escaped, for a parameter or for placeholders within a literal.

## What the runs show

| Run | Shows | Bounds, and why they are enough |
|---|---|---|
| `history` | types; the ring is exactly the newest part since Clear; ids find what they named; refines the journal | capacity 2, 6 additions, two contents: trimming thrice over with a clear at every point. Proved for all values besides. |
| `auth` | fields of one login; a live token is served; a stale one only for a login's duration; status agrees with tokens | 2 callers, 2 clients, one SRP and one password, lifetimes silent, 1, 2; timeout 2, 6 ticks: two logins and a clear in every order, and expiry before and after the answer. Proved for all values besides. |
| `console` | an id shown names one request; every outcome is recorded once, as answered; production is confirmed; no Authorization value is kept | 3 requests of every kind at once, alike under symmetry; a history of one place, so the second addition trims; the default environment is the production one; one login configuration; inputs incomplete, unbuildable, of an unknown environment; a clock of 2 ticks. Proved for any number of requests besides. |
| `console_live` | every request is answered; the handlers' steps are steps of `History` and `AuthManager` | 2 requests, no symmetry (it is unsound for liveness) |
| `explorer` | what the dialog showed is what is sent; overlap is bounded by selections; a quiet page is current; the button comes back | 2 sends, 2 selections, 2 fetches of items at once, 2 operations, a production and a development environment: two sends overlap only after a second selection, and a restore under the open dialog changes both operation and environment. An item is fetched only while the bound on selections lets it be selected. Safety proved for all values besides. |
| `explorer_esc` | violation, see findings | |
| `page` | a click restores what the list showed, or nothing; what a restored form sends is what was recorded, with the exceptions named; switching keeps the body | 4 actions of the user, 2 fetches of items at once, 2 requests per start of the server, 2 starts, a history of one place: an entry that was listed is dropped, cleared, or replaced by a restart before the answer. Three operations have between them a parameter in each place, headers with a canonical name, with another one, `Authorization` and `Content-Type`, a body with a field, one without and none; another page sends one of them, or an operation the page does not have. |
| `apitest` | in turn: the token is attached, minted once; always: a fixed token never mints; a test that passes has seen what it asserts; public calls go through | 3 calls (by id, by a method that may be an id, public by path), every kind of client, with and without a document, in turn and overlapping; answers that match and that do not: bodies with two items and with one, the number 3 and the text "3", an empty body; assertions that a failed call meets, too |
| `apitest_race` | violation | |
| `cli` | exit 0 means what it says; production needs the flag; login, token and URL are of one environment; what was typed is what is requested, of the document that was named; a command ends; what `ls` shows of parameters and schemas is what the document says | families of commands, each crossed within itself: references over overlapping templates, one with a placeholder within a segment, and a duplicate id, with and without `--path`, `--no-auth`, a header; which OpenAPI files exist and which are named; 4 configurations, 3 credentials files, 6 process environments, 4 choices of environment, 3 sets of flags, for `call` and `jwt`, blank values among them; the configurations for `ui`; credentials files given to `jwt`; every form of `--expect` with statuses on the sides of 300 and 400; filters of `ls`; all graphs of three schemas of some shape (scalars, enumerations, objects, arrays, allOf, oneOf, cycles); examples of a content type, named or not, before their schema's; properties required by a part; parameters declared twice |
| `call_status`, `call_password` | violations | |

Deadlock is not checked where the program stops by design: all requests served,
all tests over, the command ended, the bound on selections used up. In `history`
and `auth` the bounds on additions and on the clock never block Clear, so there
it is checked.

**Fairness.** `Console`: weak fairness of what the server does by itself,
including its two timeouts (`GiveUp` is the `http.Client`'s 30 s,
`LoginFails` the request context's 60 s); none for the backend, Cognito or the
clock, so `EventuallyAnswered` does not rest on anybody else. `Explorer`: every
call of a send ends with an answer or a failure; nothing is assumed of the user.
`ApiTest` and `Cli`: the goroutine runs on (`Run(c)`, `RunE`); Cognito, asked
with `context.Background()`, owes nothing, hence `EndsUnlessCognitoHangs` and not
more, and no listener owes `ui` a failure.

## Findings

1. **Esc confirms production** (`explorer_esc`, `ui/app.js:239`). The promise
   goes by `dialog.returnValue`, which Esc leaves as the last button set it.
   After one confirmed send, Esc in the next dialog sends.
2. **The test client's token is not thread safe** (`apitest_race`,
   `apitest/client.go:133`), though `apitest/README.md:123` says so: `didAuth`
   is set before the token is there, and a parallel call goes out without one.
3. **A 304 exits 0** (`call_status`, `cli/call.go:177`): the default success is
   below 400, not 2xx as `cli/help.go:125` and `README.md:71` say.
4. **Passwords are trimmed** (`call_password`, `environments/config.go:269`),
   though `auth/cognito/config.go:65-66` says they deliberately are not.

`environments.yaml`'s overlays apply to the environment that is asked for as the
default, and to none if it is not configured and the first one steps in
(`environments/config.go:155`); `Layers` in `Cli` says so, and nothing in the
repository says otherwise.

## What is proved

TLAPS, for every value of the constants.

*HistoryProofs*, from `HistoryAssumption` (MaxSize is an integer). That the ring
is within its capacity (`TypeOK`) does not say what it holds, and that `Get` finds
a request needs the ids in place; `RingIsWindow` gives both. The inductive
invariant is `TypeOK /\ RingIsWindow`: an addition to a full ring drops exactly
the item that leaves the window (`Gone` grows by one), to one that is not full
nothing, and Clear moves `Gone` to the end of the journal. From it follow
`HistoryTypeCorrect`, `RingKeepsTheNewest`, `GetFindsWhatWasAdded` (positions and
ids differ by `Gone`, so the scan's first match is its only one) and
`HistoryImplementsJournal`: initial state to initial state, Add to Record, Clear
to Forget, stutter to stutter.

*AuthManagerProofs*, from `AuthAssumption` (lifetimes are integers, the timeout a
natural, the clock has a tick, no configuration has the empty client, NoToken is
no token). `FieldsOfOneLogin` bounds when an answer came, which only holds if no
login is older than the timeout while it is in flight. `LoginsInTime` says so
(since <= issued <= now <= since + LoginTimeout), Tick keeps it by its guard, and
the inductive invariant adds it to types and fields. `StaleTokenBounded` and
`LiveTokenServed` are arithmetic on the invariant. So the two facts of the
console's notion of expiry, never early and late by a login's duration at most,
hold for any callers, clients and lifetimes.

*ConsoleProofs*, from the assumptions of the two parts, `InputAssumption` (inputs
are of their type) and `TokenAssumption` (NoToken is no token). The handlers'
steps are steps of the manager without any invariant, so the manager's theorems,
taken through `INSTANCE AuthManagerProofs`, hold of the console and give the types
of tokens and reports. With them the inductive invariant `Inv` is: types, the
history's own invariant (its step lemmas come through `INSTANCE HistoryProofs`),
the properties `EveryOutcomeRecordedOnce`, `ProductionConfirmed` and
`AuthorizationMasked`, and `Fits`, which relates each goroutine's state to the
rest: nothing is delivered before `Send`; what waits was delivered with the value
it holds; an outcome about to be recorded shows a mask exactly if a value was
delivered; what waits to be sent is accepted and was confirmed; what was shown is
in the journal under its id. None of the three properties is inductive without
it. Most actions are one move of a goroutine that neither delivers nor records,
which `QuietStep` does once; `SendStep` and `AddStep` are the two that do more.
It follows for any number of requests at once: `ConsoleTypeCorrect`,
`ConsoleRecordsEveryOutcome`, `ConsoleConfirmsProduction`,
`ConsoleMasksAuthorization`, `ConsoleIdsNameOneRequest` (the journal only grows, so
two showings of an id agree), `ConsoleUsesHistory`, `ConsoleUsesAuthManager`.

*ExplorerProofs*, from `ExplorerAssumption`. That production is sent as shown
needs what the dialog means while it is open: exactly one send asks, about the
operation the dialog shows, in a production environment, and the button is still
there (`Asks`). `Sent` carries the confirmation with its own payload from the
dialog to the server's executions; a restore under the open dialog changes
`endpoint` and `envId` but no payload. `SendsBounded` is `Bounded`, a count: a
selection pays for the button, the button for a send, and a send gives it back.
`QuietPageIsCurrent` needs a second invariant, `Serial`, which follows the last execution
through `listing` and `listed` to the page while nothing was disturbed.

*ApiTestProofs*, from `ApiTestAssumption`. The inductive invariant has the types
and what each call knows by the point it has reached; for a client whose tests
run in turn, that at most one call is under way and how `didAuth`, `jwt` and
`jwtErr` stand together meanwhile - a token is there exactly if a login succeeded,
and after one that failed the error is. The race of `apitest_race` is the
absence of that conjunct. The number of logins is bounded by the number of calls
that have left `mint`. `PassesMeanExpected` needs two facts of `Response` besides: of
a call without an answer nothing that is `Telling` holds, and what `GetPath` returns,
if it is not nil, is one of the values the body consists of, at that path (by
induction on the length of the path, with `Stepwise` of `CatalogProofs`).

*CatalogProofs*, for any document (`IsDocument`) and any finite graph of schemas
(`IsSchemas`). Where TLA+ chooses a number, the number is there: `Min` of a set of
naturals is in it, from the library's theorem that inclusion is well-founded on
finite sets; from that, induction up to a number (`Stepwise`), `Max`, and the n-th
element of a finite set. So the catalog has every operation of the document and no
other (`CatalogIsComplete`: no two have the same `SortKey`), and what passes the
filter, or is found by a reference, is of the document; a reference METHOD PATH means
one with this path or a template it matches (`FoundIsOfCatalog`).
`ParametersCollected` and `CollectedOnce` are the case split behind "the first
declaration counts".

The views need the most. `ViewIn` is defined by recursion, so first there has to be
such a function: `ViewsExist` builds it from the places where every schema is being
visited (nothing is looked up there) to those where none is, by the number of
schemas that are not - which is why `visiting` makes the code end. Then `Ahead`: at
a place ahead of a schema that does not come back to itself, what is being visited
cannot be reached any more, and one step inside is ahead again (`StillAhead`), down
a chain of `oneOf` too (`NothingIsRecursive`). The views ahead are therefore closed
under parts and none is recursive, which with `ComposedOf` is `ViewIsFaithful`.
The same places make the claims `ClaimsAhead`, that each example ahead fits its
schema and the parts this is composed of. What is required is there because the
schema, or a part composed into it, declares it (`RequiredIsDeclared`); that this is
so at every place the view is made of is `PlacesMade`, down `Shows` (`ShowsAreInside`,
`MadeIsClosed`). Every claim conforms and takes only claims
of the set: `AlternativeFits`, `PlainFits` (by example, enumeration, type, properties
and item) and `ComposedFits` (merged properties are those of the one part that has
them). So all claims below an example conform, to any depth.

*CliProofs*, from `CliAssumption`. `Done` and `Places` say what has been done by
the time `RunE` is somewhere and which command gets there; `Targeted` says that
the overlays leave ids and production flags as `environments.yaml` has them, so
that the environment the guard sees is the one the file means.

None of this says what a command holds, and the five properties about what is
requested and listed need it. `Known` does: past `load`, the configuration is what
`Load` makes of the sources and the catalog that of the document it names (`Loaded`);
the operation is what the reference means (`Chosen`); the login was asked with the
normalised configuration of the environment (`Asked`) and the token is its own
(`Authorized`); what was sent and printed is made of these (`Requested`, `Printed`).
`Inv /\ Known` is inductive, one lemma per action, and the properties follow from it
without another step of the system:
`OneEnvironmentOnly` by what the layers of settings, the first value that is not
blank, and `Find` come to (`FirstOfLayers`, `LoginOfEnvironment`);
`ReachesOnlyWhatWasAsked` by `FoundIsOfCatalog` and by what substitution makes of a
template the path matched (`PathAsTyped`: a name that is there twice takes its last
value, unless a flag gives one); `ParametersListedOnce`, `ViewsShowTheDocument` and
`ExamplesFitTheirSchemas` by the lemmas of `CatalogProofs`.

*PageProofs*, from `PageAssumption`. The history's invariant, through `INSTANCE
HistoryProofs`, holds of every start of the server. With it `ShownNamed` and
`RestoringNamed`, the latter for every fetch that is under way, are inductive: an
entry listed by the server that runs now is the request its id names in the journal,
and the journal only grows while the server runs. So what `Get` finds is what was
shown (`RestoresAsListed`), whatever became of the ring. `PageTypeCorrect` needs
that what is collected can be recorded (`CollectedTyped`, `RecordTyped`) and what
was recorded restored; `SwitchingKeeps` is a case split on the two modes. For
`ResendsAsRecorded` the invariant is joined by `AsRestored`: while nobody touches a
restored form, its fields are what `restoreHistory` wrote into them, and what is
collected of them is what the record has for parameters of that place
(`RecalledIn`), if the operation is one of the catalog's; for path and query that is
all of it, because a record is of the form of its operation (`Payloads`).

## What is only model-checked, and what is not modelled

Liveness (`EventuallyAnswered`, `SendButtonComesBack`, `PublicCallsGoThrough`,
`EndsUnlessCognitoHangs`) is out of the prover's reach and stays with TLC; every
invariant and action property of the runs, and the refinements, are proved. What
`Sample`, `View` and the catalog compute is proved of documents the library could
hand over (`IsDocument`); that they could be any is `CliAssumption`, which TLC
evaluates on the documents of the `cli` run. The prover knows neither `SelectSeq`
nor `@@`, so filters and sorting are written with `Ascending`, and `Known` was checked
by TLC, as an invariant of the `cli` run's instance, before it was proved.

Not modelled: HTTP encoding, query strings, truncation of answers over 8 MiB,
pretty-printing, static files, help texts, tables; SRP arithmetic and the secret
hash (the AWS library's); the page's JWT panel and its client id, the search box and
all rendering; formats, descriptions and responses of the OpenAPI parser and the
library that loads a document; `Public`, a projection of the configuration. Path
substitution iterates over a map, but every value is path-escaped, braces included,
so no order of it matters and one substitution at once stands for all; it is in
`Cli`, and `ApiTest` leaves the URL out. `preferredMedia` takes any of several types
that are not JSON, by the order of a Go map; a document has one at most here, and
none with wildcards. Of several examples the first by name is taken. If two header
parameters of an operation have the same canonical name, which of them is sent is
left to a fixed choice. The catalog is treated as loaded on the page. `Explorer`
starts when the page has booted, against a server with an empty history that is not
restarted; `Page` has the restarts. `Find` is linear and finds the first id of
several. `Credentials` only ever has the key "", so credentials are one record.

Three things `Schema` shows that nothing in the repository speaks of: parts of an
`allOf` that are composed themselves lose their properties, an `allOf` its items
and enumerations, and a `oneOf` the properties beside it. And one that `Response`
shows: `ExpectJSON` compares what is printed, so that the number 3 passes for the text
"3" and `[1]` for `["1"]`; its comment (`apitest/response.go:82-84`) speaks of a
comparison after marshalling, which the code makes only where the texts differ
(`response.go:100`). `PassMeansExpected` promises no more than the printed text.

## Plan

1. *Modules.* The JWT panel of the page, composed with the session of `Console`:
   the client id that stays behind when the environment changes
   (`ui/app.js:55`), a token in the field beside a session that was cleared.
2. *Proofs.* What the JWT panel needs of the session, from the theorems of
   `AuthManagerProofs`; that the catalog is in the order of tag, path and method.
