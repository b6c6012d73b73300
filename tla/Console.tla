------------------------------ MODULE Console -------------------------------
(***************************************************************************)
(* server/server.go: the console server.                                   *)
(*                                                                         *)
(* Every HTTP request the browser makes is served by a goroutine of its    *)
(* own.  The goroutines share the history (request.History) and the auth   *)
(* manager (auth.Manager) and nothing else that changes; between two calls *)
(* to them, and while the backend or Cognito is awaited, any other         *)
(* goroutine may run.  handler[r] is where the goroutine of request r is.  *)
(***************************************************************************)
EXTENDS Executor, Sequences, FiniteSets

CONSTANTS Requests,      \* the requests the browser makes
          Inputs,        \* what may be asked of /api/request (see InputType)
          Envs,          \* the configured environments
          Production,    \* those with production: true
          DefaultEnv,    \* cfg.DefaultEnvironment
          Unset,         \* the empty environment of an input
          Statuses,      \* the HTTP statuses the backends answer with
          NoRecord, MaxSize,                                 \* see History
          Configs, Lifetimes, LoginTimeout, MaxClock, NoClient \* see AuthManager

ASSUME ConsoleAssumption ==
  /\ Production \subseteq Envs /\ DefaultEnv \in Envs
  /\ Statuses \subseteq 100 .. 599
  /\ MaxSize \in Int
  /\ Lifetimes \subseteq Int /\ LoginTimeout \in Nat /\ MaxClock \in Nat \ {0}
  /\ \A cfg \in Configs : cfg.client # NoClient

VARIABLES handler,                                   \* the goroutines
          delivered,     \* auxiliary: what the backends received
          items, nextID, journal, floor,             \* the history
          now, tokens, clientID, issuedAt, expiresAt, logins  \* the manager

historyVars == <<items, nextID, journal, floor>>
authVars == <<now, tokens, clientID, issuedAt, expiresAt, logins>>
vars == <<handler, delivered, historyVars, authVars>>

Outcomes == [status : Statuses \cup {0}, error : BOOLEAN, auth : {Absent, Mask}]
Records == [req : Requests, env : Envs, mode : {"jwt", "none", "custom"},
            out : Outcomes, ok : BOOLEAN]

InputType == [env : Envs \cup {Unset, "unknown"}, mode : {"jwt", "none", "custom"},
              jwt : BOOLEAN, custom : BOOLEAN, header : BOOLEAN,
              confirm : BOOLEAN, complete : BOOLEAN, wellformed : BOOLEAN]

H == INSTANCE History
A == INSTANCE AuthManager WITH Callers <- Requests

ASSUME InputAssumption == Inputs \subseteq InputType
ASSUME TokenAssumption == NoToken \notin A!Tokens

Idle == [at |-> "idle"]
Rejected(code) == [at |-> "answered", code |-> code]
Answered(op, body) == [at |-> "answered", code |-> 200, op |-> op, body |-> body]

Goto(r, state) == handler' = [handler EXCEPT ![r] = state]

Init == /\ H!Init
        /\ A!Init
        /\ handler = [r \in Requests |-> Idle]
        /\ delivered = {}
-----------------------------------------------------------------------------
\* handleExecute

EnvOf(in) == IF in.env = Unset THEN DefaultEnv ELSE in.env

\* It has a method and a path, and its environment is configured.
Accepted(in) == in.complete /\ EnvOf(in) \in Envs

\* in.JWT after the manager was asked for the session's token.
JWTOf(in) ==
  IF in.jwt THEN Value("jwt")
  ELSE IF in.mode = "jwt" /\ A!AccessToken.ok
         THEN SessionValue(A!AccessToken.token) ELSE Absent

\* The outcome is ready to be recorded.
Record(in, out) == [at |-> "record", in |-> in, out |-> out]

RejectExecute(r, in) ==
  /\ handler[r] = Idle
  /\ ~Accepted(in)
  /\ Goto(r, Rejected(400))
  /\ UNCHANGED <<delivered, historyVars, authVars>>

\* What is no JSON (or, for a history item, no number) changes nothing.
RejectMalformed(r) ==
  /\ handler[r] = Idle
  /\ Goto(r, Rejected(400))
  /\ UNCHANGED <<delivered, historyVars, authVars>>

\* A production request without confirmation, or one no URL or request can be
\* built from: nothing is sent, and the outcome is recorded like any other.
NotToBeSentAsNamed(in) == Refused(in, in.env \in Production) \/ ~in.wellformed
NotToBeSent(in) == Refused(in, EnvOf(in) \in Production) \/ ~in.wellformed

Refuse(r, in) ==
  /\ handler[r] = Idle
  /\ Accepted(in)
  /\ NotToBeSent(in)
  /\ Goto(r, Record(in, NotSent))
  /\ UNCHANGED <<delivered, historyVars, authVars>>

Prepare(r, in) ==
  /\ handler[r] = Idle
  /\ Accepted(in)
  /\ ~NotToBeSent(in)
  /\ Goto(r, [at |-> "send", in |-> in, auth |-> Authorization(in, JWTOf(in))])
  /\ UNCHANGED <<delivered, historyVars, authVars>>

\* The backend of the environment has the request.
Send(r) ==
  LET in == handler[r].in IN
  /\ handler[r].at = "send"
  /\ delivered' = delivered \cup {[req |-> r, in |-> in, auth |-> handler[r].auth]}
  /\ Goto(r, [handler[r] EXCEPT !.at = "await"])
  /\ UNCHANGED <<historyVars, authVars>>

BackendAnswers(r, status) ==
  /\ handler[r].at = "await"
  /\ \/ Goto(r, Record(handler[r].in, Answer(handler[r].auth, status)))
     \/ Goto(r, Record(handler[r].in, Unreadable(handler[r].auth, status)))
  /\ UNCHANGED <<delivered, historyVars, authVars>>

\* No connection, or it breaks, or the 30 s of the HTTP client are over.
GiveUpOnConnect(r) ==
  /\ handler[r].at = "send"
  /\ Goto(r, Record(handler[r].in, TransportError(handler[r].auth)))
  /\ UNCHANGED <<delivered, historyVars, authVars>>
GiveUp(r) ==
  /\ handler[r].at \in {"send", "await"}
  /\ Goto(r, Record(handler[r].in, TransportError(handler[r].auth)))
  /\ UNCHANGED <<delivered, historyVars, authVars>>

RecordOfAsNamed(r) ==
  LET h == handler[r] IN
  [req |-> r, env |-> h.in.env, mode |-> h.in.mode, out |-> h.out,
   ok |-> OK(h.out)]
RecordOf(r) ==
  LET h == handler[r] IN
  [req |-> r, env |-> EnvOf(h.in), mode |-> h.in.mode, out |-> h.out,
   ok |-> OK(h.out)]

\* history.Add, and the answer carries the item it returned.
RecordOnlySent(r) ==
  /\ handler[r].at = "record"
  /\ IF \E d \in delivered : d.req = r
       THEN H!Add(RecordOf(r)) ELSE UNCHANGED historyVars
  /\ Goto(r, Answered("execute", <<[id |-> nextID, rec |-> RecordOf(r)]>>))
  /\ UNCHANGED <<delivered, authVars>>
AddToHistory(r) ==
  /\ handler[r].at = "record"
  /\ H!Add(RecordOf(r))
  /\ Goto(r, Answered("execute", <<[id |-> nextID, rec |-> RecordOf(r)]>>))
  /\ UNCHANGED <<delivered, authVars>>
-----------------------------------------------------------------------------
\* handleHistory, handleHistoryItem, handleHistoryClear

ListHistory(r) ==
  /\ handler[r] = Idle
  /\ Goto(r, Answered("list", H!List))
  /\ UNCHANGED <<delivered, historyVars, authVars>>

GetHistoryItem(r, id) ==
  /\ handler[r] = Idle
  /\ IF H!Get(id).ok THEN Goto(r, Answered("get", <<H!Get(id).item>>))
                     ELSE Goto(r, Rejected(404))
  /\ UNCHANGED <<delivered, historyVars, authVars>>

ClearHistoryAnew(r) ==
  /\ handler[r] = Idle
  /\ items' = <<>> /\ nextID' = 1 /\ journal' = journal /\ floor' = Len(journal)
  /\ Goto(r, Answered("clear", <<>>))
  /\ UNCHANGED <<delivered, authVars>>
ClearHistory(r) ==
  /\ handler[r] = Idle
  /\ H!Clear
  /\ Goto(r, Answered("clear", <<>>))
  /\ UNCHANGED <<delivered, authVars>>
-----------------------------------------------------------------------------
\* handleAuthStatus, handleClearAuth, handleGenerateJWT

AuthStatus(r) ==
  /\ handler[r] = Idle
  /\ Goto(r, Answered("status", A!Snapshot))
  /\ UNCHANGED <<delivered, historyVars, authVars>>

\* Logging in and out end with a second visit to the manager, for its status.
Snapshot(r) ==
  /\ handler[r].at = "snapshot"
  /\ Goto(r, Answered("status", A!Snapshot))
  /\ UNCHANGED <<delivered, historyVars, authVars>>

ClearAuthByHand(r) ==
  /\ handler[r] = Idle
  /\ tokens' = NoToken
  /\ UNCHANGED <<now, clientID, issuedAt, expiresAt, logins>>
  /\ Goto(r, [at |-> "snapshot"])
  /\ UNCHANGED <<delivered, historyVars>>
ClearAuth(r) ==
  /\ handler[r] = Idle
  /\ A!Clear
  /\ Goto(r, [at |-> "snapshot"])
  /\ UNCHANGED <<delivered, historyVars>>

StartLogin(r, cfg) ==
  /\ handler[r] = Idle
  /\ A!StartLogin(r, cfg)
  /\ Goto(r, [at |-> "login"])
  /\ UNCHANGED <<delivered, historyVars>>

\* The configuration is not valid, so that Cognito is not asked.
RejectLogin(r) ==
  /\ handler[r] = Idle
  /\ Goto(r, Rejected(502))
  /\ UNCHANGED <<delivered, historyVars, authVars>>

CognitoAnswers(r) ==
  /\ handler[r].at = "login"
  /\ A!ProvePassword(r) \/ \E lifetime \in Lifetimes : A!CognitoIssues(r, lifetime)
  /\ UNCHANGED <<handler, delivered, historyVars>>

LoginFails(r) ==
  /\ handler[r].at = "login"
  /\ A!FailLogin(r)
  /\ Goto(r, Rejected(502))
  /\ UNCHANGED <<delivered, historyVars>>

LoginEnds(r) ==
  /\ handler[r].at = "login"
  /\ A!FinishLogin(r)
  /\ Goto(r, [at |-> "snapshot"])
  /\ UNCHANGED <<delivered, historyVars>>

Tick == A!Tick /\ UNCHANGED <<handler, delivered, historyVars>>
-----------------------------------------------------------------------------
\* A request arrives, and is served up to the first point another may run.
Receive(r) ==
  \/ \E in \in Inputs : RejectExecute(r, in) \/ Refuse(r, in) \/ Prepare(r, in)
  \/ RejectMalformed(r)
  \/ ListHistory(r)
  \/ \E id \in 1 .. Cardinality(Requests) : GetHistoryItem(r, id)
  \/ ClearHistory(r)
  \/ AuthStatus(r)
  \/ ClearAuth(r)
  \/ RejectLogin(r)
  \/ \E cfg \in Configs : StartLogin(r, cfg)

\* The backends and Cognito answer when they like, if they do.
Elsewhere(r) == \/ \E status \in Statuses : BackendAnswers(r, status)
                \/ CognitoAnswers(r)

\* What the server does by itself, its two timeouts included.
Serve(r) == \/ Send(r)
            \/ GiveUp(r)
            \/ AddToHistory(r)
            \/ LoginFails(r)
            \/ LoginEnds(r)
            \/ Snapshot(r)

Next == \/ \E r \in Requests : Receive(r) \/ Elsewhere(r) \/ Serve(r)
        \/ Tick

Spec == Init /\ [][Next]_vars

\* A goroutine that can go on does, the HTTP client's timeout ends the wait for
\* a backend and the context's deadline the wait for Cognito.
FairSpec == Spec /\ \A r \in Requests : WF_vars(Serve(r))
-----------------------------------------------------------------------------
Auths == {Value(o) : o \in {"absent", "header", "jwt", "custom"}}
           \cup {SessionValue(t) : t \in A!Tokens}
HandlerStates ==
  [at : {"idle", "login", "snapshot"}]
    \cup [at : {"send", "await"}, in : Inputs, auth : Auths]
    \cup [at : {"record"}, in : Inputs, out : Outcomes]
    \cup [at : {"answered"}, code : {400, 404, 502}]
    \cup [at : {"answered"}, code : {200}, op : {"status"}, body : A!Reports]
    \cup [at : {"answered"}, code : {200}, op : {"execute", "list", "get", "clear"},
          body : Seq([id : Nat, rec : Records])]

\* Every goroutine is at one of its points, with the data that belongs there.
TypeOK == /\ handler \in [Requests -> HandlerStates]
          /\ delivered \subseteq [req : Requests, in : Inputs, auth : Auths]

\* The requests that were answered with history items, and the items.
Showing == {r \in Requests : /\ handler[r].at = "answered"
                             /\ handler[r].code = 200
                             /\ handler[r].op \in {"execute", "list", "get"}}
ShownTo(r) == {handler[r].body[k] : k \in DOMAIN handler[r].body}

\* A history id a browser was ever shown, by an execution, a list or a lookup,
\* names one request: two answers that show the id show the same item, though
\* the history was cleared and filled again between them.
OneIdOneRequest ==
  \A r, s \in Showing : \A i \in ShownTo(r), j \in ShownTo(s) :
    i.id = j.id => i = j

\* Whatever comes of an execution, sent or refused, answered or timed out, it is
\* in the journal exactly once when its answer names it, under the id and with
\* the outcome of the answer; one that was never accepted is not there; and
\* what was delivered is recorded as nothing but a request that was sent.
EveryOutcomeRecordedOnce ==
  \A r \in Requests :
    LET places == {k \in DOMAIN journal : journal[k].req = r}
        executed == r \in Showing /\ handler[r].op = "execute"
    IN  /\ executed => \E k \in places :
                         /\ places = {k}
                         /\ handler[r].body = <<[id |-> k, rec |-> journal[k]]>>
        /\ ~executed => places = {}
        /\ \A k \in places : journal[k].ok => \E d \in delivered : d.req = r

\* A backend of a production environment only receives what was confirmed, also
\* when the environment was not named and the default is a production one.
ProductionConfirmed ==
  \A d \in delivered : EnvOf(d.in) \in Production => d.in.confirm

\* The history shows of an Authorization header that it was sent, never what it
\* was, wherever the value came from; and a request that was refused shows none.
AuthorizationMasked ==
  \A k \in DOMAIN journal :
    /\ journal[k].out.auth \in {Absent, Mask}
    /\ \A d \in delivered : d.req = journal[k].req =>
         (journal[k].out.auth = Mask <=> d.auth # Absent)

\* The goroutines use the history only through its methods, so everything shown
\* of History holds of the server, however many requests it serves at once.
UsesHistory == H!Spec

\* The same for the auth manager, between whose calls the logins wait.
UsesAuthManager == A!Spec

\* Every request that the server accepted is answered, though neither backend
\* nor Cognito ever is.
EventuallyAnswered ==
  \A r \in Requests : handler[r] # Idle ~> handler[r].at = "answered"
=============================================================================
