---------------------------- MODULE AuthManager -----------------------------
(***************************************************************************)
(* auth/manager.go with the Cognito login of auth/cognito/token.go.        *)
(*                                                                         *)
(* The manager keeps the tokens of the last login that ended.  Set, Clear, *)
(* AccessToken and Snapshot each hold m.mu for their whole body, so each   *)
(* is one action or one operator.  Generate does not: it talks to Cognito  *)
(* first, in one or two round trips, and calls Set when the answer is      *)
(* there, so logins of several callers and Clear come in any order.        *)
(*                                                                         *)
(* Time is a counter of ticks; 0 is Go's zero time.  A login carries the   *)
(* deadline of its context.  The answer is stored in the tick in which it  *)
(* is read from the wire: no time is spent between the two.                *)
(***************************************************************************)
EXTENDS Integers

CONSTANTS Callers,       \* goroutines that may call Generate
          Configs,       \* login configurations: [client, flow]
          Lifetimes,     \* what Cognito may say in ExpiresIn, 0 if it is silent
          LoginTimeout,  \* deadline of a login's context, in ticks
          MaxClock,      \* bound: the last tick
          NoToken,       \* the nil *Tokens
          NoClient       \* the empty client id

VARIABLES now,        \* the clock
          tokens,     \* m.tokens
          clientID,   \* m.clientID
          issuedAt,   \* m.issuedAt
          expiresAt,  \* m.expiresAt
          logins      \* the Generate call each caller is in, if any

stored == <<tokens, clientID, issuedAt, expiresAt>>
authVars == <<now, tokens, clientID, issuedAt, expiresAt, logins>>

\* A token carries what its holder cannot see: whom Cognito issued it to and
\* when.  lifetime is ExpiresIn.
Tokens == [client : {cfg.client : cfg \in Configs}, issued : 1 .. MaxClock,
           lifetime : Lifetimes]

ASSUME AuthAssumption == /\ Lifetimes \subseteq Int
                         /\ LoginTimeout \in Nat
                         /\ MaxClock \in Nat \ {0}
                         /\ \A cfg \in Configs : cfg.client # NoClient
                         /\ NoToken \notin Tokens

Idle == [at |-> "idle"]

Init == /\ now = 1
        /\ tokens = NoToken
        /\ clientID = NoClient
        /\ issuedAt = 0
        /\ expiresAt = 0
        /\ logins = [c \in Callers |-> Idle]
-----------------------------------------------------------------------------
SetSwapped(client, t) ==
  /\ tokens' = t
  /\ clientID' = client
  /\ issuedAt' = IF t.lifetime > 0 THEN now + t.lifetime ELSE 0
  /\ expiresAt' = now
SetKeepingExpiry(client, t) ==
  /\ tokens' = t
  /\ clientID' = client
  /\ issuedAt' = now
  /\ expiresAt' = IF t.lifetime > 0 THEN now + t.lifetime ELSE expiresAt
Set(client, t) ==
  /\ tokens' = t
  /\ clientID' = client
  /\ issuedAt' = now
  /\ expiresAt' = IF t.lifetime > 0 THEN now + t.lifetime ELSE 0

Clear == /\ tokens' = NoToken
         /\ clientID' = NoClient
         /\ issuedAt' = 0
         /\ expiresAt' = 0
         /\ UNCHANGED <<now, logins>>

\* time.Now().After(m.expiresAt), when there is an expiry at all.
ExpiredInclusive == expiresAt # 0 /\ now >= expiresAt
Expired == expiresAt # 0 /\ now > expiresAt

AccessTokenUnchecked == [ok |-> tokens # NoToken, token |-> tokens]
AccessToken == IF tokens = NoToken \/ Expired
                 THEN [ok |-> FALSE, token |-> NoToken]
                 ELSE [ok |-> TRUE, token |-> tokens]

Snapshot == IF tokens = NoToken
              THEN [authenticated |-> FALSE, client |-> NoClient,
                    issued |-> 0, expires |-> 0, preview |-> NoToken]
              ELSE [authenticated |-> ~Expired, client |-> clientID,
                    issued |-> issuedAt, expires |-> expiresAt,
                    preview |-> tokens]
-----------------------------------------------------------------------------
Login(c, state) == /\ logins' = [logins EXCEPT ![c] = state]
                   /\ UNCHANGED <<now, stored>>

\* Generate: the configuration is valid and InitiateAuth is sent.
StartLogin(c, cfg) ==
  /\ logins[c] = Idle
  /\ Login(c, [at |-> "initiate", cfg |-> cfg, since |-> now])

\* Cognito asks an SRP login to prove the password, and the proof is sent.
ProvePassword(c) ==
  /\ logins[c].at = "initiate"
  /\ logins[c].cfg.flow = "srp"
  /\ Login(c, [logins[c] EXCEPT !.at = "respond"])

\* Cognito issues tokens: after the proof, or at once to a password login or
\* to an SRP login it does not challenge.  The answer is on the wire.
CognitoIssues(c, lifetime) ==
  /\ logins[c].at \in {"initiate", "respond"}
  /\ Login(c, [at |-> "issued", cfg |-> logins[c].cfg, since |-> logins[c].since,
               token |-> [client |-> logins[c].cfg.client, issued |-> now,
                          lifetime |-> lifetime]])

\* Generate returns an error: a transport error, the deadline, a challenge it
\* does not support, no result, or an empty access token.
FailLogin(c) == /\ logins[c] # Idle
                /\ Login(c, Idle)

\* Generate stores the tokens of the answer and returns them.
FinishLogin(c) ==
  /\ logins[c].at = "issued"
  /\ Set(logins[c].cfg.client, logins[c].token)
  /\ logins' = [logins EXCEPT ![c] = Idle]
  /\ now' = now

\* Time passes, never beyond the deadline of a login in progress.
TickRegardless == /\ now < MaxClock
                  /\ now' = now + 1
                  /\ UNCHANGED <<stored, logins>>
Tick == /\ now < MaxClock
        /\ \A c \in Callers :
             logins[c] # Idle => now < logins[c].since + LoginTimeout
        /\ now' = now + 1
        /\ UNCHANGED <<stored, logins>>

Next == \/ \E c \in Callers :
             \/ \E cfg \in Configs : StartLogin(c, cfg)
             \/ ProvePassword(c)
             \/ \E lifetime \in Lifetimes : CognitoIssues(c, lifetime)
             \/ FailLogin(c)
             \/ FinishLogin(c)
        \/ Clear
        \/ Tick

Spec == Init /\ [][Next]_authVars
-----------------------------------------------------------------------------
Clients == {cfg.client : cfg \in Configs}
LoginStates == {Idle}
  \cup [at : {"initiate", "respond"}, cfg : Configs, since : 1 .. MaxClock]
  \cup [at : {"issued"}, cfg : Configs, since : 1 .. MaxClock, token : Tokens]

Reports == [authenticated : BOOLEAN, client : Clients \cup {NoClient},
            issued : Nat, expires : Int, preview : Tokens \cup {NoToken}]

\* Every field of the manager and every login stays within its type.
TypeOK == /\ now \in 1 .. MaxClock
          /\ tokens \in Tokens \cup {NoToken}
          /\ clientID \in Clients \cup {NoClient}
          /\ issuedAt \in 0 .. MaxClock
          /\ expiresAt \in Int
          /\ logins \in [Callers -> LoginStates]

\* The four fields always tell of one login, the one whose tokens are kept:
\* its client, the time its answer came (not before Cognito issued it and not
\* after the login's deadline), and the expiry its lifetime gives.  No login
\* and no Clear, in whatever order they end, leaves a field of another behind.
FieldsOfOneLogin ==
  IF tokens = NoToken
    THEN clientID = NoClient /\ issuedAt = 0 /\ expiresAt = 0
    ELSE /\ clientID = tokens.client
         /\ tokens.issued <= issuedAt
         /\ issuedAt <= tokens.issued + LoginTimeout
         /\ issuedAt <= now
         /\ expiresAt = IF tokens.lifetime > 0
                          THEN issuedAt + tokens.lifetime ELSE 0

\* A token that Cognito still honours is never refused to a request: the
\* manager counts its lifetime from a moment no earlier than its issue.
LiveTokenServed ==
  tokens # NoToken /\ (tokens.lifetime > 0 => now <= tokens.issued + tokens.lifetime)
    => AccessToken.ok

\* The manager counts from the arrival of the answer, so it does hand out
\* tokens that Cognito has let expire, but never for longer than a login may
\* take.
StaleTokenBounded ==
  AccessToken.ok /\ AccessToken.token.lifetime > 0
    => now <= AccessToken.token.issued + AccessToken.token.lifetime + LoginTimeout

\* What the console shows of the session agrees with what a request is given:
\* it says authenticated exactly while requests get a token, and names the
\* client that this token was issued to.
StatusAgreesWithToken ==
  /\ Snapshot.authenticated <=> AccessToken.ok
  /\ AccessToken.ok => /\ Snapshot.client = AccessToken.token.client
                       /\ Snapshot.preview = AccessToken.token
=============================================================================
