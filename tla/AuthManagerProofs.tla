------------------------- MODULE AuthManagerProofs --------------------------
(***************************************************************************)
(* The fields of the auth manager belong together, and how far its idea of *)
(* an expiry may be from Cognito's, for any number of callers, any         *)
(* lifetimes and any deadline.                                             *)
(*                                                                         *)
(* FieldsOfOneLogin is not inductive: that the answer of a login is at     *)
(* most LoginTimeout old when it is stored comes from what every login in  *)
(* progress keeps (LoginsInTime).                                          *)
(***************************************************************************)
EXTENDS AuthManager, TLAPS

\* A login in progress is within its deadline, and the token of an answer on
\* the wire was issued during the login, to its client.
LoginInTime(c) ==
  logins[c] # Idle =>
    /\ logins[c].since <= now
    /\ now <= logins[c].since + LoginTimeout
    /\ logins[c].at = "issued" =>
         /\ logins[c].token.client = logins[c].cfg.client
         /\ logins[c].since <= logins[c].token.issued
         /\ logins[c].token.issued <= now
LoginsInTime == \A c \in Callers : LoginInTime(c)

Inv == TypeOK /\ FieldsOfOneLogin /\ LoginsInTime

\* A client named by a configuration is not the empty client id.
LEMMA ClientsNamed == NoClient \notin Clients
BY AuthAssumption DEF Clients

\* The numbers a token carries.
LEMMA TokenTyped ==
  ASSUME NEW t \in Tokens
  PROVE  t # NoToken /\ t.issued \in Nat \ {0} /\ t.lifetime \in Int
<1>1. t.issued \in 1 .. MaxClock /\ t.lifetime \in Lifetimes
  BY DEF Tokens
<1>2. Lifetimes \subseteq Int /\ MaxClock \in Nat /\ NoToken \notin Tokens
  BY AuthAssumption
<1>3. t.issued \in Nat \ {0}
  BY <1>1, <1>2
<1>4. t.lifetime \in Int
  BY <1>1, <1>2
<1>5. t # NoToken
  BY <1>2
<1>. QED  BY <1>3, <1>4, <1>5

\* A new manager has no session and no login in progress.
LEMMA InitInv == Init => Inv
BY AuthAssumption DEF Init, Inv, TypeOK, FieldsOfOneLogin, LoginsInTime,
   LoginInTime, LoginStates

\* A step that only moves one login, to a state of its type that is in time,
\* keeps the invariant.
LEMMA LoginKeepsInv ==
  ASSUME Inv, NEW c \in Callers, NEW state \in LoginStates, Login(c, state),
         LoginInTime(c)'
  PROVE  Inv'
<1>1. TypeOK'
  BY DEF Inv, TypeOK, Login, stored, LoginStates, Tokens, Clients, Idle
<1>2. FieldsOfOneLogin'
  BY DEF Inv, FieldsOfOneLogin, Login, stored
<1>3. LoginsInTime'
  <2>. SUFFICES ASSUME NEW d \in Callers PROVE LoginInTime(d)'
    BY DEF LoginsInTime
  <2>1. CASE d = c
    BY <2>1
  <2>2. CASE d # c
    <3>1. logins'[d] = logins[d] /\ now' = now
      BY <2>2 DEF Login, Inv, TypeOK
    <3>. QED  BY <3>1 DEF Inv, LoginsInTime, LoginInTime, Idle
  <2>. QED  BY <2>1, <2>2
<1>. QED  BY <1>1, <1>2, <1>3 DEF Inv

\* A login starts now.
LEMMA StartLoginKeepsInv ==
  ASSUME Inv, NEW c \in Callers, NEW cfg \in Configs, StartLogin(c, cfg)
  PROVE  Inv'
<1>. DEFINE state == [at |-> "initiate", cfg |-> cfg, since |-> now]
<1>1. state \in LoginStates /\ Login(c, state)
  BY DEF StartLogin, LoginStates, Inv, TypeOK
<1>2. logins'[c] = state /\ now' = now /\ now \in Int
  BY <1>1 DEF Login, Inv, TypeOK
<1>3. LoginInTime(c)'
  BY <1>2, AuthAssumption DEF LoginInTime
<1>. QED  BY <1>1, <1>3, LoginKeepsInv

\* The second round trip keeps configuration and start of the first.
LEMMA ProvePasswordKeepsInv ==
  ASSUME Inv, NEW c \in Callers, ProvePassword(c)
  PROVE  Inv'
<1>. DEFINE state == [logins[c] EXCEPT !.at = "respond"]
<1>1. logins[c] \in [at : {"initiate", "respond"}, cfg : Configs,
                     since : 1 .. MaxClock]
  BY DEF ProvePassword, Inv, TypeOK, LoginStates, Idle
<1>2. state \in LoginStates /\ Login(c, state) /\ state.since = logins[c].since
      /\ state.at = "respond"
  BY <1>1 DEF ProvePassword, LoginStates
<1>3. logins'[c] = state /\ now' = now
  BY <1>2 DEF Login, Inv, TypeOK
<1>4. LoginInTime(c) /\ logins[c] # Idle
  BY DEF Inv, LoginsInTime, ProvePassword, Idle
<1>5. LoginInTime(c)'
  BY <1>2, <1>3, <1>4 DEF LoginInTime
<1>. QED  BY <1>2, <1>5, LoginKeepsInv

\* The token is issued now, which is within the deadline, to the login's client.
LEMMA CognitoIssuesKeepsInv ==
  ASSUME Inv, NEW c \in Callers, NEW lifetime \in Lifetimes,
         CognitoIssues(c, lifetime)
  PROVE  Inv'
<1>. DEFINE token == [client |-> logins[c].cfg.client, issued |-> now,
                      lifetime |-> lifetime]
            state == [at |-> "issued", cfg |-> logins[c].cfg,
                      since |-> logins[c].since, token |-> token]
<1>1. logins[c] \in [at : {"initiate", "respond"}, cfg : Configs,
                     since : 1 .. MaxClock]
  BY DEF CognitoIssues, Inv, TypeOK, LoginStates, Idle
<1>2. token \in Tokens
  BY <1>1 DEF Tokens, Inv, TypeOK
<1>3. state \in LoginStates /\ Login(c, state)
  BY <1>1, <1>2 DEF CognitoIssues, LoginStates
<1>4. logins'[c] = state /\ now' = now /\ now \in Int
  BY <1>3 DEF Login, Inv, TypeOK
<1>5. LoginInTime(c) /\ logins[c] # Idle
  BY DEF Inv, LoginsInTime, CognitoIssues, Idle
<1>6. LoginInTime(c)'
  BY <1>4, <1>5 DEF LoginInTime
<1>. QED  BY <1>3, <1>6, LoginKeepsInv

\* A login that failed leaves no trace.
LEMMA FailLoginKeepsInv ==
  ASSUME Inv, NEW c \in Callers, FailLogin(c)
  PROVE  Inv'
<1>1. Idle \in LoginStates /\ Login(c, Idle)
  BY DEF FailLogin, LoginStates
<1>2. logins'[c] = Idle
  BY <1>1 DEF Login, Inv, TypeOK
<1>3. LoginInTime(c)'
  BY <1>2 DEF LoginInTime, Idle
<1>. QED  BY <1>1, <1>3, LoginKeepsInv

\* The step that stores a token: it was issued while the login was in time.
LEMMA FinishLoginKeepsInv ==
  ASSUME Inv, NEW c \in Callers, FinishLogin(c)
  PROVE  Inv'
<1>. DEFINE t == logins[c].token
<1>1. logins[c] \in [at : {"issued"}, cfg : Configs, since : 1 .. MaxClock,
                     token : Tokens]
  BY DEF FinishLogin, Inv, TypeOK, LoginStates, Idle
<1>2. t \in Tokens /\ t # NoToken /\ t.issued \in Int /\ t.lifetime \in Int
  <2>1. t \in Tokens
    BY <1>1
  <2>. QED  BY <2>1, TokenTyped
<1>3. /\ t.client = logins[c].cfg.client
      /\ t.issued <= now
      /\ now <= t.issued + LoginTimeout
  <2>1. LoginInTime(c) /\ logins[c] # Idle /\ logins[c].since \in Int
    BY <1>1 DEF Inv, LoginsInTime, FinishLogin, Idle
  <2>. QED  BY <1>2, <2>1, AuthAssumption DEF LoginInTime, FinishLogin, Inv, TypeOK
<1>4. /\ tokens' = t
      /\ clientID' = t.client
      /\ issuedAt' = now
      /\ expiresAt' = IF t.lifetime > 0 THEN now + t.lifetime ELSE 0
      /\ now' = now
      /\ logins' = [logins EXCEPT ![c] = Idle]
  BY <1>3 DEF FinishLogin, Set
<1>5. TypeOK'
  BY <1>2, <1>4 DEF Inv, TypeOK, LoginStates, Tokens, Clients
<1>6. FieldsOfOneLogin'
  BY <1>2, <1>3, <1>4 DEF FieldsOfOneLogin, Inv, TypeOK
<1>7. LoginsInTime'
  <2>. SUFFICES ASSUME NEW d \in Callers PROVE LoginInTime(d)'
    BY DEF LoginsInTime
  <2>1. logins'[d] = Idle \/ logins'[d] = logins[d]
    BY <1>4 DEF Inv, TypeOK
  <2>. QED  BY <1>4, <2>1 DEF Inv, LoginsInTime, LoginInTime, Idle
<1>. QED  BY <1>5, <1>6, <1>7 DEF Inv

\* Time does not pass the deadline of a login, so none outlives it.
LEMMA TickKeepsInv ==
  ASSUME Inv, Tick
  PROVE  Inv'
<1>1. now' = now + 1 /\ now \in Int /\ now' \in 1 .. MaxClock
  BY AuthAssumption DEF Tick, Inv, TypeOK
<1>2. UNCHANGED <<tokens, clientID, issuedAt, expiresAt, logins>>
  BY DEF Tick, stored
<1>3. TypeOK'
  BY <1>1, <1>2 DEF Inv, TypeOK, LoginStates, Tokens, Clients
<1>4. FieldsOfOneLogin'
  <2>1. issuedAt \in Int
    BY DEF Inv, TypeOK
  <2>. QED  BY <1>1, <1>2, <2>1 DEF Inv, FieldsOfOneLogin
<1>5. LoginsInTime'
  <2>. SUFFICES ASSUME NEW c \in Callers, logins[c] # Idle
                PROVE  LoginInTime(c)'
    BY <1>2 DEF LoginsInTime, LoginInTime, Idle
  <2>1. now < logins[c].since + LoginTimeout /\ LoginInTime(c)
    BY DEF Tick, Inv, LoginsInTime
  <2>2. /\ logins[c].since \in 1 .. MaxClock
        /\ logins[c].at = "issued" => logins[c].token \in Tokens
    BY DEF Inv, TypeOK, LoginStates, Idle
  <2>3. logins[c].since \in Int /\ LoginTimeout \in Int
    BY <2>2, AuthAssumption
  <2>4. logins[c].at = "issued" => logins[c].token.issued \in Int
    BY <2>2, AuthAssumption DEF Tokens
  <2>. QED  BY <1>1, <1>2, <2>1, <2>3, <2>4 DEF LoginInTime, Idle
<1>. QED  BY <1>3, <1>4, <1>5 DEF Inv

\* Clear empties the four fields together.
LEMMA ClearKeepsInv ==
  ASSUME Inv, Clear
  PROVE  Inv'
BY AuthAssumption DEF Inv, Clear, TypeOK, FieldsOfOneLogin, LoginsInTime,
   LoginInTime, LoginStates, Tokens, Clients, Idle

\* The invariant of the manager and of the logins around it.
THEOREM AuthInvariant == Spec => []Inv
<1>1. Inv /\ [Next]_authVars => Inv'
  <2>. SUFFICES ASSUME Inv, [Next]_authVars PROVE Inv'
    OBVIOUS
  <2>1. ASSUME NEW c \in Callers, NEW cfg \in Configs, StartLogin(c, cfg)
        PROVE  Inv'
    BY <2>1, StartLoginKeepsInv
  <2>2. ASSUME NEW c \in Callers, ProvePassword(c) PROVE Inv'
    BY <2>2, ProvePasswordKeepsInv
  <2>3. ASSUME NEW c \in Callers, NEW lifetime \in Lifetimes,
               CognitoIssues(c, lifetime)
        PROVE  Inv'
    BY <2>3, CognitoIssuesKeepsInv
  <2>4. ASSUME NEW c \in Callers, FailLogin(c) PROVE Inv'
    BY <2>4, FailLoginKeepsInv
  <2>5. ASSUME NEW c \in Callers, FinishLogin(c) PROVE Inv'
    BY <2>5, FinishLoginKeepsInv
  <2>6. CASE Clear
    BY <2>6, ClearKeepsInv
  <2>7. CASE Tick
    BY <2>7, TickKeepsInv
  <2>8. CASE UNCHANGED authVars
    BY <2>8 DEF authVars, Inv, TypeOK, FieldsOfOneLogin, LoginsInTime,
       LoginInTime, LoginStates, Tokens, Clients, Idle
  <2>. QED  BY <2>1, <2>2, <2>3, <2>4, <2>5, <2>6, <2>7, <2>8 DEF Next
<1>. QED  BY <1>1, InitInv, PTL DEF Spec
-----------------------------------------------------------------------------
\* The stored fields always describe the login whose tokens are stored.
THEOREM AuthFieldsOfOneLogin == Spec => [](TypeOK /\ FieldsOfOneLogin)
<1>1. Inv => TypeOK /\ FieldsOfOneLogin
  BY DEF Inv
<1>. QED  BY <1>1, AuthInvariant, PTL

\* Every field stays within its type.
THEOREM AuthTypeCorrect == Spec => []TypeOK
<1>1. Inv => TypeOK
  BY DEF Inv
<1>. QED  BY <1>1, AuthInvariant, PTL

\* The numbers of a stored token.
LEMMA StoredTokenTyped ==
  ASSUME TypeOK, tokens # NoToken
  PROVE  /\ tokens.issued \in Nat \ {0}
         /\ tokens.lifetime \in Int
         /\ issuedAt \in Nat
         /\ now \in Nat
<1>1. tokens \in Tokens /\ issuedAt \in Nat /\ now \in Nat
  BY AuthAssumption DEF TypeOK
<1>. QED  BY <1>1, TokenTyped

\* The manager's expiry is Cognito's, put off by the time the login took.
THEOREM AuthStaleTokenBounded == Spec => []StaleTokenBounded
<1>1. Inv => StaleTokenBounded
  <2>. SUFFICES ASSUME Inv, tokens # NoToken, ~Expired, tokens.lifetime > 0
                PROVE  now <= tokens.issued + tokens.lifetime + LoginTimeout
    BY DEF StaleTokenBounded, AccessToken
  <2>1. /\ expiresAt = issuedAt + tokens.lifetime
        /\ issuedAt <= tokens.issued + LoginTimeout
        /\ tokens.issued <= issuedAt
    BY DEF Inv, FieldsOfOneLogin
  <2>2. /\ tokens.issued \in Nat \ {0} /\ tokens.lifetime \in Int
        /\ issuedAt \in Nat /\ now \in Nat /\ LoginTimeout \in Nat
    BY StoredTokenTyped, AuthAssumption DEF Inv
  <2>3. expiresAt # 0 /\ now <= expiresAt
    BY <2>1, <2>2 DEF Expired
  <2>. QED  BY <2>1, <2>2, <2>3
<1>. QED  BY <1>1, AuthInvariant, PTL

\* A token is not refused while Cognito honours it.
THEOREM AuthLiveTokenServed == Spec => []LiveTokenServed
<1>1. Inv => LiveTokenServed
  <2>. SUFFICES ASSUME Inv, tokens # NoToken,
                       tokens.lifetime > 0 => now <= tokens.issued + tokens.lifetime
                PROVE  ~Expired
    BY DEF LiveTokenServed, AccessToken
  <2>1. /\ tokens.issued \in Nat \ {0} /\ tokens.lifetime \in Int
        /\ issuedAt \in Nat /\ now \in Nat
    BY StoredTokenTyped DEF Inv
  <2>2. /\ tokens.issued <= issuedAt
        /\ expiresAt = IF tokens.lifetime > 0
                         THEN issuedAt + tokens.lifetime ELSE 0
    BY DEF Inv, FieldsOfOneLogin
  <2>. QED  BY <2>1, <2>2 DEF Expired
<1>. QED  BY <1>1, AuthInvariant, PTL

\* The status and the token a request is given tell of the same session.
THEOREM AuthStatusAgrees == Spec => []StatusAgreesWithToken
<1>1. Inv => StatusAgreesWithToken
  BY DEF Inv, FieldsOfOneLogin, StatusAgreesWithToken, Snapshot, AccessToken
<1>. QED  BY <1>1, AuthInvariant, PTL
=============================================================================
