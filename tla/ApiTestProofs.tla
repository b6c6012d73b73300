--------------------------- MODULE ApiTestProofs ----------------------------
(***************************************************************************)
(* Proofs about ApiTest, for any calls, clients and answers.               *)
(*                                                                         *)
(* Inv is inductive: the types, the count of logins, what each call knows  *)
(* by the point it has reached, and, of a client whose tests run in turn,  *)
(* that at most one call is under way and how didAuth, jwt and jwtErr      *)
(* stand together while it is.                                             *)
(***************************************************************************)
EXTENDS ApiTest, CatalogProofs

Places == {"idle", "cached", "claim", "mint", "await token", "store",
           "returned", "send", "await answer", "answered", "passed", "failed"}
Founds == {NotFound} \cup {Resolved[s.spec][c] : s \in Setups, c \in Calls}
Auths == {Absent, Value("header"), Value("custom"), Mask} \cup {SessionValue(t) : t \in Strings}
Outs == [status : Nat, error : BOOLEAN, auth : Auths]
Bodies == {NoBody} \cup {answer.body : answer \in Answers}
CallStates == {s \in [at : Places, found : Founds, jwt : Strings,
                      sent : Seq(Auths), out : Outs, body : Bodies] :
               s.at = "await answer" => s.sent # <<>>}

Typed == /\ setup \in Setups
         /\ didAuth \in BOOLEAN /\ jwtErr \in BOOLEAN
         /\ jwt \in Strings
         /\ call \in [Calls -> CallStates]
         /\ mints \in Nat

Step(c) == \/ Run(c) \/ CognitoIssues(c) \/ CognitoFails(c)
           \/ \E answer \in Answers : BackendAnswers(c, answer)

LEMMA ValuesTyped ==
  /\ Nothing \in Outs /\ NotSent \in Outs /\ NoBody \in Bodies /\ NotFound \in Founds
  /\ Idle \in CallStates
<1>1. Nothing \in Outs /\ NotSent \in Outs
  BY DEF Nothing, NotSent, Outs, Auths
<1>2. NoBody \in Bodies /\ NotFound \in Founds
  BY DEF Bodies, Founds
<1>3. "idle" \in Places /\ Empty \in Strings /\ <<>> \in Seq(Auths)
  BY DEF Places, Strings
<1>. QED  BY <1>1, <1>2, <1>3 DEF Idle, CallStates

LEMMA AuthorizationTyped ==
  ASSUME NEW in, NEW t \in Strings, in.mode \in {"jwt", "none"}
  PROVE  Authorization(in, IF t = Empty THEN Absent ELSE SessionValue(t)) \in Auths
BY DEF Authorization, OwnHeader, Auths

LEMMA OutcomesTyped ==
  ASSUME NEW a \in Auths, NEW status \in Nat
  PROVE  /\ Answer(a, status) \in Outs
         /\ Unreadable(a, status) \in Outs
         /\ TransportError(a) \in Outs
BY DEF Answer, Unreadable, TransportError, Outs, Masked, Auths

LEMMA InitTyped == Init => Typed
<1>. SUFFICES ASSUME Init PROVE Typed
  OBVIOUS
<1>1. setup.noAuth \in BOOLEAN /\ setup.jwt \in BOOLEAN
  BY ApiTestAssumption DEF Init
<1>2. didAuth \in BOOLEAN
  BY <1>1 DEF Init, KnowsFromStart
<1>3. call \in [Calls -> CallStates]
  BY ValuesTyped DEF Init
<1>. QED  BY <1>2, <1>3 DEF Init, Typed, Strings

LEMMA FixedTypes == Calls' = Calls /\ CallStates' = CallStates /\ Setups' = Setups /\ Strings' = Strings
BY DEF CallStates, Places, Founds, Bodies, Outs, Auths, Strings, Empty, Fixed, Torn, Minted,
       Absent, Mask, Value, SessionValue, NoBody, NotFound, Resolved, Operation

LEMMA TypedStep ==
  ASSUME Typed, NEW c \in Calls, Step(c)
  PROVE  Typed'
<1>0. call[c] \in CallStates /\ call \in [Calls -> CallStates]
  BY DEF Typed
<1>a. ASSUME NEW state \in CallStates, call' = [call EXCEPT ![c] = state],
             setup' = setup, didAuth' \in BOOLEAN, jwtErr' \in BOOLEAN, jwt' \in Strings, mints' \in Nat
      PROVE  Typed'
  BY <1>0, <1>a, FixedTypes DEF Typed
<1>b. UNCHANGED <<setup, client, mints>> =>
        /\ setup' = setup /\ didAuth' \in BOOLEAN /\ jwtErr' \in BOOLEAN
        /\ jwt' \in Strings /\ mints' \in Nat
  BY DEF Typed, client
<1>1. CASE Start(c)
  <2>. DEFINE found == Resolved[setup.spec][c]
              at == IF ~found.ok \/ ~Asks[c].readable THEN "failed"
                    ELSE IF ~NeedsToken(Asks[c], found.op) THEN "send"
                    ELSE IF didAuth THEN "cached" ELSE "claim"
  <2>1. found \in Founds /\ at \in Places
    BY DEF Typed, Founds, Places
  <2>5. at # "await answer"
    OBVIOUS
  <2>2. call' = [call EXCEPT ![c].found = found, ![c].at = at] /\ UNCHANGED <<setup, client, mints>>
    BY <1>1 DEF Start
  <2>. HIDE DEF found, at
  <2>3. [call[c] EXCEPT !.found = found, !.at = at] \in CallStates
    BY <1>0, <2>1, <2>5 DEF CallStates
  <2>4. call' = [call EXCEPT ![c] = [call[c] EXCEPT !.found = found, !.at = at]]
    BY <1>0, <2>2
  <2>. QED  BY <1>a, <1>b, <2>2, <2>3, <2>4
<1>2. CASE ReadJWT(c)
  <2>1. PICK seen \in {Empty, Torn, jwt} : call' = [call EXCEPT ![c].at = "returned", ![c].jwt = seen]
    BY <1>2 DEF ReadJWT
  <2>2. [call[c] EXCEPT !.at = "returned", !.jwt = seen] \in CallStates
    BY <1>0 DEF CallStates, Places, Strings, Typed
  <2>3. call' = [call EXCEPT ![c] = [call[c] EXCEPT !.at = "returned", !.jwt = seen]]
    BY <1>0, <2>1
  <2>. QED  BY <1>2, <1>a, <1>b, <2>2, <2>3 DEF ReadJWT
<1>3. ASSUME NEW where \in Places \ {"await answer"}, Goto(c, where),
             setup' = setup, didAuth' \in BOOLEAN, jwtErr' \in BOOLEAN, jwt' \in Strings, mints' \in Nat
      PROVE  Typed'
  <2>1. [call[c] EXCEPT !.at = where] \in CallStates
    BY <1>0 DEF CallStates
  <2>2. call' = [call EXCEPT ![c] = [call[c] EXCEPT !.at = where]]
    BY <1>0, <1>3 DEF Goto
  <2>. QED  BY <1>a, <1>3, <2>1, <2>2
<1>4. CASE Claim(c) \/ AskCognito(c) \/ CognitoIssues(c) \/ Store(c) \/ CognitoFails(c)
             \/ CheckErr(c) \/ Judge(c)
  <2>1. \E where \in Places \ {"await answer"} : Goto(c, where)
    BY <1>4 DEF Claim, AskCognito, CognitoIssues, Store, CognitoFails, CognitoFailsTo,
                CheckErr, Judge, Places
  <2>2. didAuth' \in BOOLEAN
    BY <1>4 DEF Claim, AskCognito, CognitoIssues, Store, CognitoFails, CognitoFailsTo,
                CheckErr, Judge, Typed, client
  <2>3. jwtErr' \in BOOLEAN
    BY <1>4 DEF Claim, AskCognito, CognitoIssues, Store, CognitoFails, CognitoFailsTo,
                CheckErr, Judge, Typed, client
  <2>4. setup' = setup /\ jwt' \in Strings
    BY <1>4 DEF Claim, AskCognito, CognitoIssues, Store, CognitoFails, CognitoFailsTo,
                CheckErr, Judge, Typed, Strings, client
  <2>5. mints' \in Nat
    <3>1. mints' = mints \/ mints' = mints + 1
      BY <1>4 DEF Claim, AskCognito, CognitoIssues, Store, CognitoFails, CognitoFailsTo, CheckErr, Judge
    <3>. QED  BY <3>1 DEF Typed
  <2>. QED  BY <1>3, <2>1, <2>2, <2>3, <2>4, <2>5
<1>5. CASE Send(c)
  <2>. DEFINE auth == Authorization(Input(c), IF call[c].jwt = Empty THEN Absent
                                                                     ELSE SessionValue(call[c].jwt))
  <2>1. auth \in Auths
    <3>1. Input(c).mode \in {"jwt", "none"} /\ call[c].jwt \in Strings
      BY <1>0 DEF Input, CallStates
    <3>. QED  BY <3>1, AuthorizationTyped
  <2>2. /\ \/ call' = [call EXCEPT ![c].at = "await answer", ![c].sent = <<auth>>]
           \/ call' = [call EXCEPT ![c].at = "answered", ![c].out = NotSent]
        /\ UNCHANGED <<setup, client, mints>>
    <3>1. CASE setup.valid
      BY <1>5, <3>1 DEF Send
    <3>2. CASE ~setup.valid
      BY <1>5, <3>2 DEF Send
    <3>. QED  BY <3>1, <3>2
  <2>. HIDE DEF auth
  <2>3. /\ [call[c] EXCEPT !.at = "await answer", !.sent = <<auth>>] \in CallStates
        /\ [call[c] EXCEPT !.at = "answered", !.out = NotSent] \in CallStates
    <3>1. <<auth>> \in Seq(Auths) /\ <<auth>> # <<>>
      BY <2>1
    <3>2. "await answer" \in Places /\ "answered" \in Places
      BY DEF Places
    <3>. QED  BY <1>0, <3>1, <3>2, ValuesTyped DEF CallStates
  <2>4. \/ call' = [call EXCEPT ![c] = [call[c] EXCEPT !.at = "await answer", !.sent = <<auth>>]]
        \/ call' = [call EXCEPT ![c] = [call[c] EXCEPT !.at = "answered", !.out = NotSent]]
    BY <1>0, <2>2
  <2>. QED  BY <1>a, <1>b, <2>2, <2>3, <2>4
<1>6. ASSUME NEW o \in Outs, NEW b \in Bodies, Outcome(c, o, b)
      PROVE  Typed'
  <2>1. [call[c] EXCEPT !.at = "answered", !.out = o, !.body = b] \in CallStates
    BY <1>0 DEF CallStates, Places
  <2>2. call' = [call EXCEPT ![c] = [call[c] EXCEPT !.at = "answered", !.out = o, !.body = b]]
    BY <1>0, <1>6 DEF Outcome
  <2>. QED  BY <1>6, <1>a, <1>b, <2>1, <2>2 DEF Outcome
<1>7. CASE GiveUp(c) \/ \E answer \in Answers : BackendAnswers(c, answer)
  <2>1. At(c, "await answer")
    BY <1>7 DEF GiveUp, BackendAnswers, Outcome
  <2>2. call[c].sent[1] \in Auths
    <3>1. call[c].sent \in Seq(Auths) /\ call[c].sent # <<>>
      BY <1>0, <2>1 DEF CallStates, At
    <3>. QED  BY <3>1
  <2>3. CASE GiveUp(c)
    BY <1>6, <2>2, <2>3, OutcomesTyped, ValuesTyped, ApiTestAssumption DEF GiveUp
  <2>4. ASSUME NEW answer \in Answers, BackendAnswers(c, answer)
        PROVE  Typed'
    <3>1. answer.status \in Nat /\ answer.body \in Bodies
      BY ApiTestAssumption DEF Bodies
    <3>2. /\ Answer(call[c].sent[1], answer.status) \in Outs
          /\ Unreadable(call[c].sent[1], answer.status) \in Outs
      BY <2>2, <3>1, OutcomesTyped
    <3>. QED  BY <1>6, <2>4, <3>1, <3>2, ValuesTyped DEF BackendAnswers
  <2>. QED  BY <1>7, <2>3, <2>4
<1>. QED  BY <1>1, <1>2, <1>4, <1>5, <1>7 DEF Step, Run
-----------------------------------------------------------------------------
\* A step leaves the other calls and the setup alone.
LEMMA OthersStay ==
  ASSUME Typed, NEW c \in Calls, Step(c)
  PROVE  setup' = setup /\ \A d \in Calls \ {c} : call'[d] = call[d]
<1>0. call \in [Calls -> CallStates]
  BY DEF Typed
<1>1. setup' = setup
  BY DEF Step, Run, Start, ReadJWT, Claim, AskCognito, Store, CheckErr, Send, GiveUp, Judge,
         CognitoIssues, CognitoFails, CognitoFailsTo, BackendAnswers, Outcome
<1>2. ASSUME NEW where, Goto(c, where)
      PROVE  \A d \in Calls \ {c} : call'[d] = call[d]
  BY <1>0, <1>2 DEF Goto
<1>3. CASE Start(c) \/ ReadJWT(c)
  BY <1>0, <1>1, <1>3 DEF Start, ReadJWT
<1>4. CASE Claim(c) \/ AskCognito(c) \/ Store(c) \/ CheckErr(c) \/ Judge(c)
             \/ CognitoIssues(c) \/ CognitoFails(c)
  BY <1>1, <1>2, <1>4 DEF Claim, AskCognito, Store, CheckErr, Judge, CognitoIssues,
                          CognitoFails, CognitoFailsTo
<1>5. CASE Send(c)
  BY <1>0, <1>1, <1>5 DEF Send
<1>6. CASE GiveUp(c) \/ \E answer \in Answers : BackendAnswers(c, answer)
  BY <1>0, <1>1, <1>6 DEF GiveUp, BackendAnswers, Outcome
<1>. QED  BY <1>3, <1>4, <1>5, <1>6 DEF Step, Run
-----------------------------------------------------------------------------
\* What a call knows of its outcome, and a passed one of its assertions.
Told(c) ==
  /\ call[c].at \notin {"answered", "passed", "failed"} => call[c].body = NoBody
  /\ call[c].at \in {"answered", "passed"} =>
       IF call[c].out.error THEN call[c].body = NoBody ELSE call[c].sent # <<>>
  /\ At(c, "passed") =>
       \A i \in DOMAIN Asks[c].checks : Holds(call[c].out, call[c].body, Asks[c].checks[i])

LEMMA ToldStep ==
  ASSUME Typed, NEW c \in Calls, Step(c), Told(c)
  PROVE  Told(c)'
<1>0. call \in [Calls -> CallStates] /\ call[c] \in CallStates
  BY DEF Typed
<1>1. ASSUME NEW where \in Places \ {"answered", "passed"}, Goto(c, where),
             call[c].at \notin {"answered", "passed", "failed"}
      PROVE  Told(c)'
  BY <1>0, <1>1 DEF Told, Goto, At, CallStates
<1>2. CASE Start(c)
  <2>. DEFINE found == Resolved[setup.spec][c]
              at == IF ~found.ok \/ ~Asks[c].readable THEN "failed"
                    ELSE IF ~NeedsToken(Asks[c], found.op) THEN "send"
                    ELSE IF didAuth THEN "cached" ELSE "claim"
  <2>1. at \in {"failed", "send", "cached", "claim"}
    OBVIOUS
  <2>2. call' = [call EXCEPT ![c].found = found, ![c].at = at] /\ At(c, "idle")
    BY <1>2 DEF Start, MayStart
  <2>. HIDE DEF found, at
  <2>. QED  BY <1>0, <2>1, <2>2 DEF Told, At, CallStates
<1>3. CASE ReadJWT(c)
  <2>1. PICK seen : call' = [call EXCEPT ![c].at = "returned", ![c].jwt = seen]
    BY <1>3 DEF ReadJWT
  <2>2. At(c, "cached")
    BY <1>3 DEF ReadJWT
  <2>. QED  BY <1>0, <2>1, <2>2 DEF Told, At, CallStates
<1>4. CASE Claim(c) \/ AskCognito(c) \/ CognitoIssues(c) \/ Store(c) \/ CognitoFails(c) \/ CheckErr(c)
  <2>1. \E where \in Places \ {"answered", "passed"} : Goto(c, where)
    BY <1>4 DEF Claim, AskCognito, CognitoIssues, Store, CognitoFails, CognitoFailsTo,
                CheckErr, Places
  <2>2. call[c].at \notin {"answered", "passed", "failed"}
    BY <1>4 DEF Claim, AskCognito, CognitoIssues, Store, CognitoFails, CognitoFailsTo, CheckErr, At
  <2>. QED  BY <1>1, <2>1, <2>2
<1>5. CASE Send(c)
  <2>. DEFINE auth == Authorization(Input(c), IF call[c].jwt = Empty THEN Absent
                                                                     ELSE SessionValue(call[c].jwt))
  <2>1. /\ \/ call' = [call EXCEPT ![c].at = "await answer", ![c].sent = <<auth>>]
           \/ call' = [call EXCEPT ![c].at = "answered", ![c].out = NotSent]
        /\ At(c, "send")
    BY <1>5 DEF Send
  <2>. HIDE DEF auth
  <2>2. CASE call' = [call EXCEPT ![c].at = "await answer", ![c].sent = <<auth>>]
    BY <1>0, <2>1, <2>2 DEF Told, At, CallStates
  <2>3. CASE call' = [call EXCEPT ![c].at = "answered", ![c].out = NotSent]
    <3>1. call'[c].at = "answered" /\ call'[c].out = NotSent /\ call'[c].body = call[c].body
      BY <1>0, <2>3 DEF CallStates
    <3>2. call[c].body = NoBody /\ NotSent.error = TRUE
      BY <2>1 DEF Told, At, NotSent
    <3>. QED  BY <3>1, <3>2 DEF Told, At
  <2>. QED  BY <2>1, <2>2, <2>3
<1>6. ASSUME NEW o, NEW b, Outcome(c, o, b), o.error = TRUE => b = NoBody, o.error \in BOOLEAN
      PROVE  Told(c)'
  <2>1. call[c].sent # <<>>
    BY <1>0, <1>6 DEF Outcome, At, CallStates
  <2>. QED  BY <1>0, <1>6, <2>1 DEF Outcome, Told, At, CallStates
<1>7. CASE GiveUp(c) \/ \E answer \in Answers : BackendAnswers(c, answer)
  BY <1>6, <1>7 DEF GiveUp, BackendAnswers, TransportError, Unreadable, Answer
<1>8. CASE Judge(c)
  <2>. DEFINE all == \A i \in DOMAIN Asks[c].checks : Holds(call[c].out, call[c].body, Asks[c].checks[i])
  <2>1. At(c, "answered") /\ Goto(c, IF all THEN "passed" ELSE "failed")
    BY <1>8 DEF Judge
  <2>2. CASE ~all
    <3>. HIDE DEF all
    <3>. QED  BY <1>0, <2>1, <2>2 DEF Goto, Told, At, CallStates
  <2>3. CASE all
    <3>1. call' = [call EXCEPT ![c].at = "passed"]
      BY <2>1, <2>3 DEF Goto
    <3>2. /\ call'[c].at = "passed" /\ call'[c].out = call[c].out
          /\ call'[c].body = call[c].body /\ call'[c].sent = call[c].sent
      BY <1>0, <3>1 DEF CallStates
    <3>. QED  BY <2>1, <2>3, <3>2 DEF Told, At
  <2>. QED  BY <2>2, <2>3
<1>. QED  BY <1>2, <1>3, <1>4, <1>5, <1>7, <1>8 DEF Step, Run

-----------------------------------------------------------------------------
\* Where a path leads, and what is at a depth, are functions that there are.
LEMMA GetPathIs ==
  ASSUME NEW value, NEW path, Len(path) \in Nat
  PROVE  \E at : /\ at = [n \in 0 .. Len(path) |->
                            IF n = 0 THEN value ELSE Member(at[n - 1], path[n])]
                 /\ GetPath(value, path) = at[Len(path)]
<1>. DEFINE depth == Len(path)
            is(at, m) == at = [n \in 0 .. m |-> IF n = 0 THEN value ELSE Member(at[n - 1], path[n])]
            done == {m \in 0 .. depth : \E at : is(at, m)}
            f == CHOOSE at : is(at, depth)
<1>. HIDE DEF depth
<1>0. depth \in Nat
  BY DEF depth
<1>1. 0 \in done
  <2>. DEFINE at == [n \in 0 .. 0 |-> value]
  <2>1. is(at, 0)
    OBVIOUS
  <2>. HIDE DEF at, is
  <2>. QED  BY <1>0, <2>1
<1>2. ASSUME NEW m \in 0 .. depth - 1, m \in done PROVE m + 1 \in done
  <2>1. PICK at : is(at, m)
    BY <1>2
  <2>. DEFINE h == [n \in 0 .. m + 1 |-> IF n = m + 1 THEN Member(at[m], path[m + 1]) ELSE at[n]]
  <2>2. ASSUME NEW n \in 0 .. m + 1
        PROVE  h[n] = IF n = 0 THEN value ELSE Member(h[n - 1], path[n])
    <3>1. CASE n = m + 1
      <4>1. n - 1 = m /\ n # 0 /\ m \in 0 .. m + 1 /\ m # m + 1
        BY <1>0, <3>1
      <4>. QED  BY <3>1, <4>1
    <3>2. CASE n # m + 1
      <4>1. n \in 0 .. m /\ n - 1 # m + 1
        BY <1>0, <3>2
      <4>2. h[n] = at[n] /\ at[n] = IF n = 0 THEN value ELSE Member(at[n - 1], path[n])
        BY <2>1, <3>2, <4>1
      <4>3. n # 0 => n - 1 \in 0 .. m + 1 /\ h[n - 1] = at[n - 1]
        BY <4>1
      <4>. QED  BY <4>2, <4>3
    <3>. QED  BY <3>1, <3>2
  <2>3. is(h, m + 1)
    BY <2>2
  <2>4. m + 1 \in 0 .. depth
    BY <1>0
  <2>. HIDE DEF h, is
  <2>. QED  BY <2>3, <2>4
<1>3. 0 .. depth \subseteq done
  <2>. HIDE DEF done
  <2>. QED  BY <1>0, <1>1, <1>2, Stepwise
<1>4. is(f, depth)
  <2>. HIDE DEF is
  <2>1. depth \in done
    BY <1>0, <1>3
  <2>. QED  BY <2>1
<1>5. GetPath(value, path) = f[depth]
  BY DEF GetPath, f, depth
<1>. HIDE DEF f
<1>. QED  BY <1>4, <1>5 DEF depth

LEMMA PlacesAtIs ==
  ASSUME NEW value, NEW depth \in Nat
  PROVE  \E at : /\ at = [n \in 0 .. depth |->
                            IF n = 0 THEN {[path |-> <<>>, value |-> value]}
                            ELSE UNION {Contents(place) : place \in at[n - 1]}]
                 /\ PlacesAt(value, depth) = at[depth]
<1>. DEFINE first == {[path |-> <<>>, value |-> value]}
            next(places) == UNION {Contents(place) : place \in places}
            is(at, m) == at = [n \in 0 .. m |-> IF n = 0 THEN first ELSE next(at[n - 1])]
            done == {m \in 0 .. depth : \E at : is(at, m)}
            f == CHOOSE at : is(at, depth)
<1>. HIDE DEF first, next
<1>1. 0 \in done
  <2>. DEFINE at == [n \in 0 .. 0 |-> first]
  <2>1. is(at, 0)
    OBVIOUS
  <2>. HIDE DEF at, is
  <2>. QED  BY <2>1
<1>2. ASSUME NEW m \in 0 .. depth - 1, m \in done PROVE m + 1 \in done
  <2>1. PICK at : is(at, m)
    BY <1>2
  <2>. DEFINE h == [n \in 0 .. m + 1 |-> IF n = m + 1 THEN next(at[m]) ELSE at[n]]
  <2>2. ASSUME NEW n \in 0 .. m + 1
        PROVE  h[n] = IF n = 0 THEN first ELSE next(h[n - 1])
    <3>1. CASE n = m + 1
      <4>1. n - 1 = m /\ n # 0 /\ m \in 0 .. m + 1 /\ m # m + 1
        BY <3>1
      <4>. QED  BY <3>1, <4>1
    <3>2. CASE n # m + 1
      <4>1. n \in 0 .. m /\ n - 1 # m + 1
        BY <3>2
      <4>2. h[n] = at[n] /\ at[n] = IF n = 0 THEN first ELSE next(at[n - 1])
        BY <2>1, <3>2, <4>1
      <4>3. n # 0 => n - 1 \in 0 .. m + 1 /\ h[n - 1] = at[n - 1]
        BY <4>1
      <4>. QED  BY <4>2, <4>3
    <3>. QED  BY <3>1, <3>2
  <2>3. is(h, m + 1)
    BY <2>2
  <2>4. m + 1 \in 0 .. depth
    OBVIOUS
  <2>. HIDE DEF h, is
  <2>. QED  BY <2>3, <2>4
<1>3. 0 .. depth \subseteq done
  <2>. HIDE DEF done
  <2>. QED  BY <1>1, <1>2, Stepwise
<1>4. is(f, depth)
  <2>1. \E at : is(at, depth)
    BY <1>3
  <2>. HIDE DEF is
  <2>. QED  BY <2>1
<1>5. PlacesAt(value, depth) = f[depth]
  BY DEF PlacesAt, f, first, next
<1>. HIDE DEF f
<1>. QED  BY <1>4, <1>5 DEF first, next

\* A member that is not nil is among the contents, under the name or index asked for.
LEMMA MemberIsContained ==
  ASSUME NEW value, NEW way, NEW part \in PathParts, Member(value, part) # Nil
  PROVE  [path |-> Append(way, part), value |-> Member(value, part)]
           \in Contents([path |-> way, value |-> value])
<1>1. CASE value.kind = "object" /\ part.by = "name" /\ part.name \in DOMAIN value.fields
  <2>1. part = [by |-> "name", name |-> part.name]
    BY <1>1 DEF PathParts
  <2>2. Member(value, part) = value.fields[part.name]
    BY <1>1 DEF Member
  <2>. QED  BY <1>1, <2>1, <2>2 DEF Contents
<1>2. CASE value.kind = "array" /\ part.by = "index" /\ part.index \in 0 .. Len(value.items) - 1
  <2>1. part = [by |-> "index", index |-> part.index] /\ part.index \in Int
    BY <1>2 DEF PathParts
  <2>2. Member(value, part) = value.items[part.index + 1]
    BY <1>2 DEF Member
  <2>3. part.index + 1 \in 1 .. Len(value.items) /\ (part.index + 1) - 1 = part.index
    BY <1>2, <2>1
  <2>. QED  BY <1>2, <2>1, <2>2, <2>3 DEF Contents
<1>. QED  BY <1>1, <1>2 DEF Member

\* What a path leads to is at that path, or nil.
LEMMA PathLeadsThere ==
  ASSUME NEW value, NEW path \in Seq(PathParts), GetPath(value, path) # Nil
  PROVE  \E place \in PlacesAt(value, Len(path)) :
           place.path = path /\ place.value = GetPath(value, path)
<1>. DEFINE depth == Len(path)
            way(n) == SubSeq(path, 1, n)
<1>0. depth \in Nat
  OBVIOUS
<1>1. PICK at : /\ at = [n \in 0 .. depth |-> IF n = 0 THEN value ELSE Member(at[n - 1], path[n])]
                /\ GetPath(value, path) = at[depth]
  BY <1>0, GetPathIs
<1>2. PICK places : /\ places = [n \in 0 .. depth |->
                                   IF n = 0 THEN {[path |-> <<>>, value |-> value]}
                                   ELSE UNION {Contents(place) : place \in places[n - 1]}]
                    /\ PlacesAt(value, depth) = places[depth]
  BY <1>0, PlacesAtIs
<1>. DEFINE there == {n \in 0 .. depth :
                       at[n] = Nil \/ [path |-> way(n), value |-> at[n]] \in places[n]}
<1>3. 0 \in there
  <2>1. way(0) = <<>>
    OBVIOUS
  <2>2. at[0] = value /\ places[0] = {[path |-> <<>>, value |-> value]}
    BY <1>0, <1>1, <1>2
  <2>. QED  BY <1>0, <2>1, <2>2
<1>4. ASSUME NEW n \in 0 .. depth - 1, n \in there PROVE n + 1 \in there
  <2>1. n + 1 \in 0 .. depth /\ n + 1 # 0 /\ (n + 1) - 1 = n /\ n + 1 \in 1 .. depth
    BY <1>0
  <2>2. at[n + 1] = Member(at[n], path[n + 1])
    BY <1>1, <2>1
  <2>3. places[n + 1] = UNION {Contents(place) : place \in places[n]}
    BY <1>2, <2>1
  <2>4. path[n + 1] \in PathParts /\ way(n + 1) = Append(way(n), path[n + 1])
    BY <2>1
  <2>5. CASE at[n] = Nil
    BY <2>1, <2>2, <2>5 DEF Member, Nil
  <2>6. CASE at[n] # Nil /\ at[n + 1] # Nil
    <3>1. [path |-> way(n), value |-> at[n]] \in places[n]
      BY <1>4, <2>6
    <3>. HIDE DEF way
    <3>2. [path |-> way(n + 1), value |-> at[n + 1]] \in Contents([path |-> way(n), value |-> at[n]])
      BY <2>2, <2>4, <2>6, MemberIsContained
    <3>. QED  BY <2>1, <2>3, <3>1, <3>2
  <2>7. CASE at[n + 1] = Nil
    BY <2>1, <2>7
  <2>. QED  BY <2>5, <2>6, <2>7
<1>5. 0 .. depth \subseteq there
  <2>. HIDE DEF there
  <2>. QED  BY <1>0, <1>3, <1>4, Stepwise
<1>6. at[depth] # Nil
  BY <1>1
<1>7. way(depth) = path
  OBVIOUS
<1>. HIDE DEF way, depth
<1>8. [path |-> way(depth), value |-> at[depth]] \in places[depth]
  <2>1. depth \in there
    BY <1>0, <1>5
  <2>. QED  BY <1>6, <2>1
<1>9. [path |-> path, value |-> GetPath(value, path)] \in PlacesAt(value, depth)
  BY <1>1, <1>2, <1>7, <1>8
<1>. QED  BY <1>9 DEF depth

\* The path without parts leads to the whole.
LEMMA WholeIsThere ==
  ASSUME NEW value
  PROVE  [path |-> <<>>, value |-> GetPath(value, <<>>)] \in PlacesAt(value, Len(<<>>))
<1>. DEFINE path == <<>>
<1>1. Len(path) = 0
  OBVIOUS
<1>0. Len(path) \in Nat
  BY <1>1
<1>. HIDE DEF path
<1>2. PICK at : /\ at = [n \in 0 .. Len(path) |-> IF n = 0 THEN value ELSE Member(at[n - 1], path[n])]
                /\ GetPath(value, path) = at[Len(path)]
  BY <1>0, GetPathIs
<1>3. PICK places : /\ places = [n \in 0 .. Len(path) |->
                                   IF n = 0 THEN {[path |-> <<>>, value |-> value]}
                                   ELSE UNION {Contents(place) : place \in places[n - 1]}]
                    /\ PlacesAt(value, Len(path)) = places[Len(path)]
  BY <1>0, PlacesAtIs
<1>4. GetPath(value, path) = value /\ [path |-> <<>>, value |-> value] \in PlacesAt(value, Len(path))
  BY <1>1, <1>2, <1>3
<1>. QED  BY <1>4 DEF path

\* And what it leads to in a body.
LEMMA JSONIsThere ==
  ASSUME NEW body, NEW path \in Seq(PathParts), path # <<>> => JSON(body, path) # Nil
  PROVE  JSON(body, path) \in ValuesAt(body, path)
<1>1. CASE body.json = <<>>
  <2>1. path = <<>>
    BY <1>1 DEF JSON
  <2>2. JSON(body, path) = [kind |-> "string", text |-> body.text]
    BY <1>1, <2>1 DEF JSON
  <2>3. path \in {<<>>} \cap {path}
    BY <2>1
  <2>. QED  BY <1>1, <2>2, <2>3 DEF ValuesAt
<1>2. CASE body.json # <<>>
  <2>. DEFINE v == GetPath(body.json[1], path)
  <2>1. JSON(body, path) = v
    BY <1>2 DEF JSON
  <2>2. \E place \in PlacesAt(body.json[1], Len(path)) : place.path = path /\ place.value = v
    <3>1. CASE v # Nil
      BY <3>1, PathLeadsThere
    <3>2. CASE path = <<>>
      <4>1. [path |-> path, value |-> v] \in PlacesAt(body.json[1], Len(path))
        BY <3>2, WholeIsThere
      <4>. HIDE DEF v
      <4>. QED  BY <4>1
    <3>. QED  BY <2>1, <3>1, <3>2
  <2>. HIDE DEF v
  <2>. QED  BY <1>2, <2>1, <2>2 DEF ValuesAt
<1>. QED  BY <1>1, <1>2

\* A call that has passed has met each of its assertions, so that every telling one
\* had an answer to look at, which bears it out.
LEMMA ToldImpliesExpected ==
  ASSUME Typed, \A c \in Calls : Told(c)
  PROVE  PassMeansExpected
<1>. SUFFICES ASSUME NEW c \in Calls, At(c, "passed"), NEW i \in DOMAIN Asks[c].checks,
                     Telling(Asks[c].checks[i])
              PROVE  LET a == Asks[c].checks[i]
                         o == call[c].out
                     IN  call[c].sent # <<>> /\ ~o.error /\ Bears(o, call[c].body, a)
  BY DEF PassMeansExpected
<1>. DEFINE a == Asks[c].checks[i]
            o == call[c].out
            body == call[c].body
<1>1. Holds(o, body, a) /\ Telling(a) /\ o.error \in BOOLEAN /\ o.status \in Nat
  BY DEF Told, Typed, CallStates, Outs
<1>2. IF o.error THEN body = NoBody ELSE call[c].sent # <<>>
  BY DEF Told, At
<1>3. /\ a.check \in {"status", "contains", "json", "capture", "decode", "no error"}
      /\ a.check \in {"json", "capture"} => a.path \in Seq(PathParts)
  BY ApiTestAssumption
<1>. HIDE DEF a, o, body
<1>4. ASSUME a.check = "json"
      PROVE  /\ Printed(JSON(body, a.path)) = Printed(a.want)
             /\ JSON(body, a.path) \in ValuesAt(body, a.path)
  <2>1. Printed(JSON(body, a.path)) = Printed(a.want)
    BY <1>1, <1>4 DEF Holds
  <2>2. a.path # <<>> => Printed(a.want) # Printed(Nil)
    BY <1>1, <1>4 DEF Telling
  <2>3. a.path # <<>> => JSON(body, a.path) # Nil
    BY <2>1, <2>2
  <2>. QED  BY <1>3, <1>4, <2>1, <2>3, JSONIsThere
<1>5. ASSUME a.check = "capture"
      PROVE  /\ JSON(body, a.path) # Nil /\ a.path # <<>>
             /\ JSON(body, a.path) \in ValuesAt(body, a.path)
  <2>1. JSON(body, a.path) # Nil /\ a.path # <<>>
    BY <1>1, <1>5 DEF Holds, Telling
  <2>. QED  BY <1>3, <1>5, <2>1, JSONIsThere
<1>6. ~o.error
  <2>0. NoBody.json = <<>> /\ NoBody.words = {} /\ NoBody.text = ""
    BY DEF NoBody
  <2>1. SUFFICES ASSUME body = NoBody PROVE a.check \in {"status", "no error"} /\ ~o.error
    BY <1>2
  <2>2. a.check # "decode" /\ a.check # "contains"
    BY <1>1, <2>0, <2>1 DEF Holds, Telling
  <2>3. a.check # "capture"
    <3>1. SUFFICES ASSUME a.check = "capture" PROVE FALSE
      OBVIOUS
    <3>. QED  BY <1>5, <2>0, <2>1, <3>1 DEF JSON
  <2>4. a.check # "json"
    <3>1. SUFFICES ASSUME a.check = "json" PROVE FALSE
      OBVIOUS
    <3>2. CASE a.path = <<>>
      <4>1. JSON(body, a.path) = [kind |-> "string", text |-> ""]
        BY <2>0, <2>1, <3>2 DEF JSON
      <4>2. [kind |-> "string", text |-> ""].text = ""
        OBVIOUS
      <4>3. Printed(JSON(body, a.path)) = ""
        BY <4>1, <4>2 DEF Printed
      <4>. QED  BY <1>1, <1>4, <3>1, <3>2, <4>3 DEF Telling
    <3>3. CASE a.path # <<>>
      <4>1. JSON(body, a.path) = Nil
        BY <2>0, <2>1, <3>3 DEF JSON
      <4>. QED  BY <1>1, <1>4, <3>1, <3>3, <4>1 DEF Telling
    <3>. QED  BY <3>2, <3>3
  <2>5. a.check \in {"status", "no error"}
    BY <1>3, <2>2, <2>3, <2>4
  <2>. QED  BY <1>1, <2>5 DEF Holds, StatusWanted
<1>7. Bears(o, body, a)
  <2>1. CASE a.check = "status"
    <3>1. StatusWanted(o, a.want)
      BY <1>1, <2>1 DEF Holds
    <3>. QED  BY <1>1, <2>1, <3>1 DEF Bears, StatusWanted
  <2>2. CASE a.check = "json"
    BY <1>4, <2>2 DEF Bears
  <2>3. CASE a.check = "capture"
    BY <1>5, <2>3 DEF Bears
  <2>4. CASE a.check = "contains"
    BY <1>1, <2>4 DEF Bears, Holds, Telling
  <2>5. CASE a.check = "decode"
    BY <1>1, <2>5 DEF Bears, Holds
  <2>6. CASE a.check = "no error"
    BY <2>6 DEF Bears
  <2>. QED  BY <1>3, <2>1, <2>2, <2>3, <2>4, <2>5, <2>6
<1>8. call[c].sent # <<>>
  BY <1>2, <1>6
<1>. QED  BY <1>6, <1>7, <1>8 DEF a, o, body
-----------------------------------------------------------------------------
Logging(c) == call[c].at \in {"mint", "await token", "store"}
Busy(c) == ~At(c, "idle") /\ ~Ended(c)
ToldFirst == setup.noAuth \/ setup.jwt

\* What the point a call has reached says of it, and of the login.
Place(c) ==
  /\ At(c, "idle") => call[c] = Idle
  /\ call[c].sent # <<>> => call[c].at \in {"await answer", "answered", "passed", "failed"}
  /\ call[c].at \in {"cached", "claim", "returned"} \/ Logging(c) => Authenticated(c)
  /\ At(c, "cached") => didAuth
  /\ At(c, "claim") => ~ToldFirst
  /\ Logging(c) => didAuth /\ LogsIn

\* A client with a fixed token, or told to use none.
Given(c) ==
  ToldFirst =>
    /\ didAuth /\ mints = 0 /\ ~jwtErr
    /\ jwt = IF setup.noAuth THEN Empty ELSE Fixed
    /\ call[c].at \in {"returned", "send"} /\ Authenticated(c) => call[c].jwt = jwt
    /\ Authenticated(c) =>
         SentWith(c, IF setup.noAuth THEN OwnHeader(Asks[c]) ELSE SessionValue(Fixed))

\* A client whose tests run in turn: at most one is under way, and one login at most
\* is made, by the first that needs it.
Unsent(c) == Authenticated(c) => call[c].sent = <<>> /\ ~At(c, "send")
InTurn(c) ==
  ~setup.parallel =>
    /\ \A d \in Calls : Busy(c) /\ Busy(d) => c = d
    /\ mints \in {0, 1}
    /\ ~didAuth \/ At(c, "mint") => mints = 0
    /\ At(c, "claim") => ~didAuth
    /\ jwtErr => LogsIn
    /\ LogsIn =>
         /\ ~didAuth \/ (\E d \in Calls : Logging(d)) => Unsent(c) /\ ~At(c, "returned") /\ ~jwtErr
         /\ didAuth /\ (\A d \in Calls : ~Logging(d)) => jwt = Minted \/ jwtErr
         /\ jwtErr => Unsent(c)
         /\ At(c, "returned") => call[c].jwt = Minted \/ jwtErr
         /\ At(c, "send") /\ Authenticated(c) => call[c].jwt = Minted
         /\ Authenticated(c) => SentWith(c, SessionValue(Minted))

\* Each login was asked for by a call of its own.
Past == {c \in Calls : call[c].at \notin {"idle", "claim", "mint"}}
Counted == mints <= Cardinality(Past)

Inv == Typed /\ Counted /\ \A c \in Calls : Told(c) /\ Place(c) /\ Given(c) /\ InTurn(c)

LEMMA InitInv == Init => Inv
<1>. SUFFICES ASSUME Init, NEW c \in Calls PROVE Told(c) /\ Place(c) /\ Given(c) /\ InTurn(c)
  <2>1. Init => Counted
    <3>1. Cardinality(Past) \in Nat
      BY ApiTestAssumption, FS_Subset, FS_CardinalityType DEF Past
    <3>. QED  BY <3>1 DEF Init, Counted
  <2>. QED  BY <2>1, InitTyped DEF Inv
<1>2. /\ \A d \in Calls : call[d] = Idle /\ call[d].at = "idle"
      /\ call[c].sent = <<>> /\ call[c].body = NoBody /\ ~call[c].found.ok
  <2>1. Idle.at = "idle" /\ Idle.sent = <<>> /\ Idle.body = NoBody /\ Idle.found.ok = FALSE
    BY DEF Idle, NotFound
  <2>. QED  BY <2>1 DEF Init
<1>3. Told(c) /\ Place(c)
  BY <1>2 DEF Told, Place, At, Logging
<1>4. setup.noAuth \in BOOLEAN /\ setup.jwt \in BOOLEAN
  BY ApiTestAssumption DEF Init
<1>5. Given(c)
  BY <1>2, <1>4 DEF Init, Given, ToldFirst, KnowsFromStart, Authenticated, At
<1>6. InTurn(c)
  BY <1>2, <1>4 DEF Init, InTurn, Busy, At, LogsIn, KnowsFromStart, Unsent, Authenticated, Logging, Ended
<1>. QED  BY <1>3, <1>5, <1>6

\* What each step does to the call that takes it and to the login, field by field.
Same(c) == /\ call'[c].found = call[c].found /\ call'[c].jwt = call[c].jwt
           /\ call'[c].sent = call[c].sent
Moved(c, from, to) == At(c, from) /\ call'[c].at = to

LEMMA Effects ==
  ASSUME Typed, NEW c \in Calls, Step(c)
  PROVE  \/ /\ MayStart(c) /\ call'[c].sent = call[c].sent /\ call'[c].jwt = call[c].jwt
            /\ \/ Moved(c, "idle", "failed")
               \/ Moved(c, "idle", "send") /\ ~Authenticated(c)'
               \/ Moved(c, "idle", "cached") /\ didAuth /\ Authenticated(c)'
               \/ Moved(c, "idle", "claim") /\ ~didAuth /\ Authenticated(c)'
            /\ UNCHANGED <<didAuth, jwt, jwtErr, mints>>
         \/ /\ Moved(c, "cached", "returned")
            /\ call'[c].found = call[c].found /\ call'[c].sent = call[c].sent
            /\ jwt # Torn => call'[c].jwt = jwt
            /\ UNCHANGED <<didAuth, jwt, jwtErr, mints>>
         \/ /\ Same(c)
            /\ IF setup.cognito = "valid" THEN Moved(c, "claim", "mint")
                                          ELSE Moved(c, "claim", "returned")
            /\ didAuth' = TRUE /\ UNCHANGED <<jwt, jwtErr, mints>>
         \/ /\ Same(c) /\ Moved(c, "mint", "await token") /\ mints' = mints + 1
            /\ UNCHANGED <<didAuth, jwt, jwtErr>>
         \/ /\ Same(c) /\ Moved(c, "await token", "store") /\ jwt' = Torn
            /\ UNCHANGED <<didAuth, jwtErr, mints>>
         \/ /\ Same(c) /\ Moved(c, "await token", "returned") /\ jwtErr' = TRUE
            /\ UNCHANGED <<didAuth, jwt, mints>>
         \/ /\ Same(c) /\ Moved(c, "store", "cached") /\ jwt' = Minted
            /\ UNCHANGED <<didAuth, jwtErr, mints>>
         \/ /\ Same(c)
            /\ IF jwtErr THEN Moved(c, "returned", "failed") ELSE Moved(c, "returned", "send")
            /\ UNCHANGED <<didAuth, jwt, jwtErr, mints>>
         \/ /\ Moved(c, "send", "await answer") /\ call'[c].found = call[c].found
            /\ call'[c].jwt = call[c].jwt
            /\ call'[c].sent # <<>>
            /\ call'[c].sent[1] = Authorization(Input(c), IF call[c].jwt = Empty THEN Absent
                                                          ELSE SessionValue(call[c].jwt))
            /\ UNCHANGED <<didAuth, jwt, jwtErr, mints>>
         \/ /\ Same(c)
            /\ \/ Moved(c, "send", "answered") \/ Moved(c, "await answer", "answered")
               \/ Moved(c, "answered", "passed") \/ Moved(c, "answered", "failed")
            /\ UNCHANGED <<didAuth, jwt, jwtErr, mints>>
<1>0. call \in [Calls -> CallStates] /\ call[c] \in CallStates
  BY DEF Typed
<1>1. ASSUME NEW where, Goto(c, where)
      PROVE  Same(c) /\ call'[c].at = where
  BY <1>0, <1>1 DEF Goto, Same, CallStates
<1>2. CASE Start(c)
  <2>. DEFINE found == Resolved[setup.spec][c]
              at == IF ~found.ok \/ ~Asks[c].readable THEN "failed"
                    ELSE IF ~NeedsToken(Asks[c], found.op) THEN "send"
                    ELSE IF didAuth THEN "cached" ELSE "claim"
  <2>1. /\ call' = [call EXCEPT ![c].found = found, ![c].at = at]
        /\ MayStart(c) /\ At(c, "idle") /\ UNCHANGED <<didAuth, jwt, jwtErr, mints>>
    BY <1>2 DEF Start, MayStart, client
  <2>2. at = "failed" \/ (found.ok /\ at = "send" /\ ~NeedsToken(Asks[c], found.op))
        \/ (found.ok /\ NeedsToken(Asks[c], found.op)
            /\ ((didAuth /\ at = "cached") \/ (~didAuth /\ at = "claim")))
    OBVIOUS
  <2>. HIDE DEF found, at
  <2>3. /\ call'[c].found = found /\ call'[c].at = at
        /\ call'[c].sent = call[c].sent /\ call'[c].jwt = call[c].jwt
    BY <1>0, <2>1 DEF CallStates
  <2>4. found.ok => (Authenticated(c)' <=> NeedsToken(Asks[c], found.op))
    BY <2>3 DEF Authenticated, NeedsToken
  <2>. QED  BY <2>1, <2>2, <2>3, <2>4 DEF Moved
<1>3. CASE ReadJWT(c)
  <2>1. PICK seen : /\ call' = [call EXCEPT ![c].at = "returned", ![c].jwt = seen]
                    /\ jwt # Torn => seen = jwt
    BY <1>3 DEF ReadJWT
  <2>2. At(c, "cached") /\ UNCHANGED <<didAuth, jwt, jwtErr, mints>>
    BY <1>3 DEF ReadJWT, client
  <2>3. /\ call'[c].at = "returned" /\ call'[c].jwt = seen
        /\ call'[c].found = call[c].found /\ call'[c].sent = call[c].sent
    BY <1>0, <2>1 DEF CallStates
  <2>. QED  BY <2>1, <2>2, <2>3 DEF Moved
<1>4. CASE Claim(c)
  <2>1. At(c, "claim") /\ didAuth' = TRUE /\ UNCHANGED <<jwt, jwtErr, mints>>
    BY <1>4 DEF Claim
  <2>2. CASE setup.cognito = "valid"
    BY <1>1, <1>4, <2>1, <2>2 DEF Claim, Moved
  <2>3. CASE setup.cognito # "valid"
    BY <1>1, <1>4, <2>1, <2>3 DEF Claim, Moved
  <2>. QED  BY <2>2, <2>3
<1>5. CASE AskCognito(c)
  BY <1>1, <1>5 DEF AskCognito, Moved, client
<1>6. CASE CognitoIssues(c)
  BY <1>1, <1>6 DEF CognitoIssues, Moved
<1>7. CASE CognitoFails(c)
  BY <1>1, <1>7 DEF CognitoFails, CognitoFailsTo, Moved
<1>8. CASE Store(c)
  BY <1>1, <1>8 DEF Store, Moved
<1>9. CASE CheckErr(c)
  BY <1>1, <1>9 DEF CheckErr, Moved, client
<1>10. CASE Send(c)
  <2>. DEFINE auth == Authorization(Input(c), IF call[c].jwt = Empty THEN Absent
                                                                     ELSE SessionValue(call[c].jwt))
  <2>1. /\ \/ call' = [call EXCEPT ![c].at = "await answer", ![c].sent = <<auth>>]
           \/ call' = [call EXCEPT ![c].at = "answered", ![c].out = NotSent]
        /\ At(c, "send") /\ UNCHANGED <<didAuth, jwt, jwtErr, mints>>
    BY <1>10 DEF Send, client
  <2>. HIDE DEF auth
  <2>2. CASE call' = [call EXCEPT ![c].at = "await answer", ![c].sent = <<auth>>]
    <3>1. /\ call'[c].at = "await answer" /\ call'[c].sent = <<auth>>
          /\ call'[c].found = call[c].found /\ call'[c].jwt = call[c].jwt
      BY <1>0, <2>2 DEF CallStates
    <3>2. call'[c].sent # <<>> /\ call'[c].sent[1] = auth
      <4>1. <<auth>> # <<>> /\ <<auth>>[1] = auth
        OBVIOUS
      <4>. QED  BY <3>1, <4>1
    <3>. QED  BY <2>1, <3>1, <3>2 DEF Moved, auth
  <2>3. CASE call' = [call EXCEPT ![c].at = "answered", ![c].out = NotSent]
    BY <1>0, <2>1, <2>3 DEF Moved, Same, CallStates
  <2>. QED  BY <2>1, <2>2, <2>3
<1>11. ASSUME NEW o, NEW b, Outcome(c, o, b)
       PROVE  /\ Same(c) /\ Moved(c, "await answer", "answered")
              /\ UNCHANGED <<didAuth, jwt, jwtErr, mints>>
  BY <1>0, <1>11 DEF Outcome, Moved, Same, CallStates, client
<1>12. CASE GiveUp(c) \/ \E answer \in Answers : BackendAnswers(c, answer)
  BY <1>11, <1>12 DEF GiveUp, BackendAnswers
<1>13. CASE Judge(c)
  BY <1>1, <1>13 DEF Judge, Moved, client
<1>. QED  BY <1>2, <1>3, <1>4, <1>5, <1>6, <1>7, <1>8, <1>9, <1>10, <1>12, <1>13 DEF Step, Run

\* What a call is sent with, when it needs a token.
LEMMA SentAs ==
  ASSUME NEW c \in Calls, Authenticated(c)
  PROVE  /\ Authorization(Input(c), Absent) = OwnHeader(Asks[c])
         /\ \A t : Authorization(Input(c), SessionValue(t)) = SessionValue(t)
<1>1. Input(c).mode = "jwt" /\ Input(c).header = Asks[c].header
  BY DEF Input, NeedsToken, Authenticated
<1>2. \A t : SessionValue(t) # Absent
  <2>1. Absent.from = "absent" /\ \A t : SessionValue(t).from = "session"
    BY DEF SessionValue, Absent, Value
  <2>. QED  BY <2>1
<1>. QED  BY <1>1, <1>2 DEF Authorization, OwnHeader

LEMMA PlaceStep ==
  ASSUME Inv, NEW c \in Calls, Step(c), NEW d \in Calls
  PROVE  Place(d)'
<1>1. setup' = setup /\ (d # c => call'[d] = call[d])
  BY OthersStay DEF Inv
<1>2. Place(d) /\ Place(c) /\ Given(c)
  BY DEF Inv
<1>3. CASE d # c
  <2>1. didAuth => didAuth'
    BY Effects DEF Inv
  <2>2. Authenticated(d)' <=> Authenticated(d)
    BY <1>1, <1>3 DEF Authenticated
  <2>. QED  BY <1>1, <1>2, <1>3, <2>1, <2>2 DEF Place, At, Logging, LogsIn, ToldFirst
<1>4. CASE d = c
  <2>1. Same(c) => (Authenticated(c)' <=> Authenticated(c))
    BY DEF Same, Authenticated
  <2>2. call'[c].found = call[c].found => (Authenticated(c)' <=> Authenticated(c))
    BY DEF Authenticated
  <2>3. At(c, "idle") => call[c].sent = <<>>
    BY <1>2 DEF Place, At
  <2>. QED  BY Effects, <1>1, <1>2, <1>4, <2>1, <2>2, <2>3
            DEF Inv, Place, Given, At, Logging, LogsIn, ToldFirst, Moved, Same
<1>. QED  BY <1>3, <1>4

LEMMA GivenStep ==
  ASSUME Inv, NEW c \in Calls, Step(c), NEW d \in Calls
  PROVE  Given(d)'
<1>. SUFFICES ASSUME ToldFirst PROVE Given(d)'
  BY OthersStay DEF Inv, Given, ToldFirst
<1>1. setup' = setup /\ (d # c => call'[d] = call[d])
  BY OthersStay DEF Inv
<1>2. Given(d) /\ Given(c) /\ Place(c) /\ setup.noAuth \in BOOLEAN
  BY ApiTestAssumption DEF Inv, Typed
<1>3. ~At(c, "claim") /\ ~Logging(c)
  BY <1>2 DEF Place, LogsIn, ToldFirst
<1>4. UNCHANGED <<didAuth, jwt, jwtErr, mints>>
  BY Effects, <1>3 DEF Inv, At, Logging, Moved
<1>5. CASE d # c
  <2>1. Authenticated(d)' <=> Authenticated(d)
    BY <1>1, <1>5 DEF Authenticated
  <2>. QED  BY <1>1, <1>2, <1>4, <1>5, <2>1 DEF Given, SentWith, ToldFirst
<1>6. CASE d = c
  <2>1. call'[c].found = call[c].found => (Authenticated(c)' <=> Authenticated(c))
    BY DEF Authenticated
  <2>2. At(c, "idle") => call[c].sent = <<>>
    BY <1>2 DEF Place, At
  <2>3. jwt # Torn /\ jwt = (IF setup.noAuth THEN Empty ELSE Fixed) /\ Empty # Fixed
    BY <1>2 DEF Given, Empty, Fixed, Torn
  <2>4. Authenticated(c) =>
          Authorization(Input(c), IF jwt = Empty THEN Absent ELSE SessionValue(jwt))
            = IF setup.noAuth THEN OwnHeader(Asks[c]) ELSE SessionValue(Fixed)
    BY <1>2, <2>3, SentAs
  <2>5. call'[c].at \in {"returned", "send"} /\ Authenticated(c)' => call'[c].jwt = jwt
    BY Effects, <1>2, <1>3, <2>1, <2>3 DEF Inv, Place, Given, At, Logging, Moved, Same
  <2>6. CASE call'[c].sent = call[c].sent
    <3>1. call[c].sent # <<>> => call'[c].found = call[c].found
      BY Effects, <2>2 DEF Inv, Moved, Same
    <3>. QED  BY <1>1, <1>2, <1>4, <1>6, <2>1, <2>5, <2>6, <3>1 DEF Given, ToldFirst, SentWith
  <2>7. CASE call'[c].sent # call[c].sent
    <3>1. /\ At(c, "send") /\ call'[c].found = call[c].found
          /\ call'[c].sent[1] = Authorization(Input(c), IF call[c].jwt = Empty THEN Absent
                                                        ELSE SessionValue(call[c].jwt))
      BY Effects, <2>7 DEF Inv, Moved, Same
    <3>2. Authenticated(c) => call[c].jwt = jwt
      BY <1>2, <3>1 DEF Given, At
    <3>. QED  BY <1>1, <1>2, <1>4, <1>6, <2>1, <2>4, <2>5, <3>1, <3>2 DEF Given, ToldFirst, SentWith
  <2>. QED  BY <2>6, <2>7
<1>. QED  BY <1>5, <1>6

LEMMA InTurnStep ==
  ASSUME Inv, NEW c \in Calls, Step(c), NEW d \in Calls
  PROVE  InTurn(d)'
<1>1. setup' = setup /\ \A e \in Calls \ {c} : call'[e] = call[e]
  BY OthersStay DEF Inv
<1>. SUFFICES ASSUME ~setup.parallel PROVE InTurn(d)'
  BY <1>1 DEF InTurn
<1>2. InTurn(c) /\ InTurn(d) /\ Place(c) /\ Place(d) /\ Place(c)' /\ Typed
  BY PlaceStep DEF Inv
<1>3. \A e \in Calls \ {c} : ~Busy(e) /\ ~Busy(e)'
  <2>1. Busy(c) \/ MayStart(c)
    BY Effects DEF Inv, Moved, At, Busy, Ended
  <2>2. \A e \in Calls \ {c} : ~Busy(e)
    BY <1>2, <2>1 DEF InTurn, MayStart, Busy
  <2>. QED  BY <1>1, <2>2 DEF Busy, At, Ended
<1>4. \A e \in Calls \ {c} : ~Logging(e) /\ ~Logging(e)'
  BY <1>3 DEF Busy, Logging, At, Ended
<1>5. /\ Same(c) => (Authenticated(c)' <=> Authenticated(c))
      /\ call'[c].found = call[c].found => (Authenticated(c)' <=> Authenticated(c))
      /\ At(c, "idle") => call[c].sent = <<>>
  BY <1>2 DEF Authenticated, Same, Place, At
<1>6. /\ mints' \in {0, 1}
      /\ ~didAuth' => mints' = 0
      /\ At(c, "mint")' => mints' = 0
      /\ At(c, "claim")' => ~didAuth'
      /\ jwtErr' => LogsIn
  <2>1. /\ mints \in {0, 1} /\ (~didAuth => mints = 0) /\ (At(c, "mint") => mints = 0)
        /\ At(c, "claim") => ~didAuth
        /\ jwtErr => LogsIn
        /\ Logging(c) => didAuth /\ LogsIn
    BY <1>2 DEF InTurn, Place
  <2>2. mints' \in {0, 1}
    <3>1. mints' = mints \/ (At(c, "mint") /\ mints' = mints + 1)
      BY Effects DEF Inv, Moved
    <3>. QED  BY <2>1, <3>1
  <2>3. ~didAuth' => mints' = 0
    BY Effects, <2>1 DEF Inv, Moved, At, Logging
  <2>4. At(c, "mint")' => mints' = 0
    BY Effects, <2>1 DEF Inv, Moved, At
  <2>5. At(c, "claim")' => ~didAuth'
    BY Effects, <2>1 DEF Inv, Moved, At
  <2>6. jwtErr' => LogsIn
    BY Effects, <2>1 DEF Inv, Moved, At, Logging
  <2>. QED  BY <2>2, <2>3, <2>4, <2>5, <2>6
<1>7. ASSUME LogsIn
      PROVE  /\ ~didAuth' \/ Logging(c)' => ~At(c, "returned")' /\ ~jwtErr'
             /\ didAuth' /\ ~Logging(c)' => jwt' = Minted \/ jwtErr'
             /\ At(c, "returned")' => call'[c].jwt = Minted \/ jwtErr'
             /\ At(c, "send")' /\ Authenticated(c)' => call'[c].jwt = Minted
  <2>1. /\ ~didAuth \/ Logging(c) => ~At(c, "returned") /\ ~jwtErr
        /\ didAuth /\ ~Logging(c) => jwt = Minted \/ jwtErr
        /\ At(c, "returned") => call[c].jwt = Minted \/ jwtErr
        /\ At(c, "send") /\ Authenticated(c) => call[c].jwt = Minted
        /\ At(c, "claim") => ~didAuth
        /\ At(c, "cached") \/ Logging(c) => didAuth
    BY <1>2, <1>4, <1>7 DEF InTurn, Place
  <2>2. Minted # Torn /\ setup.cognito = "valid"
    BY <1>7 DEF Minted, Torn, LogsIn
  <2>3. ~didAuth' \/ Logging(c)' => ~At(c, "returned")'
    BY Effects, <2>1, <2>2 DEF Inv, Moved, At, Logging
  <2>4. ~didAuth' \/ Logging(c)' => ~jwtErr'
    BY Effects, <2>1, <2>2 DEF Inv, Moved, At, Logging
  <2>5. didAuth' /\ ~Logging(c)' => jwt' = Minted \/ jwtErr'
    BY Effects, <2>1, <2>2 DEF Inv, Moved, At, Logging
  <2>6. At(c, "returned")' => call'[c].jwt = Minted \/ jwtErr'
    BY Effects, <2>1, <2>2 DEF Inv, Moved, At, Logging
  <2>7. At(c, "send")' /\ Authenticated(c)' => call'[c].jwt = Minted
    BY Effects, <1>5, <2>1, <2>2 DEF Inv, Moved, At, Logging, Same
  <2>. QED  BY <2>3, <2>4, <2>5, <2>6, <2>7
<1>8. ASSUME LogsIn
      PROVE  /\ ~didAuth' \/ Logging(c)' \/ jwtErr' => Unsent(c)'
             /\ Authenticated(c)' => SentWith(c, SessionValue(Minted))'
  <2>1. /\ ~didAuth \/ Logging(c) \/ jwtErr => Unsent(c)
        /\ Authenticated(c) => SentWith(c, SessionValue(Minted))
        /\ At(c, "send") /\ Authenticated(c) => call[c].jwt = Minted
        /\ ~didAuth => ~At(c, "returned")
    BY <1>2, <1>8 DEF InTurn
  <2>2. setup.cognito = "valid" /\ Minted # Empty
    BY <1>8 DEF LogsIn, Minted, Empty
  <2>3. CASE call'[c].sent = call[c].sent
    <3>1. call[c].sent # <<>> => call'[c].found = call[c].found
      BY Effects, <1>5 DEF Inv, Moved, Same
    <3>2. ~didAuth' \/ Logging(c)' \/ jwtErr' => ~(At(c, "send")' /\ Authenticated(c)')
      BY Effects, <1>2, <1>5, <2>1, <2>2 DEF Unsent, Place, Moved, At, Logging, Same
    <3>3. ~didAuth' \/ Logging(c)' \/ jwtErr' => ~didAuth \/ Logging(c) \/ jwtErr
      BY Effects, <1>2, <1>6 DEF InTurn, Moved, At, Logging, Place
    <3>. QED  BY <1>5, <2>1, <2>3, <3>1, <3>2, <3>3 DEF Unsent, SentWith
  <2>4. CASE call'[c].sent # call[c].sent
    <3>1. /\ At(c, "send") /\ At(c, "await answer")' /\ call'[c].found = call[c].found
          /\ UNCHANGED <<didAuth, jwtErr>>
          /\ call'[c].sent[1] = Authorization(Input(c), IF call[c].jwt = Empty THEN Absent
                                                        ELSE SessionValue(call[c].jwt))
      BY Effects, <2>4 DEF Inv, Moved, Same, At
    <3>2. Authenticated(c) => call'[c].sent[1] = SessionValue(Minted)
      BY <2>1, <2>2, <3>1, SentAs
    <3>3. ~didAuth \/ jwtErr => ~Authenticated(c)
      BY <2>1, <3>1 DEF Unsent
    <3>. QED  BY <1>5, <3>1, <3>2, <3>3 DEF Unsent, SentWith, Logging, At
  <2>. QED  BY <2>3, <2>4
<1>9. (\E e \in Calls : Logging(e)') <=> Logging(c)'
  BY <1>4
<1>10. \A e, f \in Calls : Busy(e)' /\ Busy(f)' => e = f
  BY <1>3
<1>11. CASE d = c
  BY <1>1, <1>6, <1>7, <1>8, <1>9, <1>10, <1>11 DEF InTurn, LogsIn
<1>12. CASE d # c
  <2>1. /\ call'[d] = call[d] /\ ~At(d, "mint")' /\ ~At(d, "claim")'
        /\ ~At(d, "returned")' /\ ~At(d, "send")' /\ ~At(d, "send")
    BY <1>1, <1>3, <1>12 DEF Busy, At, Ended
  <2>2. ASSUME LogsIn
        PROVE  /\ ~didAuth' \/ Logging(c)' \/ jwtErr' => Unsent(d)'
               /\ Authenticated(d)' => SentWith(d, SessionValue(Minted))'
    <3>1. /\ ~didAuth \/ Logging(c) \/ jwtErr => Unsent(d)
          /\ Authenticated(d) => SentWith(d, SessionValue(Minted))
      BY <1>2, <2>2 DEF InTurn
    <3>2. ~didAuth' \/ Logging(c)' \/ jwtErr' => ~didAuth \/ Logging(c) \/ jwtErr
      BY Effects, <1>2, <1>6 DEF InTurn, Moved, At, Logging, Place
    <3>. QED  BY <2>1, <3>1, <3>2 DEF Unsent, SentWith, Authenticated, At
  <2>. QED  BY <1>1, <1>6, <1>7, <1>9, <1>10, <2>1, <2>2 DEF InTurn, LogsIn
<1>. QED  BY <1>11, <1>12

LEMMA CountedStep ==
  ASSUME Inv, NEW c \in Calls, Step(c)
  PROVE  Counted'
<1>1. Past \subseteq Past'
  BY Effects, OthersStay DEF Inv, Past, Moved, At
<1>2. IsFiniteSet(Past) /\ IsFiniteSet(Past')
  BY ApiTestAssumption, FS_Subset DEF Past
<1>3. Cardinality(Past) \in Nat /\ Cardinality(Past') \in Nat
  BY <1>2, FS_CardinalityType
<1>4. mints \in Nat /\ mints <= Cardinality(Past)
  BY DEF Inv, Typed, Counted
<1>5. CASE mints' = mints
  <2>1. Cardinality(Past) <= Cardinality(Past')
    BY <1>1, <1>2, FS_Subset
  <2>. QED  BY <1>3, <1>4, <1>5, <2>1 DEF Counted
<1>6. CASE mints' = mints + 1 /\ Moved(c, "mint", "await token")
  <2>1. c \notin Past /\ Past \cup {c} \subseteq Past'
    BY <1>1, <1>6 DEF Past, Moved, At
  <2>2. IsFiniteSet(Past \cup {c}) /\ Cardinality(Past \cup {c}) = Cardinality(Past) + 1
    BY <1>2, <2>1, FS_AddElement
  <2>3. Cardinality(Past \cup {c}) <= Cardinality(Past')
    BY <1>2, <2>1, FS_Subset
  <2>4. mints + 1 <= Cardinality(Past')
    BY <1>3, <1>4, <2>2, <2>3
  <2>5. mints' = mints + 1
    BY <1>6
  <2>6. mints' <= Cardinality(Past')
    BY <2>4, <2>5
  <2>. QED  BY <2>6 DEF Counted
<1>7. \/ mints' = mints
      \/ mints' = mints + 1 /\ Moved(c, "mint", "await token")
  BY Effects DEF Inv
<1>. QED  BY <1>5, <1>6, <1>7

LEMMA Invariance == Spec => []Inv
<1>1. Inv /\ [Next]_vars => Inv'
  <2>. SUFFICES ASSUME Inv, [Next]_vars PROVE Inv'
    OBVIOUS
  <2>1. CASE UNCHANGED vars
    <3>1. UNCHANGED <<setup, didAuth, jwt, jwtErr, call, mints>>
      BY <2>1 DEF vars, client
    <3>2. Typed'
      BY <3>1, FixedTypes DEF Inv, Typed
    <3>3. Counted'
      BY <3>1 DEF Inv, Counted, Past
    <3>4. ASSUME NEW d \in Calls
          PROVE  Told(d)' /\ Place(d)'
      BY <3>1 DEF Inv, Told, Place, At, Logging, Authenticated, LogsIn, ToldFirst
    <3>5. ASSUME NEW d \in Calls
          PROVE  Given(d)' /\ InTurn(d)'
      BY <3>1 DEF Inv, Given, InTurn, At, Logging, Busy, Ended, Unsent, Authenticated, SentWith,
                  LogsIn, ToldFirst
    <3>. QED  BY <3>2, <3>3, <3>4, <3>5 DEF Inv
  <2>2. ASSUME NEW c \in Calls, Step(c)
        PROVE  Inv'
    <3>1. Typed' /\ Counted'
      BY <2>2, TypedStep, CountedStep DEF Inv
    <3>2. ASSUME NEW d \in Calls
          PROVE  Told(d)' /\ Place(d)' /\ Given(d)' /\ InTurn(d)'
      <4>1. Told(d)'
        <5>1. Told(d) /\ Typed
          BY DEF Inv
        <5>2. CASE d = c
          BY <2>2, <5>1, <5>2, ToldStep
        <5>3. CASE d # c
          BY <2>2, <5>1, <5>3, OthersStay DEF Told, At
        <5>. QED  BY <5>2, <5>3
      <4>. QED  BY <2>2, <4>1, PlaceStep, GivenStep, InTurnStep
    <3>. QED  BY <3>1, <3>2 DEF Inv
  <2>. QED  BY <2>1, <2>2 DEF Next, Step
<1>. QED  BY InitInv, <1>1, PTL DEF Spec
-----------------------------------------------------------------------------
\* The calls stay at the points of Do and Execute and the strings are the four there
\* are, and Cognito is asked at most once for each call.
THEOREM ApiTestTypeCorrect == Spec => []TypeOK
<1>1. Inv => TypeOK
  <2>. SUFFICES ASSUME Inv PROVE TypeOK
    OBVIOUS
  <2>1. mints \in 0 .. Cardinality(Calls)
    <3>1. Past \subseteq Calls /\ Cardinality(Calls) \in Nat
      BY ApiTestAssumption, FS_CardinalityType DEF Past
    <3>2. Cardinality(Past) \in Nat /\ Cardinality(Past) <= Cardinality(Calls)
      BY <3>1, ApiTestAssumption, FS_Subset, FS_CardinalityType
    <3>. QED  BY <3>1, <3>2 DEF Inv, Typed, Counted
  <2>2. /\ setup \in Setups /\ didAuth \in BOOLEAN /\ jwtErr \in BOOLEAN
        /\ jwt \in Strings /\ DOMAIN call = Calls
    BY DEF Inv, Typed
  <2>3. \A c \in Calls : call[c].at \in Places /\ call[c].jwt \in Strings
    BY DEF Inv, Typed, CallStates
  <2>. QED  BY <2>1, <2>2, <2>3 DEF TypeOK, Places
<1>. QED  BY Invariance, <1>1, PTL

\* With tests that run in turn, every authenticated call of a client that logs in goes
\* out with the minted token, and none goes out after a login that failed.
THEOREM AttachedInTurn == Spec => []TokenAttachedInTurn
<1>1. Inv => TokenAttachedInTurn
  BY DEF Inv, InTurn, Unsent, TokenAttachedInTurn, TokenAttached
<1>. QED  BY Invariance, <1>1, PTL

\* One login at most in turn; none with a fixed token or without auth, when the calls
\* carry that token, or what the test itself put into the header.
THEOREM MintsAtMostOnce == Spec => []MintedAtMostOnce
<1>1. Inv => MintedAtMostOnce
  <2>. SUFFICES ASSUME Inv PROVE MintedAtMostOnce
    OBVIOUS
  <2>1. CASE Calls = {}
    <3>1. Past = {} /\ mints \in Nat /\ mints <= Cardinality(Past)
      BY <2>1 DEF Inv, Past, Counted, Typed
    <3>2. mints = 0
      BY <3>1, FS_EmptySet
    <3>. QED  BY <2>1, <3>2 DEF MintedAtMostOnce
  <2>2. ASSUME NEW c \in Calls
        PROVE  MintedAtMostOnce
    <3>1. ~setup.parallel => mints <= 1
      BY <2>2 DEF Inv, InTurn
    <3>2. ToldFirst => mints = 0
      BY <2>2 DEF Inv, Given
    <3>3. \A d \in Calls : ToldFirst /\ Authenticated(d) =>
            SentWith(d, IF setup.noAuth THEN OwnHeader(Asks[d]) ELSE SessionValue(Fixed))
      BY DEF Inv, Given
    <3>. QED  BY <3>1, <3>2, <3>3 DEF MintedAtMostOnce, ToldFirst
  <2>. QED  BY <2>1, <2>2
<1>. QED  BY Invariance, <1>1, PTL

\* A test passes only on an answer that bears out each assertion that tells.
THEOREM PassesMeanExpected == Spec => []PassMeansExpected
<1>1. Inv => PassMeansExpected
  BY ToldImpliesExpected DEF Inv
<1>. QED  BY Invariance, <1>1, PTL
=============================================================================
