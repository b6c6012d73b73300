--------------------------- MODULE ConsoleProofs ----------------------------
(***************************************************************************)
(* The console server, for any number of requests served at once.          *)
(*                                                                         *)
(* The handlers' steps are steps of the auth manager, for which no         *)
(* invariant is needed, so what is proved of it holds of the server.  With *)
(* its types, Inv is inductive: it relates where each goroutine is to what *)
(* was delivered and recorded of its request (Fits), and takes the         *)
(* history's own invariant from HistoryProofs.  The safety properties and  *)
(* that the handlers' steps are steps of the history follow.               *)
(***************************************************************************)
EXTENDS Console, TLAPS, SequenceTheorems

HP == INSTANCE HistoryProofs
AP == INSTANCE AuthManagerProofs WITH Callers <- Requests

\* Every step of a handler that touches the manager is one of its methods, or a
\* step of a login; the others leave it alone.
LEMMA ManagerStep == [Next]_vars => [A!Next]_(A!authVars)
<1>. SUFFICES ASSUME [Next]_vars PROVE [A!Next]_(A!authVars)
  OBVIOUS
<1>. USE DEF authVars, A!authVars
<1>1. CASE UNCHANGED vars
  BY <1>1 DEF vars
<1>2. CASE Tick
  BY <1>2 DEF Tick, A!Next
<1>3. ASSUME NEW r \in Requests, Receive(r) PROVE [A!Next]_(A!authVars)
  <2>1. ASSUME NEW cfg \in Configs, StartLogin(r, cfg) PROVE A!Next
    BY <2>1 DEF StartLogin, A!Next
  <2>2. CASE ClearAuth(r)
    BY <2>2 DEF ClearAuth, A!Next
  <2>3. ASSUME NEW in \in Inputs, RejectExecute(r, in) \/ Refuse(r, in) \/ Prepare(r, in)
        PROVE  UNCHANGED authVars
    BY <2>3 DEF RejectExecute, Refuse, Prepare
  <2>4. ASSUME NEW id \in 1 .. Cardinality(Requests), GetHistoryItem(r, id)
        PROVE  UNCHANGED authVars
    BY <2>4 DEF GetHistoryItem
  <2>5. ASSUME \/ RejectMalformed(r) \/ ListHistory(r) \/ ClearHistory(r)
               \/ AuthStatus(r) \/ RejectLogin(r)
        PROVE  UNCHANGED authVars
    BY <2>5 DEF RejectMalformed, ListHistory, ClearHistory, AuthStatus, RejectLogin
  <2>. QED  BY <1>3, <2>1, <2>2, <2>3, <2>4, <2>5 DEF Receive
<1>4. ASSUME NEW r \in Requests, Elsewhere(r) PROVE [A!Next]_(A!authVars)
  <2>1. CASE CognitoAnswers(r)
    BY <2>1 DEF CognitoAnswers, A!Next
  <2>. QED  BY <1>4, <2>1 DEF Elsewhere, BackendAnswers
<1>5. ASSUME NEW r \in Requests, Serve(r) PROVE [A!Next]_(A!authVars)
  <2>1. CASE LoginFails(r)
    BY <2>1 DEF LoginFails, A!Next
  <2>2. CASE LoginEnds(r)
    BY <2>2 DEF LoginEnds, A!Next
  <2>. QED  BY <1>5, <2>1, <2>2 DEF Serve, Send, GiveUp, AddToHistory, Snapshot
<1>. QED  BY <1>1, <1>2, <1>3, <1>4, <1>5 DEF Next

\* The goroutines use the auth manager only through its methods.
THEOREM ConsoleUsesAuthManager == Spec => UsesAuthManager
<1>1. Init => A!Init
  BY DEF Init
<1>. QED  BY <1>1, ManagerStep, PTL DEF Spec, UsesAuthManager, A!Spec

\* The specification of the manager that its proofs are about is this one.
LEMMA SameManager == A!Spec <=> AP!Spec
<1>1. A!Init <=> AP!Init
  BY DEF A!Init, AP!Init, A!Idle, AP!Idle
<1>2. [A!Next]_(A!authVars) <=> [AP!Next]_(AP!authVars)
  BY DEF A!Next, AP!Next, A!authVars, AP!authVars, A!StartLogin, AP!StartLogin,
     A!ProvePassword, AP!ProvePassword, A!CognitoIssues, AP!CognitoIssues,
     A!FailLogin, AP!FailLogin, A!FinishLogin, AP!FinishLogin, A!Clear, AP!Clear,
     A!Tick, AP!Tick, A!Login, AP!Login, A!Set, AP!Set, A!stored, AP!stored,
     A!Idle, AP!Idle
<1>. QED  BY <1>1, <1>2, PTL DEF A!Spec, AP!Spec

\* What the manager assumes of its constants, the console grants.
LEMMA ManagerAssumption == AP!AuthAssumption
BY ConsoleAssumption, TokenAssumption DEF AP!AuthAssumption, AP!Tokens, A!Tokens

\* The console's session is that of one login, whatever its handlers do.
THEOREM ConsoleSessionOfOneLogin == Spec => [](A!TypeOK /\ A!FieldsOfOneLogin)
<1>1. AP!Spec => [](AP!TypeOK /\ AP!FieldsOfOneLogin)
  BY AP!AuthFieldsOfOneLogin, ManagerAssumption DEF AP!AuthAssumption
<1>2. AP!TypeOK /\ AP!FieldsOfOneLogin <=> A!TypeOK /\ A!FieldsOfOneLogin
  BY DEF A!TypeOK, AP!TypeOK, A!FieldsOfOneLogin, AP!FieldsOfOneLogin, A!Tokens,
     AP!Tokens, A!Clients, AP!Clients, A!LoginStates, AP!LoginStates, A!Idle, AP!Idle
<1>. QED
  BY <1>1, <1>2, SameManager, ConsoleUsesAuthManager, PTL DEF UsesAuthManager
-----------------------------------------------------------------------------
\* What a goroutine in state st stands for in the rest of the state: what was
\* delivered of its request, and the history items it has shown.
Fits(r, st) ==
  /\ st.at \in {"send", "await", "record"} => Accepted(st.in)
  /\ st.at \in {"send", "await"} => ~NotToBeSent(st.in)
  /\ st.at \in {"idle", "login", "snapshot", "send"} => \A d \in delivered : d.req # r
  /\ st.at = "await" => /\ \E d \in delivered : d.req = r
                       /\ \A d \in delivered : d.req = r => d.auth = st.auth
  /\ st.at = "record" =>
       /\ OK(st.out) => \E d \in delivered : d.req = r
       /\ \A d \in delivered : d.req = r => (st.out.auth = Mask <=> d.auth # Absent)
  /\ st.at = "answered" /\ st.code = 200 /\ st.op \in {"execute", "list", "get"} =>
       \A k \in DOMAIN st.body :
         /\ st.body[k].id \in DOMAIN journal
         /\ st.body[k].rec = journal[st.body[k].id]

Inv == /\ TypeOK
       /\ HP!Inv
       /\ \A r \in Requests : Fits(r, handler[r])
       /\ EveryOutcomeRecordedOnce
       /\ ProductionConfirmed
       /\ AuthorizationMasked

\* The states a goroutine can be in, told apart by at.
LEMMA StateTyped ==
  ASSUME NEW st \in HandlerStates
  PROVE  /\ st.at \in {"idle", "login", "snapshot", "send", "await", "record", "answered"}
         /\ st.at \in {"send", "await", "record"} => st.in \in Inputs
         /\ st.at \in {"send", "await"} =>
              st.auth \in Auths /\ st = [at |-> st.at, in |-> st.in, auth |-> st.auth]
         /\ st.at = "record" => st.out \in Outcomes
         /\ st.at = "answered" /\ st.code = 200 /\ st.op \in {"execute", "list", "get"} =>
              st.body \in Seq([id : Nat, rec : Records])
BY DEF HandlerStates

\* An input that was accepted is recorded under a configured environment.
LEMMA RecordTyped ==
  ASSUME TypeOK, NEW r \in Requests, handler[r].at = "record", Accepted(handler[r].in)
  PROVE  RecordOf(r) \in Records
<1>1. handler[r] \in HandlerStates
  BY DEF TypeOK
<1>2. handler[r].in \in Inputs /\ handler[r].out \in Outcomes
  BY <1>1, StateTyped
<1>3. handler[r].in.mode \in {"jwt", "none", "custom"}
  BY <1>2, InputAssumption DEF InputType
<1>4. EnvOf(handler[r].in) \in Envs
  BY DEF Accepted
<1>5. OK(handler[r].out) \in BOOLEAN
  BY DEF OK
<1>. QED  BY <1>2, <1>3, <1>4, <1>5 DEF RecordOf, Records

\* The history that the goroutines use is the one its proofs are about.
LEMMA SameHistory ==
  /\ H!Init <=> HP!Init
  /\ \A rec : H!Add(rec) <=> HP!Add(rec)
  /\ H!Clear <=> HP!Clear
  /\ H!vars = HP!vars
  /\ HP!vars = historyVars
BY DEF H!Init, HP!Init, H!Add, HP!Add, H!Clear, HP!Clear, H!vars, HP!vars, H!Trim,
   HP!Trim, H!Capacity, HP!Capacity, historyVars

\* The sets the types are made of do not change.
LEMMA FixedTypes ==
  /\ HandlerStates' = HandlerStates
  /\ [req : Requests, in : Inputs, auth : Auths]'
       = [req : Requests, in : Inputs, auth : Auths]
BY DEF HandlerStates, Auths, Outcomes, Records, Value, SessionValue, A!Tokens,
   A!Reports, A!Clients, Absent, Mask

\* What one move of a goroutine does to the goroutines.
LEMMA Moved ==
  ASSUME TypeOK, NEW r \in Requests, NEW st \in HandlerStates, Goto(r, st)
  PROVE  /\ handler' \in [Requests -> HandlerStates]
         /\ handler'[r] = st
         /\ \A s \in Requests \ {r} : handler'[s] = handler[s]
BY DEF TypeOK, Goto

\* The history's own invariant does not depend on the goroutines.
LEMMA HistoryKept ==
  ASSUME HP!Inv, UNCHANGED historyVars
  PROVE  HP!Inv'
BY DEF HP!Inv, HP!TypeOK, HP!RingIsWindow, HP!Gone, HP!Capacity, HP!Items,
   historyVars, Records, Outcomes, Absent, Mask, Value

\* A goroutine whose answer is still out moves, and nothing is delivered or
\* recorded: the invariant holds if its new state fits.
LEMMA QuietStep ==
  ASSUME Inv, NEW r \in Requests, NEW st \in HandlerStates, Goto(r, st),
         UNCHANGED <<delivered, journal>>, HP!Inv',
         handler[r].at # "answered", Fits(r, st),
         ~(st.at = "answered" /\ st.code = 200 /\ st.op = "execute")
  PROVE  Inv'
<1>1. /\ handler' \in [Requests -> HandlerStates]
      /\ handler'[r] = st
      /\ \A s \in Requests \ {r} : handler'[s] = handler[s]
  BY Moved DEF Inv
<1>2. delivered' = delivered /\ journal' = journal
  OBVIOUS
<1>3. TypeOK'
  BY <1>1, <1>2, FixedTypes DEF Inv, TypeOK
<1>4. HP!Inv'
  OBVIOUS
<1>5. ASSUME NEW s \in Requests PROVE Fits(s, handler[s])'
  <2>1. Fits(s, handler'[s])
    BY <1>1 DEF Inv
  <2>. QED
    BY <2>1, <1>2 DEF Fits, Accepted, NotToBeSent, Refused, EnvOf, OK, Mask, Absent, Value
<1>6. EveryOutcomeRecordedOnce'
  <2>. DEFINE Executed(s) == s \in Showing /\ handler[s].op = "execute"
  <2>1. ASSUME NEW s \in Requests
        PROVE  /\ Executed(s)' <=> Executed(s)
               /\ Executed(s) => handler'[s] = handler[s]
    <3>1. CASE s = r
      BY <3>1, <1>1 DEF Showing
    <3>2. CASE s # r
      BY <3>2, <1>1 DEF Showing
    <3>. QED  BY <3>1, <3>2
  <2>. QED  BY <2>1, <1>2 DEF Inv, EveryOutcomeRecordedOnce, OK
<1>7. ProductionConfirmed'
  BY <1>2 DEF Inv, ProductionConfirmed, EnvOf
<1>8. AuthorizationMasked'
  BY <1>2 DEF Inv, AuthorizationMasked, Absent, Mask, Value
<1>. QED  BY <1>3, <1>4, <1>5, <1>6, <1>7, <1>8 DEF Inv

\* The states the handlers go to are states of a goroutine.
LEMMA StatesTyped ==
  /\ Idle \in HandlerStates
  /\ \A code \in {400, 404, 502} : Rejected(code) \in HandlerStates
  /\ \A at \in {"login", "snapshot"} : [at |-> at] \in HandlerStates
  /\ \A in \in Inputs, auth \in Auths, at \in {"send", "await"} :
       [at |-> at, in |-> in, auth |-> auth] \in HandlerStates
  /\ \A in \in Inputs, out \in Outcomes : Record(in, out) \in HandlerStates
  /\ \A report \in A!Reports : Answered("status", report) \in HandlerStates
  /\ \A op \in {"execute", "list", "get", "clear"} :
       \A body \in Seq([id : Nat, rec : Records]) :
         Answered(op, body) \in HandlerStates
BY DEF HandlerStates, Idle, Rejected, Record, Answered

\* What the ring holds was recorded under its id.
LEMMA RingHoldsJournal ==
  ASSUME HP!Inv
  PROVE  /\ journal \in Seq(Records)
         /\ nextID = Len(journal) + 1
         /\ items \in Seq([id : Nat, rec : Records])
         /\ \A k \in DOMAIN items : /\ items[k].id \in DOMAIN journal
                                     /\ items[k].rec = journal[items[k].id]
<1>1. /\ HP!TypeOK /\ HP!RingIsWindow
      /\ journal \in Seq(Records) /\ nextID = Len(journal) + 1
  BY DEF HP!Inv, HP!TypeOK
<1>2. HP!Items \subseteq [id : Nat, rec : Records]
  BY DEF HP!Items
<1>3. items \in Seq([id : Nat, rec : Records])
  BY <1>1, <1>2, SeqMonotonic DEF HP!TypeOK
<1>4. /\ HP!Gone \in 0 .. Len(journal) /\ Len(journal) \in Nat
      /\ Len(items) = Len(journal) - HP!Gone
  BY <1>1, HP!RingLength, ConsoleAssumption DEF HP!HistoryAssumption
<1>5. ASSUME NEW k \in DOMAIN items
      PROVE  items[k].id \in DOMAIN journal /\ items[k].rec = journal[items[k].id]
  <2>1. k \in 1 .. Len(journal) - HP!Gone
    BY <1>1 DEF HP!RingIsWindow
  <2>2. items[k] = [id |-> HP!Gone + k, rec |-> journal[HP!Gone + k]]
    BY <1>1, <2>1 DEF HP!RingIsWindow
  <2>3. HP!Gone + k \in 1 .. Len(journal) /\ DOMAIN journal = 1 .. Len(journal)
    BY <1>1, <1>4, <2>1
  <2>. QED  BY <2>2, <2>3
<1>. QED  BY <1>1, <1>3, <1>5

\* A goroutine that waits sends its request.
LEMMA SendStep ==
  ASSUME Inv, NEW r \in Requests, Send(r)
  PROVE  Inv'
<1>. DEFINE old == handler[r]
            st == [at |-> "await", in |-> old.in, auth |-> old.auth]
            new == [req |-> r, in |-> old.in, auth |-> old.auth]
<1>1. old \in HandlerStates /\ old.at = "send"
  BY DEF Inv, TypeOK, Send
<1>2. old.in \in Inputs /\ old.auth \in Auths /\ old = [at |-> "send", in |-> old.in, auth |-> old.auth]
  BY <1>1, StateTyped
<1>3. st \in HandlerStates
  BY <1>2, StatesTyped
<1>4. Goto(r, st)
  BY <1>2 DEF Send
<1>5. /\ handler' \in [Requests -> HandlerStates]
      /\ handler'[r] = st
      /\ \A s \in Requests \ {r} : handler'[s] = handler[s]
  BY <1>3, <1>4, Moved DEF Inv
<1>6. delivered' = delivered \cup {new} /\ UNCHANGED historyVars /\ journal' = journal
  BY DEF Send, historyVars
<1>7. Accepted(old.in) /\ ~NotToBeSent(old.in) /\ \A d \in delivered : d.req # r
  BY <1>1 DEF Inv, Fits
<1>8. TypeOK'
  BY <1>2, <1>5, <1>6, FixedTypes DEF Inv, TypeOK
<1>9. HP!Inv'
  BY <1>6, HistoryKept DEF Inv
<1>10. ASSUME NEW s \in Requests PROVE Fits(s, handler[s])'
  <2>1. CASE s = r
    <3>1. new \in delivered' /\ new.req = r
      BY <1>6
    <3>2. \A d \in delivered' : d.req = r => d.auth = st.auth
      BY <1>6, <1>7
    <3>3. handler'[s] = st /\ st.at = "await" /\ st.in = old.in
      BY <2>1, <1>5
    <3>. HIDE DEF st, new
    <3>. QED
      BY <2>1, <3>1, <3>2, <3>3, <1>7 DEF Fits, Accepted, NotToBeSent, Refused, EnvOf
  <2>2. CASE s # r
    <3>1. Fits(s, handler[s]) /\ handler'[s] = handler[s]
      BY <2>2, <1>5 DEF Inv
    <3>. QED
      BY <3>1, <2>2, <1>6
         DEF Fits, Accepted, NotToBeSent, Refused, EnvOf, OK, Mask, Absent, Value
  <2>. QED  BY <2>1, <2>2
<1>11. \A k \in DOMAIN journal : journal[k].req # r
  BY <1>1 DEF Inv, EveryOutcomeRecordedOnce, Showing
<1>12. EveryOutcomeRecordedOnce'
  <2>. DEFINE Executed(s) == s \in Showing /\ handler[s].op = "execute"
  <2>1. ASSUME NEW s \in Requests
        PROVE  /\ Executed(s)' <=> Executed(s)
               /\ Executed(s) => handler'[s] = handler[s]
    <3>1. CASE s = r
      BY <3>1, <1>1, <1>5 DEF Showing
    <3>2. CASE s # r
      BY <3>2, <1>5 DEF Showing
    <3>. QED  BY <3>1, <3>2
  <2>. QED  BY <2>1, <1>6 DEF Inv, EveryOutcomeRecordedOnce, OK
<1>13. ProductionConfirmed'
  BY <1>6, <1>7 DEF Inv, ProductionConfirmed, EnvOf, NotToBeSent, Refused
<1>14. AuthorizationMasked'
  BY <1>6, <1>11 DEF Inv, AuthorizationMasked, Absent, Mask, Value
<1>. QED  BY <1>8, <1>9, <1>10, <1>12, <1>13, <1>14 DEF Inv

\* What recording does to the journal.
LEMMA JournalGrows ==
  ASSUME HP!Inv, NEW rec \in Records, H!Add(rec)
  PROVE  /\ HP!Inv'
         /\ nextID \in DOMAIN journal' /\ nextID \notin DOMAIN journal
         /\ journal'[nextID] = rec
         /\ DOMAIN journal' = DOMAIN journal \cup {nextID}
         /\ \A k \in DOMAIN journal : journal'[k] = journal[k]
         /\ nextID \in Nat
<1>1. HP!Inv'
  BY SameHistory, HP!AddKeepsInv, ConsoleAssumption DEF HP!HistoryAssumption
<1>2. journal \in Seq(Records) /\ nextID = Len(journal) + 1
  BY RingHoldsJournal
<1>3. journal' = Append(journal, rec)
  BY DEF H!Add
<1>4. /\ Len(journal) \in Nat /\ DOMAIN journal = 1 .. Len(journal)
      /\ DOMAIN journal' = 1 .. Len(journal) + 1
      /\ journal'[Len(journal) + 1] = rec
      /\ \A k \in 1 .. Len(journal) : journal'[k] = journal[k]
  BY <1>2, <1>3, LenProperties, AppendProperties
<1>. QED  BY <1>1, <1>2, <1>4

\* An outcome is recorded and answered with.
LEMMA AddStep ==
  ASSUME Inv, NEW r \in Requests, AddToHistory(r)
  PROVE  Inv'
<1>. DEFINE old == handler[r]
            rec == RecordOf(r)
            body == <<[id |-> nextID, rec |-> rec]>>
            st == Answered("execute", body)
<1>1. old \in HandlerStates /\ old.at = "record"
  BY DEF Inv, TypeOK, AddToHistory
<1>2. old.out \in Outcomes /\ Fits(r, old)
  BY <1>1, StateTyped DEF Inv
<1>3. rec \in Records
  BY <1>1, <1>2, RecordTyped DEF Inv, Fits
<1>4. H!Add(rec) /\ Goto(r, st) /\ delivered' = delivered
  BY DEF AddToHistory
<1>5. /\ HP!Inv'
      /\ nextID \in DOMAIN journal' /\ nextID \notin DOMAIN journal
      /\ journal'[nextID] = rec
      /\ DOMAIN journal' = DOMAIN journal \cup {nextID}
      /\ \A k \in DOMAIN journal : journal'[k] = journal[k]
      /\ nextID \in Nat
  BY <1>3, <1>4, JournalGrows DEF Inv
<1>6. st \in HandlerStates
  <2>1. [id |-> nextID, rec |-> rec] \in [id : Nat, rec : Records]
    BY <1>3, <1>5
  <2>. HIDE DEF rec
  <2>2. body \in Seq([id : Nat, rec : Records])
    BY <2>1
  <2>. QED  BY <2>2, StatesTyped
<1>7. /\ handler' \in [Requests -> HandlerStates]
      /\ handler'[r] = st
      /\ \A s \in Requests \ {r} : handler'[s] = handler[s]
  BY <1>4, <1>6, Moved DEF Inv
<1>8. TypeOK'
  BY <1>4, <1>7, FixedTypes DEF Inv, TypeOK
<1>9. /\ rec.req = r /\ rec.out = old.out /\ rec.ok = OK(old.out)
  BY DEF RecordOf
<1>10. st.at = "answered" /\ st.code = 200 /\ st.op = "execute" /\ st.body = body
  BY DEF Answered
<1>11. /\ DOMAIN body = {1} /\ body[1] = [id |-> nextID, rec |-> rec]
  OBVIOUS
<1>. HIDE DEF rec, body, st
<1>12. ASSUME NEW s \in Requests PROVE Fits(s, handler[s])'
  <2>1. CASE s = r
    BY <2>1, <1>5, <1>7, <1>10, <1>11 DEF Fits
  <2>2. CASE s # r
    <3>1. Fits(s, handler[s]) /\ handler'[s] = handler[s]
      BY <2>2, <1>7 DEF Inv
    <3>. QED
      BY <3>1, <1>4, <1>5
         DEF Fits, Accepted, NotToBeSent, Refused, EnvOf, OK, Mask, Absent, Value
  <2>. QED  BY <2>1, <2>2
<1>13. \A k \in DOMAIN journal : journal[k].req # r
  BY <1>1 DEF Inv, EveryOutcomeRecordedOnce, Showing
<1>14. EveryOutcomeRecordedOnce'
  <2>. DEFINE Places(s) == {k \in DOMAIN journal : journal[k].req = s}
              Executed(s) == s \in Showing /\ handler[s].op = "execute"
              Once(s) ==
                /\ Executed(s) => \E k \in Places(s) :
                      /\ Places(s) = {k}
                      /\ handler[s].body = <<[id |-> k, rec |-> journal[k]]>>
                /\ ~Executed(s) => Places(s) = {}
                /\ \A k \in Places(s) : journal[k].ok => \E d \in delivered : d.req = s
  <2>1. ASSUME NEW s \in Requests PROVE Once(s)'
    <3>1. CASE s = r
      <4>1. Places(r)' = {nextID}
        BY <1>5, <1>9, <1>13
      <4>2. Executed(r)'
        BY <1>7, <1>10 DEF Showing
      <4>3. handler'[r].body = <<[id |-> nextID, rec |-> journal'[nextID]]>>
        BY <1>5, <1>7, <1>10 DEF body
      <4>4. journal'[nextID].ok => \E d \in delivered' : d.req = r
        BY <1>1, <1>2, <1>4, <1>5, <1>9 DEF Fits
      <4>. HIDE DEF Places, Executed
      <4>. QED  BY <3>1, <4>1, <4>2, <4>3, <4>4
    <3>2. CASE s # r
      <4>1. Once(s)
        BY DEF Inv, EveryOutcomeRecordedOnce
      <4>2. Places(s)' = Places(s) /\ \A k \in Places(s) : journal'[k] = journal[k]
        BY <1>5, <1>9, <3>2
      <4>3. (Executed(s)' <=> Executed(s)) /\ handler'[s] = handler[s]
        BY <1>7, <3>2 DEF Showing
      <4>. HIDE DEF Places, Executed
      <4>. QED  BY <4>1, <4>2, <4>3, <1>4
    <3>. QED  BY <3>1, <3>2
  <2>. QED  BY <2>1 DEF EveryOutcomeRecordedOnce
<1>15. ProductionConfirmed'
  BY <1>4 DEF Inv, ProductionConfirmed, EnvOf
<1>16. AuthorizationMasked'
  <2>1. \A k \in DOMAIN journal :
          /\ journal'[k].out.auth \in {Absent, Mask}
          /\ \A d \in delivered' : d.req = journal'[k].req =>
               (journal'[k].out.auth = Mask <=> d.auth # Absent)
    BY <1>4, <1>5 DEF Inv, AuthorizationMasked
  <2>2. /\ rec.out.auth \in {Absent, Mask}
        /\ \A d \in delivered' : d.req = rec.req => (rec.out.auth = Mask <=> d.auth # Absent)
    BY <1>1, <1>2, <1>4, <1>9 DEF Fits, Outcomes
  <2>. QED  BY <2>1, <2>2, <1>5 DEF AuthorizationMasked, Absent, Mask, Value
<1>. QED  BY <1>5, <1>8, <1>12, <1>14, <1>15, <1>16 DEF Inv

\* A step of the manager or of Cognito alone.
LEMMA StillStep ==
  ASSUME Inv, UNCHANGED <<handler, delivered, historyVars>>
  PROVE  Inv'
<1>1. handler' = handler /\ delivered' = delivered /\ journal' = journal
  BY DEF historyVars
<1>2. TypeOK'
  BY <1>1, FixedTypes DEF Inv, TypeOK
<1>3. HP!Inv'
  BY HistoryKept DEF Inv
<1>4. \A r \in Requests : Fits(r, handler[r])'
  BY <1>1 DEF Inv, Fits, Accepted, NotToBeSent, Refused, EnvOf, OK, Mask, Absent, Value
<1>5. EveryOutcomeRecordedOnce' /\ ProductionConfirmed' /\ AuthorizationMasked'
  BY <1>1 DEF Inv, EveryOutcomeRecordedOnce, Showing, OK, ProductionConfirmed, EnvOf,
     AuthorizationMasked, Absent, Mask, Value
<1>. QED  BY <1>2, <1>3, <1>4, <1>5 DEF Inv

\* What the manager hands out and reports is of its type.
LEMMA SessionTyped ==
  ASSUME A!TypeOK
  PROVE  /\ A!Snapshot \in A!Reports
         /\ A!AccessToken.ok => A!AccessToken.token \in A!Tokens
<1>1. A!Snapshot \in A!Reports
  BY ConsoleAssumption DEF A!TypeOK, A!Snapshot, A!Reports, A!Expired
<1>2. A!AccessToken.ok => A!AccessToken.token \in A!Tokens
  BY DEF A!TypeOK, A!AccessToken
<1>. QED  BY <1>1, <1>2

\* What Prepare attaches is one of the values of the type.
LEMMA AuthorizationTyped ==
  ASSUME A!TypeOK, NEW in \in Inputs
  PROVE  Authorization(in, JWTOf(in)) \in Auths
<1>1. in.mode \in {"jwt", "none", "custom"}
  BY InputAssumption DEF InputType
<1>2. JWTOf(in) \in Auths
  BY SessionTyped DEF JWTOf, Auths, Absent
<1>3. OwnHeader(in) \in Auths /\ Absent \in Auths /\ Value("custom") \in Auths
  BY DEF OwnHeader, Auths, Absent
<1>. QED  BY <1>1, <1>2, <1>3 DEF Authorization

\* The shapes of an outcome, of a value that was or was not attached.
LEMMA OutcomesTyped ==
  ASSUME NEW auth, NEW status \in Statuses
  PROVE  /\ NotSent \in Outcomes /\ ~OK(NotSent) /\ NotSent.auth # Mask
         /\ \A out \in {Answer(auth, status), Unreadable(auth, status)} :
              out \in Outcomes /\ (out.auth = Mask <=> auth # Absent)
BY DEF NotSent, Answer, Unreadable, Outcomes, OK, Masked, Mask, Absent, Value

\* The outcomes without a status.
LEMMA TransportErrorTyped ==
  ASSUME NEW auth
  PROVE  /\ TransportError(auth) \in Outcomes /\ ~OK(TransportError(auth))
         /\ NotSent \in Outcomes /\ ~OK(NotSent)
         /\ TransportError(auth).auth = Mask <=> auth # Absent
BY DEF NotSent, TransportError, Outcomes, OK, Masked, Mask, Absent, Value

\* What List and Get show was recorded under the id it is shown with.
LEMMA ShownByList ==
  ASSUME HP!Inv
  PROVE  /\ H!List \in Seq([id : Nat, rec : Records])
         /\ \A k \in DOMAIN H!List : /\ H!List[k].id \in DOMAIN journal
                                      /\ H!List[k].rec = journal[H!List[k].id]
<1>1. /\ items \in Seq([id : Nat, rec : Records])
      /\ Len(items) \in Nat /\ DOMAIN items = 1 .. Len(items)
  BY RingHoldsJournal, LenProperties
<1>2. /\ DOMAIN H!List = 1 .. Len(items)
      /\ \A k \in 1 .. Len(items) : /\ H!List[k] = items[Len(items) + 1 - k]
                                     /\ Len(items) + 1 - k \in DOMAIN items
  BY <1>1 DEF H!List
<1>3. H!List \in Seq([id : Nat, rec : Records])
  <2>1. \A k \in 1 .. Len(items) : H!List[k] \in [id : Nat, rec : Records]
    BY <1>1, <1>2, ElementOfSeq
  <2>2. H!List \in [1 .. Len(items) -> [id : Nat, rec : Records]]
    BY <2>1 DEF H!List
  <2>. QED  BY <1>1, <2>2, SeqDef
<1>. QED  BY <1>2, <1>3, RingHoldsJournal

\* The ids of the ring are distinct, so the first match of Get exists.
LEMMA FoundInRing ==
  ASSUME HP!Inv, NEW id, H!Get(id).ok
  PROVE  \E k \in DOMAIN items : H!Get(id).item = items[k]
<1>. DEFINE First(i) == items[i].id = id /\ \A j \in 1 .. i - 1 : items[j].id # id
<1>1. PICK i \in DOMAIN items : items[i].id = id
  BY DEF H!Get
<1>2. /\ DOMAIN items = 1 .. Len(journal) - HP!Gone
      /\ \A k \in DOMAIN items : items[k].id = HP!Gone + k
      /\ HP!Gone \in Nat /\ Len(journal) \in Nat
  BY HP!RingLength, ConsoleAssumption DEF HP!HistoryAssumption, HP!Inv, HP!RingIsWindow
<1>3. First(i)
  BY <1>1, <1>2
<1>4. H!Get(id).item = items[CHOOSE k \in DOMAIN items : First(k)]
  BY <1>1 DEF H!Get
<1>. QED  BY <1>3, <1>4
-----------------------------------------------------------------------------
\* Each kind of request, served up to its first wait.
LEMMA ReceiveStep ==
  ASSUME Inv, A!TypeOK, NEW r \in Requests, Receive(r)
  PROVE  Inv'
<1>. USE DEF Rejected, Answered, Record
<1>1. handler[r] = Idle /\ handler[r].at = "idle"
  <2>1. ASSUME NEW in \in Inputs, RejectExecute(r, in) \/ Refuse(r, in) \/ Prepare(r, in)
        PROVE  handler[r] = Idle
    BY <2>1 DEF RejectExecute, Refuse, Prepare
  <2>2. ASSUME \/ RejectMalformed(r) \/ ListHistory(r) \/ ClearHistory(r) \/ AuthStatus(r)
               \/ ClearAuth(r) \/ RejectLogin(r)
        PROVE  handler[r] = Idle
    BY <2>2 DEF RejectMalformed, ListHistory, ClearHistory, AuthStatus, ClearAuth, RejectLogin
  <2>3. ASSUME NEW id, GetHistoryItem(r, id) PROVE handler[r] = Idle
    BY <2>3 DEF GetHistoryItem
  <2>4. ASSUME NEW cfg, StartLogin(r, cfg) PROVE handler[r] = Idle
    BY <2>4 DEF StartLogin
  <2>5. handler[r] = Idle
    BY <2>1, <2>2, <2>3, <2>4 DEF Receive
  <2>. QED  BY <2>5 DEF Idle
<1>2. \A d \in delivered : d.req # r
  BY <1>1 DEF Inv, Fits
<1>3. UNCHANGED historyVars => HP!Inv' /\ journal' = journal
  BY HistoryKept DEF Inv, historyVars
<1>4. ASSUME NEW in \in Inputs, RejectExecute(r, in) PROVE Inv'
  <2>1. Rejected(400) \in HandlerStates
    BY StatesTyped
  <2>2. Fits(r, Rejected(400))
    BY DEF Fits
  <2>. QED  BY <1>1, <1>3, <1>4, <2>1, <2>2, QuietStep DEF RejectExecute
<1>5. ASSUME NEW in \in Inputs, Refuse(r, in) PROVE Inv'
  <2>1. Record(in, NotSent) \in HandlerStates /\ ~OK(NotSent)
    BY StatesTyped, TransportErrorTyped
  <2>2. Fits(r, Record(in, NotSent))
    BY <1>2, <1>5, <2>1 DEF Refuse, Fits
  <2>. QED  BY <1>1, <1>3, <1>5, <2>1, <2>2, QuietStep DEF Refuse
<1>6. ASSUME NEW in \in Inputs, Prepare(r, in) PROVE Inv'
  <2>. DEFINE st == [at |-> "send", in |-> in, auth |-> Authorization(in, JWTOf(in))]
  <2>1. st \in HandlerStates
    BY StatesTyped, AuthorizationTyped
  <2>2. Fits(r, st)
    BY <1>2, <1>6 DEF Prepare, Fits
  <2>. QED  BY <1>1, <1>3, <1>6, <2>1, <2>2, QuietStep DEF Prepare
<1>7. CASE RejectMalformed(r) \/ RejectLogin(r)
  BY <1>1, <1>3, <1>7, QuietStep, StatesTyped DEF RejectMalformed, RejectLogin, Fits
<1>8. CASE ListHistory(r)
  <2>1. Answered("list", H!List) \in HandlerStates /\ Fits(r, Answered("list", H!List))
    BY ShownByList, StatesTyped DEF Inv, Fits
  <2>. HIDE DEF Answered
  <2>2. Answered("list", H!List).at = "answered" /\ Answered("list", H!List).op = "list"
    BY DEF Answered
  <2>. QED  BY <1>1, <1>3, <1>8, <2>1, <2>2, QuietStep DEF ListHistory
<1>9. ASSUME NEW id \in 1 .. Cardinality(Requests), GetHistoryItem(r, id) PROVE Inv'
  <2>. DEFINE st == Answered("get", <<H!Get(id).item>>)
  <2>0. UNCHANGED <<delivered, journal>> /\ HP!Inv'
    <3>1. UNCHANGED <<delivered, historyVars>>
      BY <1>9 DEF GetHistoryItem
    <3>. QED  BY <3>1, <1>3
  <2>1. CASE H!Get(id).ok
    <3>1. PICK k \in DOMAIN items : H!Get(id).item = items[k]
      BY <2>1, FoundInRing DEF Inv
    <3>2. /\ items[k] \in [id : Nat, rec : Records]
          /\ items[k].id \in DOMAIN journal /\ items[k].rec = journal[items[k].id]
      BY RingHoldsJournal, LenProperties, ElementOfSeq DEF Inv
    <3>3. <<items[k]>> \in Seq([id : Nat, rec : Records])
      BY <3>2
    <3>4. st \in HandlerStates /\ Fits(r, st)
      <4>1. st = Answered("get", <<items[k]>>)
        BY <3>1
      <4>2. /\ st.at = "answered" /\ DOMAIN st.body = {1}
            /\ st.body[1] = items[k]
        BY <4>1
      <4>3. st \in HandlerStates
        BY <3>3, <4>1, StatesTyped
      <4>. HIDE DEF st
      <4>. QED  BY <3>2, <4>2, <4>3 DEF Fits
    <3>5. Goto(r, st) /\ st.op = "get"
      BY <1>9, <2>1 DEF GetHistoryItem
    <3>. HIDE DEF st
    <3>. QED  BY <1>1, <2>0, <3>4, <3>5, QuietStep
  <2>2. CASE ~H!Get(id).ok
    <3>1. Rejected(404) \in HandlerStates /\ Fits(r, Rejected(404))
      BY StatesTyped DEF Fits
    <3>2. Goto(r, Rejected(404)) /\ Rejected(404).code = 404
      BY <1>9, <2>2 DEF GetHistoryItem
    <3>. HIDE DEF Rejected
    <3>. QED  BY <1>1, <2>0, <3>1, <3>2, QuietStep
  <2>. QED  BY <2>1, <2>2
<1>10. CASE ClearHistory(r)
  <2>1. Answered("clear", <<>>) \in HandlerStates /\ Fits(r, Answered("clear", <<>>))
    BY StatesTyped, EmptySeq DEF Fits
  <2>2. H!Clear /\ journal' = journal
    BY <1>10 DEF ClearHistory, H!Clear
  <2>3. HP!Inv'
    BY <2>2, SameHistory, HP!ClearKeepsInv, ConsoleAssumption DEF Inv, HP!HistoryAssumption
  <2>. QED  BY <1>1, <1>10, <2>1, <2>2, <2>3, QuietStep DEF ClearHistory
<1>11. CASE AuthStatus(r)
  BY <1>1, <1>3, <1>11, QuietStep, StatesTyped, SessionTyped DEF AuthStatus, Fits
<1>12. CASE ClearAuth(r)
  BY <1>1, <1>2, <1>3, <1>12, QuietStep, StatesTyped DEF ClearAuth, Fits
<1>13. ASSUME NEW cfg \in Configs, StartLogin(r, cfg) PROVE Inv'
  BY <1>1, <1>2, <1>3, <1>13, QuietStep, StatesTyped DEF StartLogin, Fits
<1>. QED
  BY <1>4, <1>5, <1>6, <1>7, <1>8, <1>9, <1>10, <1>11, <1>12, <1>13 DEF Receive

\* What the server goes on with by itself, and what the backends do.
LEMMA ServeStep ==
  ASSUME Inv, A!TypeOK, NEW r \in Requests, Serve(r) \/ Elsewhere(r)
  PROVE  Inv'
<1>. DEFINE old == handler[r]
<1>1. old \in HandlerStates /\ Fits(r, old)
  BY DEF Inv, TypeOK
<1>2. UNCHANGED historyVars => HP!Inv' /\ journal' = journal
  BY HistoryKept DEF Inv, historyVars
<1>3. CASE Send(r)
  BY <1>3, SendStep
<1>4. CASE AddToHistory(r)
  BY <1>4, AddStep
<1>5. CASE GiveUp(r)
  <2>. DEFINE st == Record(old.in, TransportError(old.auth))
  <2>1. old.at \in {"send", "await"} /\ Goto(r, st) /\ UNCHANGED <<delivered, historyVars>>
    BY <1>5 DEF GiveUp
  <2>2. old.in \in Inputs
    BY <1>1, <2>1, StateTyped
  <2>3. st \in HandlerStates /\ st.at = "record" /\ st.in = old.in
        /\ st.out = TransportError(old.auth)
    BY <2>2, StatesTyped, TransportErrorTyped DEF Record
  <2>. HIDE DEF st
  <2>4. Fits(r, st)
    BY <1>1, <2>1, <2>3, TransportErrorTyped DEF Fits
  <2>. QED  BY <1>2, <2>1, <2>3, <2>4, QuietStep
<1>6. ASSUME NEW status \in Statuses, BackendAnswers(r, status) PROVE Inv'
  <2>1. PICK out \in {Answer(old.auth, status), Unreadable(old.auth, status)} :
          Goto(r, Record(old.in, out))
    BY <1>6 DEF BackendAnswers
  <2>. DEFINE st == Record(old.in, out)
  <2>2. old.at = "await" /\ UNCHANGED <<delivered, historyVars>>
    BY <1>6 DEF BackendAnswers
  <2>3. old.in \in Inputs /\ out \in Outcomes /\ (out.auth = Mask <=> old.auth # Absent)
    BY <1>1, <2>2, StateTyped, OutcomesTyped
  <2>4. st \in HandlerStates /\ st.at = "record" /\ st.in = old.in /\ st.out = out
    BY <2>3, StatesTyped DEF Record
  <2>. HIDE DEF st
  <2>5. Fits(r, st)
    BY <1>1, <2>2, <2>3, <2>4 DEF Fits
  <2>. QED  BY <1>2, <2>1, <2>2, <2>4, <2>5, QuietStep DEF st
<1>7. CASE LoginFails(r)
  <2>1. Rejected(502) \in HandlerStates /\ Fits(r, Rejected(502)) /\ Rejected(502).code = 502
    BY StatesTyped DEF Rejected, Fits
  <2>. QED  BY <1>2, <1>7, <2>1, QuietStep DEF LoginFails
<1>8. CASE LoginEnds(r)
  <2>. DEFINE st == [at |-> "snapshot"]
  <2>1. old.at = "login" /\ Goto(r, st) /\ UNCHANGED <<delivered, historyVars>>
    BY <1>8 DEF LoginEnds
  <2>2. st \in HandlerStates /\ Fits(r, st)
    BY <1>1, <2>1, StatesTyped DEF Fits
  <2>. QED  BY <1>2, <2>1, <2>2, QuietStep
<1>9. CASE Snapshot(r)
  <2>. DEFINE st == Answered("status", A!Snapshot)
  <2>1. st \in HandlerStates /\ Fits(r, st) /\ st.op = "status"
    BY StatesTyped, SessionTyped DEF Answered, Fits
  <2>. QED  BY <1>2, <1>9, <2>1, QuietStep DEF Snapshot
<1>10. CASE CognitoAnswers(r)
  BY <1>10, StillStep DEF CognitoAnswers
<1>. QED
  BY <1>3, <1>4, <1>5, <1>6, <1>7, <1>8, <1>9, <1>10 DEF Serve, Elsewhere
-----------------------------------------------------------------------------
\* A server that has just started is in order.
LEMMA InitInv == Init => Inv
<1>. SUFFICES ASSUME Init PROVE Inv
  OBVIOUS
<1>1. TypeOK
  BY StatesTyped DEF Init, TypeOK
<1>2. HP!Inv
  BY SameHistory, HP!InitInv, ConsoleAssumption DEF Init, HP!HistoryAssumption
<1>3. journal = <<>> /\ delivered = {} /\ \A r \in Requests : handler[r] = Idle
  BY DEF Init, H!Init
<1>4. \A r \in Requests : Fits(r, handler[r])
  BY <1>3 DEF Fits, Idle
<1>5. EveryOutcomeRecordedOnce /\ ProductionConfirmed /\ AuthorizationMasked
  BY <1>3 DEF EveryOutcomeRecordedOnce, Showing, ProductionConfirmed,
     AuthorizationMasked, Idle
<1>. QED  BY <1>1, <1>2, <1>4, <1>5 DEF Inv

\* The invariant of the goroutines and of what they share.
THEOREM ConsoleInvariant == Spec => []Inv
<1>1. Inv /\ A!TypeOK /\ [Next]_vars => Inv'
  <2>. SUFFICES ASSUME Inv, A!TypeOK, [Next]_vars PROVE Inv'
    OBVIOUS
  <2>1. CASE UNCHANGED vars
    BY <2>1, StillStep DEF vars
  <2>2. CASE Tick
    BY <2>2, StillStep DEF Tick
  <2>3. ASSUME NEW r \in Requests, Receive(r) PROVE Inv'
    BY <2>3, ReceiveStep
  <2>4. ASSUME NEW r \in Requests, Elsewhere(r) \/ Serve(r) PROVE Inv'
    BY <2>4, ServeStep
  <2>. QED  BY <2>1, <2>2, <2>3, <2>4 DEF Next
<1>2. A!TypeOK /\ A!FieldsOfOneLogin => A!TypeOK
  OBVIOUS
<1>. QED  BY <1>1, <1>2, InitInv, ConsoleSessionOfOneLogin, PTL DEF Spec

\* Every goroutine is at one of its points, for any number of them.
THEOREM ConsoleTypeCorrect == Spec => []TypeOK
<1>1. Inv => TypeOK
  BY DEF Inv
<1>. QED  BY <1>1, ConsoleInvariant, PTL

\* Whatever becomes of an execution, it is recorded once, as it was answered.
THEOREM ConsoleRecordsEveryOutcome == Spec => []EveryOutcomeRecordedOnce
<1>1. Inv => EveryOutcomeRecordedOnce
  BY DEF Inv
<1>. QED  BY <1>1, ConsoleInvariant, PTL

\* No unconfirmed request is delivered to a production environment.
THEOREM ConsoleConfirmsProduction == Spec => []ProductionConfirmed
<1>1. Inv => ProductionConfirmed
  BY DEF Inv
<1>. QED  BY <1>1, ConsoleInvariant, PTL

\* The history tells that an Authorization header was sent, and not what it was.
THEOREM ConsoleMasksAuthorization == Spec => []AuthorizationMasked
<1>1. Inv => AuthorizationMasked
  BY DEF Inv
<1>. QED  BY <1>1, ConsoleInvariant, PTL

\* An id that was shown names one request: what is shown is in the journal under
\* its id, and the journal only grows.
THEOREM ConsoleIdsNameOneRequest == Spec => []OneIdOneRequest
<1>1. Inv => OneIdOneRequest
  <2>. SUFFICES ASSUME Inv, NEW r \in Showing, NEW s \in Showing,
                       NEW i \in ShownTo(r), NEW j \in ShownTo(s), i.id = j.id
                PROVE  i = j
    BY DEF OneIdOneRequest
  <2>1. ASSUME NEW q \in Showing, NEW x \in ShownTo(q)
        PROVE  x = [id |-> x.id, rec |-> journal[x.id]]
    <3>1. /\ q \in Requests /\ handler[q] \in HandlerStates /\ Fits(q, handler[q])
          /\ handler[q].at = "answered" /\ handler[q].code = 200
          /\ handler[q].op \in {"execute", "list", "get"}
      BY DEF Inv, TypeOK, Showing
    <3>2. handler[q].body \in Seq([id : Nat, rec : Records])
      BY <3>1, StateTyped
    <3>3. PICK k \in DOMAIN handler[q].body : x = handler[q].body[k]
      BY DEF ShownTo
    <3>4. x \in [id : Nat, rec : Records]
      BY <3>2, <3>3, LenProperties, ElementOfSeq
    <3>5. x.rec = journal[x.id]
      BY <3>1, <3>3 DEF Fits
    <3>. QED  BY <3>4, <3>5
  <2>. QED  BY <2>1
<1>. QED  BY <1>1, ConsoleInvariant, PTL

\* Every step of a handler that touches the history is one of its methods, with
\* a complete record.
LEMMA HistoryStep == Inv /\ [Next]_vars => [H!Next]_(H!vars)
<1>. SUFFICES ASSUME Inv, [Next]_vars PROVE [H!Next]_(H!vars)
  OBVIOUS
<1>. USE DEF historyVars, H!vars
<1>1. CASE UNCHANGED vars
  BY <1>1 DEF vars
<1>2. CASE Tick
  BY <1>2 DEF Tick
<1>3. ASSUME NEW r \in Requests, Receive(r) PROVE [H!Next]_(H!vars)
  <2>1. ASSUME NEW in \in Inputs, RejectExecute(r, in) \/ Refuse(r, in) \/ Prepare(r, in)
        PROVE  UNCHANGED historyVars
    BY <2>1 DEF RejectExecute, Refuse, Prepare
  <2>2. ASSUME NEW id \in 1 .. Cardinality(Requests), GetHistoryItem(r, id)
        PROVE  UNCHANGED historyVars
    BY <2>2 DEF GetHistoryItem
  <2>3. ASSUME \/ RejectMalformed(r) \/ ListHistory(r) \/ AuthStatus(r)
               \/ ClearAuth(r) \/ RejectLogin(r)
        PROVE  UNCHANGED historyVars
    BY <2>3 DEF RejectMalformed, ListHistory, AuthStatus, ClearAuth, RejectLogin
  <2>4. ASSUME NEW cfg \in Configs, StartLogin(r, cfg) PROVE UNCHANGED historyVars
    BY <2>4 DEF StartLogin
  <2>5. CASE ClearHistory(r)
    BY <2>5 DEF ClearHistory, H!Next
  <2>. QED  BY <1>3, <2>1, <2>2, <2>3, <2>4, <2>5 DEF Receive
<1>4. ASSUME NEW r \in Requests, Elsewhere(r) PROVE [H!Next]_(H!vars)
  BY <1>4 DEF Elsewhere, BackendAnswers, CognitoAnswers
<1>5. ASSUME NEW r \in Requests, Serve(r) PROVE [H!Next]_(H!vars)
  <2>1. CASE AddToHistory(r)
    <3>1. RecordOf(r) \in Records
      BY <2>1, RecordTyped DEF AddToHistory, Inv, Fits
    <3>. QED  BY <2>1, <3>1 DEF AddToHistory, H!Next
  <2>. QED  BY <1>5, <2>1 DEF Serve, Send, GiveUp, LoginFails, LoginEnds, Snapshot
<1>. QED  BY <1>1, <1>2, <1>3, <1>4, <1>5 DEF Next

\* The goroutines use the history only through its methods.
THEOREM ConsoleUsesHistory == Spec => UsesHistory
<1>1. Init => H!Init
  BY DEF Init
<1>. QED  BY <1>1, HistoryStep, ConsoleInvariant, PTL DEF Spec, UsesHistory, H!Spec
=============================================================================
