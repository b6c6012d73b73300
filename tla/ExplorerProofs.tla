--------------------------- MODULE ExplorerProofs ---------------------------
(***************************************************************************)
(* Proofs about Explorer, for any environments, operations and bounds.     *)
(*                                                                         *)
(* Inv is inductive: the types; that one send asks exactly while the       *)
(* dialog is open, about the operation the dialog shows, and with the      *)
(* button still there; that what was posted carries the confirmation of    *)
(* its own payload; and that the button and the sends under way are paid   *)
(* for by selections.                                                      *)
(***************************************************************************)
EXTENDS Explorer, FiniteSetTheorems, SequenceTheorems, TLAPS

Buttons == {"none", "continue", "cancel", "esc"}
Values == {"", "confirm", "cancel"}
Details == Endpoints \cup {None}
SendStates == [at : {"unused", "executed", "listing", "done"}]
              \cup [at : {"asking"}, payload : Payloads]
              \cup Posted
              \cup [at : {"listed"}, list : Lists]
Executions == [send : Runs, env : Envs, ep : Endpoints, confirm : BOOLEAN,
               asked : Details, by : Buttons]
Dialogs == [open : BOOLEAN, value : Values, detail : Details]
Clearings == [at : {"no", "posted", "listing", "listed"}, list : Lists]

TypedPage == /\ envId \in Envs /\ endpoint \in Details /\ canSend \in BOOLEAN
             /\ dialog \in Dialogs
             /\ \A f \in Fetches : restoring[f] # None =>
                  restoring[f].env \in Envs /\ restoring[f].ep \in Endpoints
             /\ shown \in Lists
TypedServer == /\ executed \in Seq(Executions) /\ floor \in 0 .. Len(executed)
               /\ clearing \in Clearings /\ selects \in Nat
Typed == TypedPage /\ TypedServer /\ sends \in [Runs -> SendStates]

\* One send asks while the dialog is open, about what the dialog shows.
Asks == /\ dialog.open <=> \E n \in Runs : At(n, "asking")
        /\ \A m, n \in Runs : At(m, "asking") /\ At(n, "asking") => m = n
        /\ dialog.open => canSend
        /\ \A n \in Runs : At(n, "asking") => /\ sends[n].payload.env \in Production
                                              /\ dialog.detail = sends[n].payload.ep

\* What is posted, and executed from it.
AsShown(x, payload) == /\ x.confirm <=> payload.env \in Production
                       /\ x.confirm => x.asked = payload.ep
Sent == /\ \A n \in Runs : sends[n].at \in {"posted", "given up"} => AsShown(sends[n], sends[n].payload)
        /\ \A k \in DOMAIN executed : AsShown(executed[k], executed[k])

UnderWay == {n \in Runs : sends[n].at \notin {"unused", "asking", "given up", "done"}}
Bounded == Cardinality(UnderWay) + (IF canSend THEN 1 ELSE 0) <= selects

Inv == Typed /\ Asks /\ Sent /\ Bounded
-----------------------------------------------------------------------------
LEMMA InitInv == Init => Inv
<1>. SUFFICES ASSUME Init PROVE Inv
  OBVIOUS
<1>1. List(0, 0) \in Lists
  BY DEF List, Lists
<1>2. \A n \in Runs : sends[n] \in SendStates /\ sends[n].at = "unused"
  BY DEF Init, SendStates
<1>3. Typed
  <2>1. dialog \in Dialogs
    BY DEF Init, Dialogs, Values, Details
  <2>2. clearing \in Clearings
    BY <1>1 DEF Init, Clearings
  <2>3. sends \in [Runs -> SendStates]
    BY <1>2 DEF Init
  <2>4. TypedPage
    BY <1>1, <2>1, ExplorerAssumption DEF Init, TypedPage, Details
  <2>5. TypedServer
    <3>1. executed = <<>> /\ floor = 0 /\ selects = 0
      BY DEF Init
    <3>2. <<>> \in Seq(Executions) /\ Len(<<>>) = 0
      OBVIOUS
    <3>3. executed \in Seq(Executions) /\ Len(executed) = 0
      BY <3>1, <3>2
    <3>. QED  BY <2>2, <3>1, <3>3 DEF TypedServer
  <2>. QED  BY <2>3, <2>4, <2>5 DEF Typed
<1>4. Asks
  BY <1>2 DEF Init, Asks, At
<1>5. Sent
  <2>1. DOMAIN executed = {}
    <3>1. executed = <<>> /\ executed \in Seq(Executions) /\ Len(<<>>) = 0
      BY <1>3 DEF Init, Typed, TypedServer
    <3>. QED  BY <3>1, LenProperties
  <2>. QED  BY <1>2, <2>1 DEF Sent
<1>6. Bounded
  <2>1. UnderWay = {}
    BY <1>2 DEF UnderWay
  <2>2. Cardinality(UnderWay) = 0
    BY <2>1, FS_EmptySet
  <2>3. ~canSend /\ selects = 0
    BY DEF Init
  <2>. QED  BY <2>2, <2>3 DEF Bounded
<1>. QED  BY <1>3, <1>4, <1>5, <1>6 DEF Inv

\* A send under way more or less.
LEMMA OneMore ==
  ASSUME Typed, NEW n \in Runs, \A m \in Runs \ {n} : sends'[m].at = sends[m].at
  PROVE  /\ Cardinality(UnderWay) \in Nat /\ Cardinality(UnderWay') \in Nat
         /\ (n \in UnderWay <=> n \in UnderWay') => Cardinality(UnderWay') = Cardinality(UnderWay)
         /\ n \notin UnderWay /\ n \in UnderWay' =>
              Cardinality(UnderWay') = Cardinality(UnderWay) + 1
         /\ n \in UnderWay /\ n \notin UnderWay' =>
              Cardinality(UnderWay') = Cardinality(UnderWay) - 1
<1>1. IsFiniteSet(Runs)
  BY ExplorerAssumption, FS_Interval DEF Runs
<1>2. IsFiniteSet(UnderWay) /\ IsFiniteSet(UnderWay')
  BY <1>1, FS_Subset DEF UnderWay, Runs
<1>3. Cardinality(UnderWay) \in Nat /\ Cardinality(UnderWay') \in Nat
  BY <1>2, FS_CardinalityType
<1>4. (n \in UnderWay <=> n \in UnderWay') => UnderWay' = UnderWay
  BY DEF UnderWay, Runs
<1>5. n \notin UnderWay /\ n \in UnderWay' => UnderWay' = UnderWay \cup {n}
  BY DEF UnderWay, Runs
<1>6. n \in UnderWay /\ n \notin UnderWay' => UnderWay = UnderWay' \cup {n}
  BY DEF UnderWay, Runs
<1>. QED  BY <1>2, <1>3, <1>4, <1>5, <1>6, FS_AddElement
-----------------------------------------------------------------------------
Rest == \/ \E e \in Envs : ChangeEnvironment(e)
        \/ \E ep \in Endpoints : SelectEndpoint(ep)
        \/ \E id \in DOMAIN executed, f \in Fetches : ClickHistory(id, f)
        \/ \E f \in Fetches : Restore(f) \/ RestoreFails(f)
        \/ ClickClear \/ ServerClears \/ ServerListsCleared \/ ShowClearedList \/ ClearFails

SendStep(n) == \/ ClickSend(n) \/ ClickContinue(n) \/ ClickCancel(n) \/ PressEsc(n)
               \/ SendProgress(n)

LEMMA PostTyped ==
  ASSUME Typed, NEW n \in Runs, NEW payload \in Payloads, NEW confirm \in BOOLEAN,
         NEW button \in Buttons, Post(n, payload, confirm, button)
  PROVE  sends' \in [Runs -> SendStates]
<1>1. [at |-> "posted", payload |-> payload, confirm |-> confirm, asked |-> dialog.detail,
       by |-> button] \in Posted
  BY DEF Typed, TypedPage, Dialogs, Details, Buttons, Posted
<1>. QED  BY <1>1 DEF Post, Typed, SendStates

LEMMA TypedStep ==
  ASSUME Typed, Rest \/ \E n \in Runs : SendStep(n)
  PROVE  Typed'
<1>0. List(0, 0) \in Lists /\ Current \in Lists
  BY DEF List, Lists, Current, Typed, TypedServer
<1>1. ASSUME NEW e \in Envs, ChangeEnvironment(e)
      PROVE  Typed'
  BY <1>1 DEF ChangeEnvironment, Typed, TypedPage, TypedServer, serverVars, ghosts
<1>2. ASSUME NEW ep \in Endpoints, SelectEndpoint(ep)
      PROVE  Typed'
  BY <1>2 DEF SelectEndpoint, Select, Typed, TypedPage, TypedServer, serverVars, Details
<1>3. ASSUME NEW id \in DOMAIN executed, NEW f \in Fetches, ClickHistory(id, f)
      PROVE  Typed'
  <2>1. executed[id].env \in Envs /\ executed[id].ep \in Endpoints
    <3>1. executed[id] \in Executions
      BY ElementOfSeq, LenProperties DEF Typed, TypedServer
    <3>. QED  BY <3>1 DEF Executions
  <2>2. /\ restoring' = [restoring EXCEPT ![f] = [env |-> executed[id].env,
                                                  ep |-> executed[id].ep, id |-> id]]
        /\ UNCHANGED <<envId, endpoint, canSend, dialog, sends, clearing, shown, executed,
                       floor, selects>>
    BY <1>3 DEF ClickHistory, serverVars, ghosts
  <2>3. \A g \in Fetches : restoring'[g] # None =>
          restoring'[g].env \in Envs /\ restoring'[g].ep \in Endpoints
    BY <2>1, <2>2 DEF Typed, TypedPage
  <2>. QED  BY <2>2, <2>3 DEF Typed, TypedPage, TypedServer
<1>4. ASSUME NEW f \in Fetches, Restore(f) \/ RestoreFails(f)
      PROVE  Typed'
  <2>0. \A g \in Fetches : restoring'[g] # None =>
          restoring'[g].env \in Envs /\ restoring'[g].ep \in Endpoints
    <3>1. restoring' = [restoring EXCEPT ![f] = None]
      BY <1>4 DEF Restore, RestoreFails
    <3>. QED  BY <3>1 DEF Typed, TypedPage
  <2>1. CASE Restore(f)
    <3>1. /\ restoring[f].ep \in Details /\ envId' \in Envs
          /\ endpoint' = restoring[f].ep /\ canSend' = TRUE /\ selects' = selects + 1
      BY <2>1 DEF Restore, Select, Typed, TypedPage, Details
    <3>2. UNCHANGED <<dialog, sends, clearing, shown, executed, floor>>
      BY <2>1 DEF Restore, serverVars
    <3>. QED  BY <2>0, <3>1, <3>2 DEF Typed, TypedPage, TypedServer
  <2>2. CASE RestoreFails(f)
    <3>1. UNCHANGED <<envId, endpoint, canSend, dialog, sends, clearing, shown, executed, floor,
                      selects>>
      BY <2>2 DEF RestoreFails, serverVars, ghosts
    <3>. QED  BY <2>0, <3>1 DEF Typed, TypedPage, TypedServer
  <2>. QED  BY <1>4, <2>1, <2>2
<1>5. CASE ClickClear \/ ServerClears \/ ServerListsCleared \/ ShowClearedList \/ ClearFails
  <2>1. clearing' \in Clearings
    BY <1>0, <1>5 DEF ClickClear, ServerClears, ServerListsCleared, ShowClearedList, ClearFails,
                      Clearing, Clearings
  <2>2. shown' \in Lists /\ floor' \in 0 .. Len(executed)
    BY <1>5 DEF ClickClear, ServerClears, ServerListsCleared, ShowClearedList, ClearFails, Typed,
                TypedPage, TypedServer, Clearings
  <2>3. UNCHANGED <<envId, endpoint, canSend, dialog, restoring, sends, executed, selects>>
    BY <1>5 DEF ClickClear, ServerClears, ServerListsCleared, ShowClearedList, ClearFails, Clearing
  <2>. QED  BY <2>1, <2>2, <2>3 DEF Typed, TypedPage, TypedServer
<1>6. ASSUME NEW n \in Runs, ClickSend(n)
      PROVE  Typed'
  <2>. DEFINE payload == [env |-> envId, ep |-> endpoint]
  <2>1. payload \in Payloads
    BY <1>6 DEF ClickSend, Payloads, Typed, TypedPage, Details
  <2>2. UNCHANGED <<envId, endpoint, restoring, clearing, shown, executed, floor, selects>>
    BY <1>6 DEF ClickSend, serverVars
  <2>3. CASE envId \in Production
    <3>1. [dialog EXCEPT !.open = TRUE, !.detail = payload.ep] \in Dialogs
      BY <2>1 DEF Typed, TypedPage, Dialogs, Payloads, Details
    <3>2. [at |-> "asking", payload |-> payload] \in SendStates
      BY <2>1 DEF SendStates
    <3>3. /\ dialog' \in Dialogs /\ sends' \in [Runs -> SendStates] /\ canSend' = canSend
      BY <1>6, <2>3, <3>1, <3>2 DEF ClickSend, Typed
    <3>. QED  BY <2>2, <3>3 DEF Typed, TypedPage, TypedServer
  <2>4. CASE envId \notin Production
    <3>1. Post(n, payload, FALSE, "none") /\ canSend' = FALSE /\ dialog' = dialog
      BY <1>6, <2>4 DEF ClickSend, ButtonWhileSending
    <3>2. sends' \in [Runs -> SendStates]
      BY <2>1, <3>1, PostTyped DEF Buttons
    <3>. QED  BY <2>2, <3>1, <3>2 DEF Typed, TypedPage, TypedServer
  <2>. QED  BY <2>3, <2>4
<1>7. ASSUME NEW n \in Runs, NEW value \in Values, NEW button \in Buttons, Close(n, value, button)
      PROVE  Typed'
  <2>1. sends[n].payload \in Payloads
    BY <1>7 DEF Close, At, Typed, SendStates, Posted
  <2>2. /\ UNCHANGED <<envId, endpoint, restoring, clearing, shown, executed, floor, selects>>
        /\ dialog' = [dialog EXCEPT !.open = FALSE, !.value = value]
    BY <1>7 DEF Close, serverVars
  <2>3. dialog' \in Dialogs
    BY <2>2 DEF Typed, TypedPage, Dialogs
  <2>4. CASE value = "confirm"
    <3>1. Post(n, sends[n].payload, TRUE, button) /\ canSend' = FALSE
      BY <1>7, <2>4 DEF Close, ConfirmedPayload, ButtonWhileSending
    <3>2. sends' \in [Runs -> SendStates]
      BY <2>1, <3>1, PostTyped
    <3>. QED  BY <2>2, <2>3, <3>1, <3>2 DEF Typed, TypedPage, TypedServer
  <2>5. CASE value # "confirm"
    <3>1. sends' = [sends EXCEPT ![n] = [at |-> "done"]] /\ canSend' = canSend
      BY <1>7, <2>5 DEF Close, Dismissed
    <3>2. sends' \in [Runs -> SendStates]
      BY <3>1 DEF Typed, SendStates
    <3>. QED  BY <2>2, <2>3, <3>1, <3>2 DEF Typed, TypedPage, TypedServer
  <2>. QED  BY <2>4, <2>5
<1>8. ASSUME NEW n \in Runs, ClickContinue(n) \/ ClickCancel(n) \/ PressEsc(n)
      PROVE  Typed'
  <2>1. dialog.value \in Values
    BY DEF Typed, TypedPage, Dialogs
  <2>. QED  BY <1>7, <1>8, <2>1 DEF ClickContinue, ClickCancel, PressEsc, Values, Buttons
<1>9. ASSUME NEW n \in Runs, SendProgress(n)
      PROVE  Typed'
  <2>1. sends[n] \in SendStates
    BY DEF Typed
  <2>2. CASE ServerExecutes(n)
    <3>1. sends[n] \in Posted
      BY <2>1, <2>2 DEF ServerExecutes, SendStates
    <3>. DEFINE x == [send |-> n, env |-> sends[n].payload.env, ep |-> sends[n].payload.ep,
                      confirm |-> sends[n].confirm, asked |-> sends[n].asked, by |-> sends[n].by]
    <3>2. x \in Executions
      BY <3>1 DEF Posted, Payloads, Executions, Details, Buttons
    <3>3. executed' = Append(executed, x) /\ UNCHANGED <<pageVars, clearing, floor, ghosts>>
      BY <2>2 DEF ServerExecutes
    <3>. HIDE DEF x
    <3>4. executed' \in Seq(Executions) /\ floor' \in 0 .. Len(executed')
      BY <3>2, <3>3 DEF Typed, TypedServer
    <3>5. sends' \in [Runs -> SendStates]
      BY <2>2 DEF ServerExecutes, Typed, SendStates
    <3>. QED  BY <3>3, <3>4, <3>5 DEF Typed, TypedPage, TypedServer, pageVars, ghosts
  <2>3. CASE ShowResponse(n)
    <3>1. sends' \in [Runs -> SendStates]
      BY <2>3 DEF ShowResponse, AfterResponse, Typed, SendStates
    <3>. QED  BY <2>3, <3>1 DEF ShowResponse, Typed, TypedPage, TypedServer, serverVars, ghosts
  <2>4. CASE ServerLists(n)
    <3>1. sends' \in [Runs -> SendStates]
      BY <1>0, <2>4 DEF ServerLists, Typed, SendStates
    <3>. QED  BY <2>4, <3>1 DEF ServerLists, Typed, TypedPage, TypedServer, pageVars, serverVars, ghosts
  <2>5. CASE ShowList(n)
    <3>1. sends' \in [Runs -> SendStates]
      BY <2>5 DEF ShowList, Typed, SendStates
    <3>2. sends[n].list \in Lists
      BY <2>1, <2>5 DEF ShowList, At, SendStates, Posted
    <3>. QED  BY <2>5, <3>1, <3>2 DEF ShowList, Typed, TypedPage, TypedServer, serverVars, ghosts
  <2>6. CASE SendFails(n)
    <3>1. At(n, "posted") => [sends[n] EXCEPT !.at = "given up"] \in Posted
      BY <2>1 DEF At, SendStates, Posted
    <3>2. sends' = [sends EXCEPT ![n] = [at |-> "done"]]
            \/ (At(n, "posted") /\ sends' = [sends EXCEPT ![n] = [sends[n] EXCEPT !.at = "given up"]])
      BY <2>6 DEF SendFails
    <3>3. \E state \in SendStates : sends' = [sends EXCEPT ![n] = state]
      BY <3>1, <3>2 DEF SendStates
    <3>4. /\ canSend' = TRUE
          /\ UNCHANGED <<envId, endpoint, dialog, restoring, shown, clearing, executed, floor, selects>>
      BY <2>6 DEF SendFails, ButtonAfterFailure, serverVars
    <3>. QED  BY <3>3, <3>4 DEF Typed, TypedPage, TypedServer
  <2>. QED  BY <1>9, <2>2, <2>3, <2>4, <2>5, <2>6 DEF SendProgress
<1>. QED  BY <1>1, <1>2, <1>3, <1>4, <1>5, <1>6, <1>8, <1>9 DEF Rest, SendStep
-----------------------------------------------------------------------------
\* What a step does to the sends, the dialog and the button.

LEMMA RestEffects ==
  ASSUME Typed, Rest
  PROVE  /\ UNCHANGED <<dialog, sends, executed>>
         /\ \/ UNCHANGED <<canSend, selects>>
            \/ canSend' = TRUE /\ selects' = selects + 1
BY DEF Rest, ChangeEnvironment, SelectEndpoint, Select, ClickHistory, Restore, RestoreFails, ClickClear,
       ServerClears, ServerListsCleared, ShowClearedList, ClearFails, Clearing, serverVars, ghosts

Became(n, from, to) == sends[n].at = from /\ sends'[n].at = to
SameUI == UNCHANGED <<dialog, canSend>>

Opens(n) == /\ Became(n, "unused", "asking")
            /\ ~dialog.open /\ dialog'.open /\ canSend /\ canSend'
            /\ sends'[n].payload.env \in Production
            /\ sends'[n].payload.ep = dialog'.detail
            /\ executed' = executed
Posts(n) == /\ sends'[n].at = "posted" /\ AsShown(sends'[n], sends'[n].payload)
            /\ \/ sends[n].at = "unused" /\ ~dialog.open /\ canSend /\ dialog' = dialog
               \/ sends[n].at = "asking" /\ dialog.open /\ ~dialog'.open
            /\ ~canSend' /\ executed' = executed
Dismisses(n) == /\ Became(n, "asking", "done") /\ dialog.open /\ ~dialog'.open
                /\ canSend' = canSend /\ executed' = executed
Executes(n) == /\ Became(n, "posted", "executed") \/ Became(n, "given up", "done")
               /\ \E x \in Executions : /\ AsShown(sends[n], sends[n].payload) => AsShown(x, x)
                                        /\ executed' = Append(executed, x)
               /\ SameUI
Advances(n) == /\ Became(n, "executed", "listing") \/ Became(n, "listing", "listed")
               /\ SameUI /\ executed' = executed
Ends(n) == /\ sends[n].at \in {"posted", "executed", "listing", "listed"}
           /\ \/ sends'[n].at = "done"
              \/ /\ Became(n, "posted", "given up")
                 /\ AsShown(sends[n], sends[n].payload) => AsShown(sends'[n], sends'[n].payload)
           /\ canSend' = TRUE /\ UNCHANGED <<dialog, executed>>

LEMMA SendEffects ==
  ASSUME Typed, Asks, NEW n \in Runs, SendStep(n)
  PROVE  /\ \A m \in Runs \ {n} : sends'[m] = sends[m]
         /\ selects' = selects
         /\ \/ Opens(n) \/ Posts(n) \/ Dismisses(n) \/ Executes(n) \/ Advances(n) \/ Ends(n)
<1>0. sends \in [Runs -> SendStates] /\ sends[n] \in SendStates /\ dialog \in Dialogs
  BY DEF Typed, TypedPage
<1>a. ASSUME NEW state, sends' = [sends EXCEPT ![n] = state]
      PROVE  sends'[n] = state /\ \A m \in Runs \ {n} : sends'[m] = sends[m]
  BY <1>0, <1>a
<1>1. CASE ClickSend(n)
  <2>. DEFINE payload == [env |-> envId, ep |-> endpoint]
  <2>1. ~dialog.open /\ canSend /\ sends[n].at = "unused" /\ UNCHANGED <<executed, selects>>
    BY <1>1 DEF ClickSend, At, serverVars
  <2>2. CASE envId \in Production
    <3>1. /\ dialog' = [dialog EXCEPT !.open = TRUE, !.detail = endpoint]
          /\ sends' = [sends EXCEPT ![n] = [at |-> "asking", payload |-> payload]]
          /\ canSend' = canSend
      BY <1>1, <2>2 DEF ClickSend
    <3>2. dialog'.open = TRUE /\ dialog'.detail = endpoint
      BY <1>0, <3>1 DEF Dialogs
    <3>. QED  BY <1>a, <2>1, <2>2, <3>1, <3>2 DEF Opens, Became
  <2>3. CASE envId \notin Production
    <3>1. /\ sends' = [sends EXCEPT ![n] = [at |-> "posted", payload |-> payload, confirm |-> FALSE,
                                            asked |-> dialog.detail, by |-> "none"]]
          /\ canSend' = FALSE /\ dialog' = dialog
      BY <1>1, <2>3 DEF ClickSend, Post, ButtonWhileSending
    <3>. QED  BY <1>a, <2>1, <2>3, <3>1 DEF Posts, AsShown
  <2>. QED  BY <2>2, <2>3
<1>2. ASSUME NEW value, NEW button, Close(n, value, button)
      PROVE  /\ \A m \in Runs \ {n} : sends'[m] = sends[m]
             /\ selects' = selects
             /\ Posts(n) \/ Dismisses(n)
  <2>1. /\ dialog.open /\ sends[n].at = "asking" /\ UNCHANGED <<executed, selects>>
        /\ dialog' = [dialog EXCEPT !.open = FALSE, !.value = value]
    BY <1>2 DEF Close, At, serverVars
  <2>2. dialog'.open = FALSE
    BY <1>0, <2>1 DEF Dialogs
  <2>3. CASE value = "confirm"
    <3>1. /\ sends' = [sends EXCEPT ![n] = [at |-> "posted", payload |-> sends[n].payload, confirm |-> TRUE,
                                            asked |-> dialog.detail, by |-> button]]
          /\ canSend' = FALSE
      BY <1>2, <2>3 DEF Close, Post, ConfirmedPayload, ButtonWhileSending
    <3>2. sends[n].payload.env \in Production /\ dialog.detail = sends[n].payload.ep
      BY <2>1 DEF Asks, At
    <3>. QED  BY <1>a, <2>1, <2>2, <3>1, <3>2 DEF Posts, AsShown
  <2>4. CASE value # "confirm"
    <3>1. sends' = [sends EXCEPT ![n] = [at |-> "done"]] /\ canSend' = canSend
      BY <1>2, <2>4 DEF Close, Dismissed
    <3>. QED  BY <1>a, <2>1, <2>2, <3>1 DEF Dismisses, Became
  <2>. QED  BY <2>3, <2>4
<1>3. CASE ServerExecutes(n)
  <2>. DEFINE x == [send |-> n, env |-> sends[n].payload.env, ep |-> sends[n].payload.ep,
                    confirm |-> sends[n].confirm, asked |-> sends[n].asked, by |-> sends[n].by]
  <2>1. sends[n] \in Posted
    BY <1>0, <1>3 DEF ServerExecutes, SendStates
  <2>2. x \in Executions
    BY <2>1 DEF Posted, Payloads, Executions, Details, Buttons
  <2>3. AsShown(sends[n], sends[n].payload) => AsShown(x, x)
    BY DEF AsShown
  <2>4. executed' = Append(executed, x) /\ UNCHANGED <<dialog, canSend, selects>>
    BY <1>3 DEF ServerExecutes, pageVars, ghosts
  <2>5. \/ sends[n].at = "posted" /\ sends' = [sends EXCEPT ![n] = [at |-> "executed"]]
        \/ sends[n].at = "given up" /\ sends' = [sends EXCEPT ![n] = [at |-> "done"]]
    BY <1>3 DEF ServerExecutes, At
  <2>. HIDE DEF x
  <2>6. \A m \in Runs \ {n} : sends'[m] = sends[m]
    BY <1>a, <2>5
  <2>7. Became(n, "posted", "executed") \/ Became(n, "given up", "done")
    <3>1. CASE sends' = [sends EXCEPT ![n] = [at |-> "executed"]]
      BY <1>0, <2>5, <3>1 DEF Became
    <3>2. CASE sends' = [sends EXCEPT ![n] = [at |-> "done"]]
      BY <1>0, <2>5, <3>2 DEF Became
    <3>. QED  BY <2>5, <3>1, <3>2
  <2>. QED  BY <2>2, <2>3, <2>4, <2>6, <2>7 DEF Executes, SameUI
<1>4. CASE ShowResponse(n)
  <2>1. /\ sends[n].at = "executed" /\ sends' = [sends EXCEPT ![n] = [at |-> "listing"]]
        /\ UNCHANGED <<dialog, canSend, executed, selects>>
    BY <1>4 DEF ShowResponse, AfterResponse, At, serverVars, ghosts
  <2>. QED  BY <1>a, <2>1 DEF Advances, Became, SameUI
<1>5. CASE ServerLists(n)
  <2>1. /\ sends[n].at = "listing" /\ sends' = [sends EXCEPT ![n] = [at |-> "listed", list |-> Current]]
        /\ UNCHANGED <<dialog, canSend, executed, selects>>
    BY <1>5 DEF ServerLists, At, pageVars, serverVars, ghosts
  <2>. QED  BY <1>a, <2>1 DEF Advances, Became, SameUI
<1>6. CASE ShowList(n)
  <2>1. /\ sends[n].at = "listed" /\ sends' = [sends EXCEPT ![n] = [at |-> "done"]]
        /\ canSend' = TRUE /\ UNCHANGED <<dialog, executed, selects>>
    BY <1>6 DEF ShowList, At, serverVars, ghosts
  <2>. QED  BY <1>a, <2>1 DEF Ends
<1>7. CASE SendFails(n)
  <2>1. /\ sends[n].at \in {"posted", "executed", "listing", "listed"}
        /\ canSend' = TRUE /\ UNCHANGED <<dialog, executed, selects>>
    BY <1>7 DEF SendFails, ButtonAfterFailure, serverVars
  <2>2. CASE sends' = [sends EXCEPT ![n] = [at |-> "done"]]
    BY <1>a, <2>1, <2>2 DEF Ends
  <2>3. CASE sends[n].at = "posted" /\ sends' = [sends EXCEPT ![n].at = "given up"]
    <3>1. sends[n] \in Posted
      BY <1>0, <2>3 DEF SendStates
    <3>2. /\ sends'[n].at = "given up" /\ sends'[n].payload = sends[n].payload
          /\ sends'[n].confirm = sends[n].confirm /\ sends'[n].asked = sends[n].asked
      BY <1>0, <2>3, <3>1 DEF Posted
    <3>3. \A m \in Runs \ {n} : sends'[m] = sends[m]
      BY <1>0, <2>3
    <3>. QED  BY <2>1, <2>3, <3>2, <3>3 DEF Ends, Became, AsShown
  <2>. QED  BY <1>7, <2>2, <2>3 DEF SendFails, At
<1>. QED  BY <1>1, <1>2, <1>3, <1>4, <1>5, <1>6, <1>7
          DEF SendStep, SendProgress, ClickContinue, ClickCancel, PressEsc
-----------------------------------------------------------------------------
LEMMA AsksStep ==
  ASSUME Typed, Asks, NEW n \in Runs, SendStep(n)
  PROVE  Asks'
<1>1. \A m \in Runs \ {n} : sends'[m] = sends[m]
  BY SendEffects
<1>2. CASE Opens(n)
  BY <1>1, <1>2 DEF Asks, At, Opens, Became
<1>3. CASE Posts(n) \/ Dismisses(n)
  BY <1>1, <1>3 DEF Asks, At, Posts, Dismisses, Became
<1>4. CASE Executes(n) \/ Advances(n)
  BY <1>1, <1>4 DEF Asks, At, Executes, Advances, Became, SameUI
<1>5. CASE Ends(n)
  BY <1>1, <1>5 DEF Asks, At, Ends, Became
<1>. QED  BY SendEffects, <1>2, <1>3, <1>4, <1>5

LEMMA SentStep ==
  ASSUME Typed, Asks, Sent, NEW n \in Runs, SendStep(n)
  PROVE  Sent'
<1>1. \A m \in Runs \ {n} : sends'[m] = sends[m]
  BY SendEffects
<1>2. sends'[n].at \in {"posted", "given up"} => AsShown(sends'[n], sends'[n].payload)
  BY SendEffects DEF Sent, Opens, Posts, Dismisses, Executes, Advances, Ends, Became
<1>3. \A k \in DOMAIN executed' : AsShown(executed'[k], executed'[k])
  <2>1. CASE executed' = executed
    BY <2>1 DEF Sent
  <2>2. CASE Executes(n)
    <3>1. PICK x \in Executions : AsShown(x, x) /\ executed' = Append(executed, x)
      BY <2>2 DEF Executes, Became, Sent
    <3>2. executed \in Seq(Executions)
      BY DEF Typed, TypedServer
    <3>3. /\ executed' \in Seq(Executions) /\ Len(executed') = Len(executed) + 1
          /\ executed'[Len(executed) + 1] = x
          /\ \A k \in 1 .. Len(executed) : executed'[k] = executed[k]
      BY <3>1, <3>2, AppendProperties
    <3>4. DOMAIN executed' = 1 .. Len(executed) + 1 /\ DOMAIN executed = 1 .. Len(executed)
      BY <3>2, <3>3, LenProperties
    <3>5. \A k \in 1 .. Len(executed) : AsShown(executed[k], executed[k])
      BY <3>4 DEF Sent
    <3>6. Len(executed) \in Nat
      BY <3>2, LenProperties
    <3>7. ASSUME NEW k \in 1 .. Len(executed) + 1
          PROVE  AsShown(executed'[k], executed'[k])
      <4>1. CASE k \in 1 .. Len(executed)
        BY <3>3, <3>5, <4>1
      <4>2. CASE k = Len(executed) + 1
        BY <3>1, <3>3, <4>2
      <4>. QED  BY <3>6, <4>1, <4>2
    <3>. QED  BY <3>4, <3>7
  <2>. QED  BY SendEffects, <2>1, <2>2 DEF Opens, Posts, Dismisses, Advances, Ends
<1>. QED  BY <1>1, <1>2, <1>3 DEF Sent, AsShown

LEMMA BoundedStep ==
  ASSUME Typed, Asks, Bounded, NEW n \in Runs, SendStep(n)
  PROVE  Bounded'
<1>1. (\A m \in Runs \ {n} : sends'[m].at = sends[m].at) /\ selects' = selects
  BY SendEffects
<1>2. /\ Cardinality(UnderWay) \in Nat /\ Cardinality(UnderWay') \in Nat /\ selects \in Nat
      /\ canSend \in BOOLEAN /\ canSend' \in BOOLEAN
  BY <1>1, OneMore, TypedStep DEF Typed, TypedPage, TypedServer
<1>3. CASE Opens(n) \/ Dismisses(n) \/ Executes(n) \/ Advances(n)
  <2>1. (canSend' <=> canSend) /\ (n \in UnderWay' => n \in UnderWay)
    <3>1. canSend' <=> canSend
      BY <1>2, <1>3 DEF Opens, Dismisses, Executes, Advances, SameUI
    <3>2. \/ Became(n, "unused", "asking") \/ Became(n, "asking", "done")
          \/ Became(n, "posted", "executed") \/ Became(n, "given up", "done")
          \/ Became(n, "executed", "listing") \/ Became(n, "listing", "listed")
      BY <1>3 DEF Opens, Dismisses, Executes, Advances
    <3>. QED  BY <3>1, <3>2 DEF Became, UnderWay
  <2>2. Cardinality(UnderWay') <= Cardinality(UnderWay)
    BY <1>1, <1>2, <2>1, OneMore
  <2>. QED  BY <1>1, <1>2, <2>1, <2>2 DEF Bounded
<1>4. CASE Posts(n)
  <2>1. canSend /\ ~canSend' /\ n \notin UnderWay /\ n \in UnderWay'
    BY <1>4 DEF Posts, UnderWay, Asks
  <2>2. Cardinality(UnderWay') = Cardinality(UnderWay) + 1
    BY <1>1, <2>1, OneMore
  <2>. QED  BY <1>1, <1>2, <2>1, <2>2 DEF Bounded
<1>5. CASE Ends(n)
  <2>1. canSend' /\ n \in UnderWay /\ n \notin UnderWay'
    BY <1>5 DEF Ends, UnderWay, Became
  <2>2. Cardinality(UnderWay') = Cardinality(UnderWay) - 1
    BY <1>1, <2>1, OneMore
  <2>. QED  BY <1>1, <1>2, <2>1, <2>2 DEF Bounded
<1>. QED  BY SendEffects, <1>3, <1>4, <1>5
-----------------------------------------------------------------------------
\* While nothing failed or overlapped: one thing goes on at a time, and what is left
\* to do brings the page to where the server is.
Active(n) == sends[n].at \in {"posted", "executed", "listing", "listed"}
LastSend == IF executed = <<>> THEN None ELSE executed[Len(executed)].send
Serial ==
  ~disturbed =>
    /\ \A n \in Runs : ~At(n, "given up")
    /\ \A m, n \in Runs : Active(m) /\ Active(n) => m = n
    /\ \A n \in Runs : Active(n) => clearing.at = "no"
    /\ \A n \in Runs : At(n, "executed") => LastSend = n
    /\ (\A n \in Runs : ~At(n, "executed")) => response = LastSend
    /\ \A n \in Runs : At(n, "listed") => sends[n].list = Current
    /\ clearing.at = "listed" => clearing.list = Current
    /\ (\A n \in Runs : ~Active(n)) /\ clearing.at = "no" => shown = Current

LEMMA SerialInit == Init => Serial
<1>. SUFFICES ASSUME Init PROVE Serial
  OBVIOUS
<1>1. executed = <<>> /\ Len(executed) = 0 /\ floor = 0 /\ shown = List(0, 0) /\ response = None
      /\ clearing.at = "no"
  BY DEF Init
<1>2. \A n \in Runs : sends[n].at = "unused"
  BY DEF Init
<1>. QED  BY <1>1, <1>2 DEF Serial, At, Active, LastSend, Current

LEMMA SerialRest ==
  ASSUME Typed, Asks, Serial, Rest
  PROVE  Serial'
<1>1. UNCHANGED <<sends, executed, response>>
  BY DEF Rest, ChangeEnvironment, SelectEndpoint, Select, ClickHistory, Restore, RestoreFails, ClickClear,
         ServerClears, ServerListsCleared, ShowClearedList, ClearFails, Clearing, serverVars, ghosts
<1>2. /\ \A n \in Runs : /\ At(n, "given up")' <=> At(n, "given up")
                         /\ At(n, "executed")' <=> At(n, "executed")
                         /\ At(n, "listed")' <=> At(n, "listed")
                         /\ Active(n)' <=> Active(n)
      /\ LastSend' = LastSend
  BY <1>1 DEF At, Active, LastSend
<1>3. CASE UNCHANGED <<shown, clearing, floor, disturbed>>
  BY <1>1, <1>2, <1>3 DEF Serial, Current
<1>4. CASE ClickClear
  <2>1. ~disturbed' => ~disturbed /\ \A n \in Runs : ~Active(n)
    BY <1>4 DEF ClickClear, Quiet, Active
  <2>2. clearing'.at = "posted"
    BY <1>4 DEF ClickClear, Clearing
  <2>. QED  BY <1>1, <1>2, <2>1, <2>2 DEF Serial, At, Active
<1>5. CASE ServerClears
  <2>1. clearing.at = "posted" /\ clearing'.at = "listing" /\ disturbed' = disturbed
    BY <1>5 DEF ServerClears, Clearing
  <2>2. ~disturbed => \A n \in Runs : ~Active(n)
    BY <2>1 DEF Serial
  <2>. QED  BY <1>1, <1>2, <2>1, <2>2 DEF Serial, At, Active
<1>6. CASE ServerListsCleared
  <2>1. /\ clearing.at = "listing" /\ clearing'.at = "listed" /\ clearing'.list = Current
        /\ UNCHANGED <<floor, disturbed>>
    BY <1>6 DEF ServerListsCleared, Clearing
  <2>2. ~disturbed => \A n \in Runs : ~Active(n)
    BY <2>1 DEF Serial
  <2>. QED  BY <1>1, <1>2, <2>1, <2>2 DEF Serial, At, Active, Current
<1>7. CASE ShowClearedList
  <2>1. /\ clearing.at = "listed" /\ clearing'.at = "no" /\ shown' = clearing.list
        /\ UNCHANGED <<floor, disturbed>>
    BY <1>7 DEF ShowClearedList, Clearing
  <2>. QED  BY <1>1, <1>2, <2>1 DEF Serial, Current
<1>8. CASE ClearFails
  BY <1>8 DEF ClearFails, Serial
<1>. QED  BY <1>3, <1>4, <1>5, <1>6, <1>7, <1>8
          DEF Rest, ChangeEnvironment, SelectEndpoint, ClickHistory, Restore, RestoreFails, serverVars, ghosts

LEMMA SerialSend ==
  ASSUME Typed, Asks, Serial, NEW n \in Runs, SendStep(n)
  PROVE  Serial'
<1>1. \A m \in Runs \ {n} : sends'[m] = sends[m]
  BY SendEffects
<1>2. SUFFICES ASSUME ~disturbed' PROVE Serial'
  BY DEF Serial
<1>3. sends \in [Runs -> SendStates] /\ sends[n] \in SendStates
  BY DEF Typed
<1>a. ASSUME NEW state, sends' = [sends EXCEPT ![n] = state]
      PROVE  sends'[n] = state
  BY <1>3, <1>a
<1>4. ASSUME NEW payload, NEW confirm, NEW button, Post(n, payload, confirm, button),
             sends[n].at \in {"unused", "asking"},
             UNCHANGED <<clearing, response, shown, executed, floor>>
      PROVE  Serial'
  <2>1. /\ ~disturbed /\ clearing.at = "no"
        /\ \A m \in Runs \ {n} : sends[m].at \in {"unused", "done"}
    BY <1>2, <1>4 DEF Post
  <2>2. sends'[n].at = "posted"
    BY <1>3, <1>4 DEF Post
  <2>3. \A m \in Runs : ~At(m, "executed") /\ ~At(m, "executed")' /\ ~At(m, "given up")'
                        /\ ~At(m, "listed")' /\ (Active(m)' => m = n)
    BY <1>1, <1>4, <2>1, <2>2 DEF At, Active
  <2>4. response = LastSend /\ LastSend' = LastSend
    BY <1>4, <2>1, <2>3 DEF Serial, LastSend
  <2>5. Active(n)'
    BY <2>2 DEF Active
  <2>. QED  BY <1>4, <2>1, <2>3, <2>4, <2>5 DEF Serial
<1>5. ASSUME ~disturbed, UNCHANGED <<clearing, response, shown, executed, floor>>,
             Became(n, "unused", "asking") \/ Became(n, "asking", "done")
      PROVE  Serial'
  <2>1. \A m \in Runs : /\ At(m, "executed")' <=> At(m, "executed")
                        /\ At(m, "given up")' <=> At(m, "given up")
                        /\ At(m, "listed")' <=> At(m, "listed")
                        /\ Active(m)' <=> Active(m)
                        /\ At(m, "listed") => sends'[m] = sends[m]
    BY <1>1, <1>5 DEF Became, At, Active
  <2>2. LastSend' = LastSend /\ Current' = Current
    BY <1>5 DEF LastSend, Current
  <2>. QED  BY <1>5, <2>1, <2>2 DEF Serial
<1>6. CASE ClickSend(n)
  <2>1. UNCHANGED <<clearing, response, shown, executed, floor>> /\ sends[n].at = "unused"
    BY <1>6 DEF ClickSend, serverVars, At
  <2>2. CASE envId \in Production
    <3>1. /\ sends' = [sends EXCEPT ![n] = [at |-> "asking", payload |-> [env |-> envId, ep |-> endpoint]]]
          /\ disturbed' = disturbed
      BY <1>6, <2>2 DEF ClickSend
    <3>. QED  BY <1>2, <1>5, <1>a, <2>1, <3>1 DEF Became
  <2>3. CASE envId \notin Production
    <3>1. Post(n, [env |-> envId, ep |-> endpoint], FALSE, "none")
      BY <1>6, <2>3 DEF ClickSend
    <3>. QED  BY <1>4, <2>1, <3>1
  <2>. QED  BY <2>2, <2>3
<1>7. ASSUME NEW value, NEW button, Close(n, value, button)
      PROVE  Serial'
  <2>1. UNCHANGED <<clearing, response, shown, executed, floor>> /\ sends[n].at = "asking"
    BY <1>7 DEF Close, serverVars, At
  <2>2. CASE value = "confirm"
    <3>1. Post(n, ConfirmedPayload(n), TRUE, button)
      BY <1>7, <2>2 DEF Close
    <3>. QED  BY <1>4, <2>1, <3>1
  <2>3. CASE value # "confirm"
    <3>1. sends' = [sends EXCEPT ![n] = [at |-> "done"]] /\ disturbed' = disturbed
      BY <1>7, <2>3 DEF Close, Dismissed
    <3>. QED  BY <1>2, <1>5, <1>a, <2>1, <3>1 DEF Became
  <2>. QED  BY <2>2, <2>3
<1>8. ASSUME Active(n), disturbed' = disturbed
      PROVE  /\ ~disturbed /\ clearing.at = "no"
             /\ \A m \in Runs \ {n} : /\ ~Active(m) /\ ~Active(m)'
                                      /\ ~At(m, "executed")' /\ ~At(m, "given up")' /\ ~At(m, "listed")'
             /\ ~At(n, "executed") => response = LastSend
  BY <1>1, <1>2, <1>8 DEF Serial, Active, At
<1>9. CASE ServerExecutes(n)
  <2>1. /\ UNCHANGED <<response, clearing, floor, disturbed, shown>>
        /\ sends[n].at \in {"posted", "given up"}
    BY <1>9 DEF ServerExecutes, pageVars, ghosts
  <2>2. sends[n].at = "posted" /\ Active(n)
    BY <1>2, <2>1 DEF Serial, Active, At
  <2>3. sends'[n].at = "executed"
    BY <1>9, <1>a, <2>2 DEF ServerExecutes, At
  <2>4. LastSend' = n
    <3>. DEFINE x == [send |-> n, env |-> sends[n].payload.env, ep |-> sends[n].payload.ep,
                      confirm |-> sends[n].confirm, asked |-> sends[n].asked, by |-> sends[n].by]
    <3>1. executed' = Append(executed, x) /\ executed \in Seq(Executions)
      BY <1>9 DEF ServerExecutes, Typed, TypedServer
    <3>2. sends[n] \in Posted
      BY <1>3, <2>2 DEF SendStates
    <3>3. x \in Executions /\ x.send = n
      BY <3>2 DEF Posted, Payloads, Executions, Details, Buttons
    <3>. HIDE DEF x
    <3>4. executed' # <<>> /\ executed'[Len(executed')] = x
      BY <3>1, <3>3, AppendProperties
    <3>. QED  BY <3>3, <3>4 DEF LastSend
  <2>. QED  BY <1>8, <2>1, <2>2, <2>3, <2>4 DEF Serial, At, Active
<1>10. CASE ShowResponse(n)
  <2>1. /\ sends[n].at = "executed" /\ sends'[n].at = "listing" /\ response' = n
        /\ UNCHANGED <<shown, clearing, executed, floor, disturbed>>
    BY <1>10, <1>a DEF ShowResponse, AfterResponse, At, serverVars, ghosts
  <2>2. LastSend' = n /\ Active(n)
    BY <1>8, <2>1 DEF Serial, LastSend, At, Active
  <2>. QED  BY <1>8, <2>1, <2>2 DEF Serial, At, Active
<1>11. CASE ServerLists(n)
  <2>1. /\ sends[n].at = "listing" /\ sends'[n].at = "listed" /\ sends'[n].list = Current
        /\ UNCHANGED <<shown, clearing, executed, floor, disturbed, response>>
    BY <1>11, <1>a DEF ServerLists, At, pageVars, serverVars, ghosts
  <2>2. Current' = Current /\ LastSend' = LastSend
    BY <2>1 DEF Current, LastSend
  <2>. QED  BY <1>8, <2>1, <2>2 DEF Serial, At, Active
<1>12. CASE ShowList(n)
  <2>1. /\ sends[n].at = "listed" /\ sends'[n].at = "done" /\ shown' = sends[n].list
        /\ UNCHANGED <<clearing, executed, floor, disturbed, response>>
    BY <1>12, <1>a DEF ShowList, At, serverVars, ghosts
  <2>2. Current' = Current /\ LastSend' = LastSend /\ Active(n)
    BY <2>1 DEF Current, LastSend, Active
  <2>3. sends[n].list = Current
    BY <1>8, <2>1, <2>2 DEF Serial, At
  <2>. QED  BY <1>8, <2>1, <2>2, <2>3 DEF Serial, At, Active
<1>13. CASE SendFails(n)
  BY <1>2, <1>13 DEF SendFails
<1>. QED  BY <1>6, <1>7, <1>9, <1>10, <1>11, <1>12, <1>13
          DEF SendStep, SendProgress, ClickContinue, ClickCancel, PressEsc
-----------------------------------------------------------------------------
AllInv == Inv /\ Serial

LEMMA Invariance == Spec => []AllInv
<1>1. AllInv /\ [Next]_vars => AllInv'
  <2>. SUFFICES ASSUME AllInv, [Next]_vars PROVE AllInv'
    OBVIOUS
  <2>1. CASE UNCHANGED vars
    <3>1. UNCHANGED <<envId, endpoint, canSend, dialog, sends, restoring, clearing, response, shown,
                      executed, floor, selects, disturbed>>
      BY <2>1 DEF vars, pageVars, serverVars, ghosts
    <3>2. Typed'
      BY <3>1 DEF AllInv, Inv, Typed, TypedPage, TypedServer
    <3>3. Asks' /\ Sent'
      BY <3>1 DEF AllInv, Inv, Asks, Sent, At, AsShown
    <3>4. Bounded'
      BY <3>1 DEF AllInv, Inv, Bounded, UnderWay
    <3>5. Serial'
      BY <3>1 DEF AllInv, Serial, At, Active, LastSend, Current
    <3>. QED  BY <3>2, <3>3, <3>4, <3>5 DEF AllInv, Inv
  <2>2. CASE Rest
    <3>1. Typed'
      BY <2>2, TypedStep DEF AllInv, Inv
    <3>2. Asks'
      BY <2>2, RestEffects DEF AllInv, Inv, Asks, At
    <3>3. Sent'
      BY <2>2, RestEffects DEF AllInv, Inv, Sent, AsShown
    <3>4. Bounded'
      <4>1. UnderWay' = UnderWay
        BY <2>2, RestEffects DEF AllInv, Inv, UnderWay
      <4>2. Cardinality(UnderWay) \in Nat
        <5>1. IsFiniteSet(Runs)
          BY ExplorerAssumption, FS_Interval DEF Runs
        <5>2. UnderWay \subseteq Runs
          BY DEF UnderWay
        <5>. QED  BY <5>1, <5>2, FS_Subset, FS_CardinalityType
      <4>3. selects \in Nat /\ Bounded
        BY DEF AllInv, Inv, Typed, TypedServer
      <4>4. UNCHANGED <<canSend, selects>> \/ (canSend' = TRUE /\ selects' = selects + 1)
        BY <2>2, RestEffects DEF AllInv, Inv
      <4>. QED  BY <4>1, <4>2, <4>3, <4>4 DEF Bounded
    <3>5. Serial'
      BY <2>2, SerialRest DEF AllInv, Inv
    <3>. QED  BY <3>1, <3>2, <3>3, <3>4, <3>5 DEF AllInv, Inv
  <2>3. ASSUME NEW n \in Runs, SendStep(n)
        PROVE  AllInv'
    BY <2>3, TypedStep, AsksStep, SentStep, BoundedStep, SerialSend DEF AllInv, Inv
  <2>. QED  BY <2>1, <2>2, <2>3 DEF Next, User, Rest, SendStep
<1>2. Init => AllInv
  BY InitInv, SerialInit DEF AllInv
<1>. QED  BY <1>1, <1>2, PTL DEF Spec
-----------------------------------------------------------------------------
\* The page stays within its types, and the dialog is open for exactly one send.
THEOREM ExplorerTypeCorrect == Spec => []TypeOK
<1>1. AllInv => TypeOK
  <2>. SUFFICES ASSUME AllInv PROVE TypeOK
    OBVIOUS
  <2>1. Cardinality({n \in Runs : At(n, "asking")}) = IF dialog.open THEN 1 ELSE 0
    <3>. DEFINE Asking == {n \in Runs : At(n, "asking")}
    <3>1. CASE ~dialog.open
      <4>1. Asking = {}
        BY <3>1 DEF AllInv, Inv, Asks
      <4>. QED  BY <3>1, <4>1, FS_EmptySet
    <3>2. CASE dialog.open
      <4>1. PICK n \in Runs : At(n, "asking")
        BY <3>2 DEF AllInv, Inv, Asks
      <4>2. Asking = {n}
        BY <4>1 DEF AllInv, Inv, Asks
      <4>. QED  BY <3>2, <4>2, FS_Singleton
    <3>. QED  BY <3>1, <3>2
  <2>2. /\ envId \in Envs /\ endpoint \in Endpoints \cup {None} /\ canSend \in BOOLEAN
        /\ shown \in Lists /\ floor \in 0 .. Len(executed)
        /\ clearing \in [at : {"no", "posted", "listing", "listed"}, list : Lists]
    BY DEF AllInv, Inv, Typed, TypedPage, TypedServer, Details, Clearings
  <2>3. dialog \in [open : BOOLEAN, value : {"", "confirm", "cancel"}, detail : Endpoints \cup {None}]
    BY DEF AllInv, Inv, Typed, TypedPage, Dialogs, Values, Details
  <2>4. sends \in [Runs -> [at : {"unused", "executed", "listing", "done"}]
                           \cup [at : {"asking"}, payload : Payloads]
                           \cup Posted
                           \cup [at : {"listed"}, list : Lists]]
    BY DEF AllInv, Inv, Typed, SendStates
  <2>. QED  BY <2>1, <2>2, <2>3, <2>4 DEF TypeOK
<1>. QED  BY Invariance, <1>1, PTL

\* What is executed in production is confirmed and is what the dialog showed, though a
\* history item may have changed operation and environment behind it.
THEOREM SentAsShown == Spec => []ProductionSentAsShown
<1>1. AllInv => ProductionSentAsShown
  BY DEF AllInv, Inv, Sent, AsShown, ProductionSentAsShown
<1>. QED  BY Invariance, <1>1, PTL

\* The button and the sends under way never outnumber the selections.
THEOREM SendsAreBounded == Spec => []SendsBounded
<1>1. AllInv => SendsBounded
  BY DEF AllInv, Inv, Bounded, UnderWay, SendsBounded
<1>. QED  BY Invariance, <1>1, PTL

\* A page on which nothing failed or overlapped shows, once quiet, the last response
\* and the history the server holds.
THEOREM QuietIsCurrent == Spec => []QuietPageIsCurrent
<1>1. AllInv => QuietPageIsCurrent
  BY DEF AllInv, Serial, Quiet, QuietPageIsCurrent, Active, At, LastSend
<1>. QED  BY Invariance, <1>1, PTL
=============================================================================
