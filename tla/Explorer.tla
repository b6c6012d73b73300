------------------------------ MODULE Explorer ------------------------------
(***************************************************************************)
(* ui/app.js: the page.                                                    *)
(*                                                                         *)
(* JavaScript runs one callback at a time; between two awaits of a send, a *)
(* history restore or a clear, any click and any arriving answer may come. *)
(* sends[n] is the n-th run of sendRequest.  The server is external to the *)
(* page and modelled by what the page sees of it: it executes what is      *)
(* posted, in any order, numbers it, lists what was not cleared, and       *)
(* refuses an unconfirmed production request.  Any call may fail.          *)
(*                                                                         *)
(* A list that is shown is what the server held when it read it: the       *)
(* requests numbered above .from up to .to.                                *)
(***************************************************************************)
EXTENDS Integers, Sequences, FiniteSets

CONSTANTS Envs,        \* ids of the configured environments
          Production,  \* those with production: true
          DefaultEnv,  \* what /api/environments names as the default
          Endpoints,   \* the operations of the catalog
          None,        \* null
          MaxSends,    \* bound: runs of sendRequest
          MaxSelects,  \* bound: endpoint selections
          MaxFetches   \* bound: history clicks that wait for their item at once

ASSUME ExplorerAssumption == /\ Production \subseteq Envs
                             /\ DefaultEnv \in Envs
                             /\ None \notin Endpoints
                             /\ MaxSends \in Nat /\ MaxSelects \in Nat

VARIABLES envId,     \* state.envId
          endpoint,  \* state.endpoint
          canSend,   \* btn-send is not disabled
          dialog,    \* the production dialog: [open, value, detail]
          sends,     \* the runs of sendRequest
          restoring, \* the items of the history clicks that are not answered yet
          clearing,  \* where the click on Clear is: [at, list]
          response,  \* state.lastResponse: the send it is of, or "error"
          shown,     \* the history list on the page
          executed,  \* external: the executions, in the order of their ids
          floor,     \* external: the last id that was cleared
          selects,   \* auxiliary: how often an endpoint was selected
          disturbed  \* auxiliary: some call failed, or two actions overlapped

pageVars == <<envId, endpoint, canSend, dialog, restoring, response, shown>>
serverVars == <<executed, floor>>
ghosts == <<selects, disturbed>>
vars == <<pageVars, sends, clearing, serverVars, ghosts>>

Payloads == [env : Envs, ep : Endpoints]
List(from, to) == [from |-> from, to |-> to]
Current == List(floor, Len(executed))
Error == 0    \* the response of a call that failed is of no send
Runs == 1 .. MaxSends
Fetches == 1 .. MaxFetches

At(n, where) == sends[n].at = where
Quiet == /\ \A n \in Runs : sends[n].at \in {"unused", "given up", "done"}
         /\ clearing.at = "no"
         /\ ~dialog.open

Init == /\ envId = DefaultEnv
        /\ endpoint = None
        /\ canSend = FALSE
        /\ dialog = [open |-> FALSE, value |-> "", detail |-> None]
        /\ sends = [n \in Runs |-> [at |-> "unused"]]
        /\ restoring = [f \in Fetches |-> None]
        /\ clearing = [at |-> "no", list |-> List(0, 0)]
        /\ response = None
        /\ shown = List(0, 0)
        /\ executed = <<>>
        /\ floor = 0
        /\ selects = 0
        /\ disturbed = FALSE
-----------------------------------------------------------------------------
\* Clicks outside the production dialog, which is modal.

Select(ep) == /\ selects < MaxSelects
              /\ endpoint' = ep
              /\ canSend' = TRUE
              /\ selects' = selects + 1

SelectEndpoint(ep) ==
  /\ ~dialog.open
  /\ Select(ep)
  /\ UNCHANGED <<envId, dialog, sends, restoring, clearing, response, shown,
                 serverVars, disturbed>>

ChangeEnvironment(e) ==
  /\ ~dialog.open
  /\ envId' = e
  /\ UNCHANGED <<endpoint, canSend, dialog, sends, restoring, clearing, response,
                 shown, serverVars, ghosts>>

\* A click on an entry of the list asks the server for the item, while it may be
\* asked for others.  The bound on selections bounds the clicks, too.
ClickHistory(id, f) ==
  /\ ~dialog.open
  /\ selects < MaxSelects
  /\ restoring[f] = None /\ \A g \in 1 .. f - 1 : restoring[g] # None
  /\ id \in shown.from + 1 .. shown.to
  /\ restoring' = [restoring EXCEPT ![f] = [env |-> executed[id].env,
                                           ep |-> executed[id].ep, id |-> id]]
  /\ UNCHANGED <<envId, endpoint, canSend, dialog, sends, clearing, response,
                 shown, serverVars, ghosts>>

\* The item is there: its operation and its environment are selected, whatever
\* is going on by then.
Restore(f) ==
  /\ restoring[f] # None
  /\ restoring[f].id > floor
  /\ Select(restoring[f].ep)
  /\ envId' = restoring[f].env
  /\ restoring' = [restoring EXCEPT ![f] = None]
  /\ UNCHANGED <<dialog, sends, clearing, response, shown, serverVars, disturbed>>

\* It was cleared away, or the call failed: the click has no effect.
RestoreFails(f) ==
  /\ restoring[f] # None
  /\ restoring' = [restoring EXCEPT ![f] = None]
  /\ UNCHANGED <<envId, endpoint, canSend, dialog, sends, clearing, response,
                 shown, serverVars, ghosts>>
-----------------------------------------------------------------------------
\* sendRequest

Post(n, payload, confirm, button) ==
  /\ sends' = [sends EXCEPT ![n] = [at |-> "posted", payload |-> payload,
                                    confirm |-> confirm, asked |-> dialog.detail,
                                    by |-> button]]
  /\ disturbed' = (disturbed \/ clearing.at # "no"
                     \/ \E m \in Runs \ {n} : sends[m].at \notin {"unused", "done"})

\* btn-send between a post and the end of the send, and after a failure.
ButtonStays == canSend
ButtonWhileSending == FALSE
ButtonAfterFailure == TRUE

\* The payload is collected, and for a production environment the dialog opens
\* on it; else the request is posted in the same turn.
ClickSend(n) ==
  LET payload == [env |-> envId, ep |-> endpoint] IN
  /\ ~dialog.open /\ canSend /\ endpoint # None
  /\ At(n, "unused") /\ \A m \in 1 .. n - 1 : ~At(m, "unused")
  /\ IF envId \in Production
       THEN /\ dialog' = [dialog EXCEPT !.open = TRUE, !.detail = payload.ep]
            /\ sends' = [sends EXCEPT ![n] = [at |-> "asking", payload |-> payload]]
            /\ UNCHANGED <<canSend, disturbed>>
       ELSE /\ Post(n, payload, FALSE, "none")
            /\ canSend' = ButtonWhileSending
            /\ dialog' = dialog
  /\ UNCHANGED <<envId, endpoint, restoring, clearing, response, shown,
                 serverVars, selects>>

\* The dialog closes with a return value, and the promise goes by that value.
ConfirmedPayloadNow(n) == [env |-> envId, ep |-> endpoint]
ConfirmedPayload(n) == sends[n].payload
DismissedNever(n) == sends[n]
Dismissed(n) == [at |-> "done"]

Close(n, value, button) ==
  /\ dialog.open /\ At(n, "asking")
  /\ dialog' = [dialog EXCEPT !.open = FALSE, !.value = value]
  /\ IF value = "confirm"
       THEN Post(n, ConfirmedPayload(n), TRUE, button) /\ canSend' = ButtonWhileSending
       ELSE /\ sends' = [sends EXCEPT ![n] = Dismissed(n)]
            /\ UNCHANGED <<canSend, disturbed>>
  /\ UNCHANGED <<envId, endpoint, restoring, clearing, response, shown,
                 serverVars, selects>>

\* A button sets the return value; Esc closes the dialog and leaves the value
\* as it was, which the page never resets.
ClickContinue(n) == Close(n, "confirm", "continue")
ClickCancel(n) == Close(n, "cancel", "cancel")
PressEsc(n) == Close(n, dialog.value, "esc")

\* External: the server executes what was posted, also when the page has given
\* up on the call by then, and adds it to its history.
ServerExecutes(n) ==
  /\ sends[n].at \in {"posted", "given up"}
  /\ executed' = Append(executed, [send |-> n, env |-> sends[n].payload.env,
                                   ep |-> sends[n].payload.ep,
                                   confirm |-> sends[n].confirm,
                                   asked |-> sends[n].asked, by |-> sends[n].by])
  /\ sends' = [sends EXCEPT ![n] = [at |-> IF At(n, "posted") THEN "executed" ELSE "done"]]
  /\ UNCHANGED <<pageVars, clearing, floor, ghosts>>

\* The answer arrives: it is shown, and the list is asked for.
AfterResponseDone == [at |-> "done"]
AfterResponse == [at |-> "listing"]
ShowResponse(n) ==
  /\ At(n, "executed")
  /\ response' = n
  /\ sends' = [sends EXCEPT ![n] = AfterResponse]
  /\ UNCHANGED <<envId, endpoint, canSend, dialog, restoring, shown, clearing,
                 serverVars, ghosts>>

\* External: the server reads its history for the send.
ServerLists(n) ==
  /\ At(n, "listing")
  /\ sends' = [sends EXCEPT ![n] = [at |-> "listed", list |-> Current]]
  /\ UNCHANGED <<pageVars, clearing, serverVars, ghosts>>

ShowList(n) ==
  /\ At(n, "listed")
  /\ shown' = sends[n].list
  /\ canSend' = TRUE
  /\ sends' = [sends EXCEPT ![n] = [at |-> "done"]]
  /\ UNCHANGED <<envId, endpoint, dialog, restoring, response, clearing,
                 serverVars, ghosts>>

\* A call of the send fails, the one for the list included: the error is shown
\* in place of the response, and the button comes back.  What was posted may
\* have reached the server all the same.
SendFails(n) ==
  /\ sends[n].at \in {"posted", "executed", "listing", "listed"}
  /\ response' = Error
  /\ canSend' = ButtonAfterFailure
  /\ \/ sends' = [sends EXCEPT ![n] = [at |-> "done"]]
     \/ At(n, "posted") /\ sends' = [sends EXCEPT ![n].at = "given up"]
  /\ disturbed' = TRUE
  /\ UNCHANGED <<envId, endpoint, dialog, restoring, shown, clearing,
                 serverVars, selects>>
-----------------------------------------------------------------------------
\* The click on Clear, one at a time: clear, then load the list.

Clearing(where, list) ==
  /\ clearing' = [at |-> where, list |-> list]
  /\ UNCHANGED <<envId, endpoint, canSend, dialog, restoring, response, sends,
                 executed, selects>>

ClickClear ==
  /\ ~dialog.open
  /\ clearing.at = "no"
  /\ Clearing("posted", List(0, 0))
  /\ disturbed' = (disturbed \/ ~Quiet)
  /\ UNCHANGED <<shown, floor>>

ServerClears ==
  /\ clearing.at = "posted"
  /\ Clearing("listing", List(0, 0))
  /\ floor' = Len(executed)
  /\ UNCHANGED <<shown, disturbed>>

ServerListsCleared ==
  /\ clearing.at = "listing"
  /\ Clearing("listed", Current)
  /\ UNCHANGED <<shown, floor, disturbed>>

ShowClearedList ==
  /\ clearing.at = "listed"
  /\ Clearing("no", List(0, 0))
  /\ shown' = clearing.list
  /\ UNCHANGED <<floor, disturbed>>

ClearFails ==
  /\ clearing.at # "no"
  /\ Clearing("no", List(0, 0))
  /\ disturbed' = TRUE
  /\ UNCHANGED <<shown, floor>>
-----------------------------------------------------------------------------
User == \/ \E ep \in Endpoints : SelectEndpoint(ep)
        \/ \E e \in Envs : ChangeEnvironment(e)
        \/ \E id \in DOMAIN executed, f \in Fetches : ClickHistory(id, f)
        \/ \E n \in Runs : \/ ClickSend(n) \/ ClickContinue(n)
                           \/ ClickCancel(n) \/ PressEsc(n)
        \/ ClickClear

\* The calls of a send make progress or fail.
SendProgress(n) == \/ ServerExecutes(n) \/ ShowResponse(n) \/ ServerLists(n)
                   \/ ShowList(n) \/ SendFails(n)

Next == \/ User
        \/ \E n \in Runs : SendProgress(n)
        \/ \E f \in Fetches : Restore(f) \/ RestoreFails(f)
        \/ ServerClears \/ ServerListsCleared \/ ShowClearedList \/ ClearFails

Spec == Init /\ [][Next]_vars

\* Every call to the server ends, with an answer (the server answers everything
\* it accepts) or with a failure; what the user does is not forced.
FairSpec == Spec /\ \A n \in Runs : WF_vars(SendProgress(n))
-----------------------------------------------------------------------------
Lists == [from : Nat, to : Nat]
Posted == [at : {"posted", "given up"}, payload : Payloads, confirm : BOOLEAN,
           asked : Endpoints \cup {None}, by : {"none", "continue", "cancel", "esc"}]

\* The variables stay within their types, and the dialog is open for exactly the
\* one send that waits for it.
TypeOK ==
  /\ envId \in Envs
  /\ endpoint \in Endpoints \cup {None}
  /\ canSend \in BOOLEAN
  /\ dialog \in [open : BOOLEAN, value : {"", "confirm", "cancel"},
                 detail : Endpoints \cup {None}]
  /\ sends \in [Runs -> [at : {"unused", "executed", "listing", "done"}]
                        \cup [at : {"asking"}, payload : Payloads]
                        \cup Posted
                        \cup [at : {"listed"}, list : Lists]]
  /\ clearing \in [at : {"no", "posted", "listing", "listed"}, list : Lists]
  /\ shown \in Lists
  /\ floor \in 0 .. Len(executed)
  /\ Cardinality({n \in Runs : At(n, "asking")}) = IF dialog.open THEN 1 ELSE 0

\* What is executed in production carries the confirmation, so that the server
\* never refuses the page, nothing else carries it, and the operation executed
\* is the one the dialog showed: a history item that is restored while the
\* dialog is open does not change what is about to be sent.
ProductionSentAsShown ==
  \A k \in DOMAIN executed :
    /\ executed[k].confirm <=> executed[k].env \in Production
    /\ executed[k].confirm => executed[k].asked = executed[k].ep

\* Sends overlap only as far as the user selected endpoints meanwhile: the
\* button gives out one send per selection, and gets it back when one ends.
SendsBounded ==
  Cardinality({n \in Runs : sends[n].at \notin {"unused", "asking", "given up", "done"}})
    + (IF canSend THEN 1 ELSE 0) <= selects

\* When every call is over, none failed and no two actions of the user ever
\* overlapped, the page shows the response of the last execution and the list
\* as the server has it.
QuietPageIsCurrent ==
  Quiet /\ ~disturbed =>
    /\ shown = Current
    /\ response = IF executed = <<>> THEN None
                                     ELSE executed[Len(executed)].send

\* A send never leaves the page without its button, whatever call fails.
SendButtonComesBack == endpoint # None /\ ~canSend ~> canSend

\* README, "Environments": a production environment requires an explicit
\* confirmation in the UI.  Every execution there followed a click on Continue.
ProductionExplicitlyConfirmed ==
  \A k \in DOMAIN executed :
    executed[k].env \in Production => executed[k].by = "continue"
=============================================================================
