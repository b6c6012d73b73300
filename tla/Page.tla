-------------------------------- MODULE Page --------------------------------
(***************************************************************************)
(* ui/app.js: the form of the page, the history it is restored from, and   *)
(* the server that keeps the history (History) and may be restarted under  *)
(* the open page.  Other pages add to the history and clear it too.        *)
(*                                                                         *)
(* How sends overlap and the production dialog are Explorer's: here one    *)
(* send at a time is on its way.  What the auth panel holds is open.  A    *)
(* list is shown in the step in which the server reads it; it may be as    *)
(* old as one likes by the time something in it is clicked.                *)
(*                                                                         *)
(* A text of the JSON editor is a record that says where it comes from.    *)
(* A header is read from the form under the name the document gives it,    *)
(* and from the history under its canonical name.                          *)
(***************************************************************************)
EXTENDS Executor, Sequences

CONSTANTS Envs, DefaultEnv,
          Operations,    \* by id: [method, params, body], the catalog of the page
          Unlisted,      \* operations it does not have: the server's may be another
          Values,        \* what is typed into a field of the form
          Canonical,     \* the canonical name of each header name
          Sensitive,     \* the canonical names MaskHeaders masks
          Foreign,       \* what other pages add to the history
          NoRecord, NoOperation,
          MaxSize,       \* capacity of the history
          MaxClicks,     \* bound: what the user does
          MaxFetches,    \* bound: clicks on entries that wait for their answer at once
          MaxAdds,       \* bound: requests since the server was started
          MaxBoots       \* bound: starts of the server

VARIABLES envId, endpoint, bodyMode,
          params,     \* the values in #params, by [in, name]
          form,       \* the values in #body-form, by key
          json,       \* the text in #body-json
          posted,     \* the payload of the send that is on its way, if any
          listing,    \* whether the list was asked for
          shown,      \* the list on the page, and the start of the server it is of
          restoring,  \* the entries that were clicked and are not answered yet
          boots,      \* external: starts of the server
          items, nextID, journal, floor,   \* the server's history
          restored,   \* auxiliary: the last restore, while the form is untouched
          clicks      \* auxiliary: what the user has done so far

formVars == <<envId, endpoint, bodyMode, params, form, json>>
historyVars == <<items, nextID, journal, floor>>
serverVars == <<boots, historyVars>>
pageVars == <<formVars, posted, listing, shown, restoring, restored>>
vars == <<pageVars, serverVars, clicks>>

NoValue == ""
MaskText == "********"
JSONType == "application/json"
NoText == [from |-> "nowhere"]
Broken == [from |-> "editor", valid |-> FALSE]
Typed == [from |-> "editor", valid |-> TRUE]
Example(ep) == [from |-> "example", of |-> ep]
Built(fields) == [from |-> "form", fields |-> fields]

\* What is there, without what is empty.
Filled(map) == [k \in {n \in DOMAIN map : map[n] # NoValue} |-> map[k]]
Names == DOMAIN Canonical \cup {Canonical[n] : n \in DOMAIN Canonical}
Kept == Values \cup {MaskText, JSONType}
Maps(names) == UNION {[S -> Kept] : S \in SUBSET names}
Fetches == 1 .. MaxFetches
ParamNames == UNION {{p.name : p \in Operations[ep].params} : ep \in DOMAIN Operations}
FieldNames == UNION {UNION {f : f \in {Operations[ep].body[i] : i \in DOMAIN Operations[ep].body}} :
                       ep \in DOMAIN Operations}
Texts == {NoText, Broken, Typed} \cup {Example(ep) : ep \in DOMAIN Operations}
           \cup {Built(fields) : fields \in Maps(FieldNames)}

\* What can be sent is of the form of its operation.
NamesIn(ep, place) == {p.name : p \in {q \in Operations[ep].params : q.in = place}}
Payloads ==
  {p \in [env : Envs, ep : DOMAIN Operations, path : Maps(ParamNames),
          query : Maps(ParamNames), headers : Maps(Names), body : Texts] :
     /\ DOMAIN p.path \subseteq NamesIn(p.ep, "path")
     /\ DOMAIN p.query \subseteq NamesIn(p.ep, "query")
     /\ p.body # NoText => Operations[p.ep].body # <<>>}
Records == Payloads \cup [env : Envs, ep : Unlisted, path : Maps(ParamNames),
                          query : Maps(ParamNames), headers : Maps(Names), body : Texts]

ASSUME PageAssumption ==
  /\ DefaultEnv \in Envs
  /\ NoOperation \notin DOMAIN Operations
  /\ Unlisted \cap DOMAIN Operations = {}
  /\ NoValue \notin Values
  /\ \A ep \in DOMAIN Operations :
       /\ Operations[ep].params \subseteq [in : STRING, name : STRING]
       /\ \A p \in Operations[ep].params : p.in = "header" => p.name \in DOMAIN Canonical
       /\ Operations[ep].body \in Seq(SUBSET STRING)
  /\ {"Authorization", "Content-Type"} \subseteq DOMAIN Canonical
  /\ \A n \in {"Authorization", "Content-Type"} : Canonical[n] = n
  /\ "Authorization" \in Sensitive
  /\ Foreign \subseteq Records
  /\ MaxSize \in Int

H == INSTANCE History
-----------------------------------------------------------------------------
\* renderParams and renderBody: what selectEndpoint leaves in the form.
BlankNever(ep) == params
Blank(ep) == [p \in Operations[ep].params |-> NoValue]
Fields(ep) == IF Operations[ep].body = <<>> THEN {} ELSE Operations[ep].body[1]
BlankForm(ep) == [f \in Fields(ep) |-> NoValue]
FirstText(ep) == IF Operations[ep].body = <<>> THEN NoText ELSE Example(ep)
ModeFor(ep, mode) ==
  IF Operations[ep].body # <<>> /\ Fields(ep) = {} THEN "json" ELSE mode

Init == /\ envId = DefaultEnv
        /\ endpoint = NoOperation
        /\ bodyMode = "form"
        /\ params = <<>> /\ form = <<>> /\ json = NoText
        /\ posted = <<>>
        /\ listing = TRUE
        /\ shown = [list |-> <<>>, boot |-> 1]
        /\ restoring = [f \in Fetches |-> <<>>]
        /\ boots = 1
        /\ H!Init
        /\ restored = <<>>
        /\ clicks = 0

Click == /\ clicks < MaxClicks
         /\ clicks' = clicks + 1
Touch == /\ Click
         /\ restored' = <<>>
         /\ UNCHANGED <<posted, listing, shown, restoring, serverVars>>

SelectEndpoint(ep) ==
  /\ Touch
  /\ endpoint' = ep
  /\ params' = Blank(ep)
  /\ form' = BlankForm(ep)
  /\ json' = FirstText(ep)
  /\ bodyMode' = ModeFor(ep, bodyMode)
  /\ envId' = envId

ChangeEnvironment(e) ==
  /\ Touch
  /\ envId' = e
  /\ UNCHANGED <<endpoint, bodyMode, params, form, json>>

\* Typing, all that is typed before the next click.
EnterParams(values) ==
  /\ Touch
  /\ params' = values
  /\ UNCHANGED <<envId, endpoint, bodyMode, form, json>>
EnterForm(values) ==
  /\ bodyMode = "form" /\ Touch
  /\ form' = values
  /\ UNCHANGED <<envId, endpoint, bodyMode, params, json>>
EnterJSON(text) ==
  /\ bodyMode = "json" /\ Touch
  /\ json' = text
  /\ UNCHANGED <<envId, endpoint, bodyMode, params, form>>

\* bodyFromForm: of an empty form, what the editor holds.
FromForm == IF DOMAIN Filled(form) = {} THEN json ELSE Built(Filled(form))

\* From the form to the editor its text goes along; nothing does the other way.
SwitchBlindly(mode) ==
  /\ Touch
  /\ bodyMode' = mode
  /\ UNCHANGED <<envId, endpoint, params, form, json>>
SwitchMode(mode) ==
  /\ Touch
  /\ bodyMode' = mode
  /\ json' = IF bodyMode = "form" /\ mode = "json" /\ FromForm # NoText THEN FromForm ELSE json
  /\ UNCHANGED <<envId, endpoint, params, form>>
-----------------------------------------------------------------------------
\* collectRequest, without the auth panel.  What is neither in the path, the query
\* nor a header is not collected.
In(place) == LET typed == Filled(params)
                 names == {p.name : p \in {q \in DOMAIN typed : q.in = place}}
             IN  [n \in names |-> typed[[in |-> place, name |-> n]]]
Body == IF Operations[endpoint].body = <<>> THEN NoText
        ELSE IF bodyMode = "form" THEN FromForm ELSE json
Collected == [env |-> envId, ep |-> endpoint, path |-> In("path"), query |-> In("query"),
              headers |-> In("header"), body |-> Body]

ClickSend ==
  /\ Click
  /\ endpoint # NoOperation /\ posted = <<>>
  /\ ~(bodyMode = "json" /\ json = Broken)
  /\ posted' = <<Collected>>
  /\ UNCHANGED <<formVars, listing, shown, restoring, restored, serverVars>>

\* out.RequestMasked: the headers as they were set, under their canonical names,
\* Authorization as the auth mode left it, and the content type of a body that is
\* sent where none is given; none when no request could be built.
Bodyless == {"GET", "HEAD"}
HasBody(p) == p.body # NoText /\ Operations[p.ep].method \notin Bodyless
MaskedHeaders(p, auth) ==
  LET given == {Canonical[n] : n \in DOMAIN p.headers} \ {"Authorization"}
      own(n) == p.headers[CHOOSE m \in DOMAIN p.headers : Canonical[m] = n]
      set == given \cup IF auth = Absent THEN {} ELSE {"Authorization"}
  IN  [n \in set \cup IF HasBody(p) THEN {"Content-Type"} ELSE {} |->
         CASE n \in Sensitive -> MaskText
           [] n \in given \ Sensitive -> own(n)
           [] OTHER -> JSONType]

AuthOf(headers, mode, custom, jwt) ==
  Authorization([mode |-> mode, custom |-> custom,
                 header |-> "Authorization" \in {Canonical[n] : n \in DOMAIN headers}], jwt)

\* handleExecute: executed and recorded.  The answer may be lost; if it is not,
\* the page asks for the list.
ServerExecutes(mode, custom, jwt, built) ==
  /\ posted # <<>> /\ Len(journal) < MaxAdds
  /\ LET auth == AuthOf(posted[1].headers, mode, custom, jwt)
     IN  H!Add([posted[1] EXCEPT !.headers =
                  IF built THEN MaskedHeaders(posted[1], auth) ELSE <<>>])
  /\ posted' = <<>>
  /\ \/ listing' = TRUE
     \/ listing' = listing
  /\ UNCHANGED <<formVars, shown, restoring, restored, boots, clicks>>
SendFails ==
  /\ posted # <<>>
  /\ posted' = <<>>
  /\ UNCHANGED <<formVars, listing, shown, restoring, restored, serverVars, clicks>>

ServerLists ==
  /\ listing
  /\ shown' = [list |-> H!List, boot |-> boots]
  /\ listing' = FALSE
  /\ UNCHANGED <<formVars, posted, restoring, restored, serverVars, clicks>>
ListFails ==
  /\ listing
  /\ listing' = FALSE
  /\ UNCHANGED <<formVars, posted, shown, restoring, restored, serverVars, clicks>>

\* The click on Clear: clear, then load the list.
ClickClear ==
  /\ Click
  /\ H!Clear
  /\ listing' = TRUE
  /\ UNCHANGED <<formVars, posted, shown, restoring, restored, boots>>
-----------------------------------------------------------------------------
\* An entry is fetched before it is restored; others may be clicked meanwhile.
ClickHistory(k, f) ==
  /\ Click
  /\ restoring[f] = <<>> /\ \A g \in 1 .. f - 1 : restoring[g] # <<>>
  /\ restoring' = [restoring EXCEPT ![f] = <<[item |-> shown.list[k], boot |-> shown.boot]>>]
  /\ UNCHANGED <<formVars, posted, listing, shown, restored, serverVars>>

\* restoreHistory: a parameter that is neither in the path nor in the query is
\* looked up among the recorded headers.  Without a body the example stays.
BagOfQuery(rec, place) == IF place = "path" THEN rec.path ELSE rec.query
Bag(rec, place) == CASE place = "path"  -> rec.path
                     [] place = "query" -> rec.query
                     [] OTHER           -> rec.headers
Recalled(rec, fields) ==
  [p \in fields |-> IF p.name \in DOMAIN Bag(rec, p.in) THEN Bag(rec, p.in)[p.name] ELSE NoValue]

\* The operation is selected, unless the catalog does not have it: the one that
\* is selected then stays, and its fields are given what was recorded.
RestoreEndpoint(rec) ==
  IF rec.ep \in DOMAIN Operations
    THEN /\ endpoint' = rec.ep
         /\ params' = Recalled(rec, DOMAIN Blank(rec.ep))
         /\ form' = BlankForm(rec.ep)
         /\ json' = IF rec.body = NoText THEN FirstText(rec.ep) ELSE rec.body
         /\ bodyMode' = IF rec.body = NoText THEN ModeFor(rec.ep, bodyMode) ELSE "json"
    ELSE /\ params' = Recalled(rec, DOMAIN params)
         /\ json' = IF rec.body = NoText THEN json ELSE rec.body
         /\ bodyMode' = IF rec.body = NoText THEN bodyMode ELSE "json"
         /\ UNCHANGED <<endpoint, form>>

Restore(f) ==
  /\ restoring[f] # <<>>
  /\ LET found == H!Get(restoring[f][1].item.id)
     IN  /\ found.ok
         /\ envId' = found.item.rec.env
         /\ RestoreEndpoint(found.item.rec)
         /\ restored' = <<[clicked |-> restoring[f][1], got |-> found.item, boot |-> boots]>>
  /\ restoring' = [restoring EXCEPT ![f] = <<>>]
  /\ UNCHANGED <<posted, listing, shown, serverVars, clicks>>

\* It is no longer there, or the call fails: the click has no effect.
RestoreFails(f) ==
  /\ restoring[f] # <<>>
  /\ restoring' = [restoring EXCEPT ![f] = <<>>]
  /\ UNCHANGED <<formVars, posted, listing, shown, restored, serverVars, clicks>>
-----------------------------------------------------------------------------
\* External: other pages, and a server that is started again with nothing in it.
OthersAdd(rec) ==
  /\ Len(journal) < MaxAdds
  /\ H!Add(rec)
  /\ UNCHANGED <<pageVars, boots, clicks>>
OthersClear ==
  /\ floor # Len(journal)
  /\ H!Clear
  /\ UNCHANGED <<pageVars, boots, clicks>>
Restart ==
  /\ boots < MaxBoots
  /\ boots' = boots + 1
  /\ items' = <<>> /\ nextID' = 1 /\ journal' = <<>> /\ floor' = 0
  /\ UNCHANGED <<pageVars, clicks>>

\* The page is loaded again.
Reload ==
  /\ Click
  /\ envId' = DefaultEnv /\ endpoint' = NoOperation /\ bodyMode' = "form"
  /\ params' = <<>> /\ form' = <<>> /\ json' = NoText
  /\ listing' = TRUE
  /\ shown' = [list |-> <<>>, boot |-> boots]
  /\ restoring' = [f \in Fetches |-> <<>>]
  /\ restored' = <<>>
  /\ UNCHANGED <<posted, serverVars>>
-----------------------------------------------------------------------------
Typing == \/ \E values \in [DOMAIN params -> Values \cup {NoValue}] : EnterParams(values)
          \/ \E values \in [DOMAIN form -> Values \cup {NoValue}] : EnterForm(values)
          \/ \E text \in {NoText, Typed, Broken} : EnterJSON(text)

User == \/ \E ep \in DOMAIN Operations : SelectEndpoint(ep)
        \/ \E e \in Envs \ {envId} : ChangeEnvironment(e)
        \/ endpoint # NoOperation /\ Typing
        \/ \E mode \in {"form", "json"} : SwitchMode(mode)
        \/ ClickSend \/ ClickClear \/ Reload
        \/ \E k \in DOMAIN shown.list : (\E f \in Fetches : ClickHistory(k, f))

Next == \/ User
        \/ \E mode \in {"jwt", "none", "custom"}, custom \in BOOLEAN,
              jwt \in {Absent, Value("jwt")}, built \in BOOLEAN :
             ServerExecutes(mode, custom, jwt, built)
        \/ SendFails \/ ServerLists \/ ListFails
        \/ \E f \in Fetches : Restore(f) \/ RestoreFails(f)
        \/ \E rec \in Foreign : OthersAdd(rec)
        \/ OthersClear \/ Restart

Spec == Init /\ [][Next]_vars
-----------------------------------------------------------------------------
\* The form has exactly the fields of the selected operation, and what is on its
\* way, listed or clicked is of its type.
TypeOK ==
  /\ envId \in Envs
  /\ endpoint \in DOMAIN Operations \cup {NoOperation}
  /\ bodyMode \in {"form", "json"}
  /\ LET known == endpoint # NoOperation IN
     /\ params \in [IF known THEN Operations[endpoint].params ELSE {}
                      -> Kept \cup {NoValue}]
     /\ form \in [IF known THEN Fields(endpoint) ELSE {} -> Values \cup {NoValue}]
  /\ json \in Texts
  /\ \A i \in DOMAIN posted : posted[i] \in Payloads
  /\ \A i \in DOMAIN shown.list : shown.list[i] \in H!Items
  /\ shown.boot \in 1 .. boots
  /\ \A i \in DOMAIN items : items[i] \in H!Items

\* A click on an entry restores the request the entry showed, or nothing at all,
\* whatever was added, dropped or cleared since the list was loaded, by this page
\* or another, and however late the answer is, unless the server was started anew
\* in between: its ids then begin at 1 again, and another request may come back.
RestoresWhatWasListed ==
  \A i \in DOMAIN restored :
    restored[i].clicked.boot = restored[i].boot => restored[i].got = restored[i].clicked.item

\* What a restored form sends, before anybody touches it, is what was sent then:
\* environment, operation, path, query and a body that was not empty.  Of its
\* headers those are lost whose name is not canonical, and those that are secret
\* come back as the mask, Authorization even where the auth panel had supplied it.
\* An operation the page's catalog does not have cannot be sent again at all.
ResendsWhatWasRecorded ==
  \A i \in DOMAIN restored :
    LET rec == restored[i].got.rec
        headers == NamesIn(rec.ep, "header")
    IN  rec.ep \in DOMAIN Operations =>
        /\ \A field \in {"env", "ep", "path", "query"} : Collected[field] = rec[field]
        /\ rec.body # NoText => Collected.body = rec.body
        /\ rec.body = NoText => Collected.body = FirstText(rec.ep)
        /\ Collected.headers = [n \in headers \cap DOMAIN rec.headers |-> rec.headers[n]]

\* Switching between form and editor leaves the body as it would be sent, except
\* from the editor to a form that holds a value: the text is then given up for it.
SwitchingKeepsBody ==
  [][\A mode \in {"form", "json"} : endpoint # NoOperation /\ SwitchMode(mode) =>
       Body' = Body \/ (bodyMode = "json" /\ mode = "form" /\ DOMAIN Filled(form) # {})]_vars
=============================================================================
