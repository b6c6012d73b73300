----------------------------- MODULE PageProofs -----------------------------
(***************************************************************************)
(* Proofs about Page, for any operations, values and number of clicks,     *)
(* requests and starts of the server.                                      *)
(*                                                                         *)
(* The history's own invariant holds of every start of the server          *)
(* (HistoryProofs), and the journal of a start only grows: what was listed *)
(* under an id is what the id still means, whatever became of the ring.    *)
(* A form that was restored is, until somebody touches it, what            *)
(* restoreHistory wrote into it.                                           *)
(***************************************************************************)
EXTENDS Page, TLAPS, SequenceTheorems

HP == INSTANCE HistoryProofs

ParamsOf(ep) == IF ep = NoOperation THEN {} ELSE Operations[ep].params
FieldsOf(ep) == IF ep = NoOperation THEN {} ELSE Fields(ep)

\* The form is that of the operation.
FormTyped ==
  /\ envId \in Envs
  /\ endpoint \in DOMAIN Operations \cup {NoOperation}
  /\ bodyMode \in {"form", "json"}
  /\ params \in [ParamsOf(endpoint) -> Kept \cup {NoValue}]
  /\ form \in [FieldsOf(endpoint) -> Values \cup {NoValue}]
  /\ json \in Texts

\* What is on its way can be recorded: its headers have the names of the document.
PostedTyped ==
  posted = <<>> \/ /\ posted = <<posted[1]>>
                   /\ posted[1] \in Payloads
                   /\ DOMAIN posted[1].headers \subseteq DOMAIN Canonical

\* An entry that was listed by the server that runs now is the request its id
\* names.
ShownNamed ==
  /\ boots \in Nat \ {0}
  /\ shown = [list |-> shown.list, boot |-> shown.boot]
  /\ shown.boot \in 1 .. boots
  /\ shown.list \in Seq(H!Items)
  /\ \A k \in DOMAIN shown.list :
       shown.boot = boots => /\ shown.list[k].id \in DOMAIN journal
                             /\ shown.list[k].rec = journal[shown.list[k].id]
RestoringNamed ==
  /\ restoring = [f \in Fetches |-> restoring[f]]
  /\ \A f \in Fetches : restoring[f] # <<>> =>
       /\ restoring[f][1].item \in H!Items
       /\ restoring[f][1].boot \in 1 .. boots
       /\ restoring[f][1].boot = boots =>
            /\ restoring[f][1].item.id \in DOMAIN journal
            /\ restoring[f][1].item.rec = journal[restoring[f][1].item.id]

Inv == /\ FormTyped /\ PostedTyped /\ HP!Inv
       /\ ShownNamed /\ RestoringNamed /\ RestoresWhatWasListed
-----------------------------------------------------------------------------
LEMMA MapsAre ==
  ASSUME NEW names, NEW f
  PROVE  f \in Maps(names) <=> (f \in [DOMAIN f -> Kept] /\ DOMAIN f \subseteq names)
<1>1. ASSUME f \in Maps(names)
      PROVE  f \in [DOMAIN f -> Kept] /\ DOMAIN f \subseteq names
  <2>1. PICK S \in SUBSET names : f \in [S -> Kept]
    BY <1>1 DEF Maps
  <2>. QED  BY <2>1
<1>2. ASSUME f \in [DOMAIN f -> Kept], DOMAIN f \subseteq names
      PROVE  f \in Maps(names)
  <2>1. DOMAIN f \in SUBSET names
    BY <1>2
  <2>. QED  BY <1>2, <2>1 DEF Maps
<1>. QED  BY <1>1, <1>2

\* What is filled in of a form is without what is empty.
LEMMA FilledTyped ==
  ASSUME NEW S, NEW T, NEW map \in [S -> T \cup {NoValue}]
  PROVE  /\ DOMAIN Filled(map) \subseteq S
         /\ Filled(map) \in [DOMAIN Filled(map) -> T]
         /\ \A k \in DOMAIN Filled(map) : Filled(map)[k] = map[k]
BY DEF Filled

\* The names that are collected are those of the parameters in a place.
LEMMA InTyped ==
  ASSUME FormTyped, endpoint # NoOperation, NEW place
  PROVE  /\ In(place) \in Maps(ParamNames)
         /\ \A n \in DOMAIN In(place) :
              \E p \in Operations[endpoint].params : p.in = place /\ p.name = n
<1>. DEFINE typed == Filled(params)
            there == {q \in DOMAIN typed : q.in = place}
            names == {p.name : p \in there}
<1>1. endpoint \in DOMAIN Operations /\ ParamsOf(endpoint) = Operations[endpoint].params
  BY DEF FormTyped, ParamsOf
<1>2. /\ DOMAIN typed \subseteq Operations[endpoint].params
      /\ typed \in [DOMAIN typed -> Kept]
  BY <1>1, FilledTyped DEF FormTyped
<1>3. Operations[endpoint].params \subseteq [in : STRING, name : STRING]
  BY <1>1, PageAssumption
<1>. HIDE DEF typed
<1>4. In(place) = [n \in names |-> typed[[in |-> place, name |-> n]]]
  BY DEF In, typed
<1>5. ASSUME NEW n \in names
      PROVE  /\ [in |-> place, name |-> n] \in DOMAIN typed
             /\ [in |-> place, name |-> n] \in Operations[endpoint].params
  <2>1. PICK p \in there : p.name = n
    OBVIOUS
  <2>2. p \in [in : STRING, name : STRING] /\ p.in = place
    BY <1>2, <1>3
  <2>3. p = [in |-> place, name |-> n]
    BY <2>1, <2>2
  <2>. QED  BY <1>2, <2>3
<1>6. names \subseteq ParamNames
  <2>1. \A p \in there : p.name \in {q.name : q \in Operations[endpoint].params}
    BY <1>2
  <2>. QED  BY <1>1, <2>1 DEF ParamNames
<1>7. In(place) \in [DOMAIN In(place) -> Kept] /\ DOMAIN In(place) = names
  <2>1. \A n \in names : typed[[in |-> place, name |-> n]] \in Kept
    BY <1>2, <1>5
  <2>. HIDE DEF names
  <2>. QED  BY <1>4, <2>1
<1>8. In(place) \in Maps(ParamNames)
  BY <1>6, <1>7, MapsAre
<1>. QED  BY <1>5, <1>7, <1>8

\* The form of the operation has fields of the document.
LEMMA FieldsAre ==
  ASSUME NEW ep \in DOMAIN Operations
  PROVE  Fields(ep) \subseteq FieldNames
<1>1. CASE Operations[ep].body = <<>>
  BY <1>1 DEF Fields
<1>2. CASE Operations[ep].body # <<>>
  <2>. DEFINE body == Operations[ep].body
  <2>1. body \in Seq(SUBSET STRING)
    BY PageAssumption
  <2>2. 1 \in DOMAIN body
    BY <1>2, <2>1, EmptySeq, LenProperties
  <2>3. Fields(ep) = body[1]
    BY <1>2 DEF Fields
  <2>4. body[1] \in {f : f \in {body[i] : i \in DOMAIN body}}
    BY <2>2
  <2>5. body[1] \subseteq UNION {f : f \in {body[i] : i \in DOMAIN body}}
    BY <2>4
  <2>. QED  BY <2>3, <2>5 DEF FieldNames
<1>. QED  BY <1>1, <1>2

\* Whatever the body is taken from, it is a text.
LEMMA BodyTyped ==
  ASSUME FormTyped
  PROVE  FromForm \in Texts /\ (endpoint # NoOperation => Body \in Texts)
<1>1. FromForm \in Texts
  <2>1. CASE DOMAIN Filled(form) = {}
    BY <2>1 DEF FromForm, FormTyped
  <2>2. CASE DOMAIN Filled(form) # {}
    <3>1. /\ DOMAIN Filled(form) \subseteq FieldsOf(endpoint)
          /\ Filled(form) \in [DOMAIN Filled(form) -> Values]
      BY FilledTyped DEF FormTyped
    <3>2. FieldsOf(endpoint) \subseteq FieldNames
      BY FieldsAre DEF FieldsOf, FormTyped
    <3>3. Filled(form) \in [DOMAIN Filled(form) -> Kept]
      BY <3>1 DEF Kept
    <3>4. Filled(form) \in Maps(FieldNames)
      BY <3>1, <3>2, <3>3, MapsAre
    <3>5. Built(Filled(form)) \in Texts
      BY <3>4 DEF Texts
    <3>. QED  BY <2>2, <3>5 DEF FromForm
  <2>. QED  BY <2>1, <2>2
<1>2. NoText \in Texts
  BY DEF Texts
<1>. QED  BY <1>1, <1>2 DEF Body, FormTyped

\* What is collected can be recorded.
LEMMA CollectedTyped ==
  ASSUME FormTyped, endpoint # NoOperation
  PROVE  /\ Collected \in Payloads
         /\ DOMAIN Collected.headers \subseteq DOMAIN Canonical
<1>1. In("path") \in Maps(ParamNames) /\ In("query") \in Maps(ParamNames)
  BY InTyped
<1>2. endpoint \in DOMAIN Operations /\ envId \in Envs /\ Body \in Texts
  BY BodyTyped DEF FormTyped
<1>3. DOMAIN In("header") \subseteq DOMAIN Canonical
  <2>. SUFFICES ASSUME NEW n \in DOMAIN In("header") PROVE n \in DOMAIN Canonical
    OBVIOUS
  <2>1. PICK p \in Operations[endpoint].params : p.in = "header" /\ p.name = n
    BY InTyped
  <2>. QED  BY <1>2, <2>1, PageAssumption
<1>4. In("header") \in Maps(Names)
  <2>1. In("header") \in [DOMAIN In("header") -> Kept]
    BY InTyped, MapsAre
  <2>2. DOMAIN In("header") \subseteq Names
    BY <1>3 DEF Names
  <2>. QED  BY <2>1, <2>2, MapsAre
<1>5. ASSUME NEW place PROVE DOMAIN In(place) \subseteq NamesIn(endpoint, place)
  BY InTyped DEF NamesIn
<1>6. Operations[endpoint].body = <<>> => Body = NoText
  BY DEF Body
<1>7. /\ Collected.env = envId /\ Collected.ep = endpoint /\ Collected.body = Body
      /\ Collected.path = In("path") /\ Collected.query = In("query")
      /\ Collected.headers = In("header")
  BY DEF Collected
<1>8. Collected \in [env : Envs, ep : DOMAIN Operations, path : Maps(ParamNames),
                    query : Maps(ParamNames), headers : Maps(Names), body : Texts]
  BY <1>1, <1>2, <1>4 DEF Collected
<1>. QED  BY <1>3, <1>5, <1>6, <1>7, <1>8 DEF Payloads

\* What is recorded of the headers is a map of headers again.
LEMMA MaskedTyped ==
  ASSUME NEW p \in Payloads, NEW auth, DOMAIN p.headers \subseteq DOMAIN Canonical
  PROVE  MaskedHeaders(p, auth) \in Maps(Names)
<1>. DEFINE given == {Canonical[n] : n \in DOMAIN p.headers} \ {"Authorization"}
            own(n) == p.headers[CHOOSE m \in DOMAIN p.headers : Canonical[m] = n]
            set == given \cup IF auth = Absent THEN {} ELSE {"Authorization"}
            all == set \cup IF HasBody(p) THEN {"Content-Type"} ELSE {}
            value(n) == CASE n \in Sensitive -> MaskText
                          [] n \in given \ Sensitive -> own(n)
                          [] OTHER -> JSONType
<1>1. p.headers \in [DOMAIN p.headers -> Kept]
  BY MapsAre DEF Payloads
<1>2. MaskedHeaders(p, auth) = [n \in all |-> value(n)]
  BY DEF MaskedHeaders
<1>3. all \subseteq Names
  <2>1. "Authorization" \in Names /\ "Content-Type" \in Names
    BY PageAssumption DEF Names
  <2>2. given \subseteq Names
    BY DEF Names
  <2>. QED  BY <2>1, <2>2
<1>4. ASSUME NEW n \in all PROVE value(n) \in Kept
  <2>1. CASE n \in Sensitive
    BY <2>1 DEF Kept
  <2>2. CASE n \in given \ Sensitive
    <3>1. \E m \in DOMAIN p.headers : Canonical[m] = n
      BY <2>2
    <3>2. (CHOOSE m \in DOMAIN p.headers : Canonical[m] = n) \in DOMAIN p.headers
      BY <3>1
    <3>. HIDE DEF given
    <3>. QED  BY <1>1, <2>2, <3>2
  <2>3. CASE n \notin Sensitive /\ n \notin given
    <3>. HIDE DEF given
    <3>. QED  BY <2>3 DEF Kept
  <2>. QED  BY <2>1, <2>2, <2>3
<1>. HIDE DEF all, value
<1>. QED  BY <1>2, <1>3, <1>4, MapsAre

\* Executed and recorded.
LEMMA RecordTyped ==
  ASSUME NEW p \in Payloads, NEW auth, NEW built \in BOOLEAN,
         DOMAIN p.headers \subseteq DOMAIN Canonical
  PROVE  [p EXCEPT !.headers = IF built THEN MaskedHeaders(p, auth) ELSE <<>>] \in Records
<1>2. MaskedHeaders(p, auth) \in Maps(Names)
  BY MaskedTyped
<1>3. <<>> \in Maps(Names)
  <2>1. DOMAIN <<>> = {}
    BY EmptySeq
  <2>2. <<>> \in [{} -> Kept]
    BY <2>1
  <2>. QED  BY <2>1, <2>2, MapsAre
<1>. QED  BY <1>2, <1>3 DEF Records, Payloads
-----------------------------------------------------------------------------
\* The history of the server is the one its proofs are about.
LEMMA SameHistory ==
  /\ H!Init <=> HP!Init
  /\ \A rec : H!Add(rec) <=> HP!Add(rec)
  /\ H!Clear <=> HP!Clear
  /\ HP!vars = historyVars
  /\ H!Items = HP!Items
BY DEF H!Init, HP!Init, H!Add, HP!Add, H!Clear, HP!Clear, HP!vars, H!Trim,
   HP!Trim, H!Capacity, HP!Capacity, historyVars, H!Items, HP!Items

LEMMA HistoryKept ==
  ASSUME HP!Inv, UNCHANGED historyVars
  PROVE  HP!Inv'
BY DEF HP!Inv, HP!TypeOK, HP!RingIsWindow, HP!Gone, HP!Capacity, HP!Items,
       Records, Payloads, historyVars

\* A place of the ring is the request its id names.
LEMMA RingNames ==
  ASSUME HP!Inv
  PROVE  /\ items \in Seq(H!Items)
         /\ \A k \in DOMAIN items : /\ items[k].id = HP!Gone + k
                                     /\ items[k].id \in DOMAIN journal
                                     /\ items[k].rec = journal[items[k].id]
<1>1. /\ HP!Gone \in 0 .. Len(journal) /\ Len(journal) \in Nat
      /\ Len(items) = Len(journal) - HP!Gone
  BY HP!RingLength, PageAssumption DEF HP!HistoryAssumption, HP!Inv
<1>2. items \in Seq(H!Items) /\ journal \in Seq(Records)
  BY SameHistory DEF HP!Inv, HP!TypeOK
<1>3. DOMAIN journal = 1 .. Len(journal) /\ DOMAIN items = 1 .. Len(items)
  BY <1>2, LenProperties
<1>4. ASSUME NEW k \in DOMAIN items
      PROVE  /\ items[k].id = HP!Gone + k
             /\ items[k].id \in DOMAIN journal
             /\ items[k].rec = journal[items[k].id]
  <2>1. items[k] = [id |-> HP!Gone + k, rec |-> journal[HP!Gone + k]]
    BY <1>1, <1>3 DEF HP!Inv, HP!RingIsWindow
  <2>2. HP!Gone + k \in DOMAIN journal
    BY <1>1, <1>3
  <2>. QED  BY <2>1, <2>2
<1>. QED  BY <1>2, <1>4

\* What Get finds under an id is the request the id names.
LEMMA GetNames ==
  ASSUME HP!Inv, NEW id, H!Get(id).ok
  PROVE  /\ H!Get(id).item \in H!Items
         /\ H!Get(id).item = [id |-> id, rec |-> journal[id]]
<1>. DEFINE FirstOf(i) == items[i].id = id /\ \A j \in 1 .. i - 1 : items[j].id # id
<1>1. PICK i \in DOMAIN items : items[i].id = id
  BY DEF H!Get
<1>2. /\ HP!Gone \in Nat /\ DOMAIN items = 1 .. Len(items) /\ Len(items) \in Nat
      /\ \A k \in DOMAIN items : items[k].id = HP!Gone + k
  BY RingNames, HP!RingLength, LenProperties, PageAssumption DEF HP!HistoryAssumption, HP!Inv
<1>3. FirstOf(i)
  BY <1>1, <1>2
<1>4. H!Get(id).item = items[CHOOSE k \in DOMAIN items : FirstOf(k)]
  BY <1>1 DEF H!Get
<1>5. PICK k \in DOMAIN items : H!Get(id).item = items[k] /\ items[k].id = id
  BY <1>3, <1>4
<1>6. items[k] \in H!Items
  BY RingNames, ElementOfSeq, <1>2
<1>7. items[k] = [id |-> items[k].id, rec |-> items[k].rec]
  BY <1>6 DEF H!Items
<1>. QED  BY <1>5, <1>6, <1>7, RingNames

\* The list shows each request under the id that names it.
LEMMA ListNames ==
  ASSUME HP!Inv
  PROVE  /\ H!List \in Seq(H!Items)
         /\ \A k \in DOMAIN H!List : /\ H!List[k].id \in DOMAIN journal
                                      /\ H!List[k].rec = journal[H!List[k].id]
<1>1. /\ items \in Seq(H!Items)
      /\ Len(items) \in Nat /\ DOMAIN items = 1 .. Len(items)
  BY RingNames, LenProperties
<1>2. /\ DOMAIN H!List = 1 .. Len(items)
      /\ \A k \in 1 .. Len(items) : /\ H!List[k] = items[Len(items) + 1 - k]
                                     /\ Len(items) + 1 - k \in DOMAIN items
  BY <1>1 DEF H!List
<1>3. H!List \in Seq(H!Items)
  <2>1. \A k \in 1 .. Len(items) : H!List[k] \in H!Items
    BY <1>1, <1>2, ElementOfSeq
  <2>2. H!List \in [1 .. Len(items) -> H!Items]
    BY <2>1 DEF H!List
  <2>. QED  BY <1>1, <2>2, SeqDef
<1>. QED  BY <1>2, <1>3, RingNames

\* The types do not change, and what was named stays so while the journal grows.
LEMMA FixedTypes == H!Items' = H!Items
BY DEF H!Items, Records, Payloads

LEMMA StillNamed ==
  ASSUME Inv, UNCHANGED <<boots, shown, restoring>>,
         journal' = journal \/ \E r \in Records : journal' = Append(journal, r)
  PROVE  ShownNamed' /\ RestoringNamed'
<1>1. journal \in Seq(Records) /\ DOMAIN journal = 1 .. Len(journal) /\ Len(journal) \in Nat
  BY LenProperties DEF Inv, HP!Inv, HP!TypeOK
<1>2. \A k \in DOMAIN journal : k \in DOMAIN journal' /\ journal'[k] = journal[k]
  <2>1. CASE journal' = journal
    BY <2>1
  <2>2. ASSUME NEW r \in Records, journal' = Append(journal, r)
        PROVE  \A k \in DOMAIN journal : k \in DOMAIN journal' /\ journal'[k] = journal[k]
    <3>. DEFINE grown == Append(journal, r)
    <3>1. /\ grown \in Seq(Records) /\ Len(grown) = Len(journal) + 1
          /\ \A i \in 1 .. Len(journal) : grown[i] = journal[i]
      BY <1>1, AppendProperties
    <3>2. DOMAIN grown = 1 .. Len(grown)
      BY <3>1, LenProperties
    <3>. HIDE DEF grown
    <3>3. \A k \in DOMAIN journal : k \in DOMAIN grown /\ grown[k] = journal[k]
      BY <1>1, <3>1, <3>2
    <3>. QED  BY <2>2, <3>3 DEF grown
  <2>. QED  BY <2>1, <2>2
<1>3. ShownNamed'
  BY <1>2, FixedTypes DEF Inv, ShownNamed
<1>4. RestoringNamed'
  BY <1>2, FixedTypes DEF Inv, RestoringNamed
<1>. QED  BY <1>3, <1>4
-----------------------------------------------------------------------------
\* What the form is given is of its type, by each of its actions.
LEMMA FormStep ==
  ASSUME Inv,
         \/ \E ep \in DOMAIN Operations : SelectEndpoint(ep)
         \/ \E e \in Envs \ {envId} : ChangeEnvironment(e)
         \/ endpoint # NoOperation /\ Typing
         \/ \E mode \in {"form", "json"} : SwitchMode(mode)
  PROVE  Inv'
<1>1. UNCHANGED <<posted, listing, shown, restoring, boots, historyVars>> /\ restored' = <<>>
  BY DEF SelectEndpoint, ChangeEnvironment, Typing, EnterParams, EnterForm, EnterJSON,
         SwitchMode, Touch, serverVars
<1>2. HP!Inv'
  BY <1>1, HistoryKept DEF Inv
<1>3. ShownNamed' /\ RestoringNamed'
  BY <1>1, StillNamed DEF historyVars
<1>4. PostedTyped'
  BY <1>1 DEF Inv, PostedTyped, Payloads
<1>5. RestoresWhatWasListed'
  BY <1>1, EmptySeq DEF RestoresWhatWasListed
<1>6. FormTyped'
  <2>. USE DEF FormTyped
  <2>1. FormTyped
    BY DEF Inv
  <2>2. ASSUME NEW ep \in DOMAIN Operations, SelectEndpoint(ep) PROVE FormTyped'
    <3>1. ep # NoOperation /\ ParamsOf(ep) = Operations[ep].params /\ FieldsOf(ep) = Fields(ep)
      BY PageAssumption DEF ParamsOf, FieldsOf
    <3>2. /\ Blank(ep) \in [ParamsOf(ep) -> Kept \cup {NoValue}]
          /\ BlankForm(ep) \in [FieldsOf(ep) -> Values \cup {NoValue}]
      BY <3>1 DEF Blank, BlankForm
    <3>3. FirstText(ep) \in Texts
      BY DEF FirstText, Texts
    <3>4. ModeFor(ep, bodyMode) \in {"form", "json"}
      BY <2>1 DEF ModeFor
    <3>. QED  BY <2>1, <2>2, <3>2, <3>3, <3>4 DEF SelectEndpoint
  <2>3. ASSUME NEW e \in Envs, ChangeEnvironment(e) PROVE FormTyped'
    BY <2>1, <2>3 DEF ChangeEnvironment
  <2>4. CASE endpoint # NoOperation /\ Typing
    <3>1. ASSUME NEW values \in [DOMAIN params -> Values \cup {NoValue}], EnterParams(values)
          PROVE  FormTyped'
      <4>1. values \in [ParamsOf(endpoint) -> Kept \cup {NoValue}]
        BY <2>1 DEF Kept
      <4>. QED  BY <2>1, <3>1, <4>1 DEF EnterParams
    <3>2. ASSUME NEW values \in [DOMAIN form -> Values \cup {NoValue}], EnterForm(values)
          PROVE  FormTyped'
      <4>1. values \in [FieldsOf(endpoint) -> Values \cup {NoValue}]
        BY <2>1
      <4>. QED  BY <2>1, <3>2, <4>1 DEF EnterForm
    <3>3. ASSUME NEW text \in {NoText, Typed, Broken}, EnterJSON(text) PROVE FormTyped'
      <4>1. text \in Texts
        BY DEF Texts
      <4>. QED  BY <2>1, <3>3, <4>1 DEF EnterJSON
    <3>. QED  BY <2>4, <3>1, <3>2, <3>3 DEF Typing
  <2>5. ASSUME NEW mode \in {"form", "json"}, SwitchMode(mode) PROVE FormTyped'
    <3>1. json' \in Texts
      BY <2>1, <2>5, BodyTyped DEF SwitchMode
    <3>. QED  BY <2>1, <2>5, <3>1 DEF SwitchMode
  <2>. QED  BY <2>2, <2>3, <2>4, <2>5
<1>. QED  BY <1>2, <1>3, <1>4, <1>5, <1>6 DEF Inv

\* The page asks for something, or is told that it failed.
LEMMA AskStep ==
  ASSUME Inv, ClickSend \/ SendFails \/ ListFails \/ \E f \in Fetches : RestoreFails(f)
  PROVE  Inv'
<1>1. UNCHANGED <<formVars, shown, restored, boots, historyVars>>
  BY DEF ClickSend, SendFails, ListFails, RestoreFails, serverVars
<1>2. HP!Inv'
  BY <1>1, HistoryKept DEF Inv
<1>3. FormTyped'
  BY <1>1 DEF Inv, FormTyped, formVars, Texts
<1>4. RestoresWhatWasListed'
  BY <1>1 DEF Inv, RestoresWhatWasListed
<1>5. ShownNamed'
  BY <1>1, FixedTypes DEF Inv, ShownNamed, historyVars
<1>6. RestoringNamed'
  <2>1. ASSUME NEW f \in Fetches, RestoreFails(f) PROVE RestoringNamed'
    <3>1. restoring' = [restoring EXCEPT ![f] = <<>>] /\ RestoringNamed
      BY <2>1 DEF RestoreFails, Inv
    <3>2. /\ restoring' = [g \in Fetches |-> restoring'[g]]
          /\ \A g \in Fetches : restoring'[g] = <<>> \/ restoring'[g] = restoring[g]
      BY <3>1 DEF RestoringNamed
    <3>. QED  BY <1>1, <3>1, <3>2, FixedTypes DEF RestoringNamed, historyVars
  <2>2. CASE UNCHANGED restoring
    BY <1>1, <2>2, FixedTypes DEF Inv, RestoringNamed, historyVars
  <2>. QED  BY <2>1, <2>2 DEF ClickSend, SendFails, ListFails
<1>7. PostedTyped'
  <2>1. CASE ClickSend
    <3>1. endpoint # NoOperation /\ posted' = <<Collected>>
      BY <2>1 DEF ClickSend
    <3>2. Collected \in Payloads /\ DOMAIN Collected.headers \subseteq DOMAIN Canonical
      BY <3>1, CollectedTyped DEF Inv
    <3>3. <<Collected>>[1] = Collected
      OBVIOUS
    <3>. QED  BY <3>1, <3>2, <3>3 DEF PostedTyped, Payloads
  <2>2. CASE SendFails
    BY <2>2 DEF SendFails, PostedTyped
  <2>3. CASE UNCHANGED posted
    BY <2>3 DEF Inv, PostedTyped, Payloads
  <2>. QED  BY <2>1, <2>2, <2>3 DEF ListFails, RestoreFails
<1>. QED  BY <1>2, <1>3, <1>4, <1>5, <1>6, <1>7 DEF Inv

\* A request is recorded, or the history cleared, by this page or another.
LEMMA HistoryStep ==
  ASSUME Inv,
         UNCHANGED <<formVars, shown, restoring, restored, boots>>,
         posted' = posted \/ posted' = <<>>,
         H!Clear \/ \E rec \in Records : H!Add(rec)
  PROVE  Inv'
<1>1. HP!Inv'
  <2>1. CASE H!Clear
    BY <2>1, SameHistory, HP!ClearKeepsInv, PageAssumption DEF Inv, HP!HistoryAssumption
  <2>2. ASSUME NEW rec \in Records, H!Add(rec) PROVE HP!Inv'
    BY <2>2, SameHistory, HP!AddKeepsInv, PageAssumption DEF Inv, HP!HistoryAssumption
  <2>. QED  BY <2>1, <2>2
<1>2. journal' = journal \/ \E rec \in Records : journal' = Append(journal, rec)
  BY DEF H!Clear, H!Add
<1>3. ShownNamed' /\ RestoringNamed'
  BY <1>2, StillNamed
<1>4. FormTyped'
  BY DEF Inv, FormTyped, formVars, Texts
<1>5. PostedTyped'
  BY DEF Inv, PostedTyped, Payloads
<1>6. RestoresWhatWasListed'
  BY DEF Inv, RestoresWhatWasListed
<1>. QED  BY <1>1, <1>3, <1>4, <1>5, <1>6 DEF Inv

LEMMA ListStep ==
  ASSUME Inv, ServerLists
  PROVE  Inv'
<1>1. /\ UNCHANGED <<formVars, posted, restoring, restored, boots, historyVars>>
      /\ shown' = [list |-> H!List, boot |-> boots]
  BY DEF ServerLists, serverVars
<1>2. HP!Inv'
  BY <1>1, HistoryKept DEF Inv
<1>3. ShownNamed'
  <2>1. /\ H!List \in Seq(H!Items)
        /\ \A k \in DOMAIN H!List : /\ H!List[k].id \in DOMAIN journal
                                     /\ H!List[k].rec = journal[H!List[k].id]
    BY ListNames DEF Inv
  <2>2. boots \in Nat \ {0} /\ boots \in 1 .. boots
    BY DEF Inv, ShownNamed
  <2>3. shown'.list = H!List /\ shown'.boot = boots /\ UNCHANGED <<boots, journal>>
    BY <1>1 DEF historyVars
  <2>. QED  BY <1>1, <2>1, <2>2, <2>3, FixedTypes DEF ShownNamed
<1>4. RestoringNamed'
  BY <1>1, FixedTypes DEF Inv, RestoringNamed, historyVars
<1>5. FormTyped'
  BY <1>1 DEF Inv, FormTyped, formVars, Texts
<1>6. PostedTyped'
  BY <1>1 DEF Inv, PostedTyped, Payloads
<1>7. RestoresWhatWasListed'
  BY <1>1 DEF Inv, RestoresWhatWasListed
<1>. QED  BY <1>2, <1>3, <1>4, <1>5, <1>6, <1>7 DEF Inv

\* A click remembers the entry as it was shown.
LEMMA ClickStep ==
  ASSUME Inv, NEW k \in DOMAIN shown.list, NEW f \in Fetches, ClickHistory(k, f)
  PROVE  Inv'
<1>. DEFINE entry == [item |-> shown.list[k], boot |-> shown.boot]
<1>1. /\ UNCHANGED <<formVars, posted, shown, restored, boots, historyVars>>
      /\ restoring' = [restoring EXCEPT ![f] = <<entry>>]
  BY DEF ClickHistory, serverVars
<1>2. HP!Inv'
  BY <1>1, HistoryKept DEF Inv
<1>3. ShownNamed'
  BY <1>1, FixedTypes DEF Inv, ShownNamed, historyVars
<1>4. RestoringNamed'
  <2>1. <<entry>>[1] = entry /\ entry.item = shown.list[k] /\ entry.boot = shown.boot
    OBVIOUS
  <2>2. /\ shown.list[k] \in H!Items /\ shown.boot \in 1 .. boots
        /\ shown.boot = boots => /\ shown.list[k].id \in DOMAIN journal
                                 /\ shown.list[k].rec = journal[shown.list[k].id]
    BY ElementOfSeq, LenProperties DEF Inv, ShownNamed
  <2>. HIDE DEF entry
  <2>3. RestoringNamed
    BY DEF Inv
  <2>4. /\ restoring' = [g \in Fetches |-> restoring'[g]]
        /\ restoring'[f] = <<entry>> /\ restoring'[f][1] = entry
        /\ \A g \in Fetches \ {f} : restoring'[g] = restoring[g]
    BY <1>1, <2>1, <2>3 DEF RestoringNamed
  <2>5. UNCHANGED <<boots, journal>>
    BY <1>1 DEF historyVars
  <2>6. ASSUME NEW g \in Fetches, restoring'[g] # <<>>
        PROVE  /\ restoring'[g][1].item \in H!Items
               /\ restoring'[g][1].boot \in 1 .. boots
               /\ restoring'[g][1].boot = boots =>
                    /\ restoring'[g][1].item.id \in DOMAIN journal
                    /\ restoring'[g][1].item.rec = journal[restoring'[g][1].item.id]
    <3>1. CASE g = f
      BY <2>1, <2>2, <2>4, <3>1
    <3>2. CASE g # f
      BY <2>3, <2>4, <2>6, <3>2 DEF RestoringNamed
    <3>. QED  BY <3>1, <3>2
  <2>. QED  BY <2>4, <2>5, <2>6, FixedTypes DEF RestoringNamed
<1>5. FormTyped'
  BY <1>1 DEF Inv, FormTyped, formVars, Texts
<1>6. PostedTyped'
  BY <1>1 DEF Inv, PostedTyped, Payloads
<1>7. RestoresWhatWasListed'
  BY <1>1 DEF Inv, RestoresWhatWasListed
<1>. QED  BY <1>2, <1>3, <1>4, <1>5, <1>6, <1>7 DEF Inv

\* What is recalled into a field is of the record, or nothing.
LEMMA RecalledTyped ==
  ASSUME NEW rec \in Records, NEW S
  PROVE  Recalled(rec, S) \in [S -> Kept \cup {NoValue}]
<1>1. /\ rec.path \in Maps(ParamNames) /\ rec.query \in Maps(ParamNames)
      /\ rec.headers \in Maps(Names)
  BY DEF Records, Payloads
<1>2. ASSUME NEW p \in S, p.name \in DOMAIN Bag(rec, p.in) PROVE Bag(rec, p.in)[p.name] \in Kept
  <2>1. Bag(rec, p.in) \in [DOMAIN Bag(rec, p.in) -> Kept]
    BY <1>1, MapsAre DEF Bag
  <2>. QED  BY <1>2, <2>1
<1>. QED  BY <1>2 DEF Recalled

\* What the server has under the id that was clicked is what was shown, unless the
\* server is another.
LEMMA RestoreStep ==
  ASSUME Inv, NEW f \in Fetches, Restore(f)
  PROVE  Inv'
<1>. DEFINE clicked == restoring[f][1]
            got == H!Get(clicked.item.id).item
            rec == got.rec
            done == [clicked |-> clicked, got |-> got, boot |-> boots]
<1>1. /\ UNCHANGED <<posted, shown, boots, historyVars>>
      /\ restoring' = [restoring EXCEPT ![f] = <<>>] /\ restored' = <<done>>
      /\ restoring[f] # <<>> /\ H!Get(clicked.item.id).ok
      /\ envId' = rec.env /\ RestoreEndpoint(rec)
  BY DEF Restore, serverVars
<1>2. got \in H!Items /\ got = [id |-> clicked.item.id, rec |-> journal[clicked.item.id]]
  BY <1>1, GetNames DEF Inv
<1>3. rec \in Records
  BY <1>2 DEF H!Items
<1>4. RestoresWhatWasListed'
  <2>1. clicked.boot = boots => got = clicked.item
    <3>1. clicked.item \in H!Items
      BY <1>1 DEF Inv, RestoringNamed
    <3>2. clicked.item = [id |-> clicked.item.id, rec |-> clicked.item.rec]
      BY <3>1 DEF H!Items
    <3>3. clicked.boot = boots => clicked.item.rec = journal[clicked.item.id]
      BY <1>1 DEF Inv, RestoringNamed
    <3>. QED  BY <1>2, <3>2, <3>3
  <2>2. DOMAIN <<done>> = {1} /\ <<done>>[1] = done
    OBVIOUS
  <2>3. done.clicked = clicked /\ done.got = got /\ done.boot = boots
    OBVIOUS
  <2>. HIDE DEF done, got, clicked
  <2>. QED  BY <1>1, <2>1, <2>2, <2>3 DEF RestoresWhatWasListed
<1>5. FormTyped'
  <2>. HIDE DEF rec
  <2>1. rec.env \in Envs /\ rec.body \in Texts
    BY <1>3 DEF Records, Payloads
  <2>2. FormTyped
    BY DEF Inv
  <2>3. ASSUME NEW S PROVE Recalled(rec, S) \in [S -> Kept \cup {NoValue}]
    BY <1>3, RecalledTyped
  <2>4. CASE rec.ep \in DOMAIN Operations
    <3>1. /\ rec.ep # NoOperation /\ ParamsOf(rec.ep) = Operations[rec.ep].params
          /\ FieldsOf(rec.ep) = Fields(rec.ep)
      BY <2>4, PageAssumption DEF ParamsOf, FieldsOf
    <3>2. /\ endpoint' = rec.ep /\ params' = Recalled(rec, DOMAIN Blank(rec.ep))
          /\ form' = BlankForm(rec.ep)
          /\ json' = IF rec.body = NoText THEN FirstText(rec.ep) ELSE rec.body
          /\ bodyMode' = IF rec.body = NoText THEN ModeFor(rec.ep, bodyMode) ELSE "json"
      BY <1>1, <2>4 DEF RestoreEndpoint
    <3>3. params' \in [ParamsOf(rec.ep) -> Kept \cup {NoValue}]
      BY <2>3, <3>1, <3>2 DEF Blank
    <3>4. form' \in [FieldsOf(rec.ep) -> Values \cup {NoValue}]
      BY <3>1, <3>2 DEF BlankForm
    <3>5. json' \in Texts /\ bodyMode' \in {"form", "json"}
      BY <2>1, <2>2, <2>4, <3>2 DEF FirstText, Texts, ModeFor, FormTyped
    <3>. QED  BY <1>1, <2>1, <2>4, <3>2, <3>3, <3>4, <3>5 DEF FormTyped
  <2>5. CASE rec.ep \notin DOMAIN Operations
    <3>1. /\ params' = Recalled(rec, DOMAIN params) /\ UNCHANGED <<endpoint, form>>
          /\ json' \in {json, rec.body} /\ bodyMode' \in {bodyMode, "json"}
      BY <1>1, <2>5 DEF RestoreEndpoint
    <3>2. DOMAIN params = ParamsOf(endpoint)
      BY <2>2 DEF FormTyped
    <3>3. params' \in [ParamsOf(endpoint) -> Kept \cup {NoValue}]
      BY <2>3, <3>1, <3>2
    <3>. QED  BY <1>1, <2>1, <2>2, <3>1, <3>3 DEF FormTyped
  <2>. QED  BY <2>4, <2>5
<1>6. HP!Inv'
  BY <1>1, HistoryKept DEF Inv
<1>7. ShownNamed'
  BY <1>1, FixedTypes DEF Inv, ShownNamed, historyVars
<1>8. RestoringNamed'
  <2>1. /\ restoring' = [g \in Fetches |-> restoring'[g]]
        /\ \A g \in Fetches : restoring'[g] = <<>> \/ restoring'[g] = restoring[g]
    BY <1>1 DEF Inv, RestoringNamed
  <2>. HIDE DEF done, got, clicked
  <2>. QED  BY <1>1, <2>1, FixedTypes DEF Inv, RestoringNamed, historyVars
<1>9. PostedTyped'
  BY <1>1 DEF Inv, PostedTyped, Payloads
<1>. QED  BY <1>4, <1>5, <1>6, <1>7, <1>8, <1>9 DEF Inv

\* The ids of a new server name nothing that is on the page.
LEMMA RestartStep ==
  ASSUME Inv, Restart
  PROVE  Inv'
<1>1. /\ UNCHANGED <<formVars, posted, shown, restoring, restored>>
      /\ boots' = boots + 1
      /\ items' = <<>> /\ nextID' = 1 /\ journal' = <<>> /\ floor' = 0
  BY DEF Restart, pageVars
<1>2. HP!Inv'
  <2>1. HP!Capacity \in Nat \ {0} /\ HP!Capacity' = HP!Capacity
    BY HP!CapacityPositive, PageAssumption DEF HP!HistoryAssumption, HP!Capacity
  <2>2. Len(<<>>) = 0 /\ \A S : <<>> \in Seq(S)
    BY EmptySeq
  <2>3. HP!TypeOK'
    BY <1>1, <2>1, <2>2 DEF HP!TypeOK
  <2>4. HP!Gone' = 0
    BY <1>1, <2>1, <2>2 DEF HP!Gone
  <2>5. 1 .. Len(journal') - HP!Gone' = {}
    BY <1>1, <2>2, <2>4
  <2>6. HP!RingIsWindow'
    BY <1>1, <2>5 DEF HP!RingIsWindow
  <2>. QED  BY <2>3, <2>6 DEF HP!Inv
<1>3. ShownNamed'
  BY <1>1, FixedTypes DEF Inv, ShownNamed
<1>4. RestoringNamed'
  BY <1>1, FixedTypes DEF Inv, ShownNamed, RestoringNamed
<1>5. FormTyped'
  BY <1>1 DEF Inv, FormTyped, formVars, Texts
<1>6. PostedTyped'
  BY <1>1 DEF Inv, PostedTyped, Payloads
<1>7. RestoresWhatWasListed'
  BY <1>1 DEF Inv, RestoresWhatWasListed
<1>. QED  BY <1>2, <1>3, <1>4, <1>5, <1>6, <1>7 DEF Inv

LEMMA ReloadStep ==
  ASSUME Inv, Reload
  PROVE  Inv'
<1>1. UNCHANGED <<posted, boots, historyVars>>
  BY DEF Reload, serverVars
<1>2. HP!Inv'
  BY <1>1, HistoryKept DEF Inv
<1>3. DOMAIN <<>> = {} /\ \A S : <<>> \in Seq(S) /\ <<>> \in [{} -> S]
  BY EmptySeq
<1>4. ShownNamed' /\ RestoringNamed'
  <2>1. /\ shown' = [list |-> <<>>, boot |-> boots] /\ restoring' = [f \in Fetches |-> <<>>]
        /\ boots' = boots /\ boots \in Nat \ {0}
    BY <1>1 DEF Reload, Inv, ShownNamed
  <2>. QED  BY <1>3, <2>1 DEF ShownNamed, RestoringNamed
<1>5. FormTyped'
  BY <1>3, PageAssumption DEF Reload, FormTyped, Texts, ParamsOf, FieldsOf
<1>6. PostedTyped'
  BY <1>1 DEF Inv, PostedTyped, Payloads
<1>7. RestoresWhatWasListed'
  BY <1>3 DEF Reload, RestoresWhatWasListed
<1>. QED  BY <1>2, <1>4, <1>5, <1>6, <1>7 DEF Inv
-----------------------------------------------------------------------------
LEMMA InitInv ==
  ASSUME Init
  PROVE  Inv
<1>1. DOMAIN <<>> = {} /\ \A S : <<>> \in Seq(S) /\ <<>> \in [{} -> S]
  BY EmptySeq
<1>2. HP!Inv
  BY SameHistory, HP!InitInv, PageAssumption DEF Init, HP!HistoryAssumption
<1>3. FormTyped
  BY <1>1, PageAssumption DEF Init, FormTyped, Texts, ParamsOf, FieldsOf
<1>4. PostedTyped /\ RestoringNamed /\ RestoresWhatWasListed
  BY <1>1 DEF Init, PostedTyped, RestoringNamed, RestoresWhatWasListed
<1>5. ShownNamed
  BY <1>1 DEF Init, ShownNamed
<1>. QED  BY <1>2, <1>3, <1>4, <1>5 DEF Inv

LEMMA NextInv ==
  ASSUME Inv, [Next]_vars
  PROVE  Inv'
<1>1. CASE User
  <2>1. CASE ClickClear
    <3>1. /\ H!Clear
          /\ UNCHANGED <<formVars, posted, shown, restoring, restored, boots>>
      BY <2>1 DEF ClickClear
    <3>. QED  BY <3>1, HistoryStep
  <2>. QED  BY <1>1, <2>1, FormStep, AskStep, ClickStep, ReloadStep DEF User
<1>2. ASSUME NEW mode, NEW custom, NEW jwt, NEW built \in BOOLEAN,
             ServerExecutes(mode, custom, jwt, built)
      PROVE  Inv'
  <2>. DEFINE auth == AuthOf(posted[1].headers, mode, custom, jwt)
              rec == [posted[1] EXCEPT !.headers =
                        IF built THEN MaskedHeaders(posted[1], auth) ELSE <<>>]
  <2>1. /\ H!Add(rec)
        /\ posted # <<>> /\ posted' = <<>>
        /\ UNCHANGED <<formVars, shown, restoring, restored, boots>>
    BY <1>2 DEF ServerExecutes
  <2>2. posted[1] \in Payloads /\ DOMAIN posted[1].headers \subseteq DOMAIN Canonical
    BY <2>1 DEF Inv, PostedTyped
  <2>. HIDE DEF auth
  <2>3. rec \in Records
    BY <2>2, RecordTyped
  <2>. HIDE DEF rec
  <2>. QED  BY <2>1, <2>3, HistoryStep
<1>3. ASSUME NEW rec \in Foreign, OthersAdd(rec)
      PROVE  Inv'
  <2>1. rec \in Records
    BY PageAssumption
  <2>2. H!Add(rec) /\ UNCHANGED <<formVars, posted, shown, restoring, restored, boots>>
    BY <1>3 DEF OthersAdd, pageVars
  <2>. QED  BY <2>1, <2>2, HistoryStep
<1>4. CASE OthersClear
  <2>1. H!Clear /\ UNCHANGED <<formVars, posted, shown, restoring, restored, boots>>
    BY <1>4 DEF OthersClear, pageVars
  <2>. QED  BY <2>1, HistoryStep
<1>5. CASE UNCHANGED vars
  <2>1. /\ UNCHANGED <<formVars, posted, shown, restoring, restored, boots, historyVars>>
    BY <1>5 DEF vars, pageVars, serverVars
  <2>2. HP!Inv'
    BY <2>1, HistoryKept DEF Inv
  <2>3. ShownNamed' /\ RestoringNamed'
    BY <2>1, StillNamed DEF historyVars
  <2>4. FormTyped' /\ PostedTyped' /\ RestoresWhatWasListed'
    BY <2>1 DEF Inv, FormTyped, formVars, Texts, PostedTyped, Payloads, RestoresWhatWasListed
  <2>. QED  BY <2>2, <2>3, <2>4 DEF Inv
<1>. QED
  BY <1>1, <1>2, <1>3, <1>4, <1>5, AskStep, ListStep, RestoreStep, RestartStep DEF Next

LEMMA PageInvariant == Spec => []Inv
BY InitInv, NextInv, PTL DEF Spec
-----------------------------------------------------------------------------
\* What restoreHistory writes of an operation of the catalog, and that nothing of it
\* was touched.
AsRestored ==
  restored # <<>> =>
    /\ restored = <<restored[1]>>
    /\ restored[1].got.rec \in Records
    /\ restored[1].got.rec.ep \in DOMAIN Operations =>
         /\ envId = restored[1].got.rec.env /\ endpoint = restored[1].got.rec.ep
         /\ params = Recalled(restored[1].got.rec, Operations[restored[1].got.rec.ep].params)
         /\ form = BlankForm(restored[1].got.rec.ep)
         /\ IF restored[1].got.rec.body = NoText
              THEN json = FirstText(restored[1].got.rec.ep)
              ELSE json = restored[1].got.rec.body /\ bodyMode = "json"

LEMMA RestoreWrites ==
  ASSUME Inv, NEW f \in Fetches, Restore(f)
  PROVE  AsRestored'
<1>. DEFINE clicked == restoring[f][1]
            got == H!Get(clicked.item.id).item
            rec == got.rec
            done == [clicked |-> clicked, got |-> got, boot |-> boots]
<1>1. /\ H!Get(clicked.item.id).ok /\ restored' = <<done>>
      /\ envId' = rec.env /\ RestoreEndpoint(rec)
  BY DEF Restore
<1>2. rec \in Records
  BY <1>1, GetNames DEF Inv, H!Items
<1>3. <<done>>[1] = done /\ done.got.rec = rec
  OBVIOUS
<1>. HIDE DEF done, rec
<1>4. restored' = <<restored'[1]>> /\ restored'[1].got.rec = rec
  BY <1>1, <1>3
<1>5. rec.ep \in DOMAIN Operations =>
        /\ endpoint' = rec.ep
        /\ params' = Recalled(rec, Operations[rec.ep].params)
        /\ form' = BlankForm(rec.ep)
        /\ json' = IF rec.body = NoText THEN FirstText(rec.ep) ELSE rec.body
        /\ bodyMode' = IF rec.body = NoText THEN ModeFor(rec.ep, bodyMode) ELSE "json"
  BY <1>1 DEF RestoreEndpoint, Blank
<1>. QED  BY <1>1, <1>2, <1>4, <1>5 DEF AsRestored

LEMMA AsRestoredStep ==
  ASSUME Inv, AsRestored, [Next]_vars
  PROVE  AsRestored'
<1>1. CASE restored' = <<>>
  BY <1>1 DEF AsRestored
<1>2. CASE UNCHANGED <<formVars, restored>>
  BY <1>2 DEF AsRestored, formVars
<1>3. CASE \E f \in Fetches : Restore(f)
  BY <1>3, RestoreWrites
<1>4. CASE User
  <2>1. ASSUME Touch PROVE restored' = <<>>
    BY <2>1 DEF Touch
  <2>. QED
    BY <1>1, <1>2, <1>4, <2>1 DEF User, Typing, SelectEndpoint, ChangeEnvironment, EnterParams,
       EnterForm, EnterJSON, SwitchMode, ClickSend, ClickClear, Reload, ClickHistory
<1>5. CASE \E mode \in {"jwt", "none", "custom"}, custom \in BOOLEAN,
              jwt \in {Absent, Value("jwt")}, built \in BOOLEAN :
             ServerExecutes(mode, custom, jwt, built)
  BY <1>2, <1>5 DEF ServerExecutes
<1>6. CASE \/ SendFails \/ ServerLists \/ ListFails
           \/ (\E f \in Fetches : RestoreFails(f))
           \/ (\E rec \in Foreign : OthersAdd(rec)) \/ OthersClear \/ Restart
  BY <1>2, <1>6 DEF SendFails, ServerLists, ListFails, RestoreFails, OthersAdd, OthersClear,
     Restart, pageVars
<1>7. CASE UNCHANGED vars
  BY <1>2, <1>7 DEF vars, pageVars
<1>. QED  BY <1>3, <1>4, <1>5, <1>6, <1>7 DEF Next

\* What is collected of the restored fields in a place is what was recorded there.
LEMMA RecalledIn ==
  ASSUME NEW rec \in Payloads, NEW place \in {"path", "query", "header"},
         params = Recalled(rec, Operations[rec.ep].params)
  PROVE  In(place) = [n \in NamesIn(rec.ep, place) \cap DOMAIN Bag(rec, place) |-> Bag(rec, place)[n]]
<1>. DEFINE declared == Operations[rec.ep].params
            typed == Filled(params)
            there == {q \in DOMAIN typed : q.in = place}
            names == {p.name : p \in there}
            bag == Bag(rec, place)
<1>1. declared \subseteq [in : STRING, name : STRING]
  BY PageAssumption DEF Payloads
<1>2. NoValue \notin Kept
  BY PageAssumption DEF Kept, NoValue, MaskText, JSONType
<1>3. bag \in [DOMAIN bag -> Kept]
  BY MapsAre DEF Payloads, Bag
<1>. HIDE DEF bag
<1>4. \A p \in declared : p.in = place =>
        params[p] = IF p.name \in DOMAIN bag THEN bag[p.name] ELSE NoValue
  BY DEF Recalled, bag
<1>5. ASSUME NEW p \in declared, p.in = place
      PROVE  /\ p \in DOMAIN typed <=> p.name \in DOMAIN bag
             /\ p \in DOMAIN typed => typed[p] = bag[p.name]
  <2>1. DOMAIN params = declared
    BY DEF Recalled
  <2>. QED  BY <1>2, <1>3, <1>4, <1>5, <2>1 DEF Filled
<1>6. DOMAIN typed \subseteq declared
  BY DEF Filled, Recalled
<1>. HIDE DEF typed
<1>7. names = NamesIn(rec.ep, place) \cap DOMAIN bag
  <2>1. \A p \in there : p \in declared /\ p.in = place /\ p.name \in DOMAIN bag
    BY <1>5, <1>6
  <2>2. \A p \in declared : p.in = place /\ p.name \in DOMAIN bag => p \in there
    BY <1>5
  <2>. QED  BY <2>1, <2>2 DEF NamesIn
<1>8. ASSUME NEW n \in names
      PROVE  typed[[in |-> place, name |-> n]] = bag[n]
  <2>1. PICK p \in there : p.name = n
    OBVIOUS
  <2>2. p \in declared /\ p \in [in : STRING, name : STRING] /\ p.in = place
    BY <1>1, <1>6
  <2>3. p = [in |-> place, name |-> n]
    BY <2>1, <2>2
  <2>. QED  BY <1>5, <2>1, <2>2, <2>3
<1>9. In(place) = [n \in names |-> typed[[in |-> place, name |-> n]]]
  BY DEF In, typed
<1>. HIDE DEF names
<1>. QED  BY <1>7, <1>8, <1>9 DEF bag

LEMMA AllRecalledIn ==
  ASSUME NEW rec \in Payloads, NEW place \in {"path", "query"},
         params = Recalled(rec, Operations[rec.ep].params),
         DOMAIN Bag(rec, place) \subseteq NamesIn(rec.ep, place)
  PROVE  In(place) = Bag(rec, place)
<1>. DEFINE bag == Bag(rec, place)
            names == NamesIn(rec.ep, place)
<1>1. bag \in [DOMAIN bag -> Kept]
  BY MapsAre DEF Payloads, Bag
<1>2. In(place) = [n \in names \cap DOMAIN bag |-> bag[n]]
  BY RecalledIn
<1>3. names \cap DOMAIN bag = DOMAIN bag
  OBVIOUS
<1>. HIDE DEF bag, names
<1>4. In(place) = [n \in DOMAIN bag |-> bag[n]]
  BY <1>2, <1>3
<1>5. In(place) = bag
  BY <1>1, <1>4
<1>. QED  BY <1>5 DEF bag
-----------------------------------------------------------------------------
\* Whatever is typed, restored, listed and recorded is of its type: the form always
\* has exactly the fields of the operation that is selected.
THEOREM PageTypeCorrect == Spec => []TypeOK
<1>1. ASSUME Inv PROVE TypeOK
  <2>1. /\ envId \in Envs /\ endpoint \in DOMAIN Operations \cup {NoOperation}
        /\ bodyMode \in {"form", "json"} /\ json \in Texts
        /\ params \in [ParamsOf(endpoint) -> Kept \cup {NoValue}]
        /\ form \in [FieldsOf(endpoint) -> Values \cup {NoValue}]
    BY <1>1 DEF Inv, FormTyped
  <2>3. params \in [IF endpoint # NoOperation THEN Operations[endpoint].params ELSE {}
                      -> Kept \cup {NoValue}]
    BY <2>1 DEF ParamsOf
  <2>4. form \in [IF endpoint # NoOperation THEN Fields(endpoint) ELSE {}
                    -> Values \cup {NoValue}]
    BY <2>1 DEF FieldsOf
  <2>5. \A i \in DOMAIN posted : posted[i] \in Payloads
    <3>1. CASE posted = <<>>
      BY <3>1, EmptySeq
    <3>2. CASE posted # <<>>
      <4>1. posted = <<posted[1]>> /\ posted[1] \in Payloads
        BY <1>1, <3>2 DEF Inv, PostedTyped
      <4>2. \A e : DOMAIN <<e>> = {1}
        OBVIOUS
      <4>. QED  BY <4>1, <4>2
    <3>. QED  BY <3>1, <3>2
  <2>6. /\ \A i \in DOMAIN shown.list : shown.list[i] \in H!Items
        /\ shown.boot \in 1 .. boots
    BY <1>1, ElementOfSeq, LenProperties DEF Inv, ShownNamed
  <2>7. \A i \in DOMAIN items : items[i] \in H!Items
    BY <1>1, RingNames, ElementOfSeq, LenProperties DEF Inv
  <2>. QED  BY <2>1, <2>3, <2>4, <2>5, <2>6, <2>7 DEF TypeOK
<1>. QED  BY <1>1, PageInvariant, PTL

\* However long a list stays on the page, a click restores what it showed, as long
\* as the server runs.
THEOREM RestoresAsListed == Spec => []RestoresWhatWasListed
<1>1. Inv => RestoresWhatWasListed
  BY DEF Inv
<1>. QED  BY <1>1, PageInvariant, PTL

\* A restored form that nobody has touched sends what was recorded, but for headers
\* of which the history keeps another name or the mask, and a body that was empty.
THEOREM ResendsAsRecorded == Spec => []ResendsWhatWasRecorded
<1>1. Init => AsRestored
  BY DEF Init, AsRestored
<1>2. Inv /\ AsRestored => ResendsWhatWasRecorded
  <2>. DEFINE rec == restored[1].got.rec
  <2>0. AsRestored => DOMAIN restored = {} \/ (DOMAIN restored = {1} /\ restored # <<>>)
    <3>1. \A e : DOMAIN <<e>> = {1}
      OBVIOUS
    <3>2. CASE restored = <<>>
      BY <3>2, EmptySeq
    <3>3. CASE restored # <<>>
      <4>1. ASSUME AsRestored PROVE DOMAIN restored = {1}
        BY <3>1, <3>3, <4>1 DEF AsRestored
      <4>. QED  BY <3>3, <4>1
    <3>. QED  BY <3>2, <3>3
  <2>. SUFFICES ASSUME Inv, AsRestored, restored # <<>>, rec.ep \in DOMAIN Operations
                PROVE  ResendsWhatWasRecorded
    BY <2>0 DEF ResendsWhatWasRecorded
  <2>1. /\ rec \in Payloads
        /\ envId = rec.env /\ endpoint = rec.ep
        /\ params = Recalled(rec, Operations[rec.ep].params)
        /\ form = BlankForm(rec.ep)
        /\ IF rec.body = NoText THEN json = FirstText(rec.ep)
                                ELSE json = rec.body /\ bodyMode = "json"
    <3>1. rec \in Records
      BY DEF AsRestored
    <3>2. rec \in Payloads
      BY <3>1, PageAssumption DEF Records
    <3>. QED  BY <3>2 DEF AsRestored
  <2>2. DOMAIN restored = {1}
    <3>1. restored = <<restored[1]>> /\ \A e : DOMAIN <<e>> = {1}
      BY DEF AsRestored
    <3>. QED  BY <3>1
  <2>. HIDE DEF rec
  <2>3. /\ DOMAIN rec.path \subseteq NamesIn(rec.ep, "path")
        /\ DOMAIN rec.query \subseteq NamesIn(rec.ep, "query")
        /\ rec.path \in Maps(ParamNames) /\ rec.query \in Maps(ParamNames)
        /\ rec.body # NoText => Operations[rec.ep].body # <<>>
    BY <2>1 DEF Payloads
  <2>4. Bag(rec, "path") = rec.path /\ Bag(rec, "query") = rec.query
    BY DEF Bag
  <2>5. In("path") = rec.path
    BY <2>1, <2>3, <2>4, AllRecalledIn
  <2>6. In("query") = rec.query
    BY <2>1, <2>3, <2>4, AllRecalledIn
  <2>7. In("header") = [n \in NamesIn(rec.ep, "header") \cap DOMAIN rec.headers |-> rec.headers[n]]
    BY <2>1, RecalledIn DEF Bag
  <2>8. FromForm = json
    <3>1. DOMAIN Filled(form) = {}
      BY <2>1 DEF BlankForm, Filled
    <3>. QED  BY <3>1 DEF FromForm
  <2>9. Body = IF rec.body = NoText THEN FirstText(rec.ep) ELSE rec.body
    <3>1. CASE rec.body = NoText
      BY <2>1, <2>8, <3>1 DEF Body, FirstText
    <3>2. CASE rec.body # NoText
      BY <2>1, <2>3, <3>2 DEF Body
    <3>. QED  BY <3>1, <3>2
  <2>10. /\ Collected.env = rec.env /\ Collected.ep = rec.ep
         /\ Collected.path = rec.path /\ Collected.query = rec.query
         /\ Collected.headers = In("header") /\ Collected.body = Body
    BY <2>1, <2>5, <2>6 DEF Collected
  <2>. QED  BY <2>2, <2>7, <2>9, <2>10 DEF ResendsWhatWasRecorded, rec
<1>. QED  BY <1>1, <1>2, AsRestoredStep, PageInvariant, PTL DEF Spec

\* Between form and editor the body stays as it would be sent, but for a text that
\* is given up for a filled form.
THEOREM SwitchingKeeps == Spec => SwitchingKeepsBody
<1>. DEFINE Keeps(mode) == Body' = Body
                           \/ (bodyMode = "json" /\ mode = "form" /\ DOMAIN Filled(form) # {})
<1>1. ASSUME Inv, NEW mode \in {"form", "json"}, SwitchMode(mode)
      PROVE  Keeps(mode)
  <2>1. /\ bodyMode \in {"form", "json"} /\ bodyMode' = mode
        /\ UNCHANGED <<envId, endpoint, params, form>>
        /\ json' = IF bodyMode = "form" /\ mode = "json" /\ FromForm # NoText
                     THEN FromForm ELSE json
    BY <1>1 DEF SwitchMode, Inv, FormTyped
  <2>2. Body' = IF Operations[endpoint].body = <<>> THEN NoText
                ELSE IF mode = "form"
                       THEN IF DOMAIN Filled(form) = {} THEN json' ELSE Built(Filled(form))
                       ELSE json'
    BY <2>1 DEF Body, FromForm
  <2>3. DOMAIN Filled(form) # {} => FromForm # NoText
    BY DEF FromForm, Built, NoText
  <2>4. CASE mode = bodyMode
    BY <2>1, <2>2, <2>4 DEF Body, FromForm
  <2>5. CASE bodyMode = "form" /\ mode = "json"
    BY <2>1, <2>2, <2>3, <2>5 DEF Body, FromForm
  <2>6. CASE bodyMode = "json" /\ mode = "form"
    BY <2>1, <2>2, <2>6 DEF Body
  <2>. QED  BY <2>1, <2>4, <2>5, <2>6
<1>2. Inv /\ [Next]_vars =>
        [\A mode \in {"form", "json"} : endpoint # NoOperation /\ SwitchMode(mode) =>
           Body' = Body \/ (bodyMode = "json" /\ mode = "form" /\ DOMAIN Filled(form) # {})]_vars
  BY <1>1
<1>. QED  BY <1>2, PageInvariant, PTL DEF Spec, SwitchingKeepsBody
=============================================================================
