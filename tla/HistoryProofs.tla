--------------------------- MODULE HistoryProofs ----------------------------
(***************************************************************************)
(* The history ring implements the request journal, for every capacity and *)
(* every number of requests.                                               *)
(*                                                                         *)
(* TypeOK and RingIsWindow together are inductive: that the ring is the    *)
(* newest part of the journal gives its length, which decides whether Add  *)
(* trims, and TypeOK gives the id that Add assigns.  The refinement and    *)
(* what Get finds follow from the two.                                     *)
(***************************************************************************)
EXTENDS History, TLAPS, SequenceTheorems

Inv == TypeOK /\ RingIsWindow

\* The ring has a capacity of at least one, whatever NewHistory is given.
LEMMA CapacityPositive == Capacity \in Nat \ {0}
BY HistoryAssumption DEF Capacity

\* The ring has as many items as the journal has requests that are not gone.
LEMMA RingLength ==
  ASSUME TypeOK, RingIsWindow
  PROVE  /\ Gone \in 0 .. Len(journal)
         /\ Len(journal) \in Nat
         /\ Len(items) = Len(journal) - Gone
<1>1. Len(journal) \in Nat
  BY LenProperties DEF TypeOK
<1>2. Gone \in 0 .. Len(journal)
  BY <1>1, CapacityPositive DEF TypeOK, Gone
<1>3. DOMAIN items = 1 .. Len(journal) - Gone
  BY DEF RingIsWindow
<1>4. DOMAIN items = 1 .. Len(items) /\ Len(items) \in Nat
  BY LenProperties DEF TypeOK
<1>. QED  BY <1>1, <1>2, <1>3, <1>4

\* An addition to a full ring moves the window by one, else it widens it.
LEMMA AddKeepsInv ==
  ASSUME Inv, NEW r \in Records, Add(r)
  PROVE  Inv'
<1>. DEFINE n == Len(journal)
            item == [id |-> nextID, rec |-> r]
            grown == Append(items, item)
<1>1. /\ n \in Nat
      /\ Gone \in 0 .. n
      /\ Len(items) = n - Gone
      /\ nextID = n + 1
      /\ Capacity \in Nat \ {0}
      /\ floor \in 0 .. n
  BY RingLength, CapacityPositive DEF Inv, TypeOK
<1>2. item \in Items /\ items \in Seq(Items)
  BY <1>1 DEF Items, Inv, TypeOK
<1>3. /\ grown \in Seq(Items)
      /\ Len(grown) = n - Gone + 1
      /\ \A k \in 1 .. n - Gone : grown[k] = items[k]
      /\ grown[n - Gone + 1] = item
  BY <1>1, <1>2, AppendProperties
<1>4. /\ journal' \in Seq(Records)
      /\ Len(journal') = n + 1
      /\ \A k \in 1 .. n : journal'[k] = journal[k]
      /\ journal'[n + 1] = r
  BY AppendProperties DEF Inv, TypeOK, Add
<1>5. \A k \in 1 .. n - Gone + 1 :
        grown[k] = [id |-> Gone + k, rec |-> journal'[Gone + k]]
  <2>. SUFFICES ASSUME NEW k \in 1 .. n - Gone + 1
                PROVE  grown[k] = [id |-> Gone + k, rec |-> journal'[Gone + k]]
    OBVIOUS
  <2>1. CASE k = n - Gone + 1
    <3>1. Gone + k = n + 1
      BY <1>1, <2>1
    <3>. QED  BY <1>1, <1>3, <1>4, <2>1, <3>1
  <2>2. CASE k # n - Gone + 1
    <3>1. k \in 1 .. n - Gone /\ Gone + k \in 1 .. n
      BY <1>1, <2>2
    <3>2. items[k] = [id |-> Gone + k, rec |-> journal[Gone + k]]
      BY <3>1 DEF Inv, RingIsWindow
    <3>. QED  BY <1>3, <1>4, <3>1, <3>2
  <2>. QED  BY <2>1, <2>2
<1>6. Gone' = IF Len(grown) > Capacity THEN Gone + 1 ELSE Gone
  <2>1. Gone' = IF n + 1 - Capacity > floor THEN n + 1 - Capacity ELSE floor
    <3>1. Capacity' = Capacity
      BY DEF Capacity
    <3>. QED  BY <1>1, <1>4, <3>1 DEF Gone, Add
  <2>2. Gone = IF n - Capacity > floor THEN n - Capacity ELSE floor
    BY DEF Gone
  <2>. QED  BY <1>1, <1>3, <2>1, <2>2
<1>7. /\ items' \in Seq(Items)
      /\ Len(items') = (n + 1) - Gone'
      /\ Len(items') <= Capacity
      /\ \A k \in 1 .. (n + 1) - Gone' :
           items'[k] = [id |-> Gone' + k, rec |-> journal'[Gone' + k]]
  <2>1. CASE Len(grown) > Capacity
    <3>1. Len(grown) = Capacity + 1
      <4>1. Len(items) <= Capacity
        BY DEF Inv, TypeOK
      <4>. QED  BY <1>1, <1>3, <2>1, <4>1
    <3>2. items' = SubSeq(grown, 2, Len(grown))
      <4>1. Len(grown) - Capacity + 1 = 2
        BY <1>1, <3>1
      <4>. QED  BY <2>1, <4>1 DEF Add, Trim
    <3>3. /\ items' \in Seq(Items)
          /\ Len(items') = Len(grown) - 1
          /\ \A k \in 1 .. Len(grown) - 1 : items'[k] = grown[k + 1]
      <4>1. 2 \in 1 .. Len(grown) + 1 /\ Len(grown) \in 1 .. Len(grown)
        BY <1>1, <3>1
      <4>. QED  BY <1>1, <1>3, <3>1, <3>2, <4>1, SubSeqProperties
    <3>4. Gone' = Gone + 1
      BY <1>6, <2>1
    <3>5. ASSUME NEW k \in 1 .. (n + 1) - Gone'
          PROVE  items'[k] = [id |-> Gone' + k, rec |-> journal'[Gone' + k]]
      <4>1. /\ k \in 1 .. Len(grown) - 1
            /\ k + 1 \in 1 .. n - Gone + 1
            /\ Gone + (k + 1) = Gone' + k
        BY <1>1, <1>3, <3>4
      <4>2. items'[k] = grown[k + 1]
        BY <3>3, <4>1
      <4>. QED  BY <1>5, <4>1, <4>2
    <3>. QED  BY <1>1, <1>3, <3>1, <3>3, <3>4, <3>5
  <2>2. CASE ~(Len(grown) > Capacity)
    <3>1. items' = grown
      BY <2>2 DEF Add, Trim
    <3>2. Gone' = Gone
      BY <1>6, <2>2
    <3>. QED  BY <1>1, <1>3, <1>5, <2>2, <3>1, <3>2
  <2>. QED  BY <2>1, <2>2
<1>8. TypeOK'
  <2>1. floor' \in 0 .. Len(journal')
    BY <1>1, <1>4 DEF Add
  <2>2. nextID' = Len(journal') + 1
    BY <1>1, <1>4 DEF Add
  <2>3. Capacity' = Capacity
    BY DEF Capacity
  <2>4. items' \in Seq(Items)'
    BY <1>7 DEF Items
  <2>5. Len(items') <= Capacity'
    BY <1>7, <2>3
  <2>. QED  BY <1>4, <2>1, <2>2, <2>4, <2>5 DEF TypeOK
<1>9. RingIsWindow'
  <2>1. items' \in [1 .. Len(items') -> Items]
    BY <1>7, LenProperties
  <2>2. /\ DOMAIN items' = 1 .. Len(journal') - Gone'
        /\ items' = [k \in DOMAIN items' |-> items'[k]]
    BY <1>4, <1>7, <2>1
  <2>3. Len(journal') - Gone' = (n + 1) - Gone'
    BY <1>4
  <2>. QED  BY <1>7, <2>2, <2>3 DEF RingIsWindow
<1>. QED  BY <1>8, <1>9 DEF Inv

\* Clear leaves an empty window at the end of the journal.
LEMMA ClearKeepsInv ==
  ASSUME Inv, Clear
  PROVE  Inv'
<1>1. Len(journal) \in Nat /\ Capacity \in Nat \ {0}
  BY LenProperties, CapacityPositive DEF Inv, TypeOK
<1>2. Capacity' = Capacity
  BY DEF Capacity
<1>3. items' = << >> /\ Len(items') = 0
  BY DEF Clear
<1>4. TypeOK'
  BY <1>1, <1>2, <1>3 DEF Inv, TypeOK, Clear
<1>5. Gone' = Len(journal')
  BY <1>1, <1>2 DEF Gone, Clear
<1>6. RingIsWindow'
  <2>1. 1 .. Len(journal') - Gone' = {}
    BY <1>1, <1>5 DEF Clear
  <2>. QED  BY <1>3, <2>1 DEF RingIsWindow
<1>. QED  BY <1>4, <1>6 DEF Inv

\* The empty ring is the window of the empty journal.
LEMMA InitInv ==
  ASSUME Init
  PROVE  Inv
<1>1. Gone = 0 /\ TypeOK
  BY CapacityPositive DEF Init, Gone, TypeOK
<1>2. RingIsWindow
  <2>1. 1 .. Len(journal) - Gone = {}
    BY <1>1 DEF Init
  <2>. QED  BY <2>1 DEF Init, RingIsWindow
<1>. QED  BY <1>1, <1>2 DEF Inv

\* The ring's type, its bound and its contents, in every reachable state.
THEOREM HistoryInvariant == Spec => []Inv
<1>1. Inv /\ [Next]_vars => Inv'
  <2>. SUFFICES ASSUME Inv, [Next]_vars PROVE Inv'
    OBVIOUS
  <2>1. CASE Clear
    BY <2>1, ClearKeepsInv
  <2>2. ASSUME NEW r \in Records, Add(r) PROVE Inv'
    BY <2>2, AddKeepsInv
  <2>3. CASE UNCHANGED vars
    BY <2>3 DEF vars, Inv, TypeOK, RingIsWindow, Gone, Capacity, Items
  <2>. QED  BY <2>1, <2>2, <2>3 DEF Next
<1>. QED  BY InitInv, <1>1, PTL DEF Spec

\* The ring never outgrows its capacity, and ids are as many as requests.
THEOREM HistoryTypeCorrect == Spec => []TypeOK
<1>1. Inv => TypeOK
  BY DEF Inv
<1>. QED  BY <1>1, HistoryInvariant, PTL

\* The ring is the newest part of what was recorded since the last clear.
THEOREM RingKeepsTheNewest == Spec => []RingIsWindow
<1>1. Inv => RingIsWindow
  BY DEF Inv
<1>. QED  BY <1>1, HistoryInvariant, PTL
-----------------------------------------------------------------------------
\* An id is looked up by scanning for it, and found at the place that its
\* distance from the window's edge gives.
THEOREM GetFindsWhatWasAdded == Spec => []GetFindsTheRequest
<1>1. Inv => GetFindsTheRequest
  <2>. SUFFICES ASSUME Inv, NEW id \in 0 .. Len(journal) + 1
                PROVE  Get(id) = IF id > Gone /\ id <= Len(journal)
                         THEN [ok |-> TRUE,
                               item |-> [id |-> id, rec |-> journal[id]]]
                         ELSE [ok |-> FALSE,
                               item |-> [id |-> 0, rec |-> NoRecord]]
    BY DEF GetFindsTheRequest
  <2>1. /\ Gone \in 0 .. Len(journal)
        /\ Len(journal) \in Nat
    BY RingLength DEF Inv
  <2>2. /\ DOMAIN items = 1 .. Len(journal) - Gone
        /\ \A k \in DOMAIN items :
             items[k] = [id |-> Gone + k, rec |-> journal[Gone + k]]
    BY DEF Inv, RingIsWindow
  <2>3. CASE id > Gone /\ id <= Len(journal)
    <3>1. id - Gone \in DOMAIN items /\ Gone + (id - Gone) = id
      BY <2>1, <2>2, <2>3
    <3>2. items[id - Gone].id = id
      BY <2>2, <3>1
    <3>3. \A i \in DOMAIN items : items[i].id = id => i = id - Gone
      BY <2>1, <2>2
    <3>. DEFINE first == CHOOSE i \in DOMAIN items :
                           /\ items[i].id = id
                           /\ \A j \in 1 .. i - 1 : items[j].id # id
    <3>4. \A j \in 1 .. (id - Gone) - 1 : items[j].id # id
      <4>. SUFFICES ASSUME NEW j \in 1 .. (id - Gone) - 1, items[j].id = id
                    PROVE  FALSE
        OBVIOUS
      <4>1. j \in DOMAIN items
        BY <2>1, <2>2, <2>3
      <4>. QED  BY <2>1, <3>3, <4>1
    <3>5. first \in DOMAIN items /\ items[first].id = id
      BY <3>1, <3>2, <3>4
    <3>6. first = id - Gone
      BY <3>3, <3>5
    <3>7. Get(id) = [ok |-> TRUE, item |-> items[first]]
      BY <3>1, <3>2 DEF Get
    <3>. QED  BY <2>2, <2>3, <3>1, <3>6, <3>7
  <2>4. CASE ~(id > Gone /\ id <= Len(journal))
    <3>1. \A i \in DOMAIN items : items[i].id # id
      BY <2>1, <2>2, <2>4
    <3>. QED  BY <2>4, <3>1 DEF Get
  <2>. QED  BY <2>3, <2>4
<1>. QED  BY <1>1, HistoryInvariant, PTL
-----------------------------------------------------------------------------
\* The list that readers get is the listing the journal calls for.
LEMMA ListIsListing == Inv => List = Journal!Listing(journal, floor)
<1>. SUFFICES ASSUME Inv
              PROVE  List = Journal!Listing(journal, floor)
  OBVIOUS
<1>1. /\ Gone \in 0 .. Len(journal)
      /\ Len(journal) \in Nat
      /\ Len(items) = Len(journal) - Gone
  BY RingLength DEF Inv
<1>2. Journal!Hidden(journal, floor) = Gone
  BY DEF Journal!Hidden, Gone
<1>3. \A k \in 1 .. Len(items) :
        items[Len(items) + 1 - k] = [id |-> Len(journal) + 1 - k,
                                     rec |-> journal[Len(journal) + 1 - k]]
  <2>. SUFFICES ASSUME NEW k \in 1 .. Len(items)
                PROVE  items[Len(items) + 1 - k] =
                         [id |-> Len(journal) + 1 - k,
                          rec |-> journal[Len(journal) + 1 - k]]
    OBVIOUS
  <2>1. /\ Len(items) + 1 - k \in 1 .. Len(journal) - Gone
        /\ Gone + (Len(items) + 1 - k) = Len(journal) + 1 - k
    BY <1>1
  <2>. QED  BY <2>1 DEF Inv, RingIsWindow
<1>. QED  BY <1>1, <1>2, <1>3 DEF List, Journal!Listing

\* The ring implements the journal: a step of the ring is a step of it.
THEOREM HistoryImplementsJournal == Spec => RefinesJournal
<1>1. Init => Journal!Init
  <2>1. ASSUME Init PROVE List = << >>
    BY <2>1 DEF Init, List
  <2>. QED  BY <2>1 DEF Init, Journal!Init
<1>2. (List = Journal!Listing(journal, floor))' \/ ~Inv'
  BY ListIsListing, PTL
<1>3. Inv /\ Inv' /\ [Next]_vars => [Journal!Next]_(Journal!journalVars)
  <2>. SUFFICES ASSUME Inv, Inv', [Next]_vars
                PROVE  [Journal!Next]_(Journal!journalVars)
    OBVIOUS
  <2>1. List' = Journal!Listing(journal', floor')
    BY <1>2
  <2>2. CASE Clear
    <3>1. List' = << >>
      BY <2>2 DEF Clear, List
    <3>. QED  BY <2>2, <3>1 DEF Clear, Journal!Next, Journal!Forget
  <2>3. ASSUME NEW r \in Records, Add(r)
        PROVE  Journal!Record(r)
    BY <2>1, <2>3 DEF Add, Journal!Record
  <2>4. CASE UNCHANGED vars
    BY <2>4 DEF vars, List, Journal!journalVars
  <2>. QED  BY <2>2, <2>3, <2>4 DEF Next, Journal!Next
<1>. QED  BY <1>1, <1>3, HistoryInvariant, PTL
           DEF Spec, RefinesJournal, Journal!Spec
=============================================================================
