------------------------------ MODULE History -------------------------------
(***************************************************************************)
(* request/history.go: the in-memory ring of recent requests.              *)
(*                                                                         *)
(* Each method of History runs wholly under h.mu, so each is one action    *)
(* (Add, Clear) or one operator on the state (List, Get).  The fields of   *)
(* an item that only travel through the ring are one opaque record; the id *)
(* is the field the ring itself assigns.                                   *)
(*                                                                         *)
(* journal and floor are auxiliary: they remember every request that was   *)
(* added and how many had been when the ring was last cleared.  No action  *)
(* reads them; the properties compare the ring with them.                  *)
(***************************************************************************)
EXTENDS Integers, Sequences

CONSTANTS Records,    \* the contents an item may carry, ids apart
          NoRecord,   \* the contents of the zero HistoryItem
          MaxSize     \* the argument of NewHistory

ASSUME HistoryAssumption == MaxSize \in Int

VARIABLES items,      \* h.items, oldest first
          nextID,     \* h.nextID
          journal,    \* auxiliary: every record added, in order
          floor       \* auxiliary: Len(journal) at the last Clear

vars == <<items, nextID, journal, floor>>

Capacity == IF MaxSize <= 0 THEN 50 ELSE MaxSize

Init == /\ items = <<>>
        /\ nextID = 1
        /\ journal = <<>>
        /\ floor = 0

\* The last Capacity elements of s, all of it when it is shorter.
TrimEarly(s) == IF Len(s) >= Capacity THEN SubSeq(s, 2, Len(s)) ELSE s
Trim(s) == IF Len(s) > Capacity
             THEN SubSeq(s, Len(s) - Capacity + 1, Len(s))
             ELSE s

Add(r) == /\ items' = Trim(Append(items, [id |-> nextID, rec |-> r]))
          /\ nextID' = nextID + 1
          /\ journal' = Append(journal, r)
          /\ floor' = floor

\* The ids go on where they were: a cleared id is not given out again.
ClearRestarting == /\ items' = <<>>
                   /\ nextID' = 1
                   /\ journal' = journal
                   /\ floor' = Len(journal)
Clear == /\ items' = <<>>
         /\ nextID' = nextID
         /\ journal' = journal
         /\ floor' = Len(journal)

ListOldestFirst == items
List == [k \in 1 .. Len(items) |-> items[Len(items) + 1 - k]]

\* The linear scan returns the first item with the id.
GetByPlace(id) ==
  IF id \in DOMAIN items
    THEN [ok |-> TRUE, item |-> items[id]]
    ELSE [ok |-> FALSE, item |-> [id |-> 0, rec |-> NoRecord]]
Get(id) ==
  IF \E i \in DOMAIN items : items[i].id = id
    THEN [ok |-> TRUE,
          item |-> items[CHOOSE i \in DOMAIN items :
                           /\ items[i].id = id
                           /\ \A j \in 1 .. i - 1 : items[j].id # id]]
    ELSE [ok |-> FALSE, item |-> [id |-> 0, rec |-> NoRecord]]

Next == Clear \/ \E r \in Records : Add(r)

Spec == Init /\ [][Next]_vars
-----------------------------------------------------------------------------
Items == [id : Nat \ {0}, rec : Records]

\* Every variable of the ring stays within its type, the ring within the size
\* NewHistory was given, and the counter one ahead of the last id given out.
TypeOK == /\ items \in Seq(Items)
          /\ Len(items) <= Capacity
          /\ journal \in Seq(Records)
          /\ floor \in 0 .. Len(journal)
          /\ nextID = Len(journal) + 1

\* The last id that the ring no longer holds.
Gone == IF Len(journal) - Capacity > floor THEN Len(journal) - Capacity
                                           ELSE floor

\* Add and Clear together keep exactly the requests made since the last Clear,
\* the newest Capacity of them at most, in the order of their ids and each
\* with the contents it was added with: nothing is lost early, kept late,
\* duplicated or moved, however additions and clears alternate.
RingIsWindow ==
  items = [k \in 1 .. Len(journal) - Gone |->
             [id |-> Gone + k, rec |-> journal[Gone + k]]]

\* Get finds a request by its id exactly while the ring still holds it, and
\* what it finds is the request that was given that id, however often the ring
\* was trimmed or cleared in between.
GetFindsTheRequest ==
  \A id \in 0 .. Len(journal) + 1 :
    Get(id) = IF id > Gone /\ id <= Len(journal)
                THEN [ok |-> TRUE,
                      item |-> [id |-> id, rec |-> journal[id]]]
                ELSE [ok |-> FALSE, item |-> [id |-> 0, rec |-> NoRecord]]

\* To a reader, List in front of Add and Clear is the journal: the ring can be
\* replaced by an append-only log of which the newest part is shown.
Journal == INSTANCE RequestJournal WITH Window <- Capacity, listing <- List
RefinesJournal == Journal!Spec
=============================================================================
