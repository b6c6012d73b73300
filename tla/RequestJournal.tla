--------------------------- MODULE RequestJournal ---------------------------
(***************************************************************************)
(* What request.History promises to its callers, without its mechanism.    *)
(*                                                                         *)
(* Every recorded request takes the next place in an append-only journal   *)
(* and keeps that place, its id, forever.  Clearing the history raises a   *)
(* floor under which nothing is shown any more.  What a reader is shown is *)
(* the listing: the requests above the floor, newest first, the newest     *)
(* Window of them at most.                                                 *)
(***************************************************************************)
EXTENDS Integers, Sequences

CONSTANTS Records,    \* what a request leaves behind, ids apart
          Window      \* how many requests a reader is shown at most

VARIABLES journal,    \* every request ever recorded, at the place of its id
          floor,      \* the last id that was cleared away, 0 for none
          listing     \* what a reader is shown, newest first

journalVars == <<journal, floor, listing>>

\* The last id that is not shown: it was cleared, or Window newer ones came.
Hidden(j, f) == IF Len(j) - Window > f THEN Len(j) - Window ELSE f

\* The listing that journal j and floor f call for.
Listing(j, f) ==
  [k \in 1 .. Len(j) - Hidden(j, f) |->
     [id |-> Len(j) + 1 - k, rec |-> j[Len(j) + 1 - k]]]

Init == /\ journal = <<>>
        /\ floor = 0
        /\ listing = <<>>

Record(r) == /\ journal' = Append(journal, r)
             /\ floor' = floor
             /\ listing' = Listing(journal', floor')

Forget == /\ journal' = journal
          /\ floor' = Len(journal)
          /\ listing' = <<>>

Next == Forget \/ \E r \in Records : Record(r)

Spec == Init /\ [][Next]_journalVars
=============================================================================
