----------------------------- MODULE MCHistory ------------------------------
(* A ring of two places and requests of two kinds; MaxAdds bounds how many  *)
(* are added.  The ring is trimmed and cleared in every order.              *)
EXTENDS History
CONSTANTS r1, r2, MaxAdds
MCRecords == {r1, r2}
MCNext == \/ Clear
          \/ Len(journal) < MaxAdds /\ \E r \in Records : Add(r)
MCSpec == Init /\ [][MCNext]_vars
=============================================================================
