----------------------------- MODULE WriteOnce -----------------------------
(***************************************************************************)
(* What the holdout ledger promises: each key is written at most once, and *)
(* what was written stays.                                                 *)
(***************************************************************************)
CONSTANTS Key, Value, Empty

VARIABLE cell

Init == cell = [k \in Key |-> Empty]

Write(k, v) ==
  /\ cell[k] = Empty
  /\ cell' = [cell EXCEPT ![k] = v]

Next == \E k \in Key, v \in Value : Write(k, v)

Spec == Init /\ [][Next]_cell
=============================================================================
