------------------------------- MODULE LabBudget -------------------------------
(***************************************************************************)
(* The budget pool of a routed lab (lab/routing.py): maxima are reserved   *)
(* against one total before the work, and settled after it at what it      *)
(* cost, which may be unknown, less than was reserved, or more.  A pool is *)
(* a value: reserve_budget and settle_budget return the next one.          *)
(***************************************************************************)
EXTENDS Integers, FiniteSets, FiniteSetsExt

CONSTANTS
  PoolTotal,
  Reservation,  \* ids of reservations
  MaxCost,      \* bound on maxima and on actual costs
  MaxDate,      \* bound on dates
  Nil

ASSUME BudgetBounds ==
  {PoolTotal, MaxCost, MaxDate} \subseteq Nat /\ IsFiniteSet(Reservation)

VARIABLES
  reserved,  \* by id: Nil or [max, parent, at]
  charged    \* by id: Nil or [cost, actual, at]

pool == <<reserved, charged>>

Date == 0..MaxDate
Cost == 0..MaxCost

Reserving == [max : Cost, parent : Reservation \cup {Nil}, at : Date]
Charging == [cost : Cost, actual : BOOLEAN, at : Date]

\* What is not there is told from what is.
ASSUME NilIsNothing == Nil \notin Reserving \cup Charging

Known == {id \in Reservation : reserved[id] # Nil}
Settled == {id \in Reservation : charged[id] # Nil}

Outstanding == MapThenSumSet(LAMBDA id : reserved[id].max, Known \ Settled)
Spent == MapThenSumSet(LAMBDA id : charged[id].cost, Settled)

\* Mutant: a settled reservation frees all of its maximum.
AvailableUnspent == PoolTotal - Outstanding

\* Negative after an overrun.
Available == PoolTotal - Outstanding - Spent

BudgetInit ==
  /\ reserved = [id \in Reservation |-> Nil]
  /\ charged = [id \in Reservation |-> Nil]

\* reserve_budget: a nested reservation names one that was made before, by
\* date too; whether its parent was settled meanwhile does not matter.
Reserve(id, max, parent, at) ==
  /\ id \notin Known
  /\ parent # Nil => parent \in Known /\ reserved[parent].at <= at
  /\ max <= Available
  /\ reserved' = [reserved EXCEPT ![id] = [max |-> max, parent |-> parent, at |-> at]]
  /\ UNCHANGED charged

\* settle_budget, whatever came of the work: without an actual cost, at the
\* maximum.
Settle(id, actual, at) ==
  /\ id \in Known \ Settled
  /\ reserved[id].at <= at
  /\ charged' = [charged EXCEPT ![id] =
       [cost |-> IF actual = Nil THEN reserved[id].max ELSE actual,
        actual |-> actual # Nil, at |-> at]]
  /\ UNCHANGED reserved

BudgetNext ==
  \E id \in Reservation, at \in Date :
    \/ \E max \in Cost, parent \in Known \cup {Nil} : Reserve(id, max, parent, at)
    \/ \E actual \in Cost \cup {Nil} : Settle(id, actual, at)

BudgetSpec == BudgetInit /\ [][BudgetNext]_pool

-----------------------------------------------------------------------------
(* Correctness.                                                            *)

\* Only what was reserved is settled.
BudgetTypeOK ==
  /\ \A id \in Known : reserved[id].max \in Cost /\ reserved[id].parent \in Known \cup {Nil}
  /\ Settled \subseteq Known /\ \A id \in Settled : charged[id].cost \in Cost

\* By how much actual costs went beyond what was reserved for them.
Overrun ==
  MapThenSumSet(LAMBDA id : Max({0, charged[id].cost - reserved[id].max}), Settled)

\* The pool is never short of more than declared actual costs went beyond
\* their own maxima, in whatever order reservations nest, settle and fail:
\* nothing is reserved on what was already promised or spent, and a cost
\* that nobody knows is never given back (reserve_budget, settle_budget).
BudgetHolds == Outstanding + Spent <= PoolTotal + Overrun
=============================================================================
