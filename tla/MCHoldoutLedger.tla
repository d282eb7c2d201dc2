-------------------------- MODULE MCHoldoutLedger --------------------------
(***************************************************************************)
(* Small instances for TLC.  A behaviour is about the ledger file, which   *)
(* processes share, or about one author, who evaluates protocols against   *)
(* the write-once cells that the file implements.                          *)
(***************************************************************************)
EXTENDS HoldoutLedger, Evaluation, TLC

CONSTANTS s1, s2, success, cost

VARIABLE part  \* "file" or "author"

\* Thresholds that the results meet in full, in part or not at all, and
\* results that leave out a seed, or a metric that is not required.
SmallBars == {(success :> 1) @@ (cost :> 1), (success :> 2) @@ (cost :> 1)}

Found(a, b) == (s1 :> a) @@ (s2 :> b)
SmallResults ==
  { (success :> Found(0, 2)) @@ (cost :> Found(1, 3)), success :> Found(1, 1),
    success :> (s1 :> 2), (success :> Found(2, 3)) @@ (cost :> (s2 :> 0)) }

PartsInit ==
  /\ Init
  /\ \/ part = "file" /\ protocols = {} /\ spent = NoReceipts /\ returned = <<>> /\ grant = None
     \/ part = "author" /\ StudyInit

InFile(A) == part = "file" /\ A /\ UNCHANGED <<part, studyVars>>

\* An authorization depends on nothing but what is presented, and nothing
\* follows from it.
AuthorNext ==
  /\ part = "author" /\ grant = None
  /\ \/ Study
     \/ returned = <<>> /\ Govern
  /\ UNCHANGED <<part, vars>>

PartsNext == InFile(Next) \/ AuthorNext

PartsSpec ==
  /\ PartsInit /\ [][PartsNext]_<<part, vars, studyVars>>
  /\ \A p \in Process : WF_vars(InFile(Work(p)))

=============================================================================
