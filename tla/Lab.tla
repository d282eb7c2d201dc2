--------------------------------- MODULE Lab ---------------------------------
(***************************************************************************)
(* The lab: an episode fed from source, the justification memory, the      *)
(* planner and the budget pool.  They call each other nowhere and share    *)
(* nothing, so that a behaviour is about one of them, and an episode is    *)
(* fed through the literal bridge or through the host bridge.              *)
(***************************************************************************)
EXTENDS LabSession, LabMemory, LabPlanner, LabBudget

CONSTANT
  MaxHappenings   \* bound on edits, tampers and reports together, host bridge;
                  \* a report by another tool or in another mode counts twice

ASSUME HappeningsBound == MaxHappenings \in Nat

VARIABLE
  part  \* what the behaviour is about

session == vars
lab == <<part, session, memory, planning, pool>>

\* A host episode is about one catalog.
Parts == [is : {"source", "memory", "plan", "pool"}] \cup [is : {"host"}, catalog : Catalogs]

\* A host episode begins with text; other bytes come by edits during the
\* capture or later.
LabInit ==
  /\ part \in Parts
  /\ Init /\ MemoryInit /\ PlanInit /\ BudgetInit
  /\ part.is \in {"memory", "plan", "pool"} => content = [path \in Path |-> CHOOSE b \in Bytes : TRUE]
  /\ part.is = "host" => \A path \in Path : content[path].text
  /\ part.is # "plan" => model = CHOOSE m \in Models : TRUE

SealedBy(domain) == chain # <<>> => chain[1].binding[1] = domain

Stray(r) == r.tool # part.catalog[r.probe].tool \/ r.mode = "SOURCE_ONLY"

Happenings ==
  edits + tampers + Len(reports) + Cardinality({i \in DOMAIN reports : Stray(reports[i])})
    + (IF work.op # "tool" THEN 0 ELSE IF Stray(work) THEN 2 ELSE 1)

\* The episode belongs to the part, and stays within its bounds.  A change
\* of a file that nobody has read yet gives another initial state; the
\* literal bridge compares no dates but those of the chain.
Within ==
  /\ snapshot = None /\ work = Idle => edits = 0
  /\ CASE part.is = "source" ->
              /\ work.op \notin {"tool", "apply"} /\ now = 0
              /\ SealedBy("lab.source-session.binding.v1")
         [] part.is = "host" ->
              /\ work.op # "observe" /\ SealedBy("lab.host-session.binding.v1")
              /\ work.op = "tool" => work.spec = part.catalog[work.probe]
              /\ chain # <<>> => chain[1].binding[2][2] = part.catalog
              /\ Happenings <= MaxHappenings

SessionSteps ==
  part.is \in {"source", "host"} /\ Next /\ UNCHANGED <<part, memory, planning, pool>> /\ Within'
MemorySteps == part.is = "memory" /\ MemoryNext /\ UNCHANGED <<part, session, planning, pool>>
PlannerSteps == part.is = "plan" /\ PlanNext /\ UNCHANGED <<part, session, memory, pool>>
BudgetSteps == part.is = "pool" /\ BudgetNext /\ UNCHANGED <<part, session, memory, planning>>

LabNext == SessionSteps \/ MemorySteps \/ PlannerSteps \/ BudgetSteps
LabSpec == LabInit /\ [][LabNext]_lab

-----------------------------------------------------------------------------
\* The variables of every part have their types.
PartsTypeOK == TypeOK /\ MemoryTypeOK /\ PlanTypeOK /\ BudgetTypeOK
=============================================================================
