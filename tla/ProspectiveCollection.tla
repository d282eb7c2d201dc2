------------------------ MODULE ProspectiveCollection ------------------------
(***************************************************************************)
(* The prospective collection journal (prospective_collection/store.py):   *)
(* one preregistered plan, the decisions enrolled under it, how each case  *)
(* ended, and the manifest published when the collection is closed.  It is *)
(* composed with the reconciliation journal that it takes evidence from,   *)
(* which is another database that others write to.                         *)
(*                                                                         *)
(* A call stamps the time and checks what it can, and only then opens the  *)
(* transaction that checks again and commits: two steps.  (What is checked *)
(* only once, before, never changes.)  A reconciliation first has another, *)
(* the proof read from the tail of the other journal.  A manifest is read  *)
(* in five.  Anything may happen between two steps.                        *)
(*                                                                         *)
(* Strata are left out: a stratum is checked against the plan and copied.  *)
(* The seal of a chain stands for the rows that it covers.                 *)
(***************************************************************************)
EXTENDS Naturals, Sequences, FiniteSets, FiniteSetsExt, Seals

CONSTANTS
  Process,
  \* The plan.
  PlanCreated, NotBefore, MinimumEnd, HardEnd,
  Required,            \* power.required_enrollments
  MaxEnrollments,
  DecisionProducers,   \* identities that may not observe
  \* The reconciliation journal, and the records that exist.
  ReconciliationId, Decision, Producer, Instant, Binding,
  MaxReconciliationRevision, MaxEntries, MaxDamage, None,
  \* Bounds.
  Guarded,             \* the processes whose callers name a generation
  MaxClock,            \* the last instant
  MaxLosses            \* events that the storage may lose

ASSUME Calendar ==
  /\ {PlanCreated, NotBefore, MinimumEnd, HardEnd, MaxClock, MaxLosses} \subseteq Nat
  /\ PlanCreated <= NotBefore /\ NotBefore <= MinimumEnd /\ MinimumEnd <= HardEnd
  /\ PlanCreated <= MaxClock
ASSUME Dates == Instant \subseteq Nat
ASSUME Power == Required \in Nat \ {0} /\ MaxEnrollments \in Nat /\ Required <= MaxEnrollments

VARIABLES
  clock,
  state,      \* meta: "absent" until the journal is created
  events,     \* table events, by seq
  anchor,     \* meta: the durable anchor
  call,       \* the call each process is in, or None
  manifests,  \* every manifest that was published
  losses,     \* history: how often the storage lost an event
  entries, epoch_status, journal_anchor, committed, defects

Journal == INSTANCE Reconciliation WITH anchor <- journal_anchor

collection == <<state, events, anchor>>
source == <<entries, epoch_status, journal_anchor, committed, defects>>
vars == <<clock, collection, call, manifests, losses, source>>

-----------------------------------------------------------------------------
(* Cases, read off the events.                                             *)

CaseId(d) == <<d.id, d.revision>>
Case == {CaseId(d) : d \in Decision}

Closed == {"CLOSED_SUFFICIENT", "CLOSED_INSUFFICIENT"}

ASSUME NoneIsNeither == None \notin Case /\ None \notin Closed

Excluded == {"CANCELLED", "LOST_TO_FOLLOWUP"}
Linked == {"RECONCILED", "ABSTAINED"}

PlanState(to, at) ==
  [kind |-> "PLAN_STATE", case |-> None, state |-> to, at |-> at,
   decision |-> None, link |-> None]

Enrollment(d, at) ==
  [kind |-> "ENROLL", case |-> CaseId(d), state |-> "ENROLLED", at |-> at,
   decision |-> d, link |-> None]

Terminal(c, how, at, link) ==
  [kind |-> "TERMINAL", case |-> c, state |-> how, at |-> at,
   decision |-> None, link |-> link]

EventsOf(rows, c) == {n \in DOMAIN rows : rows[n].case = c}

\* _cases: each later event of a case updates what its enrollment said.
OutcomeOf(rows, c) ==
  IF EventsOf(rows, c) = {} THEN "none" ELSE rows[Max(EventsOf(rows, c))].state

EnrollmentOf(rows, c) == rows[Min(EventsOf(rows, c))]

Enrolled(rows) == {c \in Case : EventsOf(rows, c) # {}}

PreimageEnrolled(rows, d) ==
  \E c \in Enrolled(rows) : EnrollmentOf(rows, c).decision = d

PhaseOf(rows) ==
  LET moves == {n \in DOMAIN rows : rows[n].kind = "PLAN_STATE"}
  IN  IF moves = {} THEN "SEALED" ELSE rows[Max(moves)].state

ChainSeal(rows) == Seal("collection", rows)

Anchor(rows, phase) ==
  [generation |-> Len(rows), tail |-> ChainSeal(rows), state |-> phase]

Sufficient(rows, at) ==
  /\ Cardinality(Enrolled(rows)) >= Required
  /\ \A c \in Enrolled(rows) : OutcomeOf(rows, c) # "ENROLLED"
  /\ at >= MinimumEnd

\* The observer of a reconciliation is none of the producers of decisions.
Independent(record) == record.seen.producer \notin DecisionProducers

ExpectedOutcome(record) ==
  IF record.seen.execution = "EXECUTED" THEN "RECONCILED" ELSE "ABSTAINED"

-----------------------------------------------------------------------------
(* verify: what an event must be behind the rows before it.                *)

LegalPlanState(rows, e) ==
  \/ /\ PhaseOf(rows) = "SEALED" /\ e.state = "COLLECTING"
     /\ e.at \in NotBefore..HardEnd
  \/ PhaseOf(rows) \in {"SEALED", "COLLECTING"} /\ e.state = "ABORTED"
  \/ /\ PhaseOf(rows) = "COLLECTING" /\ e.state = "CLOSED_SUFFICIENT"
     /\ Sufficient(rows, e.at)
  \/ /\ PhaseOf(rows) = "COLLECTING" /\ e.state = "CLOSED_INSUFFICIENT"
     /\ e.at >= HardEnd
     /\ ~Sufficient(rows, e.at)

LegalEnrollment(rows, e) ==
  /\ PhaseOf(rows) = "COLLECTING"
  /\ e.state = "ENROLLED"
  /\ e.case = CaseId(e.decision)
  /\ e.case \notin Enrolled(rows)
  /\ ~PreimageEnrolled(rows, e.decision)
  /\ e.decision.binding = Binding
  /\ e.decision.authority \in DecisionProducers
  /\ e.decision.captured \in NotBefore..e.at
  /\ e.at \in NotBefore..HardEnd
  /\ Cardinality(Enrolled(rows)) < MaxEnrollments

LegalLink(decision, e) ==
  /\ Journal!PreimageMatches(e.link.record, decision)
  /\ e.link.record.binding = Binding
  /\ e.link.content = Journal!RecordSeal(e.link.record)
  /\ Independent(e.link.record)
  /\ e.state = ExpectedOutcome(e.link.record)

\* The phase is not looked at.
LegalTerminal(rows, e) ==
  /\ OutcomeOf(rows, e.case) = "ENROLLED"
  /\ e.at \in EnrollmentOf(rows, e.case).at..HardEnd
  /\ IF e.state \in Linked
     THEN e.link # None /\ LegalLink(EnrollmentOf(rows, e.case).decision, e)
     ELSE e.state \in Excluded /\ e.link = None

\* Not stamped before the latest event.
InOrder(rows, e) == IF rows = <<>> THEN TRUE ELSE rows[Len(rows)].at <= e.at

Legal(rows, e) ==
  /\ InOrder(rows, e)
  /\ CASE e.kind = "PLAN_STATE" -> LegalPlanState(rows, e)
       [] e.kind = "ENROLL"     -> LegalEnrollment(rows, e)
       [] e.kind = "TERMINAL"   -> LegalTerminal(rows, e)

VerifyOk ==
  /\ \A n \in DOMAIN events : Legal(SubSeq(events, 1, n - 1), events[n])
  /\ state = PhaseOf(events)
  /\ anchor = Anchor(events, PhaseOf(events))

-----------------------------------------------------------------------------
(* create, and the time that passes.                                       *)

Init ==
  /\ clock = PlanCreated
  /\ state = "absent" /\ events = <<>> /\ anchor = None
  /\ call = [p \in Process |-> None]
  /\ manifests = {}
  /\ losses = 0
  /\ Journal!Init

\* Inside the sealed window before the collection.
Create ==
  /\ state = "absent"
  /\ clock \in PlanCreated..NotBefore
  /\ state' = "SEALED"
  /\ anchor' = Anchor(<<>>, "SEALED")
  /\ UNCHANGED <<clock, events, call, manifests, losses, source>>

Tick ==
  /\ clock < MaxClock
  /\ clock' = clock + 1
  /\ UNCHANGED <<collection, call, manifests, losses, source>>

-----------------------------------------------------------------------------
(* A call: what it reads and checks before its transaction.  expected is   *)
(* the generation that the caller names, or None.                          *)

Call(step, op, event, expected) ==
  [step |-> step, op |-> op, event |-> event, expected |-> expected]

\* A caller that guards its write names the generation it has just read.
Expected(p) == IF p \in Guarded THEN Len(events) ELSE None

Begin(p, c) ==
  /\ call[p] = None
  /\ call' = [call EXCEPT ![p] = c]
  /\ UNCHANGED <<clock, collection, manifests, losses, source>>

PrepareStart(p, expected) ==
  /\ state = "SEALED"
  /\ clock \in NotBefore..HardEnd
  /\ Begin(p, Call("append", "start", PlanState("COLLECTING", clock), expected))

PrepareEnroll(p, d, expected) ==
  /\ state = "COLLECTING"
  /\ d.binding = Binding
  /\ d.captured \in NotBefore..HardEnd
  /\ clock \in d.captured..HardEnd
  /\ d.authority \in DecisionProducers
  /\ Cardinality(Enrolled(events)) < MaxEnrollments
  /\ CaseId(d) \notin Enrolled(events) /\ ~PreimageEnrolled(events, d)
  /\ Begin(p, Call("append", "enroll", Enrollment(d, clock), expected))

\* _mark_terminal only takes the time here.
PrepareTerminal(p, c, how, expected) ==
  /\ state # "absent"
  /\ Begin(p, Call("append", "terminal", Terminal(c, how, clock, None), expected))

\* Mutant: an insufficient closure waits for every case as well.
ClosurePatient(rows, at) ==
  IF Sufficient(rows, at) THEN "CLOSED_SUFFICIENT"
  ELSE IF /\ at >= HardEnd
          /\ \A c \in Enrolled(rows) : OutcomeOf(rows, c) # "ENROLLED"
       THEN "CLOSED_INSUFFICIENT"
  ELSE None

\* How the collection would close at this moment, or None.
Closure(rows, at) ==
  IF Sufficient(rows, at) THEN "CLOSED_SUFFICIENT"
  ELSE IF at >= HardEnd THEN "CLOSED_INSUFFICIENT"
  ELSE None

PrepareClose(p, expected) ==
  /\ state = "COLLECTING"
  /\ Closure(events, clock) # None
  /\ Begin(p, Call("append", "close", PlanState(Closure(events, clock), clock), expected))

PrepareAbort(p, expected) ==
  /\ state \in {"SEALED", "COLLECTING"}
  /\ Begin(p, Call("append", "abort", PlanState("ABORTED", clock), expected))

\* Mutant: any entry of the source may be proved, not only its tail.
SourceEntriesAny == DOMAIN entries

\* The entries that a proof may name.
SourceEntries == {n \in DOMAIN entries : n = Len(entries)}

\* _verified_reconciliation_source: one read transaction of the journal.
ProveSource(p, expected) ==
  /\ state # "absent"
  /\ Journal!VerifyOk
  /\ \E n \in SourceEntries :
       Begin(p, Call("proved", "reconcile",
                     [record |-> entries[n].payload, content |-> entries[n].content,
                      seq |-> n, tail |-> Journal!ChainSeal(entries)],
                     expected))

\* The chronology of a record, its case and the time of the call.
InChronology(record, at, now) ==
  at <= record.seen.reconciled_at /\ record.seen.reconciled_at <= now /\ now <= HardEnd

\* Mutant: the record is not compared with the decision of the case.
SamePreimageTrusted(record, d) == TRUE

\* The record is about the supplied decision.
SamePreimage(record, d) == Journal!PreimageMatches(record, d)

Reconcilable(c, d, record, now) ==
  /\ state = "COLLECTING"
  /\ OutcomeOf(events, c) = "ENROLLED"
  /\ EnrollmentOf(events, c).decision = d
  /\ InChronology(record, EnrollmentOf(events, c).at, now)
  /\ SamePreimage(record, d)
  /\ record.binding = Binding
  /\ Independent(record)

\* The case and the decision that the caller named matter only now.
PrepareReconcile(p) ==
  /\ call[p] # None /\ call[p].step = "proved"
  /\ \E c \in Case, d \in Decision :
       LET link == call[p].event
           outcome == ExpectedOutcome(link.record)
       IN  call' = [call EXCEPT ![p] =
                      IF Reconcilable(c, d, link.record, clock)
                      THEN Call("append", "reconcile", Terminal(c, outcome, clock, link),
                                @.expected)
                      ELSE None]
  /\ UNCHANGED <<clock, collection, manifests, losses, source>>

-----------------------------------------------------------------------------
(* _append: the transaction.                                               *)

\* Mutant: the maximum is not looked at again.
EnrollStillValidUncapped(e) ==
  /\ state = "COLLECTING"
  /\ e.case \notin Enrolled(events) /\ ~PreimageEnrolled(events, e.decision)
  /\ e.at \in e.decision.captured..HardEnd

\* validate_enrollment.
EnrollStillValid(e) ==
  /\ state = "COLLECTING"
  /\ Cardinality(Enrolled(events)) < MaxEnrollments
  /\ e.case \notin Enrolled(events) /\ ~PreimageEnrolled(events, e.decision)
  /\ e.at \in e.decision.captured..HardEnd

\* Mutant: a case may be settled after the collection was closed.
OpenCaseLate(c) == OutcomeOf(events, c) = "ENROLLED"

OpenCase(c) ==
  /\ state = "COLLECTING"
  /\ OutcomeOf(events, c) = "ENROLLED"

\* Mutant: the transaction accepts no closure but a sufficient one.
StillClosingSufficient(e) == state = "COLLECTING" /\ Sufficient(events, e.at)

\* validate_closure: the collection would still close as it was to close.
StillClosing(e) == state = "COLLECTING" /\ Closure(events, e.at) = e.state

\* validate_unlocked of each call.  The decision of a case never changes, so
\* its comparison is not repeated for a reconciliation.
StillValid(op, e) ==
  CASE op = "start"     -> state = "SEALED" /\ e.at \in NotBefore..HardEnd
    [] op = "enroll"    -> EnrollStillValid(e)
    [] op = "terminal"  -> /\ OpenCase(e.case)
                           /\ e.at \in EnrollmentOf(events, e.case).at..HardEnd
    [] op = "reconcile" -> /\ OpenCase(e.case)
                           /\ InChronology(e.link.record, EnrollmentOf(events, e.case).at, e.at)
    [] op = "close"     -> StillClosing(e)
    [] op = "abort"     -> state \in {"SEALED", "COLLECTING"}

\* Mutant: an append does not verify what it appends to.
AppendableUnverified(c) ==
  /\ c.expected \in {None, Len(events)}
  /\ StillValid(c.op, c.event)
  /\ InOrder(events, c.event)

\* Mutant: time stamps are taken as they come.
AppendableUnordered(c) ==
  /\ c.expected \in {None, Len(events)}
  /\ VerifyOk
  /\ StillValid(c.op, c.event)

Appendable(c) ==
  /\ c.expected \in {None, Len(events)}
  /\ VerifyOk
  /\ StillValid(c.op, c.event)
  /\ InOrder(events, c.event)

\* The event, the state and the anchor become durable in one COMMIT.
Commit(p) ==
  /\ call[p] # None /\ call[p].step = "append"
  /\ Appendable(call[p])
  /\ events' = Append(events, call[p].event)
  /\ state' = IF call[p].event.kind = "PLAN_STATE" THEN call[p].event.state ELSE state
  /\ anchor' = Anchor(events', state')
  /\ call' = [call EXCEPT ![p] = None]
  /\ UNCHANGED <<clock, manifests, losses, source>>

Refuse(p) ==
  /\ call[p] # None /\ call[p].step = "append"
  /\ ~Appendable(call[p])
  /\ call' = [call EXCEPT ![p] = None]
  /\ UNCHANGED <<clock, collection, manifests, losses, source>>

-----------------------------------------------------------------------------
(* manifest: verified, then read statement by statement.                   *)

\* verify: its own read transaction.
ManifestVerify(p) ==
  /\ state # "absent"
  /\ VerifyOk
  /\ Begin(p, [step |-> "verified", op |-> "manifest"])

\* Mutant: a collection that still collects is published too.
PublishableAny == Closed \cup {"COLLECTING"}

\* The states of a collection that may be published.
Publishable == Closed

ManifestState(p) ==
  /\ call[p] # None /\ call[p].step = "verified"
  /\ call' = [call EXCEPT ![p] =
                IF state \in Publishable THEN [@ EXCEPT !.step = "publishable"] ELSE None]
  /\ UNCHANGED <<clock, collection, manifests, losses, source>>

\* status: the state, and then the root seal.
ManifestStatus(p) ==
  /\ call[p] # None /\ call[p].step = "publishable"
  /\ call' = [call EXCEPT ![p] = [step |-> "phase", op |-> "manifest", phase |-> state]]
  /\ UNCHANGED <<clock, collection, manifests, losses, source>>

ManifestRoot(p) ==
  /\ call[p] # None /\ call[p].step = "phase"
  /\ call' = [call EXCEPT ![p] = [step |-> "root", op |-> "manifest",
                                  phase |-> @.phase, root |-> ChainSeal(events)]]
  /\ UNCHANGED <<clock, collection, manifests, losses, source>>

\* build_collection_manifest over _cases.
ManifestCases(p) ==
  /\ call[p] # None /\ call[p].step = "root"
  /\ manifests' = manifests \cup
       {[phase |-> call[p].phase, root |-> call[p].root,
         cases |-> [c \in Enrolled(events) |-> OutcomeOf(events, c)],
         eligible |-> {c \in Enrolled(events) : OutcomeOf(events, c) = "RECONCILED"}]}
  /\ call' = [call EXCEPT ![p] = None]
  /\ UNCHANGED <<clock, collection, losses, source>>

-----------------------------------------------------------------------------
(* The specification.                                                      *)

\* The storage loses the last event; the meta table stays.
LoseEvent ==
  /\ losses < MaxLosses
  /\ events # <<>>
  /\ events' = SubSeq(events, 1, Len(events) - 1)
  /\ losses' = losses + 1
  /\ UNCHANGED <<clock, state, anchor, call, manifests, source>>

\* Others write to the reconciliation journal, or its storage fails.
SourceStep ==
  /\ Journal!Next
  /\ UNCHANGED <<clock, collection, call, manifests, losses>>

Prepare(p) ==
  LET expected == Expected(p) IN
    \/ PrepareStart(p, expected)
    \/ PrepareClose(p, expected)
    \/ PrepareAbort(p, expected)
    \/ \E d \in Decision : PrepareEnroll(p, d, expected)
    \/ \E c \in Case, how \in Excluded : PrepareTerminal(p, c, how, expected)
    \/ ProveSource(p, expected)

\* The steps that end a call.
Finish(p) ==
  \/ PrepareReconcile(p)
  \/ Commit(p)
  \/ Refuse(p)
  \/ ManifestState(p)
  \/ ManifestStatus(p)
  \/ ManifestRoot(p)
  \/ ManifestCases(p)

Next ==
  \/ Create
  \/ Tick
  \/ LoseEvent
  \/ SourceStep
  \/ \E p \in Process : Prepare(p) \/ ManifestVerify(p) \/ Finish(p)

Spec == Init /\ [][Next]_vars

\* Time passes, a call that was begun ends, and a process that may close the
\* collection again and again tries to, each with the generation it names.
FairSpec ==
  /\ Spec
  /\ WF_vars(Tick)
  /\ \A p \in Process :
       /\ WF_vars(Finish(p))
       /\ SF_vars(PrepareClose(p, Expected(p)))

-----------------------------------------------------------------------------
(* Properties.                                                             *)

Phases == {"SEALED", "COLLECTING", "ABORTED"} \cup Closed

\* Every variable has its type; the cases stay within the plan's maximum.
TypeOK ==
  /\ clock \in PlanCreated..MaxClock
  /\ state \in Phases \cup {"absent"}
  /\ \A n \in DOMAIN events :
       /\ events[n].kind \in {"PLAN_STATE", "ENROLL", "TERMINAL"}
       /\ events[n].state \in Phases \cup {"ENROLLED"} \cup Excluded \cup Linked
       /\ events[n].at \in PlanCreated..clock
  /\ Cardinality(Enrolled(events)) <= MaxEnrollments
  /\ losses \in 0..MaxLosses

\* The checks made before and inside the transactions let nothing in that
\* verify, which replays the whole calendar, would refuse: not with stale
\* stamps, not with two closures or two enrollments at a time.
LegalUseVerifies == state # "absent" /\ losses = 0 => VerifyOk

\* What is published is final: a manifest shows the collection as it is now
\* and will stay, although it is read in five steps.
ManifestsAreFinal ==
  losses = 0 =>
    \A m \in manifests :
      /\ m.phase = state
      /\ m.root = ChainSeal(events)
      /\ m.cases = [c \in Enrolled(events) |-> OutcomeOf(events, c)]

LinkedEvents == {n \in DOMAIN events : events[n].link # None}

\* Every proof that a case carries names an entry that the journal holds
\* for good, at the root that the entry made.
LinksAreEntries ==
  defects = 0 =>
    \A n \in LinkedEvents :
      LET link == events[n].link
      IN  /\ link.seq \in DOMAIN entries
          /\ entries[link.seq].payload = link.record
          /\ entries[link.seq].content = link.content
          /\ Journal!ChainSeal(SubSeq(entries, 1, link.seq)) = link.tail

\* No narrative settles two cases: that rests on the preimages of the one
\* store, which enrolls each once, and of the other, which gives each one
\* reconciliation.
OneCasePerNarrative ==
  \A n, m \in LinkedEvents :
    events[n].link.record.id = events[m].link.record.id => n = m

\* A case that links a narrative leaves a collection that verify accepts,
\* with proofs of entries, each for a narrative of its own (link, verify).
LinksHold == LegalUseVerifies /\ LinksAreEntries /\ OneCasePerNarrative

Lifecycle == INSTANCE CollectionLifecycle WITH
  Outcome <- Excluded \cup Linked,
  phase <- IF state = "absent" THEN "SEALED" ELSE state,
  outcome <- [c \in Case |-> OutcomeOf(events, c)]

\* docs/prospective-shadow-collection.md: the events of racing callers
\* implement a one-way life cycle in which a case is enrolled once, settled
\* once, and never changed after the collection is over, as long as the
\* storage loses no event.
ImplementsLifecycle == Lifecycle!Init /\ [][losses' = 0 => Lifecycle!Next]_(Lifecycle!vars)

\* Whatever its cases, a collection ends: no case that can no longer be
\* settled, and no stale stamp, keeps it open past its hard end.  (What lost
\* events is refused by every call and can neither be closed nor aborted.)
CollectionEnds ==
  state = "COLLECTING" ~> state \in Closed \cup {"ABORTED"} \/ losses > 0

\* A lost suffix stays reported, because no call writes a new anchor over it.
LossStaysReported == losses > 0 => ~VerifyOk

\* verify accepts what racing callers make, within the plan's maximum, and
\* nothing that storage made of it.
VerifyIsRight == TypeOK /\ LegalUseVerifies /\ LossStaysReported

\* docs/prospective-shadow-collection.md:64 "Only the current verified
\* HOK-244 tail can be linked."
LinkedTailIsCurrent ==
  [][ Len(events') > Len(events) /\ events'[Len(events')].link # None
      => events'[Len(events')].link.tail = Journal!ChainSeal(entries) ]_vars
=============================================================================
