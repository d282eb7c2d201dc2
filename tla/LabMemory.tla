------------------------------ MODULE LabMemory ------------------------------
(***************************************************************************)
(* The justification memory of the lab (lab/memory.py).                    *)
(*                                                                         *)
(* A caller appends events to a history: facts, claims with the supports   *)
(* they rest on, revocations of either, and revisions of the supports of   *)
(* a claim.  compute_applicability replays the whole history and says      *)
(* what held at an instant.  Every event has two dates: when it was        *)
(* recorded, which never moves backwards, and when it takes effect, which  *)
(* is the author's.  It counts at an instant only when both have come.     *)
(*                                                                         *)
(* A history that breaks a rule stays refused whatever follows, but for    *)
(* one rule, that every premise names a fact or a claim: a later event may *)
(* still bring the premise.  Histories break no other rule here.           *)
(***************************************************************************)
EXTENDS Naturals, Sequences, FiniteSets, FiniteSetsExt

CONSTANTS
  Name,        \* ids of facts and claims: one namespace
  Supports,    \* supports of claims: sets of sets of premises
  MaxTime,     \* bound on the instants
  MaxEvents    \* bound on the length of a history

ASSUME MemoryBounds == {MaxTime, MaxEvents} \subseteq Nat
ASSUME SupportsShape ==
  \A supports \in Supports : supports # {} /\ supports \subseteq (SUBSET Name) \ {{}}

VARIABLES
  events,  \* the history
  clock

memory == <<events, clock>>

Instant == 0..MaxTime
Never == MaxTime + 1

\* An event; its place in the history stands for its seal.
Event(kind, id, at, expires, supports, extends) ==
  [kind |-> kind, id |-> id, at |-> at, expires |-> expires,
   supports |-> supports, extends |-> extends, recorded |-> clock]

Of(history, kind) == {i \in DOMAIN history : history[i].kind = kind}
Named(history, kind) == {history[i].id : i \in Of(history, kind)}

\* The event that gives a claim its supports: the claim, or its last revision.
Current(history, id) ==
  Max({i \in Of(history, "CLAIM") \cup Of(history, "SUPPORT_REVISION") : history[i].id = id})

-----------------------------------------------------------------------------
(* Appending.                                                              *)

\* Mutant: facts and claims have a namespace each.
FreshAmongItsKind(kind, id) == id \notin Named(events, kind)

\* Facts and claims share one: a claim that cites its own id must never
\* rest on a fact that reuses it.
Fresh(kind, id) == id \notin Named(events, "FACT") \cup Named(events, "CLAIM")

Record(event) ==
  /\ Len(events) < MaxEvents
  /\ events' = Append(events, event)
  /\ UNCHANGED clock

Expiries(at) == {t \in Instant \cup {Never} : at < t}

AssertFact(id, at) ==
  /\ Fresh("FACT", id)
  /\ \E expires \in Expiries(at) : Record(Event("FACT", id, at, expires, {}, 0))

RevokeFact(id, at) ==
  /\ id \in Named(events, "FACT")
  /\ Record(Event("FACT_REVOCATION", id, at, Never, {}, 0))

AssertClaim(id, at) ==
  /\ Fresh("CLAIM", id)
  /\ \E expires \in Expiries(at), supports \in Supports :
       Record(Event("CLAIM", id, at, expires, supports, 0))

RevokeClaim(id, at) ==
  /\ id \in Named(events, "CLAIM")
  /\ Record(Event("CLAIM_REVOCATION", id, at, Never, {}, 0))

\* A revision names the event whose supports it replaces.
ReviseSupport(id, at) ==
  /\ id \in Named(events, "CLAIM")
  /\ \E supports \in Supports :
       Record(Event("SUPPORT_REVISION", id, at, Never, supports, Current(events, id)))

TimePasses ==
  /\ clock < MaxTime
  /\ clock' = clock + 1
  /\ UNCHANGED events

MemoryInit == events = <<>> /\ clock = 0

MemoryNext ==
  \/ \E id \in Name, at \in Instant :
       \/ AssertFact(id, at) \/ RevokeFact(id, at)
       \/ AssertClaim(id, at) \/ RevokeClaim(id, at)
       \/ ReviseSupport(id, at)
  \/ TimePasses

MemorySpec == MemoryInit /\ [][MemoryNext]_memory

-----------------------------------------------------------------------------
(* compute_applicability: what the history says of an instant.             *)

\* Every premise, of supports replaced since as well, names something.
Accepted(history) ==
  \A i \in DOMAIN history :
    UNION history[i].supports \subseteq Named(history, "FACT") \cup Named(history, "CLAIM")

\* Mutant: the date of the author decides alone.
CountsOnceEffective(history, i, t) == history[i].at <= t

Counts(history, i, t) == history[i].recorded <= t /\ history[i].at <= t

Counting(history, kind, t) == {i \in Of(history, kind) : Counts(history, i, t)}

Asserted(history, kind, t) == {history[i].id : i \in Counting(history, kind, t)}

Revoked(history, kind, revocation, t) ==
  Asserted(history, kind, t) \cap Asserted(history, revocation, t)

Eligible(history, kind, revocation, t) ==
  {history[i].id : i \in {j \in Counting(history, kind, t) : history[j].expires > t}}
    \ Revoked(history, kind, revocation, t)

EligibleFacts(history, t) == Eligible(history, "FACT", "FACT_REVOCATION", t)
EligibleClaims(history, t) == Eligible(history, "CLAIM", "CLAIM_REVOCATION", t)

\* The supports of a claim at an instant: those of the last event, in the
\* order of the history, that counts.
SupportsAt(history, id, t) ==
  history[Max({i \in Counting(history, "CLAIM", t) \cup Counting(history, "SUPPORT_REVISION", t) :
                 history[i].id = id})].supports

\* Of each claim that is eligible, its supports.
EligibleSupports(history, t) ==
  [id \in EligibleClaims(history, t) |-> SupportsAt(history, id, t)]

Rests(supports, id, premises) ==
  \E support \in supports[id] : support \subseteq premises

\* Mutant: claims are active until they are seen to lack a support.
GroundedFromAbove(facts, supports) ==
  LET claims == DOMAIN supports
      left[n \in 0..Cardinality(claims)] ==
        IF n = 0 THEN facts \cup claims
        ELSE facts \cup {id \in claims : Rests(supports, id, left[n - 1])}
  IN  left[Cardinality(claims)]

\* Facts ground themselves, a claim is grounded by one support whose
\* premises all are; what is left when nothing more follows is not.
Grounded(facts, supports) ==
  LET claims == DOMAIN supports
      grounded[n \in 0..Cardinality(claims)] ==
        IF n = 0 THEN facts
        ELSE grounded[n - 1] \cup {id \in claims : Rests(supports, id, grounded[n - 1])}
  IN  grounded[Cardinality(claims)]

Applicability(history, t) ==
  LET active == Grounded(EligibleFacts(history, t), EligibleSupports(history, t))
                  \cap EligibleClaims(history, t)
  IN  [facts |-> EligibleFacts(history, t),
       claims |-> active,
       revokedFacts |-> Revoked(history, "FACT", "FACT_REVOCATION", t),
       revokedClaims |-> Revoked(history, "CLAIM", "CLAIM_REVOCATION", t),
       inactive |-> EligibleClaims(history, t) \ active]

-----------------------------------------------------------------------------
(* Correctness.                                                            *)

\* Events are dated within the bounds, recorded in order, and a revision
\* names an earlier event of its claim.
MemoryTypeOK ==
  /\ clock \in Instant
  /\ \A i \in DOMAIN events :
       /\ events[i].id \in Name /\ events[i].at \in Instant /\ events[i].recorded \in 0..clock
       /\ i > 1 => events[i - 1].recorded <= events[i].recorded
       /\ events[i].kind = "SUPPORT_REVISION" =>
            events[i].extends \in 1..(i - 1) /\ events[events[i].extends].id = events[i].id

\* Claims closed under their supports, given what holds of the facts.
Closed(claims, t) ==
  \A id \in EligibleClaims(events, t) :
    Rests(EligibleSupports(events, t), id, EligibleFacts(events, t) \cup claims) => id \in claims

\* The active claims are the fewest that the facts justify: claims that only
\* support each other are not among them, and no claim is active on the
\* strength of itself, by its own id or by a fact that reuses it
\* (compute_applicability).
GroundedIsLeast ==
  Accepted(events) => \A t \in Instant :
    LET view == Applicability(events, t)
    IN  /\ Closed(view.claims, t)
        /\ \A fewer \in SUBSET view.claims : Closed(fewer, t) => fewer = view.claims
        /\ \A id \in view.claims : \E support \in EligibleSupports(events, t)[id] :
             id \notin support /\ support \subseteq view.facts \cup view.claims

PastStays ==
  \A t \in Instant :
    /\ Accepted(events) /\ Accepted(events')
    /\ \A i \in DOMAIN events' \ DOMAIN events : t < events'[i].recorded
    => Applicability(events', t) = Applicability(events, t)

\* What the memory said of an instant before an event was recorded it says
\* ever after: an event dated back changes nothing of what was known then
\* (compute_applicability).
PastIsFixed == [][PastStays]_memory
=============================================================================
