----------------------------- MODULE Evaluation -----------------------------
(***************************************************************************)
(* Preregistered evaluation (protocol.py) and what its verdicts are worth  *)
(* at the authority boundary (authority.py).                               *)
(*                                                                         *)
(* A protocol fixes thresholds, seeds and corpora before anything is       *)
(* measured.  Its author may revise it after seeing results, measures any  *)
(* corpus, relabels measurements, edits verdicts, and presents any of them *)
(* together, each validated and scored again whenever it is presented.     *)
(* Nothing is remembered but which holdout corpora were spent, and on      *)
(* what: write-once cells here, which HoldoutLedger shows that the file    *)
(* under its lock implements.                                              *)
(*                                                                         *)
(* Values are numbers of which only the order matters.  Twice the median   *)
(* is kept, so that it is a number too.                                    *)
(***************************************************************************)
EXTENDS Naturals, FiniteSets, FiniteSetsExt, SequencesExt, Seals, Holdouts

CONSTANTS
  Epoch,
  Seed,            \* the declared seeds
  Metric,          \* the declared metrics
  Required,        \* those that the decision depends on
  LowerIsBetter,
  Bars,            \* thresholds that protocols fix: functions on Metric
  Results,         \* what measurement finds: from metrics to values by seed
  MaxRevision,     \* bound on the number of a revision
  MaxProtocols,    \* bound on the protocols of one author
  MaxVerdicts,     \* bound on the verdicts that evaluate returns
  None

ASSUME EvaluationAssumption ==
  /\ Required # {} /\ Required \subseteq Metric /\ LowerIsBetter \subseteq Metric
  /\ IsFiniteSet(Seed) /\ Cardinality(Seed) > 1
  /\ Bars \subseteq [Metric -> Nat]
  /\ \A values \in Results : \A metric \in DOMAIN values :
       values[metric] \in [DOMAIN values[metric] -> Nat]
  /\ MaxRevision \in Nat \ {0} /\ {MaxProtocols, MaxVerdicts} \subseteq Nat

VARIABLES
  protocols,  \* the protocols their author holds
  spent,      \* the holdout ledger: the receipt of each spent corpus
  returned,   \* history: the final verdicts that evaluate returned, in order
  grant       \* the last authorization, or None

studyVars == <<protocols, spent, returned, grant>>

\* TRAIN differs from VALIDATION in its name only.
Split == {"VALIDATION", "HOLDOUT"}
Purpose == {"FINAL_VERDICT", "SELECTION"}

-----------------------------------------------------------------------------
(* Protocols and measurements.                                             *)

\* Each split has a corpus of its own.
Protocol(revision, epoch, corpus, bar) ==
  [revision |-> revision, epoch |-> epoch, corpus |-> corpus, bar |-> bar]

Corpora == {f \in [Split -> Corpus] : f["VALIDATION"] # f["HOLDOUT"]}

ProtocolSeal(p) == Seal("protocol.preregistration", p)

\* Any label on any results: the set is sealed by whoever presents it.
MeasurementSets ==
  [protocol : {ProtocolSeal(p) : p \in protocols}, corpus : Corpus, epoch : Epoch,
   purpose : Purpose, split : Split, values : Results]

MeasurementSeal(m) == Seal("protocol.measurements", m)

-----------------------------------------------------------------------------
(* score_measurements.                                                     *)

\* Twice the median of values by seed: the lower and the upper middle one.
Median2(values) ==
  LET among(v) == Cardinality({s \in DOMAIN values : values[s] <= v})
      from(v) == Cardinality({s \in DOMAIN values : values[s] >= v})
      seen == {values[s] : s \in DOMAIN values}
      n == Cardinality(DOMAIN values)
  IN  Min({v \in seen : 2 * among(v) >= n}) + Max({v \in seen : 2 * from(v) >= n})

Passes(metric, bar, aggregate) ==
  IF metric \in LowerIsBetter THEN aggregate <= 2 * bar ELSE aggregate >= 2 * bar

\* Mutant: an optional metric may be scored on the seeds it has.
ScoresSome(p, m) ==
  /\ m.protocol = ProtocolSeal(p) /\ m.epoch = p.epoch /\ m.corpus = p.corpus[m.split]
  /\ m.split = "HOLDOUT" <=> m.purpose = "FINAL_VERDICT"
  /\ DOMAIN m.values \subseteq Metric /\ Required \subseteq DOMAIN m.values
  /\ \A metric \in DOMAIN m.values : DOMAIN m.values[metric] # {}

\* Measured under this protocol as it stands, on the corpus of its split,
\* for a purpose that the split is for; every metric that is present has
\* every seed.
Scores(p, m) ==
  /\ m.protocol = ProtocolSeal(p) /\ m.epoch = p.epoch /\ m.corpus = p.corpus[m.split]
  /\ m.split = "HOLDOUT" <=> m.purpose = "FINAL_VERDICT"
  /\ DOMAIN m.values \subseteq Metric /\ Required \subseteq DOMAIN m.values
  /\ \A metric \in DOMAIN m.values : DOMAIN m.values[metric] = Seed

Failing(metrics) ==
  {metric \in DOMAIN metrics \cap Required :
     ~Passes(metric, metrics[metric].bar, metrics[metric].aggregate)}

Decision(metrics) == IF Failing(metrics) = {} THEN "CONTINUE" ELSE "KILL"

VerdictSeal(body) == Seal("protocol.verdict", body)

\* A verdict carries the thresholds that it was reached with.
Body(protocol, epoch, corpus, split, purpose, metrics) ==
  [protocol |-> protocol, epoch |-> epoch, corpus |-> corpus, split |-> split,
   purpose |-> purpose, metrics |-> metrics, decision |-> Decision(metrics)]

Scored(p, m) ==
  Body(ProtocolSeal(p), p.epoch, m.corpus, m.split, m.purpose,
       [metric \in DOMAIN m.values |->
          [bar |-> p.bar[metric], aggregate |-> Median2(m.values[metric])]])

Sealed(body) == [body |-> body, seal |-> VerdictSeal(body)]

-----------------------------------------------------------------------------
StudyInit ==
  /\ \E e \in Epoch, corpus \in Corpora, bar \in Bars : protocols = {Protocol(1, e, corpus, bar)}
  /\ spent = NoReceipts
  /\ returned = <<>> /\ grant = None

\* revise: anything else may change, the thresholds and the corpora too.
Revise(p) ==
  /\ Cardinality(protocols) < MaxProtocols
  /\ \E revision \in (p.revision + 1)..MaxRevision, e \in Epoch \ {p.epoch},
        corpus \in Corpora, bar \in Bars :
       protocols' = protocols \cup {Protocol(revision, e, corpus, bar)}
  /\ UNCHANGED <<spent, returned, grant>>

Receipt(body, m) ==
  [protocol |-> body.protocol, epoch |-> body.epoch, verdict |-> VerdictSeal(body),
   measurements |-> MeasurementSeal(m)]

\* Mutant: a corpus is spent for the protocol that spent it.
NotSpentFor(body) == spent[body.corpus] # Unspent => spent[body.corpus].protocol # body.protocol

NotSpent(body) == spent[body.corpus] = Unspent

\* evaluate on the holdout: a verdict is returned only when it was scored
\* and its corpus is spent on it.
Evaluate(p, m) ==
  /\ Len(returned) < MaxVerdicts
  /\ m.split = "HOLDOUT" /\ Scores(p, m)
  /\ LET body == Scored(p, m)
     IN  /\ NotSpent(body)
         /\ spent' = [spent EXCEPT ![body.corpus] = Receipt(body, m)]
         /\ returned' = Append(returned, Sealed(body))
  /\ UNCHANGED <<protocols, grant>>

-----------------------------------------------------------------------------
(* The authority boundary.                                                 *)

State == {"DEFINE", "SHADOW", "OFFLINE_VERIFIED", "CANARY_ELIGIBLE", "PROMOTED", "REJECTED"}
Actor == {"latent_compass", "external_judge", "human_operator", "observed_agent"}

AllowedTransitions(from) ==
  CASE from = "DEFINE" -> {"SHADOW", "REJECTED"}
    [] from = "SHADOW" -> {"OFFLINE_VERIFIED", "REJECTED"}
    [] from = "OFFLINE_VERIFIED" -> {"CANARY_ELIGIBLE", "REJECTED"}
    [] from = "CANARY_ELIGIBLE" -> {"PROMOTED", "REJECTED"}
    [] from = "PROMOTED" -> {"REJECTED"}
    [] from = "REJECTED" -> {}

MayAuthorize == {"external_judge", "human_operator"}
MayPromote == {"human_operator"}

\* No evidence has a trusted origin, whatever the tables require.
Untrusted == {"OFFLINE_VERIFIED", "CANARY_ELIGIBLE", "PROMOTED"}

Entitled(from, to, actor) ==
  /\ actor # "latent_compass" /\ actor \in MayAuthorize
  /\ to = "PROMOTED" => actor \in MayPromote
  /\ to \in AllowedTransitions(from)
  /\ to \notin Untrusted

\* A verdict whose body was edited, sealed again or not.
Edited(verdict) ==
  LET body == verdict.body
      bodies ==
        {[body EXCEPT !.decision = d] : d \in {"CONTINUE", "KILL"}}
          \cup {[body EXCEPT !.protocol = ProtocolSeal(p), !.epoch = p.epoch] : p \in protocols}
          \cup {[body EXCEPT !.corpus = c, !.split = s] : c \in Corpus, s \in Split}
          \cup {Body(body.protocol, body.epoch, body.corpus, body.split, body.purpose,
                     [metric \in DOMAIN body.metrics |->
                        [body.metrics[metric] EXCEPT !.bar = bar[metric]]]) : bar \in Bars}
  IN  {[verdict EXCEPT !.body = b] : b \in bodies} \cup {Sealed(b) : b \in bodies}

\* What somebody may make of the verdicts of a protocol; a verdict without
\* a protocol is refused, whatever it is.
Verdicts(p) ==
  IF p = None THEN {}
  ELSE UNION {Edited(Sealed(Scored(p, m))) : m \in {n \in MeasurementSets : Scores(p, n)}}

\* load_verdict: the decision follows from the metrics.
Loads(verdict) == verdict.body.decision = Decision(verdict.body.metrics)

\* Mutant: a verdict that fits the protocol is not scored again.
ReproducesSeal(p, m, verdict) ==
  verdict.seal = VerdictSeal(verdict.body) /\ verdict.body.protocol = ProtocolSeal(p)

Reproduces(p, m, verdict) ==
  /\ verdict.seal = VerdictSeal(verdict.body)
  /\ verdict.body.protocol = ProtocolSeal(p) /\ verdict.body.epoch = p.epoch
  /\ verdict.body.corpus = p.corpus[verdict.body.split]
  /\ Scores(p, m) /\ verdict.body = Scored(p, m)

\* _verify_evidence for the targets that are left: SHADOW requires the
\* protocol, and REJECTED nothing, but what is presented is verified.
Verified(to, p, m, verdict) ==
  /\ to = "SHADOW" => p # None
  /\ verdict = None => (m # None => p # None)
  /\ verdict # None =>
       /\ p # None /\ m # None /\ Loads(verdict)
       /\ Reproduces(p, m, verdict)
       /\ verdict.body.decision = "CONTINUE" \/ to = "REJECTED"

Authorize(from, to, actor) ==
  /\ Entitled(from, to, actor)
  /\ \E p \in protocols \cup {None} : \E verdict \in Verdicts(p) \cup {None} :
     \E m \in MeasurementSets \cup {None} :
       /\ Verified(to, p, m, verdict)
       /\ grant' = [from |-> from, to |-> to, actor |-> actor,
                    protocol |-> p, measurements |-> m, verdict |-> verdict]
  /\ UNCHANGED <<protocols, spent, returned>>

Study ==
  \/ \E p \in protocols : Revise(p)
  \/ \E p \in protocols, m \in MeasurementSets : Evaluate(p, m)

Govern == \E from \in State, to \in State, actor \in Actor : Authorize(from, to, actor)

StudyNext == Study \/ Govern

StudySpec == StudyInit /\ [][StudyNext]_studyVars

-----------------------------------------------------------------------------
(* Correctness.                                                            *)

\* Protocols are numbered within the bound and a receipt names a protocol
\* that its author holds; the ledger has one receipt for each verdict.
StudyTypeOK ==
  /\ \A p \in protocols : p.revision \in 1..MaxRevision /\ p.bar \in Bars
  /\ \A c \in Corpus :
       spent[c] # Unspent => spent[c].protocol \in {ProtocolSeal(p) : p \in protocols}
  /\ Len(returned) <= Cardinality({c \in Corpus : spent[c] # Unspent})

\* A holdout corpus gives one final verdict, ever: its author may see the
\* result, loosen the thresholds, revise into a new epoch and relabel the
\* measurements, and the corpus stays spent (evaluate).
OneLookPerHoldout ==
  \A i, j \in DOMAIN returned : returned[i].body.corpus = returned[j].body.corpus => i = j

\* A final verdict has a result, for every seed, of every metric that its
\* protocol requires, against the thresholds of that protocol, and the
\* receipt of its corpus names it (score_measurements, evaluate).
FinalVerdictsAreComplete ==
  /\ StudyTypeOK
  /\ \A i \in DOMAIN returned :
       LET body == returned[i].body
       IN  \E p \in protocols, m \in MeasurementSets :
             /\ spent[body.corpus] = Receipt(body, m)
             /\ body.protocol = ProtocolSeal(p) /\ body.corpus = p.corpus["HOLDOUT"]
             /\ \A metric \in Required \cup DOMAIN m.values :
                  /\ DOMAIN m.values[metric] = Seed
                  /\ body.metrics[metric].bar = p.bar[metric]
             /\ body.decision = "CONTINUE" =>
                  \A metric \in Required :
                    2 * Cardinality({s \in Seed :
                      Passes(metric, p.bar[metric], 2 * m.values[metric][s])}) >= Cardinality(Seed)

\* Whatever is presented together, and whoever edited what, an authorization
\* is of an actor who may give it, reaches SHADOW at most, and when a verdict
\* comes with it, every required metric of the measurements that came with it
\* meets the threshold of the protocol that came with it, unless the
\* candidate is rejected (authorize_transition).
GrantsAreEarned ==
  grant # None =>
    /\ grant.actor \in {"external_judge", "human_operator"}
    /\ grant.to = "REJECTED" \/ <<grant.from, grant.to>> = <<"DEFINE", "SHADOW">>
    /\ grant.from # "REJECTED"
    /\ grant.to = "SHADOW" /\ grant.verdict # None =>
         \A metric \in Required :
           /\ DOMAIN grant.measurements.values[metric] = Seed
           /\ Passes(metric, grant.protocol.bar[metric],
                     Median2(grant.measurements.values[metric]))
=============================================================================
