------------------------------ MODULE LabProofs ------------------------------
(***************************************************************************)
(* What holds of a diagnosis episode for any files, probes, worlds, tools, *)
(* catalogs and policies; of the justification memory for any history; of  *)
(* the budget pool for any reservations; and of a plan for any model.      *)
(* At the end, the types of all four.                                      *)
(***************************************************************************)
EXTENDS Lab, SequenceTheorems, FiniteSetTheorems, TLAPS

-----------------------------------------------------------------------------
(* Chains that replay.                                                     *)

\* The chain is a sequence: it is only ever started, extended, cut or edited.
ChainIsSeq == \E S : chain \in Seq(S)

\* The least member of a set of places.
LEMMA FirstPlace ==
  ASSUME NEW len \in Nat, NEW V \in SUBSET (1..len), V # {}
  PROVE  \E x \in V : \A y \in V : x <= y
<1> DEFINE R == StrictSubsetOrdering(V)
           F == FiniteSubsetsOf(V)
           below(v) == {u \in V : u < v}
           T == {below(v) : v \in V}
<1>1. IsFiniteSet(V)
  <2>1. IsFiniteSet(1..len)
    BY FS_Interval
  <2>2. QED
    BY <2>1, FS_Subset
<1>2. IsWellFoundedOn(R, F) /\ F = SUBSET V
  BY <1>1, FS_StrictSubsetOrderingWellFounded, FS_FiniteSubsetsOfFinite
<1>3. \A A, B \in SUBSET V : A \subseteq B /\ A # B => <<A, B>> \in R
  BY DEF StrictSubsetOrdering
<1> HIDE DEF R, F
<1>4. T \subseteq F /\ T # {}
  BY <1>2
<1> HIDE DEF T
<1>5. \E A \in T : \A B \in T : ~(<<B, A>> \in R)
  BY <1>2, <1>4, WFMin
<1>6. PICK v \in V : \A u \in V : ~(<<below(u), below(v)>> \in R)
  BY <1>5 DEF T
<1>7. ASSUME NEW u \in V, u < v PROVE FALSE
  <2>1. ~(u < u) /\ \A w \in V : w < u => w < v
    BY <1>7, SMT
  <2>2. below(u) \subseteq below(v) /\ u \in below(v) /\ u \notin below(u)
    BY <1>7, <2>1, Zenon
  <2>3. below(u) \in SUBSET V /\ below(v) \in SUBSET V
    OBVIOUS
  <2> HIDE DEF below
  <2>4. <<below(u), below(v)>> \in R
    BY <1>3, <2>2, <2>3
  <2>5. QED
    BY <1>6, <2>4
<1>8. QED
  BY <1>7

\* What a link says of the worlds.
Filtered(prior, revision) ==
  /\ revision.posterior = Filter(prior.posterior, revision.obs.probe, revision.obs.outcome)
  /\ revision.posterior # {}

LEMMA FollowsFilters ==
  ASSUME NEW prior, NEW revision, Follows(prior, revision)
  PROVE  Filtered(prior, revision)
<1>1. revision = Extended(prior, revision.obs) /\ revision.posterior # {}
  BY DEF Follows, Loads
<1>2. Extended(prior, revision.obs).posterior =
        Filter(prior.posterior, revision.obs.probe, revision.obs.outcome)
  BY DEF Extended
<1>3. QED
  BY <1>1, <1>2 DEF Filtered

\* The worlds that the first n revisions leave.
Left(history, n) ==
  {w \in World : \A i \in 2..n : Predicts[history[i].obs.probe][w] = history[i].obs.outcome}

\* By the first revision whose worlds would not be those.
LEMMA ReplayLeaves ==
  ASSUME NEW S, NEW history \in Seq(S), NEW binding, Replays(history, binding)
  PROVE  /\ Len(history) \in Nat /\ Len(history) > 0
         /\ \A n \in 1..Len(history) :
              history[n].posterior = Left(history, n) /\ history[n].posterior # {}
<1> DEFINE len == Len(history)
           V == {n \in 1..len : history[n].posterior # Left(history, n)}
<1>1. len \in Nat /\ len > 0
  BY EmptySeq DEF Replays
<1>2. history[1].posterior = World
  BY DEF Replays, Initial
<1>3. \A i \in 2..len : Filtered(history[i - 1], history[i])
  BY FollowsFilters DEF Replays
<1> HIDE DEF len
<1>4. ASSUME V # {} PROVE FALSE
  <2>1. PICK n \in V : \A m \in V : n <= m
    BY <1>1, <1>4, FirstPlace
  <2>2. n \in 1..len /\ history[n].posterior # Left(history, n)
    OBVIOUS
  <2>3. n # 1
    <3>1. Left(history, 1) = World
      BY DEF Left
    <3>2. QED
      BY <1>2, <2>2, <3>1
  <2>4. n \in 2..len /\ n - 1 \in 1..len /\ ~(n <= n - 1)
    BY <1>1, <2>2, <2>3
  <2>5. history[n - 1].posterior = Left(history, n - 1)
    BY <2>1, <2>4
  <2>6. history[n].posterior =
          {w \in Left(history, n - 1) :
             Predicts[history[n].obs.probe][w] = history[n].obs.outcome}
    BY <1>3, <2>4, <2>5 DEF Filtered, Filter
  <2>7. \A i \in 2..n : i \in 2..(n - 1) \/ i = n
    BY <1>1, <2>4
  <2>8. \A i \in 2..(n - 1) : i \in 2..n
    BY <1>1, <2>4
  <2>9. n \in 2..n
    BY <1>1, <2>4
  <2>10. history[n].posterior = Left(history, n)
    BY <2>6, <2>7, <2>8, <2>9 DEF Left
  <2>11. QED
    BY <2>2, <2>10
<1>5. ASSUME NEW n \in 1..len PROVE history[n].posterior # {}
  <2>1. CASE n = 1
    BY <1>2, <2>1, LabModel
  <2>2. CASE n # 1
    <3>1. n \in 2..len
      BY <1>1, <2>2
    <3>2. QED
      BY <1>3, <3>1 DEF Filtered
  <2>3. QED
    BY <2>1, <2>2
<1>6. QED
  BY <1>1, <1>4, <1>5 DEF len

LEMMA InitChainIsSeq == Init => ChainIsSeq
<1> SUFFICES ASSUME Init PROVE ChainIsSeq
  OBVIOUS
<1>1. chain \in Seq({})
  BY EmptySeq DEF Init
<1>2. QED
  BY <1>1 DEF ChainIsSeq

\* The steps that change the chain.
LEMMA ChainSteps ==
  ASSUME [Next]_vars
  PROVE  \/ \E s \in Sessions : StartEpisode(s)
         \/ Rewind
         \/ Tamper
         \/ ConcludeObserve
         \/ ConcludeApply
         \/ UNCHANGED <<chain, tampers>>
BY DEF Next, vars, caller, Tick, Edit, BeginCapture, CaptureRead, EndCapture,
       BeginObserve, Revalidate, Search, NextPhase, BeginTool, ToolRead, MakeReport,
       BeginApply, VerifyRead

LEMMA NextChainIsSeq ==
  ASSUME ChainIsSeq, [Next]_vars PROVE ChainIsSeq'
<1> PICK S : chain \in Seq(S)
  BY DEF ChainIsSeq
<1>1. ASSUME NEW s \in Sessions, StartEpisode(s) PROVE ChainIsSeq'
  <2>1. chain' \in Seq({Initial(Binding(s))})
    BY <1>1 DEF StartEpisode
  <2>2. QED
    BY <2>1 DEF ChainIsSeq
<1>2. CASE Rewind
  <2>1. PICK n \in 1..(Len(chain) - 1) : chain' = SubSeq(chain, 1, n)
    BY <1>2 DEF Rewind
  <2>2. chain' \in Seq(S)
    BY <2>1, SubSeqProperties, LenProperties
  <2>3. QED
    BY <2>2 DEF ChainIsSeq
<1>3. CASE Tamper
  <2>1. PICK i \in 2..Len(chain) : \E revision : chain' = [chain EXCEPT ![i] = revision]
    BY <1>3 DEF Tamper
  <2> PICK revision : chain' = [chain EXCEPT ![i] = revision]
    BY <2>1
  <2>2. chain \in Seq(S \cup {revision}) /\ i \in 1..Len(chain)
    BY SeqMonotonic, LenProperties
  <2>3. chain' \in Seq(S \cup {revision})
    BY <2>2, ExceptSeq
  <2>4. QED
    BY <2>3 DEF ChainIsSeq
<1>4. ASSUME NEW revision, chain' = Append(chain, revision) PROVE ChainIsSeq'
  <2>1. chain \in Seq(S \cup {revision})
    BY SeqMonotonic
  <2>2. chain' \in Seq(S \cup {revision})
    BY <1>4, <2>1, AppendProperties
  <2>3. QED
    BY <2>2 DEF ChainIsSeq
<1>5. CASE UNCHANGED chain
  BY <1>5 DEF ChainIsSeq
<1>6. \A id, p, o, at : chain' = ChainAfter(id, p, o, at) => ChainIsSeq'
  BY <1>4, <1>5 DEF ChainAfter
<1>7. CASE ConcludeObserve \/ ConcludeApply
  BY <1>5, <1>6, <1>7 DEF ConcludeObserve, ConcludeApply
<1>8. QED
  BY <1>1, <1>2, <1>3, <1>5, <1>7, ChainSteps

LEMMA ChainIsSeqHolds == Spec => []ChainIsSeq
BY InitChainIsSeq, NextChainIsSeq, PTL DEF Spec

\* A chain that replays says of the worlds exactly what its observations
\* say, however often it was edited in place: replay recomputes every posterior.
THEOREM PosteriorFollowsHolds == Spec => []PosteriorFollows
<1>1. ChainIsSeq => PosteriorFollows
  <2> SUFFICES ASSUME ChainIsSeq, Trusted
               PROVE  /\ Last(chain).posterior # {}
                      /\ Last(chain).posterior = Left(chain, Len(chain))
    BY DEF PosteriorFollows, Left
  <2>1. PICK S : chain \in Seq(S)
    BY DEF ChainIsSeq
  <2>2. Len(chain) \in 1..Len(chain)
    BY <2>1, ReplayLeaves DEF Trusted
  <2>3. QED
    BY <2>1, <2>2, ReplayLeaves DEF Trusted, Last
<1>2. QED
  BY <1>1, ChainIsSeqHolds, PTL

-----------------------------------------------------------------------------
(* Conclusions.  A revision is justified when the manifest that its chain  *)
(* is bound to, and the report that it names, bear it out.                 *)

SourceDomain == "lab.source-session.binding.v1"
HostDomain == "lab.host-session.binding.v1"

SpecIn(binding, p) == binding[2][2][p]
HitsIn(binding, p) == {path \in SpecIn(binding, p).paths : p \in binding[2][1][path].has}
AnswersIn(binding, p) ==
  IF HitsIn(binding, p) = {} THEN {SpecIn(binding, p).says["empty"]}
  ELSE {SpecIn(binding, p).says[path] : path \in HitsIn(binding, p)}

Cited(binding, p, report) ==
  \A path \in report.cites :
    /\ report.saw[path] = binding[2][1][path]
    /\ SpecIn(binding, p).kind # "diff" => binding[2][1][path].text
    /\ AnchorSought(SpecIn(binding, p)) => p \in binding[2][1][path].has

Shown(binding, p, outcome) ==
  SpecIn(binding, p).kind \in Located /\ AnchorSought(SpecIn(binding, p)) =>
    IF outcome = SpecIn(binding, p).says["empty"]
    THEN SpecIn(binding, p).kind = "literal" => HitsIn(binding, p) = {}
    ELSE outcome \in AnswersIn(binding, p)

Exact(binding, p, outcome, report) ==
  /\ SpecIn(binding, p).kind \in Located
  /\ SpecIn(binding, p).anchored => AnchorSought(SpecIn(binding, p))
  /\ Honest(report)
  /\ \A path \in DOMAIN report.saw : report.saw[path] = binding[2][1][path]
  => AnswersIn(binding, p) = {outcome}

ByReport(binding, p, outcome, report) ==
  /\ Cited(binding, p, report)
  /\ Shown(binding, p, outcome)
  /\ Exact(binding, p, outcome, report)

Justified(binding, obs, held) ==
  /\ binding[1] = SourceDomain => AnswersIn(binding, obs.probe) = {obs.outcome}
  /\ binding[1] = HostDomain =>
       obs.id \in DOMAIN held /\ ByReport(binding, obs.probe, obs.outcome, held[obs.id])

\* Every revision is, but for the one that was edited so that it does not
\* follow from the one before it.
Conclusions ==
  /\ tampers \in Nat
  /\ tampers <= 1 =>
    \A i \in 2..Len(chain) :
      /\ \/ Justified(chain[1].binding, chain[i].obs, reports)
         \/ tampers = 1 /\ ~Filtered(chain[i - 1], chain[i])
      /\ tampers = 0 => Filtered(chain[i - 1], chain[i])

\* A report cites what its tool saw; a located one that says it found
\* something cites it, one that says it found nothing cites nothing.
Envelope(report) ==
  /\ report.cites \subseteq DOMAIN report.saw
  /\ report.status = "EMPTY" => report.cites = {}
  /\ report.kind \in Located /\ report.status = "OBSERVED" => report.cites # {}

Reports ==
  /\ \E S : reports \in Seq(S)
  /\ \A i \in DOMAIN reports : Envelope(reports[i])

-----------------------------------------------------------------------------
(* The conclusion of each bridge, from what its call knows at its end.     *)

LEMMA OneOf ==
  ASSUME NEW S, IsFiniteSet(S), ~(Cardinality(S) > 1), NEW x \in S
  PROVE  S = {x}
<1> SUFFICES ASSUME NEW y \in S, y # x PROVE FALSE
  OBVIOUS
<1> DEFINE T == {x}
           U == T \cup {y}
<1>1. IsFiniteSet(T) /\ Cardinality(T) = 1 /\ y \notin T /\ U \subseteq S
  BY FS_Singleton
<1> HIDE DEF T
<1>2. Cardinality(U) = 2
  BY <1>1, FS_AddElement
<1> HIDE DEF U
<1>3. Cardinality(U) <= Cardinality(S) /\ Cardinality(S) \in Nat
  BY <1>1, FS_Subset, FS_CardinalityType
<1>4. QED
  BY <1>2, <1>3

LEMMA ImagesAreFinite ==
  ASSUME NEW S \in SUBSET Path, NEW f, NEW T, T = {f[x] : x \in S}
  PROVE  IsFiniteSet(T)
<1> DEFINE g == [x \in S |-> f[x]]
<1>1. IsFiniteSet(S)
  BY LabPaths, FS_Subset
<1>2. g \in Surjection(S, T)
  BY DEF Surjection
<1>3. QED
  BY <1>1, <1>2, FS_Surjection

\* The literal bridge: the literal occurs in one of the captured files or in
\* none, and any file where it may occur maps to the one present outcome.
LEMMA SourceConcludes ==
  ASSUME NEW c \in SourceCatalogs, NEW p \in DOMAIN c, NEW manifest,
         NEW binding, binding[2][1] = manifest, binding[2][2] = c,
         NEW hit, hit <=> \E path \in c[p].paths : p \in manifest[path].has,
         NEW outcome,
         outcome = c[p].says[IF hit THEN NextOf(c[p].paths) ELSE "empty"]
  PROVE  AnswersIn(binding, p) = {outcome}
<1> DEFINE spec == c[p]
           present == {spec.says[path] : path \in spec.paths}
           hits == {path \in spec.paths : p \in manifest[path].has}
<1>1. spec.paths # {} /\ spec.paths \subseteq Path /\ PresentOrAbsent(spec)
  BY LabCatalogs DEF Coherent, CoversModel, FitsModel
<1>2. HitsIn(binding, p) = hits /\ SpecIn(binding, p) = spec
  BY DEF HitsIn, SpecIn
<1>3. CASE ~hit
  <2>1. hits = {}
    BY <1>3
  <2>2. QED
    BY <1>2, <1>3, <2>1 DEF AnswersIn
<1>4. CASE hit
  <2>1. PICK q \in spec.paths : q \in hits
    BY <1>4
  <2>2. NextOf(spec.paths) \in spec.paths
    BY <1>1 DEF NextOf
  <2>3. IsFiniteSet(present) /\ Cardinality(present) = 1
    BY <1>1, ImagesAreFinite DEF PresentOrAbsent
  <2>4. PICK o : present = {o}
    BY <2>3, FS_Singleton
  <2>5. \A path \in spec.paths : spec.says[path] = o
    BY <2>4
  <2>6. outcome = o
    BY <1>4, <2>2, <2>5
  <2>7. {spec.says[path] : path \in hits} = {o}
    BY <2>1, <2>5
  <2>8. QED
    BY <1>2, <2>1, <2>6, <2>7 DEF AnswersIn
<1>5. QED
  BY <1>3, <1>4

\* The host bridge, of a located probe.
LEMMA HostConcludes ==
  ASSUME NEW c \in Catalogs, NEW p \in DOMAIN c, NEW manifest,
         NEW binding, binding[2][1] = manifest, binding[2][2] = c,
         \A path \in Path : manifest[path] # None,
         NEW report, report.probe = p, Envelope(report),
         DOMAIN report.saw = c[p].paths,
         report.status \in {"OBSERVED", "EMPTY", "TRUNCATED"},
         Conclusiveness(report) # "NONE",
         c[p].kind = "literal" /\ report.status = "EMPTY" =>
           \A path \in c[p].paths : p \notin manifest[path].has,
         \A path \in report.cites :
           /\ report.saw[path] = manifest[path]
           /\ c[p].kind # "diff" => manifest[path].text
           /\ AnchorSought(c[p]) => p \in manifest[path].has,
         NEW outcome \in Outcomes(c[p], report), report.kind = c[p].kind
  PROVE  ByReport(binding, p, outcome, report)
<1> DEFINE spec == c[p]
           hits == {path \in spec.paths : p \in manifest[path].has}
           shown == {spec.says[path] : path \in report.cites}
<1>1. /\ spec.paths \subseteq Path /\ report.cites \subseteq spec.paths
      /\ spec.kind \in Located =>
           \A path \in spec.paths : spec.says[path] # spec.says["empty"]
  BY LabCatalogs DEF Coherent, Envelope
<1>2. HitsIn(binding, p) = hits /\ SpecIn(binding, p) = spec
  BY DEF HitsIn, SpecIn
<1>3. Cited(binding, p, report)
  BY <1>2 DEF Cited
<1>4. SUFFICES ASSUME spec.kind \in Located
               PROVE  Shown(binding, p, outcome) /\ Exact(binding, p, outcome, report)
  BY <1>2, <1>3 DEF ByReport, Shown, Exact
<1>5. outcome \in IF shown = {} THEN {spec.says["empty"]}
                  ELSE IF Cardinality(shown) > 1 THEN {}
                  ELSE IF /\ Conclusiveness(report) = "PRESENCE_ONLY"
                          /\ Cardinality(Says(spec)) > 1
                  THEN {} ELSE shown
  BY <1>4 DEF Outcomes, Located
<1>6. Honest(report) /\ (\A path \in DOMAIN report.saw : report.saw[path] = manifest[path])
        => IF report.status = "TRUNCATED" THEN report.cites \subseteq hits
           ELSE report.cites = hits
  <2> SUFFICES ASSUME \A path \in DOMAIN report.saw : report.saw[path] = manifest[path]
               PROVE  Hits(report.saw, report.probe) = hits
    BY DEF Honest
  <2>1. QED
    BY <1>1 DEF Hits
<1>7. report.status # "EMPTY" => report.cites # {}
  BY <1>4 DEF Envelope, Conclusiveness
<1>8. report.status = "EMPTY" => report.cites = {}
  BY DEF Envelope
<1> HIDE DEF hits
<1>9. CASE report.cites = {}
  <2>1. outcome = spec.says["empty"] /\ report.status = "EMPTY"
    BY <1>5, <1>7, <1>9
  <2>2. spec.kind = "literal" => hits = {}
    BY <2>1 DEF hits
  <2>3. Shown(binding, p, outcome)
    BY <1>2, <2>1, <2>2 DEF Shown
  <2>4. Exact(binding, p, outcome, report)
    BY <1>2, <1>6, <1>9, <2>1 DEF Exact, AnswersIn
  <2>5. QED
    BY <2>3, <2>4
<1>10. CASE report.cites # {}
  <2>1. /\ shown # {} /\ outcome \in shown /\ ~(Cardinality(shown) > 1)
        /\ report.status # "EMPTY"
        /\ Conclusiveness(report) = "PRESENCE_ONLY" => ~(Cardinality(Says(spec)) > 1)
    BY <1>5, <1>8, <1>10
  <2>2. outcome # spec.says["empty"]
    BY <1>1, <1>4, <2>1
  <2>3. AnchorSought(spec) => report.cites \subseteq hits
    BY <1>1, <1>4 DEF hits
  <2>4. Shown(binding, p, outcome)
    BY <1>2, <1>10, <2>1, <2>2, <2>3 DEF Shown, AnswersIn
  <2>5. ASSUME Honest(report),
               \A path \in DOMAIN report.saw : report.saw[path] = manifest[path]
        PROVE  AnswersIn(binding, p) = {outcome}
    <3>1. report.cites \subseteq hits /\ hits # {} /\ hits \subseteq spec.paths
      BY <1>6, <1>10, <2>5 DEF hits
    <3>2. AnswersIn(binding, p) = {spec.says[path] : path \in hits}
      BY <1>2, <3>1 DEF AnswersIn
    <3>3. CASE report.status = "TRUNCATED"
      <4>1. Conclusiveness(report) = "PRESENCE_ONLY"
        BY <1>10, <3>3 DEF Conclusiveness
      <4>2. IsFiniteSet(Says(spec))
        <5>1. spec.paths \in SUBSET Path
          BY <1>1
        <5>2. PICK f : f = spec.says
          OBVIOUS
        <5>3. Says(spec) = {f[path] : path \in spec.paths}
          BY <5>2 DEF Says
        <5> HIDE DEF spec
        <5>4. QED
          BY <5>1, <5>3, ImagesAreFinite
      <4>3. outcome \in Says(spec)
        BY <1>1, <2>1 DEF Says
      <4>4. ~(Cardinality(Says(spec)) > 1)
        BY <2>1, <4>1
      <4> HIDE DEF spec
      <4>5. Says(spec) = {outcome}
        BY <4>2, <4>3, <4>4, OneOf
      <4>6. \A path \in spec.paths : spec.says[path] = outcome
        BY <4>5 DEF Says
      <4>7. QED
        BY <3>1, <3>2, <4>6
    <3>4. CASE report.status # "TRUNCATED"
      <4>1. report.cites = hits
        BY <1>6, <2>5, <3>4
      <4>2. IsFiniteSet(shown)
        <5>1. report.cites \in SUBSET Path
          BY <1>1
        <5>2. PICK f : f = spec.says
          OBVIOUS
        <5>3. shown = {f[path] : path \in report.cites}
          BY <5>2
        <5> HIDE DEF shown, spec
        <5>4. QED
          BY <5>1, <5>3, ImagesAreFinite
      <4>3. shown = {outcome}
        BY <2>1, <4>2, OneOf
      <4>4. QED
        BY <3>2, <4>1, <4>3
    <3>5. QED
      BY <3>3, <3>4
  <2>6. QED
    BY <1>2, <2>4, <2>5 DEF Exact
<1>11. QED
  BY <1>9, <1>10

-----------------------------------------------------------------------------
(* What a call knows of the chain, the snapshot and the reports it was     *)
(* given, which nobody replaces while it runs.                             *)

Ready(snap) == snap # None => \A path \in Path : snap.manifest[path] # None

CaptureRecord(w) == w = [op |-> "capture", left |-> w.left, at |-> w.at, seen |-> w.seen]

\* Every file that was read was there.
Capturing(w) ==
  w.op = "capture" =>
    /\ CaptureRecord(w)
    /\ \A path \in Path \ w.left : path \in DOMAIN w.seen /\ w.seen[path] # None

ObserveRecord(w) ==
  w = [op |-> "observe", phase |-> w.phase, left |-> w.left, spec |-> w.spec,
       probe |-> w.probe, id |-> w.id, at |-> w.at, hit |-> w.hit]

\* The chain replays under the binding of the snapshot and the catalog.
SourceBound(w, snap, hist) ==
  \E c \in SourceCatalogs :
    /\ w.probe \in DOMAIN c /\ w.spec = c[w.probe]
    /\ hist[1].binding = SourceBinding(snap, c)
    /\ Replays(hist, hist[1].binding)

\* The literal was found in one of the captured files that were searched.
Found(w, paths, snap) == \E path \in paths : w.probe \in snap.manifest[path].has

Searched(w, snap) ==
  /\ w.phase \in {"before", "read", "after"} /\ w.hit \in BOOLEAN
  /\ w.phase = "before" => ~w.hit
  /\ w.phase = "read" => w.left \subseteq w.spec.paths
  /\ w.phase = "read" => (w.hit <=> Found(w, w.spec.paths \ w.left, snap))
  /\ w.phase = "after" => (w.hit <=> Found(w, w.spec.paths, snap))

Observing(w, snap, hist) ==
  w.op = "observe" => ObserveRecord(w) /\ SourceBound(w, snap, hist) /\ Searched(w, snap)

ToolRecord(w) ==
  w = [op |-> "tool", left |-> w.left, spec |-> w.spec, probe |-> w.probe,
       tool |-> w.tool, mode |-> w.mode, saw |-> w.saw]

Tooling(w) ==
  w.op = "tool" =>
    /\ ToolRecord(w)
    /\ w.spec.kind \in Located \cup {"check", "read"}
    /\ w.tool = LabReader => w.spec.kind \in {"literal", "read"}

ApplyRecord(w) ==
  w = [op |-> "apply", left |-> w.left, spec |-> w.spec, report |-> w.report]

HostBound(w, snap, hist, held) ==
  /\ snap # None /\ w.report \in DOMAIN held
  /\ MatchesSpec(held[w.report], w.spec) /\ Conclusiveness(held[w.report]) # "NONE"
  /\ \E c \in Catalogs, policy \in Policies :
       /\ held[w.report].probe \in DOMAIN c /\ w.spec = c[held[w.report].probe]
       /\ hist[1].binding = HostBinding(snap, c, policy)
       /\ Replays(hist, hist[1].binding)

Applying(w, snap, hist, held) ==
  w.op = "apply" => ApplyRecord(w) /\ HostBound(w, snap, hist, held)

Works(w, snap, hist, held) ==
  Capturing(w) /\ Observing(w, snap, hist) /\ Tooling(w) /\ Applying(w, snap, hist, held)

Work == Ready(snapshot) /\ Works(work, snapshot, chain, reports)

LEMMA IdleWorks ==
  ASSUME NEW snap, NEW hist, NEW held PROVE Works(Idle, snap, hist, held)
BY DEF Works, Capturing, Observing, Tooling, Applying, Idle

LEMMA CaptureWorks ==
  ASSUME Work, BeginCapture \/ CaptureRead \/ EndCapture PROVE Work'
<1>1. CASE BeginCapture
  <2>1. work' = [op |-> "capture", left |-> Path, at |-> now, seen |-> <<>>]
    BY <1>1 DEF BeginCapture
  <2>2. Capturing(work') /\ work'.op = "capture"
    BY <2>1 DEF Capturing, CaptureRecord
  <2>3. QED
    BY <1>1, <2>2 DEF BeginCapture, caller, Work, Works, Observing, Tooling, Applying
<1>2. CASE CaptureRead
  <2> DEFINE path == NextOf(work.left)
             left == work.left \ {path}
             seen == With(work.seen, path)
  <2>1. CASE work' = Idle
    BY <1>2, <2>1, IdleWorks DEF CaptureRead, caller, Work
  <2>2. CASE work' # Idle
    <3>1. /\ content[path] # None /\ work' = [work EXCEPT !.left = left, !.seen = seen]
          /\ Capturing(work) /\ work.op = "capture"
      BY <1>2, <2>2 DEF CaptureRead, Work, Works
    <3>2. /\ CaptureRecord(work)
          /\ \A q \in Path \ work.left : q \in DOMAIN work.seen /\ work.seen[q] # None
      BY <3>1 DEF Capturing
    <3>3. \A q \in Path \ left : q \in DOMAIN seen /\ seen[q] # None
      BY <3>1, <3>2 DEF With
    <3> HIDE DEF left, seen
    <3>4. work' = [op |-> "capture", left |-> left, at |-> work.at, seen |-> seen]
      BY <3>1, <3>2 DEF CaptureRecord
    <3>5. Capturing(work') /\ work'.op = "capture"
      BY <3>3, <3>4 DEF Capturing, CaptureRecord
    <3>6. QED
      BY <1>2, <3>5 DEF CaptureRead, caller, Work, Works, Observing, Tooling, Applying
  <2>3. QED
    BY <2>1, <2>2
<1>3. CASE EndCapture
  <2>1. /\ \A path \in Path : work.seen[path] # None
        /\ snapshot' = [manifest |-> work.seen, at |-> work.at]
    BY <1>3 DEF EndCapture, Work, Works, Capturing
  <2>2. Ready(snapshot') /\ work' = Idle
    BY <1>3, <2>1 DEF Ready, EndCapture
  <2>3. QED
    BY <2>2, IdleWorks DEF Work
<1>4. QED
  BY <1>1, <1>2, <1>3

\* A call that covers more of its files knows what it knew.
LEMMA ObserveOnly ==
  ASSUME Work, UNCHANGED caller, work'.op = "observe", Observing(work', snapshot, chain)
  PROVE  Work'
BY DEF caller, Work, Works, Capturing, Tooling, Applying

LEMMA BeginObserveWorks ==
  ASSUME Work, NEW s \in Sessions, NEW p \in Probe, NEW id \in Id, BeginObserve(s, p, id)
  PROVE  Work'
<1> DEFINE spec == s.catalog[p]
<1>1. s.bridge = "source" /\ Admits(s, p) /\ UNCHANGED caller
  BY DEF BeginObserve
<1>2. s.catalog \in SourceCatalogs /\ p \in DOMAIN s.catalog
  BY <1>1 DEF Sessions, Admits
<1>3. Replays(chain, SourceBinding(snapshot, s.catalog))
  BY <1>1 DEF Admits, Trusts, Binding
<1>4. chain[1].binding = SourceBinding(snapshot, s.catalog)
  BY <1>3 DEF Replays, Initial
<1> HIDE DEF spec
<1>5. work' = [op |-> "observe", phase |-> "before", left |-> Path, spec |-> spec,
               probe |-> p, id |-> id, at |-> now, hit |-> FALSE]
  BY DEF BeginObserve, spec
<1>6. ObserveRecord(work') /\ Searched(work', snapshot) /\ work'.op = "observe"
  BY <1>5 DEF ObserveRecord, Searched
<1>7. SourceBound(work', snapshot, chain)
  BY <1>2, <1>3, <1>4, <1>5 DEF SourceBound, spec
<1>8. QED
  BY <1>1, <1>6, <1>7, ObserveOnly DEF Observing

\* The record of a call, written out after a change of two of its fields.
LEMMA ObserveChanges ==
  ASSUME NEW w, ObserveRecord(w), NEW x, NEW y
  PROVE  /\ [w EXCEPT !.left = x, !.hit = y] =
              [op |-> "observe", phase |-> w.phase, left |-> x, spec |-> w.spec,
               probe |-> w.probe, id |-> w.id, at |-> w.at, hit |-> y]
         /\ [w EXCEPT !.phase = y, !.left = x] =
              [op |-> "observe", phase |-> y, left |-> x, spec |-> w.spec,
               probe |-> w.probe, id |-> w.id, at |-> w.at, hit |-> w.hit]
<1> DEFINE phase == w.phase
           left == w.left
           spec == w.spec
           probe == w.probe
           id == w.id
           at == w.at
           hit == w.hit
<1>1. w = [op |-> "observe", phase |-> phase, left |-> left, spec |-> spec,
           probe |-> probe, id |-> id, at |-> at, hit |-> hit]
  BY DEF ObserveRecord
<1> HIDE DEF phase, left, spec, probe, id, at, hit
<1>2. PICK u : u = [w EXCEPT !.left = x]
  OBVIOUS
<1>3. u = [op |-> "observe", phase |-> phase, left |-> x, spec |-> spec,
           probe |-> probe, id |-> id, at |-> at, hit |-> hit]
  BY <1>1, <1>2
<1>4. [u EXCEPT !.hit = y] =
        [op |-> "observe", phase |-> phase, left |-> x, spec |-> spec,
         probe |-> probe, id |-> id, at |-> at, hit |-> y]
  BY <1>3
<1>5. PICK v : v = [w EXCEPT !.phase = y]
  OBVIOUS
<1>6. v = [op |-> "observe", phase |-> y, left |-> left, spec |-> spec,
           probe |-> probe, id |-> id, at |-> at, hit |-> hit]
  BY <1>1, <1>5
<1>7. [v EXCEPT !.left = x] =
        [op |-> "observe", phase |-> y, left |-> x, spec |-> spec,
         probe |-> probe, id |-> id, at |-> at, hit |-> hit]
  BY <1>6
<1>8. QED
  BY <1>2, <1>4, <1>5, <1>7, Zenon DEF phase, left, spec, probe, id, at, hit

LEMMA ObserveWorks ==
  ASSUME Work, Revalidate \/ Search \/ NextPhase PROVE Work'
<1> DEFINE path == NextOf(work.left)
           rest == work.left \ {path}
           found == work.probe \in content[path].has
           hit == work.hit \/ found
<1>1. CASE work' = Idle
  BY <1>1, IdleWorks DEF Revalidate, Search, NextPhase, caller, Work
<1>2. CASE work' # Idle
  <2>1. work.op = "observe" /\ UNCHANGED caller
    BY DEF Revalidate, Search, NextPhase
  <2>2. ObserveRecord(work) /\ SourceBound(work, snapshot, chain) /\ Searched(work, snapshot)
    BY <2>1 DEF Work, Works, Observing
  <2>3. ASSUME NEW phase, NEW left, NEW h \in BOOLEAN,
               work' = [op |-> "observe", phase |-> phase, left |-> left, spec |-> work.spec,
                        probe |-> work.probe, id |-> work.id, at |-> work.at, hit |-> h],
               Searched(work', snapshot)
        PROVE  Work'
    <3>1. SourceBound(work', snapshot, chain)
      BY <2>2, <2>3 DEF SourceBound
    <3>2. ObserveRecord(work') /\ work'.op = "observe"
      BY <2>3 DEF ObserveRecord
    <3>3. QED
      BY <2>1, <2>3, <3>1, <3>2, ObserveOnly DEF Observing
  <2>4. work.hit \in BOOLEAN
    BY <2>2 DEF Searched
  <2>5. CASE Revalidate
    <3>1. work' = [work EXCEPT !.left = rest] /\ work.phase # "read"
      BY <1>2, <2>5 DEF Revalidate
    <3> HIDE DEF rest
    <3>2. work' = [op |-> "observe", phase |-> work.phase, left |-> rest, spec |-> work.spec,
                   probe |-> work.probe, id |-> work.id, at |-> work.at, hit |-> work.hit]
      BY <2>2, <3>1 DEF ObserveRecord
    <3>3. Searched(work', snapshot)
      BY <2>2, <3>1, <3>2 DEF Searched, Found
    <3>4. QED
      BY <2>3, <2>4, <3>2, <3>3
  <2>6. CASE Search
    <3>1. /\ work' = [work EXCEPT !.left = rest, !.hit = hit]
          /\ work.phase = "read" /\ work.left # {} /\ content[path] = snapshot.manifest[path]
      BY <1>2, <2>6 DEF Search, Accepts, Matches, Manifest
    <3>2. work.left \subseteq work.spec.paths /\ path \in work.left
      BY <2>2, <3>1 DEF Searched, NextOf
    <3>3. work.spec.paths \ rest = (work.spec.paths \ work.left) \cup {path}
      BY <3>2
    <3>4. found <=> work.probe \in snapshot.manifest[path].has
      BY <3>1
    <3> HIDE DEF found
    <3>5. hit <=> Found(work, work.spec.paths \ rest, snapshot)
      BY <2>2, <3>1, <3>3, <3>4 DEF Searched, Found
    <3>6. rest \subseteq work.spec.paths
      BY <3>2
    <3>7. hit \in BOOLEAN
      OBVIOUS
    <3> HIDE DEF rest, hit
    <3>8. work' = [op |-> "observe", phase |-> "read", left |-> rest, spec |-> work.spec,
                   probe |-> work.probe, id |-> work.id, at |-> work.at, hit |-> hit]
      BY <2>2, <3>1, ObserveChanges, ZenonT(30)
    <3>9. Searched(work', snapshot)
      BY <3>5, <3>6, <3>7, <3>8 DEF Searched, Found
    <3>10. QED
      BY <2>3, <3>7, <3>8, <3>9
  <2>7. CASE NextPhase
    <3>1. CASE work.phase = "before"
      <4>1. work' = [work EXCEPT !.phase = "read", !.left = work.spec.paths]
        BY <2>7, <3>1 DEF NextPhase
      <4>2. work' = [op |-> "observe", phase |-> "read", left |-> work.spec.paths,
                     spec |-> work.spec, probe |-> work.probe, id |-> work.id,
                     at |-> work.at, hit |-> work.hit]
        BY <2>2, <4>1, ObserveChanges, Zenon
      <4>3. ~work.hit
        BY <2>2, <3>1 DEF Searched
      <4>4. Searched(work', snapshot)
        BY <2>4, <4>2, <4>3 DEF Searched, Found
      <4>5. QED
        BY <2>3, <2>4, <4>2, <4>4
    <3>2. CASE work.phase # "before"
      <4>1. work' = [work EXCEPT !.phase = "after", !.left = Path]
        BY <2>7, <3>2 DEF NextPhase
      <4>2. work' = [op |-> "observe", phase |-> "after", left |-> Path,
                     spec |-> work.spec, probe |-> work.probe, id |-> work.id,
                     at |-> work.at, hit |-> work.hit]
        BY <2>2, <4>1, ObserveChanges, Zenon
      <4>3. work.phase = "read" /\ work.left = {}
        BY <2>2, <2>7, <3>2 DEF Searched, NextPhase
      <4>4. work.spec.paths \ work.left = work.spec.paths
        BY <4>3
      <4>5. work.hit <=> Found(work, work.spec.paths, snapshot)
        BY <2>2, <4>3, <4>4 DEF Searched
      <4>6. Searched(work', snapshot)
        BY <2>4, <4>2, <4>5 DEF Searched, Found
      <4>7. QED
        BY <2>3, <2>4, <4>2, <4>6
    <3>3. QED
      BY <3>1, <3>2
  <2>8. QED
    BY <2>5, <2>6, <2>7
<1>3. QED
  BY <1>1, <1>2

LEMMA ToolWorks ==
  ASSUME Work, (\E s \in Sessions, p \in Probe : BeginTool(s, p)) \/ ToolRead PROVE Work'
<1>1. ASSUME UNCHANGED caller, work'.op = "tool", Tooling(work') PROVE Work'
  BY <1>1 DEF caller, Work, Works, Capturing, Observing, Applying
<1>2. ASSUME NEW s \in Sessions, NEW p \in Probe, BeginTool(s, p) PROVE Work'
  <2> DEFINE spec == s.catalog[p]
  <2>1. /\ s.catalog \in Catalogs /\ p \in DOMAIN s.catalog
    BY <1>2 DEF BeginTool, Sessions
  <2>2. spec.kind \in Located \cup {"check", "read"}
    BY <2>1, LabCatalogs DEF Coherent
  <2> HIDE DEF spec
  <2>3. PICK tool \in Tool :
          /\ tool = LabReader => spec.kind \in {"literal", "read"}
          /\ work' = [op |-> "tool", left |-> spec.paths, spec |-> spec,
                      probe |-> p, tool |-> tool, mode |-> s.policy.mode, saw |-> <<>>]
    BY <1>2 DEF BeginTool, spec
  <2>4. Tooling(work') /\ work'.op = "tool"
    BY <2>2, <2>3 DEF Tooling, ToolRecord
  <2>5. QED
    BY <1>1, <1>2, <2>4 DEF BeginTool
<1>3. CASE ToolRead
  <2> DEFINE left == work.left \ {NextOf(work.left)}
             saw == With(work.saw, NextOf(work.left))
  <2>1. CASE work' = Idle
    BY <1>3, <2>1, IdleWorks DEF ToolRead, caller, Work
  <2>2. CASE work' # Idle
    <3>1. work' = [work EXCEPT !.left = left, !.saw = saw] /\ Tooling(work) /\ work.op = "tool"
      BY <1>3, <2>2 DEF ToolRead, Work, Works
    <3> HIDE DEF left, saw
    <3>2. PICK v : v = [work EXCEPT !.left = left]
      OBVIOUS
    <3>3. v = [op |-> "tool", left |-> left, spec |-> work.spec, probe |-> work.probe,
               tool |-> work.tool, mode |-> work.mode, saw |-> work.saw]
      BY <3>1, <3>2 DEF Tooling, ToolRecord
    <3>4. work' = [v EXCEPT !.saw = saw]
      BY <3>1, <3>2, Zenon
    <3>5. work' = [op |-> "tool", left |-> left, spec |-> work.spec, probe |-> work.probe,
                   tool |-> work.tool, mode |-> work.mode, saw |-> saw]
      BY <3>3, <3>4
    <3>6. Tooling(work') /\ work'.op = "tool"
      BY <3>1, <3>5 DEF Tooling, ToolRecord
    <3>7. QED
      BY <1>1, <1>3, <3>6 DEF ToolRead
  <2>3. QED
    BY <2>1, <2>2
<1>4. QED
  BY <1>2, <1>3

LEMMA ApplyWorks ==
  ASSUME Work,
         (\E s \in Sessions, i \in DOMAIN reports : BeginApply(s, i)) \/ VerifyRead
  PROVE  Work'
<1>1. ASSUME UNCHANGED caller, work'.op = "apply", Applying(work', snapshot, chain, reports)
      PROVE  Work'
  BY <1>1 DEF caller, Work, Works, Capturing, Observing, Tooling
<1>2. ASSUME NEW s \in Sessions, NEW i \in DOMAIN reports, BeginApply(s, i) PROVE Work'
  <2> DEFINE p == reports[i].probe
             spec == s.catalog[p]
  <2>1. /\ s.bridge = "host" /\ Admits(s, p) /\ UNCHANGED caller
        /\ MatchesSpec(reports[i], spec) /\ Conclusiveness(reports[i]) # "NONE"
    BY <1>2 DEF BeginApply
  <2>2. s.catalog \in Catalogs /\ s.policy \in Policies /\ p \in DOMAIN s.catalog
    BY <2>1 DEF Sessions, Admits
  <2>3. Replays(chain, HostBinding(snapshot, s.catalog, s.policy)) /\ snapshot # None
    BY <2>1 DEF Admits, Trusts, Binding
  <2>4. chain[1].binding = HostBinding(snapshot, s.catalog, s.policy)
    BY <2>3 DEF Replays, Initial
  <2>5. work' = [op |-> "apply", left |-> spec.paths, spec |-> spec, report |-> i]
    BY <1>2 DEF BeginApply
  <2> HIDE DEF spec
  <2>6. ApplyRecord(work') /\ work'.op = "apply" /\ work'.spec = spec /\ work'.report = i
    BY <2>5 DEF ApplyRecord
  <2>7. HostBound(work', snapshot, chain, reports)
    BY <2>1, <2>2, <2>3, <2>4, <2>6 DEF HostBound, spec
  <2>8. QED
    BY <1>1, <2>1, <2>6, <2>7 DEF Applying
<1>3. CASE VerifyRead
  <2> DEFINE left == work.left \ {NextOf(work.left)}
  <2>1. CASE work' = Idle
    BY <1>3, <2>1, IdleWorks DEF VerifyRead, caller, Work
  <2>2. CASE work' # Idle
    <3>1. /\ work' = [work EXCEPT !.left = left]
          /\ ApplyRecord(work) /\ HostBound(work, snapshot, chain, reports)
      BY <1>3, <2>2 DEF VerifyRead, Work, Works, Applying
    <3> HIDE DEF left
    <3>2. work' = [op |-> "apply", left |-> left, spec |-> work.spec, report |-> work.report]
      BY <3>1 DEF ApplyRecord
    <3>3. ApplyRecord(work') /\ work'.op = "apply"
      BY <3>2 DEF ApplyRecord
    <3>4. work'.spec = work.spec /\ work'.report = work.report
      BY <3>2
    <3>5. HostBound(work', snapshot, chain, reports)
      BY <3>1, <3>4 DEF HostBound
    <3>6. QED
      BY <1>1, <1>3, <3>3, <3>5 DEF VerifyRead, Applying
  <2>3. QED
    BY <2>1, <2>2
<1>4. QED
  BY <1>2, <1>3

\* The steps that change neither the caller's things nor the call that
\* runs, and those that leave no call running.
LEMMA OtherWorks ==
  ASSUME Work,
         \/ UNCHANGED <<caller, work>>
         \/ work' = Idle /\ snapshot' = snapshot
  PROVE  Work'
BY IdleWorks DEF caller, Work

LEMMA NextWork ==
  ASSUME Work, [Next]_vars PROVE Work'
<1>1. CASE UNCHANGED vars
  BY <1>1, OtherWorks DEF vars, caller
<1>2. CASE Tick \/ \E path \in Path : Edit(path)
  BY <1>2, OtherWorks DEF Tick, Edit
<1>3. CASE BeginCapture \/ CaptureRead \/ EndCapture
  BY <1>3, CaptureWorks
<1>4. CASE (\E s \in Sessions : StartEpisode(s)) \/ Rewind \/ Tamper
  BY <1>4, OtherWorks DEF StartEpisode, Rewind, Tamper
<1>5. CASE \E s \in Sessions, p \in Probe, id \in Id : BeginObserve(s, p, id)
  BY <1>5, BeginObserveWorks
<1>6. CASE Revalidate \/ Search \/ NextPhase
  BY <1>6, ObserveWorks
<1>7. CASE (\E s \in Sessions, p \in Probe : BeginTool(s, p)) \/ ToolRead
  BY <1>7, ToolWorks
<1>8. CASE ConcludeObserve \/ MakeReport \/ ConcludeApply
  BY <1>8, OtherWorks DEF ConcludeObserve, MakeReport, ConcludeApply
<1>9. CASE (\E s \in Sessions, i \in DOMAIN reports : BeginApply(s, i)) \/ VerifyRead
  BY <1>9, ApplyWorks
<1>10. QED
  BY <1>1, <1>2, <1>3, <1>4, <1>5, <1>6, <1>7, <1>8, <1>9 DEF Next

LEMMA WorkHolds == Spec => []Work
<1>1. Init => Work
  BY IdleWorks DEF Init, Work, Ready
<1>2. QED
  BY <1>1, NextWork, PTL DEF Spec

-----------------------------------------------------------------------------
(* Every report has the envelope that the schema demands.                  *)

LEMMA MadeReports ==
  ASSUME Work, MakeReport,
         NEW report \in IF work.tool = LabReader THEN LabReports ELSE HostReports
  PROVE  Envelope(report)
<1>1. /\ work.spec.kind \in Located \cup {"check", "read"}
      /\ work.tool = LabReader => work.spec.kind \in {"literal", "read"}
  BY DEF MakeReport, Work, Works, Tooling
<1>2. ASSUME NEW status, NEW cites, NEW verdict, NEW reading,
             report = Report(status, cites, verdict, reading)
      PROVE  /\ report.cites = cites /\ report.saw = work.saw /\ report.status = status
             /\ report.kind = work.spec.kind
  BY <1>2 DEF Report
<1>3. ASSUME NEW status, NEW cites, NEW verdict, NEW reading,
             report = Report(status, cites, verdict, reading),
             cites \subseteq DOMAIN work.saw,
             status = "EMPTY" => cites = {},
             work.spec.kind \in Located /\ status = "OBSERVED" => cites # {}
      PROVE  Envelope(report)
  BY <1>2, <1>3 DEF Envelope
<1>4. CASE work.tool = LabReader
  <2>1. Hits(work.saw, work.probe) \subseteq DOMAIN work.saw
    BY DEF Hits
  <2>2. CASE work.spec.kind = "literal"
    <3>1. report \in LiteralReports
      BY <1>4, <2>2 DEF LabReports
    <3>2. QED
      BY <1>3, <2>1, <3>1 DEF LiteralReports
  <2>3. CASE work.spec.kind # "literal"
    <3>1. report \in FileReports /\ work.spec.kind \notin Located
      BY <1>1, <1>4, <2>3 DEF LabReports, Located
    <3>2. QED
      BY <1>3, <3>1 DEF FileReports
  <2>4. QED
    BY <2>2, <2>3
<1>5. CASE work.tool # LabReader
  <2>1. \/ report = Report("FAILED", {}, None, None)
        \/ work.spec.kind \in Located /\ report \in LocatedReports
        \/ work.spec.kind = "check" /\ report \in CheckReports
        \/ work.spec.kind = "read" /\ report \in ReadReports
    BY <1>1, <1>5 DEF HostReports, Located
  <2>2. Citations \subseteq SUBSET DOMAIN work.saw
    BY DEF Citations
  <2>3. CASE report = Report("FAILED", {}, None, None)
    BY <1>3, <2>3
  <2>4. CASE work.spec.kind \in Located /\ report \in LocatedReports
    BY <1>3, <2>2, <2>4 DEF LocatedReports
  <2>5. CASE work.spec.kind = "check" /\ report \in CheckReports
    BY <1>3, <2>5 DEF CheckReports, Located
  <2>6. CASE work.spec.kind = "read" /\ report \in ReadReports
    BY <1>3, <2>2, <2>6 DEF ReadReports, Located
  <2>7. QED
    BY <2>1, <2>3, <2>4, <2>5, <2>6
<1>6. QED
  BY <1>4, <1>5

\* Reports are only ever added.
LEMMA ReportSteps ==
  ASSUME [Next]_vars PROVE MakeReport \/ UNCHANGED reports
BY DEF Next, vars, caller, Tick, Edit, BeginCapture, CaptureRead, EndCapture, StartEpisode,
       Rewind, Tamper, BeginObserve, Revalidate, Search, NextPhase, ConcludeObserve,
       BeginTool, ToolRead, BeginApply, VerifyRead, ConcludeApply

LEMMA NextReports ==
  ASSUME Work, Reports, [Next]_vars
  PROVE  /\ Reports'
         /\ DOMAIN reports \subseteq DOMAIN reports'
         /\ \A i \in DOMAIN reports : reports'[i] = reports[i]
<1>1. CASE UNCHANGED reports
  BY <1>1 DEF Reports
<1>2. CASE MakeReport
  <2>1. PICK report \in IF work.tool = LabReader THEN LabReports ELSE HostReports :
          reports' = Append(reports, report)
    BY <1>2 DEF MakeReport
  <2>2. Envelope(report)
    BY <1>2, <2>1, MadeReports
  <2>3. PICK S : reports \in Seq(S)
    BY DEF Reports
  <2>4. reports \in Seq(S \cup {report})
    BY <2>3, SeqMonotonic
  <2>5. /\ reports' \in Seq(S \cup {report})
        /\ Len(reports') = Len(reports) + 1
        /\ \A i \in 1..Len(reports) : reports'[i] = reports[i]
        /\ reports'[Len(reports) + 1] = report
    BY <2>1, <2>4, AppendProperties
  <2>6. /\ DOMAIN reports = 1..Len(reports) /\ DOMAIN reports' = 1..Len(reports')
        /\ Len(reports) \in Nat
    BY <2>3, <2>5, LenProperties
  <2>7. \A i \in DOMAIN reports' : i \in DOMAIN reports \/ i = Len(reports) + 1
    BY <2>5, <2>6
  <2>8. \A i \in DOMAIN reports' : Envelope(reports'[i])
    BY <2>2, <2>5, <2>6, <2>7 DEF Reports
  <2>9. DOMAIN reports \subseteq DOMAIN reports'
    BY <2>5, <2>6
  <2>10. QED
    BY <2>5, <2>6, <2>8, <2>9 DEF Reports
<1>3. QED
  BY <1>1, <1>2, ReportSteps

LEMMA ReportsHold == Spec => []Reports
<1>1. Init => Reports
  <2>1. <<>> \in Seq({}) /\ DOMAIN <<>> = {}
    BY EmptySeq
  <2>2. QED
    BY <2>1 DEF Init, Reports
<1>2. QED
  BY <1>1, NextReports, WorkHolds, PTL DEF Spec

-----------------------------------------------------------------------------
(* Revisions keep their shape.                                             *)

Shaped(revision) ==
  /\ DOMAIN revision = {"binding", "prior", "obs", "pairs", "posterior"}
  /\ DOMAIN revision.obs = {"id", "probe", "outcome", "at"}

Shapes == \A i \in 2..Len(chain) : Shaped(chain[i])

\* What a call appends, when it appends anything.
Concluded(id, p, outcome, at) ==
  Extended(Last(chain), [id |-> id, probe |-> p, outcome |-> outcome, at |-> at])

LEMMA ChainAfterExtends ==
  ASSUME NEW id, NEW p, NEW outcome, NEW at, chain' = ChainAfter(id, p, outcome, at)
  PROVE  \/ UNCHANGED chain
         \/ /\ chain' = Append(chain, Concluded(id, p, outcome, at))
            /\ Filtered(Last(chain), Concluded(id, p, outcome, at))
<1> DEFINE obs == [id |-> id, probe |-> p, outcome |-> outcome, at |-> at]
<1>1. CASE CanExtend(chain, obs)
  <2>1. chain' = Append(chain, Extended(Last(chain), obs))
    BY <1>1 DEF ChainAfter
  <2>2. Filter(Last(chain).posterior, p, outcome) # {}
    BY <1>1 DEF CanExtend
  <2>3. /\ Extended(Last(chain), obs).posterior = Filter(Last(chain).posterior, p, outcome)
        /\ Extended(Last(chain), obs).obs = obs
    BY DEF Extended
  <2>4. Filtered(Last(chain), Extended(Last(chain), obs))
    BY <2>2, <2>3 DEF Filtered
  <2>5. QED
    BY <2>1, <2>4 DEF Concluded
<1>2. CASE ~CanExtend(chain, obs)
  BY <1>2 DEF ChainAfter
<1>3. QED
  BY <1>1, <1>2

\* What an edit of a revision in place leaves alone.
LEMMA TamperedShape ==
  ASSUME NEW r, Shaped(r), NEW revision \in Tampered(r)
  PROVE  /\ Shaped(revision)
         /\ revision.obs.id = r.obs.id /\ revision.obs.probe = r.obs.probe
         /\ revision.obs.outcome = r.obs.outcome \/ revision.posterior = r.posterior
<1> DEFINE obs == r.obs
<1>1. /\ DOMAIN r = {"binding", "prior", "obs", "pairs", "posterior"}
      /\ DOMAIN obs = {"id", "probe", "outcome", "at"}
  BY DEF Shaped
<1>2. CASE \E ws \in (SUBSET World) \ {{}} : revision = [r EXCEPT !.posterior = ws]
  BY <1>1, <1>2 DEF Shaped
<1>3. ASSUME NEW o \in Outcome,
             revision = [r EXCEPT !.obs.outcome = o, !.pairs[Len(r.pairs)][2] = o]
      PROVE  /\ DOMAIN revision = DOMAIN r /\ revision.posterior = r.posterior
             /\ revision.obs = [obs EXCEPT !.outcome = o]
  <2>1. PICK u : u = [r EXCEPT !.obs.outcome = o]
    OBVIOUS
  <2>2. DOMAIN u = DOMAIN r /\ u.posterior = r.posterior /\ u.obs = [obs EXCEPT !.outcome = o]
    BY <1>1, <2>1
  <2>3. revision = [u EXCEPT !.pairs[Len(r.pairs)][2] = o]
    BY <1>3, <2>1, Zenon
  <2>4. DOMAIN revision = DOMAIN u /\ revision.posterior = u.posterior /\ revision.obs = u.obs
    BY <1>1, <2>2, <2>3
  <2>5. QED
    BY <2>2, <2>4
<1>4. CASE \E t \in 0..MaxClock : revision = [r EXCEPT !.obs.at = t]
  <2>1. PICK t : revision = [r EXCEPT !.obs.at = t]
    BY <1>4
  <2>2. /\ DOMAIN revision = DOMAIN r /\ revision.posterior = r.posterior
        /\ revision.obs = [obs EXCEPT !.at = t]
    BY <1>1, <2>1
  <2>3. QED
    BY <1>1, <2>2 DEF Shaped
<1>5. CASE \E o \in Outcome :
             revision = [r EXCEPT !.obs.outcome = o, !.pairs[Len(r.pairs)][2] = o]
  <2>1. PICK o \in Outcome : /\ DOMAIN revision = DOMAIN r /\ revision.posterior = r.posterior
                             /\ revision.obs = [obs EXCEPT !.outcome = o]
    BY <1>3, <1>5
  <2>2. QED
    BY <1>1, <2>1 DEF Shaped
<1>6. QED
  BY <1>2, <1>4, <1>5 DEF Tampered

-----------------------------------------------------------------------------
(* Conclusions are justified when they are drawn, and stay so.             *)

\* The chain replays, so that no revision of it was edited into another
\* observation, and what is appended is justified.
LEMMA JustifiedAtTheEnd ==
  ASSUME NEW id, NEW p, NEW outcome, NEW at,
         Justified(chain[1].binding, [id |-> id, probe |-> p, outcome |-> outcome, at |-> at],
                   reports)
  PROVE  Justified(chain[1].binding, Concluded(id, p, outcome, at).obs, reports)
BY DEF Concluded, Extended

LEMMA SourceConclusion ==
  ASSUME Work, ConcludeObserve
  PROVE  /\ Replays(chain, chain[1].binding)
         /\ \E id, p, outcome, at :
              /\ chain' = ChainAfter(id, p, outcome, at)
              /\ Justified(chain[1].binding,
                           [id |-> id, probe |-> p, outcome |-> outcome, at |-> at], reports)
<1> DEFINE p == work.probe
           binding == chain[1].binding
           outcome == work.spec.says[IF work.hit THEN NextOf(work.spec.paths) ELSE "empty"]
<1>1. SourceBound(work, snapshot, chain) /\ Searched(work, snapshot) /\ work.phase = "after"
  BY DEF ConcludeObserve, Work, Works, Observing
<1>2. PICK c \in SourceCatalogs :
        /\ p \in DOMAIN c /\ work.spec = c[p]
        /\ binding = SourceBinding(snapshot, c) /\ Replays(chain, binding)
  BY <1>1 DEF SourceBound
<1>3. /\ binding[1] = SourceDomain
      /\ binding[2][1] = snapshot.manifest /\ binding[2][2] = c
  BY <1>2 DEF SourceBinding, Seal, SourceDomain
<1>4. work.hit <=> \E path \in c[p].paths : p \in snapshot.manifest[path].has
  BY <1>1, <1>2 DEF Searched, Found
<1>5. AnswersIn(binding, p) = {outcome}
  BY <1>2, <1>3, <1>4, SourceConcludes
<1>6. binding[1] # HostDomain
  BY <1>3 DEF SourceDomain, HostDomain
<1>7. chain' = ChainAfter(work.id, p, outcome, work.at)
  BY DEF ConcludeObserve
<1> HIDE DEF p, binding, outcome
<1>8. Justified(binding, [id |-> work.id, probe |-> p, outcome |-> outcome, at |-> work.at],
                reports)
  BY <1>5, <1>6 DEF Justified
<1>9. QED
  BY <1>2, <1>7, <1>8 DEF binding

LEMMA HostConclusion ==
  ASSUME Work, Reports, ConcludeApply, ~UNCHANGED chain
  PROVE  /\ Replays(chain, chain[1].binding)
         /\ \E id, p, outcome, at :
              /\ chain' = ChainAfter(id, p, outcome, at)
              /\ Justified(chain[1].binding,
                           [id |-> id, probe |-> p, outcome |-> outcome, at |-> at], reports)
<1> DEFINE report == reports[work.report]
           p == report.probe
           binding == chain[1].binding
           manifest == snapshot.manifest
<1>1. HostBound(work, snapshot, chain, reports) /\ Ready(snapshot)
  BY DEF ConcludeApply, Work, Works, Applying
<1>2. PICK c \in Catalogs, policy \in Policies :
        /\ p \in DOMAIN c /\ work.spec = c[p]
        /\ binding = HostBinding(snapshot, c, policy) /\ Replays(chain, binding)
  BY <1>1 DEF HostBound
<1>3. /\ binding[1] = HostDomain
      /\ binding[2][1] = manifest /\ binding[2][2] = c
  BY <1>2 DEF HostBinding, Seal, HostDomain
<1>4. /\ \A path \in Path : manifest[path] # None
      /\ work.report \in DOMAIN reports /\ Envelope(report)
      /\ DOMAIN report.saw = c[p].paths /\ report.kind = c[p].kind
      /\ Conclusiveness(report) # "NONE"
  BY <1>1, <1>2 DEF HostBound, Ready, Reports, MatchesSpec
<1>5. report.status \in {"OBSERVED", "EMPTY", "TRUNCATED"}
  BY <1>4 DEF Conclusiveness
<1>6. PICK outcome \in Outcomes(c[p], report) :
        /\ chain' = ChainAfter(work.report, p, outcome, report.at)
        /\ ~Contradicted(c[p], report)
        /\ \A path \in report.cites : Verified(c[p], report, path)
  BY <1>2 DEF ConcludeApply
<1>7. c[p].kind = "literal" /\ report.status = "EMPTY" =>
        \A path \in c[p].paths : p \notin manifest[path].has
  BY <1>6 DEF Contradicted, Manifest
<1>8. \A path \in report.cites :
        /\ report.saw[path] = manifest[path]
        /\ c[p].kind # "diff" => manifest[path].text
        /\ AnchorSought(c[p]) => p \in manifest[path].has
  BY <1>6 DEF Verified, Manifest
<1> HIDE DEF manifest, binding, report
<1>9. ByReport(binding, p, outcome, report)
  BY <1>2, <1>3, <1>4, <1>5, <1>6, <1>7, <1>8, HostConcludes
<1>10. binding[1] # SourceDomain
  BY <1>3 DEF SourceDomain, HostDomain
<1> HIDE DEF p
<1>11. Justified(binding, [id |-> work.report, probe |-> p, outcome |-> outcome,
                           at |-> report.at], reports)
  BY <1>4, <1>9, <1>10 DEF Justified, report
<1>12. QED
  BY <1>2, <1>6, <1>11 DEF binding

LEMMA ReplayJustifies ==
  ASSUME ChainIsSeq, Conclusions, tampers <= 1, Replays(chain, chain[1].binding)
  PROVE  \A i \in 2..Len(chain) :
           /\ Filtered(chain[i - 1], chain[i])
           /\ Justified(chain[1].binding, chain[i].obs, reports)
<1>1. \A i \in 2..Len(chain) : Filtered(chain[i - 1], chain[i])
  BY FollowsFilters DEF Replays
<1>2. QED
  BY <1>1 DEF Conclusions

LEMMA KeepConclusions ==
  ASSUME Work, Reports, Shapes, Conclusions, [Next]_vars, UNCHANGED <<chain, tampers>>
  PROVE  Shapes' /\ Conclusions'
<1>1. ASSUME NEW binding, NEW obs, Justified(binding, obs, reports)
      PROVE  Justified(binding, obs, reports')
  BY <1>1, NextReports DEF Justified
<1>2. QED
  BY <1>1 DEF Shapes, Conclusions

LEMMA StartConclusions ==
  ASSUME Shapes, Conclusions, NEW s \in Sessions, StartEpisode(s)
  PROVE  Shapes' /\ Conclusions'
<1> DEFINE revision == Initial(Binding(s))
<1>1. chain' = <<revision>> /\ UNCHANGED tampers
  BY DEF StartEpisode
<1> HIDE DEF revision
<1>2. Len(chain') = 1
  BY <1>1
<1>3. ~ \E i \in 2..Len(chain') : TRUE
  BY <1>2
<1>4. QED
  BY <1>1, <1>3 DEF Shapes, Conclusions

LEMMA RewindConclusions ==
  ASSUME ChainIsSeq, Shapes, Conclusions, Rewind
  PROVE  Shapes' /\ Conclusions'
<1>1. PICK n \in 1..(Len(chain) - 1) : chain' = SubSeq(chain, 1, n)
  BY DEF Rewind
<1>2. PICK S : chain \in Seq(S)
  BY DEF ChainIsSeq
<1>3. Len(chain) \in Nat /\ n \in 0..Len(chain)
  BY <1>1, <1>2, LenProperties
<1>4. Len(chain') = n /\ \A i \in 1..n : chain'[i] = chain[i]
  BY <1>1, <1>2, <1>3, SubSeqProperties
<1>5. ASSUME NEW i \in 2..Len(chain')
      PROVE  /\ i \in 2..Len(chain) /\ chain'[1] = chain[1]
             /\ chain'[i] = chain[i] /\ chain'[i - 1] = chain[i - 1]
  <2>1. i \in 2..n
    BY <1>4
  <2>2. i \in 1..n /\ 1 \in 1..n /\ i - 1 \in 1..n /\ i \in 2..Len(chain)
    BY <1>3, <2>1
  <2>3. QED
    BY <1>4, <2>2
<1>6. UNCHANGED <<tampers, reports>>
  BY DEF Rewind
<1>7. Shapes'
  BY <1>5 DEF Shapes
<1>8. ASSUME tampers <= 1, NEW i \in 2..Len(chain')
      PROVE  /\ \/ Justified(chain'[1].binding, chain'[i].obs, reports)
                \/ tampers = 1 /\ ~Filtered(chain'[i - 1], chain'[i])
             /\ tampers = 0 => Filtered(chain'[i - 1], chain'[i])
  BY <1>5, <1>8 DEF Conclusions
<1>9. QED
  BY <1>6, <1>7, <1>8 DEF Conclusions

\* An edit of the outcome makes the revision disagree with the worlds it
\* left, of which there is one at least; any other edit leaves what was
\* observed alone.
LEMMA TamperConclusions ==
  ASSUME ChainIsSeq, Shapes, Conclusions, Tamper
  PROVE  Shapes' /\ Conclusions'
<1>1. PICK k \in 2..Len(chain) : \E revision \in Tampered(chain[k]) :
        chain' = [chain EXCEPT ![k] = revision]
  BY DEF Tamper
<1> PICK revision \in Tampered(chain[k]) : chain' = [chain EXCEPT ![k] = revision]
  BY <1>1
<1>2. PICK S : chain \in Seq(S)
  BY DEF ChainIsSeq
<1>3. /\ DOMAIN chain = 1..Len(chain) /\ Len(chain) \in Nat 
  BY <1>2, LenProperties
<1>4. /\ k \in 1..Len(chain) /\ k # 1 /\ 1 \in 1..Len(chain) /\ k - 1 \in 1..Len(chain)
      /\ k - 1 # k
  BY <1>3
<1>5. /\ chain'[k] = revision
      /\ \A i \in 1..Len(chain) : i # k => chain'[i] = chain[i]
  BY <1>1, <1>3, <1>4
<1>6. Len(chain') = Len(chain)
  BY <1>1, <1>2, <1>4, SeqMonotonic, ExceptSeq
<1>7. /\ Shaped(revision)
      /\ revision.obs.id = chain[k].obs.id /\ revision.obs.probe = chain[k].obs.probe
      /\ \/ revision.obs.outcome = chain[k].obs.outcome
         \/ revision.posterior = chain[k].posterior
  BY <1>1, TamperedShape DEF Shapes
<1>8. Shapes'
  <2>1. \A i \in 2..Len(chain) : i \in 1..Len(chain)
    BY <1>3
  <2>2. QED
    BY <1>5, <1>6, <1>7, <2>1 DEF Shapes
<1>9. tampers' = tampers + 1 /\ UNCHANGED reports /\ tampers \in Nat
  BY DEF Tamper, Conclusions
<1>10. SUFFICES ASSUME tampers' <= 1, NEW i \in 2..Len(chain)
                PROVE  \/ Justified(chain'[1].binding, chain'[i].obs, reports)
                       \/ ~Filtered(chain'[i - 1], chain'[i])
  <2>1. tampers' \in Nat /\ tampers' # 0 /\ (tampers' <= 1 => tampers' = 1)
    BY <1>9
  <2>2. QED
    BY <1>6, <1>8, <1>9, <1>10, <2>1 DEF Conclusions
<1>11. tampers = 0
  BY <1>9, <1>10
<1>12. chain'[1] = chain[1] /\ i \in 1..Len(chain)
  BY <1>3, <1>4, <1>5
<1>13. /\ Justified(chain[1].binding, chain[i].obs, reports)
       /\ Filtered(chain[i - 1], chain[i])
  BY <1>11 DEF Conclusions
<1>14. CASE i # k
  BY <1>5, <1>12, <1>13, <1>14
<1>15. CASE i = k
  <2>1. chain'[i] = revision /\ chain'[i - 1] = chain[k - 1]
    BY <1>4, <1>5, <1>15
  <2>2. CASE revision.obs.outcome = chain[k].obs.outcome
    BY <1>7, <1>12, <1>13, <1>15, <2>1, <2>2 DEF Justified
  <2>3. CASE revision.obs.outcome # chain[k].obs.outcome
    <3>1. revision.posterior = chain[k].posterior
      BY <1>7, <2>3
    <3>2. Filtered(chain[k - 1], chain[k])
      BY <1>13, <1>15
    <3>3. PICK w : /\ w \in revision.posterior
                   /\ Predicts[revision.obs.probe][w] = chain[k].obs.outcome
      BY <1>7, <3>1, <3>2 DEF Filtered, Filter
    <3>4. ~Filtered(chain[k - 1], revision)
      BY <2>3, <3>3 DEF Filtered, Filter
    <3>5. QED
      BY <2>1, <3>4
  <2>4. QED
    BY <2>2, <2>3
<1>16. QED
  BY <1>14, <1>15

LEMMA ConcludeConclusions ==
  ASSUME ChainIsSeq, Work, Reports, Shapes, Conclusions, [Next]_vars,
         ConcludeObserve \/ ConcludeApply
  PROVE  Shapes' /\ Conclusions'
<1>1. UNCHANGED <<tampers, reports>>
  BY DEF ConcludeObserve, ConcludeApply
<1>2. CASE UNCHANGED chain
  BY <1>1, <1>2, KeepConclusions
<1>3. CASE ~UNCHANGED chain
  <2>1. Replays(chain, chain[1].binding)
    BY <1>3, SourceConclusion, HostConclusion
  <2>2. PICK id, p, outcome, at :
          /\ chain' = ChainAfter(id, p, outcome, at)
          /\ Justified(chain[1].binding,
                       [id |-> id, probe |-> p, outcome |-> outcome, at |-> at], reports)
    BY <1>3, SourceConclusion, HostConclusion
  <2> DEFINE revision == Concluded(id, p, outcome, at)
             len == Len(chain)
  <2>3. chain' = Append(chain, revision) /\ Filtered(Last(chain), revision)
    BY <1>3, <2>2, ChainAfterExtends
  <2>4. Justified(chain[1].binding, revision.obs, reports) /\ Shaped(revision)
    <3>1. Justified(chain[1].binding, revision.obs, reports)
      BY <2>2, JustifiedAtTheEnd
    <3>2. Shaped(revision)
      BY DEF Concluded, Extended, Shaped
    <3>3. QED
      BY <3>1, <3>2
  <2> HIDE DEF revision
  <2>5. PICK S : chain \in Seq(S)
    BY DEF ChainIsSeq
  <2>6. chain \in Seq(S \cup {revision}) /\ len \in Nat /\ len > 0
    BY <2>1, <2>5, SeqMonotonic, ReplayLeaves
  <2>7. /\ Len(chain') = len + 1 /\ chain'[len + 1] = revision
        /\ \A i \in 1..len : chain'[i] = chain[i]
    BY <2>3, <2>6, AppendProperties
  <2>8. Filtered(chain[len], revision)
    BY <2>3 DEF Last
  <2> HIDE DEF len
  <2>9. chain'[1] = chain[1]
    BY <2>6, <2>7
  <2>10. ASSUME NEW i \in 2..(len + 1), i # len + 1
         PROVE  i \in 2..len /\ chain'[i] = chain[i] /\ chain'[i - 1] = chain[i - 1]
    BY <2>6, <2>7, <2>10
  <2>11. ASSUME NEW i \in 2..(len + 1), i = len + 1
         PROVE  chain'[i] = revision /\ chain'[i - 1] = chain[len]
    BY <2>6, <2>7, <2>11
  <2>12. Shapes'
    BY <2>4, <2>7, <2>10, <2>11 DEF Shapes, len
  <2>13. ASSUME tampers <= 1, NEW i \in 2..(len + 1)
         PROVE  /\ Justified(chain'[1].binding, chain'[i].obs, reports)
                /\ Filtered(chain'[i - 1], chain'[i])
    <3>1. CASE i = len + 1
      BY <2>4, <2>8, <2>9, <2>11, <3>1
    <3>2. CASE i # len + 1
      BY <2>1, <2>9, <2>10, <2>13, <3>2, ReplayJustifies DEF len
    <3>3. QED
      BY <3>1, <3>2
  <2>14. QED
    BY <1>1, <2>7, <2>12, <2>13 DEF Conclusions
<1>4. QED
  BY <1>2, <1>3

LEMMA NextConclusions ==
  ASSUME ChainIsSeq, Work, Reports, Shapes, Conclusions, [Next]_vars
  PROVE  Shapes' /\ Conclusions'
BY ChainSteps, KeepConclusions, StartConclusions, RewindConclusions, TamperConclusions,
   ConcludeConclusions

LEMMA ConclusionsInvariant == Spec => [](Shapes /\ Conclusions)
<1>1. Init => Shapes /\ Conclusions
  <2>1. Len(<<>>) = 0
    BY EmptySeq
  <2>2. ~ \E i \in 2..Len(<<>>) : TRUE
    BY <2>1
  <2>3. QED
    BY <2>2 DEF Init, Shapes, Conclusions
<1>2. QED
  BY <1>1, NextConclusions, ChainIsSeqHolds, WorkHolds, ReportsHold, PTL DEF Spec

\* In a chain that replays, and in which the caller edited one revision at
\* most, what the literal bridge concluded is true of the captured bytes, and
\* so is what the host bridge concluded of a result at an anchor that is
\* looked for and of a literal that is nowhere; and whatever a tool cited, it
\* cited from those bytes: for any tools, catalogs, files and interleavings.
\* What the host bridge takes on a tool's word is left out, an anchor that
\* is declared for a diff included.  (Two edits can make up an outcome
\* together with the worlds that it leaves.)
THEOREM ConclusionsHoldAlways == Spec => [](tampers <= 1 => ConclusionsHold)
<1>1. ChainIsSeq /\ Conclusions => (tampers <= 1 => ConclusionsHold)
  <2> SUFFICES ASSUME ChainIsSeq, Conclusions, tampers <= 1, Trusted
               PROVE  ConclusionsHold
    BY DEF ConclusionsHold, SourceAnswersHold, HostAnswersShow, CitesAreSealed
  <2>1. \A i \in 2..Len(chain) : Justified(chain[1].binding, chain[i].obs, reports)
    BY ReplayJustifies DEF Trusted
  <2>2. \A p : /\ SpecOf(p) = SpecIn(chain[1].binding, p)
               /\ SealedHits(p) = HitsIn(chain[1].binding, p)
               /\ Answers(p) = AnswersIn(chain[1].binding, p)
    BY DEF SpecOf, SealedHits, Answers, SpecIn, HitsIn, AnswersIn, Sealed
  <2>3. SourceAnswersHold
    BY <2>1, <2>2 DEF SourceAnswersHold, Justified, Bridge, SourceDomain
  <2>4. ASSUME NEW i \in 2..Len(chain), ByHost(i)
        PROVE  ByReport(chain[1].binding, chain[i].obs.probe, chain[i].obs.outcome,
                        reports[chain[i].obs.id])
    BY <2>1, <2>4 DEF ByHost, Justified, Bridge, HostDomain
  <2>5. HostAnswersShow
    BY <2>2, <2>4 DEF HostAnswersShow, ByReport, Shown
  <2>6. CitesAreSealed
    BY <2>2, <2>4 DEF CitesAreSealed, ByReport, Cited, Sealed
  <2>7. QED
    BY <2>3, <2>5, <2>6 DEF ConclusionsHold
<1>2. QED
  BY <1>1, ChainIsSeqHolds, ConclusionsInvariant, PTL

\* Under the same condition, what is concluded from a report of an honest
\* tool that saw the captured bytes is the one answer that they give.  (A
\* diff with an anchor is left out: an honest one does not look for it.)
THEOREM HonestIsExactAlways == Spec => [](tampers <= 1 => HonestIsExact)
<1>1. ChainIsSeq /\ Conclusions => (tampers <= 1 => HonestIsExact)
  <2> SUFFICES ASSUME ChainIsSeq, Conclusions, tampers <= 1, Trusted,
                      NEW i \in 2..Len(chain), ByHost(i)
               PROVE  LET p == chain[i].obs.probe
                          report == reports[chain[i].obs.id]
                      IN  /\ SpecOf(p).kind \in Located
                          /\ SpecOf(p).anchored => AnchorSought(SpecOf(p))
                          /\ Honest(report)
                          /\ \A path \in DOMAIN report.saw : report.saw[path] = Sealed[path]
                          => Answers(p) = {chain[i].obs.outcome}
    BY DEF HonestIsExact
  <2>1. Justified(chain[1].binding, chain[i].obs, reports)
    BY ReplayJustifies DEF Trusted
  <2>2. \A p : /\ SpecOf(p) = SpecIn(chain[1].binding, p)
               /\ Answers(p) = AnswersIn(chain[1].binding, p)
    BY DEF SpecOf, SealedHits, Answers, SpecIn, HitsIn, AnswersIn, Sealed
  <2>3. Exact(chain[1].binding, chain[i].obs.probe, chain[i].obs.outcome,
              reports[chain[i].obs.id])
    BY <2>1 DEF ByHost, Justified, Bridge, HostDomain, ByReport
  <2>4. QED
    BY <2>2, <2>3 DEF Exact, Sealed
<1>2. QED
  BY <1>1, ChainIsSeqHolds, ConclusionsInvariant, PTL

-----------------------------------------------------------------------------
(* The justification memory.                                               *)

\* What a step preserves of places, all places have.
LEMMA Upward ==
  ASSUME NEW N \in Nat, NEW V, 0 \in V,
         \A n \in 1..N : n - 1 \in V => n \in V
  PROVE  0..N \subseteq V
<1> DEFINE W == {n \in 1..N : n \notin V}
<1> SUFFICES ASSUME NEW n \in 0..N, n \notin V PROVE FALSE
  OBVIOUS
<1>1. n \in W
  OBVIOUS
<1>2. PICK v \in W : \A y \in W : v <= y
  BY <1>1, FirstPlace
<1>3. v - 1 \in V
  <2>1. CASE v = 1
    BY <2>1
  <2>2. CASE v # 1
    <3>1. v - 1 \in 1..N /\ ~(v <= v - 1)
      BY <2>2
    <3> QED
      BY <1>2, <3>1
  <2> QED
    BY <2>1, <2>2
<1> QED
  BY <1>2, <1>3

\* The rounds in which claims are grounded.
Rounds(facts, supports) ==
  LET claims == DOMAIN supports
      grounded[n \in 0..Cardinality(claims)] ==
        IF n = 0 THEN facts
        ELSE grounded[n - 1] \cup {id \in claims : Rests(supports, id, grounded[n - 1])}
  IN  grounded

Follow(supports, known) == known \cup {id \in DOMAIN supports : Rests(supports, id, known)}

\* A function on the first rounds that is as the rounds must be.
Unfolds(g, n, facts, supports) ==
  g = [k \in 0..n |-> IF k = 0 THEN facts ELSE Follow(supports, g[k - 1])]

\* There is such a function, for any number of rounds.
LEMMA RoundsExist ==
  ASSUME NEW N \in Nat, NEW facts, NEW supports
  PROVE  \E g : Unfolds(g, N, facts, supports)
<1> DEFINE V == {n \in 0..N : \E g : Unfolds(g, n, facts, supports)}
<1>1. 0 \in V
  <2> DEFINE g == [k \in 0..0 |-> facts]
  <2>1. Unfolds(g, 0, facts, supports)
    BY DEF Unfolds
  <2> QED
    BY <2>1
<1>2. ASSUME NEW n \in 1..N, n - 1 \in V PROVE n \in V
  <2>1. PICK g : Unfolds(g, n - 1, facts, supports)
    BY <1>2
  <2>2. \A k \in 0..(n - 1) : g[k] = IF k = 0 THEN facts ELSE Follow(supports, g[k - 1])
    BY <2>1 DEF Unfolds
  <2> DEFINE h == [k \in 0..n |-> IF k = n THEN Follow(supports, g[n - 1]) ELSE g[k]]
             u == [k \in 0..n |-> IF k = 0 THEN facts ELSE Follow(supports, h[k - 1])]
  <2>3. ASSUME NEW k \in 0..n PROVE h[k] = u[k]
    <3>1. CASE k = n
      <4>1. n - 1 \in 0..n /\ n - 1 # n /\ n # 0
        OBVIOUS
      <4>2. h[n - 1] = g[n - 1]
        BY <4>1
      <4> QED
        BY <3>1, <4>1, <4>2
    <3>2. CASE k # n /\ k # 0
      <4>1. k - 1 \in 0..n /\ k - 1 # n /\ k \in 0..(n - 1)
        BY <3>2
      <4>2. h[k - 1] = g[k - 1] /\ h[k] = g[k]
        BY <3>2, <4>1
      <4> QED
        BY <2>2, <3>2, <4>1, <4>2
    <3>3. CASE k = 0
      <4>1. 0 \in 0..(n - 1) /\ n # 0
        OBVIOUS
      <4> QED
        BY <2>2, <3>3, <4>1
    <3> QED
      BY <3>1, <3>2, <3>3
  <2>4. h = u
    BY <2>3
  <2>5. Unfolds(h, n, facts, supports)
    BY <2>4 DEF Unfolds
  <2> HIDE DEF h
  <2> QED
    BY <2>5
<1> HIDE DEF V
<1>3. 0..N \subseteq V
  BY <1>1, <1>2, Upward
<1> QED
  BY <1>3 DEF V

\* The rounds start with the facts and follow one from the other.
LEMMA RoundsAre ==
  ASSUME NEW facts, NEW supports, Cardinality(DOMAIN supports) \in Nat
  PROVE  LET g == Rounds(facts, supports)
             N == Cardinality(DOMAIN supports)
         IN  /\ g[0] = facts
             /\ \A n \in 1..N : g[n] = Follow(supports, g[n - 1])
             /\ Grounded(facts, supports) = g[N]
<1> DEFINE N == Cardinality(DOMAIN supports)
           g == Rounds(facts, supports)
<1>1. PICK f : Unfolds(f, N, facts, supports)
  BY RoundsExist
<1>2. f = [n \in 0..N |-> IF n = 0 THEN facts
                          ELSE f[n - 1] \cup {id \in DOMAIN supports : Rests(supports, id, f[n - 1])}]
  BY <1>1 DEF Unfolds, Follow
<1>3. g = [n \in 0..N |-> IF n = 0 THEN facts
                          ELSE g[n - 1] \cup {id \in DOMAIN supports : Rests(supports, id, g[n - 1])}]
  BY <1>2 DEF Rounds
<1>4. Grounded(facts, supports) = g[N]
  BY DEF Grounded, Rounds
<1> HIDE DEF g
<1>5. Unfolds(g, N, facts, supports)
  BY <1>3 DEF Unfolds, Follow
<1>6. g[0] = facts /\ \A n \in 1..N : g[n] = Follow(supports, g[n - 1])
  BY <1>5 DEF Unfolds
<1> QED
  BY <1>4, <1>6 DEF g

\* Claims stay grounded, and only claims are added to the facts.
LEMMA RoundsGrow ==
  ASSUME NEW facts, NEW supports, Cardinality(DOMAIN supports) \in Nat,
         NEW n \in 0..Cardinality(DOMAIN supports)
  PROVE  LET g == Rounds(facts, supports)
         IN  /\ facts \subseteq g[n]
             /\ g[n] \subseteq facts \cup DOMAIN supports
             /\ g[n] \subseteq Grounded(facts, supports)
<1> DEFINE C == DOMAIN supports
           N == Cardinality(C)
           g == Rounds(facts, supports)
           V == {k \in 0..N : facts \subseteq g[k] /\ g[k] \subseteq facts \cup C}
           W == {k \in 0..N : g[N - k] \subseteq g[N]}
<1>1. /\ g[0] = facts
      /\ \A k \in 1..N : g[k] = Follow(supports, g[k - 1])
      /\ Grounded(facts, supports) = g[N]
  BY RoundsAre
<1> HIDE DEF g
<1>2. 0..N \subseteq V
  <2>1. 0 \in V
    BY <1>1
  <2>2. ASSUME NEW k \in 1..N, k - 1 \in V PROVE k \in V
    BY <1>1, <2>2 DEF Follow
  <2> HIDE DEF V
  <2> QED
    BY <2>1, <2>2, Upward
<1>3. 0..N \subseteq W
  <2>1. 0 \in W
    OBVIOUS
  <2>2. ASSUME NEW k \in 1..N, k - 1 \in W PROVE k \in W
    <3>1. N - (k - 1) \in 1..N /\ (N - (k - 1)) - 1 = N - k
      OBVIOUS
    <3>2. g[N - (k - 1)] = Follow(supports, g[(N - (k - 1)) - 1])
      BY <1>1, <3>1
    <3>3. g[N - k] \subseteq g[N - (k - 1)]
      BY <3>1, <3>2 DEF Follow
    <3> QED
      BY <2>2, <3>3
  <2> HIDE DEF W
  <2> QED
    BY <2>1, <2>2, Upward
<1>4. n \in V /\ N - n \in W /\ N - (N - n) = n
  BY <1>2, <1>3
<1> QED
  BY <1>1, <1>4 DEF g

\* Nothing follows from what is grounded that is not grounded: every round
\* before the last grounds another claim, or none after it does.
LEMMA RoundsEnd ==
  ASSUME NEW facts, NEW supports, IsFiniteSet(DOMAIN supports)
  PROVE  Follow(supports, Grounded(facts, supports)) = Grounded(facts, supports)
<1> DEFINE C == DOMAIN supports
           N == Cardinality(C)
           g == Rounds(facts, supports)
           left(k) == C \ g[k]
           V == {k \in 0..N : Cardinality(left(k)) <= N - k}
<1>1. N \in Nat
  BY FS_CardinalityType
<1>2. /\ g[0] = facts
      /\ \A k \in 1..N : g[k] = Follow(supports, g[k - 1])
      /\ Grounded(facts, supports) = g[N]
  BY <1>1, RoundsAre
<1> HIDE DEF g
<1> SUFFICES ASSUME NEW id \in C, id \notin g[N], Rests(supports, id, g[N]) PROVE FALSE
  BY <1>2 DEF Follow
<1>3. ASSUME NEW n \in 1..N PROVE g[n] # g[n - 1]
  <2> SUFFICES ASSUME g[n] = g[n - 1] PROVE FALSE
    OBVIOUS
  <2> DEFINE same == {k \in 0..N : k < n \/ g[k] = g[n]}
  <2>1. 0 \in same
    BY <1>1
  <2>2. ASSUME NEW k \in 1..N, k - 1 \in same PROVE k \in same
    <3>1. CASE k - 1 < n
      BY <3>1
    <3>2. CASE ~(k - 1 < n)
      <4>1. g[k - 1] = g[n - 1]
        BY <2>2, <3>2
      <4>2. g[k] = g[n]
        BY <1>2, <4>1
      <4> QED
        BY <4>2
    <3> QED
      BY <3>1, <3>2
  <2> HIDE DEF same
  <2>3. 0..N \subseteq same
    BY <1>1, <2>1, <2>2, Upward
  <2>4. N \in 0..N /\ ~(N < n)
    BY <1>1
  <2>5. g[N] = g[n]
    BY <2>3, <2>4 DEF same
  <2>6. g[N] = Follow(supports, g[N])
    BY <1>2, <2>5
  <2> QED
    BY <2>6 DEF Follow
<1>4. ASSUME NEW k \in 0..N
      PROVE  IsFiniteSet(left(k)) /\ Cardinality(left(k)) \in Nat /\ left(k) \in SUBSET C
  <2>1. left(k) \in SUBSET C
    OBVIOUS
  <2>2. IsFiniteSet(left(k))
    BY <2>1, FS_Subset
  <2> QED
    BY <2>1, <2>2, FS_CardinalityType
<1>5. 0 \in V
  <2>1. Cardinality(left(0)) <= N
    BY <1>1, <1>4, FS_Subset
  <2> QED
    BY <1>1, <2>1
<1>6. ASSUME NEW k \in 1..N, k - 1 \in V PROVE k \in V
  <2>1. PICK x \in C : x \in g[k] /\ x \notin g[k - 1]
    BY <1>2, <1>3 DEF Follow
  <2>2. g[k - 1] \subseteq g[k]
    BY <1>2 DEF Follow
  <2>3. k - 1 \in 0..N /\ k \in 0..N
    BY <1>1
  <2>4. left(k) \in SUBSET (left(k - 1) \ {x}) /\ x \in left(k - 1)
    BY <2>1, <2>2
  <2> DEFINE before == left(k - 1)
             after == left(k)
  <2>5. IsFiniteSet(before) /\ Cardinality(before) \in Nat /\ Cardinality(after) \in Nat
    BY <1>4, <2>3
  <2>6. Cardinality(before) <= N - (k - 1)
    BY <1>6
  <2> HIDE DEF before, after
  <2>7. IsFiniteSet(before \ {x}) /\ Cardinality(before \ {x}) = Cardinality(before) - 1
    BY <2>4, <2>5, FS_RemoveElement DEF before
  <2>8. Cardinality(after) <= Cardinality(before \ {x})
    BY <2>4, <2>7, FS_Subset DEF after, before
  <2>9. Cardinality(after) <= N - k
    BY <1>1, <2>5, <2>6, <2>7, <2>8
  <2> QED
    BY <2>3, <2>9 DEF after
<1>7. Cardinality(left(N)) = 0
  <2>1. N \in V
    <3> HIDE DEF V
    <3> QED
      BY <1>1, <1>5, <1>6, Upward
  <2> QED
    BY <1>1, <1>4, <2>1
<1>8. left(N) = {}
  BY <1>1, <1>4, <1>7, FS_EmptySet
<1> QED
  BY <1>8

\* The history is a sequence, and facts and claims share one namespace.
MemoryInv ==
  /\ \E S : events \in Seq(S)
  /\ clock \in Nat
  /\ Named(events, "FACT") \cap Named(events, "CLAIM") = {}

\* A step records one event, now, whose id is fresh if it asserts something.
Records(e) ==
  /\ events' = Append(events, e) /\ clock' = clock /\ e.recorded = clock
  /\ e.kind \in {"FACT", "CLAIM"} => Fresh(e.kind, e.id)

\* What a step of the memory does to the history.
LEMMA StepRecords ==
  ASSUME [MemoryNext]_memory
  PROVE  (\E e : Records(e)) \/ (events' = events /\ clock' \in {clock, clock + 1})
<1>1. ASSUME NEW id \in Name, NEW at \in Instant, AssertFact(id, at) PROVE \E e : Records(e)
  <2>1. PICK expires : Record(Event("FACT", id, at, expires, {}, 0))
    BY <1>1 DEF AssertFact
  <2>2. Records(Event("FACT", id, at, expires, {}, 0))
    BY <1>1, <2>1 DEF AssertFact, Record, Event, Records
  <2> QED
    BY <2>2
<1>2. ASSUME NEW id \in Name, NEW at \in Instant, AssertClaim(id, at) PROVE \E e : Records(e)
  <2>1. PICK expires, supports : Record(Event("CLAIM", id, at, expires, supports, 0))
    BY <1>2 DEF AssertClaim
  <2>2. Records(Event("CLAIM", id, at, expires, supports, 0))
    BY <1>2, <2>1 DEF AssertClaim, Record, Event, Records
  <2> QED
    BY <2>2
<1>3. ASSUME NEW id \in Name, NEW at \in Instant,
             RevokeFact(id, at) \/ RevokeClaim(id, at) \/ ReviseSupport(id, at)
      PROVE  \E e : Records(e)
  <2>1. PICK kind, supports, extends :
          /\ kind \in {"FACT_REVOCATION", "CLAIM_REVOCATION", "SUPPORT_REVISION"}
          /\ Record(Event(kind, id, at, Never, supports, extends))
    BY <1>3 DEF RevokeFact, RevokeClaim, ReviseSupport
  <2>2. Records(Event(kind, id, at, Never, supports, extends))
    BY <2>1 DEF Record, Event, Records
  <2> QED
    BY <2>2
<1>4. ASSUME TimePasses PROVE events' = events /\ clock' = clock + 1
  BY <1>4 DEF TimePasses
<1>5. ASSUME UNCHANGED memory PROVE events' = events /\ clock' = clock
  BY <1>5 DEF memory
<1> QED
  BY <1>1, <1>2, <1>3, <1>4, <1>5 DEF MemoryNext

\* The places of the longer history.
LEMMA Appended ==
  ASSUME NEW S, NEW h \in Seq(S), NEW e
  PROVE  /\ Append(h, e) \in Seq(S \cup {e})
         /\ Len(h) + 1 \notin DOMAIN h
         /\ DOMAIN Append(h, e) = DOMAIN h \cup {Len(h) + 1}
         /\ Append(h, e)[Len(h) + 1] = e
         /\ \A i \in DOMAIN h : Append(h, e)[i] = h[i]
<1>1. h \in Seq(S \cup {e}) /\ e \in S \cup {e}
  OBVIOUS
<1> QED
  BY <1>1

\* The memory keeps one history, of one namespace.
LEMMA MemoryInvHolds == MemorySpec => []MemoryInv
<1>1. MemoryInit => MemoryInv
  <2> SUFFICES ASSUME MemoryInit PROVE MemoryInv
    OBVIOUS
  <2>1. events \in Seq({}) /\ clock \in Nat /\ DOMAIN events = {}
    BY DEF MemoryInit
  <2> QED
    BY <2>1 DEF MemoryInv, Named, Of
<1>2. MemoryInv /\ [MemoryNext]_memory => MemoryInv'
  <2> SUFFICES ASSUME MemoryInv, [MemoryNext]_memory PROVE MemoryInv'
    OBVIOUS
  <2>1. CASE events' = events /\ clock' \in {clock, clock + 1}
    <3>1. clock' \in Nat
      BY <2>1 DEF MemoryInv
    <3>2. \A kind : Named(events', kind) = Named(events, kind)
      BY <2>1
    <3> QED
      BY <2>1, <3>1, <3>2 DEF MemoryInv
  <2>2. ASSUME NEW e, Records(e) PROVE MemoryInv'
    <3>1. PICK S : events \in Seq(S)
      BY DEF MemoryInv
    <3>2. events' = Append(events, e) /\ clock' = clock
      BY <2>2 DEF Records
    <3>3. events' \in Seq(S \cup {e})
      BY <3>1, <3>2, Appended
    <3>4. ASSUME NEW kind
          PROVE  Named(events', kind) = Named(events, kind) \cup (IF e.kind = kind THEN {e.id} ELSE {})
      <4>1. /\ DOMAIN events' = DOMAIN events \cup {Len(events) + 1}
            /\ events'[Len(events) + 1] = e
            /\ \A i \in DOMAIN events : events'[i] = events[i]
        BY <3>1, <3>2, Appended
      <4> QED
        BY <4>1 DEF Named, Of
    <3>5. Named(events', "FACT") \cap Named(events', "CLAIM") = {}
      BY <2>2, <3>4 DEF Records, Fresh, MemoryInv
    <3> QED
      BY <3>2, <3>3, <3>5 DEF MemoryInv
  <2> QED
    BY <2>1, <2>2, StepRecords
<1> QED
  BY <1>1, <1>2, PTL DEF MemorySpec

\* The greatest of some places of a history.
LEMMA LastPlace ==
  ASSUME NEW len \in Nat, NEW V \in SUBSET (1..len), V # {}
  PROVE  Max(V) \in V
<1> DEFINE W == {i \in 1..len : len + 1 - i \in V}
<1>1. W # {}
  <2>1. PICK v \in V : TRUE
    OBVIOUS
  <2>2. len + 1 - v \in W
    BY <2>1
  <2> QED
    BY <2>2
<1>2. PICK w \in W : \A y \in W : w <= y
  BY <1>1, FirstPlace
<1>3. ASSUME NEW v \in V PROVE len + 1 - w >= v
  <2>1. len + 1 - v \in W
    OBVIOUS
  <2> QED
    BY <1>2, <2>1
<1> QED
  BY <1>3 DEF Max

-----------------------------------------------------------------------------
(* What was known stays known.                                             *)

\* An event that was recorded later does not count, whenever it is dated.
LEMMA CountsLater ==
  ASSUME NEW S, NEW h \in Seq(S), NEW e, e.recorded \in Nat, NEW t \in Nat, t < e.recorded
  PROVE  \A kind : /\ Counting(Append(h, e), kind, t) = Counting(h, kind, t)
                   /\ Counting(h, kind, t) \subseteq DOMAIN h
<1> DEFINE g == Append(h, e)
<1>1. /\ DOMAIN g = DOMAIN h \cup {Len(h) + 1} /\ g[Len(h) + 1] = e
      /\ \A i \in DOMAIN h : g[i] = h[i]
  BY Appended
<1> HIDE DEF g
<1>2. ~Counts(g, Len(h) + 1, t)
  BY <1>1 DEF Counts
<1>3. \A kind : Counting(g, kind, t) = Counting(h, kind, t)
  BY <1>1, <1>2 DEF Counting, Of, Counts
<1>4. \A kind : Counting(h, kind, t) \subseteq DOMAIN h
  BY DEF Counting, Of
<1> QED
  BY <1>3, <1>4 DEF g

\* An event recorded after an instant does not change what the history says of it.
LEMMA KnownBefore ==
  ASSUME NEW S, NEW h \in Seq(S), NEW e, e.recorded \in Nat, NEW t \in Nat, t < e.recorded
  PROVE  Applicability(Append(h, e), t) = Applicability(h, t)
<1> DEFINE g == Append(h, e)
<1>1. \A i \in DOMAIN h : g[i] = h[i]
  BY Appended
<1>2. \A kind : Counting(g, kind, t) = Counting(h, kind, t) /\ Counting(h, kind, t) \subseteq DOMAIN h
  BY CountsLater
<1> HIDE DEF g
<1>3. \A kind : Asserted(g, kind, t) = Asserted(h, kind, t)
  BY <1>1, <1>2 DEF Asserted
<1>4. \A kind, revocation : Revoked(g, kind, revocation, t) = Revoked(h, kind, revocation, t)
  BY <1>3 DEF Revoked
<1>5. \A kind, revocation : Eligible(g, kind, revocation, t) = Eligible(h, kind, revocation, t)
  <2> SUFFICES ASSUME NEW kind, NEW revocation
               PROVE  Eligible(g, kind, revocation, t) = Eligible(h, kind, revocation, t)
    OBVIOUS
  <2>1. {g[i].id : i \in {j \in Counting(g, kind, t) : g[j].expires > t}}
        = {h[i].id : i \in {j \in Counting(h, kind, t) : h[j].expires > t}}
    BY <1>1, <1>2
  <2> QED
    BY <1>4, <2>1 DEF Eligible
<1>6. EligibleFacts(g, t) = EligibleFacts(h, t) /\ EligibleClaims(g, t) = EligibleClaims(h, t)
  BY <1>5 DEF EligibleFacts, EligibleClaims
<1>7. EligibleSupports(g, t) = EligibleSupports(h, t)
  <2>1. ASSUME NEW id \in EligibleClaims(h, t) PROVE SupportsAt(g, id, t) = SupportsAt(h, id, t)
    <3> DEFINE before == {i \in Counting(h, "CLAIM", t) \cup Counting(h, "SUPPORT_REVISION", t) :
                            h[i].id = id}
    <3>1. {i \in Counting(g, "CLAIM", t) \cup Counting(g, "SUPPORT_REVISION", t) : g[i].id = id} = before
      BY <1>1, <1>2
    <3>2. before \in SUBSET (1..Len(h)) /\ before # {}
      <4>1. \E i \in Counting(h, "CLAIM", t) : h[i].id = id
        BY DEF EligibleClaims, Eligible
      <4> QED
        BY <1>2, <4>1
    <3> HIDE DEF before
    <3>3. Len(h) \in Nat /\ DOMAIN h = 1..Len(h)
      OBVIOUS
    <3>4. Max(before) \in before
      BY <3>2, <3>3, LastPlace
    <3>5. Max(before) \in DOMAIN h
      BY <3>2, <3>3, <3>4
    <3> QED
      BY <1>1, <3>1, <3>5 DEF SupportsAt, before
  <2> QED
    BY <1>6, <2>1 DEF EligibleSupports
<1> QED
  BY <1>4, <1>6, <1>7 DEF Applicability, g

\* For any history, names, supports and instants: what the memory said of an
\* instant before an event was recorded it says ever after.
THEOREM PastIsFixedHolds == MemorySpec => PastIsFixed
<1>1. MemoryInv /\ [MemoryNext]_memory => [PastStays]_memory
  <2> SUFFICES ASSUME MemoryInv, [MemoryNext]_memory, NEW t \in Instant,
                      \A i \in DOMAIN events' \ DOMAIN events : t < events'[i].recorded
               PROVE  Applicability(events', t) = Applicability(events, t)
    BY DEF PastStays
  <2>1. CASE events' = events
    BY <2>1
  <2>2. ASSUME NEW e, Records(e) PROVE Applicability(events', t) = Applicability(events, t)
    <3>1. PICK S : events \in Seq(S)
      BY DEF MemoryInv
    <3>2. events' = Append(events, e) /\ e.recorded \in Nat /\ t \in Nat
      BY <2>2, MemoryBounds DEF Records, MemoryInv, Instant
    <3>3. t < e.recorded
      BY <3>1, <3>2, Appended
    <3> QED
      BY <3>1, <3>2, <3>3, KnownBefore
  <2> QED
    BY <2>1, <2>2, StepRecords
<1> QED
  BY <1>1, MemoryInvHolds, PTL DEF MemorySpec, PastIsFixed

-----------------------------------------------------------------------------
(* What is active is justified, and nothing else.                          *)

\* What eligible claims rest on.
LEMMA EligibleShape ==
  ASSUME MemoryInv, NEW t
  PROVE  /\ IsFiniteSet(EligibleClaims(events, t))
         /\ EligibleFacts(events, t) \cap EligibleClaims(events, t) = {}
         /\ DOMAIN EligibleSupports(events, t) = EligibleClaims(events, t)
<1> DEFINE C == EligibleClaims(events, t)
           place == [id \in C |-> CHOOSE i \in DOMAIN events : events[i].id = id]
<1>1. /\ C \subseteq {events[i].id : i \in Of(events, "CLAIM")}
      /\ EligibleFacts(events, t) \subseteq {events[i].id : i \in Of(events, "FACT")}
  BY DEF EligibleClaims, EligibleFacts, Eligible, Counting
<1>2. EligibleFacts(events, t) \cap C = {}
  BY <1>1 DEF MemoryInv, Named
<1>3. PICK n \in Nat : DOMAIN events = 1..n
  BY DEF MemoryInv
<1>4. \A id \in C : \E i \in DOMAIN events : events[i].id = id
  BY <1>1 DEF Of
<1> HIDE DEF C
<1>5. \A id \in C : place[id] \in 1..n /\ events[place[id]].id = id
  BY <1>3, <1>4
<1>6. place \in Injection(C, 1..n)
  <2>1. place \in [C -> 1..n]
    BY <1>5
  <2> HIDE DEF place
  <2>2. \A a, b \in C : place[a] = place[b] => a = b
    BY <1>5
  <2> QED
    BY <2>1, <2>2 DEF Injection, IsInjective
<1>7. IsFiniteSet(1..n)
  BY FS_Interval
<1>8. IsFiniteSet(C)
  BY <1>6, <1>7, FS_Injection
<1>9. DOMAIN EligibleSupports(events, t) = C
  BY DEF EligibleSupports, C
<1> QED
  BY <1>2, <1>8, <1>9 DEF C

\* Claims that are closed under their supports hold all that is grounded.
LEMMA GroundedWithin ==
  ASSUME NEW facts, NEW supports, Cardinality(DOMAIN supports) \in Nat, NEW claims,
         \A id \in DOMAIN supports : Rests(supports, id, facts \cup claims) => id \in claims
  PROVE  Grounded(facts, supports) \subseteq facts \cup claims
<1> DEFINE N == Cardinality(DOMAIN supports)
           g == Rounds(facts, supports)
           V == {n \in 0..N : g[n] \subseteq facts \cup claims}
<1>1. /\ g[0] = facts
      /\ \A n \in 1..N : g[n] = Follow(supports, g[n - 1])
      /\ Grounded(facts, supports) = g[N]
  BY RoundsAre
<1> HIDE DEF g
<1>2. 0 \in V
  BY <1>1
<1>3. ASSUME NEW n \in 1..N, n - 1 \in V PROVE n \in V
  <2>1. \A id \in DOMAIN supports : Rests(supports, id, g[n - 1]) => Rests(supports, id, facts \cup claims)
    BY <1>3 DEF Rests
  <2>2. g[n] \subseteq facts \cup claims
    BY <1>1, <1>3, <2>1 DEF Follow
  <2> QED
    BY <2>2
<1> HIDE DEF V
<1>4. N \in V
  BY <1>2, <1>3, Upward
<1> QED
  BY <1>1, <1>4 DEF V

\* A claim is grounded by a support that was grounded before it.
LEMMA GroundedBefore ==
  ASSUME NEW facts, NEW supports, Cardinality(DOMAIN supports) \in Nat,
         NEW id \in Grounded(facts, supports), id \notin facts
  PROVE  \E support \in supports[id] : id \notin support /\ support \subseteq Grounded(facts, supports)
<1> DEFINE N == Cardinality(DOMAIN supports)
           g == Rounds(facts, supports)
           V == {n \in 0..N : id \notin g[n]}
<1>1. /\ g[0] = facts
      /\ \A n \in 1..N : g[n] = Follow(supports, g[n - 1])
      /\ Grounded(facts, supports) = g[N]
  BY RoundsAre
<1>2. \A n \in 0..N : g[n] \subseteq Grounded(facts, supports)
  BY RoundsGrow
<1> HIDE DEF g
<1>3. 0 \in V /\ N \notin V
  BY <1>1
<1>4. PICK n \in 1..N : n - 1 \in V /\ n \notin V
  <2> HIDE DEF V
  <2> QED
    BY <1>3, Upward
<1>5. n \in 0..N /\ n - 1 \in 0..N /\ id \notin g[n - 1] /\ id \in g[n]
  BY <1>4
<1>6. Rests(supports, id, g[n - 1])
  BY <1>1, <1>5 DEF Follow
<1>7. g[n - 1] \subseteq Grounded(facts, supports)
  BY <1>2, <1>5
<1> QED
  BY <1>5, <1>6, <1>7 DEF Rests

\* For any history, names, supports and instants: the active claims are the
\* least set of eligible claims that is closed under their supports, and each
\* has a support that does not rest on it.
THEOREM GroundedIsLeastHolds == MemorySpec => []GroundedIsLeast
<1>1. MemoryInv => GroundedIsLeast
  <2> SUFFICES ASSUME MemoryInv, NEW t \in Instant
               PROVE  LET view == Applicability(events, t)
                      IN  /\ Closed(view.claims, t)
                          /\ \A fewer \in SUBSET view.claims : Closed(fewer, t) => fewer = view.claims
                          /\ \A id \in view.claims : \E support \in EligibleSupports(events, t)[id] :
                               id \notin support /\ support \subseteq view.facts \cup view.claims
    BY DEF GroundedIsLeast
  <2> DEFINE F == EligibleFacts(events, t)
             C == EligibleClaims(events, t)
             s == EligibleSupports(events, t)
             G == Grounded(F, s)
  <2>1. Applicability(events, t).facts = F /\ Applicability(events, t).claims = G \cap C
    BY DEF Applicability
  <2>2. IsFiniteSet(C) /\ F \cap C = {} /\ DOMAIN s = C
    BY EligibleShape
  <2>3. \A claims : Closed(claims, t) <=> \A id \in C : Rests(s, id, F \cup claims) => id \in claims
    BY DEF Closed
  <2> HIDE DEF F, C, s
  <2>4. Cardinality(DOMAIN s) \in Nat
    BY <2>2, FS_CardinalityType
  <2>5. F \subseteq G /\ G \subseteq F \cup C
    <3>1. LET g == Rounds(F, s)
              N == Cardinality(DOMAIN s)
          IN  F \subseteq g[N] /\ g[N] \subseteq F \cup DOMAIN s /\ G = g[N]
      BY <2>4, RoundsGrow, RoundsAre
    <3> QED
      BY <2>2, <3>1
  <2>6. Follow(s, G) = G
    BY <2>2, RoundsEnd
  <2>7. ASSUME NEW fewer \in SUBSET (G \cap C), Closed(fewer, t) PROVE fewer = G \cap C
    <3>1. G \subseteq F \cup fewer
      BY <2>2, <2>3, <2>4, <2>7, GroundedWithin
    <3> QED
      BY <2>2, <3>1
  <2>8. ASSUME NEW id \in G \cap C
        PROVE  \E support \in s[id] : id \notin support /\ support \subseteq F \cup (G \cap C)
    <3>1. id \in G /\ id \notin F
      BY <2>2
    <3>2. \E support \in s[id] : id \notin support /\ support \subseteq G
      BY <2>4, <3>1, GroundedBefore
    <3> QED
      BY <2>5, <3>2
  <2> HIDE DEF G
  <2>9. Closed(G \cap C, t)
    <3>1. ASSUME NEW id \in C, Rests(s, id, F \cup (G \cap C)) PROVE id \in G
      <4>1. Rests(s, id, G)
        BY <2>5, <3>1 DEF Rests
      <4> QED
        BY <2>2, <2>6, <4>1 DEF Follow
    <3> QED
      BY <2>3, <3>1
  <2> QED
    BY <2>1, <2>7, <2>8, <2>9 DEF s
<1> QED
  BY <1>1, MemoryInvHolds, PTL

-----------------------------------------------------------------------------
(* Sums over finite sets.                                                  *)

\* What every set has of which all the sets with one element less have it.
LEMMA BySubsets ==
  ASSUME NEW S, IsFiniteSet(S), NEW V,
         \A s \in SUBSET S : (\A x \in s : s \ {x} \in V) => s \in V
  PROVE  SUBSET S \subseteq V
<1> DEFINE R == StrictSubsetOrdering(S)
           F == FiniteSubsetsOf(S)
           W == {s \in SUBSET S : s \notin V}
<1>1. IsWellFoundedOn(R, F) /\ F = SUBSET S
  BY FS_StrictSubsetOrderingWellFounded, FS_FiniteSubsetsOfFinite
<1>2. \A A, B \in SUBSET S : A \subseteq B /\ A # B => <<A, B>> \in R
  BY DEF StrictSubsetOrdering
<1> SUFFICES ASSUME W # {} PROVE FALSE
  OBVIOUS
<1> HIDE DEF R, F
<1>3. W \subseteq F
  BY <1>1
<1>4. \E s \in W : \A r \in W : ~(<<r, s>> \in R)
  <2> HIDE DEF W
  <2> QED
    BY <1>1, <1>3, WFMin
<1>5. PICK s \in W : \A r \in W : ~(<<r, s>> \in R)
  BY <1>4
<1>6. ASSUME NEW x \in s PROVE s \ {x} \in V
  <2>1. s \ {x} \in SUBSET S /\ s \in SUBSET S /\ s \ {x} \subseteq s /\ s \ {x} # s
    BY <1>6
  <2>2. s \ {x} \notin W
    BY <1>2, <1>5, <2>1
  <2> QED
    BY <2>1, <2>2
<1> QED
  BY <1>6

Chosen(s) == CHOOSE x \in s : TRUE

\* A function that adds up v over the subsets of S.
AddsUp(g, S, v) ==
  g = [s \in SUBSET S |-> IF s = {} THEN 0 ELSE v[Chosen(s)] + g[s \ {Chosen(s)}]]

SumOf(v, S) == (CHOOSE g : AddsUp(g, S, v))[S]

\* What such a function is at one subset.
LEMMA AddsUpAt ==
  ASSUME NEW S, NEW v, NEW g, AddsUp(g, S, v), NEW s, s \subseteq S
  PROVE  /\ s = {} => g[s] = 0
         /\ s # {} => /\ Chosen(s) \in s
                      /\ g[s] = v[Chosen(s)] + g[s \ {Chosen(s)}]
<1>1. g[s] = IF s = {} THEN 0 ELSE v[Chosen(s)] + g[s \ {Chosen(s)}]
  BY DEF AddsUp
<1>2. s # {} => Chosen(s) \in s
  BY DEF Chosen
<1> QED
  BY <1>1, <1>2

\* The sum over a set does not depend on where it is taken.
LEMMA AddsUpAlike ==
  ASSUME NEW S, NEW T, IsFiniteSet(S), NEW v, NEW w, NEW g, NEW h,
         AddsUp(g, S, v), AddsUp(h, T, w),
         \A x \in S : x \in T => v[x] = w[x]
  PROVE  \A s : s \subseteq S /\ s \subseteq T => g[s] = h[s]
<1> DEFINE U == S \cap T
           V == {s \in SUBSET U : g[s] = h[s]}
<1>1. IsFiniteSet(U)
  <2>1. U \in SUBSET S
    OBVIOUS
  <2> QED
    BY <2>1, FS_Subset
<1>2. ASSUME NEW s \in SUBSET U, \A x \in s : s \ {x} \in V PROVE g[s] = h[s]
  <2>1. s \subseteq S /\ s \subseteq T
    OBVIOUS
  <2>2. /\ s = {} => g[s] = 0
        /\ s # {} => Chosen(s) \in s /\ g[s] = v[Chosen(s)] + g[s \ {Chosen(s)}]
    BY <2>1, AddsUpAt
  <2>3. /\ s = {} => h[s] = 0
        /\ s # {} => Chosen(s) \in s /\ h[s] = w[Chosen(s)] + h[s \ {Chosen(s)}]
    BY <2>1, AddsUpAt
  <2>4. ASSUME s # {}
        PROVE  v[Chosen(s)] = w[Chosen(s)] /\ g[s \ {Chosen(s)}] = h[s \ {Chosen(s)}]
    <3>1. Chosen(s) \in s
      BY <2>2, <2>4
    <3>2. v[Chosen(s)] = w[Chosen(s)]
      BY <2>1, <3>1
    <3> HIDE DEF V
    <3>3. s \ {Chosen(s)} \in V
      BY <1>2, <3>1
    <3> QED
      BY <3>2, <3>3 DEF V
  <2> HIDE DEF V
  <2> QED
    BY <2>2, <2>3, <2>4
<1>3. \A s \in SUBSET U : (\A x \in s : s \ {x} \in V) => s \in V
  BY <1>2
<1> HIDE DEF U, V
<1>4. SUBSET U \subseteq V
  BY <1>1, <1>3, BySubsets
<1>5. ASSUME NEW s, s \subseteq S, s \subseteq T PROVE g[s] = h[s]
  <2>1. s \in SUBSET U
    BY <1>5 DEF U
  <2> QED
    BY <1>4, <2>1 DEF V
<1> QED
  BY <1>5

\* A finite set has such a function.
LEMMA AddsUpExists ==
  ASSUME NEW S, IsFiniteSet(S), NEW v
  PROVE  \E g : AddsUp(g, S, v)
<1> DEFINE V == {s \in SUBSET S : \E g : AddsUp(g, s, v)}
<1>1. ASSUME NEW s \in SUBSET S, \A x \in s : s \ {x} \in V PROVE s \in V
  <2> DEFINE piece(x) == CHOOSE g : AddsUp(g, s \ {x}, v)
             outside(u) == CHOOSE x \in s : x \notin u
             h == [u \in SUBSET s |->
                    IF u = s THEN IF s = {} THEN 0 ELSE v[Chosen(s)] + piece(Chosen(s))[s \ {Chosen(s)}]
                    ELSE piece(outside(u))[u]]
             t == [u \in SUBSET s |-> IF u = {} THEN 0 ELSE v[Chosen(u)] + h[u \ {Chosen(u)}]]
  <2>1. \A x \in s : AddsUp(piece(x), s \ {x}, v)
    BY <1>1
  <2>2. \A u \in SUBSET s : u # s => outside(u) \in s /\ u \in SUBSET (s \ {outside(u)})
    OBVIOUS
  <2>3. \A x \in s : IsFiniteSet(s \ {x})
    BY FS_Subset
  <2> HIDE DEF piece, outside
  <2>4. ASSUME NEW x \in s, NEW u \in SUBSET (s \ {x}) PROVE h[u] = piece(x)[u]
    <3>1. u # s /\ outside(u) \in s /\ u \in SUBSET ((s \ {outside(u)}) \cap (s \ {x}))
      BY <2>2
    <3> DEFINE y == outside(u)
    <3>2. AddsUp(piece(y), s \ {y}, v) /\ AddsUp(piece(x), s \ {x}, v) /\ IsFiniteSet(s \ {y})
      BY <2>1, <2>3, <3>1
    <3> HIDE DEF y, h, t
    <3>3. \A r : r \subseteq s \ {y} /\ r \subseteq s \ {x} => piece(y)[r] = piece(x)[r]
      BY <3>2, AddsUpAlike
    <3>4. piece(outside(u))[u] = piece(x)[u]
      BY <3>1, <3>3 DEF y
    <3> USE DEF h
    <3> QED
      BY <3>1, <3>4
  <2>5. ASSUME NEW u \in SUBSET s PROVE h[u] = t[u]
    <3>1. CASE u = s /\ s = {}
      BY <3>1
    <3>2. CASE u = s /\ s # {}
      <4>1. Chosen(s) \in s
        BY <3>2 DEF Chosen
      <4>2. h[s \ {Chosen(s)}] = piece(Chosen(s))[s \ {Chosen(s)}]
        BY <2>4, <4>1
      <4> QED
        BY <3>2, <4>1, <4>2
    <3>3. CASE u # s /\ u = {}
      <4>1. outside(u) \in s /\ u \in SUBSET (s \ {outside(u)})
        BY <2>2, <3>3
      <4>2. piece(outside(u))[u] = 0
        <5> DEFINE y == outside(u)
        <5>1. AddsUp(piece(y), s \ {y}, v) /\ u \in SUBSET (s \ {y})
          BY <2>1, <4>1
        <5> HIDE DEF y, h, t
        <5>2. piece(y)[u] = 0
          BY <3>3, <5>1, AddsUpAt
        <5> QED
          BY <5>2 DEF y
      <4> QED
        BY <3>3, <4>2
    <3>4. CASE u # s /\ u # {}
      <4>1. outside(u) \in s /\ u \in SUBSET (s \ {outside(u)})
        BY <2>2, <3>4
      <4>2. Chosen(u) \in u
            /\ piece(outside(u))[u] = v[Chosen(u)] + piece(outside(u))[u \ {Chosen(u)}]
        <5> DEFINE y == outside(u)
        <5>1. AddsUp(piece(y), s \ {y}, v) /\ u \in SUBSET (s \ {y})
          BY <2>1, <4>1
        <5> HIDE DEF y, h, t
        <5>2. Chosen(u) \in u /\ piece(y)[u] = v[Chosen(u)] + piece(y)[u \ {Chosen(u)}]
          BY <3>4, <5>1, AddsUpAt
        <5> QED
          BY <5>2 DEF y
      <4>3. u \ {Chosen(u)} \in SUBSET (s \ {outside(u)})
        BY <4>1
      <4>4. h[u \ {Chosen(u)}] = piece(outside(u))[u \ {Chosen(u)}] /\ h[u] = piece(outside(u))[u]
        BY <2>4, <4>1, <4>3
      <4>5. t[u] = v[Chosen(u)] + h[u \ {Chosen(u)}]
        BY <3>4
      <4> HIDE DEF h, t
      <4> QED
        BY <4>2, <4>4, <4>5
    <3> QED
      BY <3>1, <3>2, <3>3, <3>4
  <2>6. h = t
    BY <2>5
  <2>7. AddsUp(h, s, v)
    BY <2>6 DEF AddsUp
  <2> HIDE DEF h
  <2> QED
    BY <2>7
<1> HIDE DEF V
<1>2. S \in V
  BY <1>1, BySubsets
<1> QED
  BY <1>2 DEF V

\* What a sum is: what any such function gives the whole set.
LEMMA SumAt ==
  ASSUME NEW S, IsFiniteSet(S), NEW v
  PROVE  \A g : AddsUp(g, S, v) => SumOf(v, S) = g[S]
<1> DEFINE h == CHOOSE g : AddsUp(g, S, v)
<1>1. AddsUp(h, S, v)
  BY AddsUpExists
<1>2. SumOf(v, S) = h[S]
  BY DEF SumOf
<1> HIDE DEF h
<1> SUFFICES ASSUME NEW g, AddsUp(g, S, v) PROVE h[S] = g[S]
  BY <1>2
<1>3. \A s : s \subseteq S /\ s \subseteq S => h[s] = g[s]
  BY <1>1, AddsUpAlike
<1> QED
  BY <1>3

\* A sum depends on the numbers of its own elements only.
LEMMA SumAlike ==
  ASSUME NEW S, IsFiniteSet(S), NEW v, NEW w, \A x \in S : v[x] = w[x]
  PROVE  SumOf(v, S) = SumOf(w, S)
<1>1. PICK g : AddsUp(g, S, v)
  BY AddsUpExists
<1>2. PICK h : AddsUp(h, S, w)
  BY AddsUpExists
<1>3. \A s : s \subseteq S /\ s \subseteq S => g[s] = h[s]
  BY <1>1, <1>2, AddsUpAlike
<1>4. SumOf(v, S) = g[S] /\ SumOf(w, S) = h[S]
  BY <1>1, <1>2, SumAt
<1> QED
  BY <1>3, <1>4

\* Such a function gives the sum of every subset.
LEMMA SumPart ==
  ASSUME NEW S, IsFiniteSet(S), NEW v, NEW g, AddsUp(g, S, v), NEW s \in SUBSET S
  PROVE  SumOf(v, s) = g[s]
<1>1. IsFiniteSet(s)
  BY FS_Subset
<1>2. PICK h : AddsUp(h, s, v)
  BY <1>1, AddsUpExists
<1>3. SumOf(v, s) = h[s]
  BY <1>1, <1>2, SumAt
<1>4. \A r : r \subseteq s /\ r \subseteq S => h[r] = g[r]
  BY <1>1, <1>2, AddsUpAlike
<1> QED
  BY <1>3, <1>4

\* A sum of natural numbers is one.
LEMMA SumIsNat ==
  ASSUME NEW S, IsFiniteSet(S), NEW v, \A x \in S : v[x] \in Nat
  PROVE  SumOf(v, S) \in Nat
<1> DEFINE V == {s \in SUBSET S : SumOf(v, s) \in Nat}
<1>1. PICK g : AddsUp(g, S, v)
  BY AddsUpExists
<1>2. \A s \in SUBSET S : SumOf(v, s) = g[s]
  BY <1>1, SumPart
<1>3. ASSUME NEW s \in SUBSET S, \A x \in s : s \ {x} \in V PROVE s \in V
  <2> DEFINE c == Chosen(s)
  <2>1. /\ s = {} => g[s] = 0
        /\ s # {} => c \in s /\ g[s] = v[c] + g[s \ {c}]
    BY <1>1, AddsUpAt
  <2> HIDE DEF c
  <2>2. s # {} => v[c] \in Nat /\ s \ {c} \in V
    BY <1>3, <2>1
  <2>3. s # {} => g[s \ {c}] \in Nat
    BY <1>2, <2>2
  <2>4. g[s] \in Nat
    BY <2>1, <2>2, <2>3
  <2> QED
    BY <1>2, <2>4
<1> HIDE DEF V
<1>4. S \in V
  BY <1>3, BySubsets
<1> QED
  BY <1>4 DEF V

\* Taking an element away takes its value away, whichever element it is.
LEMMA SumWithout ==
  ASSUME NEW S, IsFiniteSet(S), NEW v, \A x \in S : v[x] \in Nat, NEW x \in S
  PROVE  SumOf(v, S) = v[x] + SumOf(v, S \ {x})
<1> DEFINE V == {s \in SUBSET S : \A y \in s : SumOf(v, s) = v[y] + SumOf(v, s \ {y})}
<1>1. PICK g : AddsUp(g, S, v)
  BY AddsUpExists
<1>2. \A s \in SUBSET S : SumOf(v, s) = g[s]
  BY <1>1, SumPart
<1>3. ASSUME NEW s \in SUBSET S PROVE SumOf(v, s) \in Nat
  <2>1. IsFiniteSet(s) /\ \A y \in s : v[y] \in Nat
    BY FS_Subset
  <2> QED
    BY <2>1, SumIsNat
<1>4. ASSUME NEW s \in SUBSET S, \A y \in s : s \ {y} \in V, NEW y \in s
      PROVE  SumOf(v, s) = v[y] + SumOf(v, s \ {y})
  <2> DEFINE c == Chosen(s)
  <2>1. c \in s /\ g[s] = v[c] + g[s \ {c}]
    BY <1>1, AddsUpAt
  <2> HIDE DEF c
  <2>2. SumOf(v, s) = v[c] + SumOf(v, s \ {c})
    BY <1>2, <2>1
  <2>3. CASE c = y
    BY <2>2, <2>3
  <2>4. CASE c # y
    <3>1. s \ {c} \in V /\ s \ {y} \in V /\ y \in s \ {c} /\ c \in s \ {y}
      BY <1>4, <2>1, <2>4
    <3>2. SumOf(v, s \ {c}) = v[y] + SumOf(v, (s \ {c}) \ {y})
      BY <3>1
    <3>3. SumOf(v, s \ {y}) = v[c] + SumOf(v, (s \ {y}) \ {c})
      BY <3>1
    <3>4. (s \ {y}) \ {c} = (s \ {c}) \ {y}
      OBVIOUS
    <3>5. v[c] \in Nat /\ v[y] \in Nat /\ SumOf(v, (s \ {c}) \ {y}) \in Nat
      BY <1>3, <2>1
    <3>6. SumOf(v, (s \ {y}) \ {c}) = SumOf(v, (s \ {c}) \ {y})
      BY <3>4
    <3> DEFINE rest == SumOf(v, (s \ {c}) \ {y})
               a == v[c]
               b == v[y]
    <3>7. SumOf(v, s) = a + (b + rest) /\ SumOf(v, s \ {y}) = a + rest
      BY <2>2, <3>2, <3>3, <3>6
    <3>8. a \in Nat /\ b \in Nat /\ rest \in Nat
      BY <3>5
    <3> HIDE DEF V, a, b, rest
    <3>9. SumOf(v, s) = b + SumOf(v, s \ {y})
      BY <3>7, <3>8
    <3> QED
      BY <3>9 DEF b
  <2> QED
    BY <2>3, <2>4
<1>5. \A s \in SUBSET S : (\A y \in s : s \ {y} \in V) => s \in V
  BY <1>4
<1> HIDE DEF V
<1>6. S \in V
  BY <1>5, BySubsets
<1> QED
  BY <1>6 DEF V

-----------------------------------------------------------------------------
(* The budget pool.                                                        *)

Promised(r) == [id \in Reservation |-> r[id].max]
Costs(c) == [id \in Reservation |-> c[id].cost]
Overruns(r, c) == [id \in Reservation |-> Max({0, c[id].cost - r[id].max})]

\* What an overrun is: at least zero, and at least the difference.
LEMMA MaxOfTwo == \A n \in Int : Max({0, n}) \in Nat /\ Max({0, n}) >= n
<1> SUFFICES ASSUME NEW n \in Int PROVE Max({0, n}) \in Nat /\ Max({0, n}) >= n
  OBVIOUS
<1>1. \E x \in {0, n} : \A y \in {0, n} : x >= y
  <2>1. CASE n > 0
    BY <2>1
  <2>2. CASE ~(n > 0)
    BY <2>2
  <2> QED
    BY <2>1, <2>2
<1>2. Max({0, n}) \in {0, n} /\ \A y \in {0, n} : Max({0, n}) >= y
  BY <1>1 DEF Max
<1> QED
  BY <1>2

\* The sums of the pool, for any reservations and charges.
LEMMA PromisedSum ==
  ASSUME NEW r, NEW S \in SUBSET Reservation
  PROVE  MapThenSumSet(LAMBDA id : r[id].max, S) = SumOf(Promised(r), S)
<1>1. IsFiniteSet(S)
  BY BudgetBounds, FS_Subset
<1>2. PICK g : AddsUp(g, S, Promised(r))
  BY <1>1, AddsUpExists
<1> DEFINE Is(f) == f = [s \in SUBSET S |-> IF s = {} THEN 0
                          ELSE r[CHOOSE x \in s : TRUE].max + f[s \ {CHOOSE x \in s : TRUE}]]
<1>3. ASSUME NEW f PROVE Is(f) <=> AddsUp(f, S, Promised(r))
  <2>1. \A s \in SUBSET S : s # {} => Promised(r)[Chosen(s)] = r[CHOOSE x \in s : TRUE].max
    BY DEF Promised, Chosen
  <2>2. [s \in SUBSET S |-> IF s = {} THEN 0
           ELSE r[CHOOSE x \in s : TRUE].max + f[s \ {CHOOSE x \in s : TRUE}]]
        = [s \in SUBSET S |-> IF s = {} THEN 0
           ELSE Promised(r)[Chosen(s)] + f[s \ {Chosen(s)}]]
    BY <2>1 DEF Chosen
  <2> QED
    BY <2>2 DEF AddsUp
<1>4. MapThenSumSet(LAMBDA id : r[id].max, S) = (CHOOSE f : Is(f))[S]
  BY DEF MapThenSumSet, MapThenFoldSet
<1> HIDE DEF Is
<1>5. Is(CHOOSE f : Is(f))
  BY <1>2, <1>3
<1>6. AddsUp(CHOOSE f : Is(f), S, Promised(r))
  BY <1>3, <1>5
<1>7. SumOf(Promised(r), S) = (CHOOSE f : Is(f))[S]
  BY <1>1, <1>6, SumAt
<1> QED
  BY <1>4, <1>7

\* The same, of the charged costs.
LEMMA CostsSum ==
  ASSUME NEW c, NEW S \in SUBSET Reservation
  PROVE  MapThenSumSet(LAMBDA id : c[id].cost, S) = SumOf(Costs(c), S)
<1>1. IsFiniteSet(S)
  BY BudgetBounds, FS_Subset
<1>2. PICK g : AddsUp(g, S, Costs(c))
  BY <1>1, AddsUpExists
<1> DEFINE Is(f) == f = [s \in SUBSET S |-> IF s = {} THEN 0
                          ELSE c[CHOOSE x \in s : TRUE].cost + f[s \ {CHOOSE x \in s : TRUE}]]
<1>3. ASSUME NEW f PROVE Is(f) <=> AddsUp(f, S, Costs(c))
  <2>1. \A s \in SUBSET S : s # {} => Costs(c)[Chosen(s)] = c[CHOOSE x \in s : TRUE].cost
    BY DEF Costs, Chosen
  <2>2. [s \in SUBSET S |-> IF s = {} THEN 0
           ELSE c[CHOOSE x \in s : TRUE].cost + f[s \ {CHOOSE x \in s : TRUE}]]
        = [s \in SUBSET S |-> IF s = {} THEN 0
           ELSE Costs(c)[Chosen(s)] + f[s \ {Chosen(s)}]]
    BY <2>1 DEF Chosen
  <2> QED
    BY <2>2 DEF AddsUp
<1>4. MapThenSumSet(LAMBDA id : c[id].cost, S) = (CHOOSE f : Is(f))[S]
  BY DEF MapThenSumSet, MapThenFoldSet
<1> HIDE DEF Is
<1>5. Is(CHOOSE f : Is(f))
  BY <1>2, <1>3
<1>6. AddsUp(CHOOSE f : Is(f), S, Costs(c))
  BY <1>3, <1>5
<1>7. SumOf(Costs(c), S) = (CHOOSE f : Is(f))[S]
  BY <1>1, <1>6, SumAt
<1> QED
  BY <1>4, <1>7

\* The same, of the overruns.
LEMMA OverrunsSum ==
  ASSUME NEW r, NEW c, NEW S \in SUBSET Reservation
  PROVE  MapThenSumSet(LAMBDA id : Max({0, c[id].cost - r[id].max}), S) = SumOf(Overruns(r, c), S)
<1>1. IsFiniteSet(S)
  BY BudgetBounds, FS_Subset
<1>2. PICK g : AddsUp(g, S, Overruns(r, c))
  BY <1>1, AddsUpExists
<1> DEFINE over(id) == Max({0, c[id].cost - r[id].max})
           Is(f) == f = [s \in SUBSET S |-> IF s = {} THEN 0
                          ELSE over(CHOOSE x \in s : TRUE) + f[s \ {CHOOSE x \in s : TRUE}]]
<1>3. ASSUME NEW f PROVE Is(f) <=> AddsUp(f, S, Overruns(r, c))
  <2>1. \A s \in SUBSET S : s # {} => Overruns(r, c)[Chosen(s)] = over(CHOOSE x \in s : TRUE)
    BY DEF Overruns, Chosen
  <2> HIDE DEF over
  <2>2. [s \in SUBSET S |-> IF s = {} THEN 0
           ELSE over(CHOOSE x \in s : TRUE) + f[s \ {CHOOSE x \in s : TRUE}]]
        = [s \in SUBSET S |-> IF s = {} THEN 0
           ELSE Overruns(r, c)[Chosen(s)] + f[s \ {Chosen(s)}]]
    BY <2>1 DEF Chosen
  <2> QED
    BY <2>2 DEF AddsUp
<1>4. MapThenSumSet(LAMBDA id : Max({0, c[id].cost - r[id].max}), S) = (CHOOSE f : Is(f))[S]
  BY DEF MapThenSumSet, MapThenFoldSet
<1> HIDE DEF Is
<1>5. Is(CHOOSE f : Is(f))
  BY <1>2, <1>3
<1>6. AddsUp(CHOOSE f : Is(f), S, Overruns(r, c))
  BY <1>3, <1>5
<1>7. SumOf(Overruns(r, c), S) = (CHOOSE f : Is(f))[S]
  BY <1>1, <1>6, SumAt
<1> QED
  BY <1>4, <1>7

\* The pool is well-typed.
PoolShape ==
  /\ DOMAIN reserved = Reservation /\ DOMAIN charged = Reservation
  /\ BudgetTypeOK

\* What is reserved and charged in a well-shaped pool is a number.
LEMMA ShapeNumbers ==
  ASSUME PoolShape
  PROVE  /\ \A id \in Known : reserved[id].max \in Nat
         /\ \A id \in Settled : id \in Known /\ charged[id].cost \in Nat
<1>1. \A n \in Cost : n \in Nat
  BY BudgetBounds DEF Cost
<1> QED
  BY <1>1 DEF PoolShape, BudgetTypeOK

\* What the sums of a well-shaped pool are.
Sums ==
  /\ Outstanding = SumOf(Promised(reserved), Known \ Settled)
  /\ Spent = SumOf(Costs(charged), Settled)
  /\ Overrun = SumOf(Overruns(reserved, charged), Settled)
  /\ Outstanding \in Nat /\ Spent \in Nat /\ Overrun \in Nat
  /\ IsFiniteSet(Known \ Settled) /\ IsFiniteSet(Settled)
  /\ \A id \in Known \ Settled : Promised(reserved)[id] = reserved[id].max
  /\ \A id \in Settled : /\ Costs(charged)[id] \in Nat
                         /\ Overruns(reserved, charged)[id] \in Nat

\* A well-shaped pool has the sums that it should.
LEMMA PoolSums == PoolShape => Sums
<1> SUFFICES ASSUME PoolShape PROVE Sums
  OBVIOUS
<1>1. Known \ Settled \in SUBSET Reservation /\ Settled \in SUBSET Reservation
  BY DEF Known, Settled
<1>2. IsFiniteSet(Known \ Settled) /\ IsFiniteSet(Settled)
  BY <1>1, BudgetBounds, FS_Subset
<1>3. Outstanding = SumOf(Promised(reserved), Known \ Settled)
  BY <1>1, PromisedSum DEF Outstanding
<1>4. Spent = SumOf(Costs(charged), Settled)
  BY <1>1, CostsSum DEF Spent
<1>5. Overrun = SumOf(Overruns(reserved, charged), Settled)
  BY <1>1, OverrunsSum DEF Overrun
<1>6. \A id \in Known \ Settled :
        Promised(reserved)[id] = reserved[id].max /\ Promised(reserved)[id] \in Nat
  BY <1>1, ShapeNumbers DEF Promised
<1>7. ASSUME NEW id \in Settled
      PROVE  Costs(charged)[id] \in Nat /\ Overruns(reserved, charged)[id] \in Nat
  <2>1. charged[id].cost \in Nat /\ reserved[id].max \in Nat
    BY ShapeNumbers
  <2>2. charged[id].cost - reserved[id].max \in Int
    BY <2>1
  <2>3. Max({0, charged[id].cost - reserved[id].max}) \in Nat
    BY <2>2, MaxOfTwo
  <2> QED
    BY <1>1, <2>1, <2>3 DEF Costs, Overruns
<1>8. Outstanding \in Nat /\ Spent \in Nat /\ Overrun \in Nat
  BY <1>2, <1>3, <1>4, <1>5, <1>6, <1>7, SumIsNat
<1> QED
  BY <1>2, <1>3, <1>4, <1>5, <1>6, <1>7, <1>8 DEF Sums

\* The same two of the next state: its numbers and its sums.
LEMMA NextNumbers ==
  ASSUME PoolShape' PROVE \A id \in Known' : reserved'[id].max \in Nat
<1>1. \A n \in Cost : n \in Nat
  BY BudgetBounds DEF Cost
<1> QED
  BY <1>1 DEF PoolShape, BudgetTypeOK

LEMMA PoolSumsNext == PoolShape' => Sums'
  BY PoolSums, PTL

\* A reservation within what is available keeps the pool covered.
LEMMA ReserveHolds ==
  ASSUME PoolShape, BudgetHolds, NEW id \in Reservation, NEW max \in Cost,
         NEW parent \in Known \cup {Nil}, NEW at \in Date, Reserve(id, max, parent, at)
  PROVE  PoolShape' /\ BudgetHolds'
<1> DEFINE new == [max |-> max, parent |-> parent, at |-> at]
<1>1. /\ id \notin Known /\ max <= Available
      /\ reserved' = [reserved EXCEPT ![id] = new] /\ charged' = charged
  BY DEF Reserve
<1>2. max \in Nat /\ new.max = max /\ new.parent = parent
  BY BudgetBounds DEF Cost
<1>3. new # Nil
  <2>1. new \in Reserving
    BY DEF Reserving, Known
  <2> QED
    BY <2>1, NilIsNothing
<1> HIDE DEF new
<1>4. reserved'[id] = new /\ \A i \in Reservation : i # id => reserved'[i] = reserved[i]
  BY <1>1 DEF PoolShape
<1>5. Known' = Known \cup {id} /\ Settled' = Settled
  BY <1>1, <1>3, <1>4 DEF Known, Settled
<1>6. id \notin Settled /\ Known \subseteq Reservation /\ Settled \subseteq Known
  BY <1>1 DEF PoolShape, BudgetTypeOK, Known
<1>7. PoolShape'
  <2>1. DOMAIN reserved' = Reservation /\ DOMAIN charged' = Reservation
    BY <1>1 DEF PoolShape
  <2>2. \A i \in Known' : reserved'[i].max \in Cost /\ reserved'[i].parent \in Known' \cup {Nil}
    BY <1>2, <1>4, <1>5, <1>6 DEF PoolShape, BudgetTypeOK
  <2>3. Settled' \subseteq Known' /\ \A i \in Settled' : charged'[i].cost \in Cost
    BY <1>1, <1>5 DEF PoolShape, BudgetTypeOK
  <2> QED
    BY <2>1, <2>2, <2>3 DEF PoolShape, BudgetTypeOK
<1> DEFINE A == Known \ Settled
           B == (Known \ Settled)'
<1>8. B = A \cup {id} /\ id \notin A /\ B \ {id} = A
  BY <1>1, <1>5, <1>6
<1>9. /\ Outstanding = SumOf(Promised(reserved), A)
      /\ Spent = SumOf(Costs(charged), Settled)
      /\ Overrun = SumOf(Overruns(reserved, charged), Settled)
      /\ Outstanding \in Nat /\ Spent \in Nat /\ Overrun \in Nat
      /\ IsFiniteSet(A) /\ IsFiniteSet(Settled)
  BY PoolSums DEF Sums
<1>10. /\ Outstanding' = SumOf(Promised(reserved'), B)
       /\ Spent' = SumOf(Costs(charged'), Settled')
       /\ Overrun' = SumOf(Overruns(reserved', charged'), Settled')
       /\ IsFiniteSet(B)
       /\ \A i \in B : Promised(reserved')[i] = reserved'[i].max
  BY <1>7, PoolSumsNext DEF Sums
<1>11. Outstanding' = max + Outstanding
  <2>1. \A i \in B : Promised(reserved')[i] \in Nat
    BY <1>7, <1>10, NextNumbers
  <2>2. id \in B /\ Promised(reserved')[id] = max
    BY <1>2, <1>4, <1>8, <1>10
  <2>3. \A i \in A : Promised(reserved')[i] = Promised(reserved)[i]
    BY <1>4, <1>6, <1>8 DEF Promised
  <2> HIDE DEF A, B
  <2>4. SumOf(Promised(reserved'), B) = Promised(reserved')[id] + SumOf(Promised(reserved'), B \ {id})
    BY <1>10, <2>1, <2>2, SumWithout
  <2>5. SumOf(Promised(reserved'), A) = SumOf(Promised(reserved), A)
    BY <1>9, <2>3, SumAlike
  <2> QED
    BY <1>8, <1>9, <1>10, <2>2, <2>4, <2>5
<1>12. Spent' = Spent
  BY <1>1, <1>5, <1>9, <1>10
<1>13. Overrun' = Overrun
  <2>1. \A i \in Settled : Overruns(reserved', charged')[i] = Overruns(reserved, charged)[i]
    BY <1>1, <1>4, <1>6 DEF Overruns
  <2> QED
    BY <1>5, <1>9, <1>10, <2>1, SumAlike
<1>14. BudgetHolds'
  BY <1>1, <1>2, <1>9, <1>11, <1>12, <1>13, BudgetBounds DEF BudgetHolds, Available
<1> QED
  BY <1>7, <1>14

\* A settlement moves a maximum to a cost, and an overrun to the overruns.
LEMMA SettleHolds ==
  ASSUME PoolShape, BudgetHolds, NEW id \in Reservation, NEW actual \in Cost \cup {Nil},
         NEW at \in Date, Settle(id, actual, at)
  PROVE  PoolShape' /\ BudgetHolds'
<1> DEFINE most == reserved[id].max
           cost == IF actual = Nil THEN reserved[id].max ELSE actual
           new == [cost |-> cost, actual |-> actual # Nil, at |-> at]
           over == Max({0, cost - most})
<1>1. /\ id \in Known \ Settled /\ reserved' = reserved
      /\ charged' = [charged EXCEPT ![id] = new]
  BY DEF Settle
<1>2. most \in Cost /\ cost \in Cost /\ new.cost = cost
  BY <1>1 DEF PoolShape, BudgetTypeOK
<1>3. most \in Nat /\ cost \in Nat
  BY <1>2, BudgetBounds DEF Cost
<1>4. over \in Nat /\ over >= cost - most
  <2>1. cost - most \in Int
    BY <1>3
  <2> HIDE DEF cost, most
  <2> QED
    BY <2>1, MaxOfTwo
<1>5. new # Nil
  <2>1. new \in Charging
    BY <1>2 DEF Charging
  <2> QED
    BY <2>1, NilIsNothing
<1> HIDE DEF new
<1>6. charged'[id] = new /\ \A i \in Reservation : i # id => charged'[i] = charged[i]
  BY <1>1 DEF PoolShape
<1>7. Known' = Known /\ Settled' = Settled \cup {id} /\ id \notin Settled
  BY <1>1, <1>5, <1>6 DEF Known, Settled
<1>8. Known \subseteq Reservation /\ Settled \subseteq Reservation
  BY DEF Known, Settled
<1>9. PoolShape'
  <2>1. DOMAIN reserved' = Reservation /\ DOMAIN charged' = Reservation
    BY <1>1 DEF PoolShape
  <2>2. \A i \in Known' : reserved'[i].max \in Cost /\ reserved'[i].parent \in Known' \cup {Nil}
    BY <1>1, <1>7 DEF PoolShape, BudgetTypeOK
  <2>3. Settled' \subseteq Known' /\ \A i \in Settled' : charged'[i].cost \in Cost
    BY <1>1, <1>2, <1>6, <1>7, <1>8 DEF PoolShape, BudgetTypeOK
  <2> QED
    BY <2>1, <2>2, <2>3 DEF PoolShape, BudgetTypeOK
<1> DEFINE A == Known \ Settled
           B == (Known \ Settled)'
           C == Settled
           D == Settled'
<1>10. B = A \ {id} /\ id \in A /\ D = C \cup {id} /\ D \ {id} = C /\ id \in D
  BY <1>1, <1>7
<1>11. /\ Outstanding = SumOf(Promised(reserved), A)
       /\ Spent = SumOf(Costs(charged), C)
       /\ Overrun = SumOf(Overruns(reserved, charged), C)
       /\ Outstanding \in Nat /\ Spent \in Nat /\ Overrun \in Nat
       /\ IsFiniteSet(A) /\ IsFiniteSet(C)
       /\ \A i \in A : Promised(reserved)[i] = reserved[i].max
  BY PoolSums DEF Sums
<1>12. /\ Outstanding' = SumOf(Promised(reserved), B)
       /\ Spent' = SumOf(Costs(charged'), D)
       /\ Overrun' = SumOf(Overruns(reserved, charged'), D)
       /\ Outstanding' \in Nat /\ IsFiniteSet(D)
       /\ \A i \in D : Costs(charged')[i] \in Nat /\ Overruns(reserved, charged')[i] \in Nat
  BY <1>1, <1>9, PoolSumsNext DEF Sums
<1>13. Outstanding = most + Outstanding'
  <2>1. \A i \in A : Promised(reserved)[i] \in Nat
    BY <1>11, ShapeNumbers
  <2>2. Promised(reserved)[id] = most
    BY <1>10, <1>11
  <2> HIDE DEF A, B, most
  <2>3. SumOf(Promised(reserved), A) = Promised(reserved)[id] + SumOf(Promised(reserved), A \ {id})
    BY <1>10, <1>11, <2>1, SumWithout
  <2> QED
    BY <1>10, <1>11, <1>12, <2>2, <2>3
<1>14. Spent' = cost + Spent
  <2>1. Costs(charged')[id] = cost
    BY <1>2, <1>6 DEF Costs
  <2>2. \A i \in C : Costs(charged')[i] = Costs(charged)[i]
    BY <1>6, <1>7, <1>8 DEF Costs
  <2> HIDE DEF C, D, cost
  <2>3. SumOf(Costs(charged'), D) = Costs(charged')[id] + SumOf(Costs(charged'), D \ {id})
    BY <1>10, <1>12, SumWithout
  <2>4. SumOf(Costs(charged'), C) = SumOf(Costs(charged), C)
    BY <1>11, <2>2, SumAlike
  <2> QED
    BY <1>10, <1>11, <1>12, <2>1, <2>3, <2>4
<1>15. Overrun' = over + Overrun
  <2>1. Overruns(reserved, charged')[id] = over
    BY <1>2, <1>6 DEF Overruns
  <2>2. \A i \in C : Overruns(reserved, charged')[i] = Overruns(reserved, charged)[i]
    BY <1>6, <1>7, <1>8 DEF Overruns
  <2> HIDE DEF C, D, over
  <2>3. SumOf(Overruns(reserved, charged'), D)
        = Overruns(reserved, charged')[id] + SumOf(Overruns(reserved, charged'), D \ {id})
    BY <1>10, <1>12, SumWithout
  <2>4. SumOf(Overruns(reserved, charged'), C) = SumOf(Overruns(reserved, charged), C)
    BY <1>11, <2>2, SumAlike
  <2> QED
    BY <1>10, <1>11, <1>12, <2>1, <2>3, <2>4
<1>16. BudgetHolds'
  <2> HIDE DEF most, cost, over
  <2> QED
    BY <1>3, <1>4, <1>11, <1>12, <1>13, <1>14, <1>15, BudgetBounds DEF BudgetHolds
<1> QED
  BY <1>9, <1>16

LEMMA PoolHolds == BudgetSpec => [](PoolShape /\ BudgetHolds)
<1>1. BudgetInit => PoolShape /\ BudgetHolds
  <2> SUFFICES ASSUME BudgetInit PROVE PoolShape /\ BudgetHolds
    OBVIOUS
  <2>1. Known = {} /\ Settled = {} /\ DOMAIN reserved = Reservation /\ DOMAIN charged = Reservation
    BY DEF BudgetInit, Known, Settled
  <2>2. PoolShape
    BY <2>1 DEF PoolShape, BudgetTypeOK
  <2>3. Outstanding = 0 /\ Spent = 0 /\ Overrun \in Nat
    <3>1. Sums
      BY <2>2, PoolSums
    <3>2. \A v : SumOf(v, {}) = 0
      <4> SUFFICES ASSUME NEW v PROVE SumOf(v, {}) = 0
        OBVIOUS
      <4>1. IsFiniteSet({})
        BY FS_EmptySet
      <4>2. PICK g : AddsUp(g, {}, v)
        BY <4>1, AddsUpExists
      <4>3. SumOf(v, {}) = g[{}]
        BY <4>1, <4>2, SumAt
      <4>4. g[{}] = 0
        BY <4>2 DEF AddsUp
      <4> QED
        BY <4>3, <4>4
    <3>3. Known \ Settled = {}
      BY <2>1
    <3> QED
      BY <2>1, <3>1, <3>2, <3>3 DEF Sums
  <2> QED
    BY <2>2, <2>3, BudgetBounds DEF BudgetHolds
<1>2. PoolShape /\ BudgetHolds /\ [BudgetNext]_pool => PoolShape' /\ BudgetHolds'
  <2> SUFFICES ASSUME PoolShape, BudgetHolds, [BudgetNext]_pool PROVE PoolShape' /\ BudgetHolds'
    OBVIOUS
  <2>1. CASE BudgetNext
    BY <2>1, ReserveHolds, SettleHolds DEF BudgetNext
  <2>2. CASE UNCHANGED pool
    <3>1. reserved' = reserved /\ charged' = charged
      BY <2>2 DEF pool
    <3>2. PoolShape'
      BY <3>1 DEF PoolShape, BudgetTypeOK, Known, Settled
    <3>3. BudgetHolds'
      <4>1. Outstanding' = Outstanding /\ Spent' = Spent /\ Overrun' = Overrun
        <5>1. Known' = Known /\ Settled' = Settled
          BY <3>1 DEF Known, Settled
        <5>2. Sums /\ Sums'
          BY <3>2, PoolSums, PoolSumsNext
        <5> QED
          BY <3>1, <5>1, <5>2 DEF Sums
      <4> QED
        BY <4>1 DEF BudgetHolds
    <3> QED
      BY <3>2, <3>3
  <2> QED
    BY <2>1, <2>2
<1> QED
  BY <1>1, <1>2, PTL DEF BudgetSpec

\* For any finite set of reservations, any total, maxima and costs: the pool
\* is never short of more than declared actual costs went beyond their own
\* maxima.
THEOREM BudgetHoldsAlways == BudgetSpec => []BudgetHolds
<1>1. PoolShape /\ BudgetHolds => BudgetHolds
  OBVIOUS
<1> QED
  BY <1>1, PoolHolds, PTL

-----------------------------------------------------------------------------
(* The planner.                                                            *)

\* The least of some numbers.
LEMMA LeastIs ==
  ASSUME NEW S \in SUBSET Nat, S # {}
  PROVE  Min(S) \in S /\ \A y \in S : Min(S) <= y
<1>1. PICK n \in S : TRUE
  OBVIOUS
<1> DEFINE V == {x \in 1..(n + 1) : x - 1 \in S}
<1>2. n + 1 \in V
  BY <1>1
<1>3. PICK x \in V : \A y \in V : x <= y
  <2>1. n + 1 \in Nat
    BY <1>1
  <2>2. V \in SUBSET (1..(n + 1)) /\ V # {}
    BY <1>2
  <2> HIDE DEF V
  <2> QED
    BY <2>1, <2>2, FirstPlace
<1>4. ASSUME NEW y \in S PROVE x - 1 <= y
  <2>1. CASE y <= n
    <3>1. y + 1 \in V
      BY <2>1
    <3> QED
      BY <1>3, <3>1
  <2>2. CASE ~(y <= n)
    BY <1>3, <2>2
  <2> QED
    BY <2>1, <2>2
<1>5. \E a \in S : \A y \in S : a <= y
  BY <1>3, <1>4
<1> QED
  BY <1>5 DEF Min

\* A posterior is finite.
LEMMA WorldsAreFinite == \A S \in SUBSET Worlds : IsFiniteSet(S)
<1>1. IsFiniteSet(Worlds)
  <2>1. WorldCount \in Int /\ 1 \in Int
    BY PlanBounds
  <2> QED
    BY <2>1, FS_Interval DEF Worlds
<1> QED
  BY <1>1, FS_Subset

\* The sums of the planner, for any posterior.
LEMMA WeightSum ==
  ASSUME NEW m, NEW S \in SUBSET Worlds
  PROVE  Total(m, S) = SumOf(m.weight, S)
<1>1. IsFiniteSet(S)
  BY WorldsAreFinite
<1>2. PICK g : AddsUp(g, S, m.weight)
  BY <1>1, AddsUpExists
<1> DEFINE Is(f) == f = [s \in SUBSET S |-> IF s = {} THEN 0
                          ELSE m.weight[CHOOSE x \in s : TRUE] + f[s \ {CHOOSE x \in s : TRUE}]]
<1>3. ASSUME NEW f PROVE Is(f) <=> AddsUp(f, S, m.weight)
  BY DEF AddsUp, Chosen
<1>4. Total(m, S) = (CHOOSE f : Is(f))[S]
  BY DEF Total, MapThenSumSet, MapThenFoldSet
<1> HIDE DEF Is
<1>5. AddsUp(CHOOSE f : Is(f), S, m.weight)
  BY <1>2, <1>3
<1> QED
  BY <1>1, <1>4, <1>5, SumAt

Weighed(m, d) == [w \in Worlds |-> m.weight[w] * m.loss[d][w]]

\* The same, of the losses of a decision.
LEMMA LossSum ==
  ASSUME NEW m, NEW d, NEW S \in SUBSET Worlds
  PROVE  Loss(m, S, d) = SumOf(Weighed(m, d), S)
<1>1. IsFiniteSet(S)
  BY WorldsAreFinite
<1>2. PICK g : AddsUp(g, S, Weighed(m, d))
  BY <1>1, AddsUpExists
<1> DEFINE of(w) == m.weight[w] * m.loss[d][w]
           Is(f) == f = [s \in SUBSET S |-> IF s = {} THEN 0
                          ELSE of(CHOOSE x \in s : TRUE) + f[s \ {CHOOSE x \in s : TRUE}]]
<1>3. ASSUME NEW f PROVE Is(f) <=> AddsUp(f, S, Weighed(m, d))
  <2>1. \A s \in SUBSET S : s # {} => Weighed(m, d)[Chosen(s)] = of(CHOOSE x \in s : TRUE)
    BY DEF Weighed, Chosen
  <2> HIDE DEF of
  <2>2. [s \in SUBSET S |-> IF s = {} THEN 0
           ELSE of(CHOOSE x \in s : TRUE) + f[s \ {CHOOSE x \in s : TRUE}]]
        = [s \in SUBSET S |-> IF s = {} THEN 0
           ELSE Weighed(m, d)[Chosen(s)] + f[s \ {Chosen(s)}]]
    BY <2>1 DEF Chosen
  <2> QED
    BY <2>2 DEF AddsUp
<1>4. Loss(m, S, d) = (CHOOSE f : Is(f))[S]
  BY DEF Loss, MapThenSumSet, MapThenFoldSet
<1> HIDE DEF Is
<1>5. AddsUp(CHOOSE f : Is(f), S, Weighed(m, d))
  BY <1>2, <1>3
<1> QED
  BY <1>1, <1>4, <1>5, SumAt

\* The values of what the outcomes of a probe leave.
Continued(value, m, node, p) == [o \in OutcomeIds |-> value[Child(m, node, p, o)]]

\* The same, of the outcomes of a probe.
LEMMA AfterSum ==
  ASSUME NEW m, NEW node, NEW p, NEW value, IsFiniteSet(OutcomesOf(m, node.worlds, p)),
         OutcomesOf(m, node.worlds, p) \subseteq OutcomeIds
  PROVE  After(value, m, node, p)
           = m.cost[p] * Total(m, node.worlds)
             + SumOf(Continued(value, m, node, p), OutcomesOf(m, node.worlds, p))
<1> DEFINE S == OutcomesOf(m, node.worlds, p)
           v == Continued(value, m, node, p)
           of(o) == value[Child(m, node, p, o)]
           Is(f) == f = [s \in SUBSET S |-> IF s = {} THEN 0
                          ELSE of(CHOOSE x \in s : TRUE) + f[s \ {CHOOSE x \in s : TRUE}]]
<1>0. S \subseteq OutcomeIds /\ IsFiniteSet(S)
  OBVIOUS
<1>1. After(value, m, node, p) = m.cost[p] * Total(m, node.worlds) + (CHOOSE f : Is(f))[S]
  BY DEF After, MapThenSumSet, MapThenFoldSet
<1>2. \A o \in OutcomeIds : v[o] = of(o)
  BY DEF Continued
<1> HIDE DEF S, v, of
<1>3. PICK g : AddsUp(g, S, v)
  BY <1>0, AddsUpExists
<1>4. ASSUME NEW f PROVE Is(f) <=> AddsUp(f, S, v)
  <2>1. \A s \in SUBSET S : s # {} => v[Chosen(s)] = of(CHOOSE x \in s : TRUE)
    BY <1>0, <1>2 DEF Chosen
  <2>2. [s \in SUBSET S |-> IF s = {} THEN 0
           ELSE of(CHOOSE x \in s : TRUE) + f[s \ {CHOOSE x \in s : TRUE}]]
        = [s \in SUBSET S |-> IF s = {} THEN 0 ELSE v[Chosen(s)] + f[s \ {Chosen(s)}]]
    BY <2>1 DEF Chosen
  <2> QED
    BY <2>2 DEF AddsUp
<1> HIDE DEF Is
<1>5. AddsUp(CHOOSE f : Is(f), S, v)
  BY <1>3, <1>4
<1>6. SumOf(v, S) = (CHOOSE f : Is(f))[S]
  BY <1>0, <1>5, SumAt
<1> QED
  BY <1>1, <1>6 DEF S, v

\* Weights and losses add up to numbers.
LEMMA SumsAreNumbers ==
  ASSUME NEW m \in Models, NEW S \in SUBSET Worlds
  PROVE  Total(m, S) \in Nat /\ \A d \in Decisions : Loss(m, S, d) \in Nat
<1>1. IsFiniteSet(S)
  BY WorldsAreFinite
<1>2. ClosedModel(m)
  BY ModelsAreClosed
<1>3. \A w \in S : m.weight[w] \in Nat
  BY <1>2 DEF ClosedModel
<1>4. ASSUME NEW d \in Decisions PROVE Loss(m, S, d) \in Nat
  <2>1. \A w \in S : m.loss[d][w] \in Nat
    BY <1>2 DEF ClosedModel
  <2>2. \A a, b \in Nat : a * b \in Nat
    OBVIOUS
  <2>3. \A w \in S : Weighed(m, d)[w] \in Nat
    BY <1>3, <2>1, <2>2 DEF Weighed
  <2> QED
    BY <1>1, <2>3, LossSum, SumIsNat
<1> QED
  BY <1>1, <1>3, <1>4, WeightSum, SumIsNat

\* Stopping has a value, and the decision to stop with is admissible.
LEMMA StopIs ==
  ASSUME NEW m \in Models, NEW node \in Node
  PROVE  /\ Stop(m, node) \in Nat
         /\ StopDecision(m, node) \in Admissible(m, node.pairs)
         /\ Loss(m, node.worlds, StopDecision(m, node)) = Stop(m, node)
<1> DEFINE A == Admissible(m, node.pairs)
           L == {Loss(m, node.worlds, d) : d \in A}
           B == {d \in A : Loss(m, node.worlds, d) = Stop(m, node)}
<1>1. A # {} /\ A \subseteq Decisions
  BY ModelsAreClosed DEF ClosedModel, Admissible
<1>2. \A d \in Decisions : Loss(m, node.worlds, d) \in Nat
  BY SumsAreNumbers DEF Node
<1>3. L \in SUBSET Nat /\ L # {}
  BY <1>1, <1>2
<1>4. Stop(m, node) = Min(L)
  BY DEF Stop
<1> HIDE DEF L
<1>5. Min(L) \in L
  BY <1>3, LeastIs
<1>6. B \in SUBSET Nat /\ B # {}
  <2>1. Decisions \subseteq Nat
    BY PlanBounds DEF Decisions
  <2> QED
    BY <1>1, <1>4, <1>5, <2>1 DEF L
<1>7. StopDecision(m, node) = Min(B)
  BY DEF StopDecision
<1> HIDE DEF B
<1>8. StopDecision(m, node) \in B
  BY <1>6, <1>7, LeastIs
<1> QED
  BY <1>3, <1>4, <1>5, <1>8 DEF B

\* One step of each of the planner's recursions.
Onward(c, n, last) ==
  CASE c.of = "outcomes" -> TryOutcome(c.below, c.model, c.node, c.probe, n, last)
    [] c.of = "probes" -> Compare(c.below, c.model, c.node, c.excluded, n, last)
    [] c.of = "levels" -> Level(last, c.model, c.ceiling, c.excluded, n)
    [] c.of = "values" -> Values(last, c.model, c.excluded, n)

\* A function on the first steps that is as the recursion must be.
Recurs(g, n, c, first) ==
  g = [k \in 0..n |-> IF k = 0 THEN first ELSE Onward(c, k, g[k - 1])]

\* There is such a function, for any number of steps.
LEMMA RecursionExists ==
  ASSUME NEW N \in Nat, NEW c, NEW first
  PROVE  \E g : Recurs(g, N, c, first)
<1> DEFINE V == {n \in 0..N : \E g : Recurs(g, n, c, first)}
<1>1. 0 \in V
  <2> DEFINE g == [k \in 0..0 |-> first]
  <2>1. Recurs(g, 0, c, first)
    BY DEF Recurs
  <2> QED
    BY <2>1
<1>2. ASSUME NEW n \in 1..N, n - 1 \in V PROVE n \in V
  <2>1. PICK g : Recurs(g, n - 1, c, first)
    BY <1>2
  <2>2. \A k \in 0..(n - 1) : g[k] = IF k = 0 THEN first ELSE Onward(c, k, g[k - 1])
    BY <2>1 DEF Recurs
  <2> DEFINE h == [k \in 0..n |-> IF k = n THEN Onward(c, n, g[n - 1]) ELSE g[k]]
             u == [k \in 0..n |-> IF k = 0 THEN first ELSE Onward(c, k, h[k - 1])]
  <2>3. ASSUME NEW k \in 0..n PROVE h[k] = u[k]
    <3>1. CASE k = n
      <4>1. n - 1 \in 0..n /\ n - 1 # n /\ n # 0
        OBVIOUS
      <4>2. h[n - 1] = g[n - 1]
        BY <4>1
      <4> QED
        BY <3>1, <4>1, <4>2
    <3>2. CASE k # n /\ k # 0
      <4>1. k - 1 \in 0..n /\ k - 1 # n /\ k \in 0..(n - 1)
        BY <3>2
      <4>2. h[k - 1] = g[k - 1] /\ h[k] = g[k]
        BY <3>2, <4>1
      <4> QED
        BY <2>2, <3>2, <4>1, <4>2
    <3>3. CASE k = 0
      <4>1. 0 \in 0..(n - 1) /\ n # 0
        OBVIOUS
      <4> QED
        BY <2>2, <3>3, <4>1
    <3> QED
      BY <3>1, <3>2, <3>3
  <2>4. h = u
    BY <2>3
  <2>5. Recurs(h, n, c, first)
    BY <2>4 DEF Recurs
  <2> HIDE DEF h
  <2> QED
    BY <2>5
<1> HIDE DEF V
<1>3. 0..N \subseteq V
  BY <1>1, <1>2, Upward
<1> QED
  BY <1>3 DEF V

\* The outcomes of a probe are tried one after the other.
LEMMA TryIs ==
  ASSUME NEW below, NEW m, NEW node, NEW p, NEW env
  PROVE  \E f : /\ f[0] = [value |-> m.cost[p] * Total(m, node.worlds), env |-> env]
                /\ \A w \in 1..WorldCount : f[w] = TryOutcome(below, m, node, p, w, f[w - 1])
                /\ Try(below, m, node, p, env) = f[WorldCount]
<1> DEFINE first == [value |-> m.cost[p] * Total(m, node.worlds), env |-> env]
           c == [of |-> "outcomes", below |-> below, model |-> m, node |-> node, probe |-> p]
           Is(f) == f = [w \in 0..WorldCount |-> IF w = 0 THEN first
                           ELSE TryOutcome(below, m, node, p, w, f[w - 1])]
           f == CHOOSE f : Is(f)
<1>1. Try(below, m, node, p, env) = f[WorldCount]
  BY DEF Try
<1>2. \A n, last : Onward(c, n, last) = TryOutcome(below, m, node, p, n, last)
  BY DEF Onward
<1> HIDE DEF first, c
<1>3. PICK g : Recurs(g, WorldCount, c, first)
  BY PlanBounds, RecursionExists
<1>4. Is(g)
  BY <1>2, <1>3 DEF Recurs
<1>5. Is(f)
  BY <1>4
<1>6. f[0] = first /\ \A w \in 1..WorldCount : f[w] = TryOutcome(below, m, node, p, w, f[w - 1])
  <2> HIDE DEF f
  <2> QED
    BY <1>5, PlanBounds
<1> QED
  BY <1>1, <1>6 DEF first

\* The candidates are compared one after the other.
LEMMA BestIs ==
  ASSUME NEW below, NEW m, NEW node, NEW excluded, NEW env
  PROVE  \E f : /\ f[0] = Answer(Stop(m, node), env)
                /\ \A p \in 1..ProbeCount : f[p] = Compare(below, m, node, excluded, p, f[p - 1])
                /\ Best(below, m, node, excluded, env) = f[ProbeCount]
<1> DEFINE first == Answer(Stop(m, node), env)
           c == [of |-> "probes", below |-> below, model |-> m, node |-> node,
                 excluded |-> excluded]
           Is(f) == f = [p \in 0..ProbeCount |-> IF p = 0 THEN first
                           ELSE Compare(below, m, node, excluded, p, f[p - 1])]
           f == CHOOSE f : Is(f)
<1>1. Best(below, m, node, excluded, env) = f[ProbeCount]
  BY DEF Best
<1>2. \A n, last : Onward(c, n, last) = Compare(below, m, node, excluded, n, last)
  BY DEF Onward
<1> HIDE DEF first, c
<1>3. PICK g : Recurs(g, ProbeCount, c, first)
  BY PlanBounds, RecursionExists
<1>4. Is(g)
  BY <1>2, <1>3 DEF Recurs
<1>5. Is(f)
  BY <1>4
<1>6. f[0] = first /\ \A p \in 1..ProbeCount : f[p] = Compare(below, m, node, excluded, p, f[p - 1])
  <2> HIDE DEF f
  <2> QED
    BY <1>5, PlanBounds
<1> QED
  BY <1>1, <1>6 DEF first

\* The searches of every horizon, each standing on those of one less.
Searches(m, ceiling, excluded) ==
  CHOOSE f : f = [h \in 0..MaxHorizon |->
                    Level(IF h = 0 THEN <<>> ELSE f[h - 1], m, ceiling, excluded, h)]

LEMMA SearchIs ==
  ASSUME NEW m, NEW ceiling, NEW excluded
  PROVE  LET f == Searches(m, ceiling, excluded)
         IN  /\ f[0] = Level(<<>>, m, ceiling, excluded, 0)
             /\ \A h \in 1..MaxHorizon : f[h] = Level(f[h - 1], m, ceiling, excluded, h)
             /\ \A h : Plan(m, ceiling, excluded, h) = f[h]
<1> DEFINE first == Level(<<>>, m, ceiling, excluded, 0)
           c == [of |-> "levels", model |-> m, ceiling |-> ceiling, excluded |-> excluded]
           Is(f) == f = [h \in 0..MaxHorizon |->
                           Level(IF h = 0 THEN <<>> ELSE f[h - 1], m, ceiling, excluded, h)]
           f == Searches(m, ceiling, excluded)
<1>1. f = CHOOSE g : Is(g)
  BY DEF Searches
<1>2. \A h : Plan(m, ceiling, excluded, h) = f[h]
  BY DEF Plan, Searches
<1>3. \A n, last : Onward(c, n, last) = Level(last, m, ceiling, excluded, n)
  BY DEF Onward
<1> HIDE DEF first, c, f
<1>4. PICK g : Recurs(g, MaxHorizon, c, first)
  BY PlanBounds, RecursionExists
<1>5. Is(g)
  <2> DEFINE r == [h \in 0..MaxHorizon |->
                     Level(IF h = 0 THEN <<>> ELSE g[h - 1], m, ceiling, excluded, h)]
  <2>1. g = [h \in 0..MaxHorizon |->
               IF h = 0 THEN first ELSE Level(g[h - 1], m, ceiling, excluded, h)]
    BY <1>3, <1>4 DEF Recurs
  <2>2. ASSUME NEW h \in 0..MaxHorizon PROVE g[h] = r[h]
    <3>1. CASE h = 0
      BY <2>1, <3>1 DEF first
    <3>2. CASE h # 0
      BY <2>1, <3>2
    <3> QED
      BY <3>1, <3>2
  <2>3. DOMAIN g = 0..MaxHorizon /\ g = [h \in DOMAIN g |-> g[h]]
    <3>1. \E e : g = [h \in 0..MaxHorizon |-> e[h]]
      <4> DEFINE e == [h \in 0..MaxHorizon |->
               IF h = 0 THEN first ELSE Level(g[h - 1], m, ceiling, excluded, h)]
      <4>1. g = [h \in 0..MaxHorizon |-> e[h]]
        BY <2>1
      <4> QED
        BY <4>1
    <3> QED
      BY <3>1
  <2>4. g = r
    BY <2>2, <2>3
  <2> QED
    BY <2>4
<1>6. Is(f)
  BY <1>1, <1>5
<1>7. \A h \in 0..MaxHorizon :
        f[h] = Level(IF h = 0 THEN <<>> ELSE f[h - 1], m, ceiling, excluded, h)
  BY <1>6
<1>8. f[0] = Level(<<>>, m, ceiling, excluded, 0)
  <2>1. 0 \in 0..MaxHorizon
    BY PlanBounds
  <2> QED
    BY <1>7, <2>1
<1>9. ASSUME NEW h \in 1..MaxHorizon PROVE f[h] = Level(f[h - 1], m, ceiling, excluded, h)
  <2>1. h \in 0..MaxHorizon /\ h # 0
    BY PlanBounds
  <2> QED
    BY <1>7, <2>1
<1> QED
  BY <1>2, <1>8, <1>9 DEF f

\* The values of every horizon, each standing on those of one less.
LEMMA BellmanIs ==
  ASSUME NEW m, NEW excluded
  PROVE  LET f == Bellman(m, excluded)
         IN  /\ f[0] = Values(<<>>, m, excluded, 0)
             /\ \A h \in 1..MaxHorizon : f[h] = Values(f[h - 1], m, excluded, h)
<1> DEFINE first == Values(<<>>, m, excluded, 0)
           c == [of |-> "values", model |-> m, excluded |-> excluded]
           Is(f) == f = [h \in 0..MaxHorizon |->
                           Values(IF h = 0 THEN <<>> ELSE f[h - 1], m, excluded, h)]
           f == Bellman(m, excluded)
<1>1. f = CHOOSE g : Is(g)
  BY DEF Bellman
<1>3. \A n, last : Onward(c, n, last) = Values(last, m, excluded, n)
  BY DEF Onward
<1> HIDE DEF first, c, f
<1>4. PICK g : Recurs(g, MaxHorizon, c, first)
  BY PlanBounds, RecursionExists
<1>5. Is(g)
  <2> DEFINE r == [h \in 0..MaxHorizon |->
                     Values(IF h = 0 THEN <<>> ELSE g[h - 1], m, excluded, h)]
  <2>1. g = [h \in 0..MaxHorizon |->
               IF h = 0 THEN first ELSE Values(g[h - 1], m, excluded, h)]
    BY <1>3, <1>4 DEF Recurs
  <2>2. ASSUME NEW h \in 0..MaxHorizon PROVE g[h] = r[h]
    <3>1. CASE h = 0
      BY <2>1, <3>1 DEF first
    <3>2. CASE h # 0
      BY <2>1, <3>2
    <3> QED
      BY <3>1, <3>2
  <2>3. DOMAIN g = 0..MaxHorizon /\ g = [h \in DOMAIN g |-> g[h]]
    <3>1. \E e : g = [h \in 0..MaxHorizon |-> e[h]]
      <4> DEFINE e == [h \in 0..MaxHorizon |->
               IF h = 0 THEN first ELSE Values(g[h - 1], m, excluded, h)]
      <4>1. g = [h \in 0..MaxHorizon |-> e[h]]
        BY <2>1
      <4> QED
        BY <4>1
    <3> QED
      BY <3>1
  <2>4. g = r
    BY <2>2, <2>3
  <2> QED
    BY <2>4
<1>6. Is(f)
  BY <1>1, <1>5
<1>7. \A h \in 0..MaxHorizon : f[h] = Values(IF h = 0 THEN <<>> ELSE f[h - 1], m, excluded, h)
  BY <1>6
<1>8. f[0] = Values(<<>>, m, excluded, 0)
  <2>1. 0 \in 0..MaxHorizon
    BY PlanBounds
  <2> QED
    BY <1>7, <2>1
<1>9. ASSUME NEW h \in 1..MaxHorizon PROVE f[h] = Values(f[h - 1], m, excluded, h)
  <2>1. h \in 0..MaxHorizon /\ h # 0
    BY PlanBounds
  <2> QED
    BY <1>7, <2>1
<1> QED
  BY <1>8, <1>9 DEF f

\* An outcome of a candidate leaves a node, and there are finitely many.
LEMMA ChildIsNode ==
  ASSUME NEW m \in Models, NEW node \in Node, NEW excluded,
         NEW p \in Candidates(m, node, excluded)
  PROVE  /\ p \in Probes /\ m.cost[p] \in Nat
         /\ OutcomesOf(m, node.worlds, p) \subseteq OutcomeIds
         /\ IsFiniteSet(OutcomesOf(m, node.worlds, p))
         /\ \A o \in OutcomeIds : Child(m, node, p, o) \in Node
<1>1. ClosedModel(m)
  BY ModelsAreClosed
<1>2. p \in Probes /\ m.cost[p] <= node.budget
  BY DEF Candidates
<1>3. m.cost[p] \in Nat /\ \A w \in Worlds : m.table[p][w] \in OutcomeIds
  BY <1>1, <1>2 DEF ClosedModel
<1>4. node.worlds \subseteq Worlds /\ node.pairs \subseteq Probes \X OutcomeIds
      /\ node.budget \in 0..MaxBudget
  BY DEF Node
<1>5. OutcomesOf(m, node.worlds, p) \subseteq OutcomeIds
  BY <1>3, <1>4 DEF OutcomesOf
<1>6. IsFiniteSet(OutcomesOf(m, node.worlds, p))
  <2> DEFINE S == node.worlds
             T == OutcomesOf(m, S, p)
             g == [w \in S |-> m.table[p][w]]
  <2>1. IsFiniteSet(S)
    BY <1>4, WorldsAreFinite
  <2>2. g \in Surjection(S, T)
    BY DEF Surjection, OutcomesOf
  <2> QED
    BY <2>1, <2>2, FS_Surjection
<1>7. ASSUME NEW o \in OutcomeIds PROVE Child(m, node, p, o) \in Node
  <2>1. node.budget - m.cost[p] \in 0..MaxBudget
    BY <1>2, <1>3, <1>4, PlanBounds
  <2>2. Split(m, node.worlds, p, o) \in SUBSET Worlds
    BY <1>4 DEF Split
  <2>3. node.pairs \cup {<<p, o>>} \in SUBSET (Probes \X OutcomeIds)
    BY <1>2, <1>4
  <2> QED
    BY <2>1, <2>2, <2>3 DEF Child, Node
<1> QED
  BY <1>2, <1>3, <1>5, <1>6, <1>7

\* Acquiring a probe has a value, when what it leaves has.
LEMMA AfterIsNat ==
  ASSUME NEW m \in Models, NEW node \in Node, NEW excluded,
         NEW p \in Candidates(m, node, excluded),
         NEW value, \A n \in Node : value[n] \in Nat
  PROVE  /\ After(value, m, node, p) \in Nat
         /\ m.cost[p] * Total(m, node.worlds) \in Nat
         /\ \A o \in OutcomesOf(m, node.worlds, p) : Continued(value, m, node, p)[o] \in Nat
<1> DEFINE S == OutcomesOf(m, node.worlds, p)
<1>1. /\ m.cost[p] \in Nat /\ S \subseteq OutcomeIds /\ IsFiniteSet(S)
      /\ \A o \in OutcomeIds : Child(m, node, p, o) \in Node
  BY ChildIsNode
<1>2. \A o \in S : Continued(value, m, node, p)[o] \in Nat
  BY <1>1 DEF Continued
<1>3. SumOf(Continued(value, m, node, p), S) \in Nat
  BY <1>1, <1>2, SumIsNat
<1>4. Total(m, node.worlds) \in Nat
  BY SumsAreNumbers DEF Node
<1>5. \A a, b \in Nat : a * b \in Nat
  OBVIOUS
<1>6. m.cost[p] * Total(m, node.worlds) \in Nat
  BY <1>1, <1>4, <1>5
<1>7. After(value, m, node, p) = m.cost[p] * Total(m, node.worlds) + SumOf(Continued(value, m, node, p), S)
  BY <1>1, AfterSum
<1> HIDE DEF S
<1>8. After(value, m, node, p) \in Nat
  BY <1>3, <1>6, <1>7
<1> QED
  BY <1>2, <1>6, <1>8 DEF S

\* What the recursion gives is the least of stopping and of every candidate.
LeastOf(v, m, excluded, h, below, node) ==
  /\ v \in Nat /\ v <= Stop(m, node)
  /\ h > 0 => \A p \in Candidates(m, node, excluded) :
                After(below, m, node, p) \in Nat /\ v <= After(below, m, node, p)
  /\ \/ v = Stop(m, node)
     \/ h > 0 /\ \E p \in Candidates(m, node, excluded) : v = After(below, m, node, p)

LEMMA ValuesAre ==
  ASSUME NEW m \in Models, NEW excluded \in SUBSET Probes, NEW h \in 0..MaxHorizon,
         NEW below, h > 0 => \A n \in Node : below[n] \in Nat, NEW node \in Node
  PROVE  LeastOf(Values(below, m, excluded, h)[node], m, excluded, h, below, node)
<1> DEFINE D == {d \in Decisions : \A pair \in m.needs[d] : pair \in node.pairs}
           P == {p \in Probes \ excluded :
                  /\ h > 0 /\ m.cost[p] <= node.budget
                  /\ \A pair \in node.pairs : pair[1] # p}
           L == {Loss(m, node.worlds, d) : d \in D}
           A == {After(below, m, node, p) : p \in P}
           v == Values(below, m, excluded, h)[node]
<1>1. v = Min(L \cup A)
  BY DEF Values
<1>2. D = Admissible(m, node.pairs)
  BY DEF Admissible
<1>3. L = {Loss(m, node.worlds, d) : d \in Admissible(m, node.pairs)}
  BY <1>2
<1>4. \A p : p \in P <=> h > 0 /\ p \in Candidates(m, node, excluded)
  BY DEF Candidates, ProbesOf
<1>5. \A p \in P : After(below, m, node, p) \in Nat
  BY <1>4, AfterIsNat
<1>6. Stop(m, node) = Min(L)
  BY <1>3 DEF Stop
<1> HIDE DEF v, P, D
<1>7. D # {} /\ D \subseteq Decisions
  BY <1>2, ModelsAreClosed DEF ClosedModel, Admissible
<1>8. \A d \in Decisions : Loss(m, node.worlds, d) \in Nat
  BY SumsAreNumbers DEF Node
<1>9. L \in SUBSET Nat /\ L # {}
  BY <1>7, <1>8
<1>10. A \in SUBSET Nat /\ \A p \in P : After(below, m, node, p) \in A
  BY <1>5
<1>11. \A a \in A : \E p \in P : a = After(below, m, node, p)
  OBVIOUS
<1> HIDE DEF L, A
<1>12. Min(L) \in L /\ \A y \in L : Min(L) <= y
  BY <1>9, LeastIs
<1>13. L \cup A \in SUBSET Nat /\ L \cup A # {}
  BY <1>9, <1>10
<1>14. Min(L \cup A) \in L \cup A /\ \A y \in L \cup A : Min(L \cup A) <= y
  BY <1>13, LeastIs
<1>15. v \in Nat /\ v <= Stop(m, node) /\ \A p \in P : v <= After(below, m, node, p)
  BY <1>1, <1>6, <1>10, <1>12, <1>13, <1>14
<1>16. v = Stop(m, node) \/ \E p \in P : v = After(below, m, node, p)
  <2>1. CASE v \in A
    BY <1>11, <2>1
  <2>2. CASE v \in L
    <3>1. Stop(m, node) <= v /\ v <= Stop(m, node) /\ Stop(m, node) \in Nat
      BY <1>6, <1>9, <1>12, <1>15, <2>2
    <3> QED
      BY <1>15, <3>1
  <2> QED
    BY <1>1, <1>14, <2>1, <2>2
<1>17. LeastOf(v, m, excluded, h, below, node)
  BY <1>4, <1>5, <1>15, <1>16 DEF LeastOf
<1> QED
  BY <1>17 DEF v

\* So it is at every horizon.
LEMMA BellmanHolds ==
  ASSUME NEW m \in Models, NEW excluded \in SUBSET Probes
  PROVE  LET value == Bellman(m, excluded)
         IN  \A h \in 0..MaxHorizon : \A node \in Node :
               LeastOf(value[h][node], m, excluded, h, value[h - 1], node)
<1> DEFINE value == Bellman(m, excluded)
           V == {h \in 0..MaxHorizon : \A node \in Node : value[h][node] \in Nat}
<1>1. value[0] = Values(<<>>, m, excluded, 0)
      /\ \A h \in 1..MaxHorizon : value[h] = Values(value[h - 1], m, excluded, h)
  BY BellmanIs
<1> HIDE DEF value
<1>2. 0 \in 0..MaxHorizon /\ MaxHorizon \in Nat
  BY PlanBounds
<1>3. ASSUME NEW node \in Node PROVE LeastOf(value[0][node], m, excluded, 0, <<>>, node)
  BY <1>1, <1>2, ValuesAre
<1>4. 0 \in V
  BY <1>2, <1>3 DEF LeastOf
<1>5. ASSUME NEW h \in 1..MaxHorizon, h - 1 \in V, NEW node \in Node
      PROVE  LeastOf(value[h][node], m, excluded, h, value[h - 1], node)
  <2>1. h \in 0..MaxHorizon /\ \A n \in Node : value[h - 1][n] \in Nat
    BY <1>2, <1>5
  <2>2. LeastOf(Values(value[h - 1], m, excluded, h)[node], m, excluded, h, value[h - 1], node)
    BY <2>1, ValuesAre
  <2> QED
    BY <1>1, <2>2
<1>6. ASSUME NEW h \in 1..MaxHorizon, h - 1 \in V PROVE h \in V
  BY <1>2, <1>5, <1>6 DEF LeastOf
<1>7. 0..MaxHorizon \subseteq V
  <2> HIDE DEF V
  <2> QED
    BY <1>2, <1>4, <1>6, Upward
<1>8. ASSUME NEW h \in 0..MaxHorizon, NEW node \in Node
      PROVE  LeastOf(value[h][node], m, excluded, h, value[h - 1], node)
  <2>1. CASE h = 0
    BY <1>3, <2>1 DEF LeastOf
  <2>2. CASE h # 0
    <3>1. h \in 1..MaxHorizon /\ h - 1 \in 0..MaxHorizon
      BY <1>2, <2>2
    <3> HIDE DEF V
    <3> QED
      BY <1>5, <1>7, <3>1
  <2> QED
    BY <2>1, <2>2
<1> QED
  BY <1>8 DEF value

\* A value that is exact unless the search was cut short.
Bounded(v, least, most, exhausted) ==
  /\ v \in Nat /\ least <= v /\ v <= most
  /\ ~exhausted => v = least

\* What a search carries: its count is within the ceiling, and its memo
\* holds values between the recursion and stopping.
EnvHolds(e, m, ceiling, excluded) ==
  /\ e \in Env /\ e.used <= ceiling
  /\ e.exhausted => e.used = ceiling
  /\ \A n \in e.memo :
       Bounded(n.value, Bellman(m, excluded)[n.horizon][n.node], Stop(m, n.node), e.exhausted)

\* A search goes from one env to another, and a cut stays.
Carries(before, after, m, ceiling, excluded) ==
  /\ EnvHolds(after, m, ceiling, excluded)
  /\ before.exhausted => after.exhausted

\* The searches of one horizon.
LevelHolds(level, h, m, ceiling, excluded) ==
  \A node \in Node, env \in Env :
    EnvHolds(env, m, ceiling, excluded) =>
      LET r == level[[node |-> node, env |-> env]]
      IN  /\ Carries(env, r.env, m, ceiling, excluded)
          /\ Bounded(r.value, Bellman(m, excluded)[h][node], Stop(m, node), r.env.exhausted)

\* The outcomes of the worlds up to one, of which there is a new one just
\* when that world is the first to show it.
Seen(m, worlds, p, w) == {m.table[p][x] : x \in {y \in worlds : y <= w}}

LEMMA SeenGrows ==
  ASSUME NEW m, NEW worlds \in SUBSET Worlds, NEW p, NEW w \in 1..WorldCount
  PROVE  /\ w \in Openers(m, worlds, p) =>
              /\ w \in worlds /\ m.table[p][w] \notin Seen(m, worlds, p, w - 1)
              /\ Seen(m, worlds, p, w) = Seen(m, worlds, p, w - 1) \cup {m.table[p][w]}
         /\ w \notin Openers(m, worlds, p) =>
              Seen(m, worlds, p, w) = Seen(m, worlds, p, w - 1)
<1> DEFINE o(x) == m.table[p][x]
           upto(k) == {y \in worlds : y <= k}
<1>1. worlds \subseteq Nat /\ w \in Nat
  BY PlanBounds DEF Worlds
<1>2. upto(w) = upto(w - 1) \cup (worlds \cap {w})
  <2>1. ASSUME NEW y \in Nat PROVE y <= w <=> y <= w - 1 \/ y = w
    BY <1>1
  <2> QED
    BY <1>1, <2>1
<1>3. /\ Seen(m, worlds, p, w) = {o(x) : x \in upto(w)}
      /\ Seen(m, worlds, p, w - 1) = {o(x) : x \in upto(w - 1)}
  BY DEF Seen
<1>4. w \in Openers(m, worlds, p) <=> w \in worlds /\ \A v \in worlds : o(v) = o(w) => w <= v
  BY DEF Openers
<1>5. \A v \in worlds : w <= v <=> v \notin upto(w - 1)
  <2>1. ASSUME NEW v \in Nat PROVE w <= v <=> ~(v <= w - 1)
    BY <1>1
  <2> QED
    BY <1>1, <2>1
<1> HIDE DEF o
<1>6. upto(w - 1) \subseteq worlds
  OBVIOUS
<1> HIDE DEF upto
<1>7. CASE w \in Openers(m, worlds, p)
  <2>1. w \in worlds /\ \A v \in upto(w - 1) : o(v) # o(w)
    BY <1>4, <1>5, <1>6, <1>7
  <2>2. upto(w) = upto(w - 1) \cup {w}
    BY <1>2, <2>1
  <2> QED
    BY <1>3, <1>7, <2>1, <2>2 DEF o
<1>8. CASE w \notin Openers(m, worlds, p)
  <2>1. CASE w \notin worlds
    BY <1>2, <1>3, <1>8, <2>1
  <2>2. CASE w \in worlds
    <3>1. PICK v \in upto(w - 1) : o(v) = o(w)
      BY <1>4, <1>5, <1>8, <2>2
    <3>2. upto(w) = upto(w - 1) \cup {w}
      BY <1>2, <2>2
    <3>3. {o(x) : x \in upto(w)} = {o(x) : x \in upto(w - 1)}
      BY <3>1, <3>2
    <3> QED
      BY <1>3, <1>8, <3>3
  <2> QED
    BY <2>1, <2>2
<1> QED
  BY <1>7, <1>8

\* Of no world nothing is seen, of all worlds every outcome.
LEMMA SeenAll ==
  ASSUME NEW m, NEW worlds \in SUBSET Worlds, NEW p
  PROVE  /\ Seen(m, worlds, p, 0) = {}
         /\ Seen(m, worlds, p, WorldCount) = OutcomesOf(m, worlds, p)
         /\ \A w : Seen(m, worlds, p, w) \subseteq OutcomesOf(m, worlds, p)
<1>1. \A y \in worlds : y <= WorldCount /\ ~(y <= 0)
  BY PlanBounds DEF Worlds
<1>2. {y \in worlds : y <= 0} = {} /\ {y \in worlds : y <= WorldCount} = worlds
  BY <1>1
<1> QED
  BY <1>2 DEF Seen, OutcomesOf

\* The value of a probe as a search finds it: what the recursion says, or
\* more if the search was cut short.
LEMMA TryHolds ==
  ASSUME NEW m \in Models, NEW excluded \in SUBSET Probes, NEW ceiling \in Ceilings,
         NEW h \in 1..MaxHorizon, NEW below, LevelHolds(below, h - 1, m, ceiling, excluded),
         NEW node \in Node, NEW p \in Candidates(m, node, excluded),
         NEW env, EnvHolds(env, m, ceiling, excluded)
  PROVE  LET t == Try(below, m, node, p, env)
             worth == After(Bellman(m, excluded)[h - 1], m, node, p)
         IN  /\ Carries(env, t.env, m, ceiling, excluded)
             /\ t.value \in Nat /\ worth <= t.value
             /\ ~t.env.exhausted => t.value = worth
<1> DEFINE value == Bellman(m, excluded)[h - 1]
           S == OutcomesOf(m, node.worlds, p)
           v == Continued(value, m, node, p)
           seen(w) == Seen(m, node.worlds, p, w)
           cost == m.cost[p] * Total(m, node.worlds)
           sum(w) == cost + SumOf(v, seen(w))
           Fair(t, w) == /\ Carries(env, t.env, m, ceiling, excluded)
                         /\ t.value \in Nat /\ sum(w) <= t.value
                         /\ ~t.env.exhausted => t.value = sum(w)
<1>0. h - 1 \in 0..MaxHorizon /\ h - 1 \in Nat /\ node.worlds \in SUBSET Worlds
  BY PlanBounds DEF Node
<1>1. \A n \in Node : value[n] \in Nat
  BY <1>0, BellmanHolds DEF LeastOf
<1>2. /\ S \subseteq OutcomeIds /\ IsFiniteSet(S)
      /\ \A o \in OutcomeIds : Child(m, node, p, o) \in Node
  BY ChildIsNode
<1>3. cost \in Nat /\ \A o \in S : v[o] \in Nat
  BY <1>1, AfterIsNat
<1>4. After(value, m, node, p) = cost + SumOf(v, S)
  BY <1>2, AfterSum
<1>5. \A w \in 1..WorldCount :
        /\ w \in Openers(m, node.worlds, p) =>
             /\ w \in node.worlds /\ m.table[p][w] \notin seen(w - 1)
             /\ seen(w) = seen(w - 1) \cup {m.table[p][w]}
        /\ w \notin Openers(m, node.worlds, p) => seen(w) = seen(w - 1)
  BY <1>0, SeenGrows
<1>6. seen(0) = {} /\ seen(WorldCount) = S /\ \A w : seen(w) \subseteq S
  BY <1>0, SeenAll
<1>7. PICK f : /\ f[0] = [value |-> cost, env |-> env]
               /\ \A w \in 1..WorldCount : f[w] = TryOutcome(below, m, node, p, w, f[w - 1])
               /\ Try(below, m, node, p, env) = f[WorldCount]
  BY TryIs
<1>8. \A o \in S : v[o] = value[Child(m, node, p, o)]
  BY <1>2 DEF Continued
<1>9. \A w \in node.worlds : m.table[p][w] \in S
  BY DEF OutcomesOf
<1> HIDE DEF value, S, v, seen, cost
<1>10. SumOf(v, {}) = 0
  <2>1. PICK g : AddsUp(g, {}, v)
    BY FS_EmptySet, AddsUpExists
  <2>2. SumOf(v, {}) = g[{}]
    BY <2>1, FS_EmptySet, SumAt
  <2> QED
    BY <2>1, <2>2, AddsUpAt
<1>11. Fair(f[0], 0)
  <2>1. sum(0) = cost
    <3>1. seen(0) = {} /\ cost \in Nat
      BY <1>3, <1>6
    <3>2. cost + 0 = cost
      BY <3>1
    <3> QED
      BY ONLY <1>10, <3>1, <3>2
  <2>2. f[0].value = cost /\ f[0].env = env
    BY <1>7
  <2> HIDE DEF sum
  <2> QED
    BY <1>3, <2>1, <2>2 DEF Carries
<1>12. ASSUME NEW w \in 1..WorldCount, Fair(f[w - 1], w - 1) PROVE Fair(f[w], w)
  <2> DEFINE before == f[w - 1]
             o == m.table[p][w]
             child == Child(m, node, p, o)
             rest == below[[node |-> child, env |-> before.env]]
  <2>1. f[w] = TryOutcome(below, m, node, p, w, before)
    BY <1>7
  <2>2. CASE w \notin Openers(m, node.worlds, p)
    BY <1>5, <1>12, <2>1, <2>2 DEF TryOutcome
  <2>3. CASE w \in Openers(m, node.worlds, p)
    <3>1. f[w].value = before.value + rest.value /\ f[w].env = rest.env
      BY <2>1, <2>3 DEF TryOutcome
    <3>2. o \in S /\ o \notin seen(w - 1) /\ seen(w) = seen(w - 1) \cup {o}
      BY <1>5, <1>9, <2>3
    <3>3. child \in Node /\ v[o] = value[child] /\ v[o] \in Nat
      BY <1>2, <1>3, <1>8, <3>2
    <3>4. /\ Carries(env, before.env, m, ceiling, excluded)
          /\ before.value \in Nat /\ sum(w - 1) <= before.value
          /\ ~before.env.exhausted => before.value = sum(w - 1)
      BY <1>12
    <3>5. EnvHolds(before.env, m, ceiling, excluded) /\ before.env \in Env
      BY <3>4 DEF Carries, EnvHolds
    <3>6. /\ Carries(before.env, rest.env, m, ceiling, excluded)
          /\ Bounded(rest.value, value[child], Stop(m, child), rest.env.exhausted)
      BY <3>3, <3>5 DEF LevelHolds, value
    <3> HIDE DEF before, o, child, rest
    <3>7. Carries(env, f[w].env, m, ceiling, excluded)
      BY <3>1, <3>4, <3>6 DEF Carries
    <3>8. /\ rest.value \in Nat /\ v[o] <= rest.value
          /\ ~rest.env.exhausted => rest.value = v[o]
          /\ ~rest.env.exhausted => ~before.env.exhausted
      BY <3>3, <3>6 DEF Bounded, Carries
    <3>9. sum(w) = sum(w - 1) + v[o] /\ sum(w - 1) \in Nat /\ sum(w) \in Nat
      <4>1. IsFiniteSet(seen(w)) /\ IsFiniteSet(seen(w - 1))
        BY <1>2, <1>6, FS_Subset
      <4>2. /\ \A x \in seen(w) : v[x] \in Nat
            /\ \A x \in seen(w - 1) : v[x] \in Nat
        BY <1>3, <1>6
      <4>3. SumOf(v, seen(w)) = v[o] + SumOf(v, seen(w) \ {o})
        BY <3>2, <4>1, <4>2, SumWithout
      <4>4. seen(w) \ {o} = seen(w - 1)
        BY <3>2
      <4>5. SumOf(v, seen(w - 1)) \in Nat
        BY <4>1, <4>2, SumIsNat
      <4>6. SumOf(v, seen(w)) = v[o] + SumOf(v, seen(w - 1))
        BY <4>3, <4>4
      <4> QED
        BY <1>3, <3>3, <4>5, <4>6
    <3> HIDE DEF sum
    <3>10. /\ f[w].value \in Nat /\ sum(w) <= f[w].value
           /\ ~f[w].env.exhausted => f[w].value = sum(w)
      BY <3>1, <3>3, <3>4, <3>8, <3>9 DEF before
    <3> QED
      BY <3>7, <3>10
  <2> QED
    BY <2>2, <2>3
<1> DEFINE V == {w \in 0..WorldCount : Fair(f[w], w)}
<1> HIDE DEF Fair
<1>13. WorldCount \in Nat /\ 0 \in V /\ \A w \in 1..WorldCount : w - 1 \in V => w \in V
  BY <1>11, <1>12, PlanBounds
<1>14. WorldCount \in V
  <2> HIDE DEF V
  <2> QED
    BY <1>13, Upward
<1>15. Fair(f[WorldCount], WorldCount)
  BY <1>14
<1> QED
  BY <1>4, <1>6, <1>7, <1>15 DEF Fair, value

\* What an answer has: a value between the recursion and stopping, and a
\* probe just when that is better than stopping.  Unless the search was cut
\* short no candidate up to one is better, and what it lists is exact.
AnswerHolds(b, env, m, ceiling, excluded, h, node, upto) ==
  LET worth(p) == After(Bellman(m, excluded)[h - 1], m, node, p)
      C == Candidates(m, node, excluded)
  IN  /\ b = [value |-> b.value, probe |-> b.probe, values |-> b.values, env |-> b.env]
      /\ Carries(env, b.env, m, ceiling, excluded)
      /\ b.value \in Nat /\ Bellman(m, excluded)[h][node] <= b.value
      /\ \/ b.probe = NoProbe /\ b.value = Stop(m, node)
         \/ /\ b.probe \in C /\ b.value < Stop(m, node)
            /\ ~b.env.exhausted => b.value = worth(b.probe)
      /\ ~b.env.exhausted => /\ \A p \in C : p <= upto => b.value <= worth(p)
                             /\ \A listed \in b.values : listed[2] = worth(listed[1])

\* Once all candidates were compared the value is that of the recursion.
LEMMA AnswerIsExact ==
  ASSUME NEW m \in Models, NEW excluded \in SUBSET Probes, NEW ceiling \in Ceilings,
         NEW h \in 0..MaxHorizon, NEW node \in Node, NEW env, NEW b,
         IF h = 0 THEN b.value = Stop(m, node) /\ Carries(env, b.env, m, ceiling, excluded)
         ELSE AnswerHolds(b, env, m, ceiling, excluded, h, node, ProbeCount)
  PROVE  Bounded(b.value, Bellman(m, excluded)[h][node], Stop(m, node), b.env.exhausted)
<1> DEFINE value == Bellman(m, excluded)[h][node]
           worth(p) == After(Bellman(m, excluded)[h - 1], m, node, p)
           C == Candidates(m, node, excluded)
<1>1. LeastOf(value, m, excluded, h, Bellman(m, excluded)[h - 1], node)
  BY BellmanHolds
<1> DEFINE stop == Stop(m, node)
<1>2. /\ value \in Nat /\ value <= stop
      /\ h > 0 => \A p \in C : worth(p) \in Nat /\ value <= worth(p)
      /\ value = stop \/ (h > 0 /\ \E p \in C : value = worth(p))
  BY <1>1 DEF LeastOf
<1>3. stop \in Nat
  BY StopIs
<1>4. \A p \in C : p \in Nat /\ p <= ProbeCount
  BY PlanBounds DEF Candidates, Probes
<1>5. CASE h = 0
  <2>1. b.value = stop
    BY <1>5
  <2> HIDE DEF value, stop
  <2>2. value = stop
    BY <1>2, <1>5
  <2> QED
    BY <1>3, <2>1, <2>2 DEF Bounded, value, stop
<1>6. CASE h # 0
  <2>1. h > 0 /\ h \in Nat
    BY <1>6, PlanBounds
  <2>2. /\ b.value \in Nat /\ value <= b.value
        /\ b.value = stop \/ b.value < stop
        /\ ~b.env.exhausted => \A p \in C : p <= ProbeCount => b.value <= worth(p)
    BY <1>6 DEF AnswerHolds
  <2> HIDE DEF value, worth, C, stop
  <2>3. b.value <= stop
    BY <1>3, <2>2
  <2>4. ASSUME ~b.env.exhausted PROVE b.value = value
    <3>1. CASE value = stop
      BY <1>3, <2>2, <2>3, <3>1
    <3>2. CASE \E p \in C : value = worth(p)
      <4>1. PICK p \in C : value = worth(p)
        BY <3>2
      <4>2. b.value <= worth(p)
        BY <1>4, <2>2, <2>4
      <4> QED
        BY <1>2, <2>2, <4>1, <4>2
    <3> QED
      BY <1>2, <3>1, <3>2
  <2> QED
    BY <2>2, <2>3, <2>4 DEF Bounded, value, stop
<1> QED
  BY <1>5, <1>6

\* The candidates are compared soundly.
LEMMA BestHolds ==
  ASSUME NEW m \in Models, NEW excluded \in SUBSET Probes, NEW ceiling \in Ceilings,
         NEW h \in 1..MaxHorizon, NEW below, LevelHolds(below, h - 1, m, ceiling, excluded),
         NEW node \in Node, NEW env, EnvHolds(env, m, ceiling, excluded)
  PROVE  AnswerHolds(Best(below, m, node, excluded, env), env,
                     m, ceiling, excluded, h, node, ProbeCount)
<1> DEFINE value == Bellman(m, excluded)[h][node]
           worth(p) == After(Bellman(m, excluded)[h - 1], m, node, p)
           C == Candidates(m, node, excluded)
           stop == Stop(m, node)
           Holds(b, p) == AnswerHolds(b, env, m, ceiling, excluded, h, node, p)
<1>0. h \in 0..MaxHorizon /\ h > 0 /\ ProbeCount \in Nat
  BY PlanBounds
<1>1. LeastOf(value, m, excluded, h, Bellman(m, excluded)[h - 1], node)
  BY <1>0, BellmanHolds
<1>2. /\ value \in Nat /\ value <= stop
      /\ \A p \in C : worth(p) \in Nat /\ value <= worth(p)
  BY <1>0, <1>1 DEF LeastOf
<1>3. stop \in Nat
  BY StopIs
<1>4. \A p \in C : p \in Nat /\ p >= 1
  BY PlanBounds DEF Candidates, Probes
<1> DEFINE Is(b) == b = [value |-> b.value, probe |-> b.probe, values |-> b.values,
                         env |-> b.env]
<1>5. \A b, p : Holds(b, p) <=>
        /\ Is(b)
        /\ Carries(env, b.env, m, ceiling, excluded)
        /\ b.value \in Nat /\ value <= b.value
        /\ \/ b.probe = NoProbe /\ b.value = stop
           \/ /\ b.probe \in C /\ b.value < stop
              /\ ~b.env.exhausted => b.value = worth(b.probe)
        /\ ~b.env.exhausted => /\ \A q \in C : q <= p => b.value <= worth(q)
                               /\ \A listed \in b.values : listed[2] = worth(listed[1])
  BY DEF AnswerHolds
<1>6. PICK f : /\ f[0] = Answer(Stop(m, node), env)
               /\ \A p \in 1..ProbeCount : f[p] = Compare(below, m, node, excluded, p, f[p - 1])
               /\ Best(below, m, node, excluded, env) = f[ProbeCount]
  BY BestIs
<1> DEFINE V == {p \in 0..ProbeCount : Holds(f[p], p)}
<1>7. Holds(f[0], 0)
  <2>1. f[0].value = stop /\ f[0].probe = NoProbe /\ f[0].values = {} /\ f[0].env = env
    BY <1>6 DEF Answer
  <2>2. Carries(env, f[0].env, m, ceiling, excluded)
    BY <2>1 DEF Carries
  <2>4. Is(f[0])
    BY <1>6 DEF Answer
  <2> HIDE DEF value, worth, C, stop, Holds, Is
  <2>3. \A q \in C : ~(q <= 0)
    BY <1>4
  <2> QED
    BY <1>2, <1>3, <1>5, <2>1, <2>2, <2>3, <2>4
<1>8. ASSUME NEW p \in 1..ProbeCount, Holds(f[p - 1], p - 1) PROVE Holds(f[p], p)
  <2> DEFINE b == f[p - 1]
             t == Try(below, m, node, p, b.env)
  <2>1. f[p] = Compare(below, m, node, excluded, p, b)
    BY <1>6
  <2>2. /\ Is(b)
        /\ Carries(env, b.env, m, ceiling, excluded)
        /\ b.value \in Nat /\ value <= b.value
        /\ \/ b.probe = NoProbe /\ b.value = stop
           \/ /\ b.probe \in C /\ b.value < stop
              /\ ~b.env.exhausted => b.value = worth(b.probe)
        /\ ~b.env.exhausted => /\ \A q \in C : q <= p - 1 => b.value <= worth(q)
                               /\ \A listed \in b.values : listed[2] = worth(listed[1])
    BY <1>8 DEF AnswerHolds
  <2>3. \A q \in C : q <= p => q <= p - 1 \/ q = p
    BY <1>4
  <2>4. CASE p \notin C
    <3>1. f[p] = b
      BY <2>1, <2>4 DEF Compare
    <3>2. \A q \in C : q <= p => q <= p - 1
      BY <2>3, <2>4
    <3> HIDE DEF value, worth, C, stop, Holds, b, Is
    <3> QED
      BY <1>5, <2>2, <3>1, <3>2
  <2>5. CASE p \in C
    <3>1. f[p] = [value |-> IF t.value < b.value THEN t.value ELSE b.value,
                  probe |-> IF t.value < b.value THEN p ELSE b.probe,
                  values |-> b.values \cup {<<p, t.value>>},
                  env |-> t.env]
      BY <2>1, <2>5 DEF Compare
    <3>2. EnvHolds(b.env, m, ceiling, excluded)
      BY <2>2 DEF Carries
    <3>3. /\ Carries(b.env, t.env, m, ceiling, excluded)
          /\ t.value \in Nat /\ worth(p) <= t.value
          /\ ~t.env.exhausted => t.value = worth(p)
      BY <2>5, <3>2, TryHolds
    <3>4. /\ Carries(env, t.env, m, ceiling, excluded)
          /\ ~t.env.exhausted => ~b.env.exhausted
      BY <2>2, <3>3 DEF Carries
    <3> DEFINE c == f[p]
    <3>13. Is(c)
      BY <3>1
    <3> HIDE DEF Is
    <3> HIDE DEF value, worth, C, stop, Holds, b, t, V
    <3>5. /\ c.value = IF t.value < b.value THEN t.value ELSE b.value
          /\ c.probe = IF t.value < b.value THEN p ELSE b.probe
          /\ c.values = b.values \cup {<<p, t.value>>}
          /\ c.env = t.env
      BY <3>1
    <3> HIDE DEF c
    <3>6. worth(p) \in Nat /\ value <= worth(p)
      BY <1>2, <2>5
    <3>7. b.value <= stop
      BY <1>3, <2>2
    <3>8. /\ c.value \in Nat /\ value <= c.value /\ c.value <= b.value
          /\ c.value <= t.value
      BY <1>2, <2>2, <3>3, <3>5, <3>6
    <3>9. \/ c.probe = NoProbe /\ c.value = stop
          \/ /\ c.probe \in C /\ c.value < stop
             /\ ~c.env.exhausted => c.value = worth(c.probe)
      <4>1. CASE t.value < b.value
        <5>1. c.value = t.value /\ c.probe = p /\ c.env = t.env
          BY <3>5, <4>1
        <5>2. t.value < stop
          BY <1>3, <2>2, <3>3, <3>7, <4>1
        <5> QED
          BY <2>5, <3>3, <5>1, <5>2
      <4>2. CASE ~(t.value < b.value)
        <5>1. c.value = b.value /\ c.probe = b.probe /\ c.env = t.env
          BY <3>5, <4>2
        <5> QED
          BY <2>2, <3>4, <5>1
      <4> QED
        BY <4>1, <4>2
    <3>10. ASSUME ~c.env.exhausted
           PROVE  /\ \A q \in C : q <= p => c.value <= worth(q)
                  /\ \A listed \in c.values : listed[2] = worth(listed[1])
      <4>1. ~t.env.exhausted /\ ~b.env.exhausted /\ t.value = worth(p)
        BY <3>3, <3>4, <3>5, <3>10
      <4>2. ASSUME NEW q \in C, q <= p PROVE c.value <= worth(q)
        <5>1. CASE q = p
          BY <3>8, <4>1, <5>1
        <5>2. CASE q # p
          <6>1. b.value <= worth(q) /\ worth(q) \in Nat
            BY <1>2, <2>2, <2>3, <4>1, <4>2, <5>2
          <6> QED
            BY <2>2, <3>8, <6>1
        <5> QED
          BY <5>1, <5>2
      <4>3. ASSUME NEW listed \in c.values PROVE listed[2] = worth(listed[1])
        <5>1. CASE listed \in b.values
          BY <2>2, <4>1, <5>1
        <5>2. CASE listed = <<p, t.value>>
          <6>1. listed[1] = p /\ listed[2] = t.value
            BY <5>2
          <6> QED
            BY <4>1, <6>1
        <5> QED
          BY <3>5, <5>1, <5>2
      <4> QED
        BY <4>2, <4>3
    <3>11. Carries(env, c.env, m, ceiling, excluded)
      BY <3>4, <3>5
    <3>12. Holds(c, p)
      BY <1>5, <3>8, <3>9, <3>10, <3>11, <3>13
    <3> QED
      BY <3>12 DEF c
  <2> QED
    BY <2>4, <2>5
<1>9. 0 \in V /\ \A p \in 1..ProbeCount : p - 1 \in V => p \in V
  <2>1. 0 \in 0..ProbeCount /\ \A p \in 1..ProbeCount : p \in 0..ProbeCount
    BY <1>0
  <2> HIDE DEF Holds
  <2> QED
    BY <1>7, <1>8, <2>1
<1>10. ProbeCount \in V
  <2>1. 0..ProbeCount \subseteq V
    <3> HIDE DEF V
    <3> QED
      BY <1>0, <1>9, Upward
  <2> HIDE DEF V
  <2> QED
    BY <1>0, <2>1
<1> QED
  BY <1>6, <1>10

\* A value that is sound goes into the memo.
LEMMA NotedHolds ==
  ASSUME NEW m \in Models, NEW excluded \in SUBSET Probes, NEW ceiling \in Ceilings,
         NEW h \in 0..MaxHorizon, NEW node \in Node, NEW e, EnvHolds(e, m, ceiling, excluded),
         NEW v, Bounded(v, Bellman(m, excluded)[h][node], Stop(m, node), e.exhausted)
  PROVE  LET n == Noted(e, node, h, v)
         IN  /\ EnvHolds(n, m, ceiling, excluded)
             /\ n.used = e.used /\ n.exhausted = e.exhausted
<1> DEFINE new == [node |-> node, horizon |-> h, value |-> v]
           n == Noted(e, node, h, v)
<1>1. e \in Env /\ v \in Nat
  BY DEF EnvHolds, Bounded
<1>2. n = [e EXCEPT !.memo = @ \cup {new}]
  BY DEF Noted, Key
<1>3. new \in [node : Node, horizon : 0..MaxHorizon, value : Nat]
  BY <1>1
<1>4. new.node = node /\ new.horizon = h /\ new.value = v
  OBVIOUS
<1> HIDE DEF new, n
<1>5. /\ n \in Env
      /\ n.memo = e.memo \cup {new} /\ n.used = e.used /\ n.exhausted = e.exhausted
  BY <1>1, <1>2, <1>3 DEF Env
<1> DEFINE Sound(x) == Bounded(x.value, Bellman(m, excluded)[x.horizon][x.node],
                               Stop(m, x.node), e.exhausted)
<1>6. e.used <= ceiling /\ (e.exhausted => e.used = ceiling) /\ \A x \in e.memo : Sound(x)
  BY DEF EnvHolds
<1>7. Sound(new)
  BY <1>4
<1>8. EnvHolds(n, m, ceiling, excluded) <=>
        /\ n \in Env /\ e.used <= ceiling
        /\ e.exhausted => e.used = ceiling
        /\ \A x \in n.memo : Sound(x)
  BY <1>5 DEF EnvHolds
<1> HIDE DEF Sound
<1>9. \A x \in n.memo : Sound(x)
  BY <1>5, <1>6, <1>7
<1> QED
  BY <1>5, <1>6, <1>8, <1>9 DEF n

\* A search of a node is sound, when those of one less are.
LEMMA VisitHolds ==
  ASSUME NEW m \in Models, NEW excluded \in SUBSET Probes, NEW ceiling \in Ceilings,
         NEW h \in 0..MaxHorizon,
         NEW below, h > 0 => LevelHolds(below, h - 1, m, ceiling, excluded),
         NEW node \in Node, NEW env, EnvHolds(env, m, ceiling, excluded)
  PROVE  LET r == Visit(below, m, ceiling, excluded, h, node, env)
         IN  /\ Carries(env, r.env, m, ceiling, excluded)
             /\ Bounded(r.value, Bellman(m, excluded)[h][node], Stop(m, node), r.env.exhausted)
<1> DEFINE value == Bellman(m, excluded)[h][node]
           stop == Stop(m, node)
           noted == Memo(env, node, h)
           Sound(r) == /\ Carries(env, r.env, m, ceiling, excluded)
                       /\ Bounded(r.value, value, stop, r.env.exhausted)
           stopped(e) == Answer(stop, Noted(e, node, h, stop))
           cut == [env EXCEPT !.exhausted = TRUE]
           counted == [env EXCEPT !.used = @ + 1]
           best == Best(below, m, node, excluded, counted)
           r == Visit(below, m, ceiling, excluded, h, node, env)
<1>1. value \in Nat /\ value <= stop /\ (h = 0 => value = stop)
  <2>1. LeastOf(value, m, excluded, h, Bellman(m, excluded)[h - 1], node)
    BY BellmanHolds
  <2> QED
    BY <2>1 DEF LeastOf
<1>2. stop \in Nat
  BY StopIs
<1>3. env \in Env /\ env.used <= ceiling /\ ceiling \in Nat /\ env.used \in Nat
  BY PlanBounds DEF EnvHolds, Env
<1>4. \A v, x : Answer(v, x).value = v /\ Answer(v, x).env = x
  BY DEF Answer
<1>5. ASSUME NEW e, Carries(env, e, m, ceiling, excluded), h = 0 \/ e.exhausted
      PROVE  Sound(stopped(e))
  <2>1. Bounded(stop, value, stop, e.exhausted) /\ EnvHolds(e, m, ceiling, excluded)
    BY <1>1, <1>2, <1>5 DEF Bounded, Carries
  <2> DEFINE n == Noted(e, node, h, stop)
  <2>2. EnvHolds(n, m, ceiling, excluded) /\ n.exhausted = e.exhausted
    BY <2>1, NotedHolds
  <2> DEFINE s == stopped(e)
  <2>3. s.value = stop /\ s.env = n
    BY <1>4
  <2> HIDE DEF s, n, stop, value
  <2>4. Carries(env, n, m, ceiling, excluded)
    BY <1>5, <2>2 DEF Carries
  <2>5. Sound(s)
    BY <2>1, <2>2, <2>3, <2>4
  <2> QED
    BY <2>5 DEF s
<1>6. CASE noted # {}
  <2>1. PICK n \in noted : r = Answer(n.value, env)
    BY <1>6 DEF Visit
  <2>2. n \in env.memo /\ n.node = node /\ n.horizon = h
    BY <2>1 DEF Memo, Key
  <2>3. Bounded(n.value, value, stop, env.exhausted)
    BY <2>2 DEF EnvHolds
  <2>4. r.value = n.value /\ r.env = env
    BY <1>4, <2>1
  <2> QED
    BY <2>3, <2>4 DEF Carries
<1>7. CASE noted = {} /\ (h = 0 \/ env.exhausted)
  <2>1. r = stopped(env)
    BY <1>7 DEF Visit
  <2>2. Carries(env, env, m, ceiling, excluded)
    BY DEF Carries
  <2> HIDE DEF r, stopped, Sound
  <2>3. Sound(r)
    BY <1>5, <1>7, <2>1, <2>2
  <2> QED
    BY <2>3 DEF Sound, r
<1>8. CASE noted = {} /\ ~(h = 0 \/ env.exhausted) /\ CeilingMet(env, ceiling)
  <2>1. r = stopped(cut)
    BY <1>8 DEF Visit
  <2>2. cut \in Env /\ cut.memo = env.memo /\ cut.used = env.used /\ cut.exhausted
    BY <1>3 DEF Env
  <2>3. cut.used = ceiling
    BY <1>3, <1>8, <2>2 DEF CeilingMet
  <2> HIDE DEF r, stopped, Sound, cut
  <2>4. EnvHolds(cut, m, ceiling, excluded)
    <3>1. \A x \in env.memo :
            Bounded(x.value, Bellman(m, excluded)[x.horizon][x.node], Stop(m, x.node),
                    env.exhausted)
      BY DEF EnvHolds
    <3>2. \A x \in cut.memo :
            Bounded(x.value, Bellman(m, excluded)[x.horizon][x.node], Stop(m, x.node),
                    cut.exhausted)
      BY <2>2, <3>1 DEF Bounded
    <3>3. ceiling <= ceiling
      BY <1>3
    <3> QED
      BY <2>2, <2>3, <3>2, <3>3 DEF EnvHolds
  <2>5. Carries(env, cut, m, ceiling, excluded)
    BY <2>2, <2>4 DEF Carries
  <2>6. Sound(r)
    BY <1>5, <2>1, <2>2, <2>5
  <2> QED
    BY <2>6 DEF Sound, r
<1>9. CASE noted = {} /\ ~(h = 0 \/ env.exhausted) /\ ~CeilingMet(env, ceiling)
  <2>1. r = [best EXCEPT !.env = Noted(@, node, h, best.value)]
    BY <1>9 DEF Visit
  <2>2. h \in 1..MaxHorizon /\ LevelHolds(below, h - 1, m, ceiling, excluded)
    BY <1>9
  <2>3. EnvHolds(counted, m, ceiling, excluded) /\ counted.exhausted = env.exhausted
    <3>1. /\ counted \in Env /\ counted.memo = env.memo
          /\ counted.used = env.used + 1 /\ counted.exhausted = env.exhausted
      BY <1>3 DEF Env
    <3> HIDE DEF counted
    <3>2. counted.used <= ceiling
      BY <1>3, <1>9, <3>1 DEF CeilingMet
    <3>3. \A x \in env.memo :
            Bounded(x.value, Bellman(m, excluded)[x.horizon][x.node], Stop(m, x.node),
                    env.exhausted)
      BY DEF EnvHolds
    <3> QED
      BY <1>9, <3>1, <3>2, <3>3 DEF EnvHolds
  <2> HIDE DEF counted
  <2>4. AnswerHolds(best, counted, m, ceiling, excluded, h, node, ProbeCount)
    BY <2>2, <2>3, BestHolds
  <2>5. Bounded(best.value, value, stop, best.env.exhausted)
    <3>1. h # 0
      BY <2>2
    <3> HIDE DEF best
    <3> QED
      BY <2>4, <3>1, AnswerIsExact
  <2> DEFINE e == best.env
             n == Noted(e, node, h, best.value)
  <2>6. Carries(counted, e, m, ceiling, excluded)
    BY <2>4 DEF AnswerHolds
  <2>7. EnvHolds(n, m, ceiling, excluded) /\ n.exhausted = e.exhausted
    BY <2>5, <2>6, NotedHolds DEF Carries
  <2>8. best = [value |-> best.value, probe |-> best.probe, values |-> best.values, env |-> e]
    BY <2>4 DEF AnswerHolds
  <2> HIDE DEF best, r, n, value, stop
  <2>9. r.value = best.value /\ r.env = n
    <3> HIDE DEF e
    <3>1. r = [best EXCEPT !.env = n]
      BY <2>1, <2>8 DEF e, n
    <3> QED
      BY <2>8, <3>1
  <2>10. Carries(env, n, m, ceiling, excluded)
    BY <2>3, <2>6, <2>7 DEF Carries
  <2> HIDE DEF e
  <2>11. Bounded(best.value, value, stop, n.exhausted)
    BY <2>5, <2>7 DEF e
  <2>12. Sound(r)
    BY <2>9, <2>10, <2>11
  <2> QED
    BY <2>12 DEF r, value, stop
<1> QED
  BY <1>6, <1>7, <1>8, <1>9

\* So the searches of every horizon are sound.
LEMMA SearchesHold ==
  ASSUME NEW m \in Models, NEW excluded \in SUBSET Probes, NEW ceiling \in Ceilings
  PROVE  \A h \in 0..MaxHorizon :
           LevelHolds(Searches(m, ceiling, excluded)[h], h, m, ceiling, excluded)
<1> DEFINE f == Searches(m, ceiling, excluded)
           V == {h \in 0..MaxHorizon : LevelHolds(f[h], h, m, ceiling, excluded)}
<1>1. /\ f[0] = Level(<<>>, m, ceiling, excluded, 0)
      /\ \A h \in 1..MaxHorizon : f[h] = Level(f[h - 1], m, ceiling, excluded, h)
  BY SearchIs
<1> HIDE DEF f
<1>2. MaxHorizon \in Nat /\ 0 \in 0..MaxHorizon
  BY PlanBounds
<1>3. ASSUME NEW h \in 0..MaxHorizon, NEW below,
             h > 0 => LevelHolds(below, h - 1, m, ceiling, excluded)
      PROVE  LevelHolds(Level(below, m, ceiling, excluded, h), h, m, ceiling, excluded)
  <2> DEFINE level == Level(below, m, ceiling, excluded, h)
  <2> SUFFICES ASSUME NEW node \in Node, NEW env \in Env, EnvHolds(env, m, ceiling, excluded)
               PROVE  LET r == level[[node |-> node, env |-> env]]
                      IN  /\ Carries(env, r.env, m, ceiling, excluded)
                          /\ Bounded(r.value, Bellman(m, excluded)[h][node], Stop(m, node),
                                     r.env.exhausted)
    BY DEF LevelHolds
  <2>1. level[[node |-> node, env |-> env]] = Visit(below, m, ceiling, excluded, h, node, env)
    BY DEF Level
  <2> HIDE DEF level
  <2> QED
    BY <1>3, <2>1, VisitHolds
<1>4. 0 \in V
  <2>1. LevelHolds(Level(<<>>, m, ceiling, excluded, 0), 0, m, ceiling, excluded)
    BY <1>2, <1>3
  <2> QED
    BY <1>1, <1>2, <2>1
<1>5. ASSUME NEW h \in 1..MaxHorizon, h - 1 \in V PROVE h \in V
  <2>1. h \in 0..MaxHorizon /\ LevelHolds(f[h - 1], h - 1, m, ceiling, excluded)
    BY <1>2, <1>5
  <2>2. LevelHolds(Level(f[h - 1], m, ceiling, excluded, h), h, m, ceiling, excluded)
    BY <1>3, <2>1
  <2> QED
    BY <1>1, <2>1, <2>2
<1>6. 0..MaxHorizon \subseteq V
  <2> HIDE DEF V
  <2> QED
    BY <1>2, <1>4, <1>5, Upward
<1> QED
  BY <1>6 DEF f

\* What a plan has, where it begins.
PlanHolds(b, m, ceiling, excluded, h, node) ==
  LET worth(p) == After(Bellman(m, excluded)[h - 1], m, node, p)
  IN  /\ Bounded(b.value, Bellman(m, excluded)[h][node], Stop(m, node), b.env.exhausted)
      /\ b.env.used <= ceiling
      /\ b.env.exhausted => b.env.used = ceiling
      /\ \/ b.probe = NoProbe /\ b.value = Stop(m, node)
         \/ /\ b.probe \in Candidates(m, node, excluded) /\ b.value < Stop(m, node)
            /\ ~b.env.exhausted => b.value = worth(b.probe)
      /\ ~b.env.exhausted => \A listed \in b.values : listed[2] = worth(listed[1])

LEMMA PlanIsSound ==
  ASSUME NEW m \in Models, NEW excluded \in SUBSET Probes, NEW ceiling \in Ceilings,
         NEW h \in 0..MaxHorizon, NEW node \in Node
  PROVE  PlanHolds(Plan(m, ceiling, excluded, h)[[node |-> node, env |-> NewEnv]],
                   m, ceiling, excluded, h, node)
<1> DEFINE f == Searches(m, ceiling, excluded)
           below == IF h = 0 THEN <<>> ELSE f[h - 1]
           b == Visit(below, m, ceiling, excluded, h, node, NewEnv)
           stop == Stop(m, node)
           value == Bellman(m, excluded)[h][node]
<1>0. h = 0 \/ (h \in 1..MaxHorizon /\ h - 1 \in 0..MaxHorizon /\ h # 0)
  BY PlanBounds
<1>1. f[h] = Level(below, m, ceiling, excluded, h) /\ Plan(m, ceiling, excluded, h) = f[h]
  BY <1>0, SearchIs
<1>2. h > 0 => LevelHolds(below, h - 1, m, ceiling, excluded)
  <2>1. h > 0 => h # 0 /\ h - 1 \in 0..MaxHorizon
    BY <1>0
  <2> HIDE DEF f
  <2> QED
    BY <2>1, SearchesHold DEF f
<1> HIDE DEF below
<1>3. /\ NewEnv \in Env /\ NewEnv.memo = {} /\ NewEnv.used = 0 /\ ~NewEnv.exhausted
      /\ ceiling \in Nat /\ ceiling > 0
  BY PlanBounds DEF NewEnv, Env
<1>4. EnvHolds(NewEnv, m, ceiling, excluded)
  BY <1>3 DEF EnvHolds
<1>5. Plan(m, ceiling, excluded, h)[[node |-> node, env |-> NewEnv]] = b
  BY <1>1, <1>3 DEF Level
<1>6. /\ Carries(NewEnv, b.env, m, ceiling, excluded)
      /\ Bounded(b.value, value, stop, b.env.exhausted)
  BY <1>2, <1>4, VisitHolds
<1>7. b.env.used <= ceiling /\ (b.env.exhausted => b.env.used = ceiling)
  BY <1>6 DEF Carries, EnvHolds
<1>8. Memo(NewEnv, node, h) = {} /\ ~CeilingMet(NewEnv, ceiling)
  BY <1>3 DEF Memo, CeilingMet
<1>9. CASE h = 0
  <2>1. b = Answer(stop, Noted(NewEnv, node, h, stop))
    BY <1>8, <1>9 DEF Visit
  <2>2. b.value = stop /\ b.probe = NoProbe /\ b.values = {}
    BY <2>1 DEF Answer
  <2> QED
    BY <1>5, <1>6, <1>7, <2>2 DEF PlanHolds
<1>10. CASE h # 0
  <2> DEFINE counted == [NewEnv EXCEPT !.used = @ + 1]
             best == Best(below, m, node, excluded, counted)
             n == Noted(best.env, node, h, best.value)
  <2>0. h \in 1..MaxHorizon /\ LevelHolds(below, h - 1, m, ceiling, excluded)
    BY <1>0, <1>2, <1>10
  <2>1. b = [best EXCEPT !.env = n]
    BY <1>3, <1>8, <1>10 DEF Visit
  <2>2. EnvHolds(counted, m, ceiling, excluded)
    <3>1. /\ counted \in Env /\ counted.memo = {} /\ counted.used = 1 /\ ~counted.exhausted
      BY <1>3 DEF Env
    <3> HIDE DEF counted
    <3> QED
      BY <1>3, <3>1 DEF EnvHolds
  <2> HIDE DEF counted
  <2>3. AnswerHolds(best, counted, m, ceiling, excluded, h, node, ProbeCount)
    BY <2>0, <2>2, BestHolds
  <2>4. best = [value |-> best.value, probe |-> best.probe, values |-> best.values,
                env |-> best.env]
    BY <2>3 DEF AnswerHolds
  <2>5. n.exhausted = best.env.exhausted
    <3>1. best.env \in Env
      BY <2>3 DEF AnswerHolds, Carries, EnvHolds
    <3> HIDE DEF best
    <3> QED
      BY <3>1 DEF Noted, Env
  <2> HIDE DEF best, n, b
  <2>6. b.value = best.value /\ b.probe = best.probe /\ b.values = best.values /\ b.env = n
    BY <2>1, <2>4
  <2> DEFINE worth(p) == After(Bellman(m, excluded)[h - 1], m, node, p)
             C == Candidates(m, node, excluded)
  <2>7. /\ \/ best.probe = NoProbe /\ best.value = stop
           \/ /\ best.probe \in C /\ best.value < stop
              /\ ~best.env.exhausted => best.value = worth(best.probe)
        /\ ~best.env.exhausted => \A listed \in best.values : listed[2] = worth(listed[1])
    BY <2>3 DEF AnswerHolds
  <2> HIDE DEF worth, C, stop, value
  <2>8. /\ \/ b.probe = NoProbe /\ b.value = stop
           \/ /\ b.probe \in C /\ b.value < stop
              /\ ~b.env.exhausted => b.value = worth(b.probe)
        /\ ~b.env.exhausted => \A listed \in b.values : listed[2] = worth(listed[1])
    BY <2>5, <2>6, <2>7
  <2>9. PlanHolds(b, m, ceiling, excluded, h, node)
    BY <1>6, <1>7, <2>8 DEF PlanHolds, worth, C, stop, value
  <2> QED
    BY <1>5, <2>9 DEF b
<1> QED
  BY <1>9, <1>10

\* What one plan after the other rests on: an episode and its last plan.
PlanInv == PlanTypeOK /\ posterior \in SUBSET Worlds /\ PlansHold

LEMMA PlanStarts == PlanInit => PlanInv
<1> SUFFICES ASSUME PlanInit PROVE PlanInv
  OBVIOUS
<1>1. model \in Models /\ posterior = Worlds /\ satisfied = {} /\ plan = NoPlan
  BY DEF PlanInit
<1>2. Worlds # {}
  BY PlanBounds DEF Worlds
<1>3. PlanTypeOK
  BY <1>1, <1>2 DEF PlanTypeOK
<1>4. PlansHold
  BY <1>1 DEF PlansHold, ExactIsBellman, CutShortIsConservative
<1> QED
  BY <1>1, <1>3, <1>4 DEF PlanInv

\* An observation starts over without a plan.
LEMMA ObserveKeeps == ASSUME PlanInv, NEW p \in Probes, Observe(p) PROVE PlanInv'
<1>1. plan' = NoPlan /\ model' = model /\ model \in Models /\ posterior \subseteq Worlds
  BY DEF Observe, PlanInv, PlanTypeOK
<1>2. PICK o \in OutcomesOf(model, posterior, p) :
        /\ posterior' = Split(model, posterior, p, o)
        /\ satisfied' = satisfied \cup {<<p, o>>}
  BY DEF Observe
<1>3. PICK w \in posterior : o = model.table[p][w]
  BY DEF OutcomesOf
<1>4. o \in OutcomeIds
  <2>1. ClosedModel(model)
    BY <1>1, ModelsAreClosed
  <2> QED
    BY <1>1, <1>3, <2>1 DEF ClosedModel
<1>5. posterior' # {}
  BY <1>2, <1>3 DEF Split
<1>6. /\ posterior = {x \in Worlds : \A pair \in satisfied : model.table[pair[1]][x] = pair[2]}
      /\ satisfied \subseteq Probes \X OutcomeIds
  BY DEF PlanInv, PlanTypeOK
<1>7. posterior' = {x \in Worlds : \A pair \in satisfied' : model'.table[pair[1]][x] = pair[2]}
  <2>1. posterior' = {x \in posterior : model.table[p][x] = o}
    BY <1>2 DEF Split
  <2>2. \A x : (\A pair \in satisfied' : model.table[pair[1]][x] = pair[2])
                 <=> /\ \A pair \in satisfied : model.table[pair[1]][x] = pair[2]
                     /\ model.table[p][x] = o
    <3> DEFINE Shows(pair, x) == model.table[pair[1]][x] = pair[2]
    <3>1. \A x : Shows(<<p, o>>, x) <=> model.table[p][x] = o
      OBVIOUS
    <3> HIDE DEF Shows
    <3>2. \A x : (\A pair \in satisfied' : Shows(pair, x))
                 <=> (\A pair \in satisfied : Shows(pair, x)) /\ Shows(<<p, o>>, x)
      BY <1>2
    <3> QED
      BY <3>1, <3>2 DEF Shows
  <2> QED
    BY <1>1, <1>6, <2>1, <2>2
<1>8. satisfied' \subseteq Probes \X OutcomeIds
  BY <1>2, <1>4, <1>6
<1>9. PlanTypeOK'
  BY <1>1, <1>5, <1>7, <1>8 DEF PlanTypeOK
<1>10. PlansHold'
  BY <1>1 DEF PlansHold, ExactIsBellman, CutShortIsConservative
<1>11. posterior' \in SUBSET Worlds
  BY <1>7
<1> QED
  BY <1>9, <1>10, <1>11 DEF PlanInv

\* A plan is sound where the episode stands.
LEMMA ProposeKeeps ==
  ASSUME PlanInv, NEW budget \in 0..MaxBudget, NEW horizon \in 0..MaxHorizon,
         NEW ceiling \in Ceilings, NEW excluded \in SUBSET Probes,
         Propose(budget, horizon, ceiling, excluded)
  PROVE  PlanInv'
<1> DEFINE node == Root(budget)
           b == Plan(model, ceiling, excluded, horizon)[[node |-> node, env |-> NewEnv]]
           decision == StopDecision(model, node)
           value == Bellman(model, excluded)[horizon][node]
           worth(p) == After(Bellman(model, excluded)[horizon - 1], model, node, p)
           stop == Stop(model, node)
<1>1. /\ model' = model /\ posterior' = posterior /\ satisfied' = satisfied
      /\ plan' = [budget |-> budget, horizon |-> horizon, ceiling |-> ceiling,
                  excluded |-> excluded, used |-> b.env.used, exhausted |-> b.env.exhausted,
                  value |-> b.value, probe |-> b.probe, values |-> b.values,
                  decision |-> decision]
  BY DEF Propose, episode
<1>2. model \in Models /\ posterior \in SUBSET Worlds /\ satisfied \subseteq Probes \X OutcomeIds
  BY DEF PlanInv, PlanTypeOK
<1>3. /\ node \in Node /\ node.worlds = posterior /\ node.pairs = satisfied
      /\ node.budget = budget
  BY <1>2 DEF Root, Node
<1>4. PlanHolds(b, model, ceiling, excluded, horizon, node)
  BY <1>2, <1>3, PlanIsSound
<1>5. /\ stop \in Nat /\ decision \in Admissible(model, satisfied)
      /\ Loss(model, posterior, decision) = stop
  BY <1>2, <1>3, StopIs
<1> HIDE DEF b, decision, node
<1>6. /\ plan'.budget = budget /\ plan'.horizon = horizon /\ plan'.ceiling = ceiling
      /\ plan'.excluded = excluded /\ plan'.used = b.env.used
      /\ plan'.exhausted = b.env.exhausted /\ plan'.value = b.value
      /\ plan'.probe = b.probe /\ plan'.values = b.values /\ plan'.decision = decision
  BY <1>1
<1>7. Root(plan.budget)' = node
  BY <1>1, <1>6 DEF Root, node
<1>8. Optimum' = value
  BY <1>1, <1>6, <1>7 DEF Optimum
<1>9. \A p : Worth(p)' = worth(p)
  BY <1>1, <1>6, <1>7 DEF Worth
<1>10. Stop(model, Root(plan.budget))' = stop
  BY <1>1, <1>7
<1>11. /\ Bounded(b.value, value, stop, b.env.exhausted)
       /\ b.env.used <= ceiling
       /\ b.env.exhausted => b.env.used = ceiling
       /\ \/ b.probe = NoProbe /\ b.value = stop
          \/ /\ b.probe \in Candidates(model, node, excluded) /\ b.value < stop
             /\ ~b.env.exhausted => b.value = worth(b.probe)
       /\ ~b.env.exhausted => \A listed \in b.values : listed[2] = worth(listed[1])
  BY <1>4 DEF PlanHolds
<1>12. \A p \in Candidates(model, node, excluded) :
         p \in Probes /\ p \notin ProbesOf(satisfied) \cup excluded /\ p # NoProbe
  BY <1>3, PlanBounds DEF Candidates, Probes, NoProbe
<1>13. decision \in Decisions /\ model.needs[decision] \subseteq satisfied
  BY <1>5 DEF Admissible
<1> HIDE DEF value, worth, stop
<1>14. b.value \in Nat /\ value <= b.value /\ b.value <= stop
       /\ (~b.env.exhausted => b.value = value)
  BY <1>11 DEF Bounded
<1>15. ExactIsBellman'
  <2> SUFFICES ASSUME ~b.env.exhausted
               PROVE  /\ b.value = value
                      /\ \A listed \in b.values : listed[2] = worth(listed[1])
                      /\ b.probe = NoProbe <=> value = stop
                      /\ b.probe # NoProbe => worth(b.probe) = value
    BY <1>6, <1>8, <1>9, <1>10 DEF ExactIsBellman
  <2>1. b.probe = NoProbe => b.value = stop
    BY <1>11, <1>12
  <2>2. b.probe # NoProbe => b.value < stop /\ b.value = worth(b.probe)
    BY <1>11
  <2> QED
    BY <1>5, <1>11, <1>14, <2>1, <2>2
<1>16. CutShortIsConservative'
  <2>1. Loss(model, posterior, plan.decision)' = stop
    BY <1>1, <1>5, <1>6 DEF stop
  <2> QED
    BY <1>1, <1>6, <1>8, <1>11, <1>12, <1>13, <1>14, <2>1 DEF CutShortIsConservative
<1>17. PlanTypeOK'
  <2>1. b.probe \in Probes \cup {NoProbe}
    BY <1>11, <1>12
  <2> QED
    BY <1>1, <1>6, <1>13, <2>1 DEF PlanInv, PlanTypeOK
<1> QED
  BY <1>1, <1>2, <1>15, <1>16, <1>17 DEF PlanInv, PlansHold

LEMMA PlanInductive == PlanInv /\ [PlanNext]_planning => PlanInv'
<1> SUFFICES ASSUME PlanInv, [PlanNext]_planning PROVE PlanInv'
  OBVIOUS
<1>1. ASSUME NEW p \in Probes, Observe(p) PROVE PlanInv'
  BY <1>1, ObserveKeeps
<1>2. ASSUME NEW budget \in 0..MaxBudget, NEW horizon \in 0..MaxHorizon,
             NEW ceiling \in Ceilings, NEW excluded \in SUBSET Probes,
             Propose(budget, horizon, ceiling, excluded)
      PROVE  PlanInv'
  BY <1>2, ProposeKeeps
<1>3. CASE UNCHANGED planning
  <2>1. /\ model' = model /\ posterior' = posterior /\ satisfied' = satisfied /\ plan' = plan
    BY <1>3 DEF planning, episode
  <2> QED
    BY <2>1 DEF PlanInv, PlanTypeOK, PlansHold, ExactIsBellman, CutShortIsConservative,
                Optimum, Worth, Root
<1> QED
  BY <1>1, <1>2, <1>3 DEF PlanNext

\* Whether its ceiling was reached or not, a plan claims what it may: exact,
\* it has the value of the recursion; cut short, it is between that and
\* stopping now (propose, propose_excluding).
THEOREM PlansHoldAlways == PlanSpec => []PlansHold
<1>1. PlanInv => PlansHold
  BY DEF PlanInv
<1> QED
  BY <1>1, PlanStarts, PlanInductive, PTL DEF PlanSpec

-----------------------------------------------------------------------------
(* The types of the memory.                                                 *)

\* An event that a step of the memory may record.
Datable(e) ==
  /\ e.id \in Name /\ e.at \in Instant /\ e.recorded = clock
  /\ e.kind = "SUPPORT_REVISION" =>
       e.extends \in DOMAIN events /\ events[e.extends].id = e.id

\* The event that a revision replaces is an earlier one of its claim.
LEMMA CurrentIs ==
  ASSUME MemoryInv, NEW id \in Named(events, "CLAIM")
  PROVE  Current(events, id) \in DOMAIN events /\ events[Current(events, id)].id = id
<1> DEFINE V == {i \in Of(events, "CLAIM") \cup Of(events, "SUPPORT_REVISION") : events[i].id = id}
<1>1. PICK S : events \in Seq(S)
  BY DEF MemoryInv
<1>2. DOMAIN events = 1..Len(events) /\ Len(events) \in Nat
  BY <1>1
<1>3. V \in SUBSET (1..Len(events)) /\ V # {}
  BY <1>2 DEF Named, Of
<1>4. Max(V) \in V
  BY <1>2, <1>3, LastPlace
<1> QED
  BY <1>2, <1>3, <1>4 DEF Current

LEMMA StepDates ==
  ASSUME MemoryInv, MemoryTypeOK, [MemoryNext]_memory
  PROVE  \/ \E e : Datable(e) /\ events' = Append(events, e) /\ clock' = clock
         \/ events' = events /\ clock' \in clock..MaxTime
<1>0. clock \in 0..MaxTime /\ MaxTime \in Nat
  BY MemoryBounds DEF MemoryTypeOK, Instant
<1>1. ASSUME NEW kind, NEW id \in Name, NEW at \in Instant, NEW expires, NEW supports, NEW extends,
             Record(Event(kind, id, at, expires, supports, extends)),
             kind = "SUPPORT_REVISION" =>
               extends \in DOMAIN events /\ events[extends].id = id
      PROVE  \E e : Datable(e) /\ events' = Append(events, e) /\ clock' = clock
  <2> DEFINE e == Event(kind, id, at, expires, supports, extends)
  <2>1. /\ e.id = id /\ e.at = at /\ e.recorded = clock /\ e.kind = kind /\ e.extends = extends
    BY DEF Event
  <2>2. events' = Append(events, e) /\ clock' = clock
    BY <1>1 DEF Record
  <2> HIDE DEF e
  <2> QED
    BY <1>1, <2>1, <2>2 DEF Datable
<1>2. ASSUME NEW id \in Name, NEW at \in Instant,
             AssertFact(id, at) \/ RevokeFact(id, at) \/ AssertClaim(id, at) \/ RevokeClaim(id, at)
      PROVE  \E e : Datable(e) /\ events' = Append(events, e) /\ clock' = clock
  <2>1. PICK kind, expires, supports :
          /\ kind \in {"FACT", "FACT_REVOCATION", "CLAIM", "CLAIM_REVOCATION"}
          /\ Record(Event(kind, id, at, expires, supports, 0))
    BY <1>2 DEF AssertFact, RevokeFact, AssertClaim, RevokeClaim
  <2> QED
    BY <1>1, <2>1
<1>3. ASSUME NEW id \in Name, NEW at \in Instant, ReviseSupport(id, at)
      PROVE  \E e : Datable(e) /\ events' = Append(events, e) /\ clock' = clock
  <2>1. PICK supports :
          Record(Event("SUPPORT_REVISION", id, at, Never, supports, Current(events, id)))
    BY <1>3 DEF ReviseSupport
  <2>2. Current(events, id) \in DOMAIN events /\ events[Current(events, id)].id = id
    BY <1>3, CurrentIs DEF ReviseSupport
  <2> QED
    BY <1>1, <2>1, <2>2
<1>4. ASSUME TimePasses PROVE events' = events /\ clock' \in clock..MaxTime
  BY <1>0, <1>4 DEF TimePasses
<1>5. ASSUME UNCHANGED memory PROVE events' = events /\ clock' \in clock..MaxTime
  BY <1>0, <1>5 DEF memory
<1> QED
  BY <1>2, <1>3, <1>4, <1>5 DEF MemoryNext

LEMMA MemoryTypesHold == MemorySpec => []MemoryTypeOK
<1>1. MemoryInit => MemoryTypeOK
  <2> SUFFICES ASSUME MemoryInit PROVE MemoryTypeOK
    OBVIOUS
  <2>1. DOMAIN events = {} /\ clock \in Instant
    BY MemoryBounds DEF MemoryInit, Instant
  <2> QED
    BY <2>1 DEF MemoryTypeOK
<1>2. MemoryInv /\ MemoryTypeOK /\ [MemoryNext]_memory => MemoryTypeOK'
  <2> SUFFICES ASSUME MemoryInv, MemoryTypeOK, [MemoryNext]_memory PROVE MemoryTypeOK'
    OBVIOUS
  <2>0. clock \in 0..MaxTime /\ MaxTime \in Nat
    BY MemoryBounds DEF MemoryTypeOK, Instant
  <2>1. PICK S : events \in Seq(S)
    BY DEF MemoryInv
  <2>2. DOMAIN events = 1..Len(events) /\ Len(events) \in Nat
    BY <2>1
  <2> DEFINE Good(h, i, c) ==
               /\ h[i].id \in Name /\ h[i].at \in Instant /\ h[i].recorded \in 0..c
               /\ i > 1 => h[i - 1].recorded <= h[i].recorded
               /\ h[i].kind = "SUPPORT_REVISION" =>
                    h[i].extends \in 1..(i - 1) /\ h[h[i].extends].id = h[i].id
  <2>3. \A i \in DOMAIN events : Good(events, i, clock)
    BY DEF MemoryTypeOK
  <2>4. ASSUME clock' \in Instant, \A i \in DOMAIN events' : Good(events', i, clock')
        PROVE  MemoryTypeOK'
    BY <2>4 DEF MemoryTypeOK
  <2>5. CASE events' = events /\ clock' \in clock..MaxTime
    <3>1. clock' \in Instant /\ clock <= clock'
      BY <2>0, <2>5 DEF Instant
    <3>2. \A n \in 0..clock : n \in 0..clock'
      BY <2>0, <3>1 DEF Instant
    <3>3. \A i \in DOMAIN events' : Good(events', i, clock')
      BY <2>3, <2>5, <3>2
    <3> QED
      BY <2>4, <3>1, <3>3
  <2>6. ASSUME NEW e, Datable(e), events' = Append(events, e), clock' = clock
        PROVE  MemoryTypeOK'
    <3> DEFINE n == Len(events) + 1
               h == events'
    <3>1. /\ n \notin DOMAIN events /\ DOMAIN h = DOMAIN events \cup {n} /\ h[n] = e
          /\ \A i \in DOMAIN events : h[i] = events[i]
      BY <2>1, <2>6, Appended
    <3>2. ASSUME NEW i \in DOMAIN events PROVE Good(h, i, clock)
      <4>1. Good(events, i, clock) /\ h[i] = events[i]
        BY <2>3, <3>1
      <4>2. i > 1 => i - 1 \in DOMAIN events /\ h[i - 1] = events[i - 1]
        <5>1. i > 1 => i - 1 \in DOMAIN events
          BY <2>2
        <5> QED
          BY <3>1, <5>1
      <4>3. ASSUME h[i].kind = "SUPPORT_REVISION"
            PROVE  h[i].extends \in 1..(i - 1) /\ h[h[i].extends].id = h[i].id
        <5>1. events[i].extends \in 1..(i - 1) /\ events[events[i].extends].id = events[i].id
          BY <4>1, <4>3
        <5>2. events[i].extends \in DOMAIN events
          BY <2>2, <5>1
        <5>3. h[events[i].extends] = events[events[i].extends]
          BY <3>1, <5>2
        <5> QED
          BY <4>1, <5>1, <5>3
      <4> QED
        BY <4>1, <4>2, <4>3
    <3>3. Good(h, n, clock)
      <4>1. h[n].id \in Name /\ h[n].at \in Instant /\ h[n].recorded = clock
        BY <2>6, <3>1 DEF Datable
      <4>2. clock \in 0..clock
        BY <2>0
      <4>3. n > 1 => h[n - 1].recorded <= clock
        <5>1. n > 1 => n - 1 \in DOMAIN events
          BY <2>2
        <5>2. ASSUME NEW i \in DOMAIN events PROVE h[i].recorded <= clock
          <6>1. h[i].recorded \in 0..clock
            BY <3>2
          <6> QED
            BY <2>0, <6>1
        <5> QED
          BY <5>1, <5>2
      <4>4. h[n].kind = "SUPPORT_REVISION" => h[n].extends \in 1..(n - 1) /\ h[h[n].extends].id = h[n].id
        <5>1. ASSUME e.kind = "SUPPORT_REVISION"
              PROVE  e.extends \in DOMAIN events /\ events[e.extends].id = e.id
          BY <2>6, <5>1 DEF Datable
        <5>2. \A i \in DOMAIN events : i \in 1..(n - 1)
          BY <2>2
        <5> QED
          BY <3>1, <5>1, <5>2
      <4> HIDE DEF h, n
      <4> QED
        BY <4>1, <4>2, <4>3, <4>4
    <3>4. \A i \in DOMAIN events' : Good(events', i, clock')
      <4> HIDE DEF Good
      <4> QED
        BY <2>6, <3>1, <3>2, <3>3
    <3> QED
      BY <2>0, <2>4, <2>6, <3>4 DEF Instant
  <2> QED
    BY <2>5, <2>6, StepDates
<1> QED
  BY <1>1, <1>2, MemoryInvHolds, PTL DEF MemorySpec

-----------------------------------------------------------------------------
(* The types of an episode.                                                 *)

\* The counters of an episode are within their bounds, and files are files.
FilesTyped ==
  /\ content \in [Path -> Bytes \cup {None}]
  /\ now \in 0..MaxClock /\ edits \in 0..MaxEdits /\ tampers \in 0..MaxTampers

\* A capture holds what it has read, and every call covers paths that exist.
CaptureTyped(w, t) ==
  w.op = "capture" => w.at \in 0..t /\ w.seen \in [Path \ w.left -> Bytes]
WorkTyped(w, t) ==
  /\ w.op \in {"none", "capture", "observe", "tool", "apply"}
  /\ w # Idle => w.left \subseteq Path
  /\ CaptureTyped(w, t)

SnapTyped(snap, t) == snap # None => snap.manifest \in [Path -> Bytes] /\ snap.at \in 0..t

RevisionTyped(revision) == revision.posterior \subseteq World /\ revision.obs.probe \in Probe
ChainTyped ==
  /\ chain # <<>> => chain[1] = Initial(chain[1].binding)
  /\ \A i \in 2..Len(chain) : RevisionTyped(chain[i])

ReportsDated == \A i \in DOMAIN reports : reports[i].at \in 0..now

\* What else a type has to stand on.
Grounds == ChainIsSeq /\ Shapes /\ Work /\ Reports
SessionTypes ==
  FilesTyped /\ WorkTyped(work, now) /\ SnapTyped(snapshot, now) /\ ChainTyped /\ ReportsDated

LEMMA TypesAre == Reports /\ SessionTypes => TypeOK
<1> SUFFICES ASSUME Reports, SessionTypes PROVE TypeOK
  OBVIOUS
<1>1. \A i \in DOMAIN reports : reports[i].cites \subseteq DOMAIN reports[i].saw
  BY DEF Reports, Envelope
<1> QED
  BY <1>1 DEF SessionTypes, FilesTyped, WorkTyped, SnapTyped, ChainTyped, ReportsDated,
              RevisionTyped, TypeOK

\* The clock goes on; what was dated before it stays so.
LEMMA ClockSteps ==
  ASSUME FilesTyped, [Next]_vars
  PROVE  /\ FilesTyped'
         /\ \A n \in 0..now : n \in 0..now'
<1>1. /\ content \in [Path -> Bytes \cup {None}] /\ now \in 0..MaxClock
      /\ edits \in 0..MaxEdits /\ tampers \in 0..MaxTampers
      /\ MaxClock \in Nat /\ MaxEdits \in Nat /\ MaxTampers \in Nat
  BY LabBounds DEF FilesTyped
<1>2. CASE Tick
  <2>1. now' = now + 1 /\ now < MaxClock
        /\ content' = content /\ edits' = edits /\ tampers' = tampers
    BY <1>2 DEF Tick, files, caller
  <2>2. now' \in 0..MaxClock /\ \A n \in 0..now : n \in 0..now'
    BY <1>1, <2>1
  <2> QED
    BY <1>1, <2>1, <2>2 DEF FilesTyped
<1>3. ASSUME NEW path \in Path, Edit(path)
      PROVE  FilesTyped' /\ \A n \in 0..now : n \in 0..now'
  <2>1. /\ edits' = edits + 1 /\ edits < MaxEdits /\ now' = now /\ tampers' = tampers
    BY <1>3 DEF Edit, caller
  <2>2. content' \in [Path -> Bytes \cup {None}]
    BY <1>1, <1>3 DEF Edit
  <2> QED
    BY <1>1, <2>1, <2>2 DEF FilesTyped
<1>4. CASE Tamper
  <2>1. /\ tampers' = tampers + 1 /\ tampers < MaxTampers /\ now' = now
        /\ content' = content /\ edits' = edits
    BY <1>4 DEF Tamper, files
  <2> QED
    BY <1>1, <2>1 DEF FilesTyped
<1>5. CASE UNCHANGED <<files, now, tampers>>
  BY <1>1, <1>5 DEF FilesTyped, files
<1>6. Tick \/ (\E path \in Path : Edit(path)) \/ Tamper \/ UNCHANGED <<files, now, tampers>>
  BY DEF Next, vars, caller, BeginCapture, CaptureRead, EndCapture, StartEpisode,
         Rewind, BeginObserve, Revalidate, Search, NextPhase, ConcludeObserve,
         BeginTool, ToolRead, MakeReport, BeginApply, VerifyRead, ConcludeApply
<1> QED
  BY <1>2, <1>3, <1>4, <1>5, <1>6

\* Catalogs cover paths that exist, and probes of the model.
LEMMA CatalogsCover ==
  \A c \in Catalogs \cup SourceCatalogs : \A p \in DOMAIN c :
    p \in Probe /\ c[p].paths \subseteq Path
BY LabCatalogs DEF FitsModel, Coherent

\* A call that runs covers the files it has left.
LEMMA WorkTypes ==
  ASSUME Work, FilesTyped, WorkTyped(work, now), [Next]_vars
  PROVE  WorkTyped(work', now')
<1>0. /\ now \in 0..MaxClock /\ \A n \in 0..now : n \in 0..now'
  BY ClockSteps DEF FilesTyped
<1>1. CASE work' = work
  BY <1>0, <1>1 DEF WorkTyped, CaptureTyped
<1>2. CASE work' = Idle
  BY <1>2 DEF WorkTyped, CaptureTyped, Idle
<1>3. ASSUME work'.op \in {"observe", "tool", "apply"}, work'.left \subseteq Path
      PROVE  WorkTyped(work', now')
  BY <1>3 DEF WorkTyped, CaptureTyped
<1>4. ASSUME work' # Idle, work.op \in {"observe", "tool", "apply"},
             Revalidate \/ Search \/ ToolRead \/ VerifyRead
      PROVE  WorkTyped(work', now')
  <2> DEFINE left == work.left \ {NextOf(work.left)}
  <2>1. left \subseteq Path
    <3>1. work.left \subseteq Path
      BY <1>4 DEF WorkTyped, Idle
    <3> QED
      BY <3>1
  <2> HIDE DEF left
  <2>2. \/ ObserveRecord(work) /\ work' = [work EXCEPT !.left = left]
        \/ ObserveRecord(work) /\ \E hit : work' = [work EXCEPT !.left = left, !.hit = hit]
        \/ ToolRecord(work) /\ \E saw : work' = [work EXCEPT !.left = left, !.saw = saw]
        \/ ApplyRecord(work) /\ work' = [work EXCEPT !.left = left]
    <3>1. Revalidate => ObserveRecord(work) /\ work' = [work EXCEPT !.left = left]
      BY <1>4 DEF Revalidate, left, Work, Works, Observing
    <3>2. ASSUME Search
          PROVE  ObserveRecord(work) /\ \E hit : work' = [work EXCEPT !.left = left, !.hit = hit]
      <4> DEFINE hit == work.hit \/ work.probe \in content[NextOf(work.left)].has
      <4>1. work' = [work EXCEPT !.left = left, !.hit = hit]
        BY <1>4, <3>2 DEF Search, left
      <4> HIDE DEF hit
      <4> QED
        BY <3>2, <4>1 DEF Search, Work, Works, Observing
    <3>3. ASSUME ToolRead
          PROVE  ToolRecord(work) /\ \E saw : work' = [work EXCEPT !.left = left, !.saw = saw]
      <4> DEFINE saw == With(work.saw, NextOf(work.left))
      <4>1. work' = [work EXCEPT !.left = left, !.saw = saw]
        BY <1>4, <3>3 DEF ToolRead, left
      <4> HIDE DEF saw
      <4> QED
        BY <3>3, <4>1 DEF ToolRead, Work, Works, Tooling
    <3>4. VerifyRead => ApplyRecord(work) /\ work' = [work EXCEPT !.left = left]
      BY <1>4 DEF VerifyRead, left, Work, Works, Applying
    <3> QED
      BY <1>4, <3>1, <3>2, <3>3, <3>4
  <2>3. work'.left = left /\ work'.op = work.op
    <3>1. ASSUME ObserveRecord(work), work' = [work EXCEPT !.left = left]
          PROVE  work'.left = left /\ work'.op = work.op
      BY <3>1 DEF ObserveRecord
    <3>2. ASSUME ObserveRecord(work), NEW hit, work' = [work EXCEPT !.left = left, !.hit = hit]
          PROVE  work'.left = left /\ work'.op = work.op
      BY <3>2 DEF ObserveRecord
    <3>3. ASSUME ToolRecord(work), NEW saw, work' = [work EXCEPT !.left = left, !.saw = saw]
          PROVE  work'.left = left /\ work'.op = work.op
      BY <3>3 DEF ToolRecord
    <3>4. ASSUME ApplyRecord(work), work' = [work EXCEPT !.left = left]
          PROVE  work'.left = left /\ work'.op = work.op
      BY <3>4 DEF ApplyRecord
    <3> QED
      BY <2>2, <3>1, <3>2, <3>3, <3>4
  <2> QED
    BY <1>3, <1>4, <2>1, <2>3
<1>5. CASE BeginCapture
  <2>1. work' = [op |-> "capture", left |-> Path, at |-> now, seen |-> <<>>] /\ now' = now
    BY <1>5 DEF BeginCapture
  <2>2. now \in 0..now
    BY <1>0, LabBounds
  <2>3. <<>> \in [Path \ Path -> Bytes]
    OBVIOUS
  <2> QED
    BY <2>1, <2>2, <2>3 DEF WorkTyped, CaptureTyped
<1>6. ASSUME CaptureRead, work' # Idle PROVE WorkTyped(work', now')
  <2> DEFINE path == NextOf(work.left)
             left == work.left \ {path}
             seen == With(work.seen, path)
  <2>1. /\ content[path] # None /\ work' = [work EXCEPT !.left = left, !.seen = seen]
        /\ CaptureRecord(work) /\ work.op = "capture" /\ work.left # {} /\ now' = now
    BY <1>6 DEF CaptureRead, Work, Works, Capturing
  <2>2. /\ work.left \subseteq Path /\ work.at \in 0..now
        /\ work.seen \in [Path \ work.left -> Bytes]
    BY <2>1 DEF WorkTyped, CaptureTyped, Idle
  <2>3. path \in work.left /\ content[path] \in Bytes
    <3>1. path \in work.left
      BY <2>1 DEF NextOf
    <3> QED
      BY <2>1, <2>2, <3>1 DEF FilesTyped
  <2>4. Path \ left = (Path \ work.left) \cup {path}
    BY <2>2, <2>3
  <2>5. seen \in [Path \ left -> Bytes]
    BY <2>2, <2>3, <2>4 DEF With
  <2>6. left \subseteq Path
    BY <2>2
  <2> HIDE DEF left, seen
  <2>7. work' = [op |-> "capture", left |-> left, at |-> work.at, seen |-> seen]
    BY <2>1 DEF CaptureRecord
  <2> QED
    BY <2>1, <2>2, <2>5, <2>6, <2>7 DEF WorkTyped, CaptureTyped
<1>7. ASSUME NEW s \in Sessions, NEW p \in Probe, NEW id \in Id, BeginObserve(s, p, id)
      PROVE  WorkTyped(work', now')
  <2> DEFINE spec == s.catalog[p]
  <2> HIDE DEF spec
  <2>1. work' = [op |-> "observe", phase |-> "before", left |-> Path, spec |-> spec,
                 probe |-> p, id |-> id, at |-> now, hit |-> FALSE]
    BY <1>7 DEF BeginObserve, spec
  <2> QED
    BY <1>3, <2>1
<1>8. CASE NextPhase
  <2>1. ObserveRecord(work) /\ SourceBound(work, snapshot, chain)
    BY <1>8 DEF NextPhase, Work, Works, Observing
  <2>2. work.spec.paths \subseteq Path
    BY <2>1, CatalogsCover DEF SourceBound
  <2>3. PICK phase, left :
          work' = [work EXCEPT !.phase = phase, !.left = left] /\ left \subseteq Path
    <3>1. CASE work.phase = "before"
      <4>1. work' = [work EXCEPT !.phase = "read", !.left = work.spec.paths]
        BY <1>8, <3>1 DEF NextPhase
      <4> QED
        BY <2>2, <4>1, Zenon
    <3>2. CASE work.phase # "before"
      <4>1. work' = [work EXCEPT !.phase = "after", !.left = Path]
        BY <1>8, <3>2 DEF NextPhase
      <4>2. Path \subseteq Path
        OBVIOUS
      <4> QED
        BY <4>1, <4>2, Zenon
    <3> QED
      BY <3>1, <3>2
  <2>4. work' = [op |-> "observe", phase |-> phase, left |-> left, spec |-> work.spec,
                 probe |-> work.probe, id |-> work.id, at |-> work.at, hit |-> work.hit]
    BY <2>1, <2>3, ObserveChanges, Zenon
  <2>5. PICK spec, probe, id, at, hit :
          work' = [op |-> "observe", phase |-> phase, left |-> left, spec |-> spec,
                   probe |-> probe, id |-> id, at |-> at, hit |-> hit]
    BY <2>4, Zenon
  <2>6. work'.op = "observe" /\ work'.left = left
    BY <2>5
  <2> QED
    BY <1>3, <2>3, <2>6
<1>9. ASSUME NEW s \in Sessions, NEW p \in Probe, BeginTool(s, p)
      PROVE  WorkTyped(work', now')
  <2> DEFINE spec == s.catalog[p]
  <2>1. s.catalog \in Catalogs /\ p \in DOMAIN s.catalog
    BY <1>9 DEF BeginTool, Sessions
  <2>2. spec.paths \subseteq Path
    BY <2>1, CatalogsCover
  <2> HIDE DEF spec
  <2>3. PICK tool \in Tool :
          work' = [op |-> "tool", left |-> spec.paths, spec |-> spec,
                   probe |-> p, tool |-> tool, mode |-> s.policy.mode, saw |-> <<>>]
    BY <1>9 DEF BeginTool, spec
  <2> QED
    BY <1>3, <2>2, <2>3
<1>10. ASSUME NEW s \in Sessions, NEW i \in DOMAIN reports, BeginApply(s, i)
       PROVE  WorkTyped(work', now')
  <2> DEFINE p == reports[i].probe
             spec == s.catalog[p]
  <2>1. s.catalog \in Catalogs /\ p \in DOMAIN s.catalog
    BY <1>10 DEF BeginApply, Sessions, Admits
  <2>2. spec.paths \subseteq Path
    BY <2>1, CatalogsCover
  <2>3. work' = [op |-> "apply", left |-> spec.paths, spec |-> spec, report |-> i]
    BY <1>10 DEF BeginApply
  <2> HIDE DEF spec
  <2> QED
    BY <1>3, <2>2, <2>3
<1>11. \/ work' = work \/ work' = Idle
       \/ BeginCapture \/ CaptureRead
       \/ \E s \in Sessions, p \in Probe, id \in Id : BeginObserve(s, p, id)
       \/ Revalidate \/ Search \/ NextPhase
       \/ \E s \in Sessions, p \in Probe : BeginTool(s, p)
       \/ ToolRead
       \/ \E s \in Sessions, i \in DOMAIN reports : BeginApply(s, i)
       \/ VerifyRead
  BY DEF Next, vars, Tick, Edit, EndCapture, StartEpisode, Rewind, Tamper, ConcludeObserve,
         MakeReport, ConcludeApply
<1>12. Revalidate \/ Search \/ ToolRead \/ VerifyRead => work.op \in {"observe", "tool", "apply"}
  BY DEF Revalidate, Search, ToolRead, VerifyRead
<1> QED
  BY <1>1, <1>2, <1>4, <1>5, <1>6, <1>7, <1>8, <1>9, <1>10, <1>11, <1>12

\* A snapshot is what a capture read, dated when it began.
LEMMA SnapTypes ==
  ASSUME Work, FilesTyped, WorkTyped(work, now), SnapTyped(snapshot, now), [Next]_vars
  PROVE  SnapTyped(snapshot', now')
<1>1. \A n \in 0..now : n \in 0..now'
  BY ClockSteps
<1>2. CASE EndCapture
  <2>1. /\ snapshot' = [manifest |-> work.seen, at |-> work.at]
        /\ work.op = "capture" /\ work.left = {}
    BY <1>2 DEF EndCapture
  <2>2. work.at \in 0..now /\ work.seen \in [Path \ {} -> Bytes]
    BY <2>1 DEF WorkTyped, CaptureTyped
  <2>3. Path \ {} = Path
    OBVIOUS
  <2>4. snapshot'.manifest = work.seen /\ snapshot'.at = work.at
    BY <2>1
  <2> QED
    BY <1>1, <2>2, <2>3, <2>4 DEF SnapTyped
<1>3. CASE snapshot' = snapshot
  BY <1>1, <1>3 DEF SnapTyped
<1>4. EndCapture \/ snapshot' = snapshot
  BY DEF Next, vars, caller, Tick, Edit, BeginCapture, CaptureRead, StartEpisode, Rewind,
         Tamper, BeginObserve, Revalidate, Search, NextPhase, ConcludeObserve, BeginTool,
         ToolRead, MakeReport, BeginApply, VerifyRead, ConcludeApply
<1> QED
  BY <1>2, <1>3, <1>4

\* A report is dated when it is made.
LEMMA ReportIsNow ==
  ASSUME Work, MakeReport,
         NEW report \in IF work.tool = LabReader THEN LabReports ELSE HostReports
  PROVE  report.at = now
<1>1. /\ work.spec.kind \in Located \cup {"check", "read"}
      /\ work.tool = LabReader => work.spec.kind \in {"literal", "read"}
  BY DEF MakeReport, Work, Works, Tooling
<1>2. ASSUME NEW status, NEW cites, NEW verdict, NEW reading,
             report = Report(status, cites, verdict, reading)
      PROVE  report.at = now
  BY <1>2 DEF Report
<1>3. CASE work.tool = LabReader
  BY <1>2, <1>3 DEF LabReports, LiteralReports, FileReports
<1>4. CASE work.tool # LabReader
  <2>1. \/ report = Report("FAILED", {}, None, None)
        \/ report \in LocatedReports \/ report \in CheckReports \/ report \in ReadReports
    BY <1>1, <1>4 DEF HostReports, Located
  <2> QED
    BY <1>2, <2>1 DEF LocatedReports, CheckReports, ReadReports
<1> QED
  BY <1>3, <1>4

LEMMA ReportTypes ==
  ASSUME Work, Reports, FilesTyped, ReportsDated, [Next]_vars
  PROVE  ReportsDated'
<1>1. \A n \in 0..now : n \in 0..now'
  BY ClockSteps
<1>2. CASE reports' = reports
  BY <1>1, <1>2 DEF ReportsDated
<1>3. CASE MakeReport
  <2>1. PICK report \in IF work.tool = LabReader THEN LabReports ELSE HostReports :
          reports' = Append(reports, report)
    BY <1>3 DEF MakeReport
  <2>2. report.at = now
    BY <1>3, <2>1, ReportIsNow
  <2>3. now \in 0..now
    BY LabBounds DEF FilesTyped
  <2>4. PICK S : reports \in Seq(S)
    BY DEF Reports
  <2>5. /\ DOMAIN reports' = DOMAIN reports \cup {Len(reports) + 1}
        /\ reports'[Len(reports) + 1] = report
        /\ \A i \in DOMAIN reports : reports'[i] = reports[i]
    BY <2>1, <2>4, Appended
  <2> QED
    BY <1>1, <2>2, <2>3, <2>5 DEF ReportsDated
<1> QED
  BY <1>2, <1>3, ReportSteps

\* An edit in place leaves no world that the model does not know.
LEMMA TamperedWorlds ==
  ASSUME NEW r, Shaped(r), r.posterior \subseteq World, NEW revision \in Tampered(r)
  PROVE  revision.posterior \subseteq World
<1> DEFINE obs == r.obs
<1>1. DOMAIN r = {"binding", "prior", "obs", "pairs", "posterior"}
  BY DEF Shaped
<1>2. CASE \E ws \in (SUBSET World) \ {{}} : revision = [r EXCEPT !.posterior = ws]
  BY <1>1, <1>2
<1>3. ASSUME NEW o \in Outcome,
             revision = [r EXCEPT !.obs.outcome = o, !.pairs[Len(r.pairs)][2] = o]
      PROVE  revision.posterior = r.posterior
  <2>1. PICK u : u = [r EXCEPT !.obs.outcome = o]
    OBVIOUS
  <2>2. DOMAIN u = DOMAIN r /\ u.posterior = r.posterior
    BY <1>1, <2>1
  <2>3. revision = [u EXCEPT !.pairs[Len(r.pairs)][2] = o]
    BY <1>3, <2>1, Zenon
  <2> QED
    BY <1>1, <2>2, <2>3
<1>4. CASE \E t \in 0..MaxClock : revision = [r EXCEPT !.obs.at = t]
  BY <1>1, <1>4
<1>5. CASE \E o \in Outcome :
             revision = [r EXCEPT !.obs.outcome = o, !.pairs[Len(r.pairs)][2] = o]
  BY <1>3, <1>5
<1> QED
  BY <1>2, <1>4, <1>5 DEF Tampered

\* What a call concludes is about a probe of the model.
LEMMA ConcludesOfProbes ==
  ASSUME Work, ConcludeObserve \/ ConcludeApply
  PROVE  \/ UNCHANGED chain
         \/ chain # <<>> /\ \E p \in Probe : \E id, o, at : chain' = ChainAfter(id, p, o, at)
<1>1. CASE ConcludeObserve
  <2>1. SourceBound(work, snapshot, chain)
    BY <1>1 DEF ConcludeObserve, Work, Works, Observing
  <2>2. work.probe \in Probe /\ chain # <<>>
    BY <2>1, CatalogsCover DEF SourceBound, Replays
  <2>3. \E o : chain' = ChainAfter(work.id, work.probe, o, work.at)
    BY <1>1 DEF ConcludeObserve
  <2> QED
    BY <2>2, <2>3, Zenon
<1>2. CASE ConcludeApply
  <2> DEFINE report == reports[work.report]
  <2>1. HostBound(work, snapshot, chain, reports)
    BY <1>2 DEF ConcludeApply, Work, Works, Applying
  <2>2. report.probe \in Probe /\ chain # <<>>
    BY <2>1, CatalogsCover DEF HostBound, Replays
  <2>3. UNCHANGED chain \/ \E o : chain' = ChainAfter(work.report, report.probe, o, report.at)
    BY <1>2 DEF ConcludeApply
  <2> HIDE DEF report
  <2> QED
    BY <2>2, <2>3, Zenon
<1> QED
  BY <1>1, <1>2

\* The chain starts with a revision 0 and goes on with worlds and probes of
\* the model.
LEMMA ChainTypes ==
  ASSUME ChainIsSeq, Shapes, Work, ChainTyped, [Next]_vars
  PROVE  ChainTyped'
<1>1. PICK S : chain \in Seq(S)
  BY DEF ChainIsSeq
<1>2. DOMAIN chain = 1..Len(chain) /\ Len(chain) \in Nat
  BY <1>1, LenProperties
<1>3. CASE UNCHANGED chain
  BY <1>3 DEF ChainTyped
<1>4. ASSUME NEW s \in Sessions, StartEpisode(s) PROVE ChainTyped'
  <2> DEFINE b == Binding(s)
             revision == Initial(b)
  <2>1. chain' = <<revision>>
    BY <1>4 DEF StartEpisode
  <2>2. revision.binding = b
    BY DEF Initial
  <2>3. revision = Initial(revision.binding)
    BY <2>2
  <2> HIDE DEF revision, b
  <2>4. Len(chain') = 1 /\ chain'[1] = revision
    BY <2>1
  <2>5. ~ \E i \in 2..Len(chain') : TRUE
    BY <2>4
  <2> QED
    BY <2>3, <2>4, <2>5 DEF ChainTyped
<1>5. CASE Rewind
  <2>1. PICK n \in 1..(Len(chain) - 1) : chain' = SubSeq(chain, 1, n)
    BY <1>5 DEF Rewind
  <2>2. Len(chain') = n /\ \A i \in 1..n : chain'[i] = chain[i]
    BY <1>1, <1>2, <2>1, SubSeqProperties
  <2>3. chain # <<>> /\ chain'[1] = chain[1]
    BY <1>2, <2>1, <2>2
  <2>4. \A i \in 2..Len(chain') : i \in 2..Len(chain) /\ chain'[i] = chain[i]
    BY <1>2, <2>1, <2>2
  <2> QED
    BY <2>3, <2>4 DEF ChainTyped
<1>6. CASE Tamper
  <2>1. PICK k \in 2..Len(chain) : \E revision \in Tampered(chain[k]) :
          chain' = [chain EXCEPT ![k] = revision]
    BY <1>6 DEF Tamper
  <2> PICK revision \in Tampered(chain[k]) : chain' = [chain EXCEPT ![k] = revision]
    BY <2>1
  <2>2. k \in 1..Len(chain) /\ k # 1 /\ 1 \in 1..Len(chain) /\ chain # <<>>
    BY <1>2
  <2>3. /\ chain'[k] = revision
        /\ \A i \in 1..Len(chain) : i # k => chain'[i] = chain[i]
    BY <1>2, <2>1, <2>2
  <2>4. Len(chain') = Len(chain)
    BY <1>1, <2>1, <2>2, SeqMonotonic, ExceptSeq
  <2>5. RevisionTyped(revision)
    <3>1. Shaped(chain[k]) /\ RevisionTyped(chain[k])
      BY DEF Shapes, ChainTyped
    <3>2. revision.obs.probe = chain[k].obs.probe
      BY <3>1, TamperedShape
    <3>3. revision.posterior \subseteq World
      BY <3>1, TamperedWorlds DEF RevisionTyped
    <3> QED
      BY <3>1, <3>2, <3>3 DEF RevisionTyped
  <2>6. \A i \in 2..Len(chain) : i \in 1..Len(chain)
    BY <1>2
  <2> QED
    BY <2>2, <2>3, <2>4, <2>5, <2>6 DEF ChainTyped
<1>7. CASE ConcludeObserve \/ ConcludeApply
  <2>1. CASE UNCHANGED chain
    BY <1>3, <2>1
  <2>2. ASSUME chain # <<>>, NEW id, NEW p \in Probe, NEW o, NEW at,
               chain' = ChainAfter(id, p, o, at), ~UNCHANGED chain
        PROVE  ChainTyped'
    <3> DEFINE revision == Concluded(id, p, o, at)
               prior == Last(chain)
    <3>1. chain' = Append(chain, revision)
      BY <2>2, ChainAfterExtends
    <3>2. revision.posterior = Filter(prior.posterior, p, o) /\ revision.obs.probe = p
      BY DEF Concluded, Extended
    <3> HIDE DEF revision
    <3>3. Len(chain) \in 1..Len(chain) /\ prior = chain[Len(chain)]
      BY <1>1, <1>2, <2>2 DEF Last
    <3>4. prior.posterior \subseteq World
      <4>1. CASE Len(chain) = 1
        <5>1. prior = Initial(prior.binding)
          BY <2>2, <3>3, <4>1 DEF ChainTyped
        <5> QED
          BY <5>1 DEF Initial
      <4>2. CASE Len(chain) # 1
        <5>1. Len(chain) \in 2..Len(chain)
          BY <1>2, <3>3, <4>2
        <5> QED
          BY <3>3, <5>1 DEF ChainTyped, RevisionTyped
      <4> QED
        BY <4>1, <4>2
    <3>5. RevisionTyped(revision)
      BY <3>2, <3>4 DEF RevisionTyped, Filter
    <3>6. /\ DOMAIN chain' = DOMAIN chain \cup {Len(chain) + 1}
          /\ chain'[Len(chain) + 1] = revision
          /\ \A i \in DOMAIN chain : chain'[i] = chain[i]
      BY <1>1, <3>1, Appended
    <3>7. Len(chain') = Len(chain) + 1
      BY <1>1, <3>1
    <3>8. chain'[1] = chain[1]
      BY <1>2, <3>3, <3>6
    <3>9. \A i \in 2..Len(chain') :
             i = Len(chain) + 1 \/ (i \in 2..Len(chain) /\ i \in DOMAIN chain)
      BY <1>2, <3>7
    <3> QED
      BY <2>2, <3>5, <3>6, <3>8, <3>9 DEF ChainTyped
  <2> QED
    BY <1>7, <2>1, <2>2, ConcludesOfProbes
<1> QED
  BY <1>3, <1>4, <1>5, <1>6, <1>7, ChainSteps

LEMMA SessionTypesStart == Init => SessionTypes
<1> SUFFICES ASSUME Init PROVE SessionTypes
  OBVIOUS
<1>1. 0 \in 0..MaxClock /\ 0 \in 0..MaxEdits /\ 0 \in 0..MaxTampers
  BY LabBounds
<1>2. FilesTyped
  BY <1>1 DEF Init, FilesTyped
<1>3. work = Idle /\ snapshot = None /\ chain = <<>> /\ reports = <<>>
  BY DEF Init
<1>4. Idle.op = "none"
  BY DEF Idle
<1>5. WorkTyped(work, now) /\ SnapTyped(snapshot, now)
  BY <1>3, <1>4 DEF WorkTyped, CaptureTyped, SnapTyped
<1>6. Len(<<>>) = 0 /\ DOMAIN <<>> = {} /\ ~ \E i \in 2..0 : TRUE
  BY EmptySeq
<1>7. ChainTyped /\ ReportsDated
  BY <1>3, <1>6 DEF ChainTyped, ReportsDated
<1> QED
  BY <1>2, <1>5, <1>7 DEF SessionTypes

LEMMA SessionTypesHold == Spec => []TypeOK
<1>1. Grounds /\ SessionTypes /\ [Next]_vars => SessionTypes'
  <2> SUFFICES ASSUME Grounds, SessionTypes, [Next]_vars PROVE SessionTypes'
    OBVIOUS
  <2>1. ChainIsSeq /\ Shapes /\ Work /\ Reports
    BY DEF Grounds
  <2>2. /\ FilesTyped /\ WorkTyped(work, now) /\ SnapTyped(snapshot, now)
        /\ ChainTyped /\ ReportsDated
    BY DEF SessionTypes
  <2>3. FilesTyped'
    BY <2>2, ClockSteps
  <2>4. WorkTyped(work', now') /\ SnapTyped(snapshot', now')
    BY <2>1, <2>2, WorkTypes, SnapTypes
  <2>5. ChainTyped' /\ ReportsDated'
    BY <2>1, <2>2, ChainTypes, ReportTypes
  <2> QED
    BY <2>3, <2>4, <2>5 DEF SessionTypes
<1>2. Grounds /\ SessionTypes => TypeOK
  BY TypesAre DEF Grounds
<1>3. Spec => []Grounds
  <2>1. ChainIsSeq /\ (Shapes /\ Conclusions) /\ Work /\ Reports => Grounds
    BY DEF Grounds
  <2> QED
    BY <2>1, ChainIsSeqHolds, ConclusionsInvariant, WorkHolds, ReportsHold, PTL
<1> QED
  BY <1>1, <1>2, <1>3, SessionTypesStart, PTL DEF Spec

-----------------------------------------------------------------------------
(* The types of the lab.                                                    *)

LEMMA LabStarts == LabInit => Init /\ MemoryInit /\ PlanInit /\ BudgetInit
BY DEF LabInit

\* A step of the lab is a step of one part, that leaves the others alone.
LEMMA LabSteps ==
  [LabNext]_lab =>
    [Next]_vars /\ [MemoryNext]_memory /\ [PlanNext]_planning /\ [BudgetNext]_pool
BY DEF LabNext, lab, session, SessionSteps, MemorySteps, PlannerSteps, BudgetSteps

\* In any behaviour of the lab, the variables of every part have their types:
\* a snapshot holds every file, a chain that is not empty starts with a
\* revision 0 and names probes and worlds of the model, a report cites what
\* its tool saw, a history is dated in order and revises what comes before,
\* a plan is a plan of its model, only what was reserved is settled.
THEOREM PartsTypeOKHolds == LabSpec => []PartsTypeOK
<1>1. LabSpec => Spec /\ MemorySpec /\ PlanSpec /\ BudgetSpec
  BY LabStarts, LabSteps, PTL DEF LabSpec, Spec, MemorySpec, PlanSpec, BudgetSpec
<1>2. PlanSpec => []PlanTypeOK
  <2>1. PlanInv => PlanTypeOK
    BY DEF PlanInv
  <2> QED
    BY <2>1, PlanStarts, PlanInductive, PTL DEF PlanSpec
<1>3. BudgetSpec => []BudgetTypeOK
  <2>1. PoolShape /\ BudgetHolds => BudgetTypeOK
    BY DEF PoolShape
  <2> QED
    BY <2>1, PoolHolds, PTL
<1>4. TypeOK /\ MemoryTypeOK /\ PlanTypeOK /\ BudgetTypeOK => PartsTypeOK
  BY DEF PartsTypeOK
<1> QED
  BY <1>1, <1>2, <1>3, <1>4, SessionTypesHold, MemoryTypesHold, PTL
=============================================================================
