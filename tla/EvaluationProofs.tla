-------------------------- MODULE EvaluationProofs --------------------------
(***************************************************************************)
(* What a preregistered evaluation and the authority boundary guarantee,   *)
(* for any number of protocols, corpora, seeds, metrics and verdicts.      *)
(***************************************************************************)
EXTENDS Evaluation, FiniteSetTheorems, TLAPS

-----------------------------------------------------------------------------
(* A holdout corpus gives one final verdict.  That a verdict was returned  *)
(* says nothing of later ones by itself: the invariant ties every verdict  *)
(* to a spent corpus, and evaluate asks for one that is not.               *)

Looks ==
  /\ DOMAIN spent = Corpus
  /\ \E S : returned \in Seq(S)
  /\ \A i \in 1..Len(returned) :
       returned[i].body.corpus \in Corpus /\ spent[returned[i].body.corpus] # Unspent
  /\ \A i, j \in 1..Len(returned) : returned[i].body.corpus = returned[j].body.corpus => i = j

LEMMA LooksInit == StudyInit => Looks
<1> SUFFICES ASSUME StudyInit PROVE Looks
  OBVIOUS
<1>1. returned \in Seq({}) /\ Len(returned) = 0
  BY DEF StudyInit
<1> QED
  BY <1>1 DEF StudyInit, NoReceipts, Looks

LEMMA LooksEvaluate ==
  ASSUME \A body, m : Receipt(body, m) # Unspent,
         Looks, NEW p, NEW m \in MeasurementSets, Evaluate(p, m)
  PROVE  Looks'
<1> DEFINE body == Scored(p, m)
           look == Sealed(body)
<1>1. /\ NotSpent(body)
      /\ spent' = [spent EXCEPT ![body.corpus] = Receipt(body, m)]
      /\ returned' = Append(returned, look)
  BY DEF Evaluate
<1>2. body.corpus \in Corpus /\ look.body = body
  BY DEF Scored, Body, Sealed, MeasurementSets
<1> HIDE DEF body, look
<1>3. PICK S : returned \in Seq(S)
  BY DEF Looks
<1>4. returned \in Seq(S \cup {look})
  BY <1>3
<1>5. /\ returned' \in Seq(S \cup {look})
      /\ Len(returned') = Len(returned) + 1 /\ Len(returned) \in Nat
      /\ \A i \in 1..Len(returned) : returned'[i] = returned[i]
      /\ returned'[Len(returned) + 1] = look
  BY <1>1, <1>4
<1>6. DOMAIN spent' = Corpus /\ spent'[body.corpus] # Unspent
  BY <1>1, <1>2 DEF Looks
<1>7. \A c \in Corpus : spent[c] # Unspent => spent'[c] # Unspent /\ c # body.corpus
  BY <1>1, <1>2 DEF Looks, NotSpent
<1>8. \A i \in 1..Len(returned) : returned[i].body.corpus # body.corpus
  BY <1>7 DEF Looks
<1>9. \A i \in 1..Len(returned') :
        returned'[i].body.corpus \in Corpus /\ spent'[returned'[i].body.corpus] # Unspent
  <2> SUFFICES ASSUME NEW i \in 1..Len(returned')
               PROVE  returned'[i].body.corpus \in Corpus /\ spent'[returned'[i].body.corpus] # Unspent
    OBVIOUS
  <2>1. CASE i \in 1..Len(returned)
    BY <2>1, <1>5, <1>7 DEF Looks
  <2>2. CASE i = Len(returned) + 1
    BY <2>2, <1>2, <1>5, <1>6
  <2> QED
    BY <2>1, <2>2, <1>5
<1>10. \A i, j \in 1..Len(returned') :
         returned'[i].body.corpus = returned'[j].body.corpus => i = j
  <2> SUFFICES ASSUME NEW i \in 1..Len(returned'), NEW j \in 1..Len(returned'),
                      returned'[i].body.corpus = returned'[j].body.corpus
               PROVE  i = j
    OBVIOUS
  <2>1. CASE i \in 1..Len(returned) /\ j \in 1..Len(returned)
    BY <2>1, <1>5 DEF Looks
  <2>2. CASE i \in 1..Len(returned) /\ j = Len(returned) + 1
    BY <2>2, <1>2, <1>5, <1>8
  <2>3. CASE i = Len(returned) + 1 /\ j \in 1..Len(returned)
    BY <2>3, <1>2, <1>5, <1>8
  <2> QED
    BY <2>1, <2>2, <2>3, <1>5
<1> QED
  BY <1>5, <1>6, <1>9, <1>10 DEF Looks

LEMMA LooksNext ==
  ASSUME \A body, m : Receipt(body, m) # Unspent, Looks, [StudyNext]_studyVars
  PROVE  Looks'
<1>1. ASSUME NEW p \in protocols, Revise(p) PROVE Looks'
  BY <1>1 DEF Revise, Looks
<1>2. ASSUME NEW p \in protocols, NEW m \in MeasurementSets, Evaluate(p, m) PROVE Looks'
  BY <1>2, LooksEvaluate
<1>3. ASSUME NEW from \in State, NEW to \in State, NEW actor \in Actor, Authorize(from, to, actor)
      PROVE  Looks'
  BY <1>3 DEF Authorize, Looks
<1>4. CASE UNCHANGED studyVars
  BY <1>4 DEF studyVars, Looks
<1> QED
  BY <1>1, <1>2, <1>3, <1>4 DEF StudyNext, Study, Govern

\* No two final verdicts that evaluate ever returns are on one holdout
\* corpus, however its author revises, relabels and measures again
\* (evaluate, HoldoutLedger.consume).
THEOREM OneLookPerHoldoutHolds ==
  ASSUME \A body, m : Receipt(body, m) # Unspent
  PROVE  StudySpec => []OneLookPerHoldout
<1>1. StudyInit => Looks
  BY LooksInit
<1>2. Looks /\ [StudyNext]_studyVars => Looks'
  BY LooksNext
<1>3. Looks => OneLookPerHoldout
  <2> SUFFICES ASSUME Looks PROVE OneLookPerHoldout
    OBVIOUS
  <2>1. DOMAIN returned = 1..Len(returned)
    BY DEF Looks
  <2> QED
    BY <2>1 DEF Looks, OneLookPerHoldout
<1> QED
  BY <1>1, <1>2, <1>3, PTL DEF StudySpec

-----------------------------------------------------------------------------
(* Authorizations.                                                         *)

\* A verdict that reproduces and says CONTINUE has every required metric
\* pass: what is carried is what is scored.
LEMMA ContinuePasses ==
  ASSUME NEW p, NEW m, NEW verdict,
         Reproduces(p, m, verdict), verdict.body.decision = "CONTINUE"
  PROVE  \A metric \in Required :
           /\ DOMAIN m.values[metric] = Seed
           /\ Passes(metric, p.bar[metric], Median2(m.values[metric]))
<1> DEFINE metrics == Scored(p, m).metrics
<1>1. Scores(p, m) /\ Decision(metrics) = "CONTINUE"
  BY DEF Reproduces, Scored, Body
<1>2. Failing(metrics) = {}
  BY <1>1 DEF Decision
<1>3. metrics = [metric \in DOMAIN m.values |->
                   [bar |-> p.bar[metric], aggregate |-> Median2(m.values[metric])]]
  BY DEF Scored, Body
<1> HIDE DEF metrics
<1> SUFFICES ASSUME NEW metric \in Required
             PROVE  /\ DOMAIN m.values[metric] = Seed
                    /\ Passes(metric, p.bar[metric], Median2(m.values[metric]))
  OBVIOUS
<1>4. metric \in DOMAIN m.values /\ DOMAIN m.values[metric] = Seed
  BY <1>1 DEF Scores
<1>5. metric \in DOMAIN metrics \cap Required
  BY <1>3, <1>4
<1>6. Passes(metric, metrics[metric].bar, metrics[metric].aggregate)
  BY <1>2, <1>5 DEF Failing
<1>7. metrics[metric].bar = p.bar[metric] /\ metrics[metric].aggregate = Median2(m.values[metric])
  BY <1>3, <1>4
<1> QED
  BY <1>4, <1>6, <1>7

LEMMA EntitledMeans ==
  ASSUME NEW from \in State, NEW to \in State, NEW actor \in Actor, Entitled(from, to, actor)
  PROVE  /\ actor \in {"external_judge", "human_operator"}
         /\ to = "REJECTED" \/ <<from, to>> = <<"DEFINE", "SHADOW">>
         /\ from # "REJECTED"
  BY DEF Entitled, MayAuthorize, Untrusted, AllowedTransitions, State

LEMMA AuthorizeEarns ==
  ASSUME NEW from \in State, NEW to \in State, NEW actor \in Actor, Authorize(from, to, actor)
  PROVE  GrantsAreEarned'
<1>1. PICK p, verdict, m :
        /\ Verified(to, p, m, verdict)
        /\ grant' = [from |-> from, to |-> to, actor |-> actor,
                     protocol |-> p, measurements |-> m, verdict |-> verdict]
  BY DEF Authorize
<1>2. /\ actor \in {"external_judge", "human_operator"}
      /\ to = "REJECTED" \/ <<from, to>> = <<"DEFINE", "SHADOW">>
      /\ from # "REJECTED"
  BY EntitledMeans DEF Authorize
<1>3. ASSUME to = "SHADOW", verdict # None
      PROVE  \A metric \in Required :
               /\ DOMAIN m.values[metric] = Seed
               /\ Passes(metric, p.bar[metric], Median2(m.values[metric]))
  BY <1>1, <1>3, ContinuePasses DEF Verified
<1>4. /\ grant'.from = from /\ grant'.to = to /\ grant'.actor = actor
      /\ grant'.protocol = p /\ grant'.measurements = m /\ grant'.verdict = verdict
  BY <1>1
<1> QED
  BY <1>2, <1>3, <1>4 DEF GrantsAreEarned

\* Whatever is presented together and whoever edited what: an authorization
\* is of an entitled actor, reaches SHADOW at most, and a verdict that comes
\* with it is one that its measurements earn (authorize_transition).
THEOREM GrantsAreEarnedHolds == StudySpec => []GrantsAreEarned
<1>1. StudyInit => GrantsAreEarned
  BY DEF StudyInit, GrantsAreEarned
<1>2. GrantsAreEarned /\ [StudyNext]_studyVars => GrantsAreEarned'
  <2> SUFFICES ASSUME GrantsAreEarned, [StudyNext]_studyVars PROVE GrantsAreEarned'
    OBVIOUS
  <2>1. ASSUME NEW p \in protocols, Revise(p) PROVE GrantsAreEarned'
    BY <2>1 DEF Revise, GrantsAreEarned
  <2>2. ASSUME NEW p \in protocols, NEW m \in MeasurementSets, Evaluate(p, m)
        PROVE  GrantsAreEarned'
    BY <2>2 DEF Evaluate, GrantsAreEarned
  <2>3. ASSUME NEW from \in State, NEW to \in State, NEW actor \in Actor,
               Authorize(from, to, actor)
        PROVE  GrantsAreEarned'
    BY <2>3, AuthorizeEarns
  <2>4. CASE UNCHANGED studyVars
    BY <2>4 DEF studyVars, GrantsAreEarned
  <2> QED
    BY <2>1, <2>2, <2>3, <2>4 DEF StudyNext, Study, Govern
<1> QED
  BY <1>1, <1>2, PTL DEF StudySpec

-----------------------------------------------------------------------------
(* Medians.  A finite set of numbers has a least and a greatest element;   *)
(* the lower middle value is at most the upper one, and at least half of   *)
(* the values are on either side of each.                                  *)

LEMMA Extremes ==
  ASSUME NEW V \in SUBSET Nat, IsFiniteSet(V), V # {}
  PROVE  /\ Min(V) \in V /\ \A v \in V : Min(V) <= v
         /\ Max(V) \in V /\ \A v \in V : v <= Max(V)
<1> DEFINE R == StrictSubsetOrdering(V)
           F == FiniteSubsetsOf(V)
           below(v) == {u \in V : u < v}
           above(v) == {u \in V : u > v}
<1>1. IsWellFoundedOn(R, F) /\ F = SUBSET V
  BY FS_StrictSubsetOrderingWellFounded, FS_FiniteSubsetsOfFinite
<1>2. \A A, B \in SUBSET V : A \subseteq B /\ A # B => <<A, B>> \in R
  BY DEF StrictSubsetOrdering
<1> HIDE DEF R, F
<1>3. \E x \in V : \A y \in V : x <= y
  <2> DEFINE T == {below(v) : v \in V}
  <2>1. T \subseteq F /\ T # {}
    BY <1>1
  <2> HIDE DEF T
  <2>2. \E A \in T : \A B \in T : <<B, A>> \notin R
    BY <1>1, <2>1, WFMin
  <2>3. PICK v \in V : \A u \in V : <<below(u), below(v)>> \notin R
    BY <2>2 DEF T
  <2>4. ASSUME NEW u \in V, u < v PROVE FALSE
    <3>1. below(u) \subseteq below(v) /\ u \in below(v) /\ u \notin below(u)
      <4>1. \A w \in V : w \in Nat
        OBVIOUS
      <4>2. ~(u < u) /\ \A w \in V : w < u => w < v
        BY <2>4, <4>1, SMT
      <4> QED
        BY <2>4, <4>2, Zenon
    <3>2. below(u) \in SUBSET V /\ below(v) \in SUBSET V
      OBVIOUS
    <3> HIDE DEF below
    <3>3. <<below(u), below(v)>> \in R
      BY <1>2, <3>1, <3>2
    <3> QED
      BY <2>3, <3>3
  <2>5. \A u \in V : v <= u
    BY <2>4
  <2> QED
    BY <2>5
<1>4. \E x \in V : \A y \in V : x >= y
  <2> DEFINE T == {above(v) : v \in V}
  <2>1. T \subseteq F /\ T # {}
    BY <1>1
  <2> HIDE DEF T
  <2>2. \E A \in T : \A B \in T : <<B, A>> \notin R
    BY <1>1, <2>1, WFMin
  <2>3. PICK v \in V : \A u \in V : <<above(u), above(v)>> \notin R
    BY <2>2 DEF T
  <2>4. ASSUME NEW u \in V, u > v PROVE FALSE
    <3>1. above(u) \subseteq above(v) /\ u \in above(v) /\ u \notin above(u)
      <4>1. \A w \in V : w \in Nat
        OBVIOUS
      <4>2. ~(u > u) /\ \A w \in V : w > u => w > v
        BY <2>4, <4>1, SMT
      <4> QED
        BY <2>4, <4>2, Zenon
    <3>2. above(u) \in SUBSET V /\ above(v) \in SUBSET V
      OBVIOUS
    <3> HIDE DEF above
    <3>3. <<above(u), above(v)>> \in R
      BY <1>2, <3>1, <3>2
    <3> QED
      BY <2>3, <3>3
  <2>5. \A u \in V : v >= u
    BY <2>4
  <2> QED
    BY <2>5
<1>5. Min(V) \in V /\ \A v \in V : Min(V) <= v
  BY <1>3 DEF Min
<1>6. Max(V) \in V /\ \A v \in V : Max(V) >= v
  BY <1>4 DEF Max
<1> QED
  BY <1>5, <1>6

LEMMA Parts ==
  ASSUME NEW D, IsFiniteSet(D), NEW T \in SUBSET D
  PROVE  /\ IsFiniteSet(T) /\ Cardinality(D) \in Nat /\ Cardinality(T) \in 0..Cardinality(D)
         /\ Cardinality(D \ T) = Cardinality(D) - Cardinality(T)
<1>1. D \cap T = T
  OBVIOUS
<1>2. Cardinality(D \ T) = Cardinality(D) - Cardinality(T)
  BY <1>1, FS_Difference
<1>3. IsFiniteSet(T) /\ Cardinality(T) <= Cardinality(D)
  BY FS_Subset
<1>4. Cardinality(D) \in Nat /\ Cardinality(T) \in Nat
  BY <1>3, FS_CardinalityType
<1> QED
  BY <1>2, <1>3, <1>4

LEMMA Middle ==
  ASSUME NEW D, IsFiniteSet(D), D # {}, NEW values \in [D -> Nat]
  PROVE  \E lo, hi \in Nat :
           /\ Median2(values) = lo + hi /\ lo <= hi
           /\ 2 * Cardinality({s \in D : values[s] <= lo}) >= Cardinality(D)
           /\ 2 * Cardinality({s \in D : values[s] >= hi}) >= Cardinality(D)
<1> DEFINE among(v) == Cardinality({s \in D : values[s] <= v})
           from(v) == Cardinality({s \in D : values[s] >= v})
           seen == {values[s] : s \in D}
           n == Cardinality(D)
           Low == {v \in seen : 2 * among(v) >= n}
           High == {v \in seen : 2 * from(v) >= n}
<1>1. Median2(values) = Min(Low) + Max(High)
  BY DEF Median2
<1>2. n \in Nat /\ \A v \in Nat : among(v) \in Nat /\ from(v) \in Nat
  BY Parts
<1>3. IsFiniteSet(seen) /\ seen \in SUBSET Nat /\ seen # {}
  <2>1. values \in Surjection(D, seen)
    BY DEF Surjection
  <2> QED
    BY <2>1, FS_Surjection
<1>4. Max(seen) \in Low
  <2>1. Max(seen) \in seen /\ \A v \in seen : v <= Max(seen)
    BY <1>3, Extremes
  <2>2. {s \in D : values[s] <= Max(seen)} = D
    BY <2>1
  <2>3. among(Max(seen)) = n
    BY <2>2
  <2> HIDE DEF among, seen, n
  <2> QED
    BY <1>2, <2>1, <2>3
<1>5. Min(seen) \in High
  <2>1. Min(seen) \in seen /\ \A v \in seen : v >= Min(seen)
    <3>1. Min(seen) \in seen /\ \A v \in seen : Min(seen) <= v
      BY <1>3, Extremes
    <3> HIDE DEF seen
    <3> QED
      BY <1>3, <3>1
  <2>2. {s \in D : values[s] >= Min(seen)} = D
    BY <2>1
  <2>3. from(Min(seen)) = n
    BY <2>2
  <2> HIDE DEF from, seen, n
  <2> QED
    BY <1>2, <2>1, <2>3
<1>6. /\ IsFiniteSet(Low) /\ Low \in SUBSET Nat /\ Low # {}
      /\ IsFiniteSet(High) /\ High \in SUBSET Nat /\ High # {}
  <2> HIDE DEF seen, among, from, n
  <2>1. Low \in SUBSET seen /\ High \in SUBSET seen
    OBVIOUS
  <2> HIDE DEF Low, High
  <2> QED
    BY <1>3, <1>4, <1>5, <2>1, FS_Subset
<1> DEFINE lo == Min(Low)
           hi == Max(High)
<1>7. /\ lo \in Low /\ \A v \in Low : lo <= v
      /\ hi \in High /\ \A v \in High : v <= hi
  <2> HIDE DEF Low, High
  <2> QED
    BY <1>6, Extremes
<1> HIDE DEF lo, hi
<1>8. lo \in Nat /\ hi \in Nat /\ 2 * among(lo) >= n /\ 2 * from(hi) >= n
  BY <1>3, <1>7
<1>9. ASSUME lo > hi PROVE FALSE
  <2> DEFINE Prior == {v \in seen : v < lo}
             u == Max(Prior)
  <2>1. hi \in Prior
    BY <1>7, <1>8, <1>9
  <2>2. IsFiniteSet(Prior) /\ Prior \in SUBSET Nat
    <3> HIDE DEF seen
    <3>1. Prior \in SUBSET seen
      OBVIOUS
    <3> QED
      BY <1>3, <3>1, FS_Subset
  <2>3. u \in Prior /\ \A v \in Prior : v <= u
    <3> HIDE DEF Prior
    <3> QED
      BY <2>1, <2>2, Extremes
  <2> HIDE DEF u
  <2>4. u \in seen /\ u \in Nat /\ u < lo
    BY <1>3, <2>3
  <2>5. 2 * among(u) < n
    <3>1. u \notin Low
      BY <1>7, <1>8, <2>4
    <3>2. ~(2 * among(u) >= n)
      BY <2>4, <3>1, Zenon
    <3>3. among(u) \in Nat /\ n \in Nat
      BY <1>2, <2>4
    <3> DEFINE a == among(u)
    <3> HIDE DEF a, n
    <3>4. a \in Nat /\ n \in Nat /\ ~(2 * a >= n)
      BY <3>2, <3>3 DEF a
    <3>5. 2 * a < n
      BY <3>4
    <3> QED
      BY <3>5 DEF a
  <2>6. {s \in D : values[s] >= lo} = D \ {s \in D : values[s] <= u}
    <3>1. \A s \in D : values[s] \in Nat /\ values[s] \in seen
      <4>1. \A s \in D : values[s] \in Nat
        OBVIOUS
      <4>2. \A s \in D : values[s] \in seen
        BY Zenon
      <4> QED
        BY <4>1, <4>2
    <3>2. \A s \in D : values[s] < lo => values[s] <= u
      BY <2>3, <3>1
    <3>3. \A s \in D : values[s] >= lo <=> ~(values[s] <= u)
      <4> HIDE DEF seen
      <4> QED
        BY <1>8, <2>4, <3>1, <3>2
    <3> QED
      BY <3>3, Zenon
  <2>7. from(lo) = n - among(u)
    BY <2>6, Parts
  <2>8. 2 * from(lo) >= n
    <3> HIDE DEF seen, among, from, n
    <3> QED
      BY <1>2, <1>8, <2>4, <2>5, <2>7
  <2>9. lo \in High
    BY <1>7, <2>8
  <2> HIDE DEF High
  <2>10. lo <= hi
    BY <1>7, <2>9
  <2> QED
    BY <1>8, <1>9, <2>10
<1> QED
  <2>1. Median2(values) = lo + hi
    BY <1>1 DEF lo, hi
  <2>2. lo <= hi
    <3> HIDE DEF among, from, n
    <3> QED
      BY <1>8, <1>9
  <2> HIDE DEF Low, High
  <2>3. /\ Median2(values) = lo + hi /\ lo <= hi
        /\ 2 * Cardinality({s \in D : values[s] <= lo}) >= Cardinality(D)
        /\ 2 * Cardinality({s \in D : values[s] >= hi}) >= Cardinality(D)
    BY <1>8, <2>1, <2>2
  <2> QED
    BY <1>8, <2>3

\* A metric whose median meets its threshold meets it on half of the seeds.
LEMMA HalfPass ==
  ASSUME NEW metric, NEW bar \in Nat, NEW values \in [Seed -> Nat],
         Passes(metric, bar, Median2(values))
  PROVE  2 * Cardinality({s \in Seed : Passes(metric, bar, 2 * values[s])}) >= Cardinality(Seed)
<1> DEFINE meeting == {s \in Seed : Passes(metric, bar, 2 * values[s])}
<1>1. IsFiniteSet(Seed) /\ Seed # {} /\ Cardinality(Seed) \in Nat
  BY EvaluationAssumption, FS_EmptySet, FS_CardinalityType
<1>2. PICK lo \in Nat, hi \in Nat :
        /\ Median2(values) = lo + hi /\ lo <= hi
        /\ 2 * Cardinality({s \in Seed : values[s] <= lo}) >= Cardinality(Seed)
        /\ 2 * Cardinality({s \in Seed : values[s] >= hi}) >= Cardinality(Seed)
  BY <1>1, Middle
<1>3. \E T \in SUBSET meeting : 2 * Cardinality(T) >= Cardinality(Seed)
  <2>1. CASE metric \in LowerIsBetter
    <3>1. lo <= bar
      BY <1>2, <2>1 DEF Passes
    <3>2. \A s \in Seed : values[s] <= lo => Passes(metric, bar, 2 * values[s])
      BY <2>1, <3>1 DEF Passes
    <3>3. {s \in Seed : values[s] <= lo} \in SUBSET meeting
      BY <3>2
    <3> QED
      BY <1>2, <3>3
  <2>2. CASE metric \notin LowerIsBetter
    <3>1. hi >= bar
      BY <1>2, <2>2 DEF Passes
    <3>2. \A s \in Seed : values[s] >= hi => Passes(metric, bar, 2 * values[s])
      BY <2>2, <3>1 DEF Passes
    <3>3. {s \in Seed : values[s] >= hi} \in SUBSET meeting
      BY <3>2
    <3> QED
      BY <1>2, <3>3
  <2> QED
    BY <2>1, <2>2
<1>4. meeting \in SUBSET Seed
  OBVIOUS
<1> HIDE DEF meeting
<1>5. PICK T \in SUBSET meeting : 2 * Cardinality(T) >= Cardinality(Seed)
  BY <1>3
<1>6. /\ IsFiniteSet(meeting) /\ Cardinality(meeting) \in Nat
      /\ Cardinality(T) \in 0..Cardinality(meeting)
  BY <1>1, <1>4, Parts
<1>7. 2 * Cardinality(meeting) >= Cardinality(Seed)
  BY <1>1, <1>5, <1>6
<1> QED
  BY <1>7 DEF meeting

-----------------------------------------------------------------------------
(* Final verdicts are complete.  The invariant keeps, for every verdict    *)
(* that was returned, the protocol and the measurements it was scored      *)
(* from: both stay what they were, and so does the receipt, because the    *)
(* corpus is never spent again.                                            *)

Used == {c \in Corpus : spent[c] # Unspent}

FromScores(look) ==
  \E p \in protocols, m \in MeasurementSets :
    /\ m.split = "HOLDOUT" /\ Scores(p, m) /\ look = Sealed(Scored(p, m))
    /\ spent[look.body.corpus] = Receipt(Scored(p, m), m)

Witnessed == \A i \in 1..Len(returned) : FromScores(returned[i])

Held ==
  /\ \A p \in protocols : p.revision \in 1..MaxRevision /\ p.bar \in Bars
  /\ \A c \in Corpus :
       spent[c] # Unspent => spent[c].protocol \in {ProtocolSeal(p) : p \in protocols}
  /\ IsFiniteSet(Used) /\ Len(returned) <= Cardinality(Used)

StudyInv == Looks /\ Held /\ Witnessed

LEMMA MeasurementsGrow ==
  ASSUME protocols \subseteq protocols'
  PROVE  /\ MeasurementSets \subseteq MeasurementSets'
         /\ {ProtocolSeal(p) : p \in protocols} \subseteq {ProtocolSeal(p) : p \in protocols'}
<1>1. {ProtocolSeal(p) : p \in protocols} \subseteq {ProtocolSeal(p) : p \in protocols'}
  OBVIOUS
<1> QED
  BY <1>1 DEF MeasurementSets

LEMMA StudyInvInit == StudyInit => StudyInv
<1> SUFFICES ASSUME StudyInit PROVE StudyInv
  OBVIOUS
<1>1. Len(returned) = 0 /\ \A c \in Corpus : spent[c] = Unspent
  BY DEF StudyInit, NoReceipts
<1>2. Used = {} /\ IsFiniteSet(Used) /\ Cardinality(Used) = 0
  BY <1>1, FS_EmptySet DEF Used
<1>3. \A p \in protocols : p.revision \in 1..MaxRevision /\ p.bar \in Bars
  BY EvaluationAssumption DEF StudyInit, Protocol
<1> QED
  BY <1>1, <1>2, <1>3, LooksInit DEF StudyInv, Held, Witnessed

\* A step that spends nothing and returns nothing keeps every witness.
LEMMA OthersWitness ==
  ASSUME StudyInv, protocols \subseteq protocols', UNCHANGED <<spent, returned>>,
         \A p \in protocols' : p.revision \in 1..MaxRevision /\ p.bar \in Bars
  PROVE  StudyInv'
<1>1. Looks'
  BY DEF StudyInv, Looks
<1>2. Held'
  <2>1. Used' = Used
    BY DEF Used
  <2> HIDE DEF Used
  <2> QED
    BY <2>1, MeasurementsGrow DEF StudyInv, Held
<1>3. ASSUME NEW look, FromScores(look) PROVE FromScores(look)'
  BY <1>3, MeasurementsGrow DEF FromScores
<1>4. Witnessed'
  BY <1>3 DEF StudyInv, Witnessed
<1> QED
  BY <1>1, <1>2, <1>4 DEF StudyInv

LEMMA EvaluateWitnesses ==
  ASSUME \A body, m : Receipt(body, m) # Unspent,
         StudyInv, NEW p \in protocols, NEW m \in MeasurementSets, Evaluate(p, m)
  PROVE  StudyInv'
<1> DEFINE body == Scored(p, m)
           look == Sealed(body)
           c == body.corpus
<1>1. /\ m.split = "HOLDOUT" /\ Scores(p, m) /\ NotSpent(body)
      /\ spent' = [spent EXCEPT ![c] = Receipt(body, m)]
      /\ returned' = Append(returned, look)
      /\ protocols' = protocols
  BY DEF Evaluate
<1>2. c \in Corpus /\ look.body = body /\ body.protocol = ProtocolSeal(p)
  BY DEF Scored, Body, Sealed, MeasurementSets
<1>3. Looks /\ Looks'
  BY LooksEvaluate DEF StudyInv
<1>4. FromScores(look)'
  <2>1. spent'[look.body.corpus] = Receipt(body, m)
    BY <1>1, <1>2, <1>3 DEF Looks
  <2>2. m \in MeasurementSets' /\ p \in protocols'
    BY <1>1 DEF MeasurementSets
  <2> QED
    BY <1>1, <2>1, <2>2 DEF FromScores
<1> HIDE DEF body, look, c
<1>5. /\ Len(returned) \in Nat /\ Len(returned') = Len(returned) + 1
      /\ \A i \in 1..Len(returned) : returned'[i] = returned[i]
      /\ returned'[Len(returned) + 1] = look
  <2>1. PICK S : returned \in Seq(S)
    BY <1>3 DEF Looks
  <2>2. returned \in Seq(S \cup {look})
    BY <2>1
  <2> QED
    BY <1>1, <2>2
<1>6. \A d \in Corpus \ {c} : spent'[d] = spent[d]
  BY <1>1, <1>2, <1>3 DEF Looks
<1>7. c \notin Used /\ Used' = Used \cup {c}
  <2>1. spent[c] = Unspent
    BY <1>1 DEF NotSpent, c
  <2>2. spent'[c] = Receipt(body, m)
    BY <1>1, <1>2, <1>3 DEF Looks
  <2> QED
    BY <1>2, <1>6, <2>1, <2>2 DEF Used
<1>8. Held'
  <2>1. IsFiniteSet(Used') /\ Cardinality(Used') = Cardinality(Used) + 1
    BY <1>7, FS_AddElement DEF StudyInv, Held
  <2>2. Cardinality(Used) \in Nat
    BY FS_CardinalityType DEF StudyInv, Held
  <2> HIDE DEF Used
  <2>3. IsFiniteSet(Used)' /\ (Len(returned) <= Cardinality(Used))'
    BY <1>5, <2>1, <2>2 DEF StudyInv, Held
  <2>4. spent'[c].protocol = ProtocolSeal(p)
    BY <1>1, <1>2, <1>3 DEF Looks, Receipt
  <2>5. \A d \in Corpus :
          spent'[d] # Unspent => spent'[d].protocol \in {ProtocolSeal(q) : q \in protocols'}
    BY <1>1, <1>6, <2>4 DEF StudyInv, Held
  <2>6. \A q \in protocols' : q.revision \in 1..MaxRevision /\ q.bar \in Bars
    BY <1>1 DEF StudyInv, Held
  <2> QED
    BY <2>3, <2>5, <2>6 DEF Held
<1>9. ASSUME NEW i \in 1..Len(returned) PROVE FromScores(returned[i])'
  <2>1. returned[i].body.corpus \in Corpus \ {c} /\ FromScores(returned[i])
    <3>1. spent[returned[i].body.corpus] # Unspent /\ returned[i].body.corpus \in Corpus
      BY <1>3, <1>9 DEF Looks
    <3>2. spent[c] = Unspent
      BY <1>1 DEF NotSpent, c
    <3> QED
      BY <1>9, <3>1, <3>2 DEF StudyInv, Witnessed
  <2>2. returned'[i] = returned[i]
    BY <1>5, <1>9
  <2> DEFINE old == returned[i]
  <2>3. FromScores(old) /\ old.body.corpus \in Corpus \ {c} /\ returned'[i] = old
    BY <2>1, <2>2
  <2> HIDE DEF old
  <2>4. PICK q \in protocols, n \in MeasurementSets :
          /\ n.split = "HOLDOUT" /\ Scores(q, n) /\ old = Sealed(Scored(q, n))
          /\ spent[old.body.corpus] = Receipt(Scored(q, n), n)
    BY <2>3 DEF FromScores
  <2>5. spent'[old.body.corpus] = Receipt(Scored(q, n), n)
    BY <1>6, <2>3, <2>4
  <2>6. n \in MeasurementSets' /\ q \in protocols'
    BY <1>1 DEF MeasurementSets
  <2> QED
    BY <2>3, <2>4, <2>5, <2>6 DEF FromScores
<1>10. FromScores(returned[Len(returned)])'
  <2>1. returned'[Len(returned')] = look
    BY <1>5
  <2>2. /\ m.split = "HOLDOUT" /\ Scores(p, m) /\ look = Sealed(body)
        /\ spent'[look.body.corpus] = Receipt(body, m)
    BY <1>1, <1>2, <1>3 DEF look, c, Looks
  <2>3. m \in MeasurementSets' /\ p \in protocols'
    BY <1>1 DEF MeasurementSets
  <2> QED
    BY <2>1, <2>2, <2>3 DEF FromScores, body
<1>11. Witnessed'
  <2>1. \A i \in 1..Len(returned') : i \in 1..Len(returned) \/ i = Len(returned')
    BY <1>5
  <2> QED
    BY <1>9, <1>10, <2>1 DEF Witnessed
<1> QED
  BY <1>3, <1>8, <1>11 DEF StudyInv

LEMMA StudyInvNext ==
  ASSUME \A body, m : Receipt(body, m) # Unspent, StudyInv, [StudyNext]_studyVars
  PROVE  StudyInv'
<1>1. ASSUME NEW p \in protocols, Revise(p) PROVE StudyInv'
  <2>1. PICK revision \in (p.revision + 1)..MaxRevision, e \in Epoch, corpus \in Corpora, bar \in Bars :
          protocols' = protocols \cup {Protocol(revision, e, corpus, bar)}
    BY <1>1 DEF Revise
  <2>2. p.revision \in Nat
    BY DEF StudyInv, Held
  <2>3. revision \in 1..MaxRevision
    BY <2>2, EvaluationAssumption
  <2>4. \A q \in protocols' : q.revision \in 1..MaxRevision /\ q.bar \in Bars
    BY <2>1, <2>3 DEF StudyInv, Held, Protocol
  <2> QED
    BY <1>1, <2>1, <2>4, OthersWitness DEF Revise
<1>2. ASSUME NEW p \in protocols, NEW m \in MeasurementSets, Evaluate(p, m) PROVE StudyInv'
  BY <1>2, EvaluateWitnesses
<1>3. ASSUME UNCHANGED <<protocols, spent, returned>> PROVE StudyInv'
  BY <1>3, OthersWitness DEF StudyInv, Held
<1>4. ASSUME NEW from \in State, NEW to \in State, NEW actor \in Actor, Authorize(from, to, actor)
      PROVE  StudyInv'
  BY <1>3, <1>4 DEF Authorize
<1>5. CASE UNCHANGED studyVars
  BY <1>3, <1>5 DEF studyVars
<1> QED
  BY <1>1, <1>2, <1>4, <1>5 DEF StudyNext, Study, Govern

\* What a verdict scored from measurements says of them.
LEMMA ScoredSays ==
  ASSUME NEW p, NEW m, Scores(p, m), p.bar \in Bars, m.values \in Results
  PROVE  LET body == Scored(p, m)
         IN  /\ \A metric \in Required \cup DOMAIN m.values :
                  /\ DOMAIN m.values[metric] = Seed
                  /\ body.metrics[metric].bar = p.bar[metric]
             /\ body.decision = "CONTINUE" =>
                  \A metric \in Required :
                    2 * Cardinality({s \in Seed :
                      Passes(metric, p.bar[metric], 2 * m.values[metric][s])}) >= Cardinality(Seed)
<1> DEFINE metrics == [metric \in DOMAIN m.values |->
                         [bar |-> p.bar[metric], aggregate |-> Median2(m.values[metric])]]
           body == Scored(p, m)
<1>1. body.metrics = metrics /\ body.decision = Decision(metrics)
  BY DEF Scored, Body
<1>2. \A metric \in DOMAIN m.values : DOMAIN m.values[metric] = Seed
  BY DEF Scores
<1>3. Required \subseteq DOMAIN m.values /\ DOMAIN m.values \subseteq Metric
  BY DEF Scores
<1>4. \A metric \in DOMAIN m.values :
        /\ metrics[metric].bar = p.bar[metric]
        /\ metrics[metric].aggregate = Median2(m.values[metric])
  OBVIOUS
<1>5. DOMAIN metrics = DOMAIN m.values
  OBVIOUS
<1> HIDE DEF metrics, body
<1>6. ASSUME body.decision = "CONTINUE", NEW metric \in Required
      PROVE  2 * Cardinality({s \in Seed :
               Passes(metric, p.bar[metric], 2 * m.values[metric][s])}) >= Cardinality(Seed)
  <2>1. Failing(metrics) = {}
    BY <1>1, <1>6 DEF Decision
  <2>2. metric \in DOMAIN metrics \cap Required
    BY <1>3, <1>5
  <2>3. Passes(metric, metrics[metric].bar, metrics[metric].aggregate)
    BY <2>1, <2>2 DEF Failing
  <2>4. metrics[metric].bar = p.bar[metric] /\ metrics[metric].aggregate = Median2(m.values[metric])
    BY <1>4, <2>2, <1>5
  <2>5. Passes(metric, p.bar[metric], Median2(m.values[metric]))
    BY <2>3, <2>4
  <2>6. p.bar[metric] \in Nat
    BY <1>3, EvaluationAssumption
  <2>7. m.values[metric] \in [Seed -> Nat]
    BY <1>2, <1>3, EvaluationAssumption
  <2> DEFINE bar == p.bar[metric]
             values == m.values[metric]
  <2>8. bar \in Nat /\ values \in [Seed -> Nat] /\ Passes(metric, bar, Median2(values))
    BY <2>5, <2>6, <2>7
  <2> HIDE DEF bar, values
  <2>9. 2 * Cardinality({s \in Seed : Passes(metric, bar, 2 * values[s])}) >= Cardinality(Seed)
    BY <2>8, HalfPass
  <2> QED
    BY <2>9 DEF bar, values
<1>7. \A metric \in Required \cup DOMAIN m.values :
        DOMAIN m.values[metric] = Seed /\ body.metrics[metric].bar = p.bar[metric]
  BY <1>1, <1>2, <1>3, <1>4
<1> QED
  BY <1>6, <1>7 DEF body

\* Every final verdict that evaluate returns has a result for every seed of
\* every metric its protocol requires, against the thresholds of that
\* protocol, and stays the one its corpus was spent on; when it says CONTINUE,
\* each required metric meets its threshold on at least half of the seeds
\* (score_measurements, evaluate).
THEOREM FinalVerdictsAreCompleteHolds ==
  ASSUME \A body, m : Receipt(body, m) # Unspent
  PROVE  StudySpec => []FinalVerdictsAreComplete
<1>1. StudyInit => StudyInv
  BY StudyInvInit
<1>2. StudyInv /\ [StudyNext]_studyVars => StudyInv'
  BY StudyInvNext
<1>3. StudyInv => FinalVerdictsAreComplete
  <2> SUFFICES ASSUME StudyInv PROVE FinalVerdictsAreComplete
    OBVIOUS
  <2>1. DOMAIN returned = 1..Len(returned)
    BY DEF StudyInv, Looks
  <2>2. StudyTypeOK
    BY DEF StudyInv, Held, StudyTypeOK, Used
  <2>3. ASSUME NEW i \in 1..Len(returned)
        PROVE  LET body == returned[i].body
               IN  \E p \in protocols, m \in MeasurementSets :
                     /\ spent[body.corpus] = Receipt(body, m)
                     /\ body.protocol = ProtocolSeal(p) /\ body.corpus = p.corpus["HOLDOUT"]
                     /\ \A metric \in Required \cup DOMAIN m.values :
                          /\ DOMAIN m.values[metric] = Seed
                          /\ body.metrics[metric].bar = p.bar[metric]
                     /\ body.decision = "CONTINUE" =>
                          \A metric \in Required :
                            2 * Cardinality({s \in Seed :
                              Passes(metric, p.bar[metric], 2 * m.values[metric][s])})
                            >= Cardinality(Seed)
    <3> DEFINE look == returned[i]
    <3>1. FromScores(look)
      BY <2>3 DEF StudyInv, Witnessed
    <3> HIDE DEF look
    <3>2. PICK p \in protocols, m \in MeasurementSets :
            /\ m.split = "HOLDOUT" /\ Scores(p, m) /\ look = Sealed(Scored(p, m))
            /\ spent[look.body.corpus] = Receipt(Scored(p, m), m)
      BY <3>1 DEF FromScores
    <3> DEFINE body == Scored(p, m)
    <3>3. body.protocol = ProtocolSeal(p) /\ body.corpus = p.corpus["HOLDOUT"]
      BY <3>2 DEF Scored, Body, Scores
    <3>4. p.bar \in Bars /\ m.values \in Results
      BY <3>2 DEF StudyInv, Held, MeasurementSets
    <3>5. /\ \A metric \in Required \cup DOMAIN m.values :
               DOMAIN m.values[metric] = Seed /\ body.metrics[metric].bar = p.bar[metric]
          /\ body.decision = "CONTINUE" =>
               \A metric \in Required :
                 2 * Cardinality({s \in Seed :
                   Passes(metric, p.bar[metric], 2 * m.values[metric][s])}) >= Cardinality(Seed)
      BY <3>2, <3>4, ScoredSays
    <3>6. look.body = body
      BY <3>2 DEF Sealed
    <3> HIDE DEF body
    <3>7. spent[body.corpus] = Receipt(body, m)
      BY <3>2, <3>6 DEF body
    <3> QED
      BY <3>3, <3>5, <3>6, <3>7 DEF look
  <2> QED
    BY <2>1, <2>2, <2>3 DEF FinalVerdictsAreComplete
<1> QED
  BY <1>1, <1>2, <1>3, PTL DEF StudySpec
=============================================================================
