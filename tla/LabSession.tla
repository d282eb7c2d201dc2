----------------------------- MODULE LabSession -----------------------------
(***************************************************************************)
(* One diagnosis episode of the lab, fed from source: lab/state.py, the    *)
(* literal bridge lab/source_session.py, the host bridge                   *)
(* lab/host_session.py with lab/host_observations.py, and the confined     *)
(* reads of lab/observations.py that both stand on.                        *)
(*                                                                         *)
(* Nothing is stored by the package: the caller holds the snapshot, the    *)
(* reports of tools and the chain of revisions, and presents them at each  *)
(* call.  A call reads the files of its coverage one after the other while *)
(* editors change them, so whatever it concludes was read at several       *)
(* instants.  The caller may present an older prefix of its chain, start   *)
(* over, capture again, present a report late or twice, and may have       *)
(* edited one revision in place.                                           *)
(*                                                                         *)
(* A file is its bytes, of which the model keeps whether they are UTF-8    *)
(* text and the probes whose literal or anchor occurs in them, or, for a   *)
(* probe without an anchor, the probes of which a tool may find a result   *)
(* there; the digest and size of bytes stand for the bytes.  Weights are   *)
(* positive and never change, so a posterior is the set of worlds that are *)
(* left.                                                                   *)
(***************************************************************************)
EXTENDS Naturals, Sequences, FiniteSets, SequencesExt, Seals

CONSTANTS
  Path, Probe, World, Outcome, Id,
  Bytes,          \* contents of files: records [text, has]
  Predicts,       \* the model: the outcome of each probe in each world
  Tool,
  LabReader,      \* the lab's own reader, one of the tools
  Catalogs,       \* probe catalogs of the host bridge
  SourceCatalogs, \* probe catalogs of the literal bridge
  Policies,
  MaxClock,       \* bound on the caller's clock
  MaxEdits,       \* bound on changes of files
  MaxReports,     \* bound on reports of tools in one behaviour
  MaxTampers,     \* bound on edits of revisions in place
  None

\* Where a located probe may find its result, or what a probe may show.
Sign == Path \cup {"empty", "passed", "failed"}

ASSUME LabBounds == {MaxClock, MaxEdits, MaxReports, MaxTampers} \subseteq Nat
ASSUME LabPaths == IsFiniteSet(Path)
ASSUME LabBytes == Bytes \subseteq [text : BOOLEAN, has : SUBSET Probe] /\ None \notin Bytes
ASSUME LabModel == World # {} /\ Predicts \in [Probe -> [World -> Outcome]]
ASSUME LabReaderIsATool == LabReader \in Tool

VARIABLES
  content,   \* the bytes of each file, or None
  now,       \* the caller's clock
  snapshot,  \* the snapshot the caller holds, or None: [manifest, at]
  chain,     \* the episode the caller holds: its revisions, oldest first
  work,      \* the call that runs, with what it has read so far
  reports,   \* the host observations the caller holds
  edits, tampers

files == <<content, edits>>
caller == <<snapshot, chain, reports, tampers>>
vars == <<files, caller, now, work>>

-----------------------------------------------------------------------------
(* Catalogs, snapshots and bindings.                                       *)

Located == {"literal", "navigation", "diff"}

\* A located kind maps every path and the empty result, a check maps its
\* two verdicts, a read maps nothing; the empty outcome is not a located one.
SaysOf(kind, paths) ==
  CASE kind \in Located -> paths \cup {"empty"}
    [] kind = "check" -> {"passed", "failed"}
    [] kind = "read" -> {}

Coherent(spec) ==
  /\ spec.kind \in Located \cup {"check", "read"}
  /\ spec.paths # {} /\ spec.paths \subseteq Path
  /\ DOMAIN spec.says = SaysOf(spec.kind, spec.paths)
  /\ spec.kind \in Located => \A path \in spec.paths : spec.says[path] # spec.says["empty"]
  /\ spec.kind = "check" => spec.says["passed"] # spec.says["failed"]
  /\ spec.kind = "literal" => spec.anchored

\* A probe of the literal bridge is present in any of its files or absent.
PresentOrAbsent(spec) ==
  spec.kind = "literal" /\ Cardinality({spec.says[path] : path \in spec.paths}) = 1

\* Outcomes are those of the model's probes, paths those of the snapshot.
\* Probes that a host catalog leaves out are those it declares external.
CoversModel(catalog) ==
  \A p \in Probe : p \in DOMAIN catalog /\ PresentOrAbsent(catalog[p])
FitsModel(catalog) ==
  /\ DOMAIN catalog \subseteq Probe
  /\ \A p \in DOMAIN catalog : Range(catalog[p].says) \subseteq Outcome

ASSUME LabCatalogs ==
  /\ \A c \in Catalogs \cup SourceCatalogs :
       FitsModel(c) /\ \A p \in DOMAIN c : Coherent(c[p])
  /\ \A c \in SourceCatalogs : CoversModel(c)

SourceBinding(snap, catalog) ==
  Seal("lab.source-session.binding.v1", <<snap.manifest, catalog>>)
HostBinding(snap, catalog, policy) ==
  Seal("lab.host-session.binding.v1", <<snap.manifest, catalog, policy>>)

\* The caller's session: a bridge with the catalog and policy it is given.
Sessions ==
  [bridge : {"source"}, catalog : SourceCatalogs, policy : {None}]
    \cup [bridge : {"host"}, catalog : Catalogs, policy : Policies]

Binding(s) ==
  IF s.bridge = "source" THEN SourceBinding(snapshot, s.catalog)
  ELSE HostBinding(snapshot, s.catalog, s.policy)

FitsSession(s) ==
  s.bridge = "host" =>
    \A p \in DOMAIN s.catalog :
      /\ s.policy.mode = "SOURCE_ONLY" => s.catalog[p].kind # "navigation"
      /\ s.catalog[p].tool \notin s.policy.retired

-----------------------------------------------------------------------------
(* The chain of revisions.                                                 *)

Initial(binding) ==
  [binding |-> binding, prior |-> None, obs |-> None, pairs |-> <<>>, posterior |-> World]

Filter(posterior, p, outcome) == {w \in posterior : Predicts[p][w] = outcome}

Acquired(revision) == {pair[1] : pair \in Range(revision.pairs)}

StateSeal(revision) == Seal("lab.state.v1", revision)

Extended(prior, obs) ==
  [binding |-> prior.binding,
   prior |-> StateSeal(prior),
   obs |-> obs,
   pairs |-> Append(prior.pairs, <<obs.probe, obs.outcome>>),
   posterior |-> Filter(prior.posterior, obs.probe, obs.outcome)]

\* What a well-formed revision above 0 must say of itself (load_state).
Loads(revision) ==
  /\ revision.prior # None /\ revision.obs # None /\ revision.posterior # {}
  /\ revision.pairs # <<>>
  /\ Last(revision.pairs) = <<revision.obs.probe, revision.obs.outcome>>
  /\ \A i, j \in DOMAIN revision.pairs :
       revision.pairs[i][1] = revision.pairs[j][1] => i = j

NotBefore(current, obs) == current.obs # None => current.obs.at <= obs.at

\* Mutant: the posterior is believed, not recomputed.
FollowsLoosely(current, next) ==
  /\ Loads(next)
  /\ next.binding = current.binding
  /\ next.prior = StateSeal(current)
  /\ NotBefore(current, next.obs)
  /\ next.obs.probe \notin Acquired(current)
  /\ next.pairs = Append(current.pairs, <<next.obs.probe, next.obs.outcome>>)

\* One link of verify_state_history.
Follows(current, next) ==
  /\ Loads(next)
  /\ NotBefore(current, next.obs)
  /\ next.obs.probe \notin Acquired(current)
  /\ next = Extended(current, next.obs)

Replays(history, binding) ==
  /\ history # <<>>
  /\ history[1] = Initial(binding)
  /\ \A i \in 2..Len(history) : Follows(history[i - 1], history[i])
  /\ \A i, j \in 2..Len(history) : history[i].obs.id = history[j].obs.id => i = j

\* apply_observation accepts; the binding and the chain were confirmed.
CanExtend(history, obs) ==
  /\ \A i \in 2..Len(history) : history[i].obs.id # obs.id
  /\ NotBefore(Last(history), obs)
  /\ obs.probe \notin Acquired(Last(history))
  /\ Filter(Last(history).posterior, obs.probe, obs.outcome) # {}

ChainAfter(id, p, outcome, at) ==
  LET obs == [id |-> id, probe |-> p, outcome |-> outcome, at |-> at]
  IN  IF CanExtend(chain, obs) THEN Append(chain, Extended(Last(chain), obs)) ELSE chain

\* The chain belongs to the session that the call derives, and replays.
Trusts(s) == snapshot # None /\ FitsSession(s) /\ Replays(chain, Binding(s))

\* The checks that both bridges make before they read anything.
Admits(s, p) ==
  /\ Trusts(s)
  /\ p \notin Acquired(Last(chain))
  /\ p \in DOMAIN s.catalog

-----------------------------------------------------------------------------
(* Reading, and what everybody else does meanwhile.                        *)

Idle == [op |-> "none"]

\* Coverage is read file by file, in the order of the paths.
NextOf(paths) == CHOOSE path \in paths : TRUE

Manifest == snapshot.manifest
Matches(path) == content[path] = Manifest[path]

Init ==
  /\ content \in [Path -> Bytes]
  /\ now = 0 /\ snapshot = None /\ chain = <<>> /\ work = Idle
  /\ reports = <<>> /\ edits = 0 /\ tampers = 0

Tick ==
  /\ now < MaxClock
  /\ now' = now + 1
  /\ UNCHANGED <<files, caller, work>>

Edit(path) ==
  /\ edits < MaxEdits
  /\ \E bytes \in (Bytes \cup {None}) \ {content[path]} :
       content' = [content EXCEPT ![path] = bytes]
  /\ edits' = edits + 1
  /\ UNCHANGED <<caller, now, work>>

BeginCapture ==
  /\ work = Idle
  /\ work' = [op |-> "capture", left |-> Path, at |-> now, seen |-> <<>>]
  /\ UNCHANGED <<files, caller, now>>

With(seen, path) ==
  [q \in DOMAIN seen \cup {path} |-> IF q = path THEN content[path] ELSE seen[q]]

\* A file that cannot be read refuses the whole capture.
CaptureRead ==
  /\ work.op = "capture" /\ work.left # {}
  /\ LET path == NextOf(work.left)
     IN  work' = IF content[path] = None THEN Idle
                 ELSE [work EXCEPT !.left = @ \ {path}, !.seen = With(@, path)]
  /\ UNCHANGED <<files, caller, now>>

EndCapture ==
  /\ work.op = "capture" /\ work.left = {}
  /\ snapshot' = [manifest |-> work.seen, at |-> work.at]
  /\ work' = Idle
  /\ UNCHANGED <<files, chain, reports, tampers, now>>

StartEpisode(s) ==
  /\ work = Idle /\ snapshot # None /\ FitsSession(s)
  /\ chain' = <<Initial(Binding(s))>>
  /\ UNCHANGED <<files, snapshot, reports, tampers, now, work>>

\* The caller goes on from an older revision.
Rewind ==
  /\ work = Idle
  /\ \E n \in 1..(Len(chain) - 1) : chain' = SubSeq(chain, 1, n)
  /\ UNCHANGED <<files, snapshot, reports, tampers, now, work>>

\* Edits of one revision in place.
Tampered(revision) ==
  {[revision EXCEPT !.posterior = ws] : ws \in (SUBSET World) \ {{}}}
    \cup {[revision EXCEPT !.obs.outcome = o, !.pairs[Len(revision.pairs)][2] = o] :
            o \in Outcome}
    \cup {[revision EXCEPT !.obs.at = t] : t \in 0..MaxClock}

Tamper ==
  /\ work = Idle /\ tampers < MaxTampers
  /\ \E i \in 2..Len(chain) :
       \E revision \in Tampered(chain[i]) \ {chain[i]} : chain' = [chain EXCEPT ![i] = revision]
  /\ tampers' = tampers + 1
  /\ UNCHANGED <<files, snapshot, reports, now, work>>

-----------------------------------------------------------------------------
(* The literal bridge: observe_probe_from_source.                          *)

BeginObserve(s, p, id) ==
  /\ work = Idle /\ s.bridge = "source" /\ Admits(s, p)
  /\ work' = [op |-> "observe", phase |-> "before", left |-> Path, spec |-> s.catalog[p],
              probe |-> p, id |-> id, at |-> now, hit |-> FALSE]
  /\ UNCHANGED <<files, caller, now>>

\* revalidate_source_snapshot: any drift refuses the call.
Revalidate ==
  /\ work.op = "observe" /\ work.phase # "read" /\ work.left # {}
  /\ LET path == NextOf(work.left)
     IN  work' = IF Matches(path) THEN [work EXCEPT !.left = @ \ {path}] ELSE Idle
  /\ UNCHANGED <<files, caller, now>>

\* Mutant: the bytes that were searched are not compared.
AcceptsAnyBytes(path) == content[path] # None /\ content[path].text

\* The bytes that were searched are text, and those that were captured.
Accepts(path) == Matches(path) /\ content[path].text

\* observe_literal_matches.
Search ==
  /\ work.op = "observe" /\ work.phase = "read" /\ work.left # {}
  /\ LET path == NextOf(work.left)
     IN  work' = IF Accepts(path)
                 THEN [work EXCEPT !.left = @ \ {path},
                                   !.hit = @ \/ work.probe \in content[path].has]
                 ELSE Idle
  /\ UNCHANGED <<files, caller, now>>

NextPhase ==
  /\ work.op = "observe" /\ work.left = {} /\ work.phase # "after"
  /\ work' = IF work.phase = "before"
             THEN [work EXCEPT !.phase = "read", !.left = work.spec.paths]
             ELSE [work EXCEPT !.phase = "after", !.left = Path]
  /\ UNCHANGED <<files, caller, now>>

ConcludeObserve ==
  /\ work.op = "observe" /\ work.left = {} /\ work.phase = "after"
  /\ LET sign == IF work.hit THEN NextOf(work.spec.paths) ELSE "empty"
     IN  chain' = ChainAfter(work.id, work.probe, work.spec.says[sign], work.at)
  /\ work' = Idle
  /\ UNCHANGED <<files, snapshot, reports, tampers, now>>

-----------------------------------------------------------------------------
(* The host bridge: a tool reports, and apply_host_observation judges.     *)

BeginTool(s, p) ==
  /\ work = Idle /\ s.bridge = "host" /\ snapshot # None
  /\ Len(reports) < MaxReports /\ p \in DOMAIN s.catalog
  /\ \E tool \in Tool :
       /\ tool = LabReader => s.catalog[p].kind \in {"literal", "read"}
       /\ work' = [op |-> "tool", left |-> s.catalog[p].paths, spec |-> s.catalog[p],
                   probe |-> p, tool |-> tool, mode |-> s.policy.mode, saw |-> <<>>]
  /\ UNCHANGED <<files, caller, now>>

\* The lab's reader refuses a file that is missing or not text; what a tool
\* of the host makes of one is its own affair.
ToolRead ==
  /\ work.op = "tool" /\ work.left # {}
  /\ LET path == NextOf(work.left)
         legible == content[path] # None /\ content[path].text
     IN  work' = IF work.tool = LabReader /\ ~legible THEN Idle
                 ELSE [work EXCEPT !.left = @ \ {path}, !.saw = With(@, path)]
  /\ UNCHANGED <<files, caller, now>>

Hits(seen, p) == {path \in DOMAIN seen : seen[path] # None /\ p \in seen[path].has}

\* Reports that the envelope of an observation admits.  What a tool cites,
\* it cites with the digest of the bytes that it saw.
Report(status, cites, verdict, reading) ==
  [probe |-> work.probe, kind |-> work.spec.kind, tool |-> work.tool, mode |-> work.mode,
   at |-> now, status |-> status, cites |-> cites, verdict |-> verdict, reading |-> reading,
   saw |-> work.saw]

Citations == SUBSET {path \in DOMAIN work.saw : work.saw[path] # None}

LocatedReports ==
  {Report("OBSERVED", cites, None, None) : cites \in Citations \ {{}}}
    \cup {Report("TRUNCATED", cites, None, None) : cites \in Citations}
    \cup {Report("EMPTY", {}, None, None)}

CheckReports ==
  {Report("OBSERVED", {}, verdict, None) : verdict \in {"passed", "failed", "errored"}}

ReadReports ==
  {Report("OBSERVED", cites, None, o) : cites \in Citations \ {{}}, o \in Outcome \cup {None}}
    \cup {Report("EMPTY", {}, None, None)}

\* Any of them, and a timeout or an absent tool for every kind.
HostReports ==
  CASE work.spec.kind \in Located -> LocatedReports \cup {Report("FAILED", {}, None, None)}
    [] work.spec.kind = "check" -> CheckReports \cup {Report("FAILED", {}, None, None)}
    [] work.spec.kind = "read" -> ReadReports \cup {Report("FAILED", {}, None, None)}

\* observation_from_literal_report: what was found, cut at its bounds or not.
LiteralReports ==
  LET hits == Hits(work.saw, work.probe)
  IN  IF hits = {} THEN {Report("EMPTY", {}, None, None)}
      ELSE {Report("OBSERVED", hits, None, None)}
             \cup {Report("TRUNCATED", cut, None, None) : cut \in (SUBSET hits) \ {{}}}

\* observation_from_byte_observation: the whole file, without a reading of it.
FileReports == {Report("OBSERVED", DOMAIN work.saw, None, None), Report("EMPTY", {}, None, None)}

LabReports == IF work.spec.kind = "literal" THEN LiteralReports ELSE FileReports

MakeReport ==
  /\ work.op = "tool" /\ work.left = {}
  /\ \E report \in IF work.tool = LabReader THEN LabReports ELSE HostReports :
       reports' = Append(reports, report)
  /\ work' = Idle
  /\ UNCHANGED <<files, snapshot, chain, tampers, now>>

MatchesSpec(report, spec) ==
  report.kind = spec.kind /\ report.tool = spec.tool /\ DOMAIN report.saw = spec.paths

\* Mode, providers and dates.
InScope(report, policy) ==
  /\ report.mode = policy.mode /\ report.tool \notin policy.retired
  /\ snapshot.at <= report.at /\ report.at <= now

\* Mutant: what a truncated search lists is taken for all there is.
FullAlways(report) ==
  IF report.status = "FAILED" THEN "NONE" ELSE "FULL"

Conclusiveness(report) ==
  IF report.status \in {"OBSERVED", "EMPTY"} THEN "FULL"
  ELSE IF report.status = "TRUNCATED" /\ report.cites # {} THEN "PRESENCE_ONLY" ELSE "NONE"

\* A report that concludes nothing is admitted as UNKNOWN: nothing is read,
\* and the caller keeps its prior state.
BeginApply(s, i) ==
  /\ work = Idle /\ s.bridge = "host"
  /\ Admits(s, reports[i].probe)
  /\ MatchesSpec(reports[i], s.catalog[reports[i].probe])
  /\ InScope(reports[i], s.policy)
  /\ Conclusiveness(reports[i]) # "NONE"
  /\ work' = [op |-> "apply", left |-> s.catalog[reports[i].probe].paths,
              spec |-> s.catalog[reports[i].probe], report |-> i]
  /\ UNCHANGED <<files, caller, now>>

\* _read_matching_manifest.
VerifyRead ==
  /\ work.op = "apply" /\ work.left # {}
  /\ LET path == NextOf(work.left)
     IN  work' = IF Matches(path) THEN [work EXCEPT !.left = @ \ {path}] ELSE Idle
  /\ UNCHANGED <<files, caller, now>>

\* Mutant: an empty search is believed.
NotContradicted(spec, report) == FALSE

\* Every byte that was just read is the manifest's.
Contradicted(spec, report) ==
  /\ spec.kind = "literal" /\ report.status = "EMPTY"
  /\ \E path \in spec.paths : report.probe \in Manifest[path].has

\* An anchor is looked for in lines that are cited, and a diff cites none:
\* whoever declares an anchor for a diff gets no check of it.
AnchorSought(spec) == spec.anchored /\ spec.kind # "diff"

\* Mutant: the digest of a citation is not compared.
VerifiedBlind(spec, report, path) ==
  /\ spec.kind # "diff" => Manifest[path].text
  /\ AnchorSought(spec) => report.probe \in Manifest[path].has

\* Mutant: the anchor is not looked for in what is cited.
VerifiedUnanchored(spec, report, path) ==
  /\ report.saw[path] = Manifest[path]
  /\ spec.kind # "diff" => Manifest[path].text

\* _verify_location; an entry of a diff is compared by digest and size alone.
Verified(spec, report, path) ==
  /\ report.saw[path] = Manifest[path]
  /\ spec.kind # "diff" => Manifest[path].text
  /\ AnchorSought(spec) => report.probe \in Manifest[path].has

Says(spec) == {spec.says[path] : path \in spec.paths}

\* _outcome_of: at most one outcome; none is UNKNOWN or refused, and either
\* way the prior state stays.
Outcomes(spec, report) ==
  CASE spec.kind = "check" ->
         IF report.verdict = "errored" THEN {} ELSE {spec.says[report.verdict]}
    [] spec.kind = "read" -> {report.reading} \ {None}
    [] spec.kind \in Located ->
         LET shown == {spec.says[path] : path \in report.cites}
         IN  IF shown = {} THEN {spec.says["empty"]}
             ELSE IF Cardinality(shown) > 1 THEN {}
             ELSE IF Conclusiveness(report) = "PRESENCE_ONLY" /\ Cardinality(Says(spec)) > 1
             THEN {} ELSE shown

ConcludeApply ==
  /\ work.op = "apply" /\ work.left = {}
  /\ LET report == reports[work.report]
         sound == /\ ~Contradicted(work.spec, report)
                  /\ \A path \in report.cites : Verified(work.spec, report, path)
     IN  \/ /\ sound
            /\ \E o \in Outcomes(work.spec, report) :
                 chain' = ChainAfter(work.report, report.probe, o, report.at)
         \/ /\ ~sound \/ Outcomes(work.spec, report) = {}
            /\ UNCHANGED chain
  /\ work' = Idle
  /\ UNCHANGED <<files, snapshot, reports, tampers, now>>

-----------------------------------------------------------------------------
Next ==
  \/ Tick
  \/ \E path \in Path : Edit(path)
  \/ BeginCapture \/ CaptureRead \/ EndCapture
  \/ \E s \in Sessions : StartEpisode(s)
  \/ Rewind \/ Tamper
  \/ \E s \in Sessions, p \in Probe, id \in Id : BeginObserve(s, p, id)
  \/ Revalidate \/ Search \/ NextPhase \/ ConcludeObserve
  \/ \E s \in Sessions, p \in Probe : BeginTool(s, p)
  \/ ToolRead \/ MakeReport
  \/ \E s \in Sessions, i \in DOMAIN reports : BeginApply(s, i)
  \/ VerifyRead \/ ConcludeApply

Spec == Init /\ [][Next]_vars

-----------------------------------------------------------------------------
(* Correctness.                                                            *)

\* Every variable has its type: a chain starts with a revision 0, a call
\* covers paths that exist, a report cites paths that its tool has seen.
TypeOK ==
  /\ content \in [Path -> Bytes \cup {None}]
  /\ now \in 0..MaxClock /\ edits \in 0..MaxEdits /\ tampers \in 0..MaxTampers
  /\ snapshot # None => snapshot.manifest \in [Path -> Bytes] /\ snapshot.at \in 0..now
  /\ chain # <<>> => chain[1] = Initial(chain[1].binding)
  /\ \A i \in 2..Len(chain) : chain[i].posterior \subseteq World /\ chain[i].obs.probe \in Probe
  /\ work.op \in {"none", "capture", "observe", "tool", "apply"}
  /\ work # Idle => work.left \subseteq Path
  /\ \A i \in DOMAIN reports :
       /\ reports[i].cites \subseteq DOMAIN reports[i].saw
       /\ reports[i].at \in 0..now

\* The chain that the caller holds replays under the binding it began with.
Trusted == chain # <<>> /\ Replays(chain, chain[1].binding)

Bridge == chain[1].binding[1]
Sealed == chain[1].binding[2][1]
SpecOf(p) == chain[1].binding[2][2][p]
SealedHits(p) == {path \in SpecOf(p).paths : p \in Sealed[path].has}

\* The outcomes that the sealed manifest gives a located probe.
Answers(p) ==
  IF SealedHits(p) = {} THEN {SpecOf(p).says["empty"]}
  ELSE {SpecOf(p).says[path] : path \in SealedHits(p)}

\* A chain that replays says of the worlds exactly what its observations
\* say, whatever the caller edited in it, and leaves at least one world
\* (verify_state_history).
PosteriorFollows ==
  Trusted =>
    /\ Last(chain).posterior # {}
    /\ Last(chain).posterior =
         {w \in World : \A i \in 2..Len(chain) : Predicts[chain[i].obs.probe][w] = chain[i].obs.outcome}

\* What the literal bridge concluded, over several reads of files that
\* editors change and restore, is true of the bytes that were captured: the
\* present outcome when the literal occurs in one of them, the absent
\* outcome when it occurs in none (observe_probe_from_source).
SourceAnswersHold ==
  Trusted /\ Bridge = "lab.source-session.binding.v1" =>
    \A i \in 2..Len(chain) : Answers(chain[i].obs.probe) = {chain[i].obs.outcome}

ByHost(i) == Bridge = "lab.host-session.binding.v1" /\ chain[i].obs.id \in DOMAIN reports

\* No tool can have the host bridge conclude, of a probe whose anchor is
\* looked for, that it was found where the captured bytes do not show it,
\* nor that a literal is nowhere when they do (verify_host_observation).
\* That a navigation found nothing, the result of a navigation without an
\* anchor or of a diff with or without one, the verdict of a check and the
\* reading of a file are the host's word.
HostAnswersShow ==
  Trusted => \A i \in 2..Len(chain) :
    LET p == chain[i].obs.probe
        spec == SpecOf(p)
        outcome == chain[i].obs.outcome
    IN  ByHost(i) /\ spec.kind \in Located /\ AnchorSought(spec) =>
          IF outcome = spec.says["empty"]
          THEN spec.kind = "literal" => SealedHits(p) = {}
          ELSE outcome \in Answers(p)

\* What a tool cited, a diff included, it cited from the bytes that the
\* episode is bound to, whenever the file changed and however late the
\* report was presented; and but for a diff, they are text that shows the
\* anchor, if there is one.
CitesAreSealed ==
  Trusted => \A i \in 2..Len(chain) : ByHost(i) =>
    LET p == chain[i].obs.probe
        report == reports[chain[i].obs.id]
    IN  \A path \in report.cites :
          /\ report.saw[path] = Sealed[path]
          /\ SpecOf(p).kind # "diff" => Sealed[path].text
          /\ AnchorSought(SpecOf(p)) => p \in Sealed[path].has

\* What the bridges vouch for.  The literal bridge: every conclusion is true
\* of the captured bytes.  The host bridge: a result at a sought anchor, and
\* the absence of a literal, are what the captured bytes show, and whatever
\* was cited was cited from them.
ConclusionsHold == SourceAnswersHold /\ HostAnswersShow /\ CitesAreSealed

\* A located report that tells what its tool saw, all of it or, when it
\* says that it was truncated, a part.
Honest(report) ==
  LET hits == Hits(report.saw, report.probe)
  IN  IF report.status = "TRUNCATED" THEN report.cites \subseteq hits ELSE report.cites = hits

\* When an honest tool saw the captured bytes, the conclusion is the one
\* answer they give: a truncated report never hides a second one, and
\* results that answer differently are not resolved by picking one
\* (_outcome_of).  Not said of a diff with an anchor, whose honest result is
\* what changed, wherever the anchor occurs.
HonestIsExact ==
  Trusted => \A i \in 2..Len(chain) : ByHost(i) =>
    LET p == chain[i].obs.probe
        report == reports[chain[i].obs.id]
    IN  /\ SpecOf(p).kind \in Located
        /\ SpecOf(p).anchored => AnchorSought(SpecOf(p))
        /\ Honest(report)
        /\ \A path \in DOMAIN report.saw : report.saw[path] = Sealed[path]
        => Answers(p) = {chain[i].obs.outcome}
=============================================================================
