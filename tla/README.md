# TLA+ models of latent-compass

This directory holds TLA+ modules that model the stateful parts of
latent-compass, the TLC configurations that check them on small instances, and
theorems about them that TLAPS proves for every instance. The package lives in
`src/latent_compass`; file names below are relative to it.

latent-compass records what a human or an agent saw and decided, seals it, and
evaluates advice about it without ever acting. Almost everything that can go
wrong in it is a matter of *what is durable, in which order, and who was told*:
several processes share SQLite files and a JSON file, any of them may die
between two steps, disks lose or change rows, and documents are carried between
stores by hand. Those are the subjects of the models.

## Inventory

| Component | State it keeps | Operations | Interacts with |
| --- | --- | --- | --- |
| Episode ledger (`ledger.py`) | one SQLite file: metadata with a durable anchor, episodes by sequence number, tombstones | create, open, append, tombstone, abandon_epoch, verify, replay, export | any number of processes, of the command line among others |
| Holdout ledger (`protocol.py`) | one JSON file, one lock file | consume, consumption, require_consumption; driven by evaluate | processes that evaluate |
| Decision memory (`decision_memory/`) | one SQLite file per host and family: metadata, events, imports | append and revise, revoke, tombstone, abandon_epoch, get_active, list_active, status, verify, export_transfer, import_transfer | envelopes carried to another store; reconciliation reads its records |
| Decision reconciliation (`decision_reconciliation/`) | one SQLite journal of entries linked by revision | append_reconciliation, abandon_epoch, reads, replay, verify | names a decision of the memory by seal; collections read its tail |
| Prospective collection (`prospective_collection/`) | one SQLite file: a sealed plan, cases, a life cycle | create, start, enroll, reconcile, mark_cancelled, mark_lost_to_followup, close_collection, abort, manifest, report, verify | reads the reconciliation journal of another file |
| Shadow installer (`shadow_install.py`) | files of the host, a journal of operations, a manifest | plan, install, remove, recover | `confined_io.py`; the status report reads what it wrote |
| Preregistered evaluation (`protocol.py`) | none of its own: protocols, measurements and verdicts are passed in and returned | revise, score_measurements, evaluate | spends corpora of the holdout ledger |
| Authority life cycle (`authority.py`, `governance.py`) | none of its own: a state passed in and returned | authorize_transition | scores again the evaluation that it is shown |
| Confined file access (`confined_io.py`) | leases: a file as it was seen | observe, assert, create, replace, remove under a root; bounded reads | used by the installer, the harness, capture and the lab |
| Shadow harness and status (`shadow_harness.py`, `shadow_status.py`) | one file per hook call, a cache of source observations / none | record one hook call; report | reads what the installer wrote |
| Pairwise capture (`pairwise_capture.py`) | one file per capture | validate and publish a pair | `confined_io.py` |
| Lab sessions (`lab/state.py`, `source_session.py`, `host_session.py`, `observations.py`, `host_observations.py`) | none: snapshot, reports and the chain of revisions are the caller's | capture, bind, observe a literal, verify and apply a host observation, replay | files of a working tree that others edit; tools of the host |
| Lab memory (`lab/memory.py`) | none: the history is the caller's | compute_applicability | a diagnosis episode |
| Lab planning (`lab/planner.py`, `routing.py`, `evaluation.py`) | none: a budget pool passed in and returned | propose, propose_excluding, reserve_budget, settle_budget, evaluate_route, scoring of fixed plans | a revision of an episode |
| Benchmark (`benchmark/`) | none: one sealed report per run | run four baselines over the validation split, verify, freeze a plan for the holdout | reads corpora; neither the holdout nor its ledger |
| Episodes, contracts, encoding (`episode.py`, `contracts.py`, `vocabulary.py`, `canonical.py`) | none | validate, seal | everything |
| Command line (`cli.py`, `lab/cli.py`) | none | one library call per command | everything |

What makes each of the stateful parts hard, and what has to hold:

* **Episode ledger.** Several processes create, append and redact at once; a
  process dies between claiming the file and filling it, or between the commit
  and the receipt; storage loses rows or changes payloads. The chain must never
  fork, receipts must stay true, defects must be reported, and legal use must
  never make the store refuse itself.
* **Holdout ledger.** Not a database: an exclusive create, a read, a rename and
  an unlink. A corpus may give one final verdict, ever, and a refused evaluation
  may not spend it.
* **Decision memory.** Writes are transactions but reads are not; a writer acts
  on what it read earlier; envelopes arrive late, twice or never. Histories must
  stay linear, imports first-hand, and what a reader is served must have been
  true at some moment of its call.
* **Reconciliation.** A linear journal per decision, one claim per preimage, and
  a store that never refuses itself.
* **Prospective collection.** A plan that cannot change after it is sealed, cases
  that end once, a verdict of sufficiency that agrees with the cases, and no
  collection that can neither proceed nor be closed; all this against a journal
  in another file that moves meanwhile.
* **Shadow installer.** Between any two file operations the process may die or the
  disk refuse; recovery must leave all hosts either as before or as asked, must be
  restartable itself, and must never remove what another program put there, even with
  the same bytes.
* **Evaluation and authority.** The author of a protocol sees results before revising
  it. No order of revisions, relabelled measurements and edited verdicts may give a
  second final verdict on one holdout, or an authorization that its evidence does not
  earn.
* **Lab.** Files change between any two reads of one call; tools report late, twice,
  cut short, or about other bytes; the caller may edit what it keeps. What replays must
  be true of the bytes that were captured. A memory whose events are dated back must
  not change what was known, a plan must say honestly whether it is exact, and a pool
  must not promise what was spent.

## Plan

Each store gets an abstract specification of what it promises and a detailed one that
is shown to implement it.

1. `Seals`, `AppendOnlyLog`, `LedgerStore`: the episode ledger. *Done, with proofs.*
2. `WriteOnce`, `HoldoutLedger`: the holdout ledger. *Done, with proofs.*
3. `RevisionHistory`, `DecisionMemory`: the decision memories and the envelopes
   between them. *Done, with proofs.*
4. `Narratives`, `Reconciliation`: the reconciliation journal. *Done, with proofs.*
5. `CollectionLifecycle`, `ProspectiveCollection`: plan, cases, closing and the
   manifest, composed with a reconciliation journal that moves meanwhile. *Done,
   with proofs.*
6. `Installation`, `ShadowInstall`: the journalled file operations of the installer,
   with a failure or a death at every step and during recovery. *Done, with proofs.*
7. `Evaluation`: protocols, verdicts and the authority boundary over write-once
   cells. *Done, with proofs.*
8. `LabSession`, `LabMemory`, `LabPlanner`, `LabBudget`: an episode fed from source,
   its memory, its planner and its pool, composed by `Lab`. *Done, with proofs.*
9. More proofs: the home of the installer (`HomeFits`) and its refinement of
   `Installation`. *Done.*
10. The planner's search as a function of the horizon instead of a recursive operator,
   and the proof of `PlansHold`. *Done.*
11. The types of the four modules of the lab together (`PartsTypeOK`). *Done, with a proof.*

How the modules compose. `HoldoutLedger` and `Evaluation` share `Holdouts`. `LedgerStore`, `DecisionMemory`, `Reconciliation` and
`ProspectiveCollection` use `Seals`; `ProspectiveCollection` instantiates
`Reconciliation` as the other journal; `Evaluation` stands on what `WriteOnce` says of
the holdout ledger, and `HoldoutLedger` implements `WriteOnce`. `MCHoldoutLedger` checks
`HoldoutLedger` and `Evaluation`, and `Lab` puts the four modules of the lab side by side (it
extends them, `MCLab` gives it an instance, and the proofs extend it): each in a *part* of one
run. The initial state chooses what a behaviour is about, and the other parts' variables never
change.

## Conventions

* `Seal(domain, body)` keeps the pre-image: two seals are equal exactly when their
  domains and bodies are. That is the collision resistance that the code relies on.
* A SQLite write transaction (`BEGIN IMMEDIATE` to `COMMIT`) is one action,
  because SQLite makes it atomic, isolated and, with `synchronous = FULL`,
  durable. What a process does before and after its transaction are steps of
  their own. So are the statements of a read that opens no transaction.
* Timestamps, wording of messages and the fields of a payload that no property
  tells apart are left out. A record's expiry is kept, because the active view
  depends on it.
* An operator whose comment starts with "Mutant" is a plausible bug of the
  definition it stands next to. Putting it in that definition's place makes a
  property of the runs fail, which is how we know that the property can.
* A module `MC*` adds symmetry sets, the data that a `.cfg` gives to a constant, and
  where one run covers several regimes, the conjunct that keeps a behaviour within them
  (`SmallSpec`, `PartsSpec`, `LabSpec`): it only cuts behaviours off, so what is reached
  is reached by the module's own actions. All other constants are in the `.cfg`.
* The members of `CONSTANTS` that start with `Max` are bounds. Those that are limits
  of the code (`MaxRevision`, `MaxReconciliationRevision`, `MaxEnrollments`) are named
  in the section of their module; the others only keep an instance finite.

## Episode ledger: `LedgerStore`

State: the file (`absent`, `claimed` by an exclusive create, `ready`), the three
pieces of `store_meta` that matter (the host of the binding, the epoch status, the
anchor), the rows of `episodes` with all their seals, the ids of `tombstones`; per
process its place in an operation, the episode it appends and the receipt it still
has to return. History variables keep the receipts returned, the last export, the
seals committed and what the last commit left.

Actions follow the methods: `CreateClaim`, `CreateCommit`, `CreateFail` for
`create`; `Open`; `AppendPrepare`, `AppendCommit` or `AppendRefused`,
`AppendReturn` for `append`; `Tombstone`, `AbandonEpoch`, `Export`; `Crash` at any
step; and `StorageDefect`, at most `MaxDamage` times: a lost last row, an altered
payload, a lost tombstone, a lost anchor, a relabelled host, a flipped status.
`VerifyOk` is `_verify_unlocked`, one predicate per kind of finding.

| Run | Instance | What it shows |
| --- | --- | --- |
| `ledger_calls` | 2 processes, 2 episodes, 2 hosts; defects, at most 2, only while no more than one process has the store open | `UndamagedVerifies`: legal use never makes the store refuse itself. `ReceiptsDurable`. `AnswersAreTrue`: a retry after a lost receipt is told the truth (`DuplicateMeansStored`), and an export shows accepted episodes only (`ExportSound`). `StoreSurvives`: no creator removes a finished store. `ImplementsLog`: the file refines `AppendOnlyLog` until storage has a defect. `DamageReported`: any difference from the last commit is reported, unless an epoch was abandoned over it. `NoFork`: two accepted episodes never share a number. `TypeOK`. |
| `ledger_abandon` | 1 process, 1 episode, 1 defect | *Violation* of `RowLossReported`. `docs/ledger.md` says that removing rows leaves the anchor describing a store that no longer exists; `abandon_epoch` writes a new anchor over whatever it finds, without verifying, so the loss becomes invisible. The decision memory's `abandon_epoch` verifies first. |

Two episodes give a middle and an end of the chain, and the room to lose one and
append another; two processes give every race, since the store keeps no per-process
state; two defects are needed to combine damage (a row and the anchor) and more only
repeat those. Defects and races are explored apart (`MCLedgerStore!SmallSpec`), since a
defect hits the file whoever has it open. Deadlock is not checked: a creator that dies after its claim leaves a
file that nobody can create or open, in the code as in the model.

Known limits, which the properties state or leave out: a redaction undone
completely (payload, flag and tombstone) is seen neither by chain nor anchor; a
whole file replaced by an older copy of itself verifies; a signal that arrives
between the return of `COMMIT` and the end of the `try` block of `create` is not
modelled.

### Proofs

`LedgerStoreProofs` proves, for any number of processes, episodes and hosts:

* `TypeOKHolds`.
* `StoreSurvivesHolds`, from an invariant `Claims`: at most one process is between
  its claim and its commit, and a process with an open handle has a complete store.
* `NoForkHolds`, under any number of defects. The rows are useless for this, because
  a defect may change them: the invariant is about the anchor (`AnchorBounds`). An
  anchor written in an open epoch bounds every number that was ever committed and
  names the seal with the largest one; `append` compares the rows with it before it
  extends them. An anchor written by `abandon_epoch` may be wrong, and is never
  extended.
* `UndamagedVerifiesHolds`: the invariant adds to `VerifyOk` that episode ids are
  unique (what the schema guarantees, and a redaction relies on) and that a row's
  place is its number.
* `ReceiptsDurableHolds`: a receipt, returned or still in the hands of a process,
  names a row with that number and seal.

* `DamageReportedHolds`, under any number of defects and rows. `verify` sees one state,
  so the invariant (`Known`) carries the last commit along: the file is what that
  commit left, but for rows that are gone, payloads that differ and the header. A
  file that verifies is numbered from 1 (`VerifiedIsNumbered`, by the first place that
  would not be), the anchor counts its rows and seals its header, a payload's seal
  tells it apart, and the redactions explain the tombstones; so it is the committed
  file (`RemainsAll`). A re-anchoring of a file that did not verify leaves `Unknown`.
* `AnswersAreTrueHolds`: whatever storage did to its payload, a row is a link that a
  commit made durable (`Links`), and an export reads rows of a verified file only;
  ids stay unique under every defect, so `DuplicateEpisode` names one row.
* `ImplementsLogHolds`: until storage has a defect, every step maps to a step of the
  log or to a stutter.

## Holdout ledger: `HoldoutLedger`

State: whether the lock file exists, the entries of the ledger file (a receipt per
corpus, or `Unspent`), and per process its step, its call and the entries it read.
Each system call is an action: `Acquire` or `TimeOut` (`_ExclusiveLock.__enter__`),
`ReadEntries` or `ReadFails`, `Refuse` or `Stage`, `StageFails` or `Replace`,
`Release`, and after the lock `ReturnVerdict` (`evaluate`) or `Compare`
(`require_consumption`, which compares without the lock). `Begin` starts a call once
`score_measurements` has produced a verdict on a holdout; an evaluation of another
split never reaches the ledger. `Crash` leaves the lock file behind when it was held.

| Run | Instance | What it shows |
| --- | --- | --- |
| `holdout_calls`, its part `file` | 2 processes, 2 corpora, 2 pieces of evidence, 3 calls | `OneVerdictPerCorpus`, `AnswersAreRecorded`, `RefusedNeverSpends`. `ImplementsWriteOnce`: the file refines one write-once register per corpus. `EveryCallEnds`: even behind the lock of a dead process. `TypeOK`. |

Three calls are two racing ones and one that comes after a crash; two corpora are
needed to lose an update. Behaviours end at the bound on calls, so deadlock is not
checked.

Fairness: `WF_vars(Work(p))` for each process. A process inside a call runs: the loop
of the lock retries every 5 ms and gives up at its deadline, and nothing it does
under the lock waits. There is no fairness for `Begin`, for failures or for crashes.
The model lets the deadline pass at any moment, the code after 20 s.

`HoldoutLedgerProofs` proves the three safety properties and the refinement for any
number of processes, corpora, evidence and calls. The inductive invariant says that a
process between `locked` and `Release` is alone and the lock exists (`Exclusive`);
that what it read is what the file still says, but for its own staged receipt
(`Fresh`); that a call belongs to one process (`Numbered`); that a corpus has a spender
exactly when it has a receipt, and that no call in progress but the one that wrote the
receipt is its spender (`Spent`); that a receipt read under the lock outlives it
(`Stable`); and that answers given stay true (`Told`). The lock file that a crash leaves
behind is what makes `Exclusive` one-way: the lock may exist without an owner, never the
reverse. `TypeOKHolds` is the type invariant, from the same steps. `EveryCallEnds` is liveness
and is only model-checked.

Not modelled: a power loss that undoes an unsynced rename, an unlink of the lock file
that fails.

## Evaluation and authority: `Evaluation`

State: the protocols that their author holds, the receipt of each spent holdout corpus,
the final verdicts that `evaluate` returned (history) and the last authorization. The
receipts are write-once cells here: that the file under its lock implements them is
`ImplementsWriteOnce` above. A protocol fixes thresholds, seeds and a corpus for each
split; `MeasurementSets` are all labels on all results, since whoever presents a set
seals it; `Verdicts` are those that scoring gives and those edited from them, sealed
again or not.

`Revise` is `revise` with `load_protocol`: it compares with the predecessor it is given,
so only the number, the epoch and the shape are constrained. `Scores` is every refusal of
`score_measurements`, `Median2` its aggregate (twice the median, so that it is a number),
`Passes` the comparison by direction. `Evaluate` is `evaluate` on the holdout; off it,
`evaluate` keeps nothing. `Authorize` is `authorize_transition`: `Entitled` the actor and
the transition tables, `Verified` the evidence, which is validated and scored again.

| Run | Instance | What it shows |
| --- | --- | --- |
| `holdout_calls`, its part `author` | 2 corpora, 2 epochs, 2 seeds, a required metric and an optional one where lower is better, 2 thresholds, 4 results (complete, without a seed, without the optional metric), 2 protocols, 2 verdicts | `OneLookPerHoldout`: the author sees a verdict, loosens thresholds, revises into another epoch, relabels the old measurements, and still no corpus gives a second final verdict. `FinalVerdictsAreComplete`, with the types of the variables: a final verdict has all seeds of all its metrics, its own thresholds, a receipt that names it, and CONTINUE means that at least half of the seeds pass each required metric. `GrantsAreEarned`: whatever evidence is presented together and whoever edited it, an authorization is of an entitled actor, reaches SHADOW at most, and a verdict that comes with it is one that its measurements earn. |

Two protocols and two corpora are what a second look needs: the corpus of the first as the
validation or holdout corpus of the second. Four results contain every way for a metric to
be incomplete and a pass that only a median sees. Authorizations are explored as long as no
verdict was returned, and nothing follows one: they depend on what is presented alone.

`EvaluationProofs` proves, for any number of protocols, corpora, seeds, metrics and
verdicts:

* `OneLookPerHoldoutHolds`, by the invariant `Looks`: every verdict returned is on a spent
  corpus, and `evaluate` asks for an unspent one. It assumes that a receipt is not `Unspent`,
  the mark of an unspent corpus.
* `GrantsAreEarnedHolds`: what reproduces has the metrics of the scored measurements
  (`ContinuePasses`), and a target that needs evidence is refused before any is looked at.

* `FinalVerdictsAreCompleteHolds`. The invariant `StudyInv` adds to `Looks` that the number and the
  bars of every held protocol are of their kinds, that every receipt names the seal of a protocol
  that is held, that no more verdicts were returned than corpora are spent (`Held`), and that each
  of them is the sealed score of a held protocol on holdout measurements, with the receipt that
  names those (`Witnessed`). What a median says of its values (`HalfPass`) is
  arithmetic of finite sets: `Median2` takes its two middle values from the sorted order, and
  `Middle` counts the values on each side of them. No induction over the seeds is needed, because
  a finite set of numbers has its extremes by the well-foundedness of strict inclusion
  (`Extremes`). It assumes that results are functions to numbers (`EvaluationAssumption`).

What the models say that a reader may not expect. Measurements are believed: their set
names the protocol, corpus and epoch it was made for, and relabelling it is undetectable;
what the properties bound is what that can gain. `revise` compares with the immediate
predecessor alone (as its docstring says), so an epoch two revisions back, or a corpus that
was a holdout before and is a validation corpus now, is accepted. Every target that requires
evidence is refused unconditionally in this build (no evidence has a trusted origin), so the
branch of `_verify_evidence` that asks the holdout ledger for a receipt is unreachable and is
not modelled. TRAIN differs from VALIDATION in its name only and is left out.

## Decision memory: `DecisionMemory`

State per store: the events (record, revocation, tombstone) with the columns that
the properties tell apart, the import rows, the epoch status and the anchor; all
envelopes ever exported; and per process the partial result of a read. The hash chain
row by row, creation and damage are those of `LedgerStore` (the code repeats them), so
here the chain seal stands for the sealed columns of all rows, and stores exist from
the start.

Writes (`AppendDecision`, `Revoke`, `Tombstone`, `ImportTransfer`, `AbandonEpoch`) and
`ExportTransfer` are one transaction each, and anyone may take them at any moment with
any argument ever seen: records of any store, any revision number, any known seal, any
envelope again. `Writable` is `_append_transaction`, `Insert` is `_insert_event`,
`VerifyOk` is `_verify_unlocked`. `Admissible` is what the record contract adds;
the screening of text is not modelled.

Reads take several statements without a transaction: `status` reads the generation,
then the record count, then the root seal; `get_active` reads the head, then the
revocation; `list_active` reads the revoked ids, then the heads. Each statement is an
action. `GuardedWrite` is a write that passes the generation of an earlier `status`
as `expected_generation`.

| Run | Instance | What it shows |
| --- | --- | --- |
| `memory_calls`, one store | 1 process, 2 decisions, 2 revisions, 4 events | `AnswersAreTimely`: the types; what a read serves was the unrevoked head at some moment of the call (`ServedWasActive`), which rests on the refusal to revise after a revocation: without that, `list_active` could serve a revision that never was active. And a guarded write lands on the store that the status described (`GuardedWriteSawStore`), which rests on reading the generation first. |
| `memory_calls`, one decision | 2 stores, 2 instants, 3 events per store, 2 envelopes | `AcceptedWritesVerify`: no accepted sequence of writes makes a store refuse itself. `ImportsAreFirstHand`: every envelope ever made carries what was the native, live head of the store that wrote it, at the root seal that it names, and every import is of such an envelope, from another store to the one it is addressed to. `ImplementsHistories`: refinement of `RevisionHistory`. |
| `memory_expiry` | 1 process, 1 store, 1 decision, 2 instants | *Violation* of `ExpiredIsNotServed`: the docstring of `get_active` says that it refuses an expired decision; a redacted head is projected before its expiry is compared, so redaction brings an expired decision back into the active view (without content or deadlines). |

The run explores both regimes (`MCDecisionMemory!SmallSpec`), and checks every property in
each. One reading process is enough, because readers do not affect one another and writes
come from anyone. Four events allow append, revise, revoke and one more; two stores
suffice, since an envelope that hands foreign content on is wrong as soon as it is made. `MaxRevision` is `MAX_REVISION` (4096 in the
code), so a decision at its limit is reached. Deadlock is not checked: a store whose
epochs are abandoned has nothing left to do.

`list_active` may mix two moments (a decision revoked between its two statements next
to the one that replaced it); no document promises a snapshot, and `ServedWasActive`
is what does hold.

`DecisionMemoryProofs` proves `AcceptedWritesVerifyHolds` for any number of stores,
decisions, revisions, envelopes and processes. Its one hypothesis, `NoneIsNoPayload`, is
that the absent payload differs from every payload (SQL NULL is no JSON text). `VerifyOk`
is not inductive: a revision is linked only if the decision has a head that is its highest
record (`IsHead`), which needs event ids that occur once (`Rows`); an import verifies only
if what the envelope carries fits its seal, whenever it arrives (`Carried`); and a guarded
write is about a store only if the status that it names was (`Seen`). The invariant is
these three with `VerifyOk` of every store. The work is in two lemmas, `RecordVerifies` and
`ReferringVerifies`: what an inserted record, revocation or tombstone asks of the rows
before it, and that it takes nothing from them.

`ImportsAreFirstHandHolds` and `AnswersAreTimelyHolds` are about what a store held at an
earlier moment, when an envelope was made or a statement of a read was executed. A write puts
one event behind the rows and at most drops the payload of one of them (`Puts`, `PutsGrows`),
so every prefix of a store keeps its columns for ever (`Grows`, `FirstAlike`), and what depends
on these alone, the head, the revocation, the count and the chain seal, is read the same from
then on (`AlikeReads`). With this, the first theorem follows an envelope from its export
(`ExportIsFirstHand`) to every import of it (`ImportedKept`). The second says of each process
what the statements it has executed allow it to conclude (`CallFits`): a status that has read
its generation first describes the store as long as the store is at that generation; a head
read by `get_active` was the head at the first statement; the revoked decisions of
`list_active` were those of that moment. `NoneSinceRevoked`, that a revoked decision gets no
further record, is what `list_active` needs (`UnrevokedBetween`): a head that was appended
after the first statement belongs to a decision that was then not yet revoked, and was its
unrevoked head before any revocation. `AnswersAreTimelyHolds` also assumes that the absent
value is no number and no partial result of a read (`NoneIsNoView`).

`ImplementsHistoriesHolds` proves the refinement. The mapping reads a history off the revision
numbers of the records, counted from the first that the store has, so that it needs no
induction over the rows. The invariant added is `Chronicle`, for each store and decision: the
records are numbered 1..k and all native, or they are one import; and each content seal is the
seal of a record, which a redaction leaves although it drops the payload. Then a native record
is revision k + 1 and names the seal of revision k (`NativeGrows`), and an import, however late
its envelope, is what its source still has at that number (`ImportBorrows`, from `FirstHand`).
A revocation closes, a redaction changes no history, and an abandoned epoch freezes.

## Decision reconciliation: `Reconciliation`

State: the rows of `reconciliations` (id, revision, seal of the preimage, content
seal, payload), the epoch status and the anchor. History variables keep the entries of
the last commit and count defects. As in the decision memory, the seal of a chain
stands for the sealed columns of its rows, and the journal exists from the start.

`AppendReconciliation` is the whole of `append_reconciliation`: the contract of the
record (`Admissible`), `require_preimage_match` (`PreimageMatches`),
`_append_transaction` (`Writable`), the bindings, `_require_extends_head`
(`ExtendsHead`), the row and the anchor. All that runs before the transaction looks at
the arguments only, so one action is enough. `Write` offers it every id, every
revision number, every seal that is in the journal, every preimage and every decision,
whether they fit together or not, with or without `expected_generation`.
`AbandonEpoch` verifies first. `StorageDefect` loses the last row, alters a payload or
flips the epoch status.

| Run | Instance | What it shows |
| --- | --- | --- |
| `reconciliation_narratives` | 2 reconciliations, 3 decisions (2 revisions of one, and one of another host), 2 instants, 2 revisions, 3 entries, 2 defects | `VerifyIsRight`: the types, no accepted sequence of writes makes the journal refuse itself (`LegalUseVerifies`), and whatever differs from the last commit is reported for ever (`DamageStaysReported`); the ledger's `abandon_epoch` does not give this (`ledger_abandon`), and the comment in `abandon_epoch` of this journal claims it. `ImplementsNarratives`: what was committed refines `Narratives`, at most one narrative per decision revision, one teller each, growing at its end, whatever storage does to the rows. |

Three entries are a narrative with a correction and a second one beside it;
`MaxReconciliationRevision` (4096 in the code) is 2, so the limit is reached. A journal
whose epoch is abandoned has nothing left to do: deadlock is not checked.

`replay_reconciliation` and the reads (`get`, `revisions`, `list_heads`, `status`)
change nothing and are not modelled.

`ReconciliationProofs` proves `VerifyIsRightHolds` for any number of records, decisions,
entries and defects. The invariant has three parts: `Typed`; `Anchored`, that the anchor
seals what was committed and that the committed rows fit their seals; and `Sound`, that
without defects verify accepts and every reconciliation with rows has a head. The damage
half needs `Anchored` alone: a row that verify accepts is determined by its sealed columns,
so two journals with one chain seal that both verify are equal. The other half needs
`Sound`, for what an entry extends.

`ImplementsNarrativesHolds` proves the refinement. Every write begins with a verify, which
by `Anchored` means that the rows it reads are the committed ones: storage may damage the
journal and mislead no write. One more invariant, `Narrated`, says what those rows are: a
decision revision is told about by one reconciliation and a reconciliation tells about one
decision revision, no two rows share a reconciliation and a revision number, and the
numbers told about a decision revision are 1..k. So an append is the first chapter of a
subject and a teller that are both new, or chapter k + 1 of its own.

## Prospective collection: `ProspectiveCollection`

State: the clock, the state and the anchor in `meta`, the rows of `events`, per process
the call that it is in, every manifest ever published, and the state of a reconciliation
journal in another file (`Journal == INSTANCE Reconciliation`), to which others write at
any moment (`SourceStep`). Cases are not stored: as in `_cases`, they are read off the
events (`Enrolled`, `OutcomeOf`, `EnrollmentOf`).

A call is two steps. `PrepareStart`, `PrepareEnroll`, `PrepareTerminal` (cancelled or
lost), `PrepareClose` and `PrepareAbort` stamp the time and make the checks that the
methods make before `_append`; `Commit` is the transaction, `Refuse` its rollback.
`Appendable` holds what is checked inside it: the expected generation, `VerifyOk`, the
`validate_unlocked` of each method (`StillValid`, with `StillClosing` for a closure) and the order of the time stamps.
`reconcile` has one more step, before the others: `ProveSource` reads the tail of the
other journal in a read transaction of its own. `manifest` has five: `ManifestVerify`,
`ManifestState`, `ManifestStatus`, `ManifestRoot`, `ManifestCases`. Between two steps
the clock may move, other processes may commit, the other journal may grow and the
storage may lose the last event (`LoseEvent`).

`VerifyOk` is `_verify_unlocked`: each event has to be legal behind the events before
it (`Legal`), in the calendar of the plan. The plan is a set of constants, with the
assumptions that its contract enforces (`Calendar`, `Power`).

| Run | Instance | What it shows |
| --- | --- | --- |
| `collection_races` | 2 processes of which one names generations, 2 decisions, room for one, instants 0 and 1, hard end at 1, 1 lost event | `VerifyIsRight`: the types with the plan's maximum, neither stale stamps nor stale checks let an event in that the replay of the calendar refuses (`LegalUseVerifies`), and no call writes an anchor over a lost suffix (`LossStaysReported`). `ManifestsAreFinal`: what is published is the collection as it stays, although it is read in five steps. `ImplementsLifecycle`: refinement of `CollectionLifecycle`. `CollectionEnds`: a collecting collection is closed or aborted at last, unless an event was lost. |
| `collection_links` | 1 process, 2 decisions, 2 reconciliations with 2 entries | `LinksHold`: a linked proof names an entry that the other journal keeps, at the root that the entry made (`LinksAreEntries`); no narrative settles two cases, which rests on the preimages of both journals (`OneCasePerNarrative`); and `LegalUseVerifies`, with reconciled and abstained cases. |
| `collection_stale` | 1 process, 1 decision, 2 entries | *Violation* of `LinkedTailIsCurrent`. `docs/prospective-shadow-collection.md:64` says that only the current verified tail can be linked; the proof is read in one database and committed to another later, and the tail may have moved. `LinksAreEntries` is what does hold. |

Two processes give every race, since a call keeps nothing but its event. The calendar
has all its dates on two instants (`NotBefore` 0, `MinimumEnd` and `HardEnd` 1), and in
`collection_stale` one instant after them. An event stamped at 0 may be committed at 1,
which is where stale stamps hurt. `Required` is 1, so a sufficient, an insufficient and
an aborted end all occur, and with room for one case the second enrollment meets the
maximum. `collection_links` leaves the second process out, because the other journal is
the second actor, and has room for two cases. A collection that is over has nothing left
to do: deadlock is not checked.

Fairness (`FairSpec`): time passes, a call that was begun ends (`WF` of `Finish`), and a
process that may close the collection again and again tries to: `SF` of
`PrepareClose(p, Expected(p))`, the very disjunct of `Next` that the process takes, with
the generation it names if it names one. The last is an assumption about an operator
and not about the code: nothing in the code closes a collection by itself. It is strong
fairness because each attempt that is overtaken disables the action for the length of
the call. Every fair action is a step of `Next`, so fairness rules out no finite
behaviour; it says that attempts are made and says nothing of `Commit`. That an attempt
succeeds at last is what the run shows: a transaction that would recognise no closure
but a sufficient one (the mutant `StillClosingSufficient`) refuses each of them, and
violates the property. The other calls have no fairness: nobody needs to settle a case.

`CollectionEnds` excepts a collection that lost an event, and must: abort is an append,
and an append refuses a journal that fails integrity, so such a collection can be neither
closed nor aborted. `docs/prospective-shadow-collection.md:98` sends an operator
to the abort path for exactly that. `LossStaysReported` is the other side of it: no
call, abort included, gets past a lost suffix.

What the property `CollectionEnds` does not say is that a case can be reconciled: once
an entry about another decision follows the one that is wanted, that one is no longer
the tail, and it can be linked only after one more revision of its narrative, or never
if the epoch was abandoned or the revision limit is reached. Such a case keeps the
collection from closing as sufficient until someone marks it lost.

Not modelled: strata and the text of reasons (checked and copied), the diagnostic
report (rates over floats), the power calculation behind `Required`, and the claim and
the crash of `create`, which are those of `LedgerStore`. A process that dies between
two steps is one that never takes the next.

**Proved** (`CollectionProofs`): `VerifyIsRightHolds`, `ManifestsAreFinalHolds` and
`ImplementsLifecycleHolds`, for any number of callers, decisions, enrollments, instants and
entries of the other journal. `VerifyOk` alone is not inductive: an event is legal behind
the rows of the moment of its commit, and much of what makes it so was found out earlier,
behind other rows. `IInv` therefore says of each call what it still knows (`Calling`). An
event that waits for its transaction has its shape, a stamp of the past, and for a
reconciliation the link that was proved and a case whose enrollment it fits (`Intent`); a
manifest that is being read is of a collection that is closed, with the phase and the root
that it has now. `CallingSurvives` says that this outlasts what others do, because appending
leaves the enrollment of a case alone (`AppendedCase`) and because nothing is appended to a
collection that is closed. The phase, the outcome of the case, the room and the order of
stamps do not outlast it, and are exactly what the transaction looks at again:
`PlanStatesAreLegal`, `EnrollmentsAreLegal` and `TerminalsAreLegal` put the two together.
The anchor counts what was committed, so a lost event stays missed (`Anchored`). `Source`
says that the seals of the other journal are of records with dates, even when storage
altered their payloads. The theorems assume of `None`
that it is no case, no closed state (`NoneIsNeither`) and no link (`NoneIsNoLink`).

`LinksHoldAlways` proves `LinksHold` from the invariant `LinkInv`, which adds the other journal.
What was committed there only grows (`Grows`), each of its rows is as an append wrote it
(`Written`), the rows of one reconciliation are about one decision (`OneStory`), and as long as
storage has no defect the entries are what was committed (`Kept`); a proof is read only from a
journal that verifies, and verify accepts nothing but what was committed
(`AcceptedIsCommitted`). So a link names a committed row at the root it made, in a call as in an
event, at that time and ever after (`Names`, `CallLinked`). Two events that link one narrative
then name one preimage, hence one decision and one case (`LinkedDecision`), and a case ends once
(`EndsOnce`). `CollectionEnds`, which is liveness, is only model-checked.

## Shadow installer: `ShadowInstall`

State: the four targets of each host (hook settings, which the user shares, and the
configuration, ownership manifest and wrapper of the installer), each with its data and who
wrote it, which stands for inode and change time; the backups of each call; the pending
journal; and per process its call: what it plans, the leases it holds, the journal as it
last wrote it and how far it is. A release stands for the runtime and the wrapper's text.

A lease of `confined_io.py` holds a file as it was seen; replacing or removing through it is
a compare-and-swap on identity and bytes (`Held`, `LogHeld`). Between the last comparison and
the rename there is a window, which the docstring of `replace_file` documents: the model takes
the two as one step.

* `StartApply` is planning and the snapshot. Both only observe; every lease is asserted
  again before anything is changed, so they are one observation. `CanInstall`,
  `CanRemove`, `InstallOps`, `RemoveOps` and `Plan` are the plan's conflicts and operations.
* `Begin`, then for each operation `Copy` (a backup of a file that exists) or
  `MarkAttempted` (the journal announces a create), `Publish`, and `Confirm` for a create
  (the journal records which file was published), then `Complete`:
  `_apply_frozen_operations` between `_begin_transaction_lease` and the removal of the journal. Each may be refused, or fail before or after its effect (`DiskStep`); an
  error starts the rollback.
* `Revoke`, `TakeBack`, `EndRollback`: `_rollback_transaction`, which skips what it cannot
  undo and leaves the journal.
* `StartRecover`, `Disown`, `Reassert`, `Undo`, `CloseJournal`: `recover_shadow_hooks`. `Refuses` holds
  its conflicts; a create that may have been published without the journal vouching for it is
  `InDoubt`, and refused.
* `Crash` ends a call anywhere. `Peer` is another program that deletes or replaces a target,
  with the very bytes that a pending transaction would write among others, or a user who
  edits the settings.

| Run | Instance | What it shows |
| --- | --- | --- |
| `install_calls` | 1 process, 2 hosts (both in one call, or one), 2 releases, 2 projects, 1 install or removal, 2 failures or deaths, then recovery | `ImplementsInstallation`: refinement of `Installation`: a call happens on all its hosts at once, when its journal goes, or not at all. `PendingEnds`: an interrupted transaction is undone at last, unless a create is in doubt. |
| `install_races` | 2 processes, 1 host, 1 release, 1 project, 2 calls, 1 failure, 1 change by another program | `NothingLost`: what the installer takes from a path is its own work of the same transaction, or is in a backup, or has the bytes that recovery now replaces by those of before: a file that someone put in the place of a created one is never removed, even with the same bytes. `HomeFits`, for overlapping calls: the types, and without a journal the host is complete or empty. |

The initial states have any mixture of hosts with and without an earlier installation, so
one call suffices for upgrades, second projects, last removals and calls that meet two
different hosts. Two faults let a rollback fail after the failure that began it, or recovery
die and start again. Deadlock is not checked: calls are bounded, and a create in doubt stops
everything but an operator.

Fairness (`FairSpec`, `install_calls` only): a call that runs goes on, and the operator calls
recover as the installer says. `PendingEnds` does not hold for a create in doubt, because the
code does not resolve one.

`HomeFits` excepts behaviours in which recover was called in the middle of another call
(`overtaken`). Nothing in the code prevents that on POSIX; both then undo or write the same
files, and `docs/host-observations.md` asks that other processes be quiescent. `NothingLost` has no such exception.

Not modelled: a custom `--hook-script`, project aliases, reformatting of settings that are
not the installer's, size bounds, previews, the handle code of Windows, other programs that
change backups or the journal, a touch that keeps a file's bytes and identity, a collision of
backup tags (refused at planning), and `_prune_unconfirmed_creates`, which no call reaches.

**Proved** (`ShadowInstallProofs`): `NothingLostHolds`, for any number of processes, hosts,
calls, failures and edits, serial or not. `NothingLost` speaks of one step, so the proof needs
what a step may count on. `IInv` says it of each process. One that applies a transaction and is
about to publish has seen what its plan saw, and has that in its backup (`Prepared`); what its
leases hold of the operations it has done, and of a create it is about to confirm, is its own
work or nothing (`Applying`). One that recovers a transaction, and has a create to undo, holds
the very file that the journal identifies as published by that transaction (`Recovering`); this
is what `Refuses` establishes when recovery starts, given that a journal confirms a create only
with the identity of its own call (`Log`). The backup of one call never changes once it is
made (`Grows`), so no process disturbs what another has prepared. `GiveUpKeeps`, `DiskKeeps` and
`StepKeeps` carry this over a failure at any disk operation, before or after its effect. Then
`PublishLosesNothing`, `TakeBackLosesNothing` and `UndoLosesNothing` are the three kinds of step
that take a file away.

`HomeFitsHolds`, for any number of processes, hosts, calls and failures. `Types` gives the type
of every file, backup, journal and local variable (`TypesKept`); an installer that wrote data
of the wrong kind at a path, or journalled an operation that changes nothing, would break it.
`PlanLeads` is about planning: the operations of an admissible request lead from one home that
fits to another, name everything that differs, and name a path twice only to the same effect,
whichever hosts are in the request and however often (`RankReached`: the plan has one operation
for each change, in order). The invariant is `Fit`. While a journal is pending there is a home
`d` that fits and a number `n` such that the files are `d` except at the first `n` entries
(`Stands`); the call that applies them has published exactly those, one that rolls back at most
those, and a recovery has restored those it is past (`Led`); nothing vouches for the entries
beyond the next one, which is why recovery finds them untouched (`RecoverableStands`). At most
one process is busy with the home (`Alone`). With all entries published the home is the
planned one (`HomeForward`, `PublishedFits`), with all restored it is `d` (`HomeBackward`,
`CloseJournalFit`), so the home fits whenever the journal goes. The three conditions of
`HomeFits` (no journal, no other program's edit, no recover in the middle of a call) are those
of the run. That `Fit` is inductive only while `Quiet` holds is the reason.

`ImplementsInstallationHolds`, for any number of processes, hosts, calls and failures, under
the hypothesis `Serial` (a call starts only when no other is running, as in `install_calls`):
a call that overlaps another is outside what `Installation` promises, because its plan may be
stale when its journal begins. What is installed is read off the files as they count,
`Settled`: those that a pending journal names as they were before it. `CallHappens` is about
planning: the plan of an admissible request turns the installation into the one that an
install or a removal on its hosts leaves, whatever the hosts had. `Moves` lists all that one
step does to journal and files: the journal goes on and only files that it names change
(`Proceeds`), nothing changes, a journal begins with the planned operations, it goes with all
of them published (`Commits`), or with all of them undone (`Reverts`); each kind of step is
shown to be one of these from `Fit` (`StepMoves`). The invariant is `Due`: the operations that are
planned or pending are `Meant` as one install or removal of what is settled. Taking turns
(`Turns`) keeps that true from planning to `Begin`. Then only `Commits` changes what is
settled, and it changes it to what was meant.

The assumptions are `InstallBounds`, `NoneIsNothing`: that `None`, for what is not there,
is no release, no data, no file and no journal; and `NothingIsNone`: that it is not a
release with its projects.

## Lab: `LabSession`, `LabMemory`, `LabPlanner`, `LabBudget`, `Lab`

The package stores nothing of the lab: the caller holds everything and presents it again.
So the state of these modules is what the caller holds, and their actions include what a
caller may do to it.

**`LabSession`**: the bytes of each file, the caller's clock, the snapshot, the chain of
revisions, the reports of tools, and the call that runs with what it has read so far. A
call reads its files one after the other, and editors change, remove and restore files between
any two reads.

* `BeginCapture`, `CaptureRead`, `EndCapture`: `capture_source_snapshot`. `StartEpisode`:
  the bindings and `initial_state`.
* `BeginObserve`, `Revalidate`, `Search`, `NextPhase`, `ConcludeObserve`: the literal bridge
  `observe_probe_from_source`, which reads before, during and after its search.
* `BeginTool`, `ToolRead`, `MakeReport`: a tool of the host, or the lab's own reader, and
  every report that the contract of a host observation admits of what it saw. A tool may say
  what it likes, but it cites digests of bytes that it saw.
* `BeginApply`, `VerifyRead`, `ConcludeApply`: `apply_host_observation` with
  `verify_host_observation`.
* `Rewind` and `Tamper`: the caller goes on from an older revision, or edits the posterior,
  outcome or date of one. `Replays` and `Follows` are `verify_state_history`, `CanExtend` is
  `apply_observation`.

**`LabMemory`**: the history of events and the clock; one action per kind of event, dated
whenever its author likes; `Applicability` is `compute_applicability` at any instant.

**`LabPlanner`**: a sealed model, the posterior and the observed pairs of an episode, and the
last plan. `Propose` is one call of `propose` or `propose_excluding`. `Plan` is `_search` as a
function of the horizon, which every call below lowers by one: `Visit` looks a node up in the
memo, stops it at the horizon or at the ceiling, or expands it; `Best` goes over the probes and
`Try` over the outcomes of a probe, in the order of their ids and of the worlds that show them,
as the code does, and hands the memo, the count and the flag from each branch to the next. So
worlds, probes and decisions are numbers, in the order of their ids. Values are scaled by the
total weight, so that they are numbers and not fractions.

**`LabBudget`**: reservations and charges of one pool; `Reserve` is `reserve_budget`,
`Settle` is `settle_budget`.

| Run `lab` | Instance | What it shows |
| --- | --- | --- |
| literal bridge | 2 files, 2 probes, 3 worlds, 2 catalogs, 2 edits, 1 tampering | `ConclusionsHold`, of what was concluded over several reads: it is true of the captured bytes (`SourceAnswersHold`). `PosteriorFollows`: a chain that replays says of the worlds what its observations say, whatever was edited in it. |
| host bridge | 2 files, 4 catalogs (literal, check, read with an anchor, navigation and diff each with an anchor and without), 2 policies, 2 instants, any 2 of edits, reports and tamperings (a report by the wrong tool or in another mode counts twice) | `ConclusionsHold`, of reports: no tool can have a literal search or an anchored navigation conclude that something was found where the captured bytes do not show it, or a literal declared absent that they contain (`HostAnswersShow`); what was cited, by a diff too, was cited from those bytes, however late the report, and is text that shows the anchor unless a diff cites it (`CitesAreSealed`). `HonestIsExact`: from an honest tool that saw those bytes, the conclusion of a located probe is the one answer they give; a truncated search hides no second one. |
| memory | 3 names, 3 events, 2 instants | `GroundedIsLeast`: active claims are the fewest that the facts justify; no claim rests on itself, over a cycle or by a fact of its name. `PastIsFixed`: an event dated back changes nothing of what was known before it was recorded. |
| planner | 3 worlds, 3 probes, 3 decisions, budgets and horizons to 2, ceilings 1, 3 and 9 | `PlansHold`: a plan that says it is exact has the value of the recursion (`ExactIsBellman`), and one cut short is between the optimum and stopping now (`CutShortIsConservative`). |
| pool | total 3, 3 reservations, costs to 2, 2 instants | `BudgetHolds`: what is promised and spent exceeds the total by no more than actual costs exceeded their own maxima. |

`PartsTypeOK` is the type invariant of all of them. Files begin as any mixture of contents in
the literal bridge, and as text in the host bridge. Two edits are a change and its
restoration, which is the race that three reads are meant to meet; two reports of a tool
are one on each side of a change. Three events are a claim, a premise and what revises one of
them. Three worlds are the fewest for which a probe leaves a doubt that a second one
settles. Ceilings 1 and 3 cut the search at the root and inside a branch, 9 never does.
Deadlock is not checked: the memory, the planner and the pool stop at their bounds.

Limits that the models showed, and which the properties leave out. A catalog may give a
diff an anchor (`host_session.py:175`; only that of a literal is constrained, line 191), and
nothing looks for it: an anchor is sought in cited lines, a diff cites none, and its entries
are compared by digest and size (`host_observations.py:811-821`). So such a probe can conclude
"found" from a changed file in which the anchor does not occur; `HostAnswersShow` stated of
every probe with an anchor fails in this instance for that reason alone, and `AnchorSought`
names the exception. `docs/host-observations.md:99` speaks of an anchor of cited lines only, so
code and documentation agree. What else the bridge concludes on the host's word: the verdict
of a check, the interpretation of a read, the result of a navigation without an anchor or of a
diff, and that a navigation or a diff found nothing.

An empty navigation or diff, a covered path that a report does not cite, and the verdict of a check carry no digest:
an observation made while files had drifted, of files restored before it is applied, is
accepted. Seals are not signatures: a caller who seals an edited chain again has another
chain, and the date or id of the last revision is sealed by nothing that follows it.
`captured_at` is not part of the binding.

Not modelled: line numbers and symbol relations (an anchor occurs in a cited file or does
not), resource accounting and limit codes, a chain begun with one bridge and presented to
the other (the binding refuses it), `evaluate_route`, `evaluation.py` and `migration.py`,
which are pure functions of what they are given.

**Proofs** (`LabProofs`). Those of `LabSession` are for any files, tools, catalogs, policies,
models and bounds. `PosteriorFollowsHolds` needs only that the chain is a sequence
(`ChainIsSeq`): of a chain that replays, the first revision whose worlds were not those that
its observations leave would have to follow from one that is right (`ReplayLeaves`).

`ConclusionsHoldAlways` and `HonestIsExactAlways` rest on four invariants. `Work`: a call that
runs knows what it will conclude from (the chain replays under the binding of this snapshot
and this catalog, the literal was found in one of the captured files searched so far, the
report is there and fits its probe), since nobody replaces the caller's things while it runs.
`Reports`: a report has the envelope that the schema demands, whatever tool made it.
`Shapes`: an edit in place leaves a revision its fields. `Conclusions`: every revision is
justified by the manifest it is bound to and by the report it names, but for the one whose
outcome was edited, and that one cannot follow from the revision before it: it keeps the
worlds of the old outcome, of which there is one at least, and the new outcome leaves none
of them. A chain that holds it does not replay, so a call never builds on it. What a call
concludes is justified at its end by `SourceConcludes` and `HostConcludes`, which are about
catalogs and reports alone.

`ConclusionsHoldAlways` says what the code vouches for and no more. Of the literal bridge that
is every conclusion. Of the host bridge it is a result at an anchor that is sought, the absence
of a literal, and the bytes behind every citation; the conclusions listed above as the host's
word, with the diff that has an anchor among them, are outside the theorem.

Both theorems say `tampers <= 1`, as the run's instance does, and not because the proof is
short of an argument: two edits of one revision can change its outcome and its worlds
together, and seals that anyone can compute do not tell such a chain from a true one. What
replay does promise after any number of edits is `PosteriorFollows`, without a condition.

Those of `LabMemory` are for any names, dates, length of history, and supports that
have an alternative, each with a premise (`MemoryBounds`, `SupportsShape`). The invariant
`MemoryInv` says that the history is one sequence and that facts and claims share one
namespace, which `Fresh` keeps up. `Grounded` grounds claims in rounds, a recursive function
of the round, and two lemmas carry both theorems. `RoundsAre`: the function is what its
equation says, for any number of rounds (the prover does not know that by itself; `RoundsExist`
builds it round by round). `RoundsEnd`: as many rounds as there are claims are enough, because
every round before the last grounds a claim that was not, so the last set is closed.
`GroundedIsLeastHolds` then follows: no closed set misses what a round adds
(`GroundedWithin`), and what is grounded was so by premises of the round before, in which it
was not itself (`GroundedBefore`). It needs the one namespace: a fact with the id of a claim
would ground that claim at once. `PastIsFixedHolds`: an event appended now counts at no instant
before now (`CountsLater`), and everything that is computed of an instant is computed from what
counts at it (`KnownBefore`), the place of the latest revision of a support included.

Those of `LabBudget` are for any total, bounds and finite set of reservations (`BudgetBounds`,
`NilIsNothing`). `BudgetTypeOK` and `BudgetHolds` are inductive together; the work is in the
sums, which the library defines by a recursive choice of one element after the other.
`BySubsets` is the induction on finite subsets that takes a set and not an operator, and gives
that a sum exists, is unique, and may be taken apart at any element (`SumWithout`). Reserving
adds one maximum that was available. Settling turns a maximum into a cost, and what the cost
is more than the maximum is added to the overruns, on both sides (`ReserveHolds`,
`SettleHolds`).

Those of `LabPlanner` are for any bounds, at least one world, and ceilings of at least one
(`PlanBounds`), and for any model whose weights, tables, costs and losses are complete and in
which some decision needs no evidence (`ModelsAreClosed`): the loader of a model refuses any
other.
Four functions of the module are recursive: over outcomes, probes, horizons and, in the
recursion that the code quotes, horizons again. `RecursionExists` builds all four at once, as
runs of one step function (`Onward`). `BellmanHolds` then says that the recursion is the least
of stopping and of every probe that may be acquired (`LeastOf`).

The invariant of the search is `EnvHolds`, of what the branches share: the count is within the
ceiling, a cut is only recorded at the ceiling, and the value of every entry of the memo lies
between the recursion and stopping, and is the recursion's unless the search was cut
(`Bounded`). An entry that was cut short may be used in another branch, but the flag that says
so stays up for the whole search (`Carries`). The invariant needs the key of the memo to hold
the observed pairs and the budget as well as the worlds, because the recursion depends on all
three. From it, one outcome after the other (`TryHolds`: the outcomes seen so far have worth
between their recursions and their stopping), one probe after the other (`AnswerHolds`,
`BestHolds`), one node (`VisitHolds`), and by `Upward` one horizon after the other
(`SearchesHold`). `PlanIsSound` reads the plan off the root. `PlanInv` adds that the posterior
holds worlds of the model; it is inductive, and `PlansHold` is a part of it.

`PartsTypeOKHolds` is about `Lab`, whose behaviours are behaviours of all four modules
(`LabStarts`, `LabSteps`). The types of an episode (`SessionTypes`) are inductive on the ground
of its other invariants: a conclusion is about a probe of the model because the call that draws
it was admitted under a catalog (`Work`), and a revision edited in place keeps its probe and
names worlds of the model (`Shapes`, `TamperedWorlds`); a snapshot holds every path because the
capture goes on until none is left (`CaptureTyped`). Those of the memory use its `MemoryInv`: a
revision replaces the latest event of its claim, which is an earlier one (`CurrentIs`).

## What is proved, and what is only model-checked

| Module | Theorems | Only model-checked |
| --- | --- | --- |
| `LedgerStoreProofs` | `TypeOKHolds`, `StoreSurvivesHolds`, `NoForkHolds`, `UndamagedVerifiesHolds`, `ReceiptsDurableHolds`, `DamageReportedHolds`, `AnswersAreTrueHolds`, `ImplementsLogHolds` | |
| `HoldoutLedgerProofs` | `OneVerdictPerCorpusHolds`, `AnswersAreRecordedHolds`, `RefusedNeverSpendsHolds`, `ImplementsWriteOnceHolds`, `TypeOKHolds` | `EveryCallEnds` (liveness) |
| `EvaluationProofs` | `OneLookPerHoldoutHolds`, `GrantsAreEarnedHolds`, `FinalVerdictsAreCompleteHolds` | |
| `DecisionMemoryProofs` | `AcceptedWritesVerifyHolds`, `ImportsAreFirstHandHolds`, `AnswersAreTimelyHolds`, `ImplementsHistoriesHolds` | |
| `ReconciliationProofs` | `VerifyIsRightHolds`, `ImplementsNarrativesHolds` | |
| `ShadowInstallProofs` | `NothingLostHolds`, `HomeFitsHolds`, `ImplementsInstallationHolds` (callers take turns) | `PendingEnds` (liveness) |
| `CollectionProofs` | `VerifyIsRightHolds`, `ManifestsAreFinalHolds`, `LinksHoldAlways`, `ImplementsLifecycleHolds` | `CollectionEnds` (liveness) |
| `LabProofs` | `PosteriorFollowsHolds`, `ConclusionsHoldAlways`, `HonestIsExactAlways` (at most one edit in place), `GroundedIsLeastHolds`, `PastIsFixedHolds`, `BudgetHoldsAlways`, `PlansHoldAlways`, `PartsTypeOKHolds` | |

The theorems hold for every value of the constants that meets the assumptions of their
modules. Every invariant and action property that the runs check is stated by one of them
(that of the installer for callers that take turns, two of the lab's for one edit in place);
what is left to TLC is liveness under fairness, which is outside what TLAPS proves here. No
module declares a `RECURSIVE` operator. Where a recursive function or a sum had to be unfolded, the induction runs over a
set (`FirstPlace`, `Upward`, `BySubsets`), from the well-foundedness of strict inclusion.

## Not modelled

`PROJECT.json` lists every component with its status. Besides what the sections above leave
out:

* **Shadow harness and status.** Each hook call is a process of its own. It writes its record
  with an exclusive creation and replaces the cache of the last source observation through the
  same lease as the installer. No document relates two records to one another, so there is
  nothing to violate. Reading it showed that a slow hook may replace a newer cache (dates are
  not compared), that a record's `observed_at` is taken before the cache is read, that two
  identical events within a second have one seal and the second is refused, and that a status
  report which meets the temporary file of a hook may report an invalid configuration.
  `shadow_status.py` writes nothing.
* **Pairwise capture.** A validator and one exclusive creation.
* **Benchmark.** One nested loop over a fixed grid in one process, on the validation split
  alone, with a budget per case that is refused at the first operation past it; its metrics
  are arithmetic over floats.
* **Contracts, episodes, canonical encoding.** Validation of data, and an encoding of which
  the models need that it is injective (`Seals`).
* **Admission of text** by the decision stores and the diagnostic report of a collection:
  patterns over strings, and rates over floats.
* **Command line and examples.** One library call per command; callers of the library.
* **Creating and opening** the decision memory, the reconciliation journal and a collection
  repeats the code of the episode ledger, and is modelled there.
