---------------------------- MODULE LedgerStore ----------------------------
(***************************************************************************)
(* The shadow-only episode ledger (ledger.py): one SQLite file, written by *)
(* any number of processes, one BEGIN IMMEDIATE transaction per write.     *)
(*                                                                         *)
(* SQLite makes a transaction atomic and durable, so a transaction is one  *)
(* action.  What happens around it is split: a creator claims the file     *)
(* before it commits the schema, an appender revalidates and seals its     *)
(* episode before the transaction and returns its receipt after it, and a  *)
(* process may die at any of those points.  Storage may also lose or       *)
(* change what was written (StorageDefect); verify has to notice.          *)
(***************************************************************************)
EXTENDS Naturals, Sequences, Seals

CONSTANTS
  Process,      \* the processes that use the store
  EpisodeId,    \* episode identifiers
  Body,         \* what an episode says, beyond its identifier and provenance
  Host,         \* host identities: the part of the binding that varies
  MaxDamage     \* bound on the defects that storage may introduce

ASSUME MaxDamageAssumption == MaxDamage \in Nat

VARIABLES
  file,         \* the database file: absent, claimed (empty) or ready
  binding,      \* store_meta: the host the store is bound to
  epoch_status, \* store_meta: open or abandoned
  anchor,       \* store_meta: the durable anchor, or NoAnchor
  episodes,     \* the rows of table episodes, by seq
  tombstones,   \* the episode ids of table tombstones
  pc,           \* where each process is in its operation
  arg,          \* the episode each process is appending
  receipt,      \* the receipt each process has yet to return
  result,       \* the last answer of append that each process was given
  receipts,     \* history: the receipts returned to callers
  exported,     \* history: the last export returned to a caller
  sealed,       \* history: every chain seal that a commit made durable
  committed,    \* history: what the last commit left in the file, or Unknown
  defects       \* history: how many defects storage has introduced

meta == <<binding, epoch_status, anchor>>
stored == <<meta, episodes, tombstones>>
procs == <<pc, arg, receipt, result>>
history == <<receipts, exported, sealed, committed, defects>>
vars == <<file, stored, procs, history>>

-----------------------------------------------------------------------------
(* Episodes, rows and seals.                                               *)

None == "none"
NoSeal == Seal(None, None)
NoAnchor == [count |-> 0, tail |-> NoSeal, seal |-> NoSeal]

ASSUME NoneAssumption == None \notin EpisodeId \cup Host

Episode == [id : EpisodeId, body : Body, host : Host]
NoEpisode == [id |-> None, body |-> None, host |-> None]

ContentSeal(ep) == Seal("content", ep)

\* Recomputed from the identity of the binding, never read back from storage.
GenesisSeal(host) == Seal("genesis", host)

ChainSeal(seq, id, content, prev) ==
  Seal("chain", [seq |-> seq, episode_id |-> id,
                 content_seal |-> content, prev |-> prev])

AnchorSeal(genesis, count, tail, status) ==
  Seal("anchor", [genesis |-> genesis, count |-> count,
                  tail |-> tail, status |-> status])

Anchor(genesis, count, tail, status) ==
  [count |-> count, tail |-> tail,
   seal |-> AnchorSeal(genesis, count, tail, status)]

NoReceipt == [seq |-> 0, episode_id |-> None, chain_seal |-> NoSeal]

Unknown == <<>>
NoExport == [root |-> NoSeal, rows |-> <<>>]

WithPayload(row, ep) == [row EXCEPT !.payload = ep]
Redacted(row) == [row EXCEPT !.payload = NoEpisode, !.redacted = TRUE]

RowOf(id) == {n \in DOMAIN episodes : episodes[n].episode_id = id}
StoredIds == {episodes[n].episode_id : n \in DOMAIN episodes}

RootSeal ==
  IF episodes = <<>> THEN GenesisSeal(binding)
  ELSE episodes[Len(episodes)].chain_seal

-----------------------------------------------------------------------------
(* verify: the defects of _verify_unlocked, one predicate per kind.        *)

PrevSeal(n) ==
  IF n = 1 THEN GenesisSeal(binding) ELSE episodes[n - 1].chain_seal

SequenceInvalid ==
  \E n \in DOMAIN episodes :
    episodes[n].seq # (IF n = 1 THEN 1 ELSE episodes[n - 1].seq + 1)

ChainBroken ==
  \E n \in DOMAIN episodes :
    LET row == episodes[n]
    IN  \/ row.prev_chain_seal # PrevSeal(n)
        \/ row.chain_seal # ChainSeal(row.seq, row.episode_id,
                                      row.content_seal, row.prev_chain_seal)

RedactionInvalid ==
  \/ \E n \in DOMAIN episodes :
       LET row == episodes[n]
       IN  \/ row.redacted /\ row.payload # NoEpisode
           \/ row.redacted /\ row.episode_id \notin tombstones
           \/ ~row.redacted /\ row.episode_id \in tombstones
  \/ ~(tombstones \subseteq StoredIds)

PayloadInvalid ==
  \E n \in DOMAIN episodes :
    LET row == episodes[n]
    IN  /\ ~row.redacted
        /\ \/ row.payload = NoEpisode
           \/ ContentSeal(row.payload) # row.content_seal
           \/ row.payload.host # binding

\* Mutant: the anchor reproduces, but is not compared with the rows.
AnchorInvalidSealOnly ==
  \/ anchor = NoAnchor
  \/ anchor.seal # AnchorSeal(GenesisSeal(binding), anchor.count, anchor.tail,
                              epoch_status)

AnchorInvalid ==
  \/ anchor = NoAnchor
  \/ anchor.seal # AnchorSeal(GenesisSeal(binding), anchor.count, anchor.tail,
                              epoch_status)
  \/ anchor.count # Len(episodes)
  \/ anchor.tail # RootSeal

VerifyOk ==
  /\ ~SequenceInvalid
  /\ ~ChainBroken
  /\ ~RedactionInvalid
  /\ ~PayloadInvalid
  /\ ~AnchorInvalid

-----------------------------------------------------------------------------
(* Creating and opening the store.                                         *)

Init ==
  /\ file = "absent"
  /\ binding = None
  /\ epoch_status = "open"
  /\ anchor = NoAnchor
  /\ episodes = <<>>
  /\ tombstones = {}
  /\ pc = [p \in Process |-> "closed"]
  /\ arg = [p \in Process |-> NoEpisode]
  /\ receipt = [p \in Process |-> NoReceipt]
  /\ result = [p \in Process |-> None]
  /\ receipts = {}
  /\ exported = NoExport
  /\ sealed = {}
  /\ committed = stored
  /\ defects = 0

\* Mutant: the file is opened without O_EXCL.
CreateClaimShared(p) ==
  /\ pc[p] = "closed"
  /\ file' = "claimed"
  /\ pc' = [pc EXCEPT ![p] = "claimed"]
  /\ UNCHANGED <<stored, arg, receipt, result, history>>

\* create claims the file with O_CREAT | O_EXCL: a second creator is refused.
CreateClaim(p) ==
  /\ pc[p] = "closed"
  /\ file = "absent"
  /\ file' = "claimed"
  /\ pc' = [pc EXCEPT ![p] = "claimed"]
  /\ UNCHANGED <<stored, arg, receipt, result, history>>

\* The schema, the binding and the first anchor are committed together.
CreateCommit(p, host) ==
  /\ pc[p] = "claimed"
  /\ file' = "ready"
  /\ binding' = host
  /\ epoch_status' = "open"
  /\ anchor' = Anchor(GenesisSeal(host), 0, GenesisSeal(host), "open")
  /\ episodes' = <<>>
  /\ tombstones' = {}
  /\ committed' = stored'
  /\ pc' = [pc EXCEPT ![p] = "idle"]
  /\ UNCHANGED <<arg, receipt, result, receipts, exported, sealed, defects>>

\* An exception before the commit: the creator removes the file it claimed.
CreateFail(p) ==
  /\ pc[p] = "claimed"
  /\ file' = "absent"
  /\ pc' = [pc EXCEPT ![p] = "closed"]
  /\ UNCHANGED <<stored, arg, receipt, result, history>>

\* A claimed file holds no store_meta table: open refuses it.
Open(p) ==
  /\ pc[p] = "closed"
  /\ file = "ready"
  /\ pc' = [pc EXCEPT ![p] = "idle"]
  /\ UNCHANGED <<file, stored, arg, receipt, result, history>>

\* A process may die between any two steps (close looks the same).  A
\* transaction that is still open dies with it: SQLite rolls it back.
Crash(p) ==
  /\ pc[p] # "closed"
  /\ pc' = [pc EXCEPT ![p] = "closed"]
  /\ arg' = [arg EXCEPT ![p] = NoEpisode]
  /\ receipt' = [receipt EXCEPT ![p] = NoReceipt]
  /\ result' = [result EXCEPT ![p] = None]
  /\ UNCHANGED <<file, stored, history>>

-----------------------------------------------------------------------------
(* append.                                                                 *)

\* The episode is revalidated and its content sealed before the transaction.
AppendPrepare(p, ep) ==
  /\ pc[p] = "idle"
  /\ pc' = [pc EXCEPT ![p] = "appending"]
  /\ arg' = [arg EXCEPT ![p] = ep]
  /\ result' = [result EXCEPT ![p] = None]
  /\ UNCHANGED <<file, stored, receipt, history>>

\* Mutant: append trusts the tail it finds.
AppendAnswerUnverified(ep) ==
  IF epoch_status # "open"    THEN "EpochClosed"
  ELSE IF ep.host # binding   THEN "ProvenanceMismatch"
  ELSE IF ep.id \in StoredIds THEN "DuplicateEpisode"
  ELSE "Appended"

\* Mutant: the epoch status is not read again inside the transaction.
AppendAnswerStale(ep) ==
  IF ~VerifyOk                THEN "IntegrityError"
  ELSE IF ep.host # binding   THEN "ProvenanceMismatch"
  ELSE IF ep.id \in StoredIds THEN "DuplicateEpisode"
  ELSE "Appended"

\* Mutant: every refusal of the database is reported as a duplicate.
AppendAnswerCoarse(ep) ==
  IF /\ VerifyOk
     /\ epoch_status = "open"
     /\ ep.host = binding
     /\ ep.id \notin StoredIds
  THEN "Appended"
  ELSE "DuplicateEpisode"

\* The checks made inside the transaction, in their order; the last one is
\* the UNIQUE constraint on episode_id.
AppendAnswer(ep) ==
  IF ~VerifyOk                    THEN "IntegrityError"
  ELSE IF epoch_status # "open"   THEN "EpochClosed"
  ELSE IF ep.host # binding       THEN "ProvenanceMismatch"
  ELSE IF ep.id \in StoredIds     THEN "DuplicateEpisode"
  ELSE "Appended"

\* Mutant: sequence numbers start at zero.
NextSeqFromZero ==
  IF episodes = <<>> THEN 0 ELSE episodes[Len(episodes)].seq + 1

NextSeq ==
  IF episodes = <<>> THEN 1 ELSE episodes[Len(episodes)].seq + 1

NewRow(ep) ==
  [seq             |-> NextSeq,
   episode_id      |-> ep.id,
   content_seal    |-> ContentSeal(ep),
   prev_chain_seal |-> RootSeal,
   chain_seal      |-> ChainSeal(NextSeq, ep.id, ContentSeal(ep), RootSeal),
   payload         |-> ep,
   redacted        |-> FALSE]

\* The row and the anchor become durable in one COMMIT.
AppendCommit(p) ==
  /\ pc[p] = "appending"
  /\ AppendAnswer(arg[p]) = "Appended"
  /\ LET row == NewRow(arg[p])
     IN  /\ episodes' = Append(episodes, row)
         /\ anchor' = Anchor(GenesisSeal(binding), row.seq, row.chain_seal,
                             epoch_status)
         /\ receipt' = [receipt EXCEPT ![p] =
                          [seq |-> row.seq, episode_id |-> row.episode_id,
                           chain_seal |-> row.chain_seal]]
         /\ sealed' = sealed \cup {row.chain_seal}
  /\ UNCHANGED <<file, binding, epoch_status, tombstones>>
  /\ committed' = stored'
  /\ pc' = [pc EXCEPT ![p] = "committed"]
  /\ UNCHANGED <<arg, result, receipts, exported, defects>>

AppendRefused(p) ==
  /\ pc[p] = "appending"
  /\ AppendAnswer(arg[p]) # "Appended"
  /\ result' = [result EXCEPT ![p] = AppendAnswer(arg[p])]
  /\ pc' = [pc EXCEPT ![p] = "idle"]
  /\ UNCHANGED <<file, stored, arg, receipt, history>>

AppendReturn(p) ==
  /\ pc[p] = "committed"
  /\ receipts' = receipts \cup {receipt[p]}
  /\ result' = [result EXCEPT ![p] = "Appended"]
  /\ receipt' = [receipt EXCEPT ![p] = NoReceipt]
  /\ pc' = [pc EXCEPT ![p] = "idle"]
  /\ UNCHANGED <<file, stored, arg, exported, sealed, committed, defects>>

-----------------------------------------------------------------------------
(* The other transactions, each one action: nothing happens around them.   *)

\* Mutant: the row of table tombstones is not written.
TombstoneUnrecorded(p, id) ==
  /\ pc[p] = "idle"
  /\ VerifyOk
  /\ \E n \in RowOf(id) :
       /\ ~episodes[n].redacted
       /\ episodes' = [episodes EXCEPT ![n] = Redacted(@)]
  /\ UNCHANGED <<file, meta, tombstones, procs>>
  /\ committed' = stored'
  /\ UNCHANGED <<receipts, exported, sealed, defects>>

\* tombstone drops one payload; the row, its seals and the anchor stay.
Tombstone(p, id) ==
  /\ pc[p] = "idle"
  /\ VerifyOk
  /\ \E n \in RowOf(id) :
       /\ ~episodes[n].redacted
       /\ episodes' = [episodes EXCEPT ![n] = Redacted(@)]
  /\ tombstones' = tombstones \cup {id}
  /\ UNCHANGED <<file, meta, procs>>
  /\ committed' = stored'
  /\ UNCHANGED <<receipts, exported, sealed, defects>>

\* Mutant: the status written is not one that EpochStatus names.
AbandonEpochMisnamed(p) ==
  /\ pc[p] = "idle"
  /\ epoch_status # "abandoned"
  /\ epoch_status' = "closed"
  /\ anchor' = Anchor(GenesisSeal(binding), Len(episodes), RootSeal, "closed")
  /\ UNCHANGED <<file, binding, episodes, tombstones, procs>>
  /\ committed' = IF VerifyOk THEN stored' ELSE Unknown
  /\ UNCHANGED <<receipts, exported, sealed, defects>>

\* abandon_epoch re-anchors whatever rows it finds; it does not verify them.
AbandonEpoch(p) ==
  /\ pc[p] = "idle"
  /\ epoch_status # "abandoned"
  /\ epoch_status' = "abandoned"
  /\ anchor' = Anchor(GenesisSeal(binding), Len(episodes), RootSeal, "abandoned")
  /\ UNCHANGED <<file, binding, episodes, tombstones, procs>>
  /\ committed' = IF VerifyOk THEN stored' ELSE Unknown
  /\ UNCHANGED <<receipts, exported, sealed, defects>>

\* Mutant: export reads without verifying.
ExportUnverified(p) ==
  /\ pc[p] = "idle"
  /\ exported' = [root |-> RootSeal,
                  rows |-> [n \in DOMAIN episodes |->
                              [episode_id |-> episodes[n].episode_id,
                               payload |-> episodes[n].payload]]]
  /\ UNCHANGED <<file, stored, procs, receipts, sealed, committed, defects>>

\* export verifies and reads inside one transaction; a store that does not
\* verify yields no document.  (replay reads under the same gate.)
Export(p) ==
  /\ pc[p] = "idle"
  /\ VerifyOk
  /\ exported' = [root |-> RootSeal,
                  rows |-> [n \in DOMAIN episodes |->
                              [episode_id |-> episodes[n].episode_id,
                               payload |-> episodes[n].payload]]]
  /\ UNCHANGED <<file, stored, procs, receipts, sealed, committed, defects>>

-----------------------------------------------------------------------------
(* Storage defects: one field or one row that no operation wrote.          *)

Without(s, n) == SubSeq(s, 1, n - 1) \o SubSeq(s, n + 1, Len(s))

LoseRow ==
  /\ \E n \in DOMAIN episodes : episodes' = Without(episodes, n)
  /\ UNCHANGED <<meta, tombstones>>

\* A payload that is lost, that is not the one sealed, or that comes back
\* to a redacted row.
AlterPayload ==
  /\ \E n \in DOMAIN episodes, ep \in Episode \cup {NoEpisode} :
       /\ ep # episodes[n].payload
       /\ episodes[n].redacted \/ ContentSeal(ep) # episodes[n].content_seal
       /\ episodes' = [episodes EXCEPT ![n] = WithPayload(@, ep)]
  /\ UNCHANGED <<meta, tombstones>>

LoseTombstone ==
  /\ \E id \in tombstones : tombstones' = tombstones \ {id}
  /\ UNCHANGED <<meta, episodes>>

LoseAnchor ==
  /\ anchor # NoAnchor
  /\ anchor' = NoAnchor
  /\ UNCHANGED <<binding, epoch_status, episodes, tombstones>>

Relabel ==
  /\ \E host \in Host \ {binding} : binding' = host
  /\ UNCHANGED <<epoch_status, anchor, episodes, tombstones>>

FlipStatus ==
  /\ epoch_status' = IF epoch_status = "open" THEN "abandoned" ELSE "open"
  /\ UNCHANGED <<binding, anchor, episodes, tombstones>>

\* At most MaxDamage defects.
StorageDefect ==
  /\ file = "ready"
  /\ defects < MaxDamage
  /\ \/ LoseRow \/ AlterPayload \/ LoseTombstone
     \/ LoseAnchor \/ Relabel \/ FlipStatus
  /\ defects' = defects + 1
  /\ UNCHANGED <<file, procs, receipts, exported, sealed, committed>>

-----------------------------------------------------------------------------
Next ==
  \/ \E p \in Process :
       \/ CreateClaim(p) \/ CreateFail(p) \/ Open(p) \/ Crash(p)
       \/ AppendCommit(p) \/ AppendRefused(p) \/ AppendReturn(p)
       \/ AbandonEpoch(p) \/ Export(p)
       \/ \E host \in Host : CreateCommit(p, host)
       \/ \E ep \in Episode : AppendPrepare(p, ep)
       \/ \E id \in EpisodeId : Tombstone(p, id)
  \/ StorageDefect

Spec == Init /\ [][Next]_vars

-----------------------------------------------------------------------------
(* Properties.                                                             *)

Answers == {None, "Appended", "IntegrityError", "EpochClosed",
            "ProvenanceMismatch", "DuplicateEpisode"}

\* Every variable holds a value of its kind.
TypeOK ==
  /\ file \in {"absent", "claimed", "ready"}
  /\ binding \in Host \cup {None}
  /\ epoch_status \in {"open", "abandoned"}
  /\ DOMAIN episodes = 1..Len(episodes)
  /\ \A n \in DOMAIN episodes :
       /\ episodes[n].seq \in Nat
       /\ episodes[n].episode_id \in EpisodeId
       /\ episodes[n].payload \in Episode \cup {NoEpisode}
       /\ episodes[n].redacted \in BOOLEAN
  /\ tombstones \subseteq EpisodeId
  /\ pc \in [Process -> {"closed", "claimed", "idle", "appending", "committed"}]
  /\ arg \in [Process -> Episode \cup {NoEpisode}]
  /\ result \in [Process -> Answers]
  /\ defects \in 0..MaxDamage

\* Whatever processes do, in whatever order and wherever they die, a store
\* that storage left alone passes its own verification: no write leaves a
\* file that the next append would refuse.
UndamagedVerifies ==
  file = "ready" /\ defects = 0 => VerifyOk

\* verify reports every file that differs from what the last commit left, as
\* long as no epoch was abandoned on top of a defect (see RowLossReported).
DamageReported ==
  file = "ready" /\ stored # committed => ~VerifyOk \/ committed = Unknown

\* Two accepted episodes never share a sequence number, and each links to the
\* one before it: the chain never forks, even if storage loses rows.
NoFork ==
  \A s, t \in sealed : s[2].seq = t[2].seq => s = t

\* An export shows only what was accepted: each row is a link that a commit
\* made durable, each payload the one that link sealed, and its root is the
\* seal of its last row.
ExportSound ==
  LET rows == exported.rows
      Shown(n, s) == /\ s[2].seq = n
                     /\ s[2].episode_id = rows[n].episode_id
                     /\ \/ rows[n].payload = NoEpisode
                        \/ s[2].content_seal = ContentSeal(rows[n].payload)
  IN  /\ \A n \in DOMAIN rows : \E s \in sealed : Shown(n, s)
      /\ rows # <<>> => \E s \in sealed : s = exported.root /\ Shown(Len(rows), s)

\* A receipt that a caller holds names a row of the file, at the sequence
\* number and with the chain seal that it states.
ReceiptsDurable ==
  defects = 0 =>
    \A r \in receipts :
      /\ r.seq \in DOMAIN episodes
      /\ episodes[r.seq].episode_id = r.episode_id
      /\ episodes[r.seq].chain_seal = r.chain_seal

\* DuplicateEpisode tells a retrying caller the truth: the episode id is
\* stored (by its own lost attempt or by another process), exactly once.
DuplicateMeansStored ==
  \A p \in Process :
    result[p] = "DuplicateEpisode" /\ defects = 0 =>
      \E n \in DOMAIN episodes : RowOf(arg[p].id) = {n}

\* What callers are told, an export or that an episode is there already, is
\* so (export, append).
AnswersAreTrue == ExportSound /\ DuplicateMeansStored

\* A creator that loses the race, fails or dies never removes or replaces a
\* store that another one completed.
StoreSurvives ==
  [][file = "ready" => file' = "ready" /\ (defects' = 0 => binding' = binding)]_vars

\* What ledger.md says: "Removing rows leaves the anchor describing a store
\* that no longer exists" - a store that lost rows does not verify.
RowLossReported ==
  file = "ready" /\ {episodes[n].chain_seal : n \in DOMAIN episodes} # sealed
    => ~VerifyOk

-----------------------------------------------------------------------------
(* Until storage has a defect, the ledger implements an append-only log of *)
(* episode ids whose erased entries are the redacted ones.                 *)

Log == INSTANCE AppendOnlyLog WITH
  Entry  <- EpisodeId,
  log    <- [n \in DOMAIN episodes |-> episodes[n].episode_id],
  erased <- {episodes[n].episode_id :
               n \in {m \in DOMAIN episodes : episodes[m].redacted}},
  closed <- epoch_status = "abandoned"

ImplementsLog == Log!Init /\ [][defects' = 0 => Log!Next]_(Log!logvars)
=============================================================================
