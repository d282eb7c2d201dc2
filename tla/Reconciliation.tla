--------------------------- MODULE Reconciliation ---------------------------
(***************************************************************************)
(* The post-action reconciliation journal (decision_reconciliation/        *)
(* store.py): an append-only, anchored SQLite table of what was observed   *)
(* after a decision was acted on, each entry one revision of one           *)
(* reconciliation of one exact decision record.                            *)
(*                                                                         *)
(* A write is one BEGIN IMMEDIATE transaction, and all that it looks at    *)
(* before it is its own arguments: it is one action.  The disk may lose    *)
(* the last entry, alter a payload or flip the epoch status, MaxDamage     *)
(* times.  The seal of a chain stands for the sealed columns of its rows.  *)
(***************************************************************************)
EXTENDS Naturals, Sequences, FiniteSets, Seals

CONSTANTS
  ReconciliationId,
  Decision,      \* decision records: [id, revision, captured, authority, binding]
  Producer,      \* who observes, and who decides
  Instant,
  Binding,       \* host, agent family, store and epoch of this journal
  MaxReconciliationRevision,
  MaxEntries,    \* bound on the entries
  MaxDamage,     \* bound on the storage defects
  None

ASSUME JournalBounds ==
  {MaxReconciliationRevision, MaxEntries, MaxDamage} \subseteq Nat
ASSUME NobodyReconciles == None \notin ReconciliationId
ASSUME DecisionShape ==
  /\ Instant \subseteq Nat
  /\ \A d \in Decision :
       /\ DOMAIN d = {"id", "revision", "captured", "authority", "binding"}
       /\ d.captured \in Nat

VARIABLES
  entries,       \* table reconciliations, by seq
  epoch_status,  \* store_meta
  anchor,        \* store_meta: the durable anchor
  committed,     \* history: the entries that the last commit left
  defects        \* history: how often the storage failed

journal == <<entries, epoch_status, anchor>>
vars == <<journal, committed, defects>>

-----------------------------------------------------------------------------
(* Records and seals.                                                      *)

\* preimage_reference_seal: binding, id, revision and seal of the decision.
Preimage(d) == Seal("preimage", d)

RecordSeal(record) == Seal("reconciliation", record)

Bindings == {Binding} \cup {d.binding : d \in Decision}

\* What a reconciliation record says besides its place in its narrative.
Observation ==
  [reconciled_at : Instant, producer : Producer,
   execution : {"EXECUTED", "NOT_EXECUTED"}]

\* Mutant: the revision number has no limit.
AdmissibleUnbounded(record) ==
  record.revision = 1 <=> record.supersedes = None

\* What the contract of a record admits.
Admissible(record) ==
  /\ record.revision \in 1..MaxReconciliationRevision
  /\ record.revision = 1 <=> record.supersedes = None

\* require_preimage_match: this decision, and nothing seen before it.
PreimageMatches(record, decision) ==
  /\ record.preimage = Preimage(decision)
  /\ record.seen.reconciled_at >= decision.captured

Entry(record) ==
  [id |-> record.id, revision |-> record.revision, preimage |-> record.preimage,
   content |-> RecordSeal(record), payload |-> record]

SealedColumns(row) == <<row.id, row.revision, row.preimage, row.content>>

ChainSeal(rows) == Seal("chain", [n \in DOMAIN rows |-> SealedColumns(rows[n])])

Anchor(rows, status) ==
  [generation |-> Len(rows), tail |-> ChainSeal(rows), status |-> status]

RowsOf(id) == {n \in DOMAIN entries : entries[n].id = id}

\* _head_row: the entry with the highest revision, or 0.
HeadRow(id) ==
  IF RowsOf(id) = {} THEN 0
  ELSE CHOOSE n \in RowsOf(id) :
         \A m \in RowsOf(id) : entries[m].revision <= entries[n].revision

-----------------------------------------------------------------------------
(* verify.                                                                 *)

RevisionLinked(row) ==
  \E m \in RowsOf(row.id) :
    /\ entries[m].revision = row.revision - 1
    /\ entries[m].content = row.payload.supersedes

EntryFinding(row) ==
  \/ RecordSeal(row.payload) # row.content
  \/ row.payload.id # row.id
  \/ row.payload.revision # row.revision
  \/ row.payload.preimage # row.preimage
  \/ row.payload.binding # Binding
  \/ row.revision > 1 /\ ~RevisionLinked(row)

PreimageForked ==
  \E n, m \in DOMAIN entries :
    entries[n].preimage = entries[m].preimage /\ entries[n].id # entries[m].id

VerifyOk ==
  /\ \A n \in DOMAIN entries : ~EntryFinding(entries[n])
  /\ ~PreimageForked
  /\ anchor = Anchor(entries, epoch_status)

-----------------------------------------------------------------------------
(* Writes.                                                                 *)

Init ==
  /\ entries = <<>>
  /\ epoch_status = "open"
  /\ anchor = Anchor(<<>>, "open")
  /\ committed = <<>>
  /\ defects = 0

\* _append_transaction: a write that fails one of these is rolled back.
Writable(expected) ==
  /\ VerifyOk
  /\ epoch_status = "open"
  /\ expected \in {None, Len(entries)}
  /\ Len(entries) < MaxEntries

\* _require_preimage_unclaimed.
PreimageUnclaimed(record) ==
  \A n \in DOMAIN entries : entries[n].preimage # record.preimage

\* Mutant: a new reconciliation does not ask who reconciled its preimage.
ExtendsHeadForked(record) ==
  LET head == HeadRow(record.id)
  IN  IF head = 0 THEN record.revision = 1
      ELSE /\ record.revision = entries[head].revision + 1
           /\ record.supersedes = entries[head].content
           /\ record.preimage = entries[head].preimage

\* Mutant: a revision may be about another decision than its head.
ExtendsHeadRepointed(record) ==
  LET head == HeadRow(record.id)
  IN  IF head = 0 THEN record.revision = 1 /\ PreimageUnclaimed(record)
      ELSE /\ record.revision = entries[head].revision + 1
           /\ record.supersedes = entries[head].content

ExtendsHead(record) ==
  LET head == HeadRow(record.id)
  IN  IF head = 0 THEN record.revision = 1 /\ PreimageUnclaimed(record)
      ELSE /\ record.revision = entries[head].revision + 1
           /\ record.supersedes = entries[head].content
           /\ record.preimage = entries[head].preimage

AppendReconciliation(record, decision, expected) ==
  /\ Admissible(record)
  /\ PreimageMatches(record, decision)
  /\ Writable(expected)
  /\ record.binding = Binding
  /\ decision.binding = Binding
  /\ ExtendsHead(record)
  /\ entries' = Append(entries, Entry(record))
  /\ anchor' = Anchor(entries', epoch_status)
  /\ committed' = entries'
  /\ UNCHANGED <<epoch_status, defects>>

\* Mutant: the epoch is closed over whatever entries there are.
AbandonEpochUnverified ==
  /\ epoch_status = "open"
  /\ epoch_status' = "abandoned"
  /\ anchor' = Anchor(entries, "abandoned")
  /\ UNCHANGED <<entries, committed, defects>>

AbandonEpoch ==
  /\ VerifyOk
  /\ epoch_status = "open"
  /\ epoch_status' = "abandoned"
  /\ anchor' = Anchor(entries, "abandoned")
  /\ UNCHANGED <<entries, committed, defects>>

\* A caller revises any revision it ever saw.
KnownSeals == {entries[n].content : n \in DOMAIN entries}

Write ==
  \/ AbandonEpoch
  \/ \E record \in [id : ReconciliationId, revision : 1..MaxReconciliationRevision + 1,
                    supersedes : KnownSeals \cup {None},
                    preimage : {Preimage(d) : d \in Decision}, binding : Bindings,
                    seen : Observation],
        decision \in Decision, expected \in {None, Len(entries)} :
       AppendReconciliation(record, decision, expected)

-----------------------------------------------------------------------------
(* What the disk may do to the file behind the back of every writer.       *)

StorageDefect ==
  /\ defects < MaxDamage
  /\ defects' = defects + 1
  /\ entries # <<>>
  /\ \/ /\ entries' = SubSeq(entries, 1, Len(entries) - 1)
        /\ UNCHANGED epoch_status
     \/ \E n \in DOMAIN entries :
          /\ entries' = [entries EXCEPT ![n].payload.seen = None]
          /\ UNCHANGED epoch_status
     \/ /\ epoch_status' = IF epoch_status = "open" THEN "abandoned" ELSE "open"
        /\ UNCHANGED entries
  /\ UNCHANGED <<anchor, committed>>

Next == Write \/ StorageDefect

Spec == Init /\ [][Next]_vars

-----------------------------------------------------------------------------
(* Properties.                                                             *)

\* Every variable has its type, and the entries stay within their bound.
TypeOK ==
  /\ entries \in Seq([id : ReconciliationId, revision : 1..MaxReconciliationRevision,
                      preimage : {Preimage(d) : d \in Decision},
                      content : {entries[n].content : n \in DOMAIN entries},
                      payload : {entries[n].payload : n \in DOMAIN entries}])
  /\ Len(entries) <= MaxEntries
  /\ epoch_status \in {"open", "abandoned"}
  /\ DOMAIN anchor = {"generation", "tail", "status"}
  /\ defects \in 0..MaxDamage

\* The writes of _append_transaction and abandon_epoch, in whatever order
\* they come, never make a journal that verify refuses: only storage can.
LegalUseVerifies == defects = 0 => VerifyOk

\* abandon_epoch promises never to launder a defect: what differs from the
\* last commit is reported for ever, whatever was called since.
DamageStaysReported == entries # committed => ~VerifyOk

\* verify accepts what legal use makes, within the bounds, and nothing that
\* storage made of it.
VerifyIsRight == TypeOK /\ LegalUseVerifies /\ DamageStaysReported

\* The one narrative of each decision, read off what was committed.
RowsAbout(d) == {n \in DOMAIN committed : committed[n].preimage = Preimage(d)}

TellerOf(d) ==
  IF RowsAbout(d) = {} THEN None ELSE committed[CHOOSE n \in RowsAbout(d) : TRUE].id

\* Chapter r is what the entry of revision r saw.
ChaptersOf(d) ==
  [r \in {committed[n].revision : n \in RowsAbout(d)} |->
     committed[CHOOSE n \in RowsAbout(d) : committed[n].revision = r].payload.seen]

Abstract == INSTANCE Narratives WITH
  Subject <- Decision, Teller <- ReconciliationId, Chapter <- Observation,
  Nobody <- None,
  teller <- [d \in Decision |-> TellerOf(d)],
  chapters <- [d \in Decision |-> ChaptersOf(d)],
  closed <- (anchor.status = "abandoned")

\* docs/decision-reconciliation.md: one narrative per preimage.  Entries of
\* several reconciliations and decisions, offered in any order, implement one
\* growing narrative per decision revision, each with a teller of its own.
\* After a storage defect no write can be misled by what is left.
ImplementsNarratives == Abstract!Spec
=============================================================================
