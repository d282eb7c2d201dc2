--------------------------- MODULE DecisionMemory ---------------------------
(***************************************************************************)
(* The strategic decision memories (decision_memory/store.py): one SQLite  *)
(* file per host and agent family, an append-only log of record,           *)
(* revocation and tombstone events, and sealed envelopes that carry one    *)
(* decision from one store to another.                                     *)
(*                                                                         *)
(* A write is one BEGIN IMMEDIATE transaction, so it is one action, that   *)
(* anyone may take at any moment.  The reads are several statements with   *)
(* no transaction around them: each statement is a step of its own, and    *)
(* writes fall between them.  An envelope, once exported, can be imported  *)
(* at any later moment, any number of times, or never.                     *)
(*                                                                         *)
(* The creation of a store, its hash chain row by row and the damage that  *)
(* its disk can do are those of the episode ledger (LedgerStore); here the *)
(* seal of a chain stands for the sealed columns of its rows.              *)
(***************************************************************************)
EXTENDS Naturals, Sequences, FiniteSets, Seals

CONSTANTS
  Process,      \* the processes whose reads take several steps
  Store,        \* the decision memories, by their binding
  Decision,     \* decision identifiers
  Instant,      \* instants: what a record expires at and a read is as of
  MaxRevision,  \* MAX_REVISION of the contracts
  MaxEvents,    \* bound on the events of a store
  MaxEnvelopes, \* bound on the envelopes made
  None          \* SQL NULL, and an absent field

ASSUME InstantAssumption == Instant \subseteq Nat
ASSUME BoundsAssumption == {MaxRevision, MaxEvents, MaxEnvelopes} \subseteq Nat

VARIABLES
  events,        \* table events of each store, by seq
  imports,       \* table imports of each store
  epoch_status,  \* store_meta: open or abandoned
  anchor,        \* store_meta: the durable anchor
  envelopes,     \* every transfer envelope that was exported
  pc,            \* where each process is in its call
  view,          \* what each process read so far in its call
  answer         \* the last answer each process was given

files == <<events, imports, epoch_status, anchor>>
callers == <<pc, view, answer>>
vars == <<files, envelopes, callers>>

-----------------------------------------------------------------------------
(* Records, events, seals.                                                 *)

RecordSeal(rec) == Seal("record", rec)

\* The record that a content seal was computed from.
SealedRecord(content) == content[2]

RecordEvent(rec, origin, transfer) ==
  [kind |-> "record", decision |-> rec.decision, revision |-> rec.revision,
   origin |-> origin, transfer |-> transfer, content |-> RecordSeal(rec),
   payload |-> rec, redacted |-> FALSE]

\* A revocation or a tombstone names the revision it is about and its seal.
ReferringEvent(kind, row) ==
  LET payload == [decision |-> row.decision, revision |-> row.revision,
                  seal |-> row.content]
  IN  [kind |-> kind, decision |-> row.decision, revision |-> row.revision,
       origin |-> row.origin, transfer |-> None, content |-> Seal(kind, payload),
       payload |-> payload, redacted |-> FALSE]

EventId(e) ==
  IF e.kind = "revocation" THEN <<e.kind, e.decision>>
  ELSE <<e.kind, e.decision, e.revision>>

EventIds(rows) == {EventId(rows[n]) : n \in DOMAIN rows}

\* What the chain covers: everything but the payload and the redacted flag.
SealedColumns(e) == <<EventId(e), e.revision, e.origin, e.transfer, e.content>>

ChainSeal(s, rows) ==
  Seal("chain", <<s, [n \in DOMAIN rows |-> SealedColumns(rows[n])]>>)

Anchor(s, rows, status) ==
  [generation |-> Len(rows), tail |-> ChainSeal(s, rows), status |-> status]

\* The rows of one kind that belong to one decision.
RowsOf(rows, kind, d) ==
  {n \in DOMAIN rows : rows[n].kind = kind /\ rows[n].decision = d}

\* _head_record_row: the record with the highest revision, or 0.
HeadRow(rows, d) ==
  LET records == RowsOf(rows, "record", d)
  IN  IF records = {} THEN 0
      ELSE CHOOSE n \in records :
             \A m \in records : rows[m].revision <= rows[n].revision

Revoked(rows, d) == RowsOf(rows, "revocation", d) # {}

RecordRow(rows, d, r) ==
  {n \in RowsOf(rows, "record", d) : rows[n].revision = r}

RecordCount(rows) == Cardinality({n \in DOMAIN rows : rows[n].kind = "record"})

-----------------------------------------------------------------------------
(* verify: the findings of _verify_unlocked.                               *)

ImportMismatch(s) ==
  LET rows == events[s]
      linked(n) == [event |-> EventId(rows[n]), transfer |-> rows[n].transfer,
                    source |-> rows[n].content]
  IN  \/ \E n \in DOMAIN rows :
           /\ rows[n].kind = "record"
           /\ IF rows[n].origin = "FOREIGN_READ_ONLY"
              THEN linked(n) \notin imports[s]
              ELSE \/ rows[n].transfer # None
                   \/ \E i \in imports[s] : i.event = EventId(rows[n])
      \/ \E i \in imports[s] : i.event \notin EventIds(rows)

Tombstoned(rows, n) ==
  \E m \in RowsOf(rows, "tombstone", rows[n].decision) :
    rows[m].revision = rows[n].revision

RevisionLinked(rows, rec) ==
  \E m \in RecordRow(rows, rec.decision, rec.revision - 1) :
    rows[m].content = rec.supersedes

RecordFinding(s, n) ==
  LET rows == events[s]
      row == rows[n]
  IN  \/ row.redacted # Tombstoned(rows, n)
      \/ row.redacted # (row.payload = None)
      \/ /\ ~row.redacted
         /\ \/ RecordSeal(row.payload) # row.content
            \/ row.payload.decision # row.decision
            \/ row.payload.revision # row.revision
            \/ /\ row.origin = "NATIVE"
               /\ \/ row.payload.store # s
                  \/ row.revision > 1 /\ ~RevisionLinked(rows, row.payload)

ReferringFinding(s, n) ==
  LET rows == events[s]
      row == rows[n]
      target == RecordRow(rows, row.decision, row.revision)
  IN  \/ row.payload = None
      \/ Seal(row.kind, row.payload) # row.content
      \/ row.payload.decision # row.decision
      \/ row.payload.revision # row.revision
      \/ ~\E m \in target : rows[m].origin = row.origin
      \/ row.kind = "tombstone" /\ \E m \in target : ~rows[m].redacted

VerifyOk(s) ==
  /\ ~ImportMismatch(s)
  /\ \A n \in DOMAIN events[s] :
       IF events[s][n].kind = "record" THEN ~RecordFinding(s, n)
       ELSE ~ReferringFinding(s, n)
  /\ anchor[s] = Anchor(s, events[s], epoch_status[s])

-----------------------------------------------------------------------------
(* Writes.  The expected generation is None when the caller names none.    *)

Init ==
  /\ events = [s \in Store |-> <<>>]
  /\ imports = [s \in Store |-> {}]
  /\ epoch_status = [s \in Store |-> "open"]
  /\ anchor = [s \in Store |-> Anchor(s, <<>>, "open")]
  /\ envelopes = {}
  /\ pc = [p \in Process |-> "idle"]
  /\ view = [p \in Process |-> None]
  /\ answer = [p \in Process |-> None]

\* _append_transaction: a write that fails one of these is rolled back.
Writable(s, expected) ==
  /\ VerifyOk(s)
  /\ epoch_status[s] = "open"
  /\ expected \in {None, Len(events[s])}
  /\ Len(events[s]) < MaxEvents

\* _insert_event: the event is linked behind rows, which are those of the
\* store but for a redaction, and the store is anchored again.
Insert(s, rows, e) ==
  /\ EventId(e) \notin EventIds(rows)
  /\ events' = [events EXCEPT ![s] = Append(rows, e)]
  /\ anchor' = [anchor EXCEPT ![s] = Anchor(s, Append(rows, e), epoch_status[s])]

\* What the contract of a record admits.
Admissible(rec) ==
  /\ rec.revision \in 1..MaxRevision
  /\ rec.revision = 1 <=> rec.supersedes = None

\* Mutant: the revision number is compared, the superseded seal is not.
ExtendsHeadByNumber(s, rec) ==
  LET rows == events[s]
      head == HeadRow(rows, rec.decision)
  IN  /\ ~Revoked(rows, rec.decision)
      /\ IF head = 0 THEN rec.revision = 1
         ELSE /\ rows[head].origin = "NATIVE"
              /\ rec.revision = rows[head].revision + 1

\* Mutant: a revision of a revoked decision reinstates it.
ExtendsHeadRevoked(s, rec) ==
  LET rows == events[s]
      head == HeadRow(rows, rec.decision)
  IN  IF head = 0 THEN rec.revision = 1
      ELSE /\ rows[head].origin = "NATIVE"
           /\ rec.revision = rows[head].revision + 1
           /\ rec.supersedes = rows[head].content

ExtendsHead(s, rec) ==
  LET rows == events[s]
      head == HeadRow(rows, rec.decision)
  IN  /\ ~Revoked(rows, rec.decision)
      /\ IF head = 0 THEN rec.revision = 1
         ELSE /\ rows[head].origin = "NATIVE"
              /\ rec.revision = rows[head].revision + 1
              /\ rec.supersedes = rows[head].content

AppendDecision(s, expected, rec) ==
  /\ Admissible(rec)
  /\ Writable(s, expected)
  /\ rec.store = s
  /\ ExtendsHead(s, rec)
  /\ Insert(s, events[s], RecordEvent(rec, "NATIVE", None))
  /\ UNCHANGED <<imports, epoch_status, envelopes>>

Revoke(s, expected, d) ==
  LET rows == events[s]
      head == HeadRow(rows, d)
  IN  /\ Writable(s, expected)
      /\ head # 0
      /\ ~Revoked(rows, d)
      /\ Insert(s, rows, ReferringEvent("revocation", rows[head]))
      /\ UNCHANGED <<imports, epoch_status, envelopes>>

\* Mutant: the payload of every revision of the decision is dropped.
TombstoneAll(s, expected, d, r) ==
  /\ Writable(s, expected)
  /\ \E n \in RecordRow(events[s], d, r) :
       LET rows == [m \in DOMAIN events[s] |->
                      IF m \in RowsOf(events[s], "record", d)
                      THEN [events[s][m] EXCEPT !.payload = None, !.redacted = TRUE]
                      ELSE events[s][m]]
       IN  /\ ~events[s][n].redacted
           /\ Insert(s, rows, ReferringEvent("tombstone", events[s][n]))
  /\ UNCHANGED <<imports, epoch_status, envelopes>>

\* The payload of one revision is dropped, and an event says so.
Tombstone(s, expected, d, r) ==
  /\ Writable(s, expected)
  /\ \E n \in RecordRow(events[s], d, r) :
       LET rows == [events[s] EXCEPT ![n].payload = None, ![n].redacted = TRUE]
       IN  /\ ~events[s][n].redacted
           /\ Insert(s, rows, ReferringEvent("tombstone", events[s][n]))
  /\ UNCHANGED <<imports, epoch_status, envelopes>>

AbandonEpoch(s) ==
  /\ VerifyOk(s)
  /\ epoch_status[s] = "open"
  /\ epoch_status' = [epoch_status EXCEPT ![s] = "abandoned"]
  /\ anchor' = [anchor EXCEPT ![s] = Anchor(s, events[s], "abandoned")]
  /\ UNCHANGED <<events, imports, envelopes, callers>>

-----------------------------------------------------------------------------
(* Transfers.                                                              *)

\* The head of a decision that export_transfer seals in an envelope.
Envelope(s, row, destination) ==
  [source |-> row.payload.store, root |-> ChainSeal(s, events[s]),
   content |-> row.content, destination |-> destination, record |-> row.payload]

TransferSeal(envelope) == Seal("transfer", envelope)
SealedEnvelope(transfer) == transfer[2]

\* Mutant: what was imported may be exported again.
ExportTransferForeign(s, d, destination) ==
  LET rows == events[s]
      head == HeadRow(rows, d)
  IN  /\ destination # s
      /\ VerifyOk(s)
      /\ head # 0
      /\ ~Revoked(rows, d)
      /\ ~rows[head].redacted
      /\ envelopes' = envelopes \cup {Envelope(s, rows[head], destination)}
      /\ Cardinality(envelopes') <= MaxEnvelopes
      /\ UNCHANGED <<files, callers>>

\* Only a native head that is neither revoked nor redacted leaves a store.
ExportTransfer(s, d, destination) ==
  LET rows == events[s]
      head == HeadRow(rows, d)
  IN  /\ destination # s
      /\ VerifyOk(s)
      /\ head # 0
      /\ rows[head].origin = "NATIVE"
      /\ ~Revoked(rows, d)
      /\ ~rows[head].redacted
      /\ envelopes' = envelopes \cup {Envelope(s, rows[head], destination)}
      /\ Cardinality(envelopes') <= MaxEnvelopes
      /\ UNCHANGED <<files, callers>>

\* _require_no_native_collision and _require_not_replayed.
Importable(s, envelope) ==
  /\ HeadRow(events[s], envelope.record.decision) = 0
  /\ \A i \in imports[s] :
       i.transfer # TransferSeal(envelope) /\ i.source # envelope.content

\* Mutant: the row is inserted, its import metadata is not.
ImportTransferUnlinked(s, expected, envelope) ==
  /\ envelope.destination = s
  /\ Writable(s, expected)
  /\ Importable(s, envelope)
  /\ Insert(s, events[s], RecordEvent(envelope.record, "FOREIGN_READ_ONLY",
                                      TransferSeal(envelope)))
  /\ UNCHANGED <<imports, epoch_status, envelopes>>

ImportTransfer(s, expected, envelope) ==
  LET e == RecordEvent(envelope.record, "FOREIGN_READ_ONLY", TransferSeal(envelope))
  IN  /\ envelope.destination = s
      /\ Writable(s, expected)
      /\ Importable(s, envelope)
      /\ Insert(s, events[s], e)
      /\ imports' = [imports EXCEPT ![s] = @ \cup
           {[event |-> EventId(e), transfer |-> e.transfer, source |-> envelope.content]}]
      /\ UNCHANGED <<epoch_status, envelopes>>

\* A caller revises any revision it ever saw, in any store.
KnownSeals ==
  UNION {{events[s][n].content : n \in RowsOf(events[s], "record", d)} :
           s \in Store, d \in Decision}

Write(s, expected) ==
  \/ \E rec \in [decision : Decision, store : Store, revision : 1..MaxRevision + 1,
                 supersedes : KnownSeals \cup {None}, expires : Instant] :
       AppendDecision(s, expected, rec)
  \/ \E d \in Decision :
       \/ Revoke(s, expected, d)
       \/ \E r \in 1..MaxRevision : Tombstone(s, expected, d, r)
  \/ \E envelope \in envelopes : ImportTransfer(s, expected, envelope)

-----------------------------------------------------------------------------
(* Reads.  Each statement is a read transaction of its own.                *)

Goto(p, step) == pc' = [pc EXCEPT ![p] = step]
Keep(p, read) == view' = [view EXCEPT ![p] = read]

Return(p, ans) ==
  /\ answer' = [answer EXCEPT ![p] = ans]
  /\ Keep(p, None)
  /\ Goto(p, "idle")

\* status: the generation first, then the two other counters.
StatusGeneration(p, s) ==
  /\ pc[p] = "idle"
  /\ Keep(p, [store |-> s, generation |-> Len(events[s]), records |-> 0, root |-> None])
  /\ Goto(p, "counted")
  /\ UNCHANGED <<files, envelopes, answer>>

StatusRecords(p) ==
  /\ pc[p] = "counted"
  /\ Keep(p, [view[p] EXCEPT !.records = RecordCount(events[view[p].store])])
  /\ Goto(p, "recorded")
  /\ UNCHANGED <<files, envelopes, answer>>

\* Mutant: the generation is read last, when the rest may be stale already.
StatusRootFirst(p) ==
  LET s == view[p].store
  IN  /\ pc[p] = "recorded"
      /\ Keep(p, [view[p] EXCEPT !.root = ChainSeal(s, events[s]),
                                 !.generation = Len(events[s])])
      /\ Goto(p, "informed")
      /\ UNCHANGED <<files, envelopes, answer>>

StatusRoot(p) ==
  LET s == view[p].store
  IN  /\ pc[p] = "recorded"
      /\ Keep(p, [view[p] EXCEPT !.root = ChainSeal(s, events[s])])
      /\ Goto(p, "informed")
      /\ UNCHANGED <<files, envelopes, answer>>

\* A write that names the generation of the status its caller read.
GuardedWrite(p) ==
  LET s == view[p].store
  IN  /\ pc[p] = "informed"
      /\ Write(s, view[p].generation)
      /\ Return(p, [op |-> "write", store |-> s, seen |-> view[p],
                    seq |-> Len(events'[s])])

\* It is refused when the store is at another generation.
GenerationMismatch(p) ==
  /\ pc[p] = "informed"
  /\ Len(events[view[p].store]) # view[p].generation
  /\ Return(p, None)
  /\ UNCHANGED <<files, envelopes>>

\* _active_from_row: revocation and expiry exclude, redaction does not.
Active(row, as_of, revoked) ==
  /\ ~revoked
  /\ row.redacted \/ as_of <= row.payload.expires

Served(p, op, as_of, rows) ==
  [op |-> op, store |-> view[p].store, as_of |-> as_of, from |-> view[p].from,
   to |-> Len(events[view[p].store]),
   rows |-> {[decision |-> row.decision, revision |-> row.revision,
              content |-> row.content] : row \in rows}]

\* get_active reads the head of the decision, then its revocation.
GetHead(p, s, d, as_of) ==
  LET head == HeadRow(events[s], d)
  IN  /\ pc[p] = "idle"
      /\ head # 0
      /\ Keep(p, [store |-> s, from |-> Len(events[s]), as_of |-> as_of,
                  row |-> events[s][head]])
      /\ Goto(p, "headed")
      /\ UNCHANGED <<files, envelopes, answer>>

GetAnswer(p) ==
  LET row == view[p].row
      revoked == Revoked(events[view[p].store], row.decision)
      active == {r \in {row} : Active(r, view[p].as_of, revoked)}
  IN  /\ pc[p] = "headed"
      /\ Return(p, Served(p, "get", view[p].as_of, active))
      /\ UNCHANGED <<files, envelopes>>

\* list_active reads the revoked decisions, then the heads.
ListRevoked(p, s, as_of) ==
  /\ pc[p] = "idle"
  /\ Keep(p, [store |-> s, from |-> Len(events[s]), as_of |-> as_of,
              revoked |-> {d \in Decision : Revoked(events[s], d)}])
  /\ Goto(p, "listing")
  /\ UNCHANGED <<files, envelopes, answer>>

ListHeads(p, origin) ==
  LET rows == events[view[p].store]
      heads == {rows[HeadRow(rows, d)] : d \in {e \in Decision : HeadRow(rows, e) # 0}}
      active == {row \in heads :
                   /\ row.origin = origin
                   /\ Active(row, view[p].as_of, row.decision \in view[p].revoked)}
  IN  /\ pc[p] = "listing"
      /\ Return(p, Served(p, "list", view[p].as_of, active))
      /\ UNCHANGED <<files, envelopes>>

\* A process dies, or gives up before it writes.
Crash(p) ==
  /\ pc[p] # "idle"
  /\ Return(p, None)
  /\ UNCHANGED <<files, envelopes>>

Read(p) ==
  \/ \E s \in Store :
       \/ StatusGeneration(p, s)
       \/ \E as_of \in Instant :
            ListRevoked(p, s, as_of) \/ \E d \in Decision : GetHead(p, s, d, as_of)
  \/ StatusRecords(p) \/ StatusRoot(p) \/ GetAnswer(p)
  \/ \E origin \in {"NATIVE", "FOREIGN_READ_ONLY"} : ListHeads(p, origin)

Next ==
  \/ \E s \in Store :
       \/ Write(s, None) /\ UNCHANGED callers
       \/ AbandonEpoch(s)
       \/ \E d \in Decision, destination \in Store : ExportTransfer(s, d, destination)
  \/ \E p \in Process : Read(p) \/ GuardedWrite(p) \/ GenerationMismatch(p) \/ Crash(p)

Spec == Init /\ [][Next]_vars

-----------------------------------------------------------------------------
(* Properties.                                                             *)

\* Every variable holds a value of its kind.
TypeOK ==
  /\ \A s \in Store :
       /\ \A n \in DOMAIN events[s] :
            LET e == events[s][n]
            IN  /\ e.kind \in {"record", "revocation", "tombstone"}
                /\ e.decision \in Decision
                /\ e.revision \in 1..MaxRevision
                /\ e.origin \in {"NATIVE", "FOREIGN_READ_ONLY"}
                /\ e.redacted \in BOOLEAN
       /\ epoch_status[s] \in {"open", "abandoned"}
       /\ anchor[s].generation \in 0..MaxEvents
  /\ \A envelope \in envelopes :
       {envelope.source, envelope.destination, envelope.record.store} \subseteq Store
  /\ \A p \in Process :
       /\ pc[p] \in {"idle", "counted", "recorded", "informed", "headed", "listing"}
       /\ pc[p] = "idle" <=> view[p] = None

\* No sequence of accepted writes leaves a store that verify refuses: every
\* write and every export begins with verify, so such a store would be
\* closed for good by an operation that it accepted.
AcceptedWritesVerify == \A s \in Store : VerifyOk(s)

\* The first n events of a store: what it held after its n-th write.
Prefix(s, n) == SubSeq(events[s], 1, n)

ActiveRevision(rows, d, r) ==
  /\ ~Revoked(rows, d)
  /\ HeadRow(rows, d) # 0
  /\ rows[HeadRow(rows, d)].revision = r

\* A read that takes several statements serves no decision that was not the
\* unrevoked head at some moment of the call, whatever was written between
\* its statements.
ServedWasActive ==
  \A p \in Process :
    LET a == answer[p]
    IN  a # None /\ a.op \in {"get", "list"} =>
          \A row \in a.rows : \E n \in a.from..a.to :
            ActiveRevision(Prefix(a.store, n), row.decision, row.revision)

\* A write guarded by a generation lands on exactly the store that the whole
\* status described, although status reads its counters one by one.
GuardedWriteSawStore ==
  \A p \in Process :
    LET a == answer[p]
        before == Prefix(a.store, a.seq - 1)
    IN  a # None /\ a.op = "write" =>
          /\ a.seen.generation = Len(before)
          /\ a.seen.records = RecordCount(before)
          /\ a.seen.root = ChainSeal(a.store, before)

\* What several statements put together, besides being of its type, is about
\* one moment: of the call, for a read, and of the write, for a status that
\* guards it (get_active, list_active, status).
AnswersAreTimely == TypeOK /\ ServedWasActive /\ GuardedWriteSawStore

\* At the moment whose root seal the envelope commits to, its record was the
\* native, unrevoked, unredacted head of the store that it names.
FirstHand(envelope) ==
  \E m \in 0..Len(events[envelope.source]) :
    LET rows == Prefix(envelope.source, m)
        head == HeadRow(rows, envelope.record.decision)
    IN  /\ envelope.root = ChainSeal(envelope.source, rows)
        /\ ActiveRevision(rows, envelope.record.decision, envelope.record.revision)
        /\ rows[head].origin = "NATIVE"
        /\ rows[head].content = envelope.content
        /\ ~Tombstoned(rows, head)

\* Content crosses once and is never handed on: whatever is on its way, late
\* or repeated, is first-hand, and every import is from another store and of
\* an envelope that was addressed to the importer.
ImportsAreFirstHand ==
  /\ \A envelope \in envelopes : FirstHand(envelope)
  /\ \A s \in Store : \A n \in DOMAIN events[s] :
       events[s][n].origin = "FOREIGN_READ_ONLY" /\ events[s][n].kind = "record" =>
       LET envelope == SealedEnvelope(events[s][n].transfer)
       IN  /\ envelope \in envelopes
           /\ envelope.content = events[s][n].content
           /\ envelope.destination = s
           /\ envelope.source # s

\* get_active refuses a decision that is "unknown, revoked, or expired at
\* as_of": the record it serves has not expired at the instant asked for.
ExpiredIsNotServed ==
  \A p \in Process :
    LET a == answer[p]
    IN  a # None /\ a.op = "get" =>
          \A row \in a.rows : a.as_of <= SealedRecord(row.content).expires

RevisionsOf(rows, d) == {rows[n].revision : n \in RowsOf(rows, "record", d)}

RevisionOf(rows, d, r) ==
  SealedRecord(rows[CHOOSE n \in RecordRow(rows, d, r) : TRUE].content)

\* The revisions of a decision by number, counted from the first that the
\* store has: an import starts anywhere.
History(rows, d) ==
  LET revisions == RevisionsOf(rows, d)
      first == CHOOSE r \in revisions : \A q \in revisions : r <= q
  IN  [k \in {r - first + 1 : r \in revisions} |-> RevisionOf(rows, d, first + k - 1)]

Foreign(rows, d) ==
  \E n \in RowsOf(rows, "record", d) : rows[n].origin = "FOREIGN_READ_ONLY"

\* Each store keeps linear histories that only grow by linked revisions, end
\* with a revocation and stop with their epoch; imports never grow.
Histories == INSTANCE RevisionHistory WITH
  Place <- Store, Item <- Decision,
  history <- [s \in Store |-> [d \in Decision |-> History(events[s], d)]],
  borrowed <- [s \in Store |-> {d \in Decision : Foreign(events[s], d)}],
  closed <- [s \in Store |-> {d \in Decision : Revoked(events[s], d)}],
  frozen <- {s \in Store : epoch_status[s] = "abandoned"}

ImplementsHistories == Histories!Spec
=============================================================================
