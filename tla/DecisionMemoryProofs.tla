------------------------ MODULE DecisionMemoryProofs ------------------------
(***************************************************************************)
(* The decision memories, for any number of stores, decisions, revisions,  *)
(* envelopes and readers: no accepted write closes a store, what a store   *)
(* imports is first-hand, what a caller of several statements is told is   *)
(* about one moment, and the stores keep linear histories.                 *)
(*                                                                         *)
(* verify accepting a store is not inductive by itself.  What it rests on: *)
(* an event id occurs once (the schema), a decision that has records has a *)
(* head, a status that a guarded write names is about a store, and what an *)
(* envelope carries fits its seal, wherever and whenever it is imported.   *)
(*                                                                         *)
(* The two others look back, at what a store held when an envelope or an   *)
(* answer was made.  They rest on what writes do to the past: every prefix *)
(* of a store keeps all its columns but payload and redacted, so that what *)
(* was true of it stays true, and a revoked decision gets no more records. *)
(***************************************************************************)
EXTENDS DecisionMemory, SequenceTheorems, TLAPS

\* The absent payload is no payload.
NoneIsNoPayload ==
  /\ \A rec : rec = [decision |-> rec.decision, store |-> rec.store, revision |-> rec.revision,
                     supersedes |-> rec.supersedes, expires |-> rec.expires] => rec # None
  /\ \A d, r, x : [decision |-> d, revision |-> r, seal |-> x] # None

Row(e) ==
  /\ e = [kind |-> e.kind, decision |-> e.decision, revision |-> e.revision,
          origin |-> e.origin, transfer |-> e.transfer, content |-> e.content,
          payload |-> e.payload, redacted |-> e.redacted]
  /\ e.kind \in {"record", "revocation", "tombstone"}
  /\ e.revision \in Nat /\ e.redacted \in BOOLEAN
  /\ e.kind = "record" => e.origin \in {"NATIVE", "FOREIGN_READ_ONLY"}

IsHead(rows, d, n) ==
  /\ n \in RowsOf(rows, "record", d)
  /\ \A m \in RowsOf(rows, "record", d) : rows[m].revision <= rows[n].revision

\* What the rows of a store are, whatever verify says.
Rows(rows) ==
  /\ \E S : rows \in Seq(S)
  /\ \A n \in DOMAIN rows : Row(rows[n])
  /\ \A n, m \in DOMAIN rows : EventId(rows[n]) = EventId(rows[m]) => n = m
  /\ \A d : RowsOf(rows, "record", d) = {} \/ \E n : IsHead(rows, d, n)

Kept(s) == Rows(events[s]) /\ VerifyOk(s)

Carried(envelope) ==
  /\ envelope.record # None /\ envelope.record.revision \in Nat
  /\ envelope.content = RecordSeal(envelope.record)

\* A process that reads a status reads that of a store.
Seen(p) ==
  pc[p] \in {"counted", "recorded", "informed"} =>
    "store" \in DOMAIN view[p] /\ view[p].store \in Store

Tables ==
  /\ DOMAIN events = Store /\ DOMAIN imports = Store
  /\ DOMAIN epoch_status = Store /\ DOMAIN anchor = Store

IInv ==
  /\ Tables
  /\ DOMAIN pc = Process /\ DOMAIN view = Process
  /\ \A s \in Store : Kept(s)
  /\ \A envelope \in envelopes : Carried(envelope)
  /\ \A p \in Process : Seen(p)

-----------------------------------------------------------------------------
\* A sequence is a function on 1..Len.
LEMMA SeqShape ==
  ASSUME NEW S, NEW s \in Seq(S)
  PROVE  Len(s) \in Nat /\ DOMAIN s = 1..Len(s)
  OBVIOUS

\* Appending keeps what is there and puts one element behind it.
LEMMA AppendShape ==
  ASSUME NEW S, NEW s \in Seq(S), NEW x
  PROVE  /\ Append(s, x) \in Seq(S \cup {x})
         /\ DOMAIN Append(s, x) = DOMAIN s \cup {Len(s) + 1} /\ Len(s) + 1 \notin DOMAIN s
         /\ \A n \in DOMAIN s : Append(s, x)[n] = s[n]
         /\ Append(s, x)[Len(s) + 1] = x
<1>1. s \in Seq(S \cup {x})
  OBVIOUS
<1> QED
  BY <1>1

\* Ids tell records and tombstones of a revision apart, and nothing else.
LEMMA SameId ==
  ASSUME NEW e, NEW f, EventId(e) = EventId(f)
  PROVE  e.kind = f.kind /\ e.decision = f.decision
         /\ (e.kind # "revocation" => e.revision = f.revision)
<1>1. CASE e.kind = "revocation" /\ f.kind = "revocation"
  BY <1>1 DEF EventId
<1>2. CASE e.kind # "revocation" /\ f.kind # "revocation"
  BY <1>2 DEF EventId
<1>3. CASE e.kind = "revocation" /\ f.kind # "revocation"
  BY <1>3 DEF EventId
<1>4. CASE e.kind # "revocation" /\ f.kind = "revocation"
  BY <1>4 DEF EventId
<1> QED
  BY <1>1, <1>2, <1>3, <1>4

LEMMA IdOfRecord ==
  ASSUME NEW e, NEW f, e.kind = "record", f.kind = "record", e.decision = f.decision,
         e.revision = f.revision
  PROVE  EventId(e) = EventId(f)
  BY DEF EventId

\* The head of a decision is one of its records, the highest; without
\* records there is none.
LEMMA HeadIsHighest ==
  ASSUME NEW rows, NEW d, Rows(rows)
  PROVE  \/ HeadRow(rows, d) = 0 /\ RowsOf(rows, "record", d) = {}
         \/ HeadRow(rows, d) # 0 /\ IsHead(rows, d, HeadRow(rows, d))
<1>1. CASE RowsOf(rows, "record", d) = {}
  BY <1>1 DEF HeadRow
<1>2. CASE RowsOf(rows, "record", d) # {}
  <2>1. IsHead(rows, d, HeadRow(rows, d))
    BY <1>2 DEF HeadRow, IsHead, Rows
  <2>2. HeadRow(rows, d) \in DOMAIN rows
    BY <2>1 DEF IsHead, RowsOf
  <2> QED
    BY <2>1, <2>2, SeqShape DEF Rows
<1> QED
  BY <1>1, <1>2

-----------------------------------------------------------------------------
(* What an event leaves behind, whichever write inserts it.                *)

\* The store keeps its shape when an event with a new id comes, if a record
\* is the first of its decision or follows its head.
LEMMA RowsAfter ==
  ASSUME NEW rows, NEW e, Rows(rows), Row(e), EventId(e) \notin EventIds(rows),
         e.kind = "record" =>
           \/ RowsOf(rows, "record", e.decision) = {}
           \/ \E h : IsHead(rows, e.decision, h) /\ rows[h].revision <= e.revision
  PROVE  Rows(Append(rows, e))
<1> DEFINE next == Append(rows, e)
           new == Len(rows) + 1
<1>1. PICK S : rows \in Seq(S)
  BY DEF Rows
<1>2. /\ next \in Seq(S \cup {e})
      /\ DOMAIN next = DOMAIN rows \cup {new} /\ new \notin DOMAIN rows
      /\ \A n \in DOMAIN rows : next[n] = rows[n]
      /\ next[new] = e
  BY <1>1, AppendShape
<1> HIDE DEF next, new
<1>3. \A n \in DOMAIN next : Row(next[n])
  BY <1>2 DEF Rows
<1>4. \A n, m \in DOMAIN next : EventId(next[n]) = EventId(next[m]) => n = m
  BY <1>2 DEF Rows, EventIds
<1>5. ASSUME NEW d
      PROVE  RowsOf(next, "record", d) = {} \/ \E n : IsHead(next, d, n)
  <2>1. CASE e.kind = "record" /\ e.decision = d
    <3>1. RowsOf(next, "record", d) = RowsOf(rows, "record", d) \cup {new}
      BY <1>2, <2>1 DEF RowsOf
    <3>2. ASSUME NEW m \in RowsOf(next, "record", d) PROVE next[m].revision <= e.revision
      <4>1. CASE m = new
        BY <4>1, <1>2 DEF Row
      <4>2. CASE m # new
        <5>1. m \in RowsOf(rows, "record", d) /\ m \in DOMAIN rows
          BY <4>2, <3>1 DEF RowsOf
        <5>2. PICK h : IsHead(rows, d, h) /\ rows[h].revision <= e.revision
          BY <5>1, <2>1
        <5>3. rows[m].revision <= rows[h].revision /\ h \in DOMAIN rows
          BY <5>1, <5>2 DEF IsHead, RowsOf
        <5>4. rows[m].revision \in Nat /\ rows[h].revision \in Nat /\ e.revision \in Nat
          BY <5>1, <5>3 DEF Rows, Row
        <5> QED
          BY <5>1, <5>2, <5>3, <5>4, <1>2
      <4> QED
        BY <4>1, <4>2
    <3>3. IsHead(next, d, new)
      BY <3>1, <3>2, <1>2 DEF IsHead
    <3> QED
      BY <3>3
  <2>2. CASE ~(e.kind = "record" /\ e.decision = d)
    <3>1. RowsOf(next, "record", d) = RowsOf(rows, "record", d)
      BY <1>2, <2>2 DEF RowsOf
    <3>2. \A m \in RowsOf(rows, "record", d) : next[m] = rows[m]
      BY <1>2 DEF RowsOf
    <3>3. RowsOf(rows, "record", d) = {} \/ \E n : IsHead(rows, d, n)
      BY DEF Rows
    <3> QED
      BY <3>1, <3>2, <3>3 DEF IsHead
  <2> QED
    BY <2>1, <2>2
<1> QED
  BY <1>2, <1>3, <1>4, <1>5 DEF Rows, next

\* A store that nobody touched is kept.
LEMMA Untouched ==
  ASSUME NEW s, Kept(s), events'[s] = events[s], imports'[s] = imports[s],
         epoch_status'[s] = epoch_status[s], anchor'[s] = anchor[s]
  PROVE  Kept(s)'
<1>1. ImportMismatch(s)' = ImportMismatch(s)
  BY DEF ImportMismatch
<1>2. \A n : RecordFinding(s, n)' = RecordFinding(s, n)
  BY DEF RecordFinding
<1>3. \A n : ReferringFinding(s, n)' = ReferringFinding(s, n)
  BY DEF ReferringFinding
<1> QED
  BY <1>1, <1>2, <1>3 DEF Kept, VerifyOk

\* No tombstone is about a revision that the store does not have yet.
LEMMA NotTombstonedYet ==
  ASSUME NEW s, Kept(s), NEW e, e.kind = "record", EventId(e) \notin EventIds(events[s]),
         NEW n \in DOMAIN events[s], events[s][n].kind # "record"
  PROVE  ~(events[s][n].kind = "tombstone" /\ events[s][n].decision = e.decision
           /\ events[s][n].revision = e.revision)
<1> SUFFICES ASSUME events[s][n].decision = e.decision, events[s][n].revision = e.revision
             PROVE  FALSE
  OBVIOUS
<1>1. ~ReferringFinding(s, n)
  BY DEF Kept, VerifyOk
<1>2. PICK m \in RecordRow(events[s], e.decision, e.revision) : TRUE
  BY <1>1 DEF ReferringFinding
<1>3. /\ m \in DOMAIN events[s] /\ events[s][m].kind = "record"
      /\ events[s][m].decision = e.decision /\ events[s][m].revision = e.revision
  BY <1>2 DEF RecordRow, RowsOf
<1>4. EventId(events[s][m]) = EventId(e)
  BY <1>3, IdOfRecord
<1> QED
  BY <1>3, <1>4 DEF EventIds

\* verify accepts a record that comes with all that its origin asks for.
LEMMA RecordVerifies ==
  ASSUME NEW s, NEW e, Kept(s), Row(e), e.kind = "record",
         EventId(e) \notin EventIds(events[s]),
         events'[s] = Append(events[s], e),
         anchor'[s] = Anchor(s, events'[s], epoch_status'[s]),
         imports[s] \subseteq imports'[s],
         \A i \in imports'[s] \ imports[s] : i.event = EventId(e),
         e.payload # None, ~e.redacted, RecordSeal(e.payload) = e.content,
         e.payload.decision = e.decision, e.payload.revision = e.revision,
         e.origin = "NATIVE" =>
           /\ e.transfer = None /\ e.payload.store = s /\ imports'[s] = imports[s]
           /\ e.revision > 1 => RevisionLinked(events[s], e.payload),
         e.origin = "FOREIGN_READ_ONLY" =>
           [event |-> EventId(e), transfer |-> e.transfer, source |-> e.content] \in imports'[s]
  PROVE  VerifyOk(s)'
<1> DEFINE rows == events[s]
           next == events'[s]
           new == Len(rows) + 1
<1>1. PICK S : rows \in Seq(S)
  BY DEF Kept, Rows
<1>2. /\ DOMAIN next = DOMAIN rows \cup {new} /\ new \notin DOMAIN rows
      /\ \A n \in DOMAIN rows : next[n] = rows[n]
      /\ next[new] = e
  BY <1>1, AppendShape
<1>3. VerifyOk(s)
  BY DEF Kept
<1>4. EventIds(next) = EventIds(rows) \cup {EventId(e)}
  BY <1>2 DEF EventIds
<1> HIDE DEF next, new, rows
<1>5. \A d : /\ RowsOf(next, "record", d) = RowsOf(rows, "record", d)
                                            \cup (IF e.decision = d THEN {new} ELSE {})
             /\ RowsOf(next, "tombstone", d) = RowsOf(rows, "tombstone", d)
  BY <1>2 DEF RowsOf
<1>6. \A n \in DOMAIN rows : Tombstoned(next, n) <=> Tombstoned(rows, n)
  BY <1>2, <1>5 DEF Tombstoned, RowsOf
<1>7. ~Tombstoned(next, new)
  <2> SUFFICES ASSUME NEW m \in RowsOf(rows, "tombstone", e.decision), rows[m].revision = e.revision
               PROVE  FALSE
    BY <1>2, <1>5 DEF Tombstoned, RowsOf
  <2> QED
    BY NotTombstonedYet DEF RowsOf, rows
<1>8. \A d, r : RecordRow(next, d, r) = RecordRow(rows, d, r)
                   \cup (IF e.decision = d /\ e.revision = r THEN {new} ELSE {})
  BY <1>2, <1>5 DEF RecordRow, RowsOf
<1>9. \A rec : RevisionLinked(rows, rec) => RevisionLinked(next, rec)
  BY <1>2, <1>8 DEF RevisionLinked, RecordRow, RowsOf
<1>10. ~ImportMismatch(s)'
  <2>1. ~ImportMismatch(s)
    BY <1>3 DEF VerifyOk
  <2>2. \A i \in imports'[s] : i.event \in EventIds(next)
    BY <2>1, <1>4 DEF ImportMismatch, rows
  <2>3. ASSUME NEW n \in DOMAIN next, next[n].kind = "record", next[n].origin = "FOREIGN_READ_ONLY"
        PROVE  [event |-> EventId(next[n]), transfer |-> next[n].transfer,
                source |-> next[n].content] \in imports'[s]
    <3>1. CASE n \in DOMAIN rows
      BY <3>1, <2>1, <2>3, <1>2 DEF ImportMismatch, rows
    <3>2. CASE n = new
      BY <3>2, <2>3, <1>2
    <3> QED
      BY <3>1, <3>2, <1>2
  <2>4. ASSUME NEW n \in DOMAIN next, next[n].kind = "record", next[n].origin # "FOREIGN_READ_ONLY"
        PROVE  next[n].transfer = None /\ \A i \in imports'[s] : i.event # EventId(next[n])
    <3>1. CASE n \in DOMAIN rows
      <4>1. rows[n].transfer = None /\ \A i \in imports[s] : i.event # EventId(rows[n])
        BY <3>1, <2>1, <2>4, <1>2 DEF ImportMismatch, rows
      <4>2. EventId(rows[n]) # EventId(e)
        BY <3>1 DEF EventIds, rows
      <4> QED
        BY <3>1, <4>1, <4>2, <1>2
    <3>2. CASE n = new
      <4>1. e.origin = "NATIVE"
        BY <3>2, <2>4, <1>2 DEF Row
      <4>2. \A i \in imports[s] : i.event # EventId(e)
        BY <2>1 DEF ImportMismatch
      <4> QED
        BY <3>2, <4>1, <4>2, <1>2
    <3> QED
      BY <3>1, <3>2, <1>2
  <2> QED
    BY <2>2, <2>3, <2>4 DEF ImportMismatch, next
<1>11. ASSUME NEW n \in DOMAIN next, next[n].kind = "record" PROVE ~RecordFinding(s, n)'
  <2>1. CASE n \in DOMAIN rows
    <3>1. ~RecordFinding(s, n)
      BY <2>1, <1>2, <1>3, <1>11 DEF VerifyOk, rows
    <3>2. next[n] = rows[n] /\ (Tombstoned(next, n) <=> Tombstoned(rows, n))
      BY <2>1, <1>2, <1>6
    <3>3. RevisionLinked(rows, rows[n].payload) => RevisionLinked(next, rows[n].payload)
      BY <1>9
    <3>4. events[s] = rows /\ events'[s] = next
      BY DEF rows, next
    <3>5. rows[n].redacted \in BOOLEAN
      BY <2>1 DEF Kept, Rows, Row, rows
    <3>6. Tombstoned(next, n) \in BOOLEAN /\ Tombstoned(rows, n) \in BOOLEAN
      BY DEF Tombstoned
    <3>7. next[n].redacted # Tombstoned(next, n) <=> rows[n].redacted # Tombstoned(rows, n)
      BY <3>2, <3>5, <3>6
    <3> HIDE DEF rows, next
    <3> QED
      BY <3>1, <3>2, <3>3, <3>4, <3>7 DEF RecordFinding
  <2>2. CASE n = new
    <3>1. next[n] = e /\ ~Tombstoned(next, n)
      BY <2>2, <1>2, <1>7
    <3>2. ASSUME e.origin = "NATIVE", e.revision > 1 PROVE RevisionLinked(next, e.payload)
      BY <3>2, <1>9 DEF rows
    <3>3. e.redacted = FALSE /\ Tombstoned(next, n) = FALSE
      BY <3>1 DEF Row, Tombstoned
    <3>4. events'[s] = next
      BY DEF next
    <3> HIDE DEF next
    <3>5. ~(next[n].redacted # Tombstoned(next, n)) /\ ~(next[n].redacted # (next[n].payload = None))
      BY <3>1, <3>3
    <3> QED
      BY <3>1, <3>2, <3>3, <3>4, <3>5 DEF RecordFinding
  <2> QED
    BY <2>1, <2>2, <1>2
<1>12. ASSUME NEW n \in DOMAIN next, next[n].kind # "record" PROVE ~ReferringFinding(s, n)'
  <2>1. n \in DOMAIN rows /\ next[n] = rows[n]
    BY <1>2, <1>12
  <2>2. ~ReferringFinding(s, n)
    BY <2>1, <1>3, <1>12 DEF VerifyOk, rows
  <2> DEFINE row == rows[n]
  <2>3. \E m \in RecordRow(rows, row.decision, row.revision) : rows[m].origin = row.origin
    BY <2>2 DEF ReferringFinding, rows
  <2>4. \E m \in RecordRow(next, row.decision, row.revision) : next[m].origin = row.origin
    BY <2>3, <1>2, <1>8 DEF RecordRow, RowsOf
  <2>5. ASSUME row.kind = "tombstone", NEW m \in RecordRow(next, row.decision, row.revision)
        PROVE  next[m].redacted
    <3>1. ~(row.decision = e.decision /\ row.revision = e.revision)
      BY <2>1, <2>5, <1>12, NotTombstonedYet DEF rows
    <3>2. m \in RecordRow(rows, row.decision, row.revision) /\ next[m] = rows[m]
      BY <3>1, <2>5, <1>2, <1>8 DEF RecordRow, RowsOf
    <3> QED
      BY <3>2, <2>2, <2>5 DEF ReferringFinding, rows
  <2> QED
    BY <2>1, <2>2, <2>4, <2>5 DEF ReferringFinding, rows, next
<1> QED
  BY <1>10, <1>11, <1>12 DEF VerifyOk, next

\* The columns of a row that no write changes.
SameColumns(row, was) ==
  /\ row.kind = was.kind /\ row.decision = was.decision /\ row.revision = was.revision
  /\ row.origin = was.origin /\ row.transfer = was.transfer /\ row.content = was.content

Redacted(row) == [row EXCEPT !.payload = None, !.redacted = TRUE]

\* What a redaction leaves of the rows of a store.
LEMMA RowsRedacted ==
  ASSUME NEW rows, NEW red, Rows(rows), NEW T, red \in Seq(T), DOMAIN red = DOMAIN rows,
         \A n \in DOMAIN rows : red[n] = rows[n] \/ red[n] = Redacted(rows[n])
  PROVE  /\ Rows(red) /\ EventIds(red) = EventIds(rows)
         /\ \A n \in DOMAIN rows : SameColumns(red[n], rows[n])
         /\ \A k, d : RowsOf(red, k, d) = RowsOf(rows, k, d)
<1>1. ASSUME NEW n \in DOMAIN rows
      PROVE  SameColumns(red[n], rows[n]) /\ Row(red[n])
  <2>1. Row(rows[n])
    BY DEF Rows
  <2>2. CASE red[n] = rows[n]
    BY <2>1, <2>2 DEF SameColumns
  <2>3. CASE red[n] = Redacted(rows[n])
    <3>1. SameColumns(red[n], rows[n])
      BY <2>1, <2>3 DEF SameColumns, Redacted, Row
    <3>2. red[n] = [kind |-> rows[n].kind, decision |-> rows[n].decision,
                    revision |-> rows[n].revision, origin |-> rows[n].origin,
                    transfer |-> rows[n].transfer, content |-> rows[n].content,
                    payload |-> None, redacted |-> TRUE]
      BY <2>1, <2>3 DEF Redacted, Row
    <3> QED
      BY <2>1, <3>1, <3>2 DEF Row
  <2> QED
    BY <2>2, <2>3
<1>2. \A n \in DOMAIN rows : EventId(red[n]) = EventId(rows[n])
  BY <1>1 DEF SameColumns, EventId
<1>3. \A k, d : RowsOf(red, k, d) = RowsOf(rows, k, d)
  BY <1>1 DEF SameColumns, RowsOf
<1>4. ASSUME NEW d, NEW n, IsHead(rows, d, n) PROVE IsHead(red, d, n)
  <2>1. \A m \in RowsOf(rows, "record", d) : red[m].revision = rows[m].revision
    BY <1>1 DEF SameColumns, RowsOf
  <2> QED
    BY <1>3, <1>4, <2>1 DEF IsHead
<1>5. \A d : RowsOf(red, "record", d) = {} \/ \E n : IsHead(red, d, n)
  BY <1>3, <1>4 DEF Rows
<1>6. EventIds(red) = EventIds(rows)
  BY <1>2 DEF EventIds
<1>7. \A n, m \in DOMAIN red : EventId(red[n]) = EventId(red[m]) => n = m
  BY <1>2 DEF Rows
<1> QED
  BY <1>1, <1>3, <1>5, <1>6, <1>7 DEF Rows

\* verify accepts a revocation, and a tombstone whose revision was redacted.
LEMMA ReferringVerifies ==
  ASSUME NEW s, Kept(s), NEW n \in DOMAIN events[s], events[s][n].kind = "record",
         NEW kind \in {"revocation", "tombstone"}, NEW e,
         e = ReferringEvent(kind, events[s][n]), e.payload # None,
         NEW T, NEW red \in Seq(T), DOMAIN red = DOMAIN events[s],
         \A m \in DOMAIN events[s] :
           red[m] = IF kind = "tombstone" /\ m = n THEN Redacted(events[s][m]) ELSE events[s][m],
         EventId(e) \notin EventIds(red),
         events'[s] = Append(red, e), imports'[s] = imports[s],
         anchor'[s] = Anchor(s, events'[s], epoch_status'[s])
  PROVE  Kept(s)'
<1> DEFINE rows == events[s]
           next == events'[s]
           new == Len(red) + 1
<1>1. VerifyOk(s) /\ Rows(rows)
  BY DEF Kept
<1>2. /\ Rows(red) /\ EventIds(red) = EventIds(rows)
      /\ \A m \in DOMAIN rows : SameColumns(red[m], rows[m])
      /\ \A k, d : RowsOf(red, k, d) = RowsOf(rows, k, d)
  BY <1>1, RowsRedacted
<1>3. /\ DOMAIN next = DOMAIN rows \cup {new} /\ new \notin DOMAIN rows
      /\ \A m \in DOMAIN rows : next[m] = red[m]
      /\ next[new] = e
  BY AppendShape
<1>4. /\ e.kind = kind /\ e.decision = rows[n].decision /\ e.revision = rows[n].revision
      /\ e.origin = rows[n].origin /\ ~e.redacted /\ e.transfer = None
      /\ Seal(kind, e.payload) = e.content
      /\ e.payload.decision = e.decision /\ e.payload.revision = e.revision
  BY DEF ReferringEvent
<1>5. Row(rows[n])
  BY <1>1 DEF Rows
<1>6. Row(e)
  BY <1>5 DEF ReferringEvent, Row
<1>7. Rows(next)
  BY <1>2, <1>4, <1>6, RowsAfter
<1> HIDE DEF next, new, rows
<1>8. EventIds(next) = EventIds(rows) \cup {EventId(e)}
  <2>1. EventIds(next) = EventIds(red) \cup {EventId(e)}
    BY <1>3 DEF EventIds, rows
  <2> QED
    BY <2>1, <1>2
<1>9. \A m \in DOMAIN rows : SameColumns(next[m], rows[m])
  BY <1>2, <1>3
<1>10. \A d : RowsOf(next, "record", d) = RowsOf(rows, "record", d)
  BY <1>3, <1>4, <1>9 DEF RowsOf, SameColumns
<1>11. \A d, r : RecordRow(next, d, r) = RecordRow(rows, d, r)
  <2>1. \A d : \A m \in RowsOf(rows, "record", d) : next[m].revision = rows[m].revision
    BY <1>9 DEF RowsOf, SameColumns
  <2> QED
    BY <1>10, <2>1 DEF RecordRow
<1>12. ASSUME NEW rec, RevisionLinked(rows, rec) PROVE RevisionLinked(next, rec)
  <2>1. PICK m \in RecordRow(rows, rec.decision, rec.revision - 1) : rows[m].content = rec.supersedes
    BY <1>12 DEF RevisionLinked
  <2>2. m \in DOMAIN rows
    BY DEF RecordRow, RowsOf
  <2>3. next[m].content = rows[m].content
    BY <2>2, <1>9 DEF SameColumns
  <2> QED
    BY <2>1, <2>3, <1>11 DEF RevisionLinked
<1>13. ASSUME NEW m \in RecordRow(rows, rows[n].decision, rows[n].revision) PROVE m = n
  <2>1. EventId(rows[m]) = EventId(rows[n])
    BY IdOfRecord DEF RecordRow, RowsOf, rows
  <2> QED
    BY <2>1, <1>1 DEF Rows, RecordRow, RowsOf, rows
<1>14. n \in RecordRow(rows, rows[n].decision, rows[n].revision)
  BY DEF RecordRow, RowsOf, rows
<1>15. \A d : RowsOf(next, "tombstone", d) = RowsOf(rows, "tombstone", d)
                \cup (IF kind = "tombstone" /\ e.decision = d THEN {new} ELSE {})
  BY <1>3, <1>4, <1>9 DEF RowsOf, SameColumns
<1>16. ASSUME NEW m \in DOMAIN rows, rows[m].kind = "record"
       PROVE  Tombstoned(next, m) = (Tombstoned(rows, m) \/ (kind = "tombstone" /\ m = n))
  <2>1. Tombstoned(next, m) <=>
          Tombstoned(rows, m) \/ (/\ kind = "tombstone" /\ e.decision = rows[m].decision
                                  /\ e.revision = rows[m].revision)
    <3>1. next[m].decision = rows[m].decision /\ next[m].revision = rows[m].revision
      BY <1>9 DEF SameColumns
    <3>2. \A k \in RowsOf(rows, "tombstone", rows[m].decision) : next[k].revision = rows[k].revision
      BY <1>9 DEF RowsOf, SameColumns
    <3>3. next[new].revision = e.revision
      BY <1>3
    <3> QED
      BY <3>1, <3>2, <3>3, <1>15 DEF Tombstoned
  <2>2. e.decision = rows[m].decision /\ e.revision = rows[m].revision <=> m = n
    BY <1>4, <1>13, <1>16 DEF RecordRow, RowsOf, rows
  <2>3. Tombstoned(next, m) \in BOOLEAN
    BY DEF Tombstoned
  <2> QED
    BY <2>1, <2>2, <2>3
<1>17. ~ImportMismatch(s)'
  <2>1. ~ImportMismatch(s)
    BY <1>1 DEF VerifyOk
  <2>2. \A i \in imports[s] : i.event \in EventIds(next)
    BY <2>1, <1>8 DEF ImportMismatch, rows
  <2>3. ASSUME NEW m \in DOMAIN next, next[m].kind = "record"
        PROVE  m \in DOMAIN rows /\ rows[m].kind = "record" /\ EventId(next[m]) = EventId(rows[m])
    BY <2>3, <1>3, <1>4, <1>9 DEF SameColumns, EventId
  <2>4. ASSUME NEW m \in DOMAIN next, next[m].kind = "record", next[m].origin = "FOREIGN_READ_ONLY"
        PROVE  [event |-> EventId(next[m]), transfer |-> next[m].transfer,
                source |-> next[m].content] \in imports[s]
    <3>1. m \in DOMAIN rows /\ rows[m].kind = "record" /\ EventId(next[m]) = EventId(rows[m])
      BY <2>3, <2>4
    <3>2. next[m].transfer = rows[m].transfer /\ next[m].content = rows[m].content
          /\ rows[m].origin = "FOREIGN_READ_ONLY"
      BY <2>4, <3>1, <1>9 DEF SameColumns
    <3>3. [event |-> EventId(rows[m]), transfer |-> rows[m].transfer,
           source |-> rows[m].content] \in imports[s]
      BY <2>1, <3>1, <3>2 DEF ImportMismatch, rows
    <3> QED
      BY <3>1, <3>2, <3>3
  <2>5. ASSUME NEW m \in DOMAIN next, next[m].kind = "record", next[m].origin # "FOREIGN_READ_ONLY"
        PROVE  next[m].transfer = None /\ \A i \in imports[s] : i.event # EventId(next[m])
    BY <2>1, <2>3, <2>5, <1>9 DEF ImportMismatch, SameColumns, rows
  <2> QED
    BY <2>2, <2>4, <2>5 DEF ImportMismatch, next
<1>18. ASSUME NEW m \in DOMAIN next, next[m].kind = "record" PROVE ~RecordFinding(s, m)'
  <2>1. m \in DOMAIN rows /\ rows[m].kind = "record"
    BY <1>3, <1>4, <1>9, <1>18 DEF SameColumns
  <2>2. next[m] = IF kind = "tombstone" /\ m = n THEN Redacted(rows[m]) ELSE rows[m]
    BY <2>1, <1>3 DEF rows
  <2>3. Tombstoned(next, m) \in BOOLEAN /\ Tombstoned(rows, m) \in BOOLEAN
    BY DEF Tombstoned
  <2>4. events[s] = rows /\ events'[s] = next
    BY DEF rows, next
  <2>5. CASE kind = "tombstone" /\ m = n
    <3>1. Row(rows[m])
      BY <2>1, <1>1 DEF Rows
    <3>2. next[m].redacted = TRUE /\ next[m].payload = None
      BY <2>2, <2>5, <3>1 DEF Redacted, Row
    <3>3. Tombstoned(next, m) = TRUE
      BY <2>1, <2>5, <1>16
    <3> QED
      BY <2>4, <3>2, <3>3 DEF RecordFinding
  <2>6. CASE ~(kind = "tombstone" /\ m = n)
    <3>1. next[m] = rows[m]
      BY <2>2, <2>6
    <3>2. Tombstoned(next, m) = Tombstoned(rows, m)
      BY <2>1, <2>3, <2>6, <1>16
    <3>3. ~RecordFinding(s, m)
      BY <2>1, <1>1 DEF VerifyOk, rows
    <3>4. RevisionLinked(rows, rows[m].payload) => RevisionLinked(next, rows[m].payload)
      BY <1>12
    <3> QED
      BY <2>4, <3>1, <3>2, <3>3, <3>4 DEF RecordFinding
  <2> QED
    BY <2>5, <2>6
<1>19. ASSUME NEW m \in DOMAIN next, next[m].kind # "record" PROVE ~ReferringFinding(s, m)'
  <2>1. \A k \in RecordRow(rows, rows[n].decision, rows[n].revision) :
          kind = "tombstone" => next[k].redacted
    <3>1. ASSUME kind = "tombstone" PROVE next[n].redacted
      <4>1. next[n] = Redacted(rows[n])
        BY <1>1, <1>3, <3>1 DEF rows
      <4> QED
        BY <1>5, <4>1 DEF Redacted, Row
    <3> QED
      BY <1>13, <3>1
  <2>2. events[s] = rows /\ events'[s] = next
    BY DEF rows, next
  <2>3. CASE m = new
    <3>1. next[m] = e
      BY <2>3, <1>3
    <3>2. next[n].origin = e.origin
      BY <1>4, <1>9 DEF SameColumns, rows
    <3>3. RecordRow(next, e.decision, e.revision) = RecordRow(rows, rows[n].decision, rows[n].revision)
      BY <1>4, <1>11
    <3>4. \E k \in RecordRow(next, e.decision, e.revision) : next[k].origin = e.origin
      BY <3>2, <3>3, <1>14
    <3>5. \A k \in RecordRow(next, e.decision, e.revision) : e.kind = "tombstone" => next[k].redacted
      BY <2>1, <3>3, <1>4
    <3>6. events'[s][m] = e
      BY <3>1, <2>2
    <3> HIDE DEF next, rows
    <3> QED
      BY <2>2, <3>4, <3>5, <3>6, <1>4 DEF ReferringFinding
  <2>4. CASE m # new
    <3>1. m \in DOMAIN rows /\ next[m] = rows[m]
      BY <2>4, <1>3, <1>9, <1>19 DEF SameColumns, rows
    <3>2. ~ReferringFinding(s, m)
      BY <3>1, <1>1, <1>19 DEF VerifyOk, rows
    <3>3. \A k \in RecordRow(next, rows[m].decision, rows[m].revision) :
            /\ next[k].origin = rows[k].origin
            /\ rows[k].redacted => next[k].redacted
      <4>1. ASSUME NEW k \in DOMAIN rows, rows[k].redacted PROVE next[k].redacted
        <5>1. Row(rows[k])
          BY <1>1 DEF Rows
        <5>2. Redacted(rows[k]).redacted
          BY <5>1 DEF Redacted, Row
        <5>3. next[k] = rows[k] \/ next[k] = Redacted(rows[k])
          BY <1>3 DEF rows
        <5>4. CASE next[k] = rows[k]
          BY <4>1, <5>4
        <5>5. CASE next[k] = Redacted(rows[k])
          BY <5>2, <5>5
        <5> QED
          BY <5>3, <5>4, <5>5
      <4>2. RecordRow(next, rows[m].decision, rows[m].revision) \subseteq DOMAIN rows
        <5>1. RecordRow(rows, rows[m].decision, rows[m].revision) \subseteq DOMAIN rows
          BY DEF RecordRow, RowsOf
        <5> QED
          BY <5>1, <1>11
      <4> QED
        BY <4>1, <4>2, <1>9 DEF SameColumns
    <3>4. RecordRow(next, rows[m].decision, rows[m].revision)
            = RecordRow(rows, rows[m].decision, rows[m].revision)
      BY <1>11
    <3>5. events[s][m] = rows[m] /\ events'[s][m] = rows[m]
      BY <2>2, <3>1
    <3> HIDE DEF next, rows
    <3>6. \E k \in RecordRow(next, rows[m].decision, rows[m].revision) : next[k].origin = rows[m].origin
      BY <2>2, <3>2, <3>3, <3>4, <3>5 DEF ReferringFinding
    <3>7. rows[m].kind = "tombstone" =>
            \A k \in RecordRow(next, rows[m].decision, rows[m].revision) : next[k].redacted
      BY <2>2, <3>2, <3>3, <3>4, <3>5 DEF ReferringFinding
    <3>8. /\ rows[m].payload # None /\ Seal(rows[m].kind, rows[m].payload) = rows[m].content
          /\ rows[m].payload.decision = rows[m].decision
          /\ rows[m].payload.revision = rows[m].revision
      BY <3>2, <3>5 DEF ReferringFinding
    <3>9. ReferringFinding(s, m)' <=>
            LET row == next[m]
                target == RecordRow(next, row.decision, row.revision)
            IN  \/ row.payload = None
                \/ Seal(row.kind, row.payload) # row.content
                \/ row.payload.decision # row.decision
                \/ row.payload.revision # row.revision
                \/ ~\E k \in target : next[k].origin = row.origin
                \/ row.kind = "tombstone" /\ \E k \in target : ~next[k].redacted
      BY <2>2 DEF ReferringFinding
    <3>10. next[m] = rows[m]
      BY <3>1
    <3> QED
      BY <3>6, <3>7, <3>8, <3>9, <3>10
  <2> QED
    BY <2>3, <2>4
<1>20. VerifyOk(s)'
  BY <1>17, <1>18, <1>19 DEF VerifyOk, next
<1> QED
  BY <1>7, <1>20 DEF Kept, next

-----------------------------------------------------------------------------
(* Every write leaves a store that verify accepts.                         *)

\* An insertion reaches the rows and the anchor of one store.
LEMMA InsertShape ==
  ASSUME Tables, NEW s \in Store, NEW rows, NEW e, Insert(s, rows, e),
         epoch_status' = epoch_status
  PROVE  /\ events'[s] = Append(rows, e)
         /\ anchor'[s] = Anchor(s, events'[s], epoch_status'[s])
         /\ DOMAIN events' = Store /\ DOMAIN anchor' = Store
         /\ EventId(e) \notin EventIds(rows)
         /\ \A t \in Store \ {s} : events'[t] = events[t] /\ anchor'[t] = anchor[t]
  BY DEF Tables, Insert

LEMMA AppendDecisionKeeps ==
  ASSUME NoneIsNoPayload, Tables, NEW s \in Store, Kept(s), NEW expected,
         NEW rec \in [decision : Decision, store : Store, revision : 1..MaxRevision + 1,
                      supersedes : KnownSeals \cup {None}, expires : Instant],
         AppendDecision(s, expected, rec)
  PROVE  Kept(s)'
<1> DEFINE e == RecordEvent(rec, "NATIVE", None)
           rows == events[s]
           head == HeadRow(rows, rec.decision)
<1>1. /\ Insert(s, rows, e) /\ imports' = imports /\ epoch_status' = epoch_status
      /\ rec.store = s /\ ExtendsHead(s, rec) /\ rec.revision \in 1..MaxRevision
  BY DEF AppendDecision, Admissible
<1>2. /\ events'[s] = Append(rows, e) /\ anchor'[s] = Anchor(s, events'[s], epoch_status'[s])
      /\ EventId(e) \notin EventIds(rows)
  BY <1>1, InsertShape
<1>3. /\ e.kind = "record" /\ e.origin = "NATIVE" /\ e.transfer = None /\ ~e.redacted
      /\ e.payload = rec /\ e.content = RecordSeal(rec)
      /\ e.decision = rec.decision /\ e.revision = rec.revision /\ rec.revision \in Nat
  BY <1>1 DEF RecordEvent
<1>4. Row(e)
  BY <1>3 DEF RecordEvent, Row
<1>5. rec # None
  <2>1. rec = [decision |-> rec.decision, store |-> rec.store, revision |-> rec.revision,
               supersedes |-> rec.supersedes, expires |-> rec.expires]
    OBVIOUS
  <2> QED
    BY <2>1 DEF NoneIsNoPayload
<1>6. Rows(rows)
  BY DEF Kept
<1> HIDE DEF e, rows, head
<1>7. CASE head = 0
  <2>1. RowsOf(rows, "record", rec.decision) = {}
    BY <1>6, <1>7, HeadIsHighest DEF head, IsHead, RowsOf
  <2>2. rec.revision = 1
    BY <1>1, <1>7 DEF ExtendsHead, head, rows
  <2> QED
    <3>1. Rows(Append(rows, e))
      BY <1>2, <1>3, <1>4, <1>6, <2>1, RowsAfter
    <3>2. ~(e.revision > 1)
      BY <1>3, <2>2
    <3> QED
      BY <1>2, <1>3, <1>4, <1>5, <1>1, <3>1, <3>2, RecordVerifies DEF Kept, rows
<1>8. CASE head # 0
  <2>1. IsHead(rows, rec.decision, head)
    BY <1>6, <1>8, HeadIsHighest DEF head
  <2>2. rec.revision = rows[head].revision + 1 /\ rec.supersedes = rows[head].content
    BY <1>1, <1>8 DEF ExtendsHead, head, rows
  <2>3. rows[head].revision \in Nat
    BY <2>1, <1>6 DEF IsHead, RowsOf, Rows, Row
  <2>4. RevisionLinked(rows, rec)
    BY <2>1, <2>2, <2>3 DEF RevisionLinked, RecordRow, IsHead
  <2>5. Rows(Append(rows, e))
    BY <2>1, <2>2, <2>3, <1>2, <1>3, <1>4, <1>6, RowsAfter
  <2> QED
    BY <1>2, <1>3, <1>4, <1>5, <1>1, <2>4, <2>5, RecordVerifies DEF Kept, rows
<1> QED
  BY <1>7, <1>8

LEMMA ImportTransferKeeps ==
  ASSUME Tables, NEW s \in Store, Kept(s), NEW expected, NEW envelope, Carried(envelope),
         ImportTransfer(s, expected, envelope)
  PROVE  Kept(s)'
<1> DEFINE e == RecordEvent(envelope.record, "FOREIGN_READ_ONLY", TransferSeal(envelope))
           rows == events[s]
           i == [event |-> EventId(e), transfer |-> e.transfer, source |-> envelope.content]
<1>1. /\ Insert(s, rows, e) /\ epoch_status' = epoch_status /\ Importable(s, envelope)
      /\ imports' = [imports EXCEPT ![s] = @ \cup {i}]
  BY DEF ImportTransfer
<1>2. /\ events'[s] = Append(rows, e) /\ anchor'[s] = Anchor(s, events'[s], epoch_status'[s])
      /\ EventId(e) \notin EventIds(rows)
  BY <1>1, InsertShape
<1>3. /\ e.kind = "record" /\ e.origin = "FOREIGN_READ_ONLY" /\ ~e.redacted
      /\ e.payload = envelope.record /\ e.content = RecordSeal(envelope.record)
      /\ e.decision = envelope.record.decision /\ e.revision = envelope.record.revision
  BY DEF RecordEvent
<1>4. Row(e) /\ e.payload # None /\ e.content = envelope.content
  BY <1>3 DEF RecordEvent, Row, Carried
<1>5. Rows(rows)
  BY DEF Kept
<1>6. i.event = EventId(e) /\ i = [event |-> EventId(e), transfer |-> e.transfer, source |-> e.content]
  BY <1>4
<1> HIDE DEF e, rows, i
<1>7. imports'[s] = imports[s] \cup {i}
  BY <1>1 DEF Tables
<1>8. RowsOf(rows, "record", e.decision) = {}
  BY <1>1, <1>3, <1>5, HeadIsHighest DEF Importable, rows
<1>9. Rows(events'[s])
  BY <1>2, <1>4, <1>5, <1>8, RowsAfter
<1>10. VerifyOk(s)'
  BY <1>2, <1>3, <1>4, <1>6, <1>7, RecordVerifies DEF rows
<1> QED
  BY <1>9, <1>10 DEF Kept

LEMMA RevokeKeeps ==
  ASSUME NoneIsNoPayload, Tables, NEW s \in Store, Kept(s), NEW expected, NEW d,
         Revoke(s, expected, d)
  PROVE  Kept(s)'
<1> DEFINE rows == events[s]
           head == HeadRow(rows, d)
           e == ReferringEvent("revocation", rows[head])
<1>1. Insert(s, rows, e) /\ imports' = imports /\ epoch_status' = epoch_status /\ head # 0
  BY DEF Revoke
<1>2. /\ events'[s] = Append(rows, e) /\ anchor'[s] = Anchor(s, events'[s], epoch_status'[s])
      /\ EventId(e) \notin EventIds(rows)
  BY <1>1, InsertShape
<1>3. Rows(rows) /\ \E T : rows \in Seq(T)
  BY DEF Kept, Rows
<1>4. e.payload # None
  BY DEF ReferringEvent, NoneIsNoPayload
<1> HIDE DEF rows, head, e
<1>5. head \in DOMAIN rows /\ rows[head].kind = "record"
  BY <1>1, <1>3, HeadIsHighest DEF head, IsHead, RowsOf
<1> QED
  BY <1>1, <1>2, <1>3, <1>4, <1>5, ReferringVerifies DEF rows, e

LEMMA TombstoneKeeps ==
  ASSUME NoneIsNoPayload, Tables, NEW s \in Store, Kept(s), NEW expected, NEW d, NEW r,
         Tombstone(s, expected, d, r)
  PROVE  Kept(s)'
<1>1. PICK n \in RecordRow(events[s], d, r) :
        Insert(s, [events[s] EXCEPT ![n].payload = None, ![n].redacted = TRUE],
               ReferringEvent("tombstone", events[s][n]))
  BY DEF Tombstone
<1> DEFINE rows == events[s]
           red == [events[s] EXCEPT ![n].payload = None, ![n].redacted = TRUE]
           e == ReferringEvent("tombstone", rows[n])
<1>2. imports' = imports /\ epoch_status' = epoch_status
  BY DEF Tombstone
<1>3. /\ events'[s] = Append(red, e) /\ anchor'[s] = Anchor(s, events'[s], epoch_status'[s])
      /\ EventId(e) \notin EventIds(red)
  <2>1. Insert(s, red, e)
    BY <1>1
  <2> HIDE DEF red, e, rows
  <2> QED
    BY <1>2, <2>1, InsertShape
<1>4. PICK T : rows \in Seq(T)
  BY DEF Kept, Rows
<1>5. n \in DOMAIN rows /\ rows[n].kind = "record"
  BY DEF RecordRow, RowsOf
<1>6. /\ DOMAIN red = DOMAIN rows
      /\ \A m \in DOMAIN rows : red[m] = IF m = n THEN Redacted(rows[m]) ELSE rows[m]
  BY <1>5 DEF Redacted
<1>7. red \in Seq(T \cup {Redacted(rows[n])})
  <2>1. rows \in [1..Len(rows) -> T] /\ Len(rows) \in Nat
    BY <1>4
  <2>2. red \in [1..Len(rows) -> T \cup {Redacted(rows[n])}]
    <3>1. DOMAIN rows = 1..Len(rows) /\ \A m \in DOMAIN rows : rows[m] \in T
      BY <2>1
    <3>2. \A m \in DOMAIN red : red[m] \in T \cup {Redacted(rows[n])}
      BY <3>1, <1>6
    <3>3. red = [m \in DOMAIN red |-> red[m]]
      OBVIOUS
    <3> HIDE DEF red, rows
    <3> QED
      BY <3>1, <3>2, <3>3, <1>6
  <2> HIDE DEF red, rows
  <2> QED
    BY <2>1, <2>2
<1>8. e.payload # None
  BY DEF ReferringEvent, NoneIsNoPayload
<1>9. \A m \in DOMAIN rows :
        red[m] = IF "tombstone" = "tombstone" /\ m = n THEN Redacted(rows[m]) ELSE rows[m]
  BY <1>6
<1>10. imports'[s] = imports[s]
  BY <1>2
<1>11. DOMAIN red = DOMAIN events[s] /\ e = ReferringEvent("tombstone", events[s][n])
  BY <1>6
<1> DEFINE T2 == T \cup {Redacted(rows[n])}
<1>12. red \in Seq(T2)
  BY <1>7
<1> HIDE DEF red, e, T2
<1> QED
  BY <1>3, <1>5, <1>8, <1>9, <1>10, <1>11, <1>12, ReferringVerifies

\* Whatever is written, every store is one that verify accepts.
LEMMA WriteKeeps ==
  ASSUME NoneIsNoPayload, Tables, \A t \in Store : Kept(t),
         \A envelope \in envelopes : Carried(envelope),
         NEW s \in Store, NEW expected, Write(s, expected)
  PROVE  Tables' /\ (\A t \in Store : Kept(t)') /\ envelopes' = envelopes
<1> SUFFICES /\ Tables' /\ Kept(s)' /\ envelopes' = envelopes /\ epoch_status' = epoch_status
             /\ \A t \in Store \ {s} : /\ events'[t] = events[t] /\ anchor'[t] = anchor[t]
                                       /\ imports'[t] = imports[t]
  <2>1. ASSUME NEW t \in Store \ {s}, events'[t] = events[t], anchor'[t] = anchor[t],
               imports'[t] = imports[t], epoch_status' = epoch_status
        PROVE  Kept(t)'
    BY <2>1, Untouched
  <2> QED
    BY <2>1
<1>1. ASSUME NEW rec \in [decision : Decision, store : Store, revision : 1..MaxRevision + 1,
                          supersedes : KnownSeals \cup {None}, expires : Instant],
             AppendDecision(s, expected, rec)
      PROVE  /\ Tables' /\ Kept(s)' /\ envelopes' = envelopes /\ epoch_status' = epoch_status
             /\ \A t \in Store \ {s} : /\ events'[t] = events[t] /\ anchor'[t] = anchor[t]
                                       /\ imports'[t] = imports[t]
  <2>1. /\ Insert(s, events[s], RecordEvent(rec, "NATIVE", None))
        /\ imports' = imports /\ epoch_status' = epoch_status /\ envelopes' = envelopes
    BY <1>1 DEF AppendDecision
  <2> QED
    BY <1>1, <2>1, InsertShape, AppendDecisionKeeps DEF Tables
<1>2. ASSUME NEW d, Revoke(s, expected, d)
      PROVE  /\ Tables' /\ Kept(s)' /\ envelopes' = envelopes /\ epoch_status' = epoch_status
             /\ \A t \in Store \ {s} : /\ events'[t] = events[t] /\ anchor'[t] = anchor[t]
                                       /\ imports'[t] = imports[t]
  <2>1. /\ \E rows, e : Insert(s, rows, e)
        /\ imports' = imports /\ epoch_status' = epoch_status /\ envelopes' = envelopes
    BY <1>2 DEF Revoke
  <2> QED
    BY <1>2, <2>1, InsertShape, RevokeKeeps DEF Tables
<1>3. ASSUME NEW d, NEW r, Tombstone(s, expected, d, r)
      PROVE  /\ Tables' /\ Kept(s)' /\ envelopes' = envelopes /\ epoch_status' = epoch_status
             /\ \A t \in Store \ {s} : /\ events'[t] = events[t] /\ anchor'[t] = anchor[t]
                                       /\ imports'[t] = imports[t]
  <2>1. /\ \E rows, e : Insert(s, rows, e)
        /\ imports' = imports /\ epoch_status' = epoch_status /\ envelopes' = envelopes
    BY <1>3 DEF Tombstone
  <2> QED
    BY <1>3, <2>1, InsertShape, TombstoneKeeps DEF Tables
<1>4. ASSUME NEW envelope \in envelopes, ImportTransfer(s, expected, envelope)
      PROVE  /\ Tables' /\ Kept(s)' /\ envelopes' = envelopes /\ epoch_status' = epoch_status
             /\ \A t \in Store \ {s} : /\ events'[t] = events[t] /\ anchor'[t] = anchor[t]
                                       /\ imports'[t] = imports[t]
  <2>1. /\ \E e : Insert(s, events[s], e)
        /\ epoch_status' = epoch_status /\ envelopes' = envelopes
        /\ \E i : imports' = [imports EXCEPT ![s] = i]
    BY <1>4 DEF ImportTransfer
  <2>2. DOMAIN imports' = Store /\ \A t \in Store \ {s} : imports'[t] = imports[t]
    BY <2>1 DEF Tables
  <2> QED
    BY <1>4, <2>1, <2>2, InsertShape, ImportTransferKeeps DEF Tables
<1> QED
  BY <1>1, <1>2, <1>3, <1>4 DEF Write

\* An epoch ends with the rows that its anchor seals.
LEMMA AbandonKeeps ==
  ASSUME Tables, \A t \in Store : Kept(t), NEW s \in Store, AbandonEpoch(s)
  PROVE  Tables' /\ (\A t \in Store : Kept(t)') /\ envelopes' = envelopes
<1>1. /\ events' = events /\ imports' = imports /\ envelopes' = envelopes
      /\ epoch_status' = [epoch_status EXCEPT ![s] = "abandoned"]
      /\ anchor' = [anchor EXCEPT ![s] = Anchor(s, events[s], "abandoned")]
  BY DEF AbandonEpoch
<1>2. ASSUME NEW t \in Store \ {s} PROVE Kept(t)'
  BY <1>1, Untouched DEF Tables
<1>3. Kept(s)'
  <2>1. Kept(s)
    OBVIOUS
  <2>2. anchor'[s] = Anchor(s, events'[s], epoch_status'[s])
    BY <1>1 DEF Tables
  <2>3. Rows(events'[s])
    BY <1>1, <2>1 DEF Kept
  <2>4. ImportMismatch(s)' = ImportMismatch(s)
    BY <1>1 DEF ImportMismatch
  <2>5. \A n : RecordFinding(s, n)' = RecordFinding(s, n)
    BY <1>1 DEF RecordFinding
  <2>6. \A n : ReferringFinding(s, n)' = ReferringFinding(s, n)
    BY <1>1 DEF ReferringFinding
  <2> QED
    BY <1>1, <2>1, <2>2, <2>3, <2>4, <2>5, <2>6 DEF Kept, VerifyOk
<1> QED
  BY <1>1, <1>2, <1>3 DEF Tables

\* What leaves a store fits the seal it leaves with.
LEMMA ExportCarries ==
  ASSUME NEW s \in Store, Kept(s), NEW d, NEW destination,
         ExportTransfer(s, d, destination),
         \A envelope \in envelopes : Carried(envelope)
  PROVE  \A envelope \in envelopes' : Carried(envelope)
<1> DEFINE rows == events[s]
           head == HeadRow(rows, d)
           row == rows[head]
           new == Envelope(s, row, destination)
<1>1. envelopes' = envelopes \cup {new} /\ head # 0 /\ ~row.redacted
  BY DEF ExportTransfer
<1>2. Rows(rows) /\ VerifyOk(s)
  BY DEF Kept
<1> HIDE DEF head
<1>3. head \in DOMAIN rows /\ row.kind = "record"
  BY <1>1, <1>2, HeadIsHighest DEF head, IsHead, RowsOf
<1>4. ~RecordFinding(s, head) /\ Row(row)
  BY <1>2, <1>3 DEF VerifyOk, Rows
<1>5. row.payload # None /\ RecordSeal(row.payload) = row.content
      /\ row.payload.revision = row.revision /\ row.revision \in Nat
  BY <1>1, <1>4 DEF RecordFinding, Row
<1>6. Carried(new)
  BY <1>5 DEF Carried, Envelope
<1> QED
  BY <1>1, <1>6

-----------------------------------------------------------------------------
(* What a call remembers of the store that it reads.                       *)

Callers == DOMAIN pc = Process /\ DOMAIN view = Process /\ \A p \in Process : Seen(p)

\* Only the steps of status keep the store for a write to come.
LEMMA StepKeeps ==
  ASSUME Callers, NEW p \in Process, NEW step, NEW read,
         pc' = [pc EXCEPT ![p] = step], view' = [view EXCEPT ![p] = read],
         step \in {"counted", "recorded", "informed"} =>
           "store" \in DOMAIN read /\ read.store \in Store
  PROVE  Callers'
<1>1. DOMAIN pc' = Process /\ DOMAIN view' = Process
  BY DEF Callers
<1>2. pc'[p] = step /\ view'[p] = read
  BY DEF Callers
<1>3. ASSUME NEW q \in Process, q # p PROVE pc'[q] = pc[q] /\ view'[q] = view[q]
  BY <1>3 DEF Callers
<1>4. ASSUME NEW q \in Process PROVE Seen(q)'
  <2>1. CASE q = p
    BY <2>1, <1>2 DEF Seen
  <2>2. CASE q # p
    BY <2>2, <1>3 DEF Callers, Seen
  <2> QED
    BY <2>1, <2>2
<1> QED
  BY <1>1, <1>4 DEF Callers

LEMMA ReadKeeps ==
  ASSUME Callers, NEW p \in Process, Read(p)
  PROVE  Callers' /\ UNCHANGED <<files, envelopes>>
<1>1. ASSUME NEW s \in Store, StatusGeneration(p, s)
      PROVE  Callers' /\ UNCHANGED <<files, envelopes>>
  <2> DEFINE read == [store |-> s, generation |-> Len(events[s]), records |-> 0, root |-> None]
  <2>1. "store" \in DOMAIN read /\ read.store = s
    OBVIOUS
  <2> HIDE DEF read
  <2>2. pc' = [pc EXCEPT ![p] = "counted"] /\ view' = [view EXCEPT ![p] = read]
    BY <1>1 DEF StatusGeneration, Goto, Keep, read
  <2> QED
    BY <1>1, <2>1, <2>2, StepKeeps DEF StatusGeneration
<1>2. ASSUME NEW s \in Store, NEW as_of, ListRevoked(p, s, as_of)
      PROVE  Callers' /\ UNCHANGED <<files, envelopes>>
  <2>1. pc' = [pc EXCEPT ![p] = "listing"] /\ \E read : view' = [view EXCEPT ![p] = read]
    BY <1>2 DEF ListRevoked, Goto, Keep
  <2> QED
    BY <1>2, <2>1, StepKeeps DEF ListRevoked
<1>3. ASSUME NEW s \in Store, NEW d, NEW as_of, GetHead(p, s, d, as_of)
      PROVE  Callers' /\ UNCHANGED <<files, envelopes>>
  <2>1. pc' = [pc EXCEPT ![p] = "headed"] /\ \E read : view' = [view EXCEPT ![p] = read]
    BY <1>3 DEF GetHead, Goto, Keep
  <2> QED
    BY <1>3, <2>1, StepKeeps DEF GetHead
<1>4. ASSUME StatusRecords(p) PROVE Callers' /\ UNCHANGED <<files, envelopes>>
  <2> DEFINE read == [view[p] EXCEPT !.records = RecordCount(events[view[p].store])]
  <2>1. "store" \in DOMAIN view[p] /\ view[p].store \in Store
    BY <1>4 DEF StatusRecords, Callers, Seen
  <2>2. "store" \in DOMAIN read /\ read.store \in Store
    BY <2>1
  <2> HIDE DEF read
  <2>3. pc' = [pc EXCEPT ![p] = "recorded"] /\ view' = [view EXCEPT ![p] = read]
    BY <1>4 DEF StatusRecords, Goto, Keep, read
  <2> QED
    BY <1>4, <2>2, <2>3, StepKeeps DEF StatusRecords
<1>5. ASSUME StatusRoot(p) PROVE Callers' /\ UNCHANGED <<files, envelopes>>
  <2> DEFINE read == [view[p] EXCEPT !.root = ChainSeal(view[p].store, events[view[p].store])]
  <2>1. "store" \in DOMAIN view[p] /\ view[p].store \in Store
    BY <1>5 DEF StatusRoot, Callers, Seen
  <2>2. "store" \in DOMAIN read /\ read.store \in Store
    BY <2>1
  <2> HIDE DEF read
  <2>3. pc' = [pc EXCEPT ![p] = "informed"] /\ view' = [view EXCEPT ![p] = read]
    BY <1>5 DEF StatusRoot, Goto, Keep, read
  <2> QED
    BY <1>5, <2>2, <2>3, StepKeeps DEF StatusRoot
<1>6. ASSUME GetAnswer(p) PROVE Callers' /\ UNCHANGED <<files, envelopes>>
  <2>1. pc' = [pc EXCEPT ![p] = "idle"] /\ view' = [view EXCEPT ![p] = None]
    BY <1>6 DEF GetAnswer, Return, Goto, Keep
  <2> QED
    BY <1>6, <2>1, StepKeeps DEF GetAnswer
<1>7. ASSUME NEW origin, ListHeads(p, origin)
      PROVE  Callers' /\ UNCHANGED <<files, envelopes>>
  <2>1. pc' = [pc EXCEPT ![p] = "idle"] /\ view' = [view EXCEPT ![p] = None]
    BY <1>7 DEF ListHeads, Return, Goto, Keep
  <2> QED
    BY <1>7, <2>1, StepKeeps DEF ListHeads
<1> QED
  BY <1>1, <1>2, <1>3, <1>4, <1>5, <1>6, <1>7 DEF Read

-----------------------------------------------------------------------------
LEMMA Initially == Init => IInv
<1> SUFFICES ASSUME Init PROVE IInv
  OBVIOUS
<1>1. ASSUME NEW s \in Store PROVE Kept(s)
  <2>1. /\ events[s] = <<>> /\ imports[s] = {} /\ epoch_status[s] = "open"
        /\ anchor[s] = Anchor(s, <<>>, "open")
    BY DEF Init
  <2>2. Rows(<<>>)
    BY DEF Rows, RowsOf
  <2>3. VerifyOk(s)
    BY <2>1 DEF VerifyOk, ImportMismatch
  <2> QED
    BY <2>1, <2>2, <2>3 DEF Kept
<1>2. \A p \in Process : Seen(p)
  BY DEF Init, Seen
<1> QED
  BY <1>1, <1>2 DEF Init, IInv, Tables

LEMMA Inductive == NoneIsNoPayload /\ IInv /\ [Next]_vars => IInv'
<1> SUFFICES ASSUME NoneIsNoPayload, IInv, [Next]_vars PROVE IInv'
  OBVIOUS
<1>1. /\ Tables /\ Callers /\ \A s \in Store : Kept(s)
      /\ \A envelope \in envelopes : Carried(envelope)
  BY DEF IInv, Callers
<1>2. ASSUME UNCHANGED <<files, envelopes>>
      PROVE  Tables' /\ (\A s \in Store : Kept(s)') /\ envelopes' = envelopes
  BY <1>1, <1>2, Untouched DEF files, Tables
<1>3. ASSUME UNCHANGED callers PROVE Callers'
  BY <1>1, <1>3 DEF callers, Callers, Seen
<1>4. ASSUME Tables', \A s \in Store : Kept(s)', envelopes' = envelopes, Callers' PROVE IInv'
  BY <1>1, <1>4 DEF IInv, Callers
<1>5. ASSUME NEW s \in Store, Write(s, None), UNCHANGED callers PROVE IInv'
  BY <1>1, <1>3, <1>4, <1>5, WriteKeeps
<1>6. ASSUME NEW s \in Store, AbandonEpoch(s) PROVE IInv'
  <2>1. UNCHANGED callers
    BY <1>6 DEF AbandonEpoch
  <2> QED
    BY <1>1, <1>3, <1>4, <1>6, <2>1, AbandonKeeps
<1>7. ASSUME NEW s \in Store, NEW d, NEW destination, ExportTransfer(s, d, destination) PROVE IInv'
  <2>1. UNCHANGED files /\ UNCHANGED callers
    BY <1>7 DEF ExportTransfer
  <2>2. Tables' /\ \A t \in Store : Kept(t)'
    BY <1>1, <2>1, Untouched DEF files, Tables
  <2>3. \A envelope \in envelopes' : Carried(envelope)
    BY <1>1, <1>7, ExportCarries
  <2> QED
    BY <1>3, <2>1, <2>2, <2>3 DEF IInv, Callers
<1>8. ASSUME NEW p \in Process, Read(p) PROVE IInv'
  BY <1>1, <1>2, <1>4, <1>8, ReadKeeps
<1>9. ASSUME NEW p \in Process, NEW ans, Return(p, ans) PROVE Callers'
  <2>1. pc' = [pc EXCEPT ![p] = "idle"] /\ view' = [view EXCEPT ![p] = None]
    BY <1>9 DEF Return, Goto, Keep
  <2> QED
    BY <1>1, <2>1, StepKeeps
<1>10. ASSUME NEW p \in Process, GuardedWrite(p) PROVE IInv'
  <2>1. view[p].store \in Store /\ Write(view[p].store, view[p].generation)
    BY <1>1, <1>10 DEF GuardedWrite, Callers, Seen
  <2>2. \E ans : Return(p, ans)
    BY <1>10 DEF GuardedWrite
  <2> QED
    BY <1>1, <1>4, <1>9, <2>1, <2>2, WriteKeeps
<1>11. ASSUME NEW p \in Process, GenerationMismatch(p) \/ Crash(p) PROVE IInv'
  <2>1. UNCHANGED <<files, envelopes>> /\ \E ans : Return(p, ans)
    BY <1>11 DEF GenerationMismatch, Crash
  <2> QED
    BY <1>2, <1>4, <1>9, <2>1
<1>12. CASE UNCHANGED vars
  BY <1>2, <1>3, <1>4, <1>12 DEF vars
<1> QED
  BY <1>5, <1>6, <1>7, <1>8, <1>10, <1>11, <1>12 DEF Next

\* No sequence of accepted writes, whatever reads, exports, late imports and
\* crashes fall between them, leaves a memory that verify refuses, however
\* many stores, decisions, revisions and processes there are: every write
\* and every export of store.py begins with verify.
THEOREM AcceptedWritesVerifyHolds ==
  ASSUME NoneIsNoPayload
  PROVE  Spec => []AcceptedWritesVerify
<1>1. IInv => AcceptedWritesVerify
  BY DEF IInv, Kept, AcceptedWritesVerify
<1>2. IInv /\ [Next]_vars => IInv'
  BY Inductive
<1> QED
  BY Initially, <1>1, <1>2, PTL DEF Spec

-----------------------------------------------------------------------------
(* What a store held stays what it held.  A write puts one event behind    *)
(* the rows, and at most takes the payload of one of them: every prefix    *)
(* keeps its columns, so whatever was true of it stays true.               *)

\* Rows that became others by writes.
Grows(rows, next) ==
  /\ \E S : next \in Seq(S)
  /\ Len(rows) <= Len(next)
  /\ \A n \in DOMAIN rows : next[n] = rows[n] \/ next[n] = Redacted(rows[n])

Alike(rows, next) ==
  /\ Rows(rows) /\ Rows(next) /\ DOMAIN next = DOMAIN rows
  /\ \A n \in DOMAIN rows : SameColumns(next[n], rows[n])

First(rows, m) == SubSeq(rows, 1, m)

LEMMA FirstShape ==
  ASSUME NEW S, NEW rows \in Seq(S), NEW m \in 0..Len(rows)
  PROVE  /\ First(rows, m) \in Seq(S) /\ Len(First(rows, m)) = m
         /\ DOMAIN First(rows, m) = 1..m /\ 1..m \subseteq DOMAIN rows
         /\ \A n \in 1..m : First(rows, m)[n] = rows[n]
<1>1. /\ Len(rows) \in Nat /\ DOMAIN rows = 1..Len(rows)
      /\ \A n \in 1..Len(rows) : rows[n] \in S
  OBVIOUS
<1>2. First(rows, m) = [n \in 1..m |-> rows[n]]
  BY <1>1, SubSeqProperties DEF First
<1>3. \A n \in 1..m : rows[n] \in S
  BY <1>1
<1>4. First(rows, m) \in [1..m -> S]
  BY <1>2, <1>3
<1> HIDE DEF First
<1> QED
  BY <1>1, <1>2, <1>4

LEMMA FirstAll ==
  ASSUME NEW S, NEW rows \in Seq(S)
  PROVE  First(rows, Len(rows)) = rows
<1>1. Len(rows) \in 0..Len(rows)
  OBVIOUS
<1>2. First(rows, Len(rows)) \in Seq(S) /\ Len(First(rows, Len(rows))) = Len(rows)
      /\ \A n \in 1..Len(rows) : First(rows, Len(rows))[n] = rows[n]
  BY <1>1, FirstShape
<1> HIDE DEF First
<1> QED
  BY <1>2, SeqEqual

\* A decision has one head: two records of one revision are one row.
LEMMA OneHead ==
  ASSUME NEW rows, Rows(rows), NEW d, NEW n, IsHead(rows, d, n)
  PROVE  HeadRow(rows, d) = n
<1>1. n \in RowsOf(rows, "record", d)
  BY DEF IsHead
<1>2. IsHead(rows, d, HeadRow(rows, d))
  BY <1>1, HeadIsHighest
<1> DEFINE h == HeadRow(rows, d)
<1> HIDE DEF h
<1>3. IsHead(rows, d, h)
  BY <1>2 DEF h
<1>4. /\ n \in DOMAIN rows /\ h \in DOMAIN rows
      /\ rows[n].kind = "record" /\ rows[h].kind = "record"
      /\ rows[n].decision = rows[h].decision
      /\ rows[n].revision <= rows[h].revision /\ rows[h].revision <= rows[n].revision
  BY <1>3 DEF IsHead, RowsOf
<1>5. rows[n].revision \in Nat /\ rows[h].revision \in Nat
  BY <1>4 DEF Rows, Row
<1>6. rows[n].revision = rows[h].revision
  BY <1>4, <1>5
<1>7. EventId(rows[n]) = EventId(rows[h])
  BY <1>4, <1>6, IdOfRecord
<1>8. n = h
  BY <1>4, <1>7 DEF Rows
<1> QED
  BY <1>8 DEF h

\* What anybody reads of the rows of a store but their payloads.
LEMMA AlikeReads ==
  ASSUME NEW rows, NEW next, Alike(rows, next)
  PROVE  /\ \A k, d : RowsOf(next, k, d) = RowsOf(rows, k, d)
         /\ \A d : HeadRow(next, d) = HeadRow(rows, d)
         /\ \A d : Revoked(next, d) <=> Revoked(rows, d)
         /\ \A d, r : ActiveRevision(next, d, r) <=> ActiveRevision(rows, d, r)
         /\ \A n \in DOMAIN rows : Tombstoned(next, n) <=> Tombstoned(rows, n)
         /\ RecordCount(next) = RecordCount(rows)
         /\ \A s : ChainSeal(s, next) = ChainSeal(s, rows)
<1>1. \A k, d : RowsOf(next, k, d) = RowsOf(rows, k, d)
  BY DEF Alike, RowsOf, SameColumns
<1>2. ASSUME NEW d, NEW n, IsHead(rows, d, n) PROVE IsHead(next, d, n)
  <2>1. \A m \in RowsOf(rows, "record", d) : next[m].revision = rows[m].revision
    BY DEF RowsOf, Alike, SameColumns
  <2> QED
    BY <1>1, <1>2, <2>1 DEF IsHead
<1>3. ASSUME NEW d PROVE HeadRow(next, d) = HeadRow(rows, d)
  <2>1. CASE RowsOf(rows, "record", d) = {}
    BY <2>1, <1>1 DEF HeadRow
  <2>2. CASE RowsOf(rows, "record", d) # {}
    <3>1. IsHead(rows, d, HeadRow(rows, d))
      BY <2>2, HeadIsHighest DEF Alike
    <3>2. IsHead(next, d, HeadRow(rows, d))
      BY <3>1, <1>2
    <3> QED
      BY <3>2, OneHead DEF Alike
  <2> QED
    BY <2>1, <2>2
<1>4. \A d : Revoked(next, d) <=> Revoked(rows, d)
  BY <1>1 DEF Revoked
<1>5. ASSUME NEW d, NEW r PROVE ActiveRevision(next, d, r) <=> ActiveRevision(rows, d, r)
  <2>1. CASE HeadRow(rows, d) = 0
    BY <2>1, <1>3 DEF ActiveRevision
  <2>2. CASE HeadRow(rows, d) # 0
    <3>1. HeadRow(rows, d) \in DOMAIN rows
      BY <2>2, HeadIsHighest DEF Alike, IsHead, RowsOf
    <3>2. next[HeadRow(rows, d)].revision = rows[HeadRow(rows, d)].revision
      BY <3>1 DEF Alike, SameColumns
    <3> QED
      BY <1>3, <1>4, <3>2 DEF ActiveRevision
  <2> QED
    BY <2>1, <2>2
<1>6. \A n \in DOMAIN rows : Tombstoned(next, n) <=> Tombstoned(rows, n)
  <2>1. \A d : \A m \in RowsOf(rows, "tombstone", d) : next[m].revision = rows[m].revision
    BY DEF RowsOf, Alike, SameColumns
  <2>2. \A n \in DOMAIN rows :
          next[n].decision = rows[n].decision /\ next[n].revision = rows[n].revision
    BY DEF Alike, SameColumns
  <2> QED
    BY <1>1, <2>1, <2>2 DEF Tombstoned
<1>7. RecordCount(next) = RecordCount(rows)
  <2>1. {n \in DOMAIN next : next[n].kind = "record"} = {n \in DOMAIN rows : rows[n].kind = "record"}
    BY DEF Alike, SameColumns
  <2> QED
    BY <2>1 DEF RecordCount
<1>8. ASSUME NEW s PROVE ChainSeal(s, next) = ChainSeal(s, rows)
  <2>1. \A n \in DOMAIN rows : SealedColumns(next[n]) = SealedColumns(rows[n])
    BY DEF Alike, SameColumns, SealedColumns, EventId
  <2>2. [n \in DOMAIN next |-> SealedColumns(next[n])] = [n \in DOMAIN rows |-> SealedColumns(rows[n])]
    BY <2>1 DEF Alike
  <2> QED
    BY <2>2 DEF ChainSeal
<1> QED
  BY <1>1, <1>3, <1>4, <1>5, <1>6, <1>7, <1>8

\* A prefix of what a store held is read alike ever after.
LEMMA FirstAlike ==
  ASSUME NEW rows, NEW next, Grows(rows, next), \E S : rows \in Seq(S),
         NEW m \in 0..Len(rows), Rows(First(rows, m))
  PROVE  Alike(First(rows, m), First(next, m)) /\ m \in 0..Len(next)
<1>1. PICK S : rows \in Seq(S)
  OBVIOUS
<1>2. PICK T : next \in Seq(T)
  BY DEF Grows
<1>3. m \in 0..Len(next)
  BY <1>1, <1>2 DEF Grows
<1>4. /\ DOMAIN First(rows, m) = 1..m /\ 1..m \subseteq DOMAIN rows
      /\ \A n \in 1..m : First(rows, m)[n] = rows[n]
  BY <1>1, FirstShape
<1>5. /\ DOMAIN First(next, m) = 1..m /\ First(next, m) \in Seq(T)
      /\ \A n \in 1..m : First(next, m)[n] = next[n]
  BY <1>2, <1>3, FirstShape
<1> DEFINE before == First(rows, m)
           after == First(next, m)
<1>6. \A n \in DOMAIN before : after[n] = before[n] \/ after[n] = Redacted(before[n])
  BY <1>4, <1>5 DEF Grows
<1>7. after \in Seq(T) /\ DOMAIN after = DOMAIN before /\ Rows(before)
  BY <1>4, <1>5
<1> HIDE DEF before, after
<1>8. Rows(after) /\ \A n \in DOMAIN before : SameColumns(after[n], before[n])
  BY <1>6, <1>7, RowsRedacted
<1>9. Alike(before, after)
  BY <1>7, <1>8 DEF Alike
<1> QED
  BY <1>3, <1>9 DEF before, after

WithoutPayload(rows, n) == [rows EXCEPT ![n].payload = None, ![n].redacted = TRUE]

RedactedAt(red, rows, n) ==
  /\ \E S : red \in Seq(S)
  /\ Len(red) = Len(rows) /\ DOMAIN red = DOMAIN rows
  /\ red[n] = Redacted(rows[n]) /\ \A m \in DOMAIN rows \ {n} : red[m] = rows[m]

LEMMA RedactedShape ==
  ASSUME NEW rows, \E S : rows \in Seq(S), NEW n \in DOMAIN rows
  PROVE  RedactedAt(WithoutPayload(rows, n), rows, n)
<1> DEFINE red == WithoutPayload(rows, n)
<1>1. PICK S : rows \in Seq(S)
  OBVIOUS
<1>2. /\ DOMAIN red = DOMAIN rows
      /\ red[n] = Redacted(rows[n]) /\ \A m \in DOMAIN rows \ {n} : red[m] = rows[m]
  BY DEF Redacted, WithoutPayload
<1>3. Len(rows) \in Nat /\ DOMAIN rows = 1..Len(rows) /\ \A m \in DOMAIN rows : rows[m] \in S
  BY <1>1
<1>4. red = [m \in DOMAIN red |-> red[m]]
  BY DEF WithoutPayload
<1> DEFINE T == S \cup {Redacted(rows[n])}
           k == Len(rows)
<1> HIDE DEF red
<1>5. \A m \in DOMAIN red : red[m] \in T
  BY <1>2, <1>3
<1> HIDE DEF T
<1>6. k \in Nat /\ red \in [1..k -> T]
  BY <1>2, <1>3, <1>4, <1>5
<1> HIDE DEF k
<1>7. \A f \in [1..k -> T] : f \in Seq(T) /\ Len(f) = k
  BY <1>6
<1>8. red \in Seq(T) /\ Len(red) = k
  BY <1>6, <1>7, Zenon
<1>9. \E U : red \in Seq(U)
  BY <1>8
<1> QED
  BY <1>2, <1>8, <1>9 DEF RedactedAt, red, k

\* What one write puts behind which rows.
ImportedAs(envelope, s, e) ==
  /\ envelope.destination = s /\ e.transfer = TransferSeal(envelope) /\ e.content = envelope.content
  /\ e.decision = envelope.record.decision /\ e.revision = envelope.record.revision

\* An event that refers to a row is about the decision and revision of it.
About(e, row) ==
  e.decision = row.decision /\ e.revision = row.revision /\ e.origin = row.origin

\* A native record is the first revision of its decision or follows its head.
Revises(s, e, rec) ==
  /\ rec \in [decision : Decision, store : {s}, revision : 1..MaxRevision,
              supersedes : KnownSeals \cup {None}, expires : Instant]
  /\ rec.decision = e.decision /\ rec.revision = e.revision /\ e.content = RecordSeal(rec)
  /\ rec.revision = 1 <=> rec.supersedes = None
  /\ ExtendsHead(s, rec)

Puts(s, rows, e) ==
  /\ events'[s] = Append(rows, e)
  /\ Grows(events[s], rows) /\ Len(rows) = Len(events[s]) /\ Len(events[s]) < MaxEvents
  /\ epoch_status[s] = "open" /\ UNCHANGED epoch_status
  /\ e.kind # "record" =>
       e.kind \in {"revocation", "tombstone"} /\ \E n \in DOMAIN events[s] : About(e, events[s][n])
  /\ e.kind = "revocation" =>
       HeadRow(events[s], e.decision) # 0 /\ ~Revoked(events[s], e.decision)
  /\ e.kind = "record" => e.origin \in {"NATIVE", "FOREIGN_READ_ONLY"}
  /\ e.kind = "record" /\ e.origin = "NATIVE" =>
       /\ e.decision \in Decision /\ e.revision \in 1..MaxRevision
       /\ \E rec : Revises(s, e, rec)
  /\ e.kind = "record" => ~Revoked(events[s], e.decision)
  /\ e.kind = "record" /\ e.origin # "NATIVE" =>
       /\ HeadRow(events[s], e.decision) = 0
       /\ \E envelope \in envelopes : ImportedAs(envelope, s, e)

LEMMA NoRecordNoRevocation ==
  ASSUME NEW s, Kept(s), NEW d, HeadRow(events[s], d) = 0
  PROVE  ~Revoked(events[s], d)
<1>1. RowsOf(events[s], "record", d) = {}
  BY HeadIsHighest DEF Kept, IsHead
<1> SUFFICES ASSUME NEW n \in RowsOf(events[s], "revocation", d) PROVE FALSE
  BY DEF Revoked
<1>2. /\ n \in DOMAIN events[s] /\ events[s][n].kind = "revocation"
      /\ events[s][n].decision = d
  BY DEF RowsOf
<1>3. ~ReferringFinding(s, n)
  BY <1>2 DEF Kept, VerifyOk
<1>4. RecordRow(events[s], d, events[s][n].revision) # {}
  BY <1>2, <1>3 DEF ReferringFinding
<1> QED
  BY <1>1, <1>4 DEF RecordRow

LEMMA SelfGrows ==
  ASSUME NEW S, NEW rows \in Seq(S)
  PROVE  Grows(rows, rows)
  BY DEF Grows

LEMMA WriteDoes ==
  ASSUME Tables, NEW s \in Store, Kept(s), NEW expected, Write(s, expected),
         \A envelope \in envelopes : Carried(envelope)
  PROVE  /\ \E rows, e : Puts(s, rows, e)
         /\ \A t \in Store \ {s} : events'[t] = events[t]
         /\ expected \in {None, Len(events[s])}
<1>1. PICK S : events[s] \in Seq(S)
  BY DEF Kept, Rows
<1>2. ASSUME NEW rec \in [decision : Decision, store : Store, revision : 1..MaxRevision + 1,
                          supersedes : KnownSeals \cup {None}, expires : Instant],
             AppendDecision(s, expected, rec)
      PROVE  /\ \E rows, e : Puts(s, rows, e)
             /\ \A t \in Store \ {s} : events'[t] = events[t]
             /\ expected \in {None, Len(events[s])}
  <2> DEFINE e == RecordEvent(rec, "NATIVE", None)
  <2>1. /\ Insert(s, events[s], e) /\ epoch_status' = epoch_status
        /\ ExtendsHead(s, rec) /\ Writable(s, expected)
        /\ rec.revision \in 1..MaxRevision /\ rec.decision \in Decision
        /\ rec.store = s /\ (rec.revision = 1 <=> rec.supersedes = None)
    BY <1>2 DEF AppendDecision, Admissible
  <2>2. /\ e.kind = "record" /\ e.origin = "NATIVE" /\ e.decision = rec.decision
        /\ e.revision = rec.revision /\ e.content = RecordSeal(rec)
    BY DEF RecordEvent
  <2> HIDE DEF e
  <2>3. events'[s] = Append(events[s], e) /\ \A t \in Store \ {s} : events'[t] = events[t]
    BY <2>1, InsertShape
  <2>5. Revises(s, e, rec)
    BY <2>1, <2>2 DEF Revises
  <2>4. Puts(s, events[s], e)
    BY <1>1, <2>1, <2>2, <2>3, <2>5, SelfGrows DEF Puts, ExtendsHead, Writable
  <2> QED
    BY <2>1, <2>3, <2>4 DEF Writable
<1>3. ASSUME NEW d, Revoke(s, expected, d)
      PROVE  /\ \E rows, e : Puts(s, rows, e)
             /\ \A t \in Store \ {s} : events'[t] = events[t]
             /\ expected \in {None, Len(events[s])}
  <2> DEFINE e == ReferringEvent("revocation", events[s][HeadRow(events[s], d)])
  <2>1. /\ Insert(s, events[s], e) /\ epoch_status' = epoch_status /\ Writable(s, expected)
        /\ HeadRow(events[s], d) # 0 /\ ~Revoked(events[s], d)
    BY <1>3 DEF Revoke
  <2>5. HeadRow(events[s], d) \in DOMAIN events[s] /\ events[s][HeadRow(events[s], d)].decision = d
    BY <2>1, HeadIsHighest DEF Kept, IsHead, RowsOf
  <2>2. e.kind = "revocation" /\ About(e, events[s][HeadRow(events[s], d)]) /\ e.decision = d
    BY <2>5 DEF ReferringEvent, About
  <2> HIDE DEF e
  <2>3. events'[s] = Append(events[s], e) /\ \A t \in Store \ {s} : events'[t] = events[t]
    BY <2>1, InsertShape
  <2>4. Puts(s, events[s], e)
    BY <1>1, <2>1, <2>2, <2>3, <2>5, SelfGrows DEF Puts, Writable
  <2> QED
    BY <2>1, <2>3, <2>4 DEF Writable
<1>4. ASSUME NEW d, NEW r, Tombstone(s, expected, d, r)
      PROVE  /\ \E rows, e : Puts(s, rows, e)
             /\ \A t \in Store \ {s} : events'[t] = events[t]
             /\ expected \in {None, Len(events[s])}
  <2>1. PICK n \in RecordRow(events[s], d, r) :
          Insert(s, [events[s] EXCEPT ![n].payload = None, ![n].redacted = TRUE],
                 ReferringEvent("tombstone", events[s][n]))
    BY <1>4 DEF Tombstone
  <2> DEFINE red == [events[s] EXCEPT ![n].payload = None, ![n].redacted = TRUE]
             e == ReferringEvent("tombstone", events[s][n])
  <2>2. Insert(s, red, e) /\ epoch_status' = epoch_status /\ Writable(s, expected)
    BY <1>4, <2>1 DEF Tombstone
  <2>3. e.kind = "tombstone" /\ About(e, events[s][n])
    BY DEF ReferringEvent, About
  <2>4. n \in DOMAIN events[s]
    BY DEF RecordRow, RowsOf
  <2>5. RedactedAt(red, events[s], n)
    <3>1. red = WithoutPayload(events[s], n)
      BY DEF WithoutPayload
    <3> HIDE DEF red
    <3> QED
      BY <1>1, <2>4, <3>1, RedactedShape
  <2> HIDE DEF e, red
  <2>6. events'[s] = Append(red, e) /\ \A t \in Store \ {s} : events'[t] = events[t]
    BY <2>2, InsertShape
  <2>7. Grows(events[s], red) /\ Len(red) = Len(events[s])
    <3>1. Len(events[s]) <= Len(red)
      BY <1>1, <2>5 DEF RedactedAt
    <3> QED
      BY <2>5, <3>1 DEF Grows, RedactedAt
  <2>8. Puts(s, red, e)
    BY <2>2, <2>3, <2>4, <2>6, <2>7 DEF Puts, Writable
  <2> QED
    BY <2>2, <2>6, <2>8 DEF Writable
<1>5. ASSUME NEW envelope \in envelopes, ImportTransfer(s, expected, envelope)
      PROVE  /\ \E rows, e : Puts(s, rows, e)
             /\ \A t \in Store \ {s} : events'[t] = events[t]
             /\ expected \in {None, Len(events[s])}
  <2> DEFINE e == RecordEvent(envelope.record, "FOREIGN_READ_ONLY", TransferSeal(envelope))
  <2>1. /\ Insert(s, events[s], e) /\ epoch_status' = epoch_status
        /\ Importable(s, envelope) /\ Writable(s, expected) /\ envelope.destination = s
    BY <1>5 DEF ImportTransfer
  <2>2. /\ e.decision = envelope.record.decision /\ e.transfer = TransferSeal(envelope)
        /\ e.content = RecordSeal(envelope.record) /\ e.revision = envelope.record.revision
        /\ e.kind = "record" /\ e.origin = "FOREIGN_READ_ONLY"
    BY DEF RecordEvent
  <2> HIDE DEF e
  <2>3. events'[s] = Append(events[s], e) /\ \A t \in Store \ {s} : events'[t] = events[t]
    BY <2>1, InsertShape
  <2>4. HeadRow(events[s], e.decision) = 0 /\ ~Revoked(events[s], e.decision)
    BY <2>1, <2>2, NoRecordNoRevocation DEF Importable
  <2>6. ImportedAs(envelope, s, e)
    BY <2>1, <2>2 DEF ImportedAs, Carried
  <2>7. Grows(events[s], events[s])
    BY <1>1, SelfGrows
  <2>8. Len(events[s]) < MaxEvents /\ epoch_status[s] = "open"
    BY <2>1 DEF Writable
  <2>5. Puts(s, events[s], e)
    BY <2>1, <2>2, <2>3, <2>4, <2>6, <2>7, <2>8 DEF Puts
  <2> QED
    BY <2>1, <2>3, <2>5 DEF Writable
<1> QED
  BY <1>2, <1>3, <1>4, <1>5 DEF Write

LEMMA PutsGrows ==
  ASSUME NEW s, NEW rows, NEW e, Puts(s, rows, e), \E S : events[s] \in Seq(S)
  PROVE  /\ Grows(events[s], events'[s])
         /\ Len(events[s]) \in Nat /\ Len(events'[s]) = Len(events[s]) + 1
         /\ DOMAIN events'[s] = DOMAIN events[s] \cup {Len(events'[s])}
         /\ events'[s][Len(events'[s])] = e
<1>1. PICK S : rows \in Seq(S)
  BY DEF Puts, Grows
<1>2. DOMAIN events[s] = 1..Len(events[s]) /\ Len(events[s]) \in Nat
  OBVIOUS
<1>3. DOMAIN rows = DOMAIN events[s] /\ Len(rows) = Len(events[s])
  BY <1>1, <1>2 DEF Puts
<1> DEFINE next == Append(rows, e)
<1>4. /\ next \in Seq(S \cup {e}) /\ Len(next) = Len(rows) + 1
      /\ DOMAIN next = DOMAIN rows \cup {Len(rows) + 1}
      /\ \A n \in DOMAIN rows : next[n] = rows[n]
      /\ next[Len(rows) + 1] = e
  <2>1. next \in Seq(S \cup {e}) /\ Len(next) = Len(rows) + 1
    BY <1>1, AppendProperties
  <2> QED
    BY <1>1, <2>1, AppendShape
<1>5. events'[s] = next
  BY DEF Puts
<1> HIDE DEF next
<1>6. \A n \in DOMAIN events[s] : next[n] = events[s][n] \/ next[n] = Redacted(events[s][n])
  BY <1>3, <1>4 DEF Puts, Grows
<1>7. Len(events[s]) <= Len(next)
  BY <1>2, <1>3, <1>4
<1> QED
  BY <1>2, <1>3, <1>4, <1>5, <1>6, <1>7 DEF Grows

Grown(s) == events'[s] = events[s] \/ \E rows, e : Puts(s, rows, e)

LEMMA NextDoes ==
  ASSUME IInv, [Next]_vars, NEW s \in Store
  PROVE  Grown(s)
<1>1. /\ Tables /\ Callers /\ \A t \in Store : Kept(t)
      /\ \A envelope \in envelopes : Carried(envelope)
  BY DEF IInv, Callers
<1>2. ASSUME NEW t \in Store, NEW expected, Write(t, expected) PROVE Grown(s)
  BY <1>1, <1>2, WriteDoes DEF Grown
<1>3. ASSUME NEW t \in Store, AbandonEpoch(t) PROVE Grown(s)
  BY <1>3 DEF AbandonEpoch, Grown
<1>4. ASSUME NEW t \in Store, NEW d, NEW destination, ExportTransfer(t, d, destination) PROVE Grown(s)
  BY <1>4 DEF ExportTransfer, files, Grown
<1>5. ASSUME NEW p \in Process, Read(p) PROVE Grown(s)
  BY <1>1, <1>5, ReadKeeps DEF files, Grown
<1>6. ASSUME NEW p \in Process, GuardedWrite(p) PROVE Grown(s)
  <2>1. view[p].store \in Store /\ Write(view[p].store, view[p].generation)
    BY <1>1, <1>6 DEF GuardedWrite, Callers, Seen
  <2> QED
    BY <1>2, <2>1
<1>7. ASSUME NEW p \in Process, GenerationMismatch(p) \/ Crash(p) PROVE Grown(s)
  BY <1>7 DEF GenerationMismatch, Crash, files, Grown
<1>8. CASE UNCHANGED vars
  BY <1>8 DEF vars, files, Grown
<1> QED
  BY <1>2, <1>3, <1>4, <1>5, <1>6, <1>7, <1>8 DEF Next

\* Every moment of a store had the shape of a store, and a decision that was
\* revoked got no record since.
NoneSinceRevoked(rows) ==
  \A n, m \in DOMAIN rows :
    /\ rows[n].kind = "revocation" /\ rows[m].kind = "record"
    /\ rows[n].decision = rows[m].decision
    => m < n

Lasting(s) ==
  /\ \A m \in 0..Len(events[s]) : Rows(First(events[s], m))
  /\ NoneSinceRevoked(events[s])

LEMMA GrownLasts ==
  ASSUME NEW s, Kept(s), Kept(s)', Lasting(s), Grown(s)
  PROVE  Lasting(s)' /\ Grows(events[s], events'[s])
<1>1. PICK S : events[s] \in Seq(S)
  BY DEF Kept, Rows
<1>2. CASE events'[s] = events[s]
  BY <1>1, <1>2, SelfGrows DEF Lasting
<1>3. ASSUME NEW rows, NEW e, Puts(s, rows, e)
      PROVE  Lasting(s)' /\ Grows(events[s], events'[s])
  <2> DEFINE was == events[s]
             next == events'[s]
  <2>1. /\ Grows(was, next) /\ Len(was) \in Nat /\ Len(next) = Len(was) + 1
        /\ DOMAIN next = DOMAIN was \cup {Len(next)} /\ next[Len(next)] = e
        /\ DOMAIN was = 1..Len(was)
    BY <1>1, <1>3, PutsGrows
  <2>2. Rows(next) /\ \E T : next \in Seq(T)
    BY DEF Kept, Rows
  <2>3. Rows(was) /\ NoneSinceRevoked(was) /\ \A m \in 0..Len(was) : Rows(First(was, m))
    BY DEF Kept, Lasting
  <2>4. e.kind = "record" => ~Revoked(was, e.decision)
    BY <1>3 DEF Puts
  <2>5. was \in Seq(S)
    BY <1>1
  <2> HIDE DEF was, next
  <2>6. ASSUME NEW m \in 0..Len(next) PROVE Rows(First(next, m))
    <3>1. CASE m = Len(next)
      BY <2>2, <3>1, FirstAll
    <3>2. CASE m # Len(next)
      <4>1. m \in 0..Len(was)
        BY <2>1, <3>2
      <4>2. Rows(First(was, m))
        BY <2>3, <4>1
      <4> QED
        BY <2>1, <2>5, <4>1, <4>2, FirstAlike DEF Alike
    <3> QED
      BY <3>1, <3>2
  <2>7. \A n \in DOMAIN was : next[n].kind = was[n].kind /\ next[n].decision = was[n].decision
    <3>1. ASSUME NEW n \in DOMAIN was
          PROVE  next[n].kind = was[n].kind /\ next[n].decision = was[n].decision
      <4>1. Row(was[n]) /\ (next[n] = was[n] \/ next[n] = Redacted(was[n]))
        BY <2>1, <2>3 DEF Rows, Grows
      <4> QED
        BY <4>1 DEF Row, Redacted
    <3> QED
      BY <3>1
  <2>8. ASSUME NEW n \in DOMAIN next, NEW m \in DOMAIN next,
               next[n].kind = "revocation", next[m].kind = "record",
               next[n].decision = next[m].decision
        PROVE  m < n
    <3>1. CASE n \in DOMAIN was /\ m \in DOMAIN was
      BY <3>1, <2>3, <2>7, <2>8 DEF NoneSinceRevoked
    <3>2. CASE n \in DOMAIN was /\ m = Len(next)
      <4>1. n \in RowsOf(was, "revocation", e.decision) /\ e.kind = "record"
        BY <3>2, <2>1, <2>7, <2>8 DEF RowsOf
      <4> QED
        BY <2>4, <4>1 DEF Revoked
    <3>3. CASE n = Len(next) /\ m \in DOMAIN was
      BY <3>3, <2>1
    <3>4. CASE n = Len(next) /\ m = Len(next)
      BY <3>4, <2>8
    <3> QED
      BY <3>1, <3>2, <3>3, <3>4, <2>1
  <2>9. NoneSinceRevoked(next)
    BY <2>8 DEF NoneSinceRevoked
  <2> QED
    BY <2>1, <2>6, <2>9 DEF Lasting, was, next
<1> QED
  BY <1>2, <1>3 DEF Grown

-----------------------------------------------------------------------------
(* Transfers.  An envelope is made at a moment that its root seal names;   *)
(* that moment stays a prefix of the store, however late the envelope      *)
(* arrives.                                                                *)

Travels(envelope) ==
  /\ {envelope.source, envelope.destination, envelope.record.store} \subseteq Store
  /\ envelope.source # envelope.destination
  /\ FirstHand(envelope)

Imported(s) ==
  \A n \in DOMAIN events[s] :
    events[s][n].origin = "FOREIGN_READ_ONLY" /\ events[s][n].kind = "record" =>
      \E envelope \in envelopes : ImportedAs(envelope, s, events[s][n])

LEMMA FirstHandKept ==
  ASSUME NEW envelope, FirstHand(envelope),
         Kept(envelope.source), Lasting(envelope.source),
         Grows(events[envelope.source], events'[envelope.source])
  PROVE  FirstHand(envelope)'
<1> DEFINE s == envelope.source
           d == envelope.record.decision
           was == events[s]
           next == events'[s]
<1>1. \E S : was \in Seq(S)
  BY DEF Kept, Rows
<1>2. Grows(was, next) /\ \A m \in 0..Len(was) : Rows(First(was, m))
  BY DEF Lasting
<1>3. PICK m \in 0..Len(was) :
        LET rows == First(was, m)
            head == HeadRow(rows, d)
        IN  /\ envelope.root = ChainSeal(s, rows)
            /\ ActiveRevision(rows, d, envelope.record.revision)
            /\ rows[head].origin = "NATIVE"
            /\ rows[head].content = envelope.content
            /\ ~Tombstoned(rows, head)
  BY DEF FirstHand, Prefix, First
<1> DEFINE rows == First(was, m)
           then == First(next, m)
           head == HeadRow(rows, d)
<1>4. Rows(rows) /\ Alike(rows, then) /\ m \in 0..Len(next)
  BY <1>1, <1>2, FirstAlike
<1>5. /\ envelope.root = ChainSeal(s, rows)
      /\ ActiveRevision(rows, d, envelope.record.revision)
      /\ rows[head].origin = "NATIVE" /\ rows[head].content = envelope.content
      /\ ~Tombstoned(rows, head)
  BY <1>3
<1> HIDE DEF was, next, rows, then, head, d, s
<1>6. head \in DOMAIN rows
  BY <1>4, <1>5, HeadIsHighest DEF ActiveRevision, IsHead, RowsOf, head
<1>7. then[head].origin = rows[head].origin /\ then[head].content = rows[head].content
  BY <1>4, <1>6 DEF Alike, SameColumns
<1>8. /\ ChainSeal(s, then) = ChainSeal(s, rows) /\ HeadRow(then, d) = head
      /\ ActiveRevision(then, d, envelope.record.revision)
      /\ ~Tombstoned(then, head)
  BY <1>4, <1>5, <1>6, AlikeReads DEF head
<1>9. /\ envelope.root = ChainSeal(s, then)
      /\ ActiveRevision(then, d, envelope.record.revision)
      /\ then[HeadRow(then, d)].origin = "NATIVE"
      /\ then[HeadRow(then, d)].content = envelope.content
      /\ ~Tombstoned(then, HeadRow(then, d))
  BY <1>5, <1>7, <1>8
<1> QED
  BY <1>4, <1>9 DEF FirstHand, Prefix, First, then, next, s, d

LEMMA ExportIsFirstHand ==
  ASSUME NEW s \in Store, Kept(s), NEW d, NEW destination \in Store,
         ExportTransfer(s, d, destination),
         \A envelope \in envelopes : Travels(envelope),
         \A t \in Store : Kept(t) /\ Lasting(t)
  PROVE  \A envelope \in envelopes' : Travels(envelope)'
<1> DEFINE rows == events[s]
           head == HeadRow(rows, d)
           row == rows[head]
           new == Envelope(s, row, destination)
<1>1. /\ envelopes' = envelopes \cup {new} /\ head # 0 /\ row.origin = "NATIVE"
      /\ ~Revoked(rows, d) /\ ~row.redacted /\ destination # s /\ events' = events
  BY DEF ExportTransfer, files
<1>2. Rows(rows) /\ VerifyOk(s)
  BY DEF Kept
<1>3. PICK S : rows \in Seq(S)
  BY <1>2 DEF Rows
<1>4. /\ new.source = row.payload.store /\ new.root = ChainSeal(s, rows)
      /\ new.content = row.content /\ new.destination = destination /\ new.record = row.payload
  BY DEF Envelope
<1> HIDE DEF head, new
<1>5. head \in DOMAIN rows /\ row.kind = "record" /\ row.decision = d
  BY <1>1, <1>2, HeadIsHighest DEF head, IsHead, RowsOf
<1>6. ~RecordFinding(s, head) /\ Row(row)
  BY <1>2, <1>5 DEF VerifyOk, Rows
<1>7. /\ row.payload.decision = d /\ row.payload.revision = row.revision
      /\ row.payload.store = s /\ ~Tombstoned(rows, head)
  BY <1>1, <1>5, <1>6 DEF RecordFinding, Row, Tombstoned
<1>8. FirstHand(new)
  <2>1. Len(rows) \in 0..Len(rows) /\ Prefix(s, Len(rows)) = rows
    BY <1>3, FirstAll DEF Prefix, First
  <2>2. ActiveRevision(rows, d, row.revision)
    BY <1>1 DEF ActiveRevision, head
  <2>3. new.source = s /\ new.record.decision = d /\ new.record.revision = row.revision
    BY <1>4, <1>7
  <2>4. LET m == Len(rows)
            then == Prefix(s, m)
            top == HeadRow(then, d)
        IN  /\ new.root = ChainSeal(s, then)
            /\ ActiveRevision(then, d, row.revision)
            /\ then[top].origin = "NATIVE"
            /\ then[top].content = new.content
            /\ ~Tombstoned(then, top)
    BY <1>1, <1>4, <1>7, <2>1, <2>2 DEF head
  <2> HIDE DEF rows
  <2> QED
    BY <2>1, <2>3, <2>4 DEF FirstHand, rows
<1>9. Travels(new)
  BY <1>1, <1>4, <1>7, <1>8 DEF Travels
<1>10. \A envelope : Travels(envelope)' <=> Travels(envelope)
  BY <1>1 DEF Travels, FirstHand, Prefix
<1> QED
  BY <1>1, <1>9, <1>10

LEMMA ImportedKept ==
  ASSUME NEW s, Kept(s), Imported(s), Grown(s), envelopes \subseteq envelopes'
  PROVE  Imported(s)'
<1>1. CASE events'[s] = events[s]
  BY <1>1 DEF Imported
<1>2. ASSUME NEW rows, NEW e, Puts(s, rows, e) PROVE Imported(s)'
  <2> DEFINE was == events[s]
             next == events'[s]
  <2>1. /\ Grows(was, next) /\ DOMAIN next = DOMAIN was \cup {Len(next)}
        /\ next[Len(next)] = e
    BY <1>2, PutsGrows DEF Kept, Rows
  <2>2. Rows(was)
    BY DEF Kept
  <2> HIDE DEF was, next
  <2>3. ASSUME NEW n \in DOMAIN next, next[n].origin = "FOREIGN_READ_ONLY", next[n].kind = "record"
        PROVE  \E envelope \in envelopes : ImportedAs(envelope, s, next[n])
    <3>1. CASE n \in DOMAIN was
      <4>1. SameColumns(next[n], was[n])
        <5>1. Row(was[n]) /\ (next[n] = was[n] \/ next[n] = Redacted(was[n]))
          BY <3>1, <2>1, <2>2 DEF Rows, Grows
        <5> QED
          BY <5>1 DEF Row, Redacted, SameColumns
      <4>2. PICK envelope \in envelopes : ImportedAs(envelope, s, was[n])
        BY <2>3, <3>1, <4>1 DEF Imported, SameColumns, was
      <4> QED
        BY <4>1, <4>2 DEF ImportedAs, SameColumns
    <3>2. CASE n = Len(next)
      BY <1>2, <2>1, <2>3, <3>2 DEF Puts
    <3> QED
      BY <3>1, <3>2, <2>1
  <2>4. \A n \in DOMAIN next :
          next[n].origin = "FOREIGN_READ_ONLY" /\ next[n].kind = "record" =>
            \E envelope \in envelopes' : ImportedAs(envelope, s, next[n])
    BY <2>3
  <2> QED
    BY <2>4 DEF Imported, ImportedAs, next
<1> QED
  BY <1>1, <1>2 DEF Grown

Lived ==
  /\ IInv
  /\ \A s \in Store : Lasting(s) /\ Imported(s)
  /\ \A envelope \in envelopes : Travels(envelope)

LEMMA LivedInit == Init => Lived
<1> SUFFICES ASSUME Init PROVE Lived
  OBVIOUS
<1>1. IInv /\ envelopes = {} /\ \A s \in Store : events[s] = <<>> /\ Rows(events[s])
  BY Initially DEF Init, IInv, Kept
<1>2. ASSUME NEW s \in Store PROVE Lasting(s) /\ Imported(s)
  <2>1. events[s] = <<>> /\ Rows(<<>>)
    BY <1>1
  <2>2. <<>> \in Seq({}) /\ Len(<<>>) = 0 /\ DOMAIN <<>> = {}
    OBVIOUS
  <2>3. \A m \in 0..0 : First(<<>>, m) = <<>>
    <3>1. First(<<>>, Len(<<>>)) = <<>>
      BY <2>2, FirstAll
    <3> HIDE DEF First
    <3> QED
      BY <2>2, <3>1
  <2> QED
    BY <2>1, <2>2, <2>3 DEF Lasting, Imported, NoneSinceRevoked
<1> QED
  BY <1>1, <1>2 DEF Lived

\* An envelope is made by an export and by nothing else.
LEMMA EnvelopesNext ==
  ASSUME IInv, [Next]_vars
  PROVE  \/ envelopes' = envelopes
         \/ \E s \in Store, d \in Decision, destination \in Store : ExportTransfer(s, d, destination)
<1>1. /\ Tables /\ Callers /\ \A t \in Store : Kept(t)
      /\ \A envelope \in envelopes : Carried(envelope)
  BY DEF IInv, Callers
<1>2. ASSUME NEW s, NEW expected, Write(s, expected) PROVE envelopes' = envelopes
  BY <1>2 DEF Write, AppendDecision, Revoke, Tombstone, ImportTransfer
<1>3. ASSUME NEW p \in Process, Read(p) PROVE envelopes' = envelopes
  BY <1>1, <1>3, ReadKeeps
<1>4. ASSUME NEW s \in Store, AbandonEpoch(s) PROVE envelopes' = envelopes
  BY <1>4 DEF AbandonEpoch
<1>5. ASSUME NEW p \in Process, GuardedWrite(p) PROVE envelopes' = envelopes
  BY <1>2, <1>5 DEF GuardedWrite
<1>6. ASSUME NEW p \in Process, GenerationMismatch(p) \/ Crash(p) PROVE envelopes' = envelopes
  BY <1>6 DEF GenerationMismatch, Crash
<1>7. CASE UNCHANGED vars
  BY <1>7 DEF vars
<1> QED
  BY <1>2, <1>3, <1>4, <1>5, <1>6, <1>7 DEF Next

LEMMA LivedNext == NoneIsNoPayload /\ Lived /\ [Next]_vars => Lived'
<1> SUFFICES ASSUME NoneIsNoPayload, Lived, [Next]_vars PROVE Lived'
  OBVIOUS
<1>1. /\ IInv /\ IInv' /\ \A s \in Store : Kept(s) /\ Kept(s)' /\ Lasting(s) /\ Imported(s)
      /\ \A envelope \in envelopes : Travels(envelope)
  <2>1. IInv'
    BY Inductive DEF Lived
  <2>2. (\A s \in Store : Kept(s)) /\ (\A s \in Store : Kept(s)')
    BY <2>1 DEF Lived, IInv
  <2> QED
    BY <2>1, <2>2 DEF Lived
<1>2. ASSUME NEW s \in Store PROVE Grown(s) /\ Lasting(s)' /\ Grows(events[s], events'[s])
  BY <1>1, NextDoes, GrownLasts
<1>3. ASSUME NEW envelope \in envelopes PROVE Travels(envelope)'
  <2>1. envelope.source \in Store /\ FirstHand(envelope)
    BY <1>1 DEF Travels
  <2>2. FirstHand(envelope)'
    BY <1>1, <1>2, <2>1, FirstHandKept
  <2> QED
    BY <1>1, <2>2 DEF Travels
<1>4. envelopes \subseteq envelopes' /\ \A envelope \in envelopes' : Travels(envelope)'
  <2>1. CASE envelopes' = envelopes
    BY <2>1, <1>3
  <2>2. ASSUME NEW s \in Store, NEW d \in Decision, NEW destination \in Store,
               ExportTransfer(s, d, destination)
        PROVE  envelopes \subseteq envelopes' /\ \A envelope \in envelopes' : Travels(envelope)'
    <3>1. envelopes \subseteq envelopes'
      BY <2>2 DEF ExportTransfer
    <3> QED
      BY <1>1, <2>2, <3>1, ExportIsFirstHand
  <2> QED
    BY <1>1, <2>1, <2>2, EnvelopesNext
<1>5. ASSUME NEW s \in Store PROVE Imported(s)'
  BY <1>1, <1>2, <1>4, ImportedKept
<1> QED
  BY <1>1, <1>2, <1>4, <1>5 DEF Lived

\* Content crosses once: every envelope that was ever made carries what was
\* the native, unrevoked, unredacted head of the store that it names, at the
\* root seal that it commits to, and every record that a store imported came
\* in such an envelope, from another store and addressed to it (export_transfer,
\* import_transfer).
THEOREM ImportsAreFirstHandHolds ==
  ASSUME NoneIsNoPayload
  PROVE  Spec => []ImportsAreFirstHand
<1>1. Lived => ImportsAreFirstHand
  <2> SUFFICES ASSUME Lived PROVE ImportsAreFirstHand
    OBVIOUS
  <2>1. \A envelope \in envelopes : FirstHand(envelope) /\ envelope.source # envelope.destination
    BY DEF Lived, Travels
  <2>2. \A envelope : SealedEnvelope(TransferSeal(envelope)) = envelope
    BY DEF SealedEnvelope, TransferSeal, Seal
  <2>3. ASSUME NEW s \in Store, NEW n \in DOMAIN events[s],
               events[s][n].origin = "FOREIGN_READ_ONLY", events[s][n].kind = "record"
        PROVE  LET envelope == SealedEnvelope(events[s][n].transfer)
               IN  /\ envelope \in envelopes /\ envelope.content = events[s][n].content
                   /\ envelope.destination = s /\ envelope.source # s
    <3>1. PICK envelope \in envelopes : ImportedAs(envelope, s, events[s][n])
      BY <2>3 DEF Lived, Imported
    <3>2. SealedEnvelope(events[s][n].transfer) = envelope
      BY <2>2, <3>1 DEF ImportedAs
    <3> QED
      BY <2>1, <3>1, <3>2 DEF ImportedAs
  <2> QED
    BY <2>1, <2>3 DEF ImportsAreFirstHand
<1>2. Lived /\ [Next]_vars => Lived'
  BY LivedNext
<1> QED
  BY LivedInit, <1>1, <1>2, PTL DEF Spec

-----------------------------------------------------------------------------
(* Types.                                                                  *)

RowsFit(s) ==
  /\ Len(events[s]) <= MaxEvents
  /\ \A n \in DOMAIN events[s] :
       /\ events[s][n].decision \in Decision /\ events[s][n].revision \in 1..MaxRevision
       /\ events[s][n].origin \in {"NATIVE", "FOREIGN_READ_ONLY"}

EnvelopeFits(envelope) ==
  envelope.record.decision \in Decision /\ envelope.record.revision \in 1..MaxRevision

Typed ==
  /\ \A s \in Store : RowsFit(s) /\ epoch_status[s] \in {"open", "abandoned"}
  /\ \A envelope \in envelopes : EnvelopeFits(envelope)

LEMMA RowsFitKept ==
  ASSUME NEW s, Kept(s), RowsFit(s), Grown(s), \A envelope \in envelopes : EnvelopeFits(envelope)
  PROVE  RowsFit(s)'
<1>1. CASE events'[s] = events[s]
  BY <1>1 DEF RowsFit
<1>2. ASSUME NEW rows, NEW e, Puts(s, rows, e) PROVE RowsFit(s)'
  <2> DEFINE was == events[s]
             next == events'[s]
  <2>1. /\ Grows(was, next) /\ Len(was) \in Nat /\ Len(next) = Len(was) + 1
        /\ DOMAIN next = DOMAIN was \cup {Len(next)} /\ next[Len(next)] = e
    BY <1>2, PutsGrows DEF Kept, Rows
  <2>2. Rows(was) /\ RowsFit(s)
    BY DEF Kept
  <2>3. /\ e.decision \in Decision /\ e.revision \in 1..MaxRevision
        /\ e.origin \in {"NATIVE", "FOREIGN_READ_ONLY"}
    <3>1. CASE e.kind # "record"
      BY <1>2, <2>2, <3>1 DEF Puts, About, RowsFit
    <3>2. CASE e.kind = "record" /\ e.origin = "NATIVE"
      BY <1>2, <3>2 DEF Puts
    <3>3. CASE e.kind = "record" /\ e.origin # "NATIVE"
      BY <1>2, <3>3 DEF Puts, ImportedAs, EnvelopeFits
    <3> QED
      BY <3>1, <3>2, <3>3
  <2>4. Len(next) <= MaxEvents
    BY <1>2, <2>1, BoundsAssumption DEF Puts
  <2>5. was = events[s] /\ next = events'[s]
    OBVIOUS
  <2> HIDE DEF was, next
  <2>6. ASSUME NEW n \in DOMAIN was PROVE SameColumns(next[n], was[n])
    <3>1. Row(was[n]) /\ (next[n] = was[n] \/ next[n] = Redacted(was[n]))
      BY <2>1, <2>2 DEF Rows, Grows
    <3> QED
      BY <3>1 DEF Row, Redacted, SameColumns
  <2>7. ASSUME NEW n \in DOMAIN next
        PROVE  /\ next[n].decision \in Decision /\ next[n].revision \in 1..MaxRevision
               /\ next[n].origin \in {"NATIVE", "FOREIGN_READ_ONLY"}
    <3>1. CASE n = Len(next)
      BY <3>1, <2>1, <2>3
    <3>2. CASE n \in DOMAIN was
      BY <3>2, <2>2, <2>5, <2>6 DEF RowsFit, SameColumns
    <3> QED
      BY <3>1, <3>2, <2>1
  <2> QED
    BY <2>4, <2>5, <2>7 DEF RowsFit
<1> QED
  BY <1>1, <1>2 DEF Grown

LEMMA EpochNext ==
  ASSUME IInv, [Next]_vars
  PROVE  \/ epoch_status' = epoch_status
         \/ \E s \in Store : epoch_status' = [epoch_status EXCEPT ![s] = "abandoned"]
<1>1. Callers
  BY DEF IInv, Callers
<1>2. ASSUME NEW s, NEW expected, Write(s, expected) PROVE epoch_status' = epoch_status
  BY <1>2 DEF Write, AppendDecision, Revoke, Tombstone, ImportTransfer
<1>3. ASSUME NEW p \in Process, Read(p) PROVE epoch_status' = epoch_status
  BY <1>1, <1>3, ReadKeeps DEF files
<1>4. ASSUME NEW s \in Store, NEW d, NEW t, ExportTransfer(s, d, t)
      PROVE  epoch_status' = epoch_status
  BY <1>4 DEF ExportTransfer, files
<1>5. ASSUME NEW p \in Process, GuardedWrite(p) PROVE epoch_status' = epoch_status
  BY <1>2, <1>5 DEF GuardedWrite
<1>6. ASSUME NEW p \in Process, GenerationMismatch(p) \/ Crash(p)
      PROVE  epoch_status' = epoch_status
  BY <1>6 DEF GenerationMismatch, Crash, files
<1>7. CASE UNCHANGED vars
  BY <1>7 DEF vars, files
<1>8. ASSUME NEW s \in Store, AbandonEpoch(s)
      PROVE  epoch_status' = [epoch_status EXCEPT ![s] = "abandoned"]
  BY <1>8 DEF AbandonEpoch
<1> QED
  BY <1>2, <1>3, <1>4, <1>5, <1>6, <1>7, <1>8 DEF Next

LEMMA ExportFits ==
  ASSUME NEW s \in Store, Kept(s), RowsFit(s), NEW d, NEW destination,
         ExportTransfer(s, d, destination), \A envelope \in envelopes : EnvelopeFits(envelope)
  PROVE  \A envelope \in envelopes' : EnvelopeFits(envelope)
<1> DEFINE rows == events[s]
           head == HeadRow(rows, d)
           row == rows[head]
           new == Envelope(s, row, destination)
<1>1. envelopes' = envelopes \cup {new} /\ head # 0 /\ ~row.redacted
  BY DEF ExportTransfer
<1>2. Rows(rows) /\ VerifyOk(s)
  BY DEF Kept
<1> HIDE DEF head
<1>3. head \in DOMAIN rows /\ row.kind = "record"
  BY <1>1, <1>2, HeadIsHighest DEF head, IsHead, RowsOf
<1>4. ~RecordFinding(s, head) /\ Row(row)
  BY <1>2, <1>3 DEF VerifyOk, Rows
<1>5. row.payload.decision = row.decision /\ row.payload.revision = row.revision
  BY <1>1, <1>4 DEF RecordFinding, Row
<1>6. EnvelopeFits(new)
  BY <1>3, <1>5 DEF EnvelopeFits, Envelope, RowsFit
<1> QED
  BY <1>1, <1>6

LEMMA TypedNext == Lived /\ Lived' /\ Typed /\ [Next]_vars => Typed'
<1> SUFFICES ASSUME Lived, Lived', Typed, [Next]_vars PROVE Typed'
  OBVIOUS
<1>1. IInv /\ Tables /\ \A s \in Store : Kept(s)
  BY DEF Lived, IInv
<1>2. ASSUME NEW s \in Store PROVE RowsFit(s)'
  BY <1>1, NextDoes, RowsFitKept DEF Typed
<1>3. \A s \in Store : epoch_status'[s] \in {"open", "abandoned"}
  BY <1>1, EpochNext DEF Typed, Tables
<1>4. \A envelope \in envelopes' : EnvelopeFits(envelope)
  <2>1. ASSUME NEW s \in Store, NEW d, NEW t, ExportTransfer(s, d, t)
        PROVE  \A envelope \in envelopes' : EnvelopeFits(envelope)
    BY <1>1, <2>1, ExportFits DEF Typed
  <2> QED
    BY <1>1, <2>1, EnvelopesNext DEF Typed
<1> QED
  BY <1>2, <1>3, <1>4 DEF Typed, EnvelopeFits

LEMMA TypedInit == Init => Typed
  BY BoundsAssumption DEF Init, Typed, RowsFit

-----------------------------------------------------------------------------
(* Reads of several statements.  What a caller has read so far is about    *)
(* prefixes of a store, or about the whole store as long as nothing was    *)
(* written since the first statement; prefixes stay what they were.        *)

\* None is none of the things that a caller remembers.
NoneIsNoView ==
  /\ None \notin Nat
  /\ \A s, g, r, t : [store |-> s, generation |-> g, records |-> r, root |-> t] # None
  /\ \A s, f, t, row : [store |-> s, from |-> f, as_of |-> t, row |-> row] # None
  /\ \A s, f, t, ds : [store |-> s, from |-> f, as_of |-> t, revoked |-> ds] # None

StatusFits(held, step, v) ==
  /\ v = [store |-> v.store, generation |-> v.generation, records |-> v.records, root |-> v.root]
  /\ v.store \in Store /\ v.generation \in 0..Len(held[v.store])
  /\ Len(held[v.store]) = v.generation =>
       /\ step # "counted" => v.records = RecordCount(held[v.store])
       /\ step = "informed" => v.root = ChainSeal(v.store, held[v.store])

Had(rows, d, r) == HeadRow(rows, d) # 0 /\ rows[HeadRow(rows, d)].revision = r

HeadFits(held, v) ==
  /\ v.store \in Store /\ v.from \in 0..Len(held[v.store])
  /\ Had(First(held[v.store], v.from), v.row.decision, v.row.revision)

ListFits(held, v) ==
  /\ v.store \in Store /\ v.from \in 0..Len(held[v.store])
  /\ v.revoked = {d \in Decision : Revoked(First(held[v.store], v.from), d)}

CallFits(held, step, v) ==
  /\ step \in {"idle", "counted", "recorded", "informed", "headed", "listing"}
  /\ step = "idle" <=> v = None
  /\ step \in {"counted", "recorded", "informed"} => StatusFits(held, step, v)
  /\ step = "headed" => HeadFits(held, v)
  /\ step = "listing" => ListFits(held, v)

ReadFits(held, a) ==
  /\ a.store \in Store /\ a.from \in Nat /\ a.to \in 0..Len(held[a.store])
  /\ \A row \in a.rows : \E n \in a.from..a.to :
       ActiveRevision(First(held[a.store], n), row.decision, row.revision)

GuardFits(held, a) ==
  LET before == First(held[a.store], a.seq - 1)
  IN  /\ a.store \in Store /\ a.seq \in 1..Len(held[a.store])
      /\ a.seen.generation = Len(before)
      /\ a.seen.records = RecordCount(before)
      /\ a.seen.root = ChainSeal(a.store, before)

AnswerFits(held, a) ==
  a # None =>
    /\ a.op \in {"get", "list"} => ReadFits(held, a)
    /\ a.op = "write" => GuardFits(held, a)

\* Every store of next is what it was in held, or grew.
Onward(held, next) ==
  \A s \in Store :
    /\ \E S : held[s] \in Seq(S)
    /\ \A m \in 0..Len(held[s]) : Rows(First(held[s], m))
    /\ Grows(held[s], next[s])

LEMMA OnwardFirst ==
  ASSUME NEW held, NEW next, Onward(held, next), NEW s \in Store
  PROVE  /\ Len(held[s]) \in Nat /\ Len(next[s]) \in Nat /\ Len(held[s]) <= Len(next[s])
         /\ \A m \in 0..Len(held[s]) :
              m \in 0..Len(next[s]) /\ Alike(First(held[s], m), First(next[s], m))
<1>1. /\ \E S : held[s] \in Seq(S)
      /\ \E T : next[s] \in Seq(T)
      /\ Grows(held[s], next[s])
      /\ \A m \in 0..Len(held[s]) : Rows(First(held[s], m))
  BY DEF Onward, Grows
<1>2. Len(held[s]) \in Nat /\ Len(next[s]) \in Nat
  BY <1>1
<1>3. Len(held[s]) <= Len(next[s])
  BY <1>1 DEF Grows
<1>4. ASSUME NEW m \in 0..Len(held[s])
      PROVE  m \in 0..Len(next[s]) /\ Alike(First(held[s], m), First(next[s], m))
  BY <1>1, FirstAlike
<1> QED
  BY <1>2, <1>3, <1>4

LEMMA HadLasts ==
  ASSUME NEW rows, NEW next, Alike(rows, next), NEW d, NEW r, Had(rows, d, r)
  PROVE  Had(next, d, r)
<1>1. HeadRow(next, d) = HeadRow(rows, d) /\ HeadRow(rows, d) # 0
  BY AlikeReads DEF Had
<1>2. HeadRow(rows, d) \in DOMAIN rows
  BY <1>1, HeadIsHighest DEF Alike, IsHead, RowsOf
<1> QED
  BY <1>1, <1>2 DEF Had, Alike, SameColumns

LEMMA CallLasts ==
  ASSUME NEW held, NEW next, Onward(held, next), NEW step, NEW v, CallFits(held, step, v)
  PROVE  CallFits(next, step, v)
<1>1. ASSUME StatusFits(held, step, v) PROVE StatusFits(next, step, v)
  <2> DEFINE s == v.store
             rows == held[s]
             then == next[s]
  <2>1. s \in Store /\ v.generation \in 0..Len(rows)
    BY <1>1 DEF StatusFits
  <2>2. /\ Len(rows) \in Nat /\ Len(then) \in Nat /\ Len(rows) <= Len(then)
        /\ Alike(First(rows, Len(rows)), First(then, Len(rows)))
    BY <2>1, OnwardFirst
  <2>3. (\E S : rows \in Seq(S)) /\ (\E S : then \in Seq(S))
    BY <2>1 DEF Onward, Grows
  <2>4. v.generation \in 0..Len(then)
    BY <2>1, <2>2
  <2>5. /\ v = [store |-> s, generation |-> v.generation, records |-> v.records, root |-> v.root]
        /\ Len(rows) = v.generation =>
             /\ step # "counted" => v.records = RecordCount(rows)
             /\ step = "informed" => v.root = ChainSeal(s, rows)
    BY <1>1 DEF StatusFits
  <2>6. ASSUME Len(then) = v.generation
        PROVE  /\ step # "counted" => v.records = RecordCount(then)
               /\ step = "informed" => v.root = ChainSeal(s, then)
    <3> HIDE DEF rows, then, s
    <3>1. Len(rows) = Len(then) /\ Len(rows) = v.generation
      BY <2>1, <2>2, <2>6
    <3>2. First(rows, Len(rows)) = rows /\ First(then, Len(rows)) = then
      BY <2>3, <3>1, FirstAll
    <3>3. Alike(rows, then)
      BY <2>2, <3>2
    <3> QED
      BY <2>5, <3>1, <3>3, AlikeReads
  <2> QED
    BY <2>1, <2>4, <2>5, <2>6 DEF StatusFits
<1>2. ASSUME HeadFits(held, v) PROVE HeadFits(next, v)
  BY <1>2, OnwardFirst, HadLasts DEF HeadFits
<1>3. ASSUME ListFits(held, v) PROVE ListFits(next, v)
  <2>1. /\ v.store \in Store /\ v.from \in 0..Len(held[v.store])
        /\ v.revoked = {d \in Decision : Revoked(First(held[v.store], v.from), d)}
    BY <1>3 DEF ListFits
  <2>2. /\ v.from \in 0..Len(next[v.store])
        /\ Alike(First(held[v.store], v.from), First(next[v.store], v.from))
    BY <2>1, OnwardFirst
  <2>3. \A d : Revoked(First(next[v.store], v.from), d) <=> Revoked(First(held[v.store], v.from), d)
    BY <2>2, AlikeReads
  <2>4. v.revoked = {d \in Decision : Revoked(First(next[v.store], v.from), d)}
    BY <2>1, <2>3
  <2> QED
    BY <2>1, <2>2, <2>4 DEF ListFits
<1> QED
  BY <1>1, <1>2, <1>3 DEF CallFits

LEMMA AnswerLasts ==
  ASSUME NEW held, NEW next, Onward(held, next), NEW a, AnswerFits(held, a)
  PROVE  AnswerFits(next, a)
<1>1. ASSUME ReadFits(held, a) PROVE ReadFits(next, a)
  <2>1. /\ a.store \in Store /\ a.from \in Nat /\ a.to \in 0..Len(held[a.store])
        /\ Len(held[a.store]) \in Nat
        /\ \A m \in 0..Len(held[a.store]) :
             m \in 0..Len(next[a.store]) /\ Alike(First(held[a.store], m), First(next[a.store], m))
    BY <1>1, OnwardFirst DEF ReadFits
  <2>2. ASSUME NEW row \in a.rows
        PROVE  \E n \in a.from..a.to :
                 ActiveRevision(First(next[a.store], n), row.decision, row.revision)
    <3>1. PICK n \in a.from..a.to :
            ActiveRevision(First(held[a.store], n), row.decision, row.revision)
      BY <1>1 DEF ReadFits
    <3>2. n \in 0..Len(held[a.store])
      BY <2>1
    <3>3. Alike(First(held[a.store], n), First(next[a.store], n))
      BY <2>1, <3>2
    <3> QED
      BY <3>1, <3>3, AlikeReads
  <2>3. a.to \in 0..Len(next[a.store])
    BY <2>1
  <2> QED
    BY <2>1, <2>2, <2>3 DEF ReadFits
<1>2. ASSUME GuardFits(held, a) PROVE GuardFits(next, a)
  <2> DEFINE before == First(held[a.store], a.seq - 1)
             then == First(next[a.store], a.seq - 1)
  <2>1. /\ a.store \in Store /\ a.seq \in 1..Len(held[a.store])
        /\ a.seen.generation = Len(before) /\ a.seen.records = RecordCount(before)
        /\ a.seen.root = ChainSeal(a.store, before)
    BY <1>2 DEF GuardFits
  <2>2. /\ Len(held[a.store]) \in Nat /\ Len(next[a.store]) \in Nat
        /\ Len(held[a.store]) <= Len(next[a.store])
        /\ \A m \in 0..Len(held[a.store]) : Alike(First(held[a.store], m), First(next[a.store], m))
    BY <2>1, OnwardFirst
  <2>3. a.seq - 1 \in 0..Len(held[a.store]) /\ a.seq \in 1..Len(next[a.store])
    BY <2>1, <2>2
  <2>4. Alike(before, then)
    BY <2>2, <2>3
  <2>5. (\E S : before \in Seq(S)) /\ (\E S : then \in Seq(S)) /\ DOMAIN before = DOMAIN then
    BY <2>4 DEF Alike, Rows
  <2>6. RecordCount(then) = RecordCount(before) /\ ChainSeal(a.store, then) = ChainSeal(a.store, before)
    BY <2>4, AlikeReads
  <2> HIDE DEF before, then
  <2>7. Len(before) = Len(then)
    BY <2>5
  <2> QED
    BY <2>1, <2>3, <2>6, <2>7 DEF GuardFits, then
<1> QED
  BY <1>1, <1>2 DEF AnswerFits

Calls ==
  /\ DOMAIN answer = Process
  /\ \A p \in Process : CallFits(events, pc[p], view[p]) /\ AnswerFits(events, answer[p])

Timely == Lived /\ Typed /\ Calls

\* A decision that was not revoked at the first statement of a call and has
\* a head at the last one: that head was unrevoked at some moment between.
LEMMA UnrevokedBetween ==
  ASSUME NEW s, Kept(s), Lasting(s), NEW from \in 0..Len(events[s]), NEW d,
         ~Revoked(First(events[s], from), d), HeadRow(events[s], d) # 0
  PROVE  \E n \in from..Len(events[s]) :
           ActiveRevision(First(events[s], n), d, events[s][HeadRow(events[s], d)].revision)
<1> DEFINE rows == events[s]
           head == HeadRow(rows, d)
<1>1. PICK S : rows \in Seq(S)
  BY DEF Kept, Rows
<1>2. /\ Rows(rows) /\ NoneSinceRevoked(rows) /\ Len(rows) \in Nat /\ DOMAIN rows = 1..Len(rows)
      /\ \A m \in 0..Len(rows) : Rows(First(rows, m))
  BY <1>1 DEF Kept, Lasting
<1>3. IsHead(rows, d, head) /\ head # 0
  BY <1>2, HeadIsHighest DEF IsHead
<1>4. from \in 0..Len(rows) /\ ~Revoked(First(rows, from), d)
  OBVIOUS
<1> HIDE DEF rows, head
<1>5. CASE ~Revoked(rows, d)
  <2>1. First(rows, Len(rows)) = rows /\ Len(rows) \in from..Len(rows)
    BY <1>1, <1>2, <1>4, FirstAll
  <2>2. ActiveRevision(rows, d, rows[head].revision)
    BY <1>3, <1>5 DEF ActiveRevision, head
  <2> QED
    BY <2>1, <2>2 DEF rows, head
<1>6. CASE Revoked(rows, d)
  <2>1. PICK k \in DOMAIN rows : rows[k].kind = "revocation" /\ rows[k].decision = d
    BY <1>6 DEF Revoked, RowsOf
  <2>2. k \in 1..Len(rows) /\ k - 1 \in 0..Len(rows)
    BY <1>2, <2>1
  <2>3. ASSUME k <= from PROVE FALSE
    <3>1. /\ DOMAIN First(rows, from) = 1..from
          /\ \A n \in 1..from : First(rows, from)[n] = rows[n]
      BY <1>1, <1>4, FirstShape
    <3>2. k \in 1..from
      BY <1>2, <1>4, <2>2, <2>3
    <3>3. k \in RowsOf(First(rows, from), "revocation", d)
      BY <2>1, <3>1, <3>2 DEF RowsOf
    <3> QED
      BY <1>4, <3>3 DEF Revoked
  <2>4. k - 1 \in from..Len(rows)
    BY <1>2, <1>4, <2>2, <2>3
  <2> DEFINE then == First(rows, k - 1)
  <2>5. /\ DOMAIN then = 1..(k - 1) /\ 1..(k - 1) \subseteq DOMAIN rows
        /\ \A n \in 1..(k - 1) : then[n] = rows[n]
    BY <1>1, <2>2, FirstShape
  <2>6. Rows(then)
    BY <1>2, <2>2
  <2> HIDE DEF then
  <2>7. ~Revoked(then, d)
    <3> SUFFICES ASSUME NEW n \in RowsOf(then, "revocation", d) PROVE FALSE
      BY DEF Revoked
    <3>1. /\ n \in 1..(k - 1) /\ n \in DOMAIN rows
          /\ rows[n].kind = "revocation" /\ rows[n].decision = d
      BY <2>5 DEF RowsOf
    <3>2. EventId(rows[n]) = EventId(rows[k])
      BY <2>1, <3>1 DEF EventId
    <3>3. n = k
      BY <1>2, <2>1, <3>1, <3>2 DEF Rows
    <3> QED
      BY <2>2, <3>1, <3>3
  <2>8. head \in 1..(k - 1)
    <3>1. head \in DOMAIN rows /\ rows[head].kind = "record" /\ rows[head].decision = d
      BY <1>3 DEF IsHead, RowsOf
    <3>2. head < k
      BY <1>2, <2>1, <3>1 DEF NoneSinceRevoked
    <3> QED
      BY <1>2, <2>2, <3>1, <3>2
  <2>9. IsHead(then, d, head)
    <3>1. \A m \in RowsOf(then, "record", d) : m \in RowsOf(rows, "record", d) /\ then[m] = rows[m]
      BY <2>5 DEF RowsOf
    <3>2. head \in RowsOf(then, "record", d) /\ then[head] = rows[head]
      BY <1>3, <2>5, <2>8 DEF IsHead, RowsOf
    <3> QED
      BY <1>3, <3>1, <3>2 DEF IsHead
  <2>10. HeadRow(then, d) = head /\ then[head] = rows[head]
    BY <2>5, <2>6, <2>8, <2>9, OneHead
  <2>11. ActiveRevision(then, d, rows[head].revision)
    BY <1>3, <2>7, <2>10 DEF ActiveRevision
  <2> QED
    BY <2>4, <2>11 DEF then, rows, head
<1> QED
  BY <1>5, <1>6

\* What was not revoked at the last statement was not at the first.
LEMMA UnrevokedBefore ==
  ASSUME NEW rows, NEW S, rows \in Seq(S), NEW m \in 0..Len(rows), NEW d, ~Revoked(rows, d)
  PROVE  ~Revoked(First(rows, m), d)
<1>1. /\ DOMAIN First(rows, m) = 1..m /\ 1..m \subseteq DOMAIN rows
      /\ \A n \in 1..m : First(rows, m)[n] = rows[n]
  BY FirstShape
<1> SUFFICES ASSUME NEW n \in RowsOf(First(rows, m), "revocation", d) PROVE FALSE
  BY DEF Revoked
<1>2. n \in RowsOf(rows, "revocation", d)
  BY <1>1 DEF RowsOf
<1> QED
  BY <1>2 DEF Revoked

\* A step of one process touches what that process remembers and was told.
LEMMA CallStep ==
  ASSUME Calls, DOMAIN pc = Process, DOMAIN view = Process, Onward(events, events'),
         NEW p \in Process, NEW step, NEW v,
         pc' = [pc EXCEPT ![p] = step], view' = [view EXCEPT ![p] = v],
         DOMAIN answer' = Process, \A q \in Process \ {p} : answer'[q] = answer[q],
         CallFits(events', step, v), AnswerFits(events', answer'[p])
  PROVE  Calls'
<1>1. pc'[p] = step /\ view'[p] = v
  OBVIOUS
<1>2. ASSUME NEW q \in Process
      PROVE  CallFits(events', pc'[q], view'[q]) /\ AnswerFits(events', answer'[q])
  <2>1. CASE q = p
    BY <1>1, <2>1
  <2>2. CASE q # p
    <3>1. pc'[q] = pc[q] /\ view'[q] = view[q] /\ answer'[q] = answer[q]
      BY <2>2
    <3>2. CallFits(events, pc[q], view[q]) /\ AnswerFits(events, answer[q])
      BY DEF Calls
    <3> QED
      BY <3>1, <3>2, CallLasts, AnswerLasts
  <2> QED
    BY <2>1, <2>2
<1> QED
  BY <1>2 DEF Calls, CallFits, AnswerFits

LEMMA OnwardNext ==
  ASSUME Lived, Lived', [Next]_vars
  PROVE  Onward(events, events')
<1>1. IInv /\ \A s \in Store : Kept(s) /\ Lasting(s)
  BY DEF Lived, IInv
<1>2. \A s \in Store : Kept(s)'
  BY DEF Lived, IInv
<1>3. ASSUME NEW s \in Store
      PROVE  /\ \E S : events[s] \in Seq(S)
             /\ \A m \in 0..Len(events[s]) : Rows(First(events[s], m))
             /\ Grows(events[s], events'[s])
  <2>1. Grown(s)
    BY <1>1, NextDoes
  <2>2. Grows(events[s], events'[s])
    BY <1>1, <1>2, <2>1, GrownLasts
  <2> QED
    BY <1>1, <2>2 DEF Kept, Rows, Lasting
<1> QED
  BY <1>3 DEF Onward

\* A statement that is not the last of its call.
LEMMA CallGoesOn ==
  ASSUME Calls, DOMAIN pc = Process, DOMAIN view = Process, Onward(events, events'),
         events' = events, NEW p \in Process, NEW step, NEW v, Goto(p, step), Keep(p, v),
         answer' = answer, CallFits(events, step, v)
  PROVE  Calls'
<1>1. pc' = [pc EXCEPT ![p] = step] /\ view' = [view EXCEPT ![p] = v]
  BY DEF Goto, Keep
<1>2. DOMAIN answer' = Process /\ AnswerFits(events', answer'[p])
  BY DEF Calls, AnswerFits
<1> QED
  BY <1>1, <1>2, CallStep

\* The end of a call.
LEMMA CallReturns ==
  ASSUME Calls, DOMAIN pc = Process, DOMAIN view = Process, Onward(events, events'),
         NEW p \in Process, NEW a, Return(p, a), AnswerFits(events', a)
  PROVE  Calls'
<1>1. pc' = [pc EXCEPT ![p] = "idle"] /\ view' = [view EXCEPT ![p] = None]
  BY DEF Return, Goto, Keep
<1>2. DOMAIN answer' = Process /\ answer'[p] = a /\ \A q \in Process \ {p} : answer'[q] = answer[q]
  BY DEF Return, Calls
<1>3. CallFits(events', "idle", None)
  BY DEF CallFits
<1> QED
  BY <1>1, <1>2, <1>3, CallStep

\* What a step that no reader takes leaves them.
LEMMA CallsWait ==
  ASSUME Calls, Onward(events, events'), UNCHANGED callers
  PROVE  Calls'
<1>1. pc' = pc /\ view' = view /\ answer' = answer
  BY DEF callers
<1>2. ASSUME NEW q \in Process
      PROVE  CallFits(events', pc[q], view[q]) /\ AnswerFits(events', answer[q])
  BY CallLasts, AnswerLasts DEF Calls
<1> QED
  BY <1>1, <1>2 DEF Calls, CallFits, AnswerFits

\* The status reads its generation first: what it reads next is about the
\* store at that generation, unless the store is at another one by then.
LEMMA StatusStepFits ==
  ASSUME NoneIsNoView, Calls, NEW p \in Process, \A s \in Store : \E S : events[s] \in Seq(S)
  PROVE  /\ \A s \in Store :
              CallFits(events, "counted", [store |-> s, generation |-> Len(events[s]),
                                           records |-> 0, root |-> None])
         /\ pc[p] = "counted" =>
              CallFits(events, "recorded",
                       [view[p] EXCEPT !.records = RecordCount(events[view[p].store])])
         /\ pc[p] = "recorded" =>
              CallFits(events, "informed",
                       [view[p] EXCEPT !.root = ChainSeal(view[p].store, events[view[p].store])])
<1>1. ASSUME NEW s \in Store
      PROVE  CallFits(events, "counted", [store |-> s, generation |-> Len(events[s]),
                                          records |-> 0, root |-> None])
  <2> DEFINE v == [store |-> s, generation |-> Len(events[s]), records |-> 0, root |-> None]
  <2>1. v # None
    BY DEF NoneIsNoView
  <2>2. Len(events[s]) \in 0..Len(events[s])
    OBVIOUS
  <2>3. v.store = s /\ v.generation = Len(events[s]) /\ v.records = 0 /\ v.root = None
    OBVIOUS
  <2>4. StatusFits(events, "counted", v)
    BY <2>2, <2>3 DEF StatusFits
  <2> HIDE DEF v
  <2>5. CallFits(events, "counted", v)
    BY <2>1, <2>4 DEF CallFits
  <2> QED
    BY <2>5 DEF v
<1>2. ASSUME pc[p] = "counted"
      PROVE  CallFits(events, "recorded",
                      [view[p] EXCEPT !.records = RecordCount(events[view[p].store])])
  <2> DEFINE was == view[p]
             s == was.store
             c == RecordCount(events[s])
             v == [was EXCEPT !.records = c]
  <2>1. StatusFits(events, "counted", was)
    BY <1>2 DEF Calls, CallFits
  <2> HIDE DEF was, c
  <2>2. was = [store |-> s, generation |-> was.generation, records |-> was.records, root |-> was.root]
    BY <2>1 DEF StatusFits
  <2>3. v = [store |-> s, generation |-> was.generation, records |-> c, root |-> was.root]
    BY <2>2
  <2>4. v # None
    BY <2>3 DEF NoneIsNoView
  <2>5. /\ v.store = s /\ v.generation = was.generation /\ v.records = c
        /\ v = [store |-> v.store, generation |-> v.generation, records |-> v.records, root |-> v.root]
    BY <2>3
  <2> HIDE DEF v
  <2>6. StatusFits(events, "recorded", v)
    BY <2>1, <2>5 DEF StatusFits, c
  <2>7. CallFits(events, "recorded", v)
    BY <2>4, <2>6 DEF CallFits
  <2> QED
    BY <2>7 DEF v, was, c
<1>3. ASSUME pc[p] = "recorded"
      PROVE  CallFits(events, "informed",
                      [view[p] EXCEPT !.root = ChainSeal(view[p].store, events[view[p].store])])
  <2> DEFINE was == view[p]
             s == was.store
             c == ChainSeal(s, events[s])
             v == [was EXCEPT !.root = c]
  <2>1. StatusFits(events, "recorded", was)
    BY <1>3 DEF Calls, CallFits
  <2> HIDE DEF was, c
  <2>2. was = [store |-> s, generation |-> was.generation, records |-> was.records, root |-> was.root]
    BY <2>1 DEF StatusFits
  <2>3. v = [store |-> s, generation |-> was.generation, records |-> was.records, root |-> c]
    BY <2>2
  <2>4. v # None
    BY <2>3 DEF NoneIsNoView
  <2>5. /\ v.store = s /\ v.generation = was.generation /\ v.records = was.records /\ v.root = c
        /\ v = [store |-> v.store, generation |-> v.generation, records |-> v.records, root |-> v.root]
    BY <2>3
  <2> HIDE DEF v
  <2>6. StatusFits(events, "informed", v)
    BY <2>1, <2>5 DEF StatusFits, c
  <2>7. CallFits(events, "informed", v)
    BY <2>4, <2>6 DEF CallFits
  <2> QED
    BY <2>7 DEF v, was, c
<1> QED
  BY <1>1, <1>2, <1>3

\* The first statement of get_active and of list_active.
LEMMA FirstStatementFits ==
  ASSUME NoneIsNoView, NEW s \in Store, Rows(events[s]), NEW as_of
  PROVE  /\ \A d : LET head == HeadRow(events[s], d)
                   IN  head # 0 =>
                         CallFits(events, "headed", [store |-> s, from |-> Len(events[s]),
                                                     as_of |-> as_of, row |-> events[s][head]])
         /\ CallFits(events, "listing", [store |-> s, from |-> Len(events[s]), as_of |-> as_of,
                                         revoked |-> {d \in Decision : Revoked(events[s], d)}])
<1> DEFINE rows == events[s]
           now == Len(rows)
<1>1. PICK S : rows \in Seq(S)
  BY DEF Rows
<1>2. now \in 0..now /\ First(rows, now) = rows
  BY <1>1, FirstAll
<1>3. Rows(rows) /\ rows = events[s] /\ now = Len(rows)
  OBVIOUS
<1> HIDE DEF rows, now
<1>4. ASSUME NEW d, HeadRow(rows, d) # 0
      PROVE  CallFits(events, "headed", [store |-> s, from |-> now, as_of |-> as_of,
                                         row |-> rows[HeadRow(rows, d)]])
  <2> DEFINE row == rows[HeadRow(rows, d)]
             v == [store |-> s, from |-> now, as_of |-> as_of, row |-> row]
  <2>1. row.decision = d
    BY <1>3, <1>4, HeadIsHighest DEF IsHead, RowsOf
  <2>2. Had(rows, d, row.revision)
    BY <1>4 DEF Had
  <2> HIDE DEF row
  <2>3. v # None /\ v.store = s /\ v.from = now /\ v.row = row
    BY DEF NoneIsNoView
  <2> HIDE DEF v
  <2>4. HeadFits(events, v)
    BY <1>2, <1>3, <2>1, <2>2, <2>3 DEF HeadFits
  <2>5. CallFits(events, "headed", v)
    BY <2>3, <2>4 DEF CallFits
  <2> QED
    BY <2>5 DEF v, row
<1>5. CallFits(events, "listing", [store |-> s, from |-> now, as_of |-> as_of,
                                   revoked |-> {d \in Decision : Revoked(rows, d)}])
  <2> DEFINE ds == {d \in Decision : Revoked(rows, d)}
             v == [store |-> s, from |-> now, as_of |-> as_of, revoked |-> ds]
  <2> HIDE DEF ds
  <2>1. v # None /\ v.store = s /\ v.from = now /\ v.revoked = ds
    BY DEF NoneIsNoView
  <2> HIDE DEF v
  <2>2. ListFits(events, v)
    BY <1>2, <1>3, <2>1 DEF ListFits, ds
  <2>3. CallFits(events, "listing", v)
    BY <2>1, <2>2 DEF CallFits
  <2> QED
    BY <2>3 DEF v, ds
<1> QED
  BY <1>4, <1>5 DEF rows, now

\* What get_active answers was read at its first statement, and a revocation
\* in between would have been seen by the second.
LEMMA GetAnswerFits ==
  ASSUME Calls, NEW p \in Process, \A s \in Store : Kept(s), pc[p] = "headed",
         NEW rows, rows \subseteq {view[p].row},
         rows # {} => ~Revoked(events[view[p].store], view[p].row.decision)
  PROVE  AnswerFits(events, Served(p, "get", view[p].as_of, rows))
<1> DEFINE v == view[p]
           s == v.store
           now == Len(events[s])
           a == Served(p, "get", v.as_of, rows)
<1>1. HeadFits(events, v)
  BY DEF Calls, CallFits
<1>2. /\ s \in Store /\ v.from \in 0..now /\ Had(First(events[s], v.from), v.row.decision, v.row.revision)
  BY <1>1 DEF HeadFits
<1>3. PICK S : events[s] \in Seq(S)
  BY <1>2 DEF Kept, Rows
<1>4. now \in Nat
  BY <1>3
<1>5. /\ a.op = "get" /\ a.store = s /\ a.from = v.from /\ a.to = now
      /\ a.rows = {[decision |-> row.decision, revision |-> row.revision,
                    content |-> row.content] : row \in rows}
  BY DEF Served
<1> HIDE DEF a, v, s
<1>6. ASSUME NEW x \in a.rows
      PROVE  \E n \in a.from..a.to : ActiveRevision(First(events[s], n), x.decision, x.revision)
  <2>1. rows # {} /\ x.decision = v.row.decision /\ x.revision = v.row.revision
    BY <1>5, <1>6 DEF v
  <2>2. ~Revoked(events[s], v.row.decision)
    BY <2>1 DEF v, s
  <2>3. ~Revoked(First(events[s], v.from), v.row.decision)
    BY <1>2, <1>3, <2>2, UnrevokedBefore
  <2>4. ActiveRevision(First(events[s], v.from), x.decision, x.revision)
    BY <1>2, <2>1, <2>3 DEF ActiveRevision, Had
  <2>5. v.from \in a.from..a.to
    BY <1>2, <1>4, <1>5
  <2> QED
    BY <2>4, <2>5
<1>7. a.from \in Nat /\ a.to \in 0..Len(events[a.store])
  BY <1>2, <1>4, <1>5
<1>8. AnswerFits(events, a)
  BY <1>2, <1>5, <1>6, <1>7 DEF AnswerFits, ReadFits
<1> QED
  BY <1>8 DEF a, v

\* What list_active answers were heads at its second statement, of decisions
\* that were not revoked at the first.
LEMMA ListAnswerFits ==
  ASSUME Calls, NEW p \in Process, \A s \in Store : Kept(s) /\ Lasting(s), pc[p] = "listing",
         NEW rows, \A row \in rows :
           /\ \E d \in Decision : LET head == HeadRow(events[view[p].store], d)
                                  IN  head # 0 /\ row = events[view[p].store][head]
           /\ row.decision \notin view[p].revoked
  PROVE  AnswerFits(events, Served(p, "list", view[p].as_of, rows))
<1> DEFINE v == view[p]
           s == v.store
           now == Len(events[s])
           a == Served(p, "list", v.as_of, rows)
<1>1. ListFits(events, v)
  BY DEF Calls, CallFits
<1>2. /\ s \in Store /\ v.from \in 0..now
      /\ v.revoked = {d \in Decision : Revoked(First(events[s], v.from), d)}
  BY <1>1 DEF ListFits
<1>3. PICK S : events[s] \in Seq(S)
  BY <1>2 DEF Kept, Rows
<1>4. now \in Nat /\ Kept(s) /\ Lasting(s)
  BY <1>2, <1>3
<1>5. /\ a.op = "list" /\ a.store = s /\ a.from = v.from /\ a.to = now
      /\ a.rows = {[decision |-> row.decision, revision |-> row.revision,
                    content |-> row.content] : row \in rows}
  BY DEF Served
<1>6. \A row \in rows :
        /\ \E d \in Decision : HeadRow(events[s], d) # 0 /\ row = events[s][HeadRow(events[s], d)]
        /\ row.decision \notin v.revoked
  OBVIOUS
<1> HIDE DEF a, v, s
<1>7. ASSUME NEW x \in a.rows
      PROVE  \E n \in a.from..a.to : ActiveRevision(First(events[s], n), x.decision, x.revision)
  <2>1. PICK row \in rows : x.decision = row.decision /\ x.revision = row.revision
    BY <1>5, <1>7
  <2>2. PICK d \in Decision : HeadRow(events[s], d) # 0 /\ row = events[s][HeadRow(events[s], d)]
    BY <1>6
  <2>3. row.decision = d
    BY <1>4, <2>2, HeadIsHighest DEF Kept, IsHead, RowsOf
  <2>4. ~Revoked(First(events[s], v.from), d)
    BY <1>2, <1>6, <2>3
  <2>5. \E n \in v.from..now :
          ActiveRevision(First(events[s], n), d, events[s][HeadRow(events[s], d)].revision)
    BY <1>2, <1>4, <2>2, <2>4, UnrevokedBetween
  <2> QED
    BY <1>5, <2>1, <2>2, <2>3, <2>5
<1>8. a.from \in Nat /\ a.to \in 0..Len(events[a.store])
  BY <1>2, <1>4, <1>5
<1>9. AnswerFits(events, a)
  BY <1>2, <1>5, <1>7, <1>8 DEF AnswerFits, ReadFits
<1> QED
  BY <1>9 DEF a, v

\* A write that names a generation is accepted at that generation only, so
\* what its caller read of the status is about the store before the write.
LEMMA GuardAnswerFits ==
  ASSUME NoneIsNoView, Calls, Tables, NEW p \in Process, \A s \in Store : Kept(s),
         \A envelope \in envelopes : Carried(envelope), pc[p] = "informed",
         Onward(events, events'), Write(view[p].store, view[p].generation)
  PROVE  AnswerFits(events', [op |-> "write", store |-> view[p].store, seen |-> view[p],
                              seq |-> Len(events'[view[p].store])])
<1> DEFINE v == view[p]
           s == v.store
           was == events[s]
           next == events'[s]
           a == [op |-> "write", store |-> s, seen |-> v, seq |-> Len(next)]
<1>1. StatusFits(events, "informed", v)
  BY DEF Calls, CallFits
<1>2. s \in Store /\ v.generation \in 0..Len(was)
  BY <1>1 DEF StatusFits
<1>3. Kept(s) /\ (\E S : was \in Seq(S)) /\ Grows(was, next)
  BY <1>2 DEF Kept, Rows, Onward
<1>4. (\E rows, e : Puts(s, rows, e)) /\ v.generation \in {None, Len(was)}
  BY <1>2, <1>3, WriteDoes
<1>5. /\ Len(was) \in Nat /\ Len(next) = Len(was) + 1
      /\ \E T : next \in Seq(T)
  BY <1>3, <1>4, PutsGrows DEF Grows
<1>6. v.generation = Len(was)
  BY <1>2, <1>4, <1>5 DEF NoneIsNoView
<1>7. v.records = RecordCount(was) /\ v.root = ChainSeal(s, was)
  BY <1>1, <1>6 DEF StatusFits
<1>8. a.op = "write" /\ a.store = s /\ a.seen = v /\ a.seq = Len(next)
  OBVIOUS
<1>9. was = events[s] /\ next = events'[s]
  OBVIOUS
<1> HIDE DEF a, was, next, v, s
<1>10. Len(was) = a.seq - 1 /\ a.seq \in 1..Len(next) /\ Len(was) \in 0..Len(was)
  BY <1>5, <1>8
<1>11. Alike(was, First(next, Len(was))) /\ First(was, Len(was)) = was
  BY <1>2, <1>3, <1>9, <1>10, OnwardFirst, FirstAll
<1>12. /\ RecordCount(First(next, Len(was))) = RecordCount(was)
       /\ ChainSeal(s, First(next, Len(was))) = ChainSeal(s, was)
  BY <1>11, AlikeReads
<1>13. Len(First(next, Len(was))) = Len(was)
  BY <1>5, FirstShape
<1>14. GuardFits(events', a)
  BY <1>2, <1>6, <1>7, <1>8, <1>9, <1>10, <1>12, <1>13 DEF GuardFits
<1>15. AnswerFits(events', a)
  BY <1>8, <1>14 DEF AnswerFits
<1> QED
  BY <1>15 DEF a, next, v, s

LEMMA ReadCalls ==
  ASSUME NoneIsNoView, Lived, Calls, Onward(events, events'), NEW p \in Process, Read(p)
  PROVE  Calls'
<1>1. /\ DOMAIN pc = Process /\ DOMAIN view = Process /\ Callers
      /\ \A s \in Store : Kept(s) /\ Lasting(s)
  BY DEF Lived, IInv, Callers
<1>2. events' = events
  BY <1>1, ReadKeeps DEF files
<1>3. \A s \in Store : Rows(events[s]) /\ \E S : events[s] \in Seq(S)
  BY <1>1 DEF Kept, Rows
<1>4. ASSUME NEW s \in Store, StatusGeneration(p, s) PROVE Calls'
  BY <1>1, <1>2, <1>3, <1>4, StatusStepFits, CallGoesOn DEF StatusGeneration
<1>5. ASSUME StatusRecords(p) PROVE Calls'
  BY <1>1, <1>2, <1>3, <1>5, StatusStepFits, CallGoesOn DEF StatusRecords
<1>6. ASSUME StatusRoot(p) PROVE Calls'
  BY <1>1, <1>2, <1>3, <1>6, StatusStepFits, CallGoesOn DEF StatusRoot
<1>7. ASSUME NEW s \in Store, NEW d, NEW as_of, GetHead(p, s, d, as_of) PROVE Calls'
  <2> DEFINE v == [store |-> s, from |-> Len(events[s]), as_of |-> as_of,
                   row |-> events[s][HeadRow(events[s], d)]]
  <2>1. CallFits(events, "headed", v)
    BY <1>3, <1>7, FirstStatementFits DEF GetHead
  <2>2. Keep(p, v) /\ Goto(p, "headed") /\ answer' = answer
    BY <1>7 DEF GetHead
  <2> HIDE DEF v
  <2> QED
    BY <1>1, <1>2, <2>1, <2>2, CallGoesOn
<1>8. ASSUME NEW s \in Store, NEW as_of, ListRevoked(p, s, as_of) PROVE Calls'
  <2> DEFINE v == [store |-> s, from |-> Len(events[s]), as_of |-> as_of,
                   revoked |-> {d \in Decision : Revoked(events[s], d)}]
  <2>1. CallFits(events, "listing", v)
    BY <1>3, FirstStatementFits
  <2>2. Keep(p, v) /\ Goto(p, "listing") /\ answer' = answer
    BY <1>8 DEF ListRevoked
  <2> HIDE DEF v
  <2> QED
    BY <1>1, <1>2, <2>1, <2>2, CallGoesOn
<1>9. ASSUME GetAnswer(p) PROVE Calls'
  <2> DEFINE row == view[p].row
             revoked == Revoked(events[view[p].store], row.decision)
             active == {r \in {row} : Active(r, view[p].as_of, revoked)}
  <2>1. pc[p] = "headed" /\ Return(p, Served(p, "get", view[p].as_of, active))
    BY <1>9 DEF GetAnswer
  <2>2. active \subseteq {view[p].row} /\ (active # {} => ~Revoked(events[view[p].store], view[p].row.decision))
    BY DEF Active
  <2> HIDE DEF active
  <2>3. AnswerFits(events, Served(p, "get", view[p].as_of, active))
    BY <1>1, <2>1, <2>2, GetAnswerFits
  <2> QED
    BY <1>1, <1>2, <2>1, <2>3, CallReturns
<1>10. ASSUME NEW origin, ListHeads(p, origin) PROVE Calls'
  <2> DEFINE rows == events[view[p].store]
             heads == {rows[HeadRow(rows, d)] : d \in {e \in Decision : HeadRow(rows, e) # 0}}
             active == {row \in heads :
                          /\ row.origin = origin
                          /\ Active(row, view[p].as_of, row.decision \in view[p].revoked)}
  <2>1. pc[p] = "listing" /\ Return(p, Served(p, "list", view[p].as_of, active))
    BY <1>10 DEF ListHeads
  <2>2. ASSUME NEW row \in active
        PROVE  /\ \E d \in Decision : HeadRow(rows, d) # 0 /\ row = rows[HeadRow(rows, d)]
               /\ row.decision \notin view[p].revoked
    BY <2>2 DEF Active
  <2> HIDE DEF active
  <2>3. AnswerFits(events, Served(p, "list", view[p].as_of, active))
    BY <1>1, <2>1, <2>2, ListAnswerFits
  <2> QED
    BY <1>1, <1>2, <2>1, <2>3, CallReturns
<1> QED
  BY <1>4, <1>5, <1>6, <1>7, <1>8, <1>9, <1>10 DEF Read

LEMMA CallsNext == NoneIsNoView /\ Lived /\ Lived' /\ Calls /\ [Next]_vars => Calls'
<1> SUFFICES ASSUME NoneIsNoView, Lived, Lived', Calls, [Next]_vars PROVE Calls'
  OBVIOUS
<1>1. /\ DOMAIN pc = Process /\ DOMAIN view = Process /\ Tables
      /\ (\A s \in Store : Kept(s)) /\ \A envelope \in envelopes : Carried(envelope)
  BY DEF Lived, IInv
<1>2. Onward(events, events')
  BY OnwardNext
<1>3. ASSUME UNCHANGED callers PROVE Calls'
  BY <1>2, <1>3, CallsWait
<1>4. ASSUME NEW s \in Store, NEW d, NEW t, ExportTransfer(s, d, t) PROVE Calls'
  BY <1>3, <1>4 DEF ExportTransfer
<1>5. ASSUME NEW s \in Store, AbandonEpoch(s) PROVE Calls'
  BY <1>3, <1>5 DEF AbandonEpoch
<1>6. ASSUME NEW p \in Process, Read(p) PROVE Calls'
  BY <1>2, <1>6, ReadCalls
<1>7. ASSUME NEW p \in Process, GuardedWrite(p) PROVE Calls'
  <2> DEFINE a == [op |-> "write", store |-> view[p].store, seen |-> view[p],
                   seq |-> Len(events'[view[p].store])]
  <2>1. /\ pc[p] = "informed" /\ Write(view[p].store, view[p].generation)
        /\ Return(p, a)
    BY <1>7 DEF GuardedWrite
  <2>2. AnswerFits(events', a)
    BY <1>1, <1>2, <2>1, GuardAnswerFits
  <2> HIDE DEF a
  <2> QED
    BY <1>1, <1>2, <2>1, <2>2, CallReturns
<1>8. ASSUME NEW p \in Process, GenerationMismatch(p) \/ Crash(p) PROVE Calls'
  <2>1. Return(p, None)
    BY <1>8 DEF GenerationMismatch, Crash
  <2>2. AnswerFits(events', None)
    BY DEF AnswerFits
  <2> QED
    BY <1>1, <1>2, <2>1, <2>2, CallReturns
<1>9. CASE UNCHANGED vars
  BY <1>3, <1>9 DEF vars
<1> QED
  BY <1>3, <1>4, <1>5, <1>6, <1>7, <1>8, <1>9 DEF Next

LEMMA TimelyNext == NoneIsNoPayload /\ NoneIsNoView /\ Timely /\ [Next]_vars => Timely'
  BY LivedNext, TypedNext, CallsNext DEF Timely

LEMMA TimelyInit == Init => Timely
<1> SUFFICES ASSUME Init PROVE Timely
  OBVIOUS
<1>1. Calls
  BY DEF Init, Calls, CallFits, AnswerFits
<1> QED
  BY <1>1, LivedInit, TypedInit DEF Timely

LEMMA TimelyTypes == Timely => TypeOK
<1> SUFFICES ASSUME Timely PROVE TypeOK
  OBVIOUS
<1>1. ASSUME NEW s \in Store
      PROVE  /\ \A n \in DOMAIN events[s] :
                  LET e == events[s][n]
                  IN  /\ e.kind \in {"record", "revocation", "tombstone"}
                      /\ e.decision \in Decision /\ e.revision \in 1..MaxRevision
                      /\ e.origin \in {"NATIVE", "FOREIGN_READ_ONLY"}
                      /\ e.redacted \in BOOLEAN
             /\ epoch_status[s] \in {"open", "abandoned"}
             /\ anchor[s].generation \in 0..MaxEvents
  <2>1. Kept(s) /\ RowsFit(s) /\ epoch_status[s] \in {"open", "abandoned"}
    BY DEF Timely, Lived, IInv, Typed
  <2>2. \A n \in DOMAIN events[s] :
          events[s][n].kind \in {"record", "revocation", "tombstone"} /\ events[s][n].redacted \in BOOLEAN
    BY <2>1 DEF Kept, Rows, Row
  <2>3. anchor[s].generation = Len(events[s])
    BY <2>1 DEF Kept, VerifyOk, Anchor
  <2>4. PICK S : events[s] \in Seq(S)
    BY <2>1 DEF Kept, Rows
  <2>5. Len(events[s]) \in Nat /\ MaxEvents \in Nat /\ Len(events[s]) <= MaxEvents
    BY <2>1, <2>4, BoundsAssumption DEF RowsFit
  <2>6. anchor[s].generation \in 0..MaxEvents
    BY <2>3, <2>5
  <2> QED
    BY <2>1, <2>2, <2>6 DEF RowsFit
<1>2. \A envelope \in envelopes :
        {envelope.source, envelope.destination, envelope.record.store} \subseteq Store
  BY DEF Timely, Lived, Travels
<1>3. \A p \in Process :
        /\ pc[p] \in {"idle", "counted", "recorded", "informed", "headed", "listing"}
        /\ pc[p] = "idle" <=> view[p] = None
  BY DEF Timely, Calls, CallFits
<1> QED
  BY <1>1, <1>2, <1>3 DEF TypeOK

\* What several statements put together is about one moment: a decision that
\* get_active or list_active serves was the unrevoked head at a moment of the
\* call, and a write that names the generation of a status lands on exactly
\* the store that the whole status described, for any number of processes and
\* whatever is written between the statements.
THEOREM AnswersAreTimelyHolds ==
  ASSUME NoneIsNoPayload, NoneIsNoView
  PROVE  Spec => []AnswersAreTimely
<1>1. Timely => AnswersAreTimely
  <2> SUFFICES ASSUME Timely PROVE AnswersAreTimely
    OBVIOUS
  <2>1. \A p \in Process : AnswerFits(events, answer[p])
    BY DEF Timely, Calls
  <2>2. ServedWasActive
    BY <2>1 DEF ServedWasActive, AnswerFits, ReadFits, Prefix, First
  <2>3. GuardedWriteSawStore
    BY <2>1 DEF GuardedWriteSawStore, AnswerFits, GuardFits, Prefix, First
  <2> QED
    BY <2>2, <2>3, TimelyTypes DEF AnswersAreTimely
<1>2. Timely /\ [Next]_vars => Timely'
  BY TimelyNext
<1> QED
  BY TimelyInit, <1>1, <1>2, PTL DEF Spec

-----------------------------------------------------------------------------
(* Histories.  The records that a store has of a decision are numbered     *)
(* 1..k, all native, or they are one import: a history is read off their   *)
(* numbers.                                                                *)

Chronicle(rows, d) ==
  /\ \A n \in RowsOf(rows, "record", d) : \E rec : rows[n].content = RecordSeal(rec)
  /\ \/ /\ \E k \in Nat : RevisionsOf(rows, d) = 1..k
        /\ \A n \in RowsOf(rows, "record", d) : rows[n].origin = "NATIVE"
     \/ \E n : RowsOf(rows, "record", d) = {n} /\ rows[n].origin = "FOREIGN_READ_ONLY"

\* One row of a decision has a given number.
LEMMA RevisionIs ==
  ASSUME NEW rows, Rows(rows), NEW d, NEW n \in RowsOf(rows, "record", d)
  PROVE  RevisionOf(rows, d, rows[n].revision) = SealedRecord(rows[n].content)
<1> DEFINE r == rows[n].revision
           m == CHOOSE m \in RecordRow(rows, d, r) : TRUE
<1>1. n \in RecordRow(rows, d, r)
  BY DEF RecordRow
<1>2. m \in RecordRow(rows, d, r)
  BY <1>1
<1>3. RevisionOf(rows, d, r) = SealedRecord(rows[m].content)
  BY DEF RevisionOf
<1> HIDE DEF m
<1>4. /\ m \in DOMAIN rows /\ n \in DOMAIN rows /\ rows[m].kind = "record" /\ rows[n].kind = "record"
      /\ rows[m].decision = d /\ rows[n].decision = d /\ rows[m].revision = rows[n].revision
  BY <1>2 DEF RecordRow, RowsOf
<1>5. EventId(rows[m]) = EventId(rows[n])
  BY <1>4, IdOfRecord
<1>6. m = n
  BY <1>4, <1>5 DEF Rows
<1> QED
  BY <1>3, <1>6

LEMMA NativeHistory ==
  ASSUME NEW rows, NEW d, NEW k \in Nat, RevisionsOf(rows, d) = 1..k
  PROVE  History(rows, d) = [r \in 1..k |-> RevisionOf(rows, d, r)]
<1> DEFINE first == CHOOSE r \in 1..k : \A q \in 1..k : r <= q
           At(r) == RevisionOf(rows, d, r)
           places == {r - first + 1 : r \in 1..k}
<1>1. History(rows, d) = [r \in places |-> At(first + r - 1)]
  BY DEF History
<1>2. k > 0 => first = 1
  <2>1. k > 0 => 1 \in 1..k /\ \A q \in 1..k : 1 <= q
    OBVIOUS
  <2>2. k > 0 => first \in 1..k /\ \A q \in 1..k : first <= q
    BY <2>1
  <2> HIDE DEF first
  <2> QED
    BY <2>1, <2>2
<1> HIDE DEF first, At
<1>3. places = 1..k
  <2>1. CASE k = 0
    BY <2>1
  <2>2. CASE k > 0
    <3>1. \A r \in 1..k : r - first + 1 = r
      BY <1>2, <2>2
    <3> QED
      BY <3>1
  <2> QED
    BY <2>1, <2>2
<1>4. \A r \in 1..k : first + r - 1 = r
  BY <1>2
<1> HIDE DEF places
<1>5. [r \in places |-> At(first + r - 1)] = [r \in 1..k |-> At(r)]
  BY <1>3, <1>4
<1> QED
  BY <1>1, <1>5 DEF At

LEMMA NoHistory ==
  ASSUME NEW rows, NEW d, RevisionsOf(rows, d) = {}
  PROVE  History(rows, d) = <<>>
<1> DEFINE first == CHOOSE r \in {} : \A q \in {} : r <= q
           At(r) == RevisionOf(rows, d, first + r - 1)
           places == {r - first + 1 : r \in {}}
<1>1. History(rows, d) = [r \in places |-> At(r)]
  BY DEF History
<1>2. places = {}
  OBVIOUS
<1> HIDE DEF places, At
<1> QED
  BY <1>1, <1>2

LEMMA BorrowedHistory ==
  ASSUME NEW rows, NEW d, NEW r \in Nat, RevisionsOf(rows, d) = {r}
  PROVE  History(rows, d) = <<RevisionOf(rows, d, r)>>
<1> DEFINE first == CHOOSE q \in {r} : \A p \in {r} : q <= p
           At(q) == RevisionOf(rows, d, q)
           places == {q - first + 1 : q \in {r}}
<1>1. History(rows, d) = [q \in places |-> At(first + q - 1)]
  BY DEF History
<1>2. first = r
  <2>1. r \in {r} /\ \A q \in {r} : r <= q
    OBVIOUS
  <2>2. first \in {r}
    BY <2>1
  <2> HIDE DEF first
  <2> QED
    BY <2>2
<1> HIDE DEF first, At
<1>3. places = {1}
  BY <1>2
<1> HIDE DEF places
<1>4. first + 1 - 1 = r
  BY <1>2
<1>5. [q \in places |-> At(first + q - 1)] = [q \in {1} |-> At(r)]
  BY <1>3, <1>4
<1>6. [q \in {1} |-> At(r)] = <<At(r)>>
  OBVIOUS
<1> QED
  BY <1>1, <1>5, <1>6 DEF At

\* A row that says the same of itself says the same of its decision.
SameRecords(rows, next, d) ==
  /\ RowsOf(next, "record", d) = RowsOf(rows, "record", d)
  /\ \A n \in RowsOf(rows, "record", d) : SameColumns(next[n], rows[n])

LEMMA SameHistory ==
  ASSUME NEW rows, NEW next, NEW d, SameRecords(rows, next, d), Rows(rows), Rows(next),
         Chronicle(rows, d)
  PROVE  /\ History(next, d) = History(rows, d) /\ Chronicle(next, d)
         /\ Foreign(next, d) <=> Foreign(rows, d)
<1>1. /\ RowsOf(next, "record", d) = RowsOf(rows, "record", d)
      /\ \A n \in RowsOf(rows, "record", d) :
           /\ next[n].revision = rows[n].revision /\ next[n].content = rows[n].content
           /\ next[n].origin = rows[n].origin
  BY DEF SameRecords, SameColumns
<1>2. RevisionsOf(next, d) = RevisionsOf(rows, d)
  BY <1>1 DEF RevisionsOf
<1>3. Chronicle(next, d)
  BY <1>1, <1>2 DEF Chronicle
<1>4. Foreign(next, d) <=> Foreign(rows, d)
  BY <1>1 DEF Foreign
<1>5. ASSUME NEW r \in RevisionsOf(rows, d)
      PROVE  RevisionOf(next, d, r) = RevisionOf(rows, d, r)
  <2>1. PICK n \in RowsOf(rows, "record", d) : rows[n].revision = r
    BY DEF RevisionsOf
  <2>2. RevisionOf(rows, d, r) = SealedRecord(rows[n].content)
    BY <2>1, RevisionIs
  <2>3. RevisionOf(next, d, next[n].revision) = SealedRecord(next[n].content)
    BY <1>1, RevisionIs
  <2> QED
    BY <1>1, <2>1, <2>2, <2>3
<1>6. History(next, d) = History(rows, d)
  <2>1. CASE \E k \in Nat : RevisionsOf(rows, d) = 1..k
    <3>1. PICK k \in Nat : RevisionsOf(rows, d) = 1..k
      BY <2>1
    <3>2. /\ History(rows, d) = [r \in 1..k |-> RevisionOf(rows, d, r)]
          /\ History(next, d) = [r \in 1..k |-> RevisionOf(next, d, r)]
      BY <1>2, <3>1, NativeHistory
    <3> QED
      BY <1>5, <3>1, <3>2
  <2>2. CASE \E n : RowsOf(rows, "record", d) = {n}
    <3>1. PICK n : RowsOf(rows, "record", d) = {n}
      BY <2>2
    <3> DEFINE r == rows[n].revision
    <3>2. RevisionsOf(rows, d) = {r} /\ RevisionsOf(next, d) = {r} /\ r \in Nat
      <4>1. RevisionsOf(rows, d) = {r}
        BY <3>1 DEF RevisionsOf
      <4>2. n \in DOMAIN rows
        BY <3>1 DEF RowsOf
      <4> QED
        BY <1>2, <4>1, <4>2 DEF Rows, Row
    <3> HIDE DEF r
    <3>3. /\ History(rows, d) = <<RevisionOf(rows, d, r)>>
          /\ History(next, d) = <<RevisionOf(next, d, r)>>
      BY <3>2, BorrowedHistory
    <3> QED
      BY <1>5, <3>2, <3>3
  <2> QED
    BY <2>1, <2>2 DEF Chronicle
<1> QED
  BY <1>3, <1>4, <1>6

\* What an event that comes leaves of the rows of its store.
Joins(was, next, new, e) ==
  /\ new \notin DOMAIN was /\ new \in DOMAIN next /\ next[new] = e
  /\ \A n \in DOMAIN was : SameColumns(next[n], was[n])
  /\ RowsOf(next, e.kind, e.decision) = RowsOf(was, e.kind, e.decision) \cup {new}
  /\ \A k, d : k # e.kind \/ d # e.decision => RowsOf(next, k, d) = RowsOf(was, k, d)

LEMMA PutsRows ==
  ASSUME NEW s, NEW rows, NEW e, Puts(s, rows, e), Rows(events[s])
  PROVE  Joins(events[s], events'[s], Len(events'[s]), e)
<1> DEFINE was == events[s]
           next == events'[s]
           new == Len(events'[s])
<1>1. /\ Grows(was, next) /\ Len(was) \in Nat /\ new = Len(was) + 1
      /\ DOMAIN next = DOMAIN was \cup {new} /\ next[new] = e
      /\ DOMAIN was = 1..Len(was)
  BY PutsGrows DEF Rows
<1>2. new \notin DOMAIN was
  BY <1>1
<1>3. Rows(was)
  OBVIOUS
<1> HIDE DEF was, next, new
<1>4. ASSUME NEW n \in DOMAIN was PROVE SameColumns(next[n], was[n])
  <2>1. Row(was[n]) /\ (next[n] = was[n] \/ next[n] = Redacted(was[n]))
    BY <1>1, <1>3 DEF Rows, Grows
  <2> QED
    BY <2>1 DEF Row, Redacted, SameColumns
<1>5. RowsOf(next, e.kind, e.decision) = RowsOf(was, e.kind, e.decision) \cup {new}
  BY <1>1, <1>2, <1>4 DEF RowsOf, SameColumns
<1>6. \A k, d : k # e.kind \/ d # e.decision => RowsOf(next, k, d) = RowsOf(was, k, d)
  BY <1>1, <1>2, <1>4 DEF RowsOf, SameColumns
<1>7. Joins(was, next, new, e)
  BY <1>1, <1>2, <1>4, <1>5, <1>6 DEF Joins
<1> QED
  BY <1>7 DEF was, next, new

\* A history that follows its head gets its next revision.
LEMMA NativeGrows ==
  ASSUME NEW s, NEW rows, NEW e, Puts(s, rows, e), Rows(events[s]), Rows(events'[s]),
         e.kind = "record", e.origin = "NATIVE", NEW rec, Revises(s, e, rec),
         NEW d, d = e.decision, Chronicle(events[s], d)
  PROVE  /\ Chronicle(events'[s], d) /\ ~Foreign(events[s], d) /\ ~Foreign(events'[s], d)
         /\ rec = [decision |-> d, store |-> s, revision |-> Len(History(events[s], d)) + 1,
                   supersedes |-> IF History(events[s], d) = <<>> THEN None
                                  ELSE Seal("record", History(events[s], d)[Len(History(events[s], d))]),
                   expires |-> rec.expires]
         /\ History(events'[s], d) = Append(History(events[s], d), rec)
<1> DEFINE was == events[s]
           next == events'[s]
           new == Len(events'[s])
           past == History(was, d)
           head == HeadRow(was, d)
<1>1. /\ new \notin DOMAIN was /\ next[new] = e
      /\ \A n \in DOMAIN was : SameColumns(next[n], was[n])
      /\ RowsOf(next, "record", d) = RowsOf(was, "record", d) \cup {new}
  <2>1. Joins(was, next, new, e)
    BY PutsRows
  <2> QED
    BY <2>1 DEF Joins
<1>2. /\ rec = [decision |-> rec.decision, store |-> rec.store, revision |-> rec.revision,
                supersedes |-> rec.supersedes, expires |-> rec.expires]
      /\ rec.decision = d /\ rec.store = s /\ rec.revision = e.revision /\ rec.revision \in Nat
      /\ e.content = RecordSeal(rec) /\ (rec.revision = 1 <=> rec.supersedes = None)
  <2>1. /\ rec \in [decision : Decision, store : {s}, revision : 1..MaxRevision,
                   supersedes : KnownSeals \cup {None}, expires : Instant]
        /\ rec.decision = d /\ rec.revision = e.revision
        /\ e.content = RecordSeal(rec) /\ (rec.revision = 1 <=> rec.supersedes = None)
    BY DEF Revises
  <2> QED
    BY <2>1
<1>3. IF head = 0 THEN rec.revision = 1
      ELSE /\ was[head].origin = "NATIVE"
           /\ rec.revision = was[head].revision + 1
           /\ rec.supersedes = was[head].content
  BY <1>2 DEF Revises, ExtendsHead
<1>4. \/ head = 0 /\ RowsOf(was, "record", d) = {}
      \/ head # 0 /\ IsHead(was, d, head)
  BY HeadIsHighest
<1>5. Rows(was) /\ Rows(next) /\ Chronicle(was, d)
  OBVIOUS
<1> HIDE DEF was, next, new, head
<1>6. PICK k \in Nat :
        /\ RevisionsOf(was, d) = 1..k /\ rec.revision = k + 1
        /\ k # 0 => IsHead(was, d, head) /\ was[head].revision = k /\ rec.supersedes = was[head].content
        /\ \A n \in RowsOf(was, "record", d) : was[n].origin = "NATIVE"
  <2>1. CASE head = 0
    <3>1. RevisionsOf(was, d) = 1..0 /\ rec.revision = 0 + 1 /\ 0 \in Nat
      BY <1>3, <1>4, <2>1 DEF RevisionsOf
    <3> QED
      BY <1>4, <2>1, <3>1
  <2>2. CASE head # 0
    <3>1. /\ IsHead(was, d, head) /\ head \in RowsOf(was, "record", d)
          /\ was[head].origin = "NATIVE" /\ rec.revision = was[head].revision + 1
          /\ rec.supersedes = was[head].content
      BY <1>3, <1>4, <2>2 DEF IsHead
    <3>2. PICK k \in Nat : /\ RevisionsOf(was, d) = 1..k
                           /\ \A n \in RowsOf(was, "record", d) : was[n].origin = "NATIVE"
      BY <1>5, <3>1 DEF Chronicle
    <3>3. was[head].revision \in 1..k /\ \A r \in 1..k : r <= was[head].revision
      <4>1. \A r \in RevisionsOf(was, d) : r <= was[head].revision
        BY <3>1 DEF RevisionsOf, IsHead
      <4>2. was[head].revision \in RevisionsOf(was, d)
        BY <3>1 DEF RevisionsOf
      <4> QED
        BY <3>2, <4>1, <4>2
    <3>4. was[head].revision = k
      <4> DEFINE r == was[head].revision
      <4>1. r \in 1..k /\ \A q \in 1..k : q <= r
        BY <3>3
      <4> HIDE DEF r
      <4>2. r = k
        BY <4>1
      <4> QED
        BY <4>2 DEF r
    <3> QED
      BY <3>1, <3>2, <3>4
  <2> QED
    BY <2>1, <2>2
<1>7. RevisionsOf(next, d) = 1..(k + 1)
  <2>1. /\ \A n \in RowsOf(was, "record", d) : next[n].revision = was[n].revision
        /\ next[new].revision = k + 1
    BY <1>1, <1>2, <1>6 DEF RowsOf, SameColumns
  <2>2. RevisionsOf(next, d) = RevisionsOf(was, d) \cup {k + 1}
    BY <1>1, <2>1 DEF RevisionsOf
  <2>3. 1..k \cup {k + 1} = 1..(k + 1)
    OBVIOUS
  <2> QED
    BY <1>6, <2>2, <2>3
<1>8. \A n \in RowsOf(next, "record", d) :
        next[n].origin = "NATIVE" /\ \E r : next[n].content = RecordSeal(r)
  <2>1. ASSUME NEW n \in RowsOf(was, "record", d)
        PROVE  next[n].origin = "NATIVE" /\ \E r : next[n].content = RecordSeal(r)
    BY <1>1, <1>5, <1>6 DEF RowsOf, SameColumns, Chronicle
  <2> QED
    BY <1>1, <1>2, <2>1
<1>9. Chronicle(next, d)
  BY <1>7, <1>8 DEF Chronicle
<1>10. ~Foreign(was, d) /\ ~Foreign(next, d)
  BY <1>6, <1>8 DEF Foreign
<1>11. /\ past = [r \in 1..k |-> RevisionOf(was, d, r)]
       /\ History(next, d) = [r \in 1..(k + 1) |-> RevisionOf(next, d, r)]
  BY <1>6, <1>7, NativeHistory
<1>12. \A r \in 1..k : RevisionOf(next, d, r) = RevisionOf(was, d, r)
  <2> SUFFICES ASSUME NEW r \in 1..k PROVE RevisionOf(next, d, r) = RevisionOf(was, d, r)
    OBVIOUS
  <2>1. PICK n \in RowsOf(was, "record", d) : was[n].revision = r
    BY <1>6 DEF RevisionsOf
  <2>2. /\ next[n].revision = r /\ next[n].content = was[n].content
        /\ n \in RowsOf(next, "record", d)
    BY <1>1, <2>1 DEF RowsOf, SameColumns
  <2>3. RevisionOf(was, d, r) = SealedRecord(was[n].content)
    BY <1>5, <2>1, RevisionIs
  <2>4. RevisionOf(next, d, r) = SealedRecord(next[n].content)
    BY <1>5, <2>2, RevisionIs
  <2> QED
    BY <2>2, <2>3, <2>4
<1>13. RevisionOf(next, d, k + 1) = rec
  <2>1. new \in RowsOf(next, "record", d) /\ next[new].revision = k + 1
    BY <1>1, <1>2, <1>6
  <2>2. RevisionOf(next, d, k + 1) = SealedRecord(next[new].content)
    BY <1>5, <2>1, RevisionIs
  <2> QED
    BY <1>1, <1>2, <2>2 DEF SealedRecord, RecordSeal, Seal
<1>14. k # 0 => Seal("record", RevisionOf(was, d, k)) = rec.supersedes
  <2> SUFFICES ASSUME k # 0 PROVE Seal("record", RevisionOf(was, d, k)) = rec.supersedes
    OBVIOUS
  <2>1. head \in RowsOf(was, "record", d) /\ was[head].revision = k
    BY <1>6 DEF IsHead
  <2>2. RevisionOf(was, d, k) = SealedRecord(was[head].content)
    BY <1>5, <2>1, RevisionIs
  <2>3. PICK x : was[head].content = RecordSeal(x)
    BY <1>5, <2>1 DEF Chronicle
  <2> QED
    BY <1>6, <2>2, <2>3 DEF SealedRecord, RecordSeal, Seal
<1> DEFINE Was(r) == RevisionOf(was, d, r)
           T == {Was(r) : r \in 1..k}
<1>15. past = [r \in 1..k |-> Was(r)]
  BY <1>11
<1>16. History(next, d) = [r \in 1..(k + 1) |-> IF r = k + 1 THEN rec ELSE Was(r)]
  BY <1>11, <1>12, <1>13
<1> HIDE DEF past
<1>17. past \in Seq(T) /\ Len(past) = k /\ DOMAIN past = 1..k
  <2> HIDE DEF Was
  <2> QED
    BY <1>15
<1>18. History(next, d) = Append(past, rec)
  <2> HIDE DEF Was, T
  <2> DEFINE h == Append(past, rec)
             g == History(next, d)
  <2>1. /\ h \in Seq(T \cup {rec}) /\ DOMAIN h = 1..(k + 1) /\ h[k + 1] = rec
        /\ \A r \in 1..k : h[r] = Was(r)
    <3>1. /\ h \in Seq(T \cup {rec}) /\ DOMAIN h = 1..k \cup {k + 1} /\ h[k + 1] = rec
          /\ \A r \in 1..k : h[r] = past[r]
      BY <1>17, AppendShape
    <3>2. 1..k \cup {k + 1} = 1..(k + 1)
      OBVIOUS
    <3> HIDE DEF h
    <3> QED
      BY <1>15, <3>1, <3>2
  <2> HIDE DEF h
  <2>2. h = [r \in 1..(k + 1) |-> h[r]]
    BY <2>1
  <2>3. \A r \in 1..(k + 1) : h[r] = IF r = k + 1 THEN rec ELSE Was(r)
    BY <2>1
  <2>4. g = h
    BY <1>16, <2>2, <2>3
  <2> QED
    BY <2>4 DEF h
<1>19. rec.supersedes = IF past = <<>> THEN None ELSE Seal("record", past[Len(past)])
  <2>1. CASE k = 0
    <3>1. past = <<>>
      BY <1>17, <2>1
    <3> QED
      BY <1>2, <1>6, <2>1, <3>1
  <2>2. CASE k # 0
    <3>1. past # <<>> /\ past[Len(past)] = RevisionOf(was, d, k)
      BY <1>15, <1>17, <2>2
    <3> QED
      BY <1>14, <2>2, <3>1
  <2> QED
    BY <2>1, <2>2
<1>20. rec.revision = Len(past) + 1
  BY <1>6, <1>17
<1>21. rec = [decision |-> d, store |-> s, revision |-> Len(past) + 1,
              supersedes |-> IF past = <<>> THEN None ELSE Seal("record", past[Len(past)]),
              expires |-> rec.expires]
  BY <1>2, <1>19, <1>20
<1> QED
  BY <1>9, <1>10, <1>18, <1>21 DEF past, was, next

\* What is imported is all that its store has of the decision, and what the
\* source has of it at that number.
LEMMA ImportBorrows ==
  ASSUME NEW s, NEW rows, NEW e, Puts(s, rows, e), Rows(events[s]), Rows(events'[s]),
         e.kind = "record", e.origin = "FOREIGN_READ_ONLY",
         NEW d, d = e.decision, HeadRow(events[s], d) = 0,
         NEW envelope, ImportedAs(envelope, s, e), Carried(envelope), FirstHand(envelope),
         NEW q, q = envelope.source, Rows(events[q]), Lasting(q), Chronicle(events[q], d)
  PROVE  /\ Chronicle(events'[s], d) /\ Foreign(events'[s], d)
         /\ History(events[s], d) = <<>> /\ ~Foreign(events[q], d)
         /\ \E r \in DOMAIN History(events[q], d) :
              History(events'[s], d) = <<History(events[q], d)[r]>>
<1> DEFINE was == events[s]
           next == events'[s]
           new == Len(events'[s])
           there == events[q]
           r == envelope.record.revision
<1>1. /\ new \notin DOMAIN was /\ next[new] = e
      /\ RowsOf(next, "record", d) = RowsOf(was, "record", d) \cup {new}
  <2>1. Joins(was, next, new, e)
    BY PutsRows
  <2> QED
    BY <2>1 DEF Joins
<1>2. RowsOf(was, "record", d) = {}
  BY HeadIsHighest
<1>3. /\ e.content = envelope.content /\ e.revision = r /\ envelope.record.decision = d
      /\ envelope.content = RecordSeal(envelope.record) /\ r \in Nat
  BY DEF ImportedAs, Carried
<1>4. Rows(next) /\ Rows(there) /\ Chronicle(there, d)
  OBVIOUS
<1>5. PICK head \in RowsOf(there, "record", d) :
        there[head].revision = r /\ there[head].origin = "NATIVE" /\ there[head].content = envelope.content
  <2>1. PICK m \in 0..Len(there) :
          LET at == First(there, m)
              head == HeadRow(at, d)
          IN  /\ ActiveRevision(at, d, r)
              /\ at[head].origin = "NATIVE" /\ at[head].content = envelope.content
    BY <1>3 DEF FirstHand, Prefix, First
  <2> DEFINE at == First(there, m)
             head == HeadRow(at, d)
  <2>2. Rows(at)
    BY DEF Lasting
  <2>3. DOMAIN at = 1..m /\ 1..m \subseteq DOMAIN there /\ \A n \in 1..m : at[n] = there[n]
    <3>1. \E S : there \in Seq(S)
      BY <1>4 DEF Rows
    <3> HIDE DEF there
    <3> QED
      BY <3>1, FirstShape
  <2>4. head # 0 /\ at[head].revision = r /\ at[head].origin = "NATIVE"
        /\ at[head].content = envelope.content
    BY <2>1 DEF ActiveRevision
  <2> HIDE DEF at, head, there
  <2>5. head \in RowsOf(at, "record", d)
    BY <2>2, <2>4, HeadIsHighest DEF head, IsHead
  <2>6. head \in DOMAIN at /\ at[head].kind = "record" /\ at[head].decision = d
    BY <2>5 DEF RowsOf
  <2>7. head \in RowsOf(there, "record", d) /\ there[head] = at[head]
    BY <2>3, <2>6 DEF RowsOf
  <2> QED
    BY <2>4, <2>7
<1> HIDE DEF was, next, new, there, r
<1>6. /\ RowsOf(next, "record", d) = {new} /\ next[new].origin = "FOREIGN_READ_ONLY"
      /\ next[new].content = RecordSeal(envelope.record) /\ next[new].revision = r
  BY <1>1, <1>2, <1>3
<1>7. Chronicle(next, d) /\ Foreign(next, d)
  BY <1>6 DEF Chronicle, Foreign
<1>8. History(was, d) = <<>>
  <2>1. RevisionsOf(was, d) = {}
    BY <1>2 DEF RevisionsOf
  <2> QED
    BY <2>1, NoHistory
<1>9. PICK k \in Nat : /\ RevisionsOf(there, d) = 1..k
                       /\ \A n \in RowsOf(there, "record", d) : there[n].origin = "NATIVE"
  BY <1>4, <1>5 DEF Chronicle
<1>10. ~Foreign(there, d)
  BY <1>9 DEF Foreign
<1>11. r \in 1..k /\ History(there, d) = [n \in 1..k |-> RevisionOf(there, d, n)]
  BY <1>5, <1>9, NativeHistory DEF RevisionsOf
<1>12. RevisionOf(there, d, r) = SealedRecord(envelope.content)
  BY <1>4, <1>5, RevisionIs
<1>13. r \in DOMAIN History(there, d) /\ History(there, d)[r] = SealedRecord(envelope.content)
  BY <1>11, <1>12
<1>14. History(next, d) = <<SealedRecord(envelope.content)>>
  <2>1. RevisionsOf(next, d) = {r}
    BY <1>6 DEF RevisionsOf
  <2>2. History(next, d) = <<RevisionOf(next, d, r)>>
    BY <1>3, <2>1, BorrowedHistory
  <2>3. RevisionOf(next, d, next[new].revision) = SealedRecord(next[new].content)
    BY <1>4, <1>6, RevisionIs
  <2> QED
    BY <1>3, <1>6, <2>2, <2>3
<1> QED
  BY <1>7, <1>8, <1>10, <1>13, <1>14 DEF was, next, there

-----------------------------------------------------------------------------
(* Each write is one step of the histories, or none.                       *)

Recounted == Lived /\ Typed /\ \A s \in Store : \A d : Chronicle(events[s], d)

\* A write reaches one decision of one store.
LEMMA HistoryMoves ==
  ASSUME NEW s \in Store, \A t \in Store \ {s} : events'[t] = events[t],
         NEW d \in Decision, NEW h, History(events'[s], d) = h,
         \A x \in Decision \ {d} : History(events'[s], x) = History(events[s], x)
  PROVE  [t \in Store |-> [x \in Decision |-> History(events'[t], x)]]
           = [[t \in Store |-> [x \in Decision |-> History(events[t], x)]] EXCEPT ![s][d] = h]
<1> DEFINE was == [t \in Store |-> [x \in Decision |-> History(events[t], x)]]
           next == [t \in Store |-> [x \in Decision |-> History(events'[t], x)]]
           moved == [was EXCEPT ![s][d] = h]
<1>1. ASSUME NEW t \in Store PROVE next[t] = moved[t]
  <2>1. CASE t # s
    <3>1. events'[t] = events[t]
      BY <2>1
    <3>2. [x \in Decision |-> History(events'[t], x)] = [x \in Decision |-> History(events[t], x)]
      BY <3>1
    <3> QED
      BY <2>1, <3>2
  <2>2. CASE t = s
    <3>1. moved[s] = [[x \in Decision |-> History(events[s], x)] EXCEPT ![d] = h]
      OBVIOUS
    <3>2. [x \in Decision |-> History(events'[s], x)]
            = [[x \in Decision |-> History(events[s], x)] EXCEPT ![d] = h]
      OBVIOUS
    <3> QED
      BY <2>2, <3>1, <3>2
  <2> QED
    BY <2>1, <2>2
<1>2. next = [t \in Store |-> next[t]] /\ moved = [t \in Store |-> moved[t]]
  OBVIOUS
<1>3. next = moved
  <2> HIDE DEF next, moved
  <2> QED
    BY <1>1, <1>2
<1> QED
  BY <1>3

\* What is told of a decision that no record came to.
LEMMA OthersSame ==
  ASSUME NEW s, NEW rows, NEW e, Puts(s, rows, e), Rows(events[s]), Rows(events'[s]),
         NEW d, e.kind # "record" \/ d # e.decision, Chronicle(events[s], d)
  PROVE  /\ Chronicle(events'[s], d) /\ History(events'[s], d) = History(events[s], d)
         /\ Foreign(events'[s], d) <=> Foreign(events[s], d)
<1> DEFINE was == events[s]
           next == events'[s]
<1>1. Joins(was, next, Len(next), e)
  BY PutsRows
<1> HIDE DEF was, next
<1>2. SameRecords(was, next, d)
  <2>1. RowsOf(next, "record", d) = RowsOf(was, "record", d)
    BY <1>1 DEF Joins
  <2>2. \A n \in RowsOf(was, "record", d) : SameColumns(next[n], was[n])
    BY <1>1 DEF Joins, RowsOf
  <2> QED
    BY <2>1, <2>2 DEF SameRecords
<1> QED
  BY <1>2, SameHistory DEF was, next

LEMMA RevokedThen ==
  ASSUME NEW s, NEW rows, NEW e, Puts(s, rows, e), Rows(events[s]), NEW d
  PROVE  Revoked(events'[s], d) <=>
           Revoked(events[s], d) \/ (e.kind = "revocation" /\ e.decision = d)
<1> DEFINE was == events[s]
           next == events'[s]
<1>1. Joins(was, next, Len(next), e)
  BY PutsRows
<1> HIDE DEF was, next
<1>2. CASE e.kind = "revocation" /\ e.decision = d
  BY <1>1, <1>2 DEF Joins, Revoked, was, next
<1>3. CASE ~(e.kind = "revocation" /\ e.decision = d)
  BY <1>1, <1>3 DEF Joins, Revoked, was, next
<1> QED
  BY <1>2, <1>3

LEMMA PutsTells ==
  ASSUME Recounted, NEW s \in Store, NEW rows, NEW e, Puts(s, rows, e), Rows(events'[s]),
         \A t \in Store \ {s} : events'[t] = events[t]
  PROVE  [Histories!Next]_(Histories!vars) /\ \A d : Chronicle(events'[s], d)
<1> DEFINE history == [t \in Store |-> [x \in Decision |-> History(events[t], x)]]
           borrowed == [t \in Store |-> {x \in Decision : Foreign(events[t], x)}]
           closed == [t \in Store |-> {x \in Decision : Revoked(events[t], x)}]
           frozen == {t \in Store : epoch_status[t] = "abandoned"}
           d == e.decision
<1>1. /\ \A t \in Store : Rows(events[t]) /\ Lasting(t)
      /\ \A t \in Store : \A x : Chronicle(events[t], x)
      /\ \A envelope \in envelopes : Carried(envelope) /\ Travels(envelope) /\ EnvelopeFits(envelope)
      /\ RowsFit(s)
  BY DEF Recounted, Lived, Typed, IInv, Kept
<1>2. UNCHANGED frozen /\ s \notin frozen
  BY DEF Puts
<1>3. \A x : e.kind # "record" \/ x # d =>
        /\ Chronicle(events'[s], x) /\ History(events'[s], x) = History(events[s], x)
        /\ Foreign(events'[s], x) <=> Foreign(events[s], x)
  BY <1>1, OthersSame
<1>4. \A x : Revoked(events'[s], x) <=>
             Revoked(events[s], x) \/ (e.kind = "revocation" /\ d = x)
  BY <1>1, RevokedThen
<1>5. CASE e.kind # "record"
  <2>1. UNCHANGED history
    <3>1. \A t \in Store : \A x \in Decision : History(events'[t], x) = History(events[t], x)
      BY <1>3, <1>5
    <3> QED
      BY <3>1
  <2>2. UNCHANGED borrowed
    <3>1. \A t \in Store : \A x \in Decision : Foreign(events'[t], x) <=> Foreign(events[t], x)
      BY <1>3, <1>5
    <3> QED
      BY <3>1
  <2>3. CASE e.kind = "revocation"
    <3>1. d \in Decision /\ ~Revoked(events[s], d) /\ HeadRow(events[s], d) # 0
      BY <1>1, <2>3 DEF Puts, About, RowsFit
    <3>2. d \notin closed[s] /\ closed' = [closed EXCEPT ![s] = @ \cup {d}]
      <4>1. {x \in Decision : Revoked(events'[s], x)} = {x \in Decision : Revoked(events[s], x)} \cup {d}
        BY <1>4, <2>3, <3>1
      <4>2. \A t \in Store : t # s => {x \in Decision : Revoked(events'[t], x)}
                                      = {x \in Decision : Revoked(events[t], x)}
        OBVIOUS
      <4> QED
        BY <3>1, <4>1, <4>2
    <3>3. history[s][d] # <<>>
      <4> DEFINE was == events[s]
      <4>1. RowsOf(was, "record", d) # {} /\ Chronicle(was, d)
        BY <1>1, <3>1, HeadIsHighest DEF IsHead
      <4> HIDE DEF was
      <4>2. DOMAIN History(was, d) # {}
        <5>1. RevisionsOf(was, d) # {}
          BY <4>1 DEF RevisionsOf
        <5> QED
          BY <5>1 DEF History
      <4>3. History(was, d) # <<>>
        BY <4>2
      <4> QED
        BY <3>1, <4>3 DEF was
    <3>4. Histories!Close(s, d)
      BY <1>2, <2>1, <2>2, <3>2, <3>3 DEF Histories!Close
    <3> QED
      BY <1>3, <1>5, <3>1, <3>4 DEF Histories!Next
  <2>4. CASE e.kind # "revocation"
    <3>1. UNCHANGED closed
      <4>1. \A t \in Store : \A x \in Decision : Revoked(events'[t], x) <=> Revoked(events[t], x)
        BY <1>4, <2>4
      <4> QED
        BY <4>1
    <3>2. UNCHANGED Histories!vars
      BY <1>2, <2>1, <2>2, <3>1 DEF Histories!vars
    <3> QED
      BY <1>3, <1>5, <3>2
  <2> QED
    BY <2>3, <2>4
<1>6. CASE e.kind = "record"
  <2>1. UNCHANGED closed
    <3>1. \A t \in Store : \A x \in Decision : Revoked(events'[t], x) <=> Revoked(events[t], x)
      BY <1>4, <1>6
    <3> QED
      BY <3>1
  <2>2. d \notin closed[s]
    BY <1>6 DEF Puts
  <2>3. CASE e.origin = "NATIVE"
    <3>1. PICK rec : Revises(s, e, rec)
      BY <1>6, <2>3 DEF Puts
    <3>2. d \in Decision /\ rec.expires \in Instant
      BY <1>6, <2>3, <3>1 DEF Puts, Revises
    <3>3. /\ Chronicle(events'[s], d) /\ ~Foreign(events[s], d) /\ ~Foreign(events'[s], d)
          /\ rec = [decision |-> d, store |-> s, revision |-> Len(History(events[s], d)) + 1,
                    supersedes |-> IF History(events[s], d) = <<>> THEN None
                                   ELSE Seal("record", History(events[s], d)[Len(History(events[s], d))]),
                    expires |-> rec.expires]
          /\ History(events'[s], d) = Append(History(events[s], d), rec)
      BY <1>1, <1>6, <2>3, <3>1, NativeGrows
    <3>4. UNCHANGED borrowed /\ d \notin borrowed[s]
      <4>1. \A t \in Store : \A x \in Decision : Foreign(events'[t], x) <=> Foreign(events[t], x)
        BY <1>3, <3>3
      <4> QED
        BY <3>3, <4>1
    <3>5. history[s][d] = History(events[s], d)
      BY <3>2
    <3>6. history' = [history EXCEPT ![s][d] = Append(@, rec)]
      <4>1. history' = [history EXCEPT ![s][d] = History(events'[s], d)]
        BY <1>3, <3>2, HistoryMoves
      <4> HIDE DEF history
      <4> QED
        BY <3>3, <3>5, <4>1
    <3>7. rec = Histories!NextRevision(s, d, rec.expires)
      <4>1. Histories!NextRevision(s, d, rec.expires)
              = [decision |-> d, store |-> s, revision |-> Len(history[s][d]) + 1,
                 supersedes |-> IF history[s][d] = <<>> THEN None
                                ELSE Seal("record", history[s][d][Len(history[s][d])]),
                 expires |-> rec.expires]
        BY DEF Histories!NextRevision, Histories!Seal, Seal
      <4> HIDE DEF history
      <4> QED
        BY <3>3, <3>5, <4>1
    <3>8. Histories!Extend(s, d, rec.expires)
      <4> DEFINE new == Histories!NextRevision(s, d, rec.expires)
      <4>1. history' = [history EXCEPT ![s][d] = Append(@, new)]
        BY <3>6, <3>7
      <4> HIDE DEF new
      <4> USE DEF new
      <4> QED
        BY <1>2, <2>1, <2>2, <3>4, <4>1 DEF Histories!Extend
    <3> QED
      BY <1>3, <3>2, <3>3, <3>8 DEF Histories!Next
  <2>4. CASE e.origin # "NATIVE"
    <3>1. PICK envelope \in envelopes : ImportedAs(envelope, s, e)
      BY <1>6, <2>4 DEF Puts
    <3> DEFINE q == envelope.source
    <3>2. /\ q \in Store /\ q # s /\ d \in Decision /\ FirstHand(envelope)
          /\ e.origin = "FOREIGN_READ_ONLY" /\ HeadRow(events[s], d) = 0
      BY <1>1, <1>6, <2>4, <3>1 DEF Puts, ImportedAs, Travels, EnvelopeFits
    <3> HIDE DEF q
    <3>3. /\ Chronicle(events'[s], d) /\ Foreign(events'[s], d)
          /\ History(events[s], d) = <<>> /\ ~Foreign(events[q], d)
          /\ \E r \in DOMAIN History(events[q], d) :
               History(events'[s], d) = <<History(events[q], d)[r]>>
      <4>1. Carried(envelope) /\ q = envelope.source
        BY <1>1 DEF q
      <4>2. Rows(events[s]) /\ Rows(events[q]) /\ Lasting(q) /\ Chronicle(events[q], d)
        BY <1>1, <3>2
      <4> HIDE DEF d
      <4>3. d = e.decision
        BY DEF d
      <4> QED
        BY <1>6, <3>1, <3>2, <4>1, <4>2, <4>3, ImportBorrows
    <3>4. PICK r \in DOMAIN History(events[q], d) :
            History(events'[s], d) = <<History(events[q], d)[r]>>
      BY <3>3
    <3>5. history[q][d] = History(events[q], d) /\ history[s][d] = <<>> /\ d \notin borrowed[q]
      BY <3>2, <3>3
    <3>6. history' = [history EXCEPT ![s][d] = <<history[q][d][r]>>]
      <4>1. history' = [history EXCEPT ![s][d] = History(events'[s], d)]
        BY <1>3, <3>2, HistoryMoves
      <4> HIDE DEF history
      <4> QED
        BY <3>4, <3>5, <4>1
    <3>7. borrowed' = [borrowed EXCEPT ![s] = @ \cup {d}]
      <4>1. {x \in Decision : Foreign(events'[s], x)} = {x \in Decision : Foreign(events[s], x)} \cup {d}
        BY <1>3, <3>2, <3>3
      <4>2. \A t \in Store : t # s => {x \in Decision : Foreign(events'[t], x)}
                                      = {x \in Decision : Foreign(events[t], x)}
        OBVIOUS
      <4> QED
        BY <4>1, <4>2
    <3>8. Histories!Borrow(s, d, q, r)
      BY <1>2, <2>1, <3>2, <3>5, <3>6, <3>7 DEF Histories!Borrow
    <3>9. r \in DOMAIN history[q][d]
      BY <3>5
    <3> QED
      BY <1>3, <3>2, <3>3, <3>8, <3>9 DEF Histories!Next
  <2> QED
    BY <2>3, <2>4
<1> QED
  BY <1>5, <1>6

LEMMA RecountedInit == Init => Recounted /\ Histories!Init
<1> SUFFICES ASSUME Init PROVE Recounted /\ Histories!Init
  OBVIOUS
<1>1. Lived /\ Typed
  BY LivedInit, TypedInit
<1>2. \A s \in Store : events[s] = <<>> /\ epoch_status[s] = "open"
  BY DEF Init
<1>3. ASSUME NEW d
      PROVE  /\ Chronicle(<<>>, d) /\ History(<<>>, d) = <<>>
             /\ ~Foreign(<<>>, d) /\ ~Revoked(<<>>, d)
  <2>1. \A k : RowsOf(<<>>, k, d) = {}
    BY DEF RowsOf
  <2>2. RevisionsOf(<<>>, d) = {}
    BY <2>1 DEF RevisionsOf
  <2>3. History(<<>>, d) = <<>>
    BY <2>2, NoHistory
  <2>4. \E k \in Nat : RevisionsOf(<<>>, d) = 1..k
    <3>1. 0 \in Nat /\ 1..0 = {}
      OBVIOUS
    <3> QED
      BY <2>2, <3>1
  <2>5. Chronicle(<<>>, d)
    BY <2>1, <2>4 DEF Chronicle
  <2> QED
    BY <2>1, <2>3, <2>5 DEF Foreign, Revoked
<1>4. Recounted
  BY <1>1, <1>2, <1>3 DEF Recounted
<1>5. Histories!Init
  <2>1. /\ \A s \in Store, d \in Decision : History(events[s], d) = <<>>
        /\ \A s \in Store, d \in Decision : ~Foreign(events[s], d) /\ ~Revoked(events[s], d)
    BY <1>2, <1>3
  <2>2. /\ \A s \in Store : {d \in Decision : Foreign(events[s], d)} = {}
        /\ \A s \in Store : {d \in Decision : Revoked(events[s], d)} = {}
    BY <2>1
  <2> QED
    BY <1>2, <2>1, <2>2 DEF Histories!Init
<1> QED
  BY <1>4, <1>5

LEMMA RecountedNext ==
  ASSUME NoneIsNoPayload, Recounted, [Next]_vars
  PROVE  Recounted' /\ [Histories!Next]_(Histories!vars)
<1>1. Lived' /\ Typed'
  BY LivedNext, TypedNext DEF Recounted
<1>2. /\ Tables /\ Callers /\ \A s \in Store : Kept(s) /\ Kept(s)'
      /\ \A envelope \in envelopes : Carried(envelope)
      /\ \A s \in Store : \A d : Chronicle(events[s], d)
  BY <1>1 DEF Recounted, Lived, IInv, Callers
<1>3. ASSUME UNCHANGED <<events, epoch_status>>
      PROVE  UNCHANGED Histories!vars /\ \A s \in Store : \A d : Chronicle(events'[s], d)
  BY <1>2, <1>3 DEF Histories!vars
<1>4. ASSUME NEW s \in Store, NEW expected, Write(s, expected)
      PROVE  [Histories!Next]_(Histories!vars) /\ \A t \in Store : \A d : Chronicle(events'[t], d)
  <2>1. PICK rows, e : Puts(s, rows, e)
    BY <1>2, <1>4, WriteDoes
  <2>2. \A t \in Store \ {s} : events'[t] = events[t]
    BY <1>2, <1>4, WriteDoes
  <2>3. Rows(events'[s])
    BY <1>2 DEF Kept
  <2>4. [Histories!Next]_(Histories!vars) /\ \A d : Chronicle(events'[s], d)
    BY <2>1, <2>2, <2>3, PutsTells
  <2> QED
    BY <1>2, <2>2, <2>4
<1>5. ASSUME NEW s \in Store, AbandonEpoch(s)
      PROVE  Histories!Next /\ \A t \in Store : \A d : Chronicle(events'[t], d)
  <2>1. events' = events /\ epoch_status' = [epoch_status EXCEPT ![s] = "abandoned"]
    BY <1>5 DEF AbandonEpoch
  <2>2. {t \in Store : epoch_status[t] = "abandoned"}' = {t \in Store : epoch_status[t] = "abandoned"} \cup {s}
    BY <1>2, <2>1 DEF Tables
  <2>3. Histories!Freeze(s)
    BY <2>1, <2>2 DEF Histories!Freeze
  <2> QED
    BY <1>2, <2>1, <2>3 DEF Histories!Next
<1>6. ASSUME NEW s \in Store, NEW d, NEW t, ExportTransfer(s, d, t)
      PROVE  UNCHANGED <<events, epoch_status>>
  BY <1>6 DEF ExportTransfer, files
<1>7. ASSUME NEW p \in Process, Read(p) PROVE UNCHANGED <<events, epoch_status>>
  BY <1>2, <1>7, ReadKeeps DEF files
<1>8. ASSUME NEW p \in Process, GuardedWrite(p)
      PROVE  view[p].store \in Store /\ Write(view[p].store, view[p].generation)
  BY <1>2, <1>8 DEF GuardedWrite, Callers, Seen
<1>9. ASSUME NEW p \in Process, GenerationMismatch(p) \/ Crash(p)
      PROVE  UNCHANGED <<events, epoch_status>>
  BY <1>9 DEF GenerationMismatch, Crash, files
<1> DEFINE told == ([Histories!Next]_(Histories!vars))
                   /\ \A s \in Store : \A d : Chronicle(events'[s], d)
<1>11. /\ UNCHANGED <<events, epoch_status>> => told
       /\ \A s \in Store : \A expected : Write(s, expected) => told
       /\ \A s \in Store : AbandonEpoch(s) => told
  BY <1>3, <1>4, <1>5
<1>12. UNCHANGED vars => UNCHANGED <<events, epoch_status>>
  BY DEF vars, files
<1> HIDE DEF told
<1>13. told
  BY <1>6, <1>7, <1>8, <1>9, <1>11, <1>12, Zenon DEF Next
<1> QED
  BY <1>1, <1>13 DEF Recounted, told

\* The stores keep linear histories, for any number of stores, decisions,
\* revisions and envelopes, whoever writes between whose statements: a history
\* grows by the revision that names its head and its seal, ends with a
\* revocation and stops with its epoch; what is borrowed is what its source
\* had, and never grows or is lent again.
THEOREM ImplementsHistoriesHolds ==
  ASSUME NoneIsNoPayload
  PROVE  Spec => ImplementsHistories
<1>1. Spec => []Recounted
  BY RecountedInit, RecountedNext, PTL DEF Spec
<1>2. Spec => Histories!Init /\ [][Histories!Next]_(Histories!vars)
  BY <1>1, RecountedInit, RecountedNext, PTL DEF Spec
<1> QED
  BY <1>2 DEF ImplementsHistories, Histories!Spec
=============================================================================
