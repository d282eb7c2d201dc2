------------------------ MODULE ReconciliationProofs ------------------------
(***************************************************************************)
(* That verify of the reconciliation journal is right, for any number of   *)
(* records, decisions, entries and storage defects.                        *)
(*                                                                         *)
(* Two ideas carry the proof.  What the anchor seals is what was           *)
(* committed, and a row that verify accepts is determined by its sealed    *)
(* columns.  And as long as storage has no defect, each reconciliation has *)
(* a head, so what append extends is an entry.                             *)
(***************************************************************************)
EXTENDS Reconciliation, SequenceTheorems, TLAPS

\* The fields of a row; what is in them may be anything.
Shaped(row) ==
  row = [id |-> row.id, revision |-> row.revision, preimage |-> row.preimage,
         content |-> row.content, payload |-> row.payload]

Row(row) ==
  /\ Shaped(row)
  /\ row.id \in ReconciliationId /\ row.revision \in 1..MaxReconciliationRevision
  /\ row.preimage \in {Preimage(d) : d \in Decision}

Typed ==
  /\ \E S : entries \in Seq(S)
  /\ \A n \in DOMAIN entries : Row(entries[n])
  /\ Len(entries) <= MaxEntries
  /\ epoch_status \in {"open", "abandoned"}
  /\ DOMAIN anchor = {"generation", "tail", "status"}
  /\ defects \in 0..MaxDamage

\* What was committed, the anchor seals.
Anchored ==
  /\ anchor.tail = ChainSeal(committed)
  /\ \E S : committed \in Seq(S)
  /\ \A n \in DOMAIN committed :
       Shaped(committed[n]) /\ committed[n].content = RecordSeal(committed[n].payload)

IsHead(id, n) == n \in RowsOf(id) /\ \A m \in RowsOf(id) : entries[m].revision <= entries[n].revision

\* Without defects, verify accepts, and every reconciliation has a head.
Sound ==
  defects = 0 => VerifyOk /\ \A id : RowsOf(id) = {} \/ \E n \in RowsOf(id) : IsHead(id, n)

IInv == Typed /\ Anchored /\ Sound

-----------------------------------------------------------------------------
\* A sequence is a function on 1..Len.
LEMMA SeqShape ==
  ASSUME NEW S, NEW s \in Seq(S)
  PROVE  /\ Len(s) \in Nat /\ DOMAIN s = 1..Len(s)
         /\ s = [n \in DOMAIN s |-> s[n]]
  OBVIOUS

\* Appending keeps what is there and puts one element behind it.
LEMMA AppendShape ==
  ASSUME NEW S, NEW s \in Seq(S), NEW x
  PROVE  /\ Append(s, x) \in Seq(S \cup {x})
         /\ Len(Append(s, x)) = Len(s) + 1
         /\ DOMAIN Append(s, x) = 1..Len(s) + 1
         /\ DOMAIN Append(s, x) = DOMAIN s \cup {Len(s) + 1} /\ Len(s) + 1 \notin DOMAIN s
         /\ \A n \in DOMAIN s : Append(s, x)[n] = s[n]
         /\ Append(s, x)[Len(s) + 1] = x
<1>1. s \in Seq(S \cup {x})
  OBVIOUS
<1> QED
  BY <1>1

\* Sealed columns determine a row that verify accepts.
LEMMA RowsFromSeals ==
  ASSUME NEW a, NEW b, Shaped(a), Shaped(b), SealedColumns(a) = SealedColumns(b),
         a.content = RecordSeal(a.payload), b.content = RecordSeal(b.payload)
  PROVE  a = b
<1>1. a.id = b.id /\ a.revision = b.revision /\ a.preimage = b.preimage /\ a.content = b.content
  BY DEF SealedColumns
<1>2. a.payload = b.payload
  BY <1>1 DEF RecordSeal, Seal
<1> QED
  BY <1>1, <1>2 DEF Shaped

LEMMA ChainsFromSeals ==
  ASSUME NEW s, NEW t, ChainSeal(s) = ChainSeal(t)
  PROVE  DOMAIN s = DOMAIN t /\ \A n \in DOMAIN s : SealedColumns(s[n]) = SealedColumns(t[n])
<1> DEFINE f == [n \in DOMAIN s |-> SealedColumns(s[n])]
           g == [n \in DOMAIN t |-> SealedColumns(t[n])]
<1>1. f = g
  BY DEF ChainSeal, Seal
<1>2. DOMAIN f = DOMAIN s /\ DOMAIN g = DOMAIN t
  OBVIOUS
<1>3. \A n \in DOMAIN s : f[n] = SealedColumns(s[n])
  OBVIOUS
<1>4. \A n \in DOMAIN t : g[n] = SealedColumns(t[n])
  OBVIOUS
<1> HIDE DEF f, g
<1> QED
  BY <1>1, <1>2, <1>3, <1>4

-----------------------------------------------------------------------------
LEMMA DamageFollows == ASSUME Typed, Anchored PROVE DamageStaysReported
<1> SUFFICES ASSUME VerifyOk PROVE entries = committed
  BY DEF DamageStaysReported
<1>1. ChainSeal(entries) = ChainSeal(committed)
  BY DEF VerifyOk, Anchor, Anchored
<1>2. DOMAIN entries = DOMAIN committed
      /\ \A n \in DOMAIN entries : SealedColumns(entries[n]) = SealedColumns(committed[n])
  BY <1>1, ChainsFromSeals
<1>3. \A n \in DOMAIN entries : entries[n].content = RecordSeal(entries[n].payload)
  BY DEF VerifyOk, EntryFinding
<1>4. \A n \in DOMAIN entries : entries[n] = committed[n]
  BY <1>2, <1>3, RowsFromSeals DEF Typed, Row, Anchored
<1>5. entries = [n \in DOMAIN entries |-> entries[n]]
  BY SeqShape DEF Typed
<1>6. committed = [n \in DOMAIN committed |-> committed[n]]
  BY SeqShape DEF Anchored
<1> QED
  BY <1>2, <1>4, <1>5, <1>6

LEMMA TypeFollows == ASSUME Typed PROVE TypeOK
<1> DEFINE R == [id : ReconciliationId, revision : 1..MaxReconciliationRevision,
                 preimage : {Preimage(d) : d \in Decision},
                 content : {entries[n].content : n \in DOMAIN entries},
                 payload : {entries[n].payload : n \in DOMAIN entries}]
<1>1. \A n \in DOMAIN entries : entries[n] \in R
  <2> SUFFICES ASSUME NEW n \in DOMAIN entries PROVE entries[n] \in R
    OBVIOUS
  <2> DEFINE row == entries[n]
  <2>1. /\ row.id \in ReconciliationId /\ row.revision \in 1..MaxReconciliationRevision
        /\ row.preimage \in {Preimage(d) : d \in Decision}
        /\ row.content \in {entries[k].content : k \in DOMAIN entries}
        /\ row.payload \in {entries[k].payload : k \in DOMAIN entries}
    BY DEF Typed, Row
  <2>2. Shaped(row)
    BY DEF Typed, Row
  <2> HIDE DEF row
  <2>3. row \in R
    BY <2>1, <2>2 DEF Shaped
  <2> QED
    BY <2>3 DEF row
<1> HIDE DEF R
<1>2. PICK S : entries \in Seq(S)
  BY DEF Typed
<1>3. entries \in Seq(R)
  BY <1>1, <1>2
<1> QED
  BY <1>3 DEF Typed, TypeOK, R

-----------------------------------------------------------------------------
LEMMA Start == Init => IInv
<1> SUFFICES ASSUME Init PROVE IInv
  OBVIOUS
<1>1. entries = <<>> /\ committed = <<>> /\ defects = 0 /\ epoch_status = "open"
      /\ anchor = Anchor(<<>>, "open")
  BY DEF Init
<1>2. <<>> \in Seq({}) /\ Len(<<>>) = 0 /\ DOMAIN <<>> = {}
  OBVIOUS
<1>3. Typed
  BY <1>1, <1>2, JournalBounds DEF Typed, Anchor
<1>4. Anchored
  BY <1>1, <1>2 DEF Anchored, Anchor
<1>5. VerifyOk
  BY <1>1, <1>2 DEF VerifyOk, PreimageForked
<1>6. \A id : RowsOf(id) = {}
  BY <1>1, <1>2 DEF RowsOf
<1> QED
  BY <1>3, <1>4, <1>5, <1>6 DEF IInv, Sound

-----------------------------------------------------------------------------
(* append_reconciliation.                                                  *)

\* The head that an append extends is an entry, and the highest of its
\* reconciliation; without one, there is no entry.
LEMMA HeadIsHighest ==
  ASSUME NEW id, Typed, RowsOf(id) = {} \/ \E n \in RowsOf(id) : IsHead(id, n)
  PROVE  \/ HeadRow(id) = 0 /\ RowsOf(id) = {}
         \/ HeadRow(id) # 0 /\ IsHead(id, HeadRow(id))
<1>1. CASE RowsOf(id) = {}
  BY <1>1 DEF HeadRow
<1>2. CASE RowsOf(id) # {}
  <2>1. IsHead(id, HeadRow(id))
    BY <1>2 DEF HeadRow, IsHead
  <2>2. HeadRow(id) \in 1..Len(entries)
    BY <2>1, SeqShape DEF IsHead, RowsOf, Typed
  <2> QED
    BY <2>1, <2>2, SeqShape DEF Typed
<1> QED
  BY <1>1, <1>2

LEMMA AppendTyped ==
  ASSUME Typed, NEW record, NEW decision \in Decision, NEW expected,
         record.id \in ReconciliationId, AppendReconciliation(record, decision, expected)
  PROVE  Typed'
<1>1. PICK S : entries \in Seq(S)
  BY DEF Typed
<1>2. entries' = Append(entries, Entry(record)) /\ UNCHANGED <<epoch_status, defects>>
  BY DEF AppendReconciliation
<1>3. Len(entries) < MaxEntries
  BY DEF AppendReconciliation, Writable
<1>4. Row(Entry(record))
  BY DEF AppendReconciliation, Admissible, PreimageMatches, Row, Shaped, Entry
<1>5. \A n \in DOMAIN entries' : Row(entries'[n])
  BY <1>1, <1>2, <1>4, AppendShape DEF Typed
<1>6. Len(entries') <= MaxEntries
  BY <1>1, <1>2, <1>3, AppendShape, SeqShape, JournalBounds
<1>7. DOMAIN anchor' = {"generation", "tail", "status"}
  BY DEF AppendReconciliation, Anchor
<1>8. \E T : entries' \in Seq(T)
  BY <1>1, <1>2, AppendShape
<1> QED
  BY <1>2, <1>5, <1>6, <1>7, <1>8 DEF Typed

LEMMA AppendAnchored ==
  ASSUME Typed, Anchored, Typed', NEW record, NEW decision, NEW expected,
         AppendReconciliation(record, decision, expected)
  PROVE  Anchored'
<1>1. PICK S : entries \in Seq(S)
  BY DEF Typed
<1>2. /\ entries' = Append(entries, Entry(record)) /\ committed' = entries'
      /\ anchor' = Anchor(entries', epoch_status) /\ VerifyOk
  BY DEF AppendReconciliation, Writable
<1>3. \A n \in DOMAIN entries : entries[n].content = RecordSeal(entries[n].payload)
  BY <1>2 DEF VerifyOk, EntryFinding
<1>4. Entry(record).content = RecordSeal(Entry(record).payload)
  BY DEF Entry
<1>5. \A n \in DOMAIN entries' : entries'[n].content = RecordSeal(entries'[n].payload)
  BY <1>1, <1>2, <1>3, <1>4, AppendShape
<1>6. \A n \in DOMAIN entries' : Shaped(entries'[n])
  BY DEF Typed, Row
<1>7. anchor'.tail = ChainSeal(entries')
  BY <1>2 DEF Anchor
<1> QED
  BY <1>2, <1>5, <1>6, <1>7 DEF Anchored, Typed

\* What verify and the heads say after an append, row by row.
LEMMA AppendSound ==
  ASSUME Typed, Sound, NEW record, NEW decision \in Decision, NEW expected,
         record.id \in ReconciliationId,
         AppendReconciliation(record, decision, expected)
  PROVE  Sound'
<1> SUFFICES ASSUME defects = 0
             PROVE  VerifyOk' /\ \A id : (RowsOf(id) = {} \/ \E n \in RowsOf(id) : IsHead(id, n))'
  BY DEF Sound, AppendReconciliation
<1> DEFINE new == Len(entries) + 1
           head == HeadRow(record.id)
<1>1. PICK S : entries \in Seq(S)
  BY DEF Typed
<1>2. /\ entries' = Append(entries, Entry(record)) /\ VerifyOk
      /\ anchor' = Anchor(entries', epoch_status) /\ UNCHANGED epoch_status
      /\ ExtendsHead(record) /\ record.binding = Binding /\ Admissible(record)
  BY DEF AppendReconciliation, Writable
<1>3. /\ DOMAIN entries' = DOMAIN entries \cup {new} /\ new \notin DOMAIN entries
      /\ \A n \in DOMAIN entries : entries'[n] = entries[n]
      /\ entries'[new] = Entry(record)
  BY <1>1, <1>2, AppendShape
<1>4. \A id : RowsOf(id) = {} \/ \E n \in RowsOf(id) : IsHead(id, n)
  BY DEF Sound
<1>5. \/ head = 0 /\ RowsOf(record.id) = {}
      \/ head # 0 /\ IsHead(record.id, head)
  BY <1>4, HeadIsHighest
<1> HIDE DEF new, head
<1>6. \A id : RowsOf(id)' = RowsOf(id) \cup (IF id = record.id THEN {new} ELSE {})
  BY <1>3 DEF RowsOf, Entry
<1>7. \/ RowsOf(record.id) = {} /\ record.revision = 1 /\ PreimageUnclaimed(record)
      \/ /\ IsHead(record.id, head)
         /\ record.revision = entries[head].revision + 1
         /\ record.supersedes = entries[head].content
         /\ record.preimage = entries[head].preimage
  BY <1>2, <1>5 DEF ExtendsHead, head
<1>8. \A n \in DOMAIN entries' : ~EntryFinding(entries[n])'
  <2> SUFFICES ASSUME NEW n \in DOMAIN entries' PROVE ~EntryFinding(entries[n])'
    OBVIOUS
  <2>1. CASE n \in DOMAIN entries
    <3>1. ~EntryFinding(entries[n])
      BY <1>2, <2>1 DEF VerifyOk
    <3>2. entries'[n] = entries[n]
      BY <1>3, <2>1
    <3>3. ASSUME RevisionLinked(entries[n]) PROVE RevisionLinked(entries[n])'
      <4>1. PICK m \in RowsOf(entries[n].id) :
              /\ entries[m].revision = entries[n].revision - 1
              /\ entries[m].content = entries[n].payload.supersedes
        BY <3>3 DEF RevisionLinked
      <4>2. m \in RowsOf(entries[n].id)'
        BY <4>1, <1>6, <3>2
      <4>3. entries'[m] = entries[m]
        BY <4>1, <1>3 DEF RowsOf
      <4> QED
        BY <4>1, <4>2, <4>3, <3>2 DEF RevisionLinked
    <3> QED
      BY <3>1, <3>2, <3>3 DEF EntryFinding
  <2>2. CASE n = new
    <3>1. entries'[n] = Entry(record)
      BY <1>3, <2>2
    <3>2. ASSUME record.revision > 1 PROVE RevisionLinked(entries[n])'
      <4>1. IsHead(record.id, head) /\ record.revision = entries[head].revision + 1
            /\ record.supersedes = entries[head].content
        BY <1>7, <3>2
      <4>2. head \in RowsOf(record.id)' /\ entries'[head] = entries[head]
        BY <4>1, <1>3, <1>6 DEF IsHead, RowsOf
      <4>3. entries[head].revision \in Nat
        BY <4>1 DEF IsHead, RowsOf, Typed, Row
      <4> QED
        BY <4>1, <4>2, <4>3, <3>1 DEF RevisionLinked, Entry
    <3> QED
      BY <3>1, <3>2, <1>2 DEF EntryFinding, Entry
  <2> QED
    BY <2>1, <2>2, <1>3
<1>9. \A n, m \in DOMAIN entries' :
        entries'[n].preimage = entries'[m].preimage => entries'[n].id = entries'[m].id
  <2>1. \A n, m \in DOMAIN entries :
          entries[n].preimage = entries[m].preimage => entries[n].id = entries[m].id
    BY <1>2 DEF VerifyOk, PreimageForked
  <2>2. \A n \in DOMAIN entries : entries[n].preimage = record.preimage => entries[n].id = record.id
    BY <2>1, <1>7 DEF PreimageUnclaimed, IsHead, RowsOf
  <2>3. Entry(record).preimage = record.preimage /\ Entry(record).id = record.id
    BY DEF Entry
  <2> QED
    BY <2>1, <2>2, <2>3, <1>3
<1>10. VerifyOk'
  BY <1>2, <1>8, <1>9 DEF VerifyOk, PreimageForked
<1>11. ASSUME NEW id
       PROVE  (RowsOf(id) = {} \/ \E n \in RowsOf(id) : IsHead(id, n))'
  <2>1. CASE id # record.id
    <3>1. RowsOf(id)' = RowsOf(id)
      BY <1>6, <2>1
    <3>2. \A m \in RowsOf(id) : entries'[m] = entries[m]
      BY <1>3 DEF RowsOf
    <3> QED
      BY <1>4, <3>1, <3>2 DEF IsHead
  <2>2. CASE id = record.id
    <3>1. new \in RowsOf(id)' /\ entries'[new].revision = record.revision
      BY <1>3, <1>6, <2>2 DEF Entry
    <3>2. ASSUME NEW m \in RowsOf(id)' PROVE entries'[m].revision <= record.revision
      <4>1. CASE m = new
        BY <4>1, <3>1, <1>2 DEF Admissible
      <4>2. CASE m # new
        <5>1. m \in RowsOf(id) /\ m \in DOMAIN entries
          BY <4>2, <1>6, <2>2, <3>2 DEF RowsOf
        <5>2. /\ head \in DOMAIN entries /\ entries[m].revision <= entries[head].revision
              /\ record.revision = entries[head].revision + 1
          BY <5>1, <1>7, <2>2 DEF IsHead, RowsOf
        <5>3. entries[m].revision \in Nat /\ entries[head].revision \in Nat
          BY <5>1, <5>2 DEF Typed, Row
        <5> QED
          BY <5>1, <5>2, <5>3, <1>3
      <4> QED
        BY <4>1, <4>2
    <3> QED
      BY <3>1, <3>2 DEF IsHead
  <2> QED
    BY <2>1, <2>2
<1> QED
  BY <1>10, <1>11

-----------------------------------------------------------------------------
(* abandon_epoch, and the disk.                                            *)

\* Closing an epoch writes a new anchor, of what the old one sealed.
LEMMA AbandonKeeps == ASSUME IInv, AbandonEpoch PROVE IInv'
<1>1. /\ VerifyOk /\ epoch_status' = "abandoned" /\ anchor' = Anchor(entries, "abandoned")
      /\ UNCHANGED <<entries, committed, defects>>
  BY DEF AbandonEpoch
<1>2. Typed'
  BY <1>1 DEF IInv, Typed, Anchor, Row, Shaped
<1>3. anchor'.tail = anchor.tail
  BY <1>1 DEF VerifyOk, Anchor
<1>4. Anchored'
  BY <1>1, <1>3 DEF IInv, Anchored, Shaped
<1>5. VerifyOk'
  BY <1>1 DEF VerifyOk, EntryFinding, RevisionLinked, RowsOf, PreimageForked
<1>6. Sound'
  BY <1>1, <1>5 DEF IInv, Sound, RowsOf, IsHead
<1> QED
  BY <1>2, <1>4, <1>6 DEF IInv

LEMMA DefectKeeps == ASSUME IInv, StorageDefect PROVE IInv'
<1>1. /\ defects < MaxDamage /\ defects' = defects + 1 /\ UNCHANGED <<anchor, committed>>
      /\ entries # <<>>
  BY DEF StorageDefect
<1>2. defects \in Nat /\ defects' \in 0..MaxDamage /\ defects' # 0
  BY <1>1, JournalBounds DEF IInv, Typed
<1>3. Anchored'
  BY <1>1 DEF IInv, Anchored, Shaped
<1>4. PICK S : entries \in Seq(S)
  BY DEF IInv, Typed
<1>5. /\ \E T : entries' \in Seq(T)
      /\ \A n \in DOMAIN entries' : Row(entries'[n])
      /\ Len(entries') <= MaxEntries /\ epoch_status' \in {"open", "abandoned"}
  <2>1. CASE entries' = SubSeq(entries, 1, Len(entries) - 1) /\ UNCHANGED epoch_status
    <3>1. Len(entries) \in Nat /\ Len(entries) > 0
      BY <1>1, <1>4
    <3>2. /\ entries' \in Seq(S) /\ Len(entries') = Len(entries) - 1
          /\ \A n \in 1..Len(entries) - 1 : entries'[n] = entries[n]
      <4> DEFINE len == Len(entries)
      <4>1. len - 1 \in Int /\ \A n \in 1..len - 1 : entries[n] \in S
        BY <3>1, <1>4
      <4> DEFINE kept == SubSeq(entries, 1, len - 1)
      <4>2. /\ kept \in Seq(S)
            /\ Len(kept) = IF 1 <= len - 1 THEN len - 1 - 1 + 1 ELSE 0
            /\ \A n \in 1..(len - 1) - 1 + 1 : kept[n] = entries[1 + n - 1]
        BY <4>1, SubSeqProperties
      <4>3. entries' = kept
        BY <2>1
      <4> HIDE DEF kept
      <4>4. Len(kept) = len - 1
        <5> DEFINE short == Len(kept)
        <5>1. short = IF 1 <= len - 1 THEN len - 1 - 1 + 1 ELSE 0
          BY <4>2
        <5>2. len \in Nat /\ len > 0
          BY <3>1
        <5> HIDE DEF short, len
        <5>3. short = len - 1
          BY <5>1, <5>2
        <5> QED
          BY <5>3 DEF short
      <4>5. \A n \in 1..len - 1 : kept[n] = entries[n]
        <5> SUFFICES ASSUME NEW n \in 1..len - 1 PROVE kept[n] = entries[n]
          OBVIOUS
        <5>1. n \in 1..(len - 1) - 1 + 1 /\ 1 + n - 1 = n
          BY <3>1
        <5> QED
          BY <5>1, <4>2
      <4> QED
        BY <4>2, <4>3, <4>4, <4>5
    <3>3. DOMAIN entries' = 1..Len(entries) - 1
      BY <3>2, SeqShape
    <3>4. DOMAIN entries = 1..Len(entries) /\ \A n \in DOMAIN entries : Row(entries[n])
      BY <1>4, SeqShape DEF IInv, Typed
    <3>5. \A n \in DOMAIN entries' : Row(entries'[n])
      BY <3>1, <3>2, <3>3, <3>4
    <3>6. Len(entries') <= MaxEntries
      BY <3>1, <3>2, JournalBounds DEF IInv, Typed
    <3> QED
      BY <2>1, <3>2, <3>5, <3>6 DEF IInv, Typed
  <2>2. CASE /\ \E n \in DOMAIN entries : entries' = [entries EXCEPT ![n].payload.seen = None]
             /\ UNCHANGED epoch_status
    <3>1. PICK k \in DOMAIN entries : entries' = [entries EXCEPT ![k].payload.seen = None]
      BY <2>2
    <3> DEFINE row == [entries[k] EXCEPT !.payload.seen = None]
    <3>2. entries' = [entries EXCEPT ![k] = row]
      BY <3>1
    <3>3. Row(row)
      <4>1. Row(entries[k])
        BY DEF IInv, Typed
      <4> DEFINE kept == entries[k]
      <4>2. Row(kept)
        BY <4>1
      <4> HIDE DEF kept
      <4>3. Row([kept EXCEPT !.payload = [kept.payload EXCEPT !.seen = None]])
        BY <4>2 DEF Row, Shaped
      <4> QED
        BY <4>3 DEF kept
    <3> HIDE DEF row
    <3>4. entries' \in Seq(S \cup {row}) /\ Len(entries') = Len(entries)
      BY <3>2, <1>4
    <3>5. DOMAIN entries' = DOMAIN entries
          /\ \A n \in DOMAIN entries : entries'[n] = IF n = k THEN row ELSE entries[n]
      BY <3>2, <1>4
    <3> QED
      BY <2>2, <3>3, <3>4, <3>5 DEF IInv, Typed
  <2>3. CASE /\ epoch_status' = IF epoch_status = "open" THEN "abandoned" ELSE "open"
             /\ UNCHANGED entries
    BY <2>3 DEF IInv, Typed, Row, Shaped
  <2> QED
    BY <2>1, <2>2, <2>3 DEF StorageDefect
<1>6. Typed'
  BY <1>1, <1>2, <1>5 DEF IInv, Typed
<1>7. Sound'
  BY <1>2 DEF Sound
<1> QED
  BY <1>3, <1>6, <1>7 DEF IInv

-----------------------------------------------------------------------------
LEMMA NextKeeps == ASSUME IInv, [Next]_vars PROVE IInv'
<1>1. CASE AbandonEpoch
  BY <1>1, AbandonKeeps
<1>2. ASSUME NEW record, NEW decision \in Decision, NEW expected,
             record.id \in ReconciliationId, AppendReconciliation(record, decision, expected)
      PROVE  IInv'
  BY <1>2, AppendTyped, AppendAnchored, AppendSound DEF IInv
<1>3. CASE StorageDefect
  BY <1>3, DefectKeeps
<1>4. CASE UNCHANGED vars
  <2>1. UNCHANGED <<entries, epoch_status, anchor, committed, defects>>
    BY <1>4 DEF vars, journal
  <2>2. Typed'
    BY <2>1 DEF IInv, Typed, Row, Shaped
  <2>3. Anchored'
    BY <2>1 DEF IInv, Anchored, Shaped
  <2>4. VerifyOk' <=> VerifyOk
    BY <2>1 DEF VerifyOk, EntryFinding, RevisionLinked, RowsOf, PreimageForked
  <2>5. Sound'
    BY <2>1, <2>4 DEF IInv, Sound, RowsOf, IsHead
  <2> QED
    BY <2>2, <2>3, <2>5 DEF IInv
<1> QED
  BY <1>1, <1>2, <1>3, <1>4 DEF Next, Write

LEMMA IInvHolds == Spec => []IInv
BY Start, NextKeeps, PTL DEF Spec

\* verify accepts whatever legal use makes of the journal, and it reports
\* for ever what storage made of it, whatever is called since.
THEOREM VerifyIsRightHolds == Spec => []VerifyIsRight
<1>1. IInv => VerifyIsRight
  <2> SUFFICES ASSUME IInv PROVE VerifyIsRight
    OBVIOUS
  <2>1. LegalUseVerifies
    BY DEF IInv, Sound, LegalUseVerifies
  <2> QED
    BY <2>1, TypeFollows, DamageFollows DEF IInv, VerifyIsRight
<1> QED
  BY <1>1, IInvHolds, PTL

-----------------------------------------------------------------------------
(* The narratives that were committed.                                     *)

Revisions(d) == {committed[n].revision : n \in RowsAbout(d)}

\* Each preimage has one reconciliation and each reconciliation one
\* preimage, and its revisions are numbered without a gap.
Narrated ==
  /\ \A n \in DOMAIN committed :
       /\ committed[n].id \in ReconciliationId
       /\ committed[n].preimage \in {Preimage(d) : d \in Decision}
  /\ \A n, m \in DOMAIN committed :
       /\ committed[n].preimage = committed[m].preimage <=> committed[n].id = committed[m].id
       /\ committed[n].id = committed[m].id /\ committed[n].revision = committed[m].revision
            => n = m
  /\ \A d \in Decision : \E k \in Nat : Revisions(d) = 1..k

LEMMA PreimagesDiffer ==
  ASSUME NEW d, NEW e, Preimage(d) = Preimage(e) PROVE d = e
BY DEF Preimage, Seal

\* What an append adds to what was committed.
Adds(new, row) ==
  /\ DOMAIN committed' = DOMAIN committed \cup {new} /\ new \notin DOMAIN committed
  /\ \A n \in DOMAIN committed : committed'[n] = committed[n]
  /\ committed'[new] = row

LEMMA AppendAdds ==
  ASSUME IInv, NEW record, NEW decision, NEW expected,
         AppendReconciliation(record, decision, expected)
  PROVE  entries = committed /\ Adds(Len(entries) + 1, Entry(record))
<1>1. VerifyOk /\ entries' = Append(entries, Entry(record)) /\ committed' = entries'
  BY DEF AppendReconciliation, Writable
<1>2. entries = committed
  BY <1>1, DamageFollows DEF IInv, DamageStaysReported
<1>3. PICK S : entries \in Seq(S)
  BY DEF IInv, Typed
<1> QED
  BY <1>1, <1>2, <1>3, AppendShape DEF Adds

LEMMA AddedRows ==
  ASSUME NEW new, NEW row, Adds(new, row), NEW d, row.preimage = Preimage(d)
  PROVE  /\ RowsAbout(d)' = RowsAbout(d) \cup {new}
         /\ Revisions(d)' = Revisions(d) \cup {row.revision}
         /\ \A e : e # d => RowsAbout(e)' = RowsAbout(e) /\ Revisions(e)' = Revisions(e)
<1>1. \A e : RowsAbout(e)' = IF e = d THEN RowsAbout(e) \cup {new} ELSE RowsAbout(e)
  BY PreimagesDiffer DEF RowsAbout, Adds
<1>2. \A e : \A n \in RowsAbout(e) : committed'[n] = committed[n]
  BY DEF RowsAbout, Adds
<1> QED
  BY <1>1, <1>2 DEF Revisions, Adds

\* An append begins the narrative of a decision, or continues the one that
\* its reconciliation tells.
Begins(record, d) ==
  /\ RowsOf(record.id) = {} /\ RowsAbout(d) = {} /\ record.revision = 1

Continues(record, d) ==
  /\ RowsOf(record.id) = RowsAbout(d) /\ RowsAbout(d) # {}
  /\ \E k \in Nat : Revisions(d) = 1..k /\ record.revision = k + 1

LEMMA AppendTells ==
  ASSUME IInv, Narrated, NEW record, NEW d \in Decision, NEW expected,
         AppendReconciliation(record, d, expected)
  PROVE  Begins(record, d) \/ Continues(record, d)
<1> DEFINE id == record.id
           head == HeadRow(id)
<1>1. entries = committed /\ ExtendsHead(record) /\ record.preimage = Preimage(d)
  BY AppendAdds DEF AppendReconciliation, PreimageMatches
<1>2. \A n \in DOMAIN entries : entries[n].revision \in Nat
  BY DEF IInv, Typed, Row
<1>3. CASE RowsOf(id) = {}
  <2>1. head = 0
    BY <1>3 DEF HeadRow
  <2>2. record.revision = 1 /\ PreimageUnclaimed(record)
    BY <1>1, <2>1 DEF ExtendsHead
  <2> QED
    BY <1>1, <1>3, <2>2 DEF Begins, PreimageUnclaimed, RowsAbout
<1>4. CASE RowsOf(id) # {}
  <2>1. PICK n \in RowsOf(id) : TRUE
    BY <1>4
  <2>2. PICK e \in Decision : entries[n].preimage = Preimage(e)
    BY <1>1, <2>1 DEF Narrated, RowsOf
  <2>3. RowsOf(id) = RowsAbout(e)
    BY <1>1, <2>1, <2>2 DEF Narrated, RowsOf, RowsAbout
  <2>4. PICK k \in Nat : Revisions(e) = 1..k
    BY DEF Narrated
  <2>5. \A m \in RowsOf(id) : entries[m].revision \in 1..k
    BY <1>1, <2>3, <2>4 DEF Revisions
  <2>6. k \in 1..k
    BY <2>1, <2>4, <2>5
  <2>7. PICK top \in RowsOf(id) : entries[top].revision = k
    BY <1>1, <2>3, <2>4, <2>6 DEF Revisions
  <2>8. IsHead(id, top)
    BY <2>4, <2>5, <2>7 DEF IsHead
  <2>9. head # 0 /\ IsHead(id, head)
    BY <1>4, <2>7, <2>8, HeadIsHighest DEF IInv
  <2> HIDE DEF head
  <2>10. head \in RowsOf(id) /\ entries[head].revision = k
    BY <2>4, <2>5, <2>7, <2>9 DEF IsHead
  <2>11. record.revision = k + 1 /\ record.preimage = entries[head].preimage
    BY <1>1, <2>9, <2>10 DEF ExtendsHead, head
  <2>12. e = d
    BY <1>1, <2>3, <2>10, <2>11, PreimagesDiffer DEF RowsAbout
  <2> QED
    BY <1>4, <2>3, <2>4, <2>11, <2>12 DEF Continues
<1> QED
  BY <1>3, <1>4

LEMMA AppendNarrated ==
  ASSUME IInv, Narrated, NEW record, NEW d \in Decision, NEW expected,
         record.id \in ReconciliationId, AppendReconciliation(record, d, expected)
  PROVE  Narrated'
<1> DEFINE new == Len(entries) + 1
           row == Entry(record)
<1>1. /\ row.id = record.id /\ row.preimage = Preimage(d) /\ row.revision = record.revision
      /\ entries = committed /\ Adds(new, row)
  BY AppendAdds DEF Entry, AppendReconciliation, PreimageMatches
<1> HIDE DEF new, row
<1>2. \A n \in DOMAIN committed :
        (committed[n].preimage = row.preimage <=> committed[n].id = row.id)
        /\ ~(committed[n].id = row.id /\ committed[n].revision = row.revision)
  <2>1. CASE Begins(record, d)
    BY <1>1, <2>1 DEF Begins, RowsOf, RowsAbout
  <2>2. CASE Continues(record, d)
    <3>1. PICK k \in Nat : Revisions(d) = 1..k /\ record.revision = k + 1
      BY <2>2 DEF Continues
    <3>2. k + 1 \notin 1..k
      BY <3>1
    <3>3. RowsOf(record.id) = RowsAbout(d)
      BY <2>2 DEF Continues
    <3>4. \A n \in RowsAbout(d) : committed[n].revision # record.revision
      BY <3>1, <3>2 DEF Revisions
    <3> QED
      BY <1>1, <3>3, <3>4 DEF RowsOf, RowsAbout
  <2> QED
    BY <2>1, <2>2, AppendTells
<1>3. \A e \in Decision : \E k \in Nat : Revisions(e)' = 1..k
  <2> SUFFICES ASSUME NEW e \in Decision PROVE \E k \in Nat : Revisions(e)' = 1..k
    OBVIOUS
  <2>1. CASE e # d
    BY <1>1, <2>1, AddedRows DEF Narrated
  <2>2. CASE e = d /\ Begins(record, d)
    <3>1. Revisions(d) = {} /\ record.revision = 1
      BY <2>2 DEF Begins, Revisions
    <3>2. Revisions(d)' = 1..1
      BY <1>1, <3>1, AddedRows
    <3> QED
      BY <2>2, <3>2
  <2>3. CASE e = d /\ Continues(record, d)
    <3>1. PICK k \in Nat : Revisions(d) = 1..k /\ record.revision = k + 1
      BY <2>3 DEF Continues
    <3>2. Revisions(d)' = 1..k \cup {k + 1}
      BY <1>1, <3>1, AddedRows
    <3>3. 1..k \cup {k + 1} = 1..(k + 1)
      OBVIOUS
    <3> QED
      BY <2>3, <3>2, <3>3
  <2> QED
    BY <2>1, <2>2, <2>3, AppendTells
<1>4. \A n \in DOMAIN committed' :
        committed'[n].id \in ReconciliationId
        /\ committed'[n].preimage \in {Preimage(e) : e \in Decision}
  BY <1>1 DEF Narrated, Adds
<1>5. \A n, m \in DOMAIN committed' :
        /\ committed'[n].preimage = committed'[m].preimage <=> committed'[n].id = committed'[m].id
        /\ committed'[n].id = committed'[m].id /\ committed'[n].revision = committed'[m].revision
             => n = m
  BY <1>1, <1>2 DEF Narrated, Adds
<1> QED
  BY <1>3, <1>4, <1>5 DEF Narrated

-----------------------------------------------------------------------------
(* Each write is a step of the narratives.                                 *)

\* The one who tells of a decision is the one of any of its rows.
LEMMA TellerIs ==
  ASSUME Narrated, NEW d, NEW n \in RowsAbout(d)
  PROVE  TellerOf(d) = committed[n].id
<1> DEFINE m == CHOOSE m \in RowsAbout(d) : TRUE
<1>1. m \in RowsAbout(d)
  OBVIOUS
<1> HIDE DEF m
<1>2. committed[m].id = committed[n].id
  BY <1>1 DEF Narrated, RowsAbout
<1> QED
  BY <1>2 DEF TellerOf, m

LEMMA ChapterIs ==
  ASSUME Narrated, NEW d, NEW n \in RowsAbout(d)
  PROVE  ChaptersOf(d)[committed[n].revision] = committed[n].payload.seen
<1> DEFINE r == committed[n].revision
           first == CHOOSE m \in RowsAbout(d) : committed[m].revision = r
<1>1. first \in RowsAbout(d) /\ committed[first].revision = r
  OBVIOUS
<1>2. r \in {committed[m].revision : m \in RowsAbout(d)}
  OBVIOUS
<1> HIDE DEF r
<1>3. ChaptersOf(d)[r] = committed[first].payload.seen
  BY <1>2 DEF ChaptersOf
<1> HIDE DEF first
<1>4. first = n
  BY <1>1 DEF Narrated, RowsAbout, r
<1> QED
  BY <1>3, <1>4 DEF r

\* What an append leaves of the narratives of other decisions.
LEMMA OthersStay ==
  ASSUME NEW new, NEW row, Adds(new, row), NEW d, row.preimage = Preimage(d), NEW e, e # d
  PROVE  UNCHANGED <<TellerOf(e), ChaptersOf(e)>>
<1>1. RowsAbout(e)' = RowsAbout(e) /\ \A n \in RowsAbout(e) : committed'[n] = committed[n]
  BY AddedRows DEF RowsAbout, Adds
<1>2. TellerOf(e)' = TellerOf(e)
  <2> DEFINE n == CHOOSE n \in RowsAbout(e) : TRUE
  <2>1. RowsAbout(e) # {} => n \in RowsAbout(e)
    OBVIOUS
  <2>2. n' = n
    BY <1>1
  <2> HIDE DEF n
  <2>3. RowsAbout(e) # {} => committed'[n'] = committed[n]
    BY <1>1, <2>1, <2>2
  <2> QED
    BY <1>1, <2>3 DEF TellerOf, n
<1>3. ChaptersOf(e)' = ChaptersOf(e)
  <2> DEFINE R == {committed[n].revision : n \in RowsAbout(e)}
             At(r) == CHOOSE n \in RowsAbout(e) : committed[n].revision = r
             Next1(r) == CHOOSE n \in RowsAbout(e) : committed'[n].revision = r
  <2>1. R' = R
    BY <1>1
  <2>2. ASSUME NEW r \in R PROVE committed'[Next1(r)] = committed[At(r)]
    <3>1. At(r) \in RowsAbout(e)
      OBVIOUS
    <3>2. \A n \in RowsAbout(e) : committed'[n].revision = r <=> committed[n].revision = r
      BY <1>1
    <3>3. Next1(r) = At(r)
      BY <3>2
    <3> HIDE DEF At, Next1
    <3> QED
      BY <1>1, <3>1, <3>3
  <2>3. ChaptersOf(e)' = [r \in R |-> committed'[Next1(r)].payload.seen]
    BY <1>1, <2>1 DEF ChaptersOf
  <2>4. ChaptersOf(e) = [r \in R |-> committed[At(r)].payload.seen]
    BY DEF ChaptersOf
  <2> HIDE DEF R, At, Next1
  <2> QED
    BY <2>2, <2>3, <2>4
<1> QED
  BY <1>2, <1>3

\* The chapters of a decision are a sequence of as many as it has revisions.
LEMMA ChaptersAre ==
  ASSUME NEW d, NEW k \in Nat, Revisions(d) = 1..k
  PROVE  /\ \E S : ChaptersOf(d) \in Seq(S)
         /\ Len(ChaptersOf(d)) = k /\ DOMAIN ChaptersOf(d) = 1..k
         /\ ChaptersOf(d) = [r \in 1..k |-> ChaptersOf(d)[r]]
<1> DEFINE At(r) == committed[CHOOSE n \in RowsAbout(d) : committed[n].revision = r].payload.seen
           chapters == ChaptersOf(d)
           S == {At(r) : r \in 1..k}
<1>1. chapters = [r \in 1..k |-> At(r)]
  BY DEF ChaptersOf, Revisions
<1> HIDE DEF At, chapters
<1>2. chapters \in Seq(S)
  BY <1>1
<1>3. Len(chapters) = k /\ DOMAIN chapters = 1..k
  BY <1>1
<1>4. chapters = [r \in 1..k |-> chapters[r]]
  BY <1>1
<1> QED
  BY <1>2, <1>3, <1>4 DEF chapters

LEMMA AppendIsChapter ==
  ASSUME IInv, Narrated, Narrated', NEW record, NEW d \in Decision, NEW expected,
         record.id \in ReconciliationId, record.seen \in Observation,
         AppendReconciliation(record, d, expected)
  PROVE  Abstract!Next
<1> DEFINE new == Len(entries) + 1
           row == Entry(record)
           teller == [e \in Decision |-> TellerOf(e)]
           chapters == [e \in Decision |-> ChaptersOf(e)]
           closed == anchor.status = "abandoned"
<1>1. /\ row.id = record.id /\ row.preimage = Preimage(d) /\ row.revision = record.revision
      /\ row.payload.seen = record.seen
      /\ entries = committed /\ Adds(new, row)
  BY AppendAdds DEF Entry, AppendReconciliation, PreimageMatches
<1>2. anchor.status = "open" /\ anchor'.status = "open"
  BY DEF AppendReconciliation, Writable, VerifyOk, Anchor
<1>3. ~closed /\ UNCHANGED closed
  BY <1>2
<1> HIDE DEF new, row
<1>4. new \in RowsAbout(d)' /\ committed'[new] = row
  BY <1>1, AddedRows DEF Adds
<1>5. TellerOf(d)' = record.id
  <2>1. \A n \in RowsAbout(d)' : TellerOf(d)' = committed'[n].id
    <3>1. ASSUME NEW n, n \in RowsAbout(d)' PROVE TellerOf(d)' = committed'[n].id
      <4> DEFINE m == CHOOSE m \in RowsAbout(d)' : TRUE
      <4>1. m \in RowsAbout(d)'
        BY <3>1
      <4>2. TellerOf(d)' = committed'[m].id
        BY <3>1 DEF TellerOf
      <4> HIDE DEF m
      <4>3. committed'[m].id = committed'[n].id
        BY <3>1, <4>1 DEF Narrated, RowsAbout
      <4> QED
        BY <4>2, <4>3
    <3> QED
      BY <3>1
  <2> QED
    BY <1>1, <1>4, <2>1
<1>6. teller' = [teller EXCEPT ![d] = record.id]
  <2>1. \A e \in Decision : e # d => TellerOf(e)' = TellerOf(e)
    BY <1>1, OthersStay
  <2> QED
    BY <1>5, <2>1
<1>7. ChaptersOf(d)'[record.revision] = record.seen
  <2> DEFINE r == record.revision
             first == CHOOSE m \in RowsAbout(d)' : committed'[m].revision = r
  <2>1. first \in RowsAbout(d)' /\ committed'[first].revision = r
    BY <1>1, <1>4
  <2>2. r \in {committed'[m].revision : m \in RowsAbout(d)'}
    BY <1>1, <1>4
  <2> HIDE DEF r
  <2>3. ChaptersOf(d)'[r] = committed'[first].payload.seen
    BY <2>2 DEF ChaptersOf
  <2> HIDE DEF first
  <2>4. first = new
    BY <1>1, <1>4, <2>1 DEF Narrated, RowsAbout, r
  <2> QED
    BY <1>1, <1>4, <2>3, <2>4 DEF r
<1>8. CASE Begins(record, d)
  <2>1. teller[d] = None /\ \A e \in Decision : teller[e] # record.id
    <3>1. TellerOf(d) = None
      BY <1>8 DEF Begins, TellerOf
    <3>2. ASSUME NEW e \in Decision PROVE TellerOf(e) # record.id
      <4>1. CASE RowsAbout(e) = {}
        BY <4>1, NobodyReconciles DEF TellerOf
      <4>2. CASE RowsAbout(e) # {}
        <5>1. PICK n \in RowsAbout(e) : TellerOf(e) = committed[n].id
          BY <4>2, TellerIs
        <5> QED
          BY <1>1, <1>8, <5>1 DEF Begins, RowsOf, RowsAbout
      <4> QED
        BY <4>1, <4>2
    <3> QED
      BY <3>1, <3>2
  <2>2. ChaptersOf(d)' = <<record.seen>>
    <3>1. Revisions(d) = {} /\ record.revision = 1
      BY <1>8 DEF Begins, Revisions
    <3>2. Revisions(d)' = 1..1
      BY <1>1, <3>1, AddedRows
    <3>3. ChaptersOf(d)' = [r \in 1..1 |-> ChaptersOf(d)'[r]]
      BY <3>2 DEF ChaptersOf, Revisions
    <3> DEFINE f == ChaptersOf(d)'
    <3>4. f = [r \in 1..1 |-> f[r]] /\ f[1] = record.seen
      BY <1>7, <3>1, <3>3
    <3> HIDE DEF f
    <3>5. f = <<record.seen>>
      BY <3>4
    <3> QED
      BY <3>5 DEF f
  <2>3. chapters' = [chapters EXCEPT ![d] = <<record.seen>>]
    <3>1. \A e \in Decision : e # d => ChaptersOf(e)' = ChaptersOf(e)
      BY <1>1, OthersStay
    <3> QED
      BY <2>2, <3>1
  <2>4. Abstract!Begin(d, record.id, record.seen)
    BY <1>3, <1>6, <2>1, <2>3 DEF Abstract!Begin
  <2> QED
    BY <2>4 DEF Abstract!Next
<1>9. CASE Continues(record, d)
  <2>1. PICK k \in Nat : Revisions(d) = 1..k /\ record.revision = k + 1
    BY <1>9 DEF Continues
  <2>2. PICK n \in RowsAbout(d) : n \in RowsOf(record.id)
    BY <1>9 DEF Continues
  <2>3. TellerOf(d) = record.id
    BY <1>1, <2>2, TellerIs DEF RowsOf
  <2>4. teller[d] # None /\ UNCHANGED teller
    BY <1>6, <2>3, NobodyReconciles
  <2>5. Revisions(d)' = 1..(k + 1)
    <3>1. Revisions(d)' = 1..k \cup {k + 1}
      BY <1>1, <2>1, AddedRows
    <3>2. 1..k \cup {k + 1} = 1..(k + 1)
      OBVIOUS
    <3> QED
      BY <3>1, <3>2
  <2>6. \A r \in 1..k : ChaptersOf(d)'[r] = ChaptersOf(d)[r]
    <3> SUFFICES ASSUME NEW r \in 1..k PROVE ChaptersOf(d)'[r] = ChaptersOf(d)[r]
      OBVIOUS
    <3>1. PICK m \in RowsAbout(d) : committed[m].revision = r
      BY <2>1 DEF Revisions
    <3>2. ChaptersOf(d)[r] = committed[m].payload.seen
      BY <3>1, ChapterIs
    <3>3. m \in RowsAbout(d)' /\ committed'[m] = committed[m]
      BY <1>1, AddedRows DEF RowsAbout, Adds
    <3> DEFINE first == CHOOSE l \in RowsAbout(d)' : committed'[l].revision = r
    <3>4. first \in RowsAbout(d)' /\ committed'[first].revision = r
      BY <3>1, <3>3
    <3>5. r \in {committed'[l].revision : l \in RowsAbout(d)'}
      BY <3>1, <3>3
    <3>6. ChaptersOf(d)'[r] = committed'[first].payload.seen
      BY <3>5 DEF ChaptersOf
    <3> HIDE DEF first
    <3>7. first = m
      BY <3>1, <3>3, <3>4 DEF Narrated, RowsAbout
    <3> QED
      BY <3>2, <3>3, <3>6, <3>7
  <2>7. ChaptersOf(d)' = Append(ChaptersOf(d), record.seen)
    <3> DEFINE f == ChaptersOf(d)
               g == ChaptersOf(d)'
    <3>1. g = [r \in 1..(k + 1) |-> g[r]] /\ g[k + 1] = record.seen
      <4>1. g = [r \in 1..(k + 1) |-> g[r]]
        BY <2>5 DEF ChaptersOf, Revisions
      <4> QED
        BY <1>7, <2>1, <4>1
    <3>2. \A r \in 1..k : g[r] = f[r]
      BY <2>6
    <3>3. Len(f) = k /\ \E S : f \in Seq(S)
      BY <2>1, ChaptersAre
    <3> HIDE DEF f, g
    <3>4. PICK S : f \in Seq(S)
      BY <3>3
    <3>5. g = Append(f, record.seen)
      <4> DEFINE h == Append(f, record.seen)
      <4>1. /\ DOMAIN h = 1..(k + 1) /\ h[k + 1] = record.seen
            /\ \A r \in 1..k : h[r] = f[r]
        <5>1. DOMAIN f = 1..k
          BY <3>3, <3>4, SeqShape
        <5> QED
          BY <3>3, <3>4, <5>1, AppendShape
      <4>2. h = [r \in 1..(k + 1) |-> h[r]]
        <5>1. h \in Seq(S \cup {record.seen})
          BY <3>4, AppendShape
        <5> HIDE DEF h
        <5> QED
          BY <4>1, <5>1, SeqShape
      <4> HIDE DEF h
      <4>3. \A r \in 1..(k + 1) : g[r] = h[r]
        <5> SUFFICES ASSUME NEW r \in 1..(k + 1) PROVE g[r] = h[r]
          OBVIOUS
        <5>1. r \in 1..k \/ r = k + 1
          BY <2>1
        <5> QED
          BY <3>1, <3>2, <4>1, <5>1
      <4>4. g = h
        BY <3>1, <4>2, <4>3
      <4> QED
        BY <4>4 DEF h
    <3> QED
      BY <3>5 DEF f, g
  <2>8. chapters' = [chapters EXCEPT ![d] = Append(@, record.seen)]
    <3>1. \A e \in Decision : e # d => ChaptersOf(e)' = ChaptersOf(e)
      BY <1>1, OthersStay
    <3> QED
      BY <2>7, <3>1
  <2>9. Abstract!Continue(d, record.seen)
    BY <1>3, <2>4, <2>8 DEF Abstract!Continue
  <2> QED
    BY <2>9 DEF Abstract!Next
<1> QED
  BY <1>8, <1>9, AppendTells

-----------------------------------------------------------------------------
LEMMA StartNarrated == Init => Narrated /\ Abstract!Init
<1> SUFFICES ASSUME Init PROVE Narrated /\ Abstract!Init
  OBVIOUS
<1>1. committed = <<>> /\ DOMAIN <<>> = {} /\ anchor.status = "open"
  BY DEF Init, Anchor
<1>2. \A d : RowsAbout(d) = {} /\ Revisions(d) = {}
  BY <1>1 DEF RowsAbout, Revisions
<1>3. \A d : TellerOf(d) = None /\ ChaptersOf(d) = <<>>
  <2> SUFFICES ASSUME NEW d PROVE TellerOf(d) = None /\ ChaptersOf(d) = <<>>
    OBVIOUS
  <2> DEFINE f == ChaptersOf(d)
             g == [r \in {} |-> committed[CHOOSE n \in RowsAbout(d) : committed[n].revision = r].payload.seen]
  <2>1. f = g
    BY <1>2 DEF ChaptersOf, Revisions
  <2>2. g = <<>>
    OBVIOUS
  <2> QED
    BY <1>2, <2>1, <2>2 DEF TellerOf
<1>4. Narrated
  <2>1. 1..0 = {} /\ 0 \in Nat
    OBVIOUS
  <2> QED
    BY <1>1, <1>2, <2>1 DEF Narrated
<1>5. Abstract!Init
  BY <1>1, <1>3 DEF Abstract!Init
<1> QED
  BY <1>4, <1>5

\* What no write touches leaves the narratives as they are.
LEMMA SameNarratives ==
  ASSUME UNCHANGED committed
  PROVE  (Narrated => Narrated') /\ \A d : UNCHANGED <<TellerOf(d), ChaptersOf(d)>>
<1>1. \A d : RowsAbout(d)' = RowsAbout(d) /\ Revisions(d)' = Revisions(d)
  BY DEF RowsAbout, Revisions
<1>2. Narrated => Narrated'
  <2>1. \A n \in DOMAIN committed : committed'[n] = committed[n]
    OBVIOUS
  <2>2. DOMAIN committed' = DOMAIN committed
    OBVIOUS
  <2> QED
    BY <1>1, <2>1, <2>2 DEF Narrated
<1>3. ASSUME NEW d PROVE TellerOf(d)' = TellerOf(d)
  <2> DEFINE n == CHOOSE n \in RowsAbout(d) : TRUE
  <2>1. n' = n /\ RowsAbout(d)' = RowsAbout(d)
    BY <1>1
  <2> HIDE DEF n
  <2>2. committed'[n'] = committed[n]
    BY <2>1
  <2> QED
    BY <2>1, <2>2 DEF TellerOf, n
<1>4. ASSUME NEW d PROVE ChaptersOf(d)' = ChaptersOf(d)
  <2> DEFINE R == {committed[n].revision : n \in RowsAbout(d)}
             At(r) == CHOOSE n \in RowsAbout(d) : committed[n].revision = r
             Then(r) == CHOOSE n \in RowsAbout(d) : committed'[n].revision = r
  <2>1. R' = R /\ RowsAbout(d)' = RowsAbout(d)
    BY <1>1
  <2>2. ASSUME NEW r \in R PROVE Then(r) = At(r)
    <3>1. \A n \in RowsAbout(d) : committed'[n].revision = r <=> committed[n].revision = r
      OBVIOUS
    <3> QED
      BY <3>1
  <2>3. ChaptersOf(d)' = [r \in R |-> committed'[Then(r)].payload.seen]
    BY <2>1 DEF ChaptersOf
  <2>4. ChaptersOf(d) = [r \in R |-> committed[At(r)].payload.seen]
    BY DEF ChaptersOf
  <2> HIDE DEF R, At, Then
  <2> QED
    BY <2>2, <2>3, <2>4
<1> QED
  BY <1>2, <1>3, <1>4

LEMMA NextNarrates ==
  ASSUME IInv, Narrated, [Next]_vars
  PROVE  Narrated' /\ [Abstract!Next]_(Abstract!vars)
<1>1. ASSUME UNCHANGED committed, UNCHANGED anchor PROVE Narrated' /\ UNCHANGED Abstract!vars
  BY <1>1, SameNarratives DEF Abstract!vars
<1>2. CASE UNCHANGED vars \/ StorageDefect
  BY <1>1, <1>2 DEF vars, journal, StorageDefect
<1>3. CASE AbandonEpoch
  <2>1. UNCHANGED committed /\ anchor.status = "open" /\ anchor'.status = "abandoned"
    BY <1>3 DEF AbandonEpoch, VerifyOk, Anchor
  <2>2. Abstract!Close
    BY <2>1, SameNarratives DEF Abstract!Close
  <2> QED
    BY <2>1, <2>2, SameNarratives DEF Abstract!Next
<1>4. ASSUME NEW record, NEW decision \in Decision, NEW expected,
             record.id \in ReconciliationId, record.seen \in Observation,
             AppendReconciliation(record, decision, expected)
      PROVE  Narrated' /\ Abstract!Next
  BY <1>4, AppendNarrated, AppendIsChapter
<1>5. CASE Write /\ ~AbandonEpoch
  BY <1>4, <1>5 DEF Write
<1> QED
  BY <1>2, <1>3, <1>4, <1>5 DEF Next

\* Whatever is offered in any order, and whatever storage does to the rows,
\* what is committed is at most one narrative per decision revision, told
\* by one reconciliation that tells no other, and growing at its end.
THEOREM ImplementsNarrativesHolds == Spec => ImplementsNarratives
<1>1. Spec => []Narrated
  BY IInvHolds, StartNarrated, NextNarrates, PTL DEF Spec
<1>2. Spec => Abstract!Init /\ [][Abstract!Next]_(Abstract!vars)
  BY <1>1, IInvHolds, StartNarrated, NextNarrates, PTL DEF Spec
<1> QED
  BY <1>2 DEF ImplementsNarratives, Abstract!Spec
=============================================================================
