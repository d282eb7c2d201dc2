------------------------- MODULE LedgerStoreProofs -------------------------
(***************************************************************************)
(* What holds of the ledger for every set of processes, episodes and hosts *)
(* and for every number of storage defects.                                *)
(***************************************************************************)
EXTENDS LedgerStore, SequenceTheorems, FiniteSetTheorems, TLAPS

\* The rows form a sequence: they are only ever appended, removed or replaced.
RowsAreSeq == \E S : episodes \in Seq(S)

\* Only the creator of the file is between its claim and its commit, and a
\* process with an open handle has a complete store.
Claims ==
  /\ pc \in [Process -> {"closed", "claimed", "idle", "appending", "committed"}]
  /\ file \in {"absent", "claimed", "ready"}
  /\ \A p \in Process : pc[p] = "claimed" => file = "claimed"
  /\ \A p, q \in Process : pc[p] = "claimed" /\ pc[q] = "claimed" => p = q
  /\ \A p \in Process : pc[p] \notin {"closed", "claimed"} => file = "ready"
  /\ file # "ready" => sealed = {} /\ receipts = {} /\ defects = 0

-----------------------------------------------------------------------------
LEMMA InitClaims == Init => Claims
BY DEF Init, Claims

LEMMA NextClaims == Claims /\ [Next]_vars => Claims'
<1> SUFFICES ASSUME Claims, [Next]_vars PROVE Claims'
  OBVIOUS
<1>1. ASSUME NEW p \in Process, CreateClaim(p) PROVE Claims'
  BY <1>1 DEF Claims, CreateClaim, history
<1>2. ASSUME NEW p \in Process, NEW host \in Host, CreateCommit(p, host)
      PROVE Claims'
  BY <1>2 DEF Claims, CreateCommit
<1>3. ASSUME NEW p \in Process, CreateFail(p) PROVE Claims'
  BY <1>3 DEF Claims, CreateFail, history
<1>4. ASSUME NEW p \in Process, Open(p) PROVE Claims'
  BY <1>4 DEF Claims, Open, history
<1>5. ASSUME NEW p \in Process, Crash(p) PROVE Claims'
  BY <1>5 DEF Claims, Crash, history
<1>6. ASSUME NEW p \in Process, NEW ep \in Episode, AppendPrepare(p, ep)
      PROVE Claims'
  BY <1>6 DEF Claims, AppendPrepare, history
<1>7. ASSUME NEW p \in Process, AppendCommit(p) PROVE Claims'
  BY <1>7 DEF Claims, AppendCommit
<1>8. ASSUME NEW p \in Process, AppendRefused(p) PROVE Claims'
  BY <1>8 DEF Claims, AppendRefused, history
<1>9. ASSUME NEW p \in Process, AppendReturn(p) PROVE Claims'
  BY <1>9 DEF Claims, AppendReturn
<1>10. ASSUME NEW p \in Process, NEW id \in EpisodeId, Tombstone(p, id)
       PROVE Claims'
  BY <1>10 DEF Claims, Tombstone, procs
<1>11. ASSUME NEW p \in Process, AbandonEpoch(p) PROVE Claims'
  BY <1>11 DEF Claims, AbandonEpoch, procs
<1>12. ASSUME NEW p \in Process, Export(p) PROVE Claims'
  BY <1>12 DEF Claims, Export, procs
<1>13. CASE StorageDefect
  BY <1>13 DEF Claims, StorageDefect, procs
<1>14. CASE UNCHANGED vars
  BY <1>14 DEF Claims, vars, procs, history
<1>15. QED
  BY <1>1, <1>2, <1>3, <1>4, <1>5, <1>6, <1>7, <1>8, <1>9, <1>10, <1>11, <1>12,
     <1>13, <1>14 DEF Next

THEOREM ClaimsHold == Spec => []Claims
BY InitClaims, NextClaims, PTL DEF Spec

\* The steps that write the file, and all the others.
LEMMA StepKinds ==
  ASSUME [Next]_vars
  PROVE  \/ \E p \in Process, host \in Host : CreateCommit(p, host)
         \/ \E p \in Process : AppendCommit(p)
         \/ \E p \in Process, id \in EpisodeId : Tombstone(p, id)
         \/ \E p \in Process : AbandonEpoch(p)
         \/ StorageDefect
         \/ UNCHANGED <<stored, sealed, committed, defects>>
BY DEF Next, vars, history, CreateClaim, CreateFail, Open, Crash, AppendPrepare,
       AppendRefused, AppendReturn, Export

-----------------------------------------------------------------------------
(* The creation race.                                                      *)

DefectCount == defects \in Nat

LEMMA CountHolds == Spec => []DefectCount
<1>1. Init => DefectCount
  BY DEF Init, DefectCount
<1>2. DefectCount /\ [Next]_vars => DefectCount'
  BY StepKinds
  DEF DefectCount, CreateCommit, AppendCommit, Tombstone, AbandonEpoch, StorageDefect
<1>3. QED
  BY <1>1, <1>2, PTL DEF Spec

\* For every number of processes: a store that a creator completed is never
\* removed, and its binding changes only with a defect.
THEOREM StoreSurvivesHolds == Spec => StoreSurvives
<1>1. ASSUME Claims, DefectCount, [Next]_vars
      PROVE  [file = "ready" => file' = "ready"
                                /\ (defects' = 0 => binding' = binding)]_vars
  <2> SUFFICES ASSUME Next, file = "ready"
               PROVE  file' = "ready" /\ (defects' = 0 => binding' = binding)
    BY <1>1
  <2>1. file' = "ready"
    BY <1>1 DEF Claims, Next, CreateClaim, CreateCommit, CreateFail, Open, Crash,
       AppendPrepare, AppendCommit, AppendRefused, AppendReturn, Tombstone,
       AbandonEpoch, Export, StorageDefect
  <2>2. CASE \E p \in Process, host \in Host : CreateCommit(p, host)
    BY <1>1, <2>2 DEF Claims, CreateCommit
  <2>3. CASE StorageDefect
    BY <1>1, <2>1, <2>3 DEF DefectCount, StorageDefect
  <2>4. CASE ~StorageDefect /\ ~\E p \in Process, host \in Host : CreateCommit(p, host)
    BY <2>1, <2>4, StepKinds
    DEF stored, meta, AppendCommit, Tombstone, AbandonEpoch
  <2>5. QED
    BY <2>2, <2>3, <2>4
<1>2. QED
  BY <1>1, ClaimsHold, CountHolds, PTL DEF Spec, StoreSurvives

-----------------------------------------------------------------------------
(* The chain never forks.  An anchor written in an open epoch bounds the   *)
(* sequence number of every seal that was ever made durable, and names the *)
(* seal that has the largest one.  append compares the anchor with the     *)
(* rows it extends, so it cannot reuse a number, whatever storage lost; an *)
(* anchor written by abandon_epoch may be wrong, and is never extended.    *)

AnchorBounds ==
  \/ anchor.seal[2].status = "abandoned"
  \/ /\ anchor.count \in Nat
     /\ \A s \in sealed : s[2].seq \in 1..anchor.count
     /\ anchor.count > 0 => anchor.tail[2].seq = anchor.count

ForkInv ==
  /\ Claims
  /\ RowsAreSeq
  /\ file = "ready" => anchor = NoAnchor \/ AnchorBounds
  /\ NoFork

LEMMA AnchorFields ==
  ASSUME NEW genesis, NEW count, NEW tail, NEW status
  PROVE  /\ Anchor(genesis, count, tail, status).count = count
         /\ Anchor(genesis, count, tail, status).tail = tail
         /\ Anchor(genesis, count, tail, status).seal[2].status = status
BY DEF Anchor, AnchorSeal, Seal

LEMMA ChainSealFields ==
  ASSUME NEW seq, NEW id, NEW content, NEW prev
  PROVE  ChainSeal(seq, id, content, prev)[2].seq = seq
BY DEF ChainSeal, Seal

LEMMA RowsAreSeqStep ==
  ASSUME RowsAreSeq, [Next]_vars PROVE RowsAreSeq'
<1>1. PICK S : episodes \in Seq(S)
  BY DEF RowsAreSeq
<1>2. CASE \E p \in Process, host \in Host : CreateCommit(p, host)
  <2>1. episodes' = <<>>
    BY <1>2 DEF CreateCommit
  <2>2. episodes' \in Seq(S)
    BY <2>1, EmptySeq
  <2>3. QED
    BY <2>2 DEF RowsAreSeq
<1>3. ASSUME NEW p \in Process, AppendCommit(p) PROVE RowsAreSeq'
  <2>1. episodes' = Append(episodes, NewRow(arg[p]))
    BY <1>3 DEF AppendCommit
  <2>2. episodes \in Seq(S \cup {NewRow(arg[p])})
    BY <1>1, SeqMonotonic
  <2>3. episodes' \in Seq(S \cup {NewRow(arg[p])})
    BY <2>1, <2>2, AppendProperties
  <2>4. QED
    BY <2>3 DEF RowsAreSeq
<1>4. ASSUME NEW n \in DOMAIN episodes, NEW row,
             episodes' = [episodes EXCEPT ![n] = row]
      PROVE  RowsAreSeq'
  <2>1. episodes \in Seq(S \cup {row})
    BY <1>1, SeqMonotonic
  <2>2. n \in 1..Len(episodes)
    BY <2>1, LenProperties
  <2>3. episodes' \in Seq(S \cup {row})
    BY <1>4, <2>1, <2>2, ExceptSeq
  <2>4. QED
    BY <2>3 DEF RowsAreSeq
<1>5. ASSUME NEW n \in DOMAIN episodes, episodes' = Without(episodes, n)
      PROVE  RowsAreSeq'
  <2>1. Len(episodes) \in Nat /\ n \in 1..Len(episodes)
        /\ \A i \in 1..Len(episodes) : episodes[i] \in S
    BY <1>1, LenProperties, ElementOfSeq
  <2>2. SubSeq(episodes, 1, n - 1) \in Seq(S)
    BY <2>1, SubSeqProperties
  <2>3. SubSeq(episodes, n + 1, Len(episodes)) \in Seq(S)
    BY <2>1, SubSeqProperties
  <2>4. episodes' \in Seq(S)
    BY <1>5, <2>2, <2>3, ConcatProperties DEF Without
  <2>5. QED
    BY <2>4 DEF RowsAreSeq
<1>6. CASE \E p \in Process, id \in EpisodeId : Tombstone(p, id)
  BY <1>4, <1>6 DEF Tombstone, RowOf
<1>7. CASE StorageDefect
  <2>1. CASE LoseRow
    BY <1>5, <2>1 DEF LoseRow
  <2>2. CASE AlterPayload
    BY <1>4, <2>2 DEF AlterPayload
  <2>3. CASE UNCHANGED episodes
    BY <2>3 DEF RowsAreSeq
  <2>4. QED
    BY <1>7, <2>1, <2>2, <2>3
    DEF StorageDefect, LoseTombstone, LoseAnchor, Relabel, FlipStatus, meta
<1>8. CASE UNCHANGED episodes
  BY <1>8 DEF RowsAreSeq
<1>9. QED
  BY <1>2, <1>3, <1>6, <1>7, <1>8, StepKinds DEF AbandonEpoch, stored

LEMMA AppendIsVerified ==
  ASSUME NEW ep, AppendAnswer(ep) = "Appended"
  PROVE  VerifyOk /\ epoch_status = "open" /\ ep.host = binding
         /\ ep.id \notin StoredIds
BY DEF AppendAnswer

\* A verified open file continues from the anchor: the next number is one
\* more than the anchor's count.
LEMMA NextAfterAnchor ==
  ASSUME ForkInv, file = "ready", VerifyOk, epoch_status = "open"
  PROVE  /\ anchor.count \in Nat
         /\ NextSeq = anchor.count + 1
         /\ \A s \in sealed : s[2].seq \in 1..anchor.count
<1>1. anchor # NoAnchor /\ anchor.count = Len(episodes) /\ anchor.tail = RootSeal
  BY DEF VerifyOk, AnchorInvalid
<1>2. anchor.seal[2].status = "open"
  BY DEF VerifyOk, AnchorInvalid, AnchorSeal, Seal
<1>3. AnchorBounds /\ anchor.count \in Nat
      /\ \A s \in sealed : s[2].seq \in 1..anchor.count
  BY <1>1, <1>2 DEF ForkInv, AnchorBounds
<1>4. CASE episodes = <<>>
  BY <1>1, <1>3, <1>4, EmptySeq DEF NextSeq
<1>5. CASE episodes # <<>>
  <2>1. PICK S : episodes \in Seq(S)
    BY DEF ForkInv, RowsAreSeq
  <2>2. Len(episodes) \in DOMAIN episodes /\ Len(episodes) > 0
    BY <1>5, <2>1, EmptySeq, LenProperties
  <2>3. LET row == episodes[Len(episodes)]
        IN  row.chain_seal = ChainSeal(row.seq, row.episode_id,
                                       row.content_seal, row.prev_chain_seal)
    BY <2>2 DEF VerifyOk, ChainBroken
  <2>4. anchor.tail[2].seq = episodes[Len(episodes)].seq
    BY <1>1, <1>5, <2>3, ChainSealFields DEF RootSeal
  <2>5. anchor.tail[2].seq = anchor.count
    BY <1>1, <1>2, <1>3, <2>2 DEF AnchorBounds
  <2>6. QED
    BY <1>3, <1>5, <2>4, <2>5 DEF NextSeq
<1>6. QED
  BY <1>3, <1>4, <1>5

LEMMA InitForkInv == Init => ForkInv
<1> SUFFICES ASSUME Init PROVE ForkInv
  OBVIOUS
<1>1. RowsAreSeq
  BY EmptySeq DEF Init, RowsAreSeq
<1>2. QED
  BY <1>1, InitClaims DEF Init, ForkInv, NoFork

LEMMA NextForkInv == ForkInv /\ [Next]_vars => ForkInv'
<1> SUFFICES ASSUME ForkInv, [Next]_vars
             PROVE  /\ (file = "ready" => anchor = NoAnchor \/ AnchorBounds)'
                    /\ NoFork'
  BY NextClaims, RowsAreSeqStep DEF ForkInv
<1>1. ASSUME NEW p \in Process, NEW host \in Host, CreateCommit(p, host)
      PROVE  AnchorBounds' /\ NoFork'
  <2>1. sealed' = {}
    BY <1>1 DEF ForkInv, Claims, CreateCommit
  <2>2. anchor'.count = 0
    BY <1>1, AnchorFields DEF CreateCommit
  <2>3. QED
    BY <2>1, <2>2 DEF AnchorBounds, NoFork
<1>2. ASSUME NEW p \in Process, AppendCommit(p)
      PROVE  AnchorBounds' /\ NoFork'
  <2> DEFINE row == NewRow(arg[p])
  <2>1. file = "ready" /\ VerifyOk /\ epoch_status = "open"
    BY <1>2, AppendIsVerified DEF AppendCommit, ForkInv, Claims
  <2>2. /\ anchor.count \in Nat
        /\ NextSeq = anchor.count + 1
        /\ \A s \in sealed : s[2].seq \in 1..anchor.count
    BY <2>1, NextAfterAnchor
  <2>3. row.seq = NextSeq /\ row.chain_seal[2].seq = NextSeq
    BY ChainSealFields DEF NewRow
  <2>4. anchor'.count = NextSeq /\ anchor'.tail = row.chain_seal
    BY <1>2, <2>3, AnchorFields DEF AppendCommit
  <2>5. sealed' = sealed \cup {row.chain_seal}
    BY <1>2 DEF AppendCommit
  <2> HIDE DEF row
  <2>6. AnchorBounds'
    <3>1. \A s \in sealed' : s[2].seq \in 1..anchor'.count
      BY <2>2, <2>3, <2>4, <2>5
    <3>2. anchor'.count \in Nat /\ anchor'.tail[2].seq = anchor'.count
      BY <2>2, <2>3, <2>4
    <3>3. QED
      BY <3>1, <3>2 DEF AnchorBounds
  <2>7. NoFork'
    <3> SUFFICES ASSUME NEW s \in sealed', NEW t \in sealed', s[2].seq = t[2].seq
                 PROVE  s = t
      BY DEF NoFork
    <3>1. \A u \in sealed : u[2].seq # row.chain_seal[2].seq
      BY <2>2, <2>3
    <3>2. QED
      BY <2>5, <3>1 DEF ForkInv, NoFork
  <2>8. QED
    BY <2>6, <2>7
<1>3. ASSUME NEW p \in Process, AbandonEpoch(p)
      PROVE  AnchorBounds' /\ NoFork'
  <2>1. anchor'.seal[2].status = "abandoned" /\ sealed' = sealed
    BY <1>3, AnchorFields DEF AbandonEpoch
  <2>2. QED
    BY <2>1 DEF AnchorBounds, ForkInv, NoFork
<1>4. ASSUME sealed' = sealed, anchor' = anchor \/ anchor' = NoAnchor,
             file = "ready" <=> file' = "ready"
      PROVE  (file' = "ready" => anchor' = NoAnchor \/ AnchorBounds') /\ NoFork'
  BY <1>4 DEF ForkInv, AnchorBounds, NoFork
<1>5. CASE StorageDefect
  BY <1>4, <1>5 DEF StorageDefect, LoseRow, AlterPayload, LoseTombstone,
     LoseAnchor, Relabel, FlipStatus, meta
<1>6. CASE \E p \in Process, id \in EpisodeId : Tombstone(p, id)
  BY <1>4, <1>6 DEF Tombstone, meta
<1>7. CASE UNCHANGED <<stored, sealed, committed, defects>>
  <2>1. CASE file = "ready" <=> file' = "ready"
    BY <1>4, <1>7, <2>1 DEF stored, meta
  <2>2. CASE file # "ready" /\ file' = "ready"
    BY <1>1, <2>2 DEF Next, vars, CreateClaim, CreateFail, Open, Crash, AppendPrepare,
       AppendCommit, AppendRefused, AppendReturn, Tombstone, AbandonEpoch, Export,
       StorageDefect
  <2>3. CASE file' # "ready"
    BY <1>7, <2>3 DEF ForkInv, NoFork
  <2>4. QED
    BY <2>1, <2>2, <2>3
<1>8. QED
  BY <1>1, <1>2, <1>3, <1>5, <1>6, <1>7, StepKinds DEF NoAnchor

\* However many processes append, abandon and die, and whatever storage
\* loses: no two accepted episodes ever share a sequence number.
THEOREM NoForkHolds == Spec => []NoFork
<1>1. ForkInv => NoFork
  BY DEF ForkInv
<1>2. QED
  BY InitForkInv, NextForkInv, <1>1, PTL DEF Spec

-----------------------------------------------------------------------------
(* No write leaves a file that the next write would refuse.  The invariant *)
(* adds to VerifyOk what the schema guarantees (episode_id is UNIQUE) and  *)
(* that a row's place is its number; a redaction relies on the first, a    *)
(* receipt on the second.                                                  *)

UniqueIds ==
  \A m, n \in DOMAIN episodes :
    episodes[m].episode_id = episodes[n].episode_id => m = n

Numbered == \A n \in DOMAIN episodes : episodes[n].seq = n

Columns == {"seq", "episode_id", "content_seal", "prev_chain_seal",
            "chain_seal", "payload", "redacted"}

RowShape == \A n \in DOMAIN episodes : DOMAIN episodes[n] = Columns

Args ==
  /\ arg \in [Process -> Episode \cup {NoEpisode}]
  /\ \A p \in Process : pc[p] = "appending" => arg[p] \in Episode

Sound == VerifyOk /\ UniqueIds /\ Numbered /\ RowShape

SoundInv ==
  /\ Claims
  /\ RowsAreSeq
  /\ DefectCount
  /\ Args
  /\ file = "ready" /\ defects = 0 => Sound

LEMMA AppendedRows ==
  ASSUME NEW row, RowsAreSeq, episodes' = Append(episodes, row)
  PROVE  /\ Len(episodes) \in Nat
         /\ DOMAIN episodes = 1..Len(episodes)
         /\ Len(episodes') = Len(episodes) + 1
         /\ DOMAIN episodes' = 1..(Len(episodes) + 1)
         /\ \A n \in 1..Len(episodes) : episodes'[n] = episodes[n]
         /\ episodes'[Len(episodes) + 1] = row
         /\ episodes' # <<>>
         /\ episodes = <<>> <=> Len(episodes) = 0
<1>1. PICK S : episodes \in Seq(S)
  BY DEF RowsAreSeq
<1>2. episodes \in Seq(S \cup {row})
  BY <1>1, SeqMonotonic
<1>3. episodes' \in Seq(S \cup {row})
  BY <1>2, AppendProperties
<1>4. QED
  BY <1>2, <1>3, AppendProperties, LenProperties, EmptySeq

LEMMA NewRowFields ==
  ASSUME NEW ep
  PROVE  /\ NewRow(ep).seq = NextSeq
         /\ NewRow(ep).episode_id = ep.id
         /\ NewRow(ep).content_seal = ContentSeal(ep)
         /\ NewRow(ep).prev_chain_seal = RootSeal
         /\ NewRow(ep).chain_seal = ChainSeal(NextSeq, ep.id, ContentSeal(ep), RootSeal)
         /\ NewRow(ep).payload = ep
         /\ NewRow(ep).redacted = FALSE
         /\ DOMAIN NewRow(ep) = Columns
BY DEF NewRow, Columns

LEMMA RedactedFields ==
  ASSUME NEW row, DOMAIN row = Columns
  PROVE  /\ Redacted(row).seq = row.seq
         /\ Redacted(row).episode_id = row.episode_id
         /\ Redacted(row).content_seal = row.content_seal
         /\ Redacted(row).prev_chain_seal = row.prev_chain_seal
         /\ Redacted(row).chain_seal = row.chain_seal
         /\ Redacted(row).payload = NoEpisode
         /\ Redacted(row).redacted = TRUE
         /\ DOMAIN Redacted(row) = Columns
BY DEF Redacted, Columns

LEMMA EpisodeIsSome == ASSUME NEW ep \in Episode PROVE ep # NoEpisode
BY NoneAssumption DEF Episode, NoEpisode

\* A freshly created file verifies.
LEMMA CreateSound ==
  ASSUME NEW p \in Process, NEW host \in Host, CreateCommit(p, host)
  PROVE  Sound'
<1>1. /\ episodes' = <<>> /\ tombstones' = {} /\ binding' = host
      /\ epoch_status' = "open"
      /\ anchor' = Anchor(GenesisSeal(host), 0, GenesisSeal(host), "open")
  BY DEF CreateCommit
<1>2. DOMAIN episodes' = {} /\ Len(episodes') = 0
  BY <1>1, EmptySeq
<1>3. ~AnchorInvalid'
  <2>1. anchor' # NoAnchor
    BY <1>1 DEF Anchor, AnchorSeal, NoAnchor, NoSeal, None, Seal
  <2>2. RootSeal' = GenesisSeal(host)
    BY <1>1 DEF RootSeal
  <2>3. QED
    BY <1>1, <1>2, <2>1, <2>2 DEF AnchorInvalid, Anchor
<1>4. QED
  BY <1>1, <1>2, <1>3 DEF Sound, VerifyOk, SequenceInvalid, ChainBroken,
     RedactionInvalid, PayloadInvalid, UniqueIds, Numbered, RowShape

\* append extends a verified file into a verified file.
LEMMA AppendSound ==
  ASSUME RowsAreSeq, Args, Sound, NEW p \in Process, AppendCommit(p)
  PROVE  Sound'
<1> DEFINE ep == arg[p]
           row == NewRow(ep)
           len == Len(episodes)
<1>1. /\ VerifyOk /\ UniqueIds /\ Numbered /\ RowShape
      /\ ep \in Episode /\ ep.host = binding /\ ep.id \notin StoredIds
      /\ epoch_status = "open"
  BY AppendIsVerified DEF AppendCommit, Sound, Args
<1>2. /\ episodes' = Append(episodes, row)
      /\ anchor' = Anchor(GenesisSeal(binding), row.seq, row.chain_seal, epoch_status)
      /\ UNCHANGED <<binding, epoch_status, tombstones>>
  BY DEF AppendCommit
<1>3. /\ row.seq = NextSeq /\ row.episode_id = ep.id
      /\ row.content_seal = ContentSeal(ep) /\ row.prev_chain_seal = RootSeal
      /\ row.chain_seal = ChainSeal(row.seq, row.episode_id, row.content_seal,
                                    row.prev_chain_seal)
      /\ row.payload = ep /\ row.redacted = FALSE /\ DOMAIN row = Columns
  BY NewRowFields
<1> HIDE DEF row, ep
<1>4. /\ len \in Nat /\ DOMAIN episodes = 1..len
      /\ Len(episodes') = len + 1 /\ DOMAIN episodes' = 1..(len + 1)
      /\ \A n \in 1..len : episodes'[n] = episodes[n]
      /\ episodes'[len + 1] = row
      /\ episodes' # <<>>
      /\ episodes = <<>> <=> len = 0
  BY <1>2, AppendedRows
<1>5. NextSeq = len + 1
  BY <1>1, <1>4 DEF NextSeq, Numbered
<1>6. Numbered' /\ RowShape'
  BY <1>1, <1>3, <1>4, <1>5 DEF Numbered, RowShape
<1>7. UniqueIds'
  BY <1>1, <1>3, <1>4 DEF UniqueIds, StoredIds
<1>8. ~SequenceInvalid'
  BY <1>1, <1>3, <1>4, <1>5, <1>6 DEF SequenceInvalid, Numbered
<1>9. ~ChainBroken'
  <2>1. \A n \in 1..len : PrevSeal(n)' = PrevSeal(n)
    BY <1>2, <1>4 DEF PrevSeal
  <2>2. ASSUME NEW n \in Nat, n = len + 1 PROVE PrevSeal(n)' = RootSeal
    <3>1. CASE len = 0
      BY <1>2, <1>4, <2>2, <3>1 DEF PrevSeal, RootSeal
    <3>2. CASE len # 0
      <4>1. n # 1 /\ n - 1 = len /\ len \in 1..len
        BY <1>4, <2>2, <3>2
      <4>2. PrevSeal(n)' = episodes'[len].chain_seal
        BY <4>1 DEF PrevSeal
      <4>3. QED
        BY <1>4, <3>2, <4>1, <4>2 DEF RootSeal
    <3>3. QED
      BY <3>1, <3>2
  <2>3. ASSUME NEW n \in 1..(len + 1)
        PROVE  /\ episodes'[n].prev_chain_seal = PrevSeal(n)'
               /\ episodes'[n].chain_seal =
                    ChainSeal(episodes'[n].seq, episodes'[n].episode_id,
                              episodes'[n].content_seal, episodes'[n].prev_chain_seal)
    <3>1. CASE n \in 1..len
      BY <1>1, <1>4, <2>1, <3>1 DEF VerifyOk, ChainBroken
    <3>2. CASE n = len + 1
      BY <1>3, <1>4, <2>2, <3>2
    <3>3. QED
      BY <1>4, <3>1, <3>2
  <2>4. QED
    BY <1>4, <2>3 DEF ChainBroken
<1>10. StoredIds' = StoredIds \cup {ep.id}
  BY <1>3, <1>4 DEF StoredIds
<1>11. ~RedactionInvalid'
  BY <1>1, <1>2, <1>3, <1>4, <1>10 DEF VerifyOk, RedactionInvalid
<1>12. ~PayloadInvalid'
  BY <1>1, <1>2, <1>3, <1>4, EpisodeIsSome DEF VerifyOk, PayloadInvalid
<1>13. ~AnchorInvalid'
  <2>1. RootSeal' = row.chain_seal
    BY <1>4 DEF RootSeal
  <2>2. anchor' # NoAnchor
    BY <1>2 DEF Anchor, AnchorSeal, NoAnchor, NoSeal, None, Seal
  <2>3. QED
    BY <1>2, <1>3, <1>4, <1>5, <2>1, <2>2 DEF AnchorInvalid, Anchor
<1>14. QED
  BY <1>6, <1>7, <1>8, <1>9, <1>11, <1>12, <1>13 DEF Sound, VerifyOk

LEMMA ReplacedRows ==
  ASSUME RowsAreSeq, NEW n \in DOMAIN episodes, NEW row,
         episodes' = [episodes EXCEPT ![n] = row]
  PROVE  /\ Len(episodes) \in Nat
         /\ DOMAIN episodes = 1..Len(episodes)
         /\ Len(episodes') = Len(episodes)
         /\ DOMAIN episodes' = DOMAIN episodes
         /\ \A m \in DOMAIN episodes :
              episodes'[m] = IF m = n THEN row ELSE episodes[m]
         /\ episodes = <<>> <=> episodes' = <<>>
<1>1. PICK S : episodes \in Seq(S)
  BY DEF RowsAreSeq
<1>2. episodes \in Seq(S \cup {row})
  BY <1>1, SeqMonotonic
<1>3. n \in 1..Len(episodes)
  BY <1>2, LenProperties
<1>4. episodes' \in Seq(S \cup {row}) /\ Len(episodes') = Len(episodes)
  BY <1>2, <1>3, ExceptSeq
<1>5. QED
  BY <1>2, <1>3, <1>4, ExceptSeq, LenProperties, EmptySeq

\* A redaction leaves every seal in place and is explained by its tombstone.
LEMMA TombstoneSound ==
  ASSUME RowsAreSeq, Sound, NEW p \in Process, NEW id \in EpisodeId,
         Tombstone(p, id)
  PROVE  /\ Sound'
         /\ DOMAIN episodes' = DOMAIN episodes
         /\ \A m \in DOMAIN episodes :
              /\ episodes'[m].episode_id = episodes[m].episode_id
              /\ episodes'[m].chain_seal = episodes[m].chain_seal
<1>1. /\ VerifyOk /\ UniqueIds /\ Numbered /\ RowShape
      /\ tombstones' = tombstones \cup {id}
      /\ UNCHANGED <<binding, epoch_status, anchor>>
  BY DEF Tombstone, Sound, meta
<1>2. PICK n \in DOMAIN episodes :
        /\ episodes[n].episode_id = id
        /\ episodes' = [episodes EXCEPT ![n] = Redacted(episodes[n])]
  BY DEF Tombstone, RowOf
<1>3. /\ Len(episodes) \in Nat /\ DOMAIN episodes = 1..Len(episodes)
      /\ Len(episodes') = Len(episodes)
      /\ DOMAIN episodes' = DOMAIN episodes
      /\ \A m \in DOMAIN episodes :
           episodes'[m] = IF m = n THEN Redacted(episodes[n]) ELSE episodes[m]
      /\ episodes = <<>> <=> episodes' = <<>>
  BY <1>2, ReplacedRows
<1>4. /\ Redacted(episodes[n]).seq = episodes[n].seq
      /\ Redacted(episodes[n]).episode_id = id
      /\ Redacted(episodes[n]).content_seal = episodes[n].content_seal
      /\ Redacted(episodes[n]).prev_chain_seal = episodes[n].prev_chain_seal
      /\ Redacted(episodes[n]).chain_seal = episodes[n].chain_seal
      /\ Redacted(episodes[n]).payload = NoEpisode
      /\ Redacted(episodes[n]).redacted = TRUE
      /\ DOMAIN Redacted(episodes[n]) = Columns
  BY <1>1, <1>2, RedactedFields DEF RowShape
<1>5. \A m \in DOMAIN episodes :
        /\ episodes'[m].seq = episodes[m].seq
        /\ episodes'[m].episode_id = episodes[m].episode_id
        /\ episodes'[m].content_seal = episodes[m].content_seal
        /\ episodes'[m].prev_chain_seal = episodes[m].prev_chain_seal
        /\ episodes'[m].chain_seal = episodes[m].chain_seal
        /\ DOMAIN episodes'[m] = Columns
  BY <1>1, <1>2, <1>3, <1>4 DEF RowShape
<1>6. UniqueIds' /\ Numbered' /\ RowShape'
  BY <1>1, <1>3, <1>5 DEF UniqueIds, Numbered, RowShape
<1>7. RootSeal' = RootSeal /\ \A m \in DOMAIN episodes : PrevSeal(m)' = PrevSeal(m)
  <2>1. RootSeal' = RootSeal
    BY <1>1, <1>3, <1>5, EmptySeq DEF RootSeal
  <2>2. ASSUME NEW m \in DOMAIN episodes PROVE PrevSeal(m)' = PrevSeal(m)
    <3>1. m = 1 \/ m - 1 \in DOMAIN episodes
      BY <1>3, <2>2
    <3>2. QED
      BY <1>1, <1>5, <3>1 DEF PrevSeal
  <2>3. QED
    BY <2>1, <2>2
<1>8. ~SequenceInvalid'
  <2>1. \A m \in DOMAIN episodes : m = 1 \/ m - 1 \in DOMAIN episodes
    BY <1>3
  <2>2. QED
    BY <1>1, <1>3, <1>5, <2>1 DEF VerifyOk, SequenceInvalid
<1>9. ~ChainBroken'
  BY <1>1, <1>3, <1>5, <1>7 DEF VerifyOk, ChainBroken
<1>10. ~AnchorInvalid'
  BY <1>1, <1>3, <1>7 DEF VerifyOk, AnchorInvalid
<1>11. ~PayloadInvalid'
  BY <1>1, <1>2, <1>3, <1>4 DEF VerifyOk, PayloadInvalid
<1>12. ~RedactionInvalid'
  <2>1. \A m \in DOMAIN episodes : m # n => episodes[m].episode_id # id
    BY <1>1, <1>2 DEF UniqueIds
  <2>2. StoredIds' = StoredIds
    BY <1>3, <1>5 DEF StoredIds
  <2>3. id \in StoredIds
    BY <1>2 DEF StoredIds
  <2>4. QED
    BY <1>1, <1>2, <1>3, <1>4, <2>1, <2>2, <2>3 DEF VerifyOk, RedactionInvalid
<1>13. QED
  BY <1>3, <1>5, <1>6, <1>8, <1>9, <1>10, <1>11, <1>12 DEF Sound, VerifyOk

\* abandon_epoch on a verified file leaves a verified file.
LEMMA AbandonSound ==
  ASSUME Sound, NEW p \in Process, AbandonEpoch(p)
  PROVE  Sound'
<1>1. /\ VerifyOk /\ UniqueIds /\ Numbered /\ RowShape
      /\ UNCHANGED <<binding, episodes, tombstones>>
      /\ epoch_status' = "abandoned"
      /\ anchor' = Anchor(GenesisSeal(binding), Len(episodes), RootSeal, "abandoned")
  BY DEF AbandonEpoch, Sound
<1>2. anchor' # NoAnchor
  BY <1>1 DEF Anchor, AnchorSeal, NoAnchor, NoSeal, None, Seal
<1>3. ~AnchorInvalid'
  <2>1. RootSeal' = RootSeal
    BY <1>1 DEF RootSeal
  <2>2. QED
    BY <1>1, <1>2, <2>1 DEF AnchorInvalid, Anchor
<1>4. ~SequenceInvalid' /\ ~ChainBroken'
  BY <1>1 DEF VerifyOk, SequenceInvalid, ChainBroken, PrevSeal
<1>5. ~RedactionInvalid' /\ ~PayloadInvalid'
  BY <1>1 DEF VerifyOk, RedactionInvalid, PayloadInvalid, StoredIds
<1>6. QED
  BY <1>1, <1>3, <1>4, <1>5 DEF Sound, VerifyOk, UniqueIds, Numbered, RowShape

LEMMA NextArgs == Claims /\ Args /\ [Next]_vars => Args'
<1> SUFFICES ASSUME Claims, Args, [Next]_vars PROVE Args'
  OBVIOUS
<1> USE DEF Args, Claims
<1>1. ASSUME NEW p \in Process,
             \/ CreateClaim(p) \/ CreateFail(p) \/ Open(p) \/ Crash(p)
             \/ AppendCommit(p) \/ AppendRefused(p) \/ AppendReturn(p)
             \/ AbandonEpoch(p) \/ Export(p)
             \/ \E host \in Host : CreateCommit(p, host)
             \/ \E id \in EpisodeId : Tombstone(p, id)
      PROVE  Args'
  BY <1>1 DEF procs, CreateClaim, CreateFail, Open, Crash, AppendCommit,
     AppendRefused, AppendReturn, AbandonEpoch, Export, CreateCommit, Tombstone
<1>2. ASSUME NEW p \in Process, NEW ep \in Episode, AppendPrepare(p, ep)
      PROVE  Args'
  BY <1>2 DEF AppendPrepare
<1>3. CASE StorageDefect \/ UNCHANGED vars
  BY <1>3 DEF StorageDefect, vars, procs
<1>4. QED
  BY <1>1, <1>2, <1>3 DEF Next

LEMMA SameStoreSound ==
  ASSUME UNCHANGED stored
  PROVE  Sound' = Sound
BY DEF Sound, stored, meta, VerifyOk, SequenceInvalid, ChainBroken, PrevSeal,
       RedactionInvalid, StoredIds, PayloadInvalid, AnchorInvalid, RootSeal,
       UniqueIds, Numbered, RowShape

LEMMA InitSoundInv == Init => SoundInv
<1> SUFFICES ASSUME Init PROVE SoundInv
  OBVIOUS
<1>1. RowsAreSeq
  BY EmptySeq DEF Init, RowsAreSeq
<1>2. QED
  BY <1>1, InitClaims DEF Init, SoundInv, DefectCount, Args

LEMMA NextSoundInv == SoundInv /\ [Next]_vars => SoundInv'
<1> SUFFICES ASSUME SoundInv, [Next]_vars PROVE SoundInv'
  OBVIOUS
<1>1. Claims' /\ RowsAreSeq' /\ DefectCount' /\ Args'
  <2>1. DefectCount'
    BY StepKinds DEF SoundInv, DefectCount, CreateCommit, AppendCommit, Tombstone,
       AbandonEpoch, StorageDefect
  <2>2. QED
    BY <2>1, NextClaims, RowsAreSeqStep, NextArgs DEF SoundInv
<1>2. SUFFICES ASSUME file' = "ready", defects' = 0
               PROVE  Sound'
  BY <1>1 DEF SoundInv
<1>3. CASE \E p \in Process, host \in Host : CreateCommit(p, host)
  BY <1>3, CreateSound
<1>4. CASE \E p \in Process : AppendCommit(p)
  BY <1>2, <1>4, AppendSound DEF AppendCommit, SoundInv, Claims
<1>5. CASE \E p \in Process, id \in EpisodeId : Tombstone(p, id)
  BY <1>2, <1>5, TombstoneSound DEF Tombstone, SoundInv, Claims
<1>6. CASE \E p \in Process : AbandonEpoch(p)
  BY <1>2, <1>6, AbandonSound DEF AbandonEpoch, SoundInv, Claims
<1>7. CASE StorageDefect
  BY <1>2, <1>7 DEF StorageDefect, SoundInv, DefectCount
<1>8. CASE UNCHANGED <<stored, sealed, committed, defects>>
  <2>1. CASE file = "ready"
    BY <1>2, <1>8, <2>1, SameStoreSound DEF SoundInv
  <2>2. CASE file # "ready"
    BY <1>2, <1>3, <2>2 DEF Next, vars, CreateClaim, CreateFail, Open, Crash,
       AppendPrepare, AppendCommit, AppendRefused, AppendReturn, Tombstone,
       AbandonEpoch, Export, StorageDefect
  <2>3. QED
    BY <2>1, <2>2
<1>9. QED
  BY <1>3, <1>4, <1>5, <1>6, <1>7, <1>8, StepKinds

LEMMA SoundInvHolds == Spec => []SoundInv
BY InitSoundInv, NextSoundInv, PTL DEF Spec

\* A store that storage left alone passes its own verification in every
\* reachable state, for every number of processes and episodes.
THEOREM UndamagedVerifiesHolds == Spec => []UndamagedVerifies
<1>1. SoundInv => UndamagedVerifies
  BY DEF SoundInv, Sound, UndamagedVerifies
<1>2. QED
  BY <1>1, SoundInvHolds, PTL

-----------------------------------------------------------------------------
(* Receipts: a receipt promises a place and a seal, and a row keeps both.  *)

Durable(r) ==
  /\ r.seq \in DOMAIN episodes
  /\ episodes[r.seq].episode_id = r.episode_id
  /\ episodes[r.seq].chain_seal = r.chain_seal

ReceiptInv ==
  defects = 0 =>
    /\ \A r \in receipts : Durable(r)
    /\ \A p \in Process : pc[p] = "committed" => Durable(receipt[p])

ReceiptPcs == receipt = [p \in Process |-> receipt[p]]

LEMMA NextReceiptPcs == ReceiptPcs /\ [Next]_vars => ReceiptPcs'
BY DEF ReceiptPcs, Next, vars, procs, CreateClaim, CreateCommit, CreateFail, Open,
     Crash, AppendPrepare, AppendCommit, AppendRefused, AppendReturn, Tombstone,
     AbandonEpoch, Export, StorageDefect

LEMMA NextReceiptInv ==
  SoundInv /\ ReceiptPcs /\ ReceiptInv /\ [Next]_vars => ReceiptInv'
<1> SUFFICES ASSUME SoundInv, ReceiptPcs, ReceiptInv, [Next]_vars, defects' = 0
             PROVE  /\ \A r \in receipts' : Durable(r)'
                    /\ \A p \in Process : pc'[p] = "committed" => Durable(receipt[p])'
  BY DEF ReceiptInv
<1>1. ASSUME NEW q \in Process, NEW host \in Host, CreateCommit(q, host)
      PROVE  ReceiptInv'
  <2>1. receipts' = {} /\ \A p \in Process : pc'[p] # "committed"
    BY <1>1 DEF CreateCommit, SoundInv, Claims
  <2>2. QED
    BY <2>1 DEF ReceiptInv
<1>2. ASSUME NEW q \in Process, AppendCommit(q) PROVE ReceiptInv'
  <2> DEFINE len == Len(episodes)
  <2> PICK row : row = NewRow(arg[q])
    OBVIOUS
  <2>1. episodes' = Append(episodes, row) /\ receipts' = receipts /\ defects = 0
        /\ receipt' = [receipt EXCEPT ![q] =
             [seq |-> row.seq, episode_id |-> row.episode_id,
              chain_seal |-> row.chain_seal]]
        /\ pc' = [pc EXCEPT ![q] = "committed"]
    BY <1>2 DEF AppendCommit
  <2>2. /\ len \in Nat /\ DOMAIN episodes = 1..len
        /\ DOMAIN episodes' = 1..(len + 1)
        /\ \A n \in 1..len : episodes'[n] = episodes[n]
        /\ episodes'[len + 1] = row
        /\ (episodes = <<>> <=> len = 0)
    BY <2>1, AppendedRows DEF SoundInv
  <2>3. row.seq = len + 1
    <3>1. Numbered
      BY <1>2, <2>1 DEF SoundInv, Sound, Claims, AppendCommit
    <3>2. NextSeq = len + 1
      BY <2>2, <3>1 DEF NextSeq, Numbered
    <3>3. QED
      BY <3>2, NewRowFields
  <2>4. ASSUME NEW r, Durable(r) PROVE Durable(r)'
    BY <2>2, <2>4 DEF Durable
  <2>5. Durable([seq |-> row.seq, episode_id |-> row.episode_id,
                 chain_seal |-> row.chain_seal])'
    BY <2>2, <2>3 DEF Durable
  <2>6. ASSUME NEW p \in Process, pc'[p] = "committed" PROVE Durable(receipt[p])'
    <3>1. CASE p = q
      <4>1. receipt'[p] = [seq |-> row.seq, episode_id |-> row.episode_id,
                           chain_seal |-> row.chain_seal]
        BY <2>1, <3>1 DEF ReceiptPcs
      <4>2. QED
        BY <2>5, <4>1 DEF Durable
    <3>2. CASE p # q
      <4>1. receipt'[p] = receipt[p] /\ pc[p] = "committed"
        BY <2>1, <2>6, <3>2 DEF ReceiptPcs, SoundInv, Claims
      <4>2. QED
        BY <2>1, <2>4, <4>1 DEF ReceiptInv, Durable
    <3>3. QED
      BY <3>1, <3>2
  <2>7. QED
    BY <2>1, <2>4, <2>6 DEF ReceiptInv, Durable
<1>3. ASSUME NEW q \in Process, NEW id \in EpisodeId, Tombstone(q, id)
      PROVE  ReceiptInv'
  <2>1. defects = 0 /\ UNCHANGED <<receipts, procs>>
    BY <1>3 DEF Tombstone
  <2>2. /\ DOMAIN episodes' = DOMAIN episodes
        /\ \A m \in DOMAIN episodes :
             /\ episodes'[m].episode_id = episodes[m].episode_id
             /\ episodes'[m].chain_seal = episodes[m].chain_seal
    BY <1>3, <2>1, TombstoneSound DEF SoundInv, Claims, Tombstone
  <2>3. QED
    BY <2>1, <2>2 DEF ReceiptInv, Durable, procs
<1>4. ASSUME UNCHANGED <<episodes, defects>>,
             \A r \in receipts' : r \in receipts
                \/ \E p \in Process : pc[p] = "committed" /\ r = receipt[p],
             \A p \in Process : pc'[p] = "committed" =>
                pc[p] = "committed" /\ receipt'[p] = receipt[p]
      PROVE  ReceiptInv'
  BY <1>4 DEF ReceiptInv, Durable
<1>5. ASSUME NEW q \in Process, AbandonEpoch(q) PROVE ReceiptInv'
  BY <1>4, <1>5 DEF AbandonEpoch, procs
<1>6. ASSUME StorageDefect PROVE ReceiptInv'
  BY <1>6 DEF StorageDefect, SoundInv, DefectCount
<1>7. ASSUME NEW q \in Process,
             \/ CreateClaim(q) \/ CreateFail(q) \/ Open(q) \/ Crash(q)
             \/ AppendRefused(q) \/ \E ep \in Episode : AppendPrepare(q, ep)
      PROVE  ReceiptInv'
  <2>1. UNCHANGED <<stored, history>> /\ pc'[q] # "committed"
        /\ \A p \in Process : p # q =>
             pc'[p] = pc[p] /\ receipt'[p] = receipt[p]
    BY <1>7 DEF SoundInv, Claims, ReceiptPcs, CreateClaim, CreateFail, Open, Crash,
       AppendPrepare, AppendRefused
  <2>2. QED
    BY <1>4, <2>1 DEF stored, history
<1>8. ASSUME NEW q \in Process, AppendReturn(q) PROVE ReceiptInv'
  <2>1. pc'[q] # "committed"
        /\ \A p \in Process : p # q =>
             pc'[p] = pc[p] /\ receipt'[p] = receipt[p]
    BY <1>8 DEF SoundInv, Claims, ReceiptPcs, AppendReturn
  <2>2. receipts' = receipts \cup {receipt[q]} /\ pc[q] = "committed"
        /\ UNCHANGED <<episodes, defects>>
    BY <1>8 DEF AppendReturn, stored
  <2>3. QED
    BY <1>4, <2>1, <2>2
<1>9. ASSUME UNCHANGED <<stored, procs, receipts, defects>> PROVE ReceiptInv'
  BY <1>4, <1>9 DEF stored, procs
<1>10. ASSUME NEW q \in Process, Export(q) PROVE ReceiptInv'
  BY <1>9, <1>10 DEF Export
<1>11. ASSUME UNCHANGED vars PROVE ReceiptInv'
  BY <1>9, <1>11 DEF vars, history
<1>12. ASSUME \E q \in Process :
                \/ CreateClaim(q) \/ CreateFail(q) \/ Open(q) \/ Crash(q)
                \/ AppendRefused(q) \/ \E ep \in Episode : AppendPrepare(q, ep)
       PROVE  ReceiptInv'
  BY <1>7, <1>12
<1>13. ReceiptInv'
  BY <1>1, <1>2, <1>3, <1>5, <1>6, <1>8, <1>10, <1>11, <1>12 DEF Next
<1>14. QED
  BY <1>13 DEF ReceiptInv

\* Every receipt ever returned names a stored row, with its seal.
THEOREM ReceiptsDurableHolds == Spec => []ReceiptsDurable
<1>1. Init => ReceiptInv /\ ReceiptPcs
  BY DEF Init, ReceiptInv, ReceiptPcs
<1>2. ReceiptInv => ReceiptsDurable
  BY DEF ReceiptInv, ReceiptsDurable, Durable
<1>3. QED
  BY <1>1, <1>2, NextReceiptInv, NextReceiptPcs, SoundInvHolds, PTL DEF Spec

-----------------------------------------------------------------------------
(* Types: what storage may lose or change still has the type of a row.     *)

TypedRow(row) ==
  /\ row.seq \in Nat
  /\ row.episode_id \in EpisodeId
  /\ row.payload \in Episode \cup {NoEpisode}
  /\ row.redacted \in BOOLEAN
  /\ DOMAIN row = Columns

RowsTyped == \A n \in DOMAIN episodes : TypedRow(episodes[n])

TypeInv ==
  /\ TypeOK
  /\ Claims
  /\ RowsAreSeq
  /\ Args
  /\ RowsTyped

\* The rows that are left keep their order.
LEMMA LostRows ==
  ASSUME RowsAreSeq, NEW n \in DOMAIN episodes,
         episodes' = Without(episodes, n)
  PROVE  /\ n \in Nat /\ DOMAIN episodes' \subseteq Nat
         /\ \A i \in DOMAIN episodes' :
              /\ i < n  => i \in DOMAIN episodes /\ episodes'[i] = episodes[i]
              /\ i >= n => i + 1 \in DOMAIN episodes /\ episodes'[i] = episodes[i + 1]
<1> DEFINE len == Len(episodes)
           before == SubSeq(episodes, 1, n - 1)
           after == SubSeq(episodes, n + 1, len)
<1>1. PICK S : episodes \in Seq(S)
  BY DEF RowsAreSeq
<1>2. len \in Nat /\ n \in 1..len /\ DOMAIN episodes = 1..len
  BY <1>1, LenProperties
<1>3. /\ before \in Seq(S) /\ Len(before) = n - 1
      /\ \A i \in 1..(n - 1) : before[i] = episodes[i]
  BY <1>1, <1>2, SubSeqProperties
<1>4. /\ after \in Seq(S) /\ Len(after) = len - n
      /\ \A i \in 1..(len - n) : after[i] = episodes[n + i]
  BY <1>1, <1>2, SubSeqProperties
<1>5. episodes' = before \o after
  BY DEF Without
<1> HIDE DEF before, after
<1>6. /\ episodes' \in Seq(S) /\ Len(episodes') = len - 1
      /\ \A i \in 1..(len - 1) :
           episodes'[i] = IF i <= n - 1 THEN before[i] ELSE after[i - (n - 1)]
  <2>1. /\ episodes' \in Seq(S)
        /\ Len(episodes') = Len(before) + Len(after)
        /\ \A i \in 1..(Len(before) + Len(after)) :
             episodes'[i] =
               IF i <= Len(before) THEN before[i] ELSE after[i - Len(before)]
    BY <1>3, <1>4, <1>5, ConcatProperties
  <2>2. Len(before) + Len(after) = len - 1
    BY <1>2, <1>3, <1>4
  <2>3. QED
    BY <1>3, <2>1, <2>2
<1>7. ASSUME NEW i \in DOMAIN episodes'
      PROVE  /\ i < n  => i \in DOMAIN episodes /\ episodes'[i] = episodes[i]
             /\ i >= n => i + 1 \in DOMAIN episodes /\ episodes'[i] = episodes[i + 1]
  <2>1. i \in 1..(len - 1)
    BY <1>6, LenProperties
  <2>2. CASE i < n
    <3>1. i \in 1..(n - 1) /\ i \in 1..len /\ i <= n - 1 /\ ~(i >= n)
      BY <1>2, <2>1, <2>2
    <3>2. episodes'[i] = episodes[i]
      BY <1>3, <1>6, <2>1, <3>1
    <3>3. QED
      BY <1>2, <3>1, <3>2
  <2>3. CASE ~(i < n)
    <3>1. i - (n - 1) \in 1..(len - n) /\ n + (i - (n - 1)) = i + 1
          /\ i + 1 \in 1..len
      BY <1>2, <2>1, <2>3
    <3>2. episodes'[i] = episodes[i + 1]
      BY <1>2, <1>4, <1>6, <2>1, <2>3, <3>1
    <3>3. QED
      BY <1>2, <2>1, <2>3, <3>1, <3>2
  <2>4. QED
    BY <2>2, <2>3
<1>8. DOMAIN episodes' \subseteq Nat
  <2>1. DOMAIN episodes' = 1..(len - 1)
    BY <1>6, LenProperties
  <2>2. QED
    BY <1>2, <2>1
<1>9. QED
  BY <1>2, <1>7, <1>8

LEMMA NextRowsTyped ==
  ASSUME TypeInv, [Next]_vars PROVE RowsTyped'
<1>1. ASSUME NEW p \in Process, NEW host \in Host, CreateCommit(p, host)
      PROVE  RowsTyped'
  <2>1. episodes' = <<>> /\ DOMAIN episodes' = {}
    BY <1>1, EmptySeq DEF CreateCommit
  <2>2. QED
    BY <2>1 DEF RowsTyped
<1>2. ASSUME NEW p \in Process, AppendCommit(p) PROVE RowsTyped'
  <2> PICK row : row = NewRow(arg[p])
    OBVIOUS
  <2>1. arg[p] \in Episode /\ episodes' = Append(episodes, row)
    BY <1>2 DEF AppendCommit, TypeInv, Args
  <2>2. /\ Len(episodes) \in Nat
        /\ DOMAIN episodes = 1..Len(episodes)
        /\ DOMAIN episodes' = 1..(Len(episodes) + 1)
        /\ \A n \in 1..Len(episodes) : episodes'[n] = episodes[n]
        /\ episodes'[Len(episodes) + 1] = row
        /\ episodes = <<>> <=> Len(episodes) = 0
    BY <2>1, AppendedRows DEF TypeInv
  <2>3. NextSeq \in Nat
    BY <2>2 DEF NextSeq, TypeInv, RowsTyped, TypedRow
  <2>4. arg[p].id \in EpisodeId
    BY <2>1 DEF Episode
  <2>5. TypedRow(row)
    BY <2>1, <2>3, <2>4, NewRowFields DEF TypedRow
  <2>6. ASSUME NEW n \in DOMAIN episodes' PROVE TypedRow(episodes'[n])
    BY <2>2, <2>5 DEF TypeInv, RowsTyped
  <2>7. QED
    BY <2>6 DEF RowsTyped, TypedRow
<1>3. ASSUME NEW n \in DOMAIN episodes, NEW row, TypedRow(row),
             episodes' = [episodes EXCEPT ![n] = row]
      PROVE  RowsTyped'
  <2>1. ASSUME NEW m \in DOMAIN episodes' PROVE TypedRow(episodes'[m])
    BY <1>3, ReplacedRows DEF TypeInv, RowsTyped
  <2>2. QED
    BY <2>1 DEF RowsTyped, TypedRow
<1>4. ASSUME NEW p \in Process, NEW id \in EpisodeId, Tombstone(p, id)
      PROVE  RowsTyped'
  <2>1. PICK n \in DOMAIN episodes :
          episodes' = [episodes EXCEPT ![n] = Redacted(episodes[n])]
    BY <1>4 DEF Tombstone, RowOf
  <2>2. TypedRow(Redacted(episodes[n]))
    BY RedactedFields DEF TypeInv, RowsTyped, TypedRow
  <2>3. QED
    BY <1>3, <2>1, <2>2
<1>5. ASSUME AlterPayload PROVE RowsTyped'
  <2>1. PICK n \in DOMAIN episodes, ep \in Episode \cup {NoEpisode} :
          episodes' = [episodes EXCEPT ![n] = WithPayload(episodes[n], ep)]
    BY <1>5 DEF AlterPayload
  <2>2. TypedRow(WithPayload(episodes[n], ep))
    BY DEF TypeInv, RowsTyped, TypedRow, WithPayload, Columns
  <2>3. QED
    BY <1>3, <2>1, <2>2
<1>6. ASSUME LoseRow PROVE RowsTyped'
  <2>1. PICK n \in DOMAIN episodes : episodes' = Without(episodes, n)
    BY <1>6 DEF LoseRow
  <2>2. ASSUME NEW i \in DOMAIN episodes' PROVE TypedRow(episodes'[i])
    <3>1. \E k \in DOMAIN episodes : episodes'[i] = episodes[k]
      BY <2>1, LostRows DEF TypeInv
    <3>2. QED
      BY <3>1 DEF TypeInv, RowsTyped
  <2>3. QED
    BY <2>2 DEF RowsTyped, TypedRow
<1>7. ASSUME UNCHANGED episodes PROVE RowsTyped'
  BY <1>7 DEF TypeInv, RowsTyped, TypedRow
<1>8. QED
  BY <1>1, <1>2, <1>4, <1>5, <1>6, <1>7, StepKinds
  DEF AbandonEpoch, StorageDefect, LoseTombstone, LoseAnchor, Relabel, FlipStatus,
      stored, meta

\* The fields of the store's header and of the processes.
LEMMA NextFields ==
  ASSUME TypeInv, [Next]_vars
  PROVE  /\ binding' \in Host \cup {None}
         /\ epoch_status' \in {"open", "abandoned"}
         /\ tombstones' \subseteq EpisodeId
         /\ result' \in [Process -> Answers]
         /\ defects' \in 0..MaxDamage
<1>1. /\ binding' \in Host \cup {None}
      /\ epoch_status' \in {"open", "abandoned"}
      /\ tombstones' \subseteq EpisodeId
      /\ defects' \in 0..MaxDamage
  <2>1. CASE StorageDefect
    BY <2>1, MaxDamageAssumption
    DEF TypeInv, TypeOK, StorageDefect, LoseRow, AlterPayload, LoseTombstone,
        LoseAnchor, Relabel, FlipStatus, meta
  <2>2. CASE ~StorageDefect
    BY <2>2, StepKinds
    DEF TypeInv, TypeOK, CreateCommit, AppendCommit, Tombstone, AbandonEpoch,
        stored, meta
  <2>3. QED
    BY <2>1, <2>2
<1>2. \A ep : AppendAnswer(ep) \in Answers
  BY DEF AppendAnswer, Answers
<1>3. result' \in [Process -> Answers]
  BY <1>2
  DEF TypeInv, TypeOK, Next, vars, procs, Answers, CreateClaim, CreateCommit,
      CreateFail, Open, Crash, AppendPrepare, AppendCommit, AppendRefused,
      AppendReturn, Tombstone, AbandonEpoch, Export, StorageDefect
<1>4. QED
  BY <1>1, <1>3

LEMMA TypeInvHolds == Spec => []TypeInv
<1>1. Init => TypeInv
  <2> SUFFICES ASSUME Init PROVE TypeInv
    OBVIOUS
  <2>1. RowsAreSeq /\ DOMAIN episodes = {} /\ Len(episodes) = 0
    BY EmptySeq DEF Init, RowsAreSeq
  <2>2. TypeOK
    BY <2>1, MaxDamageAssumption DEF Init, TypeOK, Answers
  <2>3. QED
    BY <2>1, <2>2, InitClaims DEF Init, TypeInv, Args, RowsTyped
<1>2. TypeInv /\ [Next]_vars => TypeInv'
  <2> SUFFICES ASSUME TypeInv, [Next]_vars PROVE TypeInv'
    OBVIOUS
  <2>1. Claims' /\ RowsAreSeq' /\ Args' /\ RowsTyped'
    BY NextClaims, RowsAreSeqStep, NextArgs, NextRowsTyped DEF TypeInv
  <2>2. DOMAIN episodes' = 1..Len(episodes')
    <3>1. PICK S : episodes' \in Seq(S)
      BY <2>1 DEF RowsAreSeq
    <3>2. QED
      BY <3>1, LenProperties
  <2>3. TypeOK'
    BY <2>1, <2>2, NextFields DEF TypeOK, Claims, Args, RowsTyped, TypedRow
  <2>4. QED
    BY <2>1, <2>3 DEF TypeInv
<1>3. QED
  BY <1>1, <1>2, PTL DEF Spec

\* Every variable keeps its type, whatever storage loses or changes.
THEOREM TypeOKHolds == Spec => []TypeOK
<1>1. TypeInv => TypeOK
  BY DEF TypeInv
<1>2. QED
  BY <1>1, TypeInvHolds, PTL

-----------------------------------------------------------------------------
(* Damage.  A file that verifies is what the last commit left: a row keeps *)
(* every column but its payload for as long as it is there, so a defect is *)
(* a missing row, which the anchor counts, a payload, which its seal tells *)
(* apart, or a field of the header, which the anchor seals.                *)

\* Rows are whole records, and the schema keeps their ids UNIQUE.
RowRecord(row) ==
  row = [seq             |-> row.seq,
         episode_id      |-> row.episode_id,
         content_seal    |-> row.content_seal,
         prev_chain_seal |-> row.prev_chain_seal,
         chain_seal      |-> row.chain_seal,
         payload         |-> row.payload,
         redacted        |-> row.redacted]

RowsInv ==
  /\ TypeInv
  /\ UniqueIds
  /\ \A n \in DOMAIN episodes : RowRecord(episodes[n])

\* The least member of a set of places.
LEMMA FirstPlace ==
  ASSUME NEW len \in Nat, NEW V \in SUBSET (1..len), V # {}
  PROVE  \E x \in V : \A y \in V : x <= y
<1> DEFINE R == StrictSubsetOrdering(V)
           F == FiniteSubsetsOf(V)
           below(v) == {u \in V : u < v}
           T == {below(v) : v \in V}
<1>1. IsFiniteSet(V)
  <2>1. IsFiniteSet(1..len)
    BY FS_Interval
  <2>2. QED
    BY <2>1, FS_Subset
<1>2. IsWellFoundedOn(R, F) /\ F = SUBSET V
  BY <1>1, FS_StrictSubsetOrderingWellFounded, FS_FiniteSubsetsOfFinite
<1>3. \A A, B \in SUBSET V : A \subseteq B /\ A # B => <<A, B>> \in R
  BY DEF StrictSubsetOrdering
<1> HIDE DEF R, F
<1>4. T \subseteq F /\ T # {}
  BY <1>2
<1> HIDE DEF T
<1>5. \E A \in T : \A B \in T : ~(<<B, A>> \in R)
  BY <1>2, <1>4, WFMin
<1>6. PICK v \in V : \A u \in V : ~(<<below(u), below(v)>> \in R)
  BY <1>5 DEF T
<1>7. ASSUME NEW u \in V, u < v PROVE FALSE
  <2>1. ~(u < u) /\ \A w \in V : w < u => w < v
    BY <1>7, SMT
  <2>2. below(u) \subseteq below(v) /\ u \in below(v) /\ u \notin below(u)
    BY <1>7, <2>1, Zenon
  <2>3. below(u) \in SUBSET V /\ below(v) \in SUBSET V
    OBVIOUS
  <2> HIDE DEF below
  <2>4. <<below(u), below(v)>> \in R
    BY <1>3, <2>2, <2>3
  <2>5. QED
    BY <1>6, <2>4
<1>8. QED
  BY <1>7

\* verify compares each number with the one before: the places are numbered.
LEMMA VerifiedIsNumbered ==
  ASSUME TypeInv, VerifyOk PROVE Numbered
<1> DEFINE len == Len(episodes)
           V == {n \in 1..len : episodes[n].seq # n}
<1>1. DOMAIN episodes = 1..len /\ len \in Nat
  <2>1. PICK S : episodes \in Seq(S)
    BY DEF TypeInv, RowsAreSeq
  <2>2. QED
    BY <2>1, LenProperties
<1>2. \A n \in 1..len :
        episodes[n].seq = (IF n = 1 THEN 1 ELSE episodes[n - 1].seq + 1)
  BY <1>1 DEF VerifyOk, SequenceInvalid
<1>3. ASSUME V # {} PROVE FALSE
  <2>1. PICK n \in V : \A m \in V : n <= m
    BY <1>1, <1>3, FirstPlace
  <2>2. n \in 1..len /\ episodes[n].seq # n
    OBVIOUS
  <2>3. n # 1
    BY <1>2, <2>2
  <2>4. n - 1 \in 1..len /\ n - 1 \notin V
    BY <1>1, <2>1, <2>2, <2>3
  <2>5. episodes[n - 1].seq = n - 1
    BY <2>4
  <2>6. episodes[n].seq = n - 1 + 1
    BY <1>2, <2>2, <2>3, <2>5
  <2>7. QED
    BY <1>1, <2>2, <2>6
<1>4. QED
  BY <1>1, <1>3 DEF Numbered

LEMMA VerifiedIsSound ==
  ASSUME RowsInv, VerifyOk PROVE Sound
BY VerifiedIsNumbered DEF RowsInv, TypeInv, RowsTyped, TypedRow, RowShape, Sound

LEMMA NewRowRecord == ASSUME NEW ep PROVE RowRecord(NewRow(ep))
<1> DEFINE chain == ChainSeal(NextSeq, ep.id, ContentSeal(ep), RootSeal)
           content == ContentSeal(ep)
           root == RootSeal
           seq == NextSeq
<1>1. NewRow(ep) = [seq |-> seq, episode_id |-> ep.id, content_seal |-> content,
                    prev_chain_seal |-> root, chain_seal |-> chain,
                    payload |-> ep, redacted |-> FALSE]
  BY DEF NewRow
<1> HIDE DEF chain, content, root, seq
<1>2. QED
  BY <1>1 DEF RowRecord

\* A redaction and a damaged payload leave the other columns as they were.
LEMMA ChangedRow ==
  ASSUME NEW row, RowRecord(row), NEW ep
  PROVE  /\ RowRecord(Redacted(row)) /\ RowRecord(WithPayload(row, ep))
         /\ WithPayload(row, ep).seq = row.seq
         /\ WithPayload(row, ep).episode_id = row.episode_id
         /\ WithPayload(row, ep).content_seal = row.content_seal
         /\ WithPayload(row, ep).prev_chain_seal = row.prev_chain_seal
         /\ WithPayload(row, ep).chain_seal = row.chain_seal
         /\ WithPayload(row, ep).redacted = row.redacted
<1> PICK s, i, c, v, h, p, r :
      row = [seq |-> s, episode_id |-> i, content_seal |-> c, prev_chain_seal |-> v,
             chain_seal |-> h, payload |-> p, redacted |-> r]
  BY DEF RowRecord
<1>1. RowRecord(Redacted(row))
  <2> DEFINE none == NoEpisode
  <2>1. Redacted(row) = [row EXCEPT !.payload = none, !.redacted = TRUE]
    BY DEF Redacted
  <2> HIDE DEF none
  <2>2. Redacted(row) = [seq |-> s, episode_id |-> i, content_seal |-> c,
                         prev_chain_seal |-> v, chain_seal |-> h,
                         payload |-> none, redacted |-> TRUE]
    BY <2>1
  <2>3. QED
    BY <2>2 DEF RowRecord
<1>2. WithPayload(row, ep) = [seq |-> s, episode_id |-> i, content_seal |-> c,
                              prev_chain_seal |-> v, chain_seal |-> h,
                              payload |-> ep, redacted |-> r]
  BY DEF WithPayload
<1>3. RowRecord(WithPayload(row, ep))
  BY <1>2 DEF RowRecord
<1>4. QED
  <2> HIDE DEF RowRecord
  <2> QED
    BY <1>1, <1>2, <1>3

\* Where the rows of the file come from, step by step.
LEMMA RowSteps ==
  ASSUME RowsInv, [Next]_vars
  PROVE  \/ \E p \in Process, host \in Host : CreateCommit(p, host)
         \/ \E p \in Process : AppendCommit(p)
         \/ \E p \in Process, id \in EpisodeId : Tombstone(p, id)
         \/ \E p \in Process : AbandonEpoch(p)
         \/ StorageDefect /\ LoseRow
         \/ StorageDefect /\ AlterPayload
         \/ StorageDefect /\ UNCHANGED episodes
         \/ UNCHANGED <<stored, sealed, committed, defects>>
BY StepKinds DEF StorageDefect, LoseTombstone, LoseAnchor, Relabel, FlipStatus, meta

LEMMA NextRowsInv ==
  ASSUME RowsInv, TypeInv', [Next]_vars PROVE RowsInv'
<1> DEFINE Distinct == \A m, n \in DOMAIN episodes :
                         episodes[m].episode_id = episodes[n].episode_id => m = n
           Records == \A n \in DOMAIN episodes : RowRecord(episodes[n])
<1>0. SUFFICES Distinct' /\ Records'
  BY DEF RowsInv, UniqueIds, RowRecord
<1>1. ASSUME NEW p \in Process, NEW host \in Host, CreateCommit(p, host)
      PROVE  Distinct' /\ Records'
  <2>1. episodes' = <<>> /\ DOMAIN episodes' = {}
    BY <1>1, EmptySeq DEF CreateCommit
  <2>2. QED
    BY <2>1
<1>2. ASSUME NEW p \in Process, AppendCommit(p) PROVE Distinct' /\ Records'
  <2> PICK row : row = NewRow(arg[p])
    OBVIOUS
  <2>1. arg[p].id \notin StoredIds /\ episodes' = Append(episodes, row)
    BY <1>2, AppendIsVerified DEF AppendCommit
  <2>2. /\ Len(episodes) \in Nat
        /\ DOMAIN episodes = 1..Len(episodes)
        /\ DOMAIN episodes' = 1..(Len(episodes) + 1)
        /\ \A n \in 1..Len(episodes) : episodes'[n] = episodes[n]
        /\ episodes'[Len(episodes) + 1] = row
    BY <2>1, AppendedRows DEF RowsInv, TypeInv
  <2>3. row.episode_id = arg[p].id
    BY NewRowFields
  <2>4. RowRecord(row)
    BY NewRowRecord
  <2>5. Distinct'
    BY <2>1, <2>2, <2>3 DEF RowsInv, UniqueIds, StoredIds
  <2>6. ASSUME NEW n \in DOMAIN episodes' PROVE RowRecord(episodes'[n])
    BY <2>2, <2>4 DEF RowsInv
  <2>7. QED
    BY <2>5, <2>6 DEF RowRecord
<1>3. ASSUME NEW n \in DOMAIN episodes, NEW row, RowRecord(row),
             row.episode_id = episodes[n].episode_id,
             episodes' = [episodes EXCEPT ![n] = row]
      PROVE  Distinct' /\ Records'
  <2>1. /\ DOMAIN episodes' = DOMAIN episodes
        /\ \A m \in DOMAIN episodes :
             episodes'[m] = IF m = n THEN row ELSE episodes[m]
    BY <1>3, ReplacedRows DEF RowsInv, TypeInv
  <2>2. \A m \in DOMAIN episodes' : episodes'[m].episode_id = episodes[m].episode_id
    BY <1>3, <2>1
  <2>3. ASSUME NEW m \in DOMAIN episodes' PROVE RowRecord(episodes'[m])
    BY <1>3, <2>1 DEF RowsInv
  <2>4. QED
    BY <2>1, <2>2, <2>3 DEF RowsInv, UniqueIds, RowRecord
<1>4. ASSUME NEW p \in Process, NEW id \in EpisodeId, Tombstone(p, id)
      PROVE  Distinct' /\ Records'
  <2>1. PICK n \in DOMAIN episodes :
          episodes' = [episodes EXCEPT ![n] = Redacted(episodes[n])]
    BY <1>4 DEF Tombstone, RowOf
  <2>2. RowRecord(Redacted(episodes[n]))
    BY ChangedRow DEF RowsInv
  <2>3. Redacted(episodes[n]).episode_id = episodes[n].episode_id
    BY RedactedFields DEF RowsInv, TypeInv, RowsTyped, TypedRow
  <2>4. QED
    BY <1>3, <2>1, <2>2, <2>3
<1>5. ASSUME AlterPayload PROVE Distinct' /\ Records'
  <2>1. PICK n \in DOMAIN episodes, ep \in Episode \cup {NoEpisode} :
          episodes' = [episodes EXCEPT ![n] = WithPayload(episodes[n], ep)]
    BY <1>5 DEF AlterPayload
  <2>2. /\ RowRecord(WithPayload(episodes[n], ep))
        /\ WithPayload(episodes[n], ep).episode_id = episodes[n].episode_id
    BY ChangedRow DEF RowsInv
  <2>3. QED
    BY <1>3, <2>1, <2>2
<1>6. ASSUME LoseRow PROVE Distinct' /\ Records'
  <2>1. PICK n \in DOMAIN episodes : episodes' = Without(episodes, n)
    BY <1>6 DEF LoseRow
  <2>2. /\ n \in Nat /\ DOMAIN episodes' \subseteq Nat
        /\ \A i \in DOMAIN episodes' :
             /\ i < n  => i \in DOMAIN episodes /\ episodes'[i] = episodes[i]
             /\ i >= n => i + 1 \in DOMAIN episodes /\ episodes'[i] = episodes[i + 1]
    BY <2>1, LostRows DEF RowsInv, TypeInv
  <2>3. ASSUME NEW i \in DOMAIN episodes', NEW j \in DOMAIN episodes',
               episodes'[i].episode_id = episodes'[j].episode_id
        PROVE  i = j
    <3>1. \E k \in DOMAIN episodes : /\ episodes'[i] = episodes[k]
                                     /\ (i < n /\ k = i) \/ (i >= n /\ k = i + 1)
      BY <2>2
    <3>2. \E k \in DOMAIN episodes : /\ episodes'[j] = episodes[k]
                                     /\ (j < n /\ k = j) \/ (j >= n /\ k = j + 1)
      BY <2>2
    <3>3. QED
      BY <2>2, <2>3, <3>1, <3>2 DEF RowsInv, UniqueIds
  <2>4. ASSUME NEW i \in DOMAIN episodes' PROVE RowRecord(episodes'[i])
    <3>1. \E k \in DOMAIN episodes : episodes'[i] = episodes[k]
      BY <2>2
    <3>2. QED
      BY <3>1 DEF RowsInv
  <2>5. QED
    BY <2>3, <2>4 DEF RowRecord
<1>7. ASSUME UNCHANGED episodes PROVE Distinct' /\ Records'
  BY <1>7 DEF RowsInv, UniqueIds, RowRecord
<1>8. QED
  BY <1>1, <1>2, <1>4, <1>5, <1>6, <1>7, RowSteps DEF AbandonEpoch, stored

LEMMA RowsInvHolds == Spec => []RowsInv
<1>1. Init => UniqueIds /\ \A n \in DOMAIN episodes : RowRecord(episodes[n])
  <2> SUFFICES ASSUME Init PROVE DOMAIN episodes = {}
    BY DEF UniqueIds
  <2>1. QED
    BY EmptySeq DEF Init
<1>2. TypeInv /\ UniqueIds /\ (\A n \in DOMAIN episodes : RowRecord(episodes[n]))
        => RowsInv
  BY DEF RowsInv
<1>3. QED
  BY <1>1, <1>2, NextRowsInv, TypeInvHolds, PTL DEF Spec

-----------------------------------------------------------------------------
(* What a commit that verified left behind, and what of it remains.        *)

Intact(row) ==
  /\ row.redacted \in BOOLEAN
  /\ RowRecord(row)
  /\ row.redacted  => row.payload = NoEpisode
  /\ ~row.redacted => ContentSeal(row.payload) = row.content_seal

Whole(host, status, held, rows, ids) ==
  /\ \E S : rows \in Seq(S)
  /\ \A n \in DOMAIN rows : rows[n].seq = n /\ Intact(rows[n])
  /\ \A n \in DOMAIN rows : rows[n].redacted <=> rows[n].episode_id \in ids
  /\ ids \subseteq {rows[n].episode_id : n \in DOMAIN rows}
  /\ held.count = Len(rows)
  /\ held.seal = AnchorSeal(GenesisSeal(host), held.count, held.tail, status)

SameRow(row, old) ==
  /\ row.seq = old.seq
  /\ row.episode_id = old.episode_id
  /\ row.content_seal = old.content_seal
  /\ row.prev_chain_seal = old.prev_chain_seal
  /\ row.chain_seal = old.chain_seal
  /\ row.redacted = old.redacted

Remains(held, rows, oldheld, oldrows) ==
  /\ held = NoAnchor \/ held = oldheld
  /\ \A n \in DOMAIN rows : \E m \in DOMAIN oldrows : SameRow(rows[n], oldrows[m])

Known ==
  \E host, status, held, rows, ids :
    /\ committed = <<<<host, status, held>>, rows, ids>>
    /\ Whole(host, status, held, rows, ids)
    /\ Remains(anchor, episodes, held, rows)

KnownInv == file = "ready" => committed = Unknown \/ Known

\* A file that verifies has the fields of a whole commit.
LEMMA VerifiedIsWhole ==
  ASSUME RowsInv, VerifyOk
  PROVE  Whole(binding, epoch_status, anchor, episodes, tombstones)
<1>1. Numbered
  BY VerifiedIsNumbered DEF RowsInv
<1>2. /\ ~RedactionInvalid /\ ~PayloadInvalid /\ ~AnchorInvalid
  BY DEF VerifyOk
<1>3. \A n \in DOMAIN episodes : /\ episodes[n].redacted \in BOOLEAN
                                 /\ RowRecord(episodes[n])
  BY DEF RowsInv, TypeInv, RowsTyped, TypedRow
<1>4. \A n \in DOMAIN episodes : episodes[n].seq = n /\ Intact(episodes[n])
  BY <1>1, <1>2, <1>3 DEF RedactionInvalid, PayloadInvalid, Numbered, Intact
<1>5. \A n \in DOMAIN episodes :
        episodes[n].redacted <=> episodes[n].episode_id \in tombstones
  BY <1>2, <1>3 DEF RedactionInvalid
<1>6. tombstones \subseteq {episodes[n].episode_id : n \in DOMAIN episodes}
  BY <1>2 DEF RedactionInvalid, StoredIds
<1>7. /\ anchor.count = Len(episodes)
      /\ anchor.seal = AnchorSeal(GenesisSeal(binding), anchor.count, anchor.tail,
                                  epoch_status)
  BY <1>2 DEF AnchorInvalid
<1>8. QED
  BY <1>4, <1>5, <1>6, <1>7 DEF Whole, RowsInv, TypeInv, RowsAreSeq

\* A commit remains whole: the file is the committed one.
LEMMA CommitRemains ==
  ASSUME NEW host, NEW status, NEW held, NEW rows, NEW ids, NEW com,
         com = <<<<host, status, held>>, rows, ids>>,
         Whole(host, status, held, rows, ids)
  PROVE  \E h, s, a, r, t :
           /\ com = <<<<h, s, a>>, r, t>>
           /\ Whole(h, s, a, r, t)
           /\ Remains(held, rows, a, r)
<1>1. Remains(held, rows, held, rows)
  BY DEF Remains, SameRow
<1>2. QED
  BY <1>1

\* The converse of verify: what verifies and remains of a commit is all of it.
LEMMA RemainsAll ==
  ASSUME NEW host, NEW status, NEW held, NEW rows, NEW ids,
         NEW host0, NEW status0, NEW held0, NEW rows0, NEW ids0,
         Whole(host, status, held, rows, ids),
         Whole(host0, status0, held0, rows0, ids0),
         held # NoAnchor, Remains(held, rows, held0, rows0)
  PROVE  <<<<host, status, held>>, rows, ids>> =
         <<<<host0, status0, held0>>, rows0, ids0>>
<1>1. held = held0
  BY DEF Remains
<1>2. host = host0 /\ status = status0
  BY <1>1 DEF Whole, AnchorSeal, GenesisSeal, Seal
<1>3. /\ Len(rows) = Len(rows0)
      /\ \E S : rows \in Seq(S) /\ \E T : rows0 \in Seq(T)
  BY <1>1 DEF Whole
<1>4. PICK S, T : rows \in Seq(S) /\ rows0 \in Seq(T)
  BY <1>3
<1>5. /\ DOMAIN rows = 1..Len(rows) /\ DOMAIN rows0 = 1..Len(rows)
      /\ rows \in Seq(S \cup T) /\ rows0 \in Seq(S \cup T)
  BY <1>3, <1>4, LenProperties, SeqMonotonic
<1>6. ASSUME NEW n \in DOMAIN rows PROVE rows[n] = rows0[n]
  <2>1. PICK m \in DOMAIN rows0 : SameRow(rows[n], rows0[m])
    BY DEF Remains
  <2>2. m = n
    BY <2>1 DEF Whole, SameRow
  <2>3. Intact(rows[n]) /\ Intact(rows0[n]) /\ SameRow(rows[n], rows0[n])
    BY <1>5, <2>1, <2>2 DEF Whole
  <2>4. rows[n].payload = rows0[n].payload
    BY <2>3 DEF Intact, SameRow, ContentSeal, Seal
  <2>5. QED
    BY <2>3, <2>4 DEF Intact, SameRow, RowRecord
<1>7. rows = rows0
  BY <1>3, <1>5, <1>6, SeqEqual
<1>8. ids = ids0
  <2>1. /\ \A n \in DOMAIN rows : rows[n].episode_id \in ids <=> rows[n].redacted
        /\ \A n \in DOMAIN rows : rows[n].episode_id \in ids0 <=> rows[n].redacted
    BY <1>7 DEF Whole
  <2>2. \A x \in ids \cup ids0 : \E n \in DOMAIN rows : x = rows[n].episode_id
    BY <1>7 DEF Whole
  <2>3. ASSUME NEW x \in ids \cup ids0 PROVE x \in ids /\ x \in ids0
    <3>1. PICK n \in DOMAIN rows : x = rows[n].episode_id
      BY <2>2
    <3>2. x \in ids <=> x \in ids0
      BY <2>1, <3>1
    <3>3. QED
      BY <3>2
  <2>4. QED
    BY <2>3
<1>9. QED
  BY <1>1, <1>2, <1>7, <1>8

LEMMA KnownReports == ASSUME RowsInv, KnownInv PROVE DamageReported
<1> SUFFICES ASSUME file = "ready", stored # committed, VerifyOk,
                    committed # Unknown
             PROVE  FALSE
  BY DEF DamageReported
<1>1. PICK host, status, held, rows, ids :
        /\ committed = <<<<host, status, held>>, rows, ids>>
        /\ Whole(host, status, held, rows, ids)
        /\ Remains(anchor, episodes, held, rows)
  BY DEF KnownInv, Known
<1>2. Whole(binding, epoch_status, anchor, episodes, tombstones)
  BY VerifiedIsWhole
<1>3. anchor # NoAnchor
  BY DEF VerifyOk, AnchorInvalid
<1>4. <<<<binding, epoch_status, anchor>>, episodes, tombstones>> = committed
  BY <1>1, <1>2, <1>3, RemainsAll
<1>5. QED
  BY <1>4 DEF stored, meta

\* A commit of a file that verifies is known.
WholeInv ==
  VerifyOk => Whole(binding, epoch_status, anchor, episodes, tombstones)

LEMMA CommitKnown ==
  ASSUME WholeInv', VerifyOk', committed' = stored' PROVE Known'
<1>1. Whole(binding', epoch_status', anchor', episodes', tombstones')
  BY DEF WholeInv
<1>2. committed' = <<<<binding', epoch_status', anchor'>>, episodes', tombstones'>>
  BY DEF stored, meta
<1>3. \E h, s, a, r, t :
        /\ committed' = <<<<h, s, a>>, r, t>>
        /\ Whole(h, s, a, r, t)
        /\ Remains(anchor', episodes', a, r)
  BY <1>1, <1>2, CommitRemains
<1>4. QED
  BY <1>3 DEF Known

\* A defect takes rows away or changes payloads.
LEMMA DefectRows ==
  ASSUME RowsInv, StorageDefect, NEW i \in DOMAIN episodes'
  PROVE  \E k \in DOMAIN episodes : SameRow(episodes'[i], episodes[k])
<1>1. CASE LoseRow
  <2>1. PICK n \in DOMAIN episodes : episodes' = Without(episodes, n)
    BY <1>1 DEF LoseRow
  <2>2. \E k \in DOMAIN episodes : episodes'[i] = episodes[k]
    BY <2>1, LostRows DEF RowsInv, TypeInv
  <2>3. QED
    BY <2>2 DEF SameRow
<1>2. CASE AlterPayload
  <2>1. PICK n \in DOMAIN episodes, ep \in Episode \cup {NoEpisode} :
          episodes' = [episodes EXCEPT ![n] = WithPayload(episodes[n], ep)]
    BY <1>2 DEF AlterPayload
  <2>2. /\ DOMAIN episodes' = DOMAIN episodes
        /\ \A m \in DOMAIN episodes :
             episodes'[m] = IF m = n THEN WithPayload(episodes[n], ep)
                            ELSE episodes[m]
    BY <2>1, ReplacedRows DEF RowsInv, TypeInv
  <2>3. SameRow(WithPayload(episodes[n], ep), episodes[n])
    BY ChangedRow DEF RowsInv, SameRow
  <2>4. CASE i = n
    BY <2>2, <2>3, <2>4
  <2>5. CASE i # n
    BY <2>2, <2>5 DEF SameRow
  <2>6. QED
    BY <2>4, <2>5
<1>3. CASE UNCHANGED episodes
  BY <1>3 DEF SameRow
<1>4. QED
  BY <1>1, <1>2, <1>3
  DEF StorageDefect, LoseTombstone, LoseAnchor, Relabel, FlipStatus

\* The commit stays known, whatever storage does.
LEMMA DefectKnown ==
  ASSUME RowsInv, Known, StorageDefect PROVE Known'
<1>1. PICK host, status, held, rows, ids :
        /\ committed = <<<<host, status, held>>, rows, ids>>
        /\ Whole(host, status, held, rows, ids)
        /\ Remains(anchor, episodes, held, rows)
  BY DEF Known
<1>2. committed' = committed /\ (anchor' = anchor \/ anchor' = NoAnchor)
  BY DEF StorageDefect, LoseRow, AlterPayload, LoseTombstone, LoseAnchor, Relabel,
     FlipStatus, meta
<1>3. ASSUME NEW i \in DOMAIN episodes'
      PROVE  \E m \in DOMAIN rows : SameRow(episodes'[i], rows[m])
  <2>1. PICK k \in DOMAIN episodes : SameRow(episodes'[i], episodes[k])
    BY DefectRows
  <2>2. PICK m \in DOMAIN rows : SameRow(episodes[k], rows[m])
    BY <1>1 DEF Remains
  <2>3. SameRow(episodes'[i], rows[m])
    BY <2>1, <2>2 DEF SameRow
  <2>4. QED
    BY <2>3
<1>4. Remains(anchor', episodes', held, rows)
  BY <1>1, <1>2, <1>3 DEF Remains
<1>5. QED
  BY <1>1, <1>2, <1>4 DEF Known

LEMMA NextKnownInv ==
  ASSUME RowsInv, RowsInv', WholeInv', KnownInv, [Next]_vars PROVE KnownInv'
<1> SUFFICES ASSUME file' = "ready" PROVE committed' = Unknown \/ Known'
  BY DEF KnownInv
<1>1. CASE \E p \in Process, host \in Host : CreateCommit(p, host)
  <2>1. Sound' /\ committed' = stored'
    BY <1>1, CreateSound DEF CreateCommit
  <2>2. QED
    BY <2>1, CommitKnown DEF Sound
<1>2. CASE \E p \in Process : AppendCommit(p)
  <2>1. VerifyOk /\ committed' = stored'
    BY <1>2, AppendIsVerified DEF AppendCommit
  <2>2. Sound'
    BY <1>2, <2>1, VerifiedIsSound, AppendSound DEF RowsInv, TypeInv
  <2>3. QED
    BY <2>1, <2>2, CommitKnown DEF Sound
<1>3. CASE \E p \in Process, id \in EpisodeId : Tombstone(p, id)
  <2>1. VerifyOk /\ committed' = stored'
    BY <1>3 DEF Tombstone
  <2>2. Sound'
    BY <1>3, <2>1, VerifiedIsSound, TombstoneSound DEF RowsInv, TypeInv
  <2>3. QED
    BY <2>1, <2>2, CommitKnown DEF Sound
<1>4. CASE \E p \in Process : AbandonEpoch(p)
  <2>1. CASE ~VerifyOk
    BY <1>4, <2>1 DEF AbandonEpoch
  <2>2. CASE VerifyOk
    <3>1. Sound' /\ committed' = stored'
      BY <1>4, <2>2, VerifiedIsSound, AbandonSound DEF AbandonEpoch
    <3>2. QED
      BY <3>1, CommitKnown DEF Sound
  <2>3. QED
    BY <2>1, <2>2
<1>5. CASE StorageDefect
  <2>1. file = "ready" /\ committed' = committed
    BY <1>5 DEF StorageDefect
  <2>2. QED
    BY <1>5, <2>1, DefectKnown DEF KnownInv
<1>6. CASE /\ UNCHANGED <<stored, sealed, committed, defects>>
           /\ ~\E p \in Process, host \in Host : CreateCommit(p, host)
  <2>1. file = "ready"
    BY <1>6 DEF RowsInv, TypeInv, Claims, Next, vars, CreateClaim, CreateFail, Open,
       Crash, AppendPrepare, AppendCommit, AppendRefused, AppendReturn, Tombstone,
       AbandonEpoch, Export, StorageDefect
  <2>2. UNCHANGED <<committed, anchor, episodes>>
    BY <1>6 DEF stored, meta
  <2>3. QED
    BY <2>1, <2>2 DEF KnownInv, Known
<1>7. QED
  BY <1>1, <1>2, <1>3, <1>4, <1>5, <1>6, StepKinds

\* verify reports every file that differs from what the last commit left, for
\* any number of rows, defects and processes.
THEOREM DamageReportedHolds == Spec => []DamageReported
<1>1. Init => KnownInv
  BY DEF Init, KnownInv
<1>2. RowsInv => WholeInv
  BY VerifiedIsWhole DEF WholeInv
<1>3. RowsInv /\ KnownInv => DamageReported
  BY KnownReports
<1>4. QED
  BY <1>1, <1>2, <1>3, NextKnownInv, RowsInvHolds, PTL DEF Spec

-----------------------------------------------------------------------------
(* Answers.  Every row, whatever storage did to its payload, is a link that *)
(* a commit made durable; an export reads only rows of a verified file.     *)

IsLink(row, seals) ==
  /\ row.chain_seal \in seals
  /\ row.chain_seal = ChainSeal(row.seq, row.episode_id, row.content_seal,
                                row.prev_chain_seal)

Links == \A n \in DOMAIN episodes : IsLink(episodes[n], sealed)

Shows(rows, n, s) ==
  /\ s[2].seq = n
  /\ s[2].episode_id = rows[n].episode_id
  /\ \/ rows[n].payload = NoEpisode
     \/ s[2].content_seal = ContentSeal(rows[n].payload)

Told(shown, seals) ==
  /\ \A n \in DOMAIN shown.rows : \E s \in seals : Shows(shown.rows, n, s)
  /\ shown.rows # <<>> =>
       \E s \in seals : s = shown.root /\ Shows(shown.rows, Len(shown.rows), s)

Duplicates ==
  \A p \in Process :
    result[p] = "DuplicateEpisode" =>
      file = "ready" /\ (defects = 0 => arg[p].id \in StoredIds)

LEMMA LinkFields ==
  ASSUME NEW row, NEW seals, IsLink(row, seals)
  PROVE  /\ row.chain_seal[2].seq = row.seq
         /\ row.chain_seal[2].episode_id = row.episode_id
         /\ row.chain_seal[2].content_seal = row.content_seal
BY DEF IsLink, ChainSeal, Seal

LEMMA NextLinks ==
  ASSUME RowsInv, Links, [Next]_vars PROVE Links'
<1>1. ASSUME NEW p \in Process, NEW host \in Host, CreateCommit(p, host)
      PROVE  Links'
  <2>1. episodes' = <<>> /\ DOMAIN episodes' = {}
    BY <1>1, EmptySeq DEF CreateCommit
  <2>2. QED
    BY <2>1 DEF Links
<1>2. ASSUME NEW p \in Process, AppendCommit(p) PROVE Links'
  <2> PICK row : row = NewRow(arg[p])
    OBVIOUS
  <2>1. episodes' = Append(episodes, row) /\ sealed' = sealed \cup {row.chain_seal}
    BY <1>2 DEF AppendCommit
  <2>2. IsLink(row, sealed')
    <3>1. /\ row.seq = NextSeq /\ row.episode_id = arg[p].id
          /\ row.content_seal = ContentSeal(arg[p]) /\ row.prev_chain_seal = RootSeal
          /\ row.chain_seal = ChainSeal(NextSeq, arg[p].id, ContentSeal(arg[p]),
                                        RootSeal)
      BY NewRowFields
    <3>2. row.chain_seal = ChainSeal(row.seq, row.episode_id, row.content_seal,
                                     row.prev_chain_seal)
      BY <3>1
    <3>3. QED
      BY <2>1, <3>2 DEF IsLink
  <2>3. ASSUME NEW old, IsLink(old, sealed) PROVE IsLink(old, sealed')
    BY <2>1, <2>3 DEF IsLink
  <2>4. /\ Len(episodes) \in Nat
        /\ DOMAIN episodes = 1..Len(episodes)
        /\ DOMAIN episodes' = 1..(Len(episodes) + 1)
        /\ \A n \in 1..Len(episodes) : episodes'[n] = episodes[n]
        /\ episodes'[Len(episodes) + 1] = row
    BY <2>1, AppendedRows DEF RowsInv, TypeInv
  <2>5. ASSUME NEW n \in DOMAIN episodes' PROVE IsLink(episodes'[n], sealed')
    BY <2>2, <2>3, <2>4 DEF Links
  <2>6. QED
    BY <2>5 DEF Links
<1>3. ASSUME sealed' = sealed,
             \A i \in DOMAIN episodes' :
               \E k \in DOMAIN episodes : SameRow(episodes'[i], episodes[k])
      PROVE  Links'
  BY <1>3 DEF Links, IsLink, SameRow
<1>4. ASSUME NEW p \in Process, NEW id \in EpisodeId, Tombstone(p, id) PROVE Links'
  <2>1. PICK n \in DOMAIN episodes :
          episodes' = [episodes EXCEPT ![n] = Redacted(episodes[n])]
    BY <1>4 DEF Tombstone, RowOf
  <2>2. /\ DOMAIN episodes' = DOMAIN episodes
        /\ \A m \in DOMAIN episodes :
             episodes'[m] = IF m = n THEN Redacted(episodes[n]) ELSE episodes[m]
    BY <2>1, ReplacedRows DEF RowsInv, TypeInv
  <2>3. /\ Redacted(episodes[n]).seq = episodes[n].seq
        /\ Redacted(episodes[n]).episode_id = episodes[n].episode_id
        /\ Redacted(episodes[n]).content_seal = episodes[n].content_seal
        /\ Redacted(episodes[n]).prev_chain_seal = episodes[n].prev_chain_seal
        /\ Redacted(episodes[n]).chain_seal = episodes[n].chain_seal
    BY RedactedFields DEF RowsInv, TypeInv, RowsTyped, TypedRow
  <2>4. sealed' = sealed
    BY <1>4 DEF Tombstone
  <2>5. IsLink(Redacted(episodes[n]), sealed)
    BY <2>3 DEF Links, IsLink
  <2>6. QED
    BY <2>2, <2>4, <2>5 DEF Links
<1>5. CASE StorageDefect
  BY <1>3, <1>5, DefectRows DEF StorageDefect
<1>6. ASSUME UNCHANGED <<episodes, sealed>> PROVE Links'
  BY <1>6 DEF Links
<1>7. QED
  BY <1>1, <1>2, <1>4, <1>5, <1>6, StepKinds DEF AbandonEpoch, stored

\* Seals are only ever added.
LEMMA SealsGrow ==
  ASSUME Claims, [Next]_vars PROVE sealed \subseteq sealed'
<1>1. CASE StorageDefect
  BY <1>1 DEF StorageDefect
<1>2. CASE ~StorageDefect
  BY <1>2, StepKinds DEF CreateCommit, AppendCommit, Tombstone, AbandonEpoch
<1>3. QED
  BY <1>1, <1>2

LEMMA ExportTold ==
  ASSUME RowsInv, Links, NEW p \in Process, Export(p)
  PROVE  Told(exported', sealed)
<1> DEFINE rows == [n \in DOMAIN episodes |->
                      [episode_id |-> episodes[n].episode_id,
                       payload |-> episodes[n].payload]]
           len == Len(episodes)
<1>1. VerifyOk /\ exported'.root = RootSeal /\ exported'.rows = rows
  BY DEF Export
<1>2. DOMAIN episodes = 1..len /\ len \in Nat /\ (episodes # <<>> => len \in 1..len)
  <2>1. PICK S : episodes \in Seq(S)
    BY DEF RowsInv, TypeInv, RowsAreSeq
  <2>2. QED
    BY <2>1, LenProperties, EmptySeq
<1>3. \A n \in DOMAIN episodes : episodes[n].seq = n /\ Intact(episodes[n])
  BY <1>1, VerifiedIsWhole DEF Whole
<1>4. ASSUME NEW n \in DOMAIN episodes PROVE Shows(rows, n, episodes[n].chain_seal)
  <2>1. /\ rows[n].episode_id = episodes[n].episode_id
        /\ rows[n].payload = episodes[n].payload
    OBVIOUS
  <2> HIDE DEF rows
  <2>2. /\ episodes[n].chain_seal[2].seq = n
        /\ episodes[n].chain_seal[2].episode_id = episodes[n].episode_id
        /\ episodes[n].chain_seal[2].content_seal = episodes[n].content_seal
    BY <1>3, LinkFields DEF Links
  <2>3. QED
    BY <1>3, <2>1, <2>2 DEF Shows, Intact
<1>5. DOMAIN rows = DOMAIN episodes /\ Len(rows) = len
  <2>1. DOMAIN rows = 1..len
    BY <1>2
  <2>2. QED
    BY <1>2, <2>1, SeqDef, LenProperties
<1>6. rows # <<>> => episodes # <<>>
  BY <1>2, <1>5, EmptySeq
<1> HIDE DEF rows
<1>7. \A n \in DOMAIN rows : \E s \in sealed : Shows(rows, n, s)
  BY <1>4, <1>5 DEF Links, IsLink
<1>8. ASSUME rows # <<>>
      PROVE  \E s \in sealed : s = RootSeal /\ Shows(rows, Len(rows), s)
  <2>1. len \in DOMAIN episodes /\ RootSeal = episodes[len].chain_seal
    BY <1>2, <1>6, <1>8 DEF RootSeal
  <2>2. episodes[len].chain_seal \in sealed
    BY <2>1 DEF Links, IsLink
  <2>3. QED
    BY <1>4, <1>5, <2>1, <2>2
<1>9. QED
  BY <1>1, <1>7, <1>8 DEF Told

LEMMA NextTold ==
  ASSUME RowsInv, Links, Told(exported, sealed), [Next]_vars
  PROVE  Told(exported', sealed')
<1>1. ASSUME NEW seals, sealed \subseteq seals, NEW shown, Told(shown, sealed)
      PROVE  Told(shown, seals)
  BY <1>1 DEF Told
<1>2. sealed \subseteq sealed'
  BY SealsGrow DEF RowsInv, TypeInv
<1>3. CASE \E p \in Process : Export(p)
  BY <1>1, <1>2, <1>3, ExportTold
<1>4. CASE ~\E p \in Process : Export(p)
  <2>1. exported' = exported
    BY <1>4 DEF Next, vars, history, CreateClaim, CreateCommit, CreateFail, Open,
       Crash, AppendPrepare, AppendCommit, AppendRefused, AppendReturn, Tombstone,
       AbandonEpoch, StorageDefect
  <2>2. QED
    BY <1>1, <1>2, <2>1
<1>5. QED
  BY <1>3, <1>4

LEMMA DuplicateIsStored ==
  ASSUME NEW ep, AppendAnswer(ep) = "DuplicateEpisode" PROVE ep.id \in StoredIds
BY DEF AppendAnswer

LEMMA NextDuplicates ==
  ASSUME RowsInv, DefectCount, Duplicates, [Next]_vars PROVE Duplicates'
<1> DEFINE Keeps == \A p \in Process :
                      result'[p] = "DuplicateEpisode" =>
                        result[p] = "DuplicateEpisode" /\ arg'[p] = arg[p]
<1>1. ASSUME NEW q \in Process, AppendRefused(q) PROVE Duplicates'
  <2>1. /\ file = "ready" /\ file' = "ready" /\ UNCHANGED <<arg, episodes, defects>>
        /\ result' = [result EXCEPT ![q] = AppendAnswer(arg[q])]
        /\ result \in [Process -> Answers]
    BY <1>1 DEF AppendRefused, RowsInv, TypeInv, TypeOK, Claims, stored, history
  <2>2. StoredIds' = StoredIds
    BY <2>1 DEF StoredIds
  <2>3. \A p \in Process : result'[p] = IF p = q THEN AppendAnswer(arg[q]) ELSE result[p]
    BY <2>1
  <2>4. ASSUME NEW p \in Process, result'[p] = "DuplicateEpisode", defects' = 0
        PROVE  arg'[p].id \in StoredIds'
    <3>1. CASE p = q
      BY <2>1, <2>2, <2>3, <2>4, <3>1, DuplicateIsStored
    <3>2. CASE p # q
      BY <2>1, <2>2, <2>3, <2>4, <3>2 DEF Duplicates
    <3>3. QED
      BY <3>1, <3>2
  <2>5. QED
    BY <2>1, <2>4 DEF Duplicates
<1>2. ASSUME Keeps, file = "ready" => file' = "ready",
             file = "ready" /\ defects' = 0 => defects = 0 /\ StoredIds \subseteq StoredIds'
      PROVE  Duplicates'
  BY <1>2 DEF Duplicates
<1>3. ASSUME NEW q \in Process,
             \/ CreateClaim(q) \/ CreateFail(q) \/ Open(q) \/ Crash(q) \/ AppendReturn(q)
             \/ \E ep \in Episode : AppendPrepare(q, ep)
      PROVE  Duplicates'
  <2>1. /\ file = "ready" => file' = "ready"
        /\ UNCHANGED <<episodes, defects>>
    BY <1>3 DEF RowsInv, TypeInv, Claims, CreateClaim, CreateFail, Open, Crash,
       AppendReturn, AppendPrepare, stored, history
  <2>2. Keeps
    <3>1. /\ result'[q] # "DuplicateEpisode" \/ UNCHANGED <<arg, result>>
          /\ \A p \in Process : p # q => arg'[p] = arg[p] /\ result'[p] = result[p]
      <4>1. arg \in [Process -> Episode \cup {NoEpisode}] /\ result \in [Process -> Answers]
        BY DEF RowsInv, TypeInv, TypeOK
      <4>2. CASE CreateClaim(q) \/ CreateFail(q) \/ Open(q)
        BY <4>2 DEF CreateClaim, CreateFail, Open
      <4>3. CASE Crash(q)
        BY <4>1, <4>3 DEF Crash, None
      <4>4. CASE AppendReturn(q)
        BY <4>1, <4>4 DEF AppendReturn
      <4>5. CASE \E ep \in Episode : AppendPrepare(q, ep)
        BY <4>1, <4>5 DEF AppendPrepare, None
      <4>6. QED
        BY <1>3, <4>2, <4>3, <4>4, <4>5
    <3>2. QED
      BY <3>1
  <2>3. StoredIds' = StoredIds
    BY <2>1 DEF StoredIds
  <2>4. QED
    BY <1>2, <2>1, <2>2, <2>3
<1>4. ASSUME NEW q \in Process, NEW host \in Host, CreateCommit(q, host)
      PROVE  Duplicates'
  <2>1. file # "ready" /\ Keeps
    BY <1>4 DEF RowsInv, TypeInv, Claims, CreateCommit
  <2>2. QED
    BY <1>2, <2>1
<1>5. ASSUME NEW q \in Process, AppendCommit(q) PROVE Duplicates'
  <2> PICK row : row = NewRow(arg[q])
    OBVIOUS
  <2>1. /\ Keeps /\ UNCHANGED <<file, defects>> /\ episodes' = Append(episodes, row)
    BY <1>5 DEF AppendCommit
  <2>2. StoredIds \subseteq StoredIds'
    BY <2>1, AppendedRows DEF StoredIds, RowsInv, TypeInv
  <2>3. QED
    BY <1>2, <2>1, <2>2
<1>6. ASSUME NEW q \in Process, NEW id \in EpisodeId, Tombstone(q, id)
      PROVE  Duplicates'
  <2>1. /\ Keeps /\ UNCHANGED <<file, defects>> /\ VerifyOk
    BY <1>6 DEF Tombstone, procs
  <2>2. /\ DOMAIN episodes' = DOMAIN episodes
        /\ \A m \in DOMAIN episodes : episodes'[m].episode_id = episodes[m].episode_id
    BY <1>6, <2>1, VerifiedIsSound, TombstoneSound DEF RowsInv, TypeInv
  <2>3. StoredIds' = StoredIds
    BY <2>2 DEF StoredIds
  <2>4. QED
    BY <1>2, <2>1, <2>3
<1>7. ASSUME \/ \E q \in Process : AbandonEpoch(q) \/ Export(q)
             \/ UNCHANGED vars
      PROVE  Duplicates'
  <2>1. UNCHANGED <<file, defects, episodes, arg, result>>
    BY <1>7 DEF AbandonEpoch, Export, vars, procs, stored, history
  <2>2. StoredIds' = StoredIds
    BY <2>1 DEF StoredIds
  <2>3. QED
    BY <2>1, <2>2 DEF Duplicates
<1>8. ASSUME StorageDefect PROVE Duplicates'
  <2>1. /\ UNCHANGED <<file, arg, result>> /\ defects' # 0
    BY <1>8 DEF StorageDefect, procs, DefectCount
  <2>2. QED
    BY <2>1 DEF Duplicates
<1>9. QED
  BY <1>1, <1>3, <1>4, <1>5, <1>6, <1>7, <1>8 DEF Next

\* Every export shows only rows that were accepted, and a caller is told
\* DuplicateEpisode only of an episode that is stored exactly once.
THEOREM AnswersAreTrueHolds == Spec => []AnswersAreTrue
<1> DEFINE T == Told(exported, sealed)
<1>1. Init => Links /\ T /\ Duplicates
  <2> SUFFICES ASSUME Init PROVE Links /\ T /\ Duplicates
    OBVIOUS
  <2>1. DOMAIN episodes = {} /\ exported.rows = <<>> /\ DOMAIN exported.rows = {}
    BY EmptySeq DEF Init, NoExport
  <2>2. QED
    BY <2>1 DEF Init, Links, Told, Duplicates, None
<1>2. RowsInv /\ Links /\ T /\ Duplicates /\ DefectCount /\ [Next]_vars
        => Links' /\ T' /\ Duplicates'
  BY NextLinks, NextTold, NextDuplicates
<1>3. RowsInv /\ Links /\ T /\ Duplicates => AnswersAreTrue
  <2> SUFFICES ASSUME RowsInv, Told(exported, sealed), Duplicates
               PROVE  ExportSound /\ DuplicateMeansStored
    BY DEF AnswersAreTrue
  <2>1. ExportSound
    BY DEF ExportSound, Told, Shows
  <2>2. DuplicateMeansStored
    <3> SUFFICES ASSUME NEW p \in Process, arg[p].id \in StoredIds
                 PROVE  \E n \in DOMAIN episodes : RowOf(arg[p].id) = {n}
      BY DEF DuplicateMeansStored, Duplicates
    <3>1. PICK n \in DOMAIN episodes : episodes[n].episode_id = arg[p].id
      BY DEF StoredIds
    <3>2. RowOf(arg[p].id) = {n}
      BY <3>1 DEF RowOf, RowsInv, UniqueIds
    <3>3. QED
      BY <3>2
  <2>3. QED
    BY <2>1, <2>2
<1> HIDE DEF T
<1>4. QED
  BY <1>1, <1>2, <1>3, RowsInvHolds, CountHolds, PTL DEF Spec

-----------------------------------------------------------------------------
(* A ledger whose storage is left alone is an append-only log.             *)

EmptyUntilReady ==
  file # "ready" => episodes = <<>> /\ epoch_status = "open"

LogInv ==
  /\ SoundInv
  /\ TypeInv
  /\ EmptyUntilReady
  /\ defects = 0

Ids == [n \in DOMAIN episodes |-> episodes[n].episode_id]

Erased ==
  {episodes[n].episode_id : n \in {m \in DOMAIN episodes : episodes[m].redacted}}

LEMMA NextEmptyUntilReady ==
  ASSUME SoundInv, EmptyUntilReady, [Next]_vars PROVE EmptyUntilReady'
<1>1. ASSUME NEW p \in Process,
             \/ AppendCommit(p) \/ AbandonEpoch(p)
             \/ \E id \in EpisodeId : Tombstone(p, id)
      PROVE  file' = "ready"
  BY <1>1 DEF SoundInv, Claims, AppendCommit, AbandonEpoch, Tombstone
<1>2. CASE StorageDefect
  BY <1>2 DEF StorageDefect, EmptyUntilReady
<1>3. CASE \E p \in Process, host \in Host : CreateCommit(p, host)
  BY <1>3 DEF CreateCommit, EmptyUntilReady
<1>4. CASE UNCHANGED <<stored, sealed, committed, defects>>
  <2>1. UNCHANGED <<episodes, epoch_status>>
    BY <1>4 DEF stored, meta
  <2>2. file = "ready" => file' = "ready"
    BY DEF SoundInv, Claims, Next, vars, CreateClaim, CreateCommit, CreateFail, Open,
       Crash, AppendPrepare, AppendCommit, AppendRefused, AppendReturn, Tombstone,
       AbandonEpoch, Export, StorageDefect
  <2>3. QED
    BY <2>1, <2>2 DEF EmptyUntilReady
<1>5. QED
  BY <1>1, <1>2, <1>3, <1>4, StepKinds DEF EmptyUntilReady

LEMMA IdsIsSeq == ASSUME TypeInv PROVE Ids \in Seq(EpisodeId) /\ Len(Ids) = Len(episodes)
<1>1. PICK S : episodes \in Seq(S)
  BY DEF TypeInv, RowsAreSeq
<1>2. Len(episodes) \in Nat /\ DOMAIN episodes = 1..Len(episodes)
  BY <1>1, LenProperties
<1>3. Ids \in [1..Len(episodes) -> EpisodeId]
  BY <1>2 DEF Ids, TypeInv, RowsTyped, TypedRow
<1>4. Ids \in Seq(EpisodeId)
  BY <1>2, <1>3, SeqDef
<1>5. QED
  BY <1>2, <1>3, <1>4, LenProperties

\* A commit of append is Accept of its episode id.
LEMMA AppendAccepts ==
  ASSUME LogInv, LogInv', NEW p \in Process, AppendCommit(p),
         NEW id, id = arg[p].id
  PROVE  Log!Accept(id)
<1> PICK row : row = NewRow(arg[p])
  OBVIOUS
<1>1. /\ epoch_status = "open" /\ id \notin StoredIds /\ id \in EpisodeId
      /\ episodes' = Append(episodes, row) /\ epoch_status' = epoch_status
      /\ row.episode_id = id /\ row.redacted = FALSE
  BY AppendIsVerified, NewRowFields
  DEF AppendCommit, LogInv, SoundInv, Args, Episode
<1>2. /\ Len(episodes) \in Nat
      /\ DOMAIN episodes = 1..Len(episodes)
      /\ Len(episodes') = Len(episodes) + 1
      /\ DOMAIN episodes' = 1..(Len(episodes) + 1)
      /\ \A n \in 1..Len(episodes) : episodes'[n] = episodes[n]
      /\ episodes'[Len(episodes) + 1] = row
  BY <1>1, AppendedRows DEF LogInv, SoundInv
<1>3. Ids' = Append(Ids, id)
  <2>1. /\ Ids \in Seq(EpisodeId) /\ Len(Ids) = Len(episodes)
        /\ Ids' \in Seq(EpisodeId) /\ Len(Ids') = Len(episodes')
    BY IdsIsSeq DEF LogInv, TypeInv, RowsAreSeq, RowsTyped, TypedRow, Ids, TypeOK,
       Claims, Args
  <2>2. /\ Append(Ids, id) \in Seq(EpisodeId)
        /\ Len(Append(Ids, id)) = Len(Ids) + 1
        /\ \A n \in 1..Len(Ids) : Append(Ids, id)[n] = Ids[n]
        /\ Append(Ids, id)[Len(Ids) + 1] = id
    BY <1>1, <2>1, AppendProperties
  <2>3. \A n \in 1..(Len(episodes) + 1) : Ids'[n] = Append(Ids, id)[n]
    BY <1>1, <1>2, <2>1, <2>2 DEF Ids
  <2>4. QED
    BY <1>2, <2>1, <2>2, <2>3, SeqEqual
<1>4. Erased' = Erased
  BY <1>1, <1>2 DEF Erased
<1>5. id \notin {Ids[n] : n \in DOMAIN Ids}
  BY <1>1 DEF StoredIds, Ids
<1>6. QED
  BY <1>1, <1>3, <1>4, <1>5 DEF Log!Accept, Log!Logged, Ids, Erased

\* A redaction is Erase of the row's episode id.
LEMMA TombstoneErases ==
  ASSUME LogInv, NEW p \in Process, NEW id \in EpisodeId, Tombstone(p, id)
  PROVE  Log!Erase(id)
<1>1. PICK n \in DOMAIN episodes :
        /\ episodes[n].episode_id = id
        /\ ~episodes[n].redacted
        /\ episodes' = [episodes EXCEPT ![n] = Redacted(episodes[n])]
  BY DEF Tombstone, RowOf
<1>2. /\ DOMAIN episodes' = DOMAIN episodes
      /\ \A m \in DOMAIN episodes :
           episodes'[m] = IF m = n THEN Redacted(episodes[n]) ELSE episodes[m]
  BY <1>1, ReplacedRows DEF LogInv, SoundInv
<1>3. Redacted(episodes[n]).episode_id = id /\ Redacted(episodes[n]).redacted = TRUE
  BY <1>1, RedactedFields DEF LogInv, TypeInv, RowsTyped, TypedRow
<1>4. UniqueIds /\ epoch_status' = epoch_status
  BY DEF Tombstone, meta, LogInv, SoundInv, Sound, Claims
<1>5. Ids' = Ids
  BY <1>1, <1>2, <1>3 DEF Ids
<1>6. Erased' = Erased \cup {id}
  BY <1>1, <1>2, <1>3 DEF Erased
<1>7. id \notin Erased
  BY <1>1, <1>4 DEF Erased, UniqueIds
<1>8. id \in {Ids[m] : m \in DOMAIN Ids}
  BY <1>1 DEF Ids
<1>9. QED
  BY <1>4, <1>5, <1>6, <1>7, <1>8 DEF Log!Erase, Log!Logged, Ids, Erased

LEMMA StepRefines ==
  ASSUME LogInv, LogInv', [Next]_vars
  PROVE  [Log!Next]_(Log!logvars)
<1>1. CASE \E p \in Process, host \in Host : CreateCommit(p, host)
  <2>1. UNCHANGED <<episodes, epoch_status>>
    BY <1>1 DEF CreateCommit, LogInv, SoundInv, Claims, EmptyUntilReady
  <2>2. QED
    BY <2>1 DEF Log!logvars
<1>2. CASE \E p \in Process : AppendCommit(p)
  <2>1. PICK p \in Process : AppendCommit(p)
    BY <1>2
  <2>2. PICK id \in EpisodeId : id = arg[p].id
    BY <2>1 DEF AppendCommit, LogInv, SoundInv, Args, Episode
  <2>3. QED
    BY <2>1, <2>2, AppendAccepts DEF Log!Next
<1>3. CASE \E p \in Process, id \in EpisodeId : Tombstone(p, id)
  BY <1>3, TombstoneErases DEF Log!Next
<1>4. CASE \E p \in Process : AbandonEpoch(p)
  <2>1. /\ UNCHANGED episodes
        /\ epoch_status # "abandoned" /\ epoch_status' = "abandoned"
    BY <1>4 DEF AbandonEpoch
  <2>2. QED
    BY <2>1 DEF Log!Next, Log!Close
<1>5. CASE StorageDefect
  BY <1>5 DEF StorageDefect, LogInv
<1>6. CASE UNCHANGED <<stored, sealed, committed, defects>>
  BY <1>6 DEF stored, meta, Log!logvars
<1>7. QED
  BY <1>1, <1>2, <1>3, <1>4, <1>5, <1>6, StepKinds

\* Once storage has a defect it keeps it.
LEMMA DefectsStay ==
  ASSUME TypeInv, [Next]_vars, defects' = 0 PROVE defects = 0
<1>1. defects \in Nat
  BY MaxDamageAssumption DEF TypeInv, TypeOK
<1>2. defects' = defects \/ defects' = defects + 1
  BY StepKinds DEF StorageDefect, CreateCommit, AppendCommit, Tombstone, AbandonEpoch
<1>3. QED
  BY <1>1, <1>2

\* As long as storage adds no defect, every behaviour of the ledger is one of
\* an append-only log: nothing accepted twice, nothing accepted once closed,
\* nothing lost but an erased content.
THEOREM ImplementsLogHolds == Spec => ImplementsLog
<1>1. Init => Log!Init
  <2> SUFFICES ASSUME Init PROVE Log!Init
    OBVIOUS
  <2>1. episodes = <<>> /\ DOMAIN episodes = {} /\ epoch_status = "open"
    BY EmptySeq DEF Init
  <2>2. QED
    BY <2>1 DEF Log!Init
<1>2. Init => EmptyUntilReady
  BY DEF Init, EmptyUntilReady
<1>3. SoundInv /\ EmptyUntilReady /\ [Next]_vars => EmptyUntilReady'
  BY NextEmptyUntilReady
<1>4. ASSUME SoundInv, SoundInv', TypeInv, TypeInv', EmptyUntilReady, EmptyUntilReady',
             [Next]_vars
      PROVE  [defects' = 0 => Log!Next]_(Log!logvars)
  <2> SUFFICES ASSUME defects' = 0 PROVE [Log!Next]_(Log!logvars)
    OBVIOUS
  <2>1. defects = 0
    BY <1>4, DefectsStay
  <2>2. LogInv /\ LogInv'
    BY <1>4, <2>1 DEF LogInv
  <2>3. QED
    BY <1>4, <2>2, StepRefines
<1>5. QED
  BY <1>1, <1>2, <1>3, <1>4, SoundInvHolds, TypeInvHolds, PTL DEF Spec, ImplementsLog
=============================================================================
