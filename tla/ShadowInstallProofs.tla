------------------------- MODULE ShadowInstallProofs ------------------------
(***************************************************************************)
(* That the installer loses nothing of anybody else's, and leaves every    *)
(* home whole, for any number of processes, hosts, calls, failures and     *)
(* edits by other programs.                                                *)
(*                                                                         *)
(* Nothing is lost: a call touches a file only through its lease, so what  *)
(* it takes is what the lease holds.  The invariant IInv says what that    *)
(* is: before a file is replaced, the bytes that are in the backup; after  *)
(* it was written, the call's own work; and under recovery of a create,    *)
(* the very file that the journal identifies as the call's.  A backup,     *)
(* once made, is never made again.  All this whatever the other calls do   *)
(* meanwhile.                                                              *)
(*                                                                         *)
(* Every home is whole: Types says what is at each path and in each        *)
(* journal.  A plan leads from a home that fits to another (PlanLeads).    *)
(* Fit says what a pending journal stands for: the home was one that fits, *)
(* until the first n of its entries were published or taken back.  Who may *)
(* close the journal has published all n, or has restored them all.        *)
(*                                                                         *)
(* Calls happen at once, when callers take turns: what is installed        *)
(* changes only when a journal goes.  Due says that a pending journal is   *)
(* meant as one install or removal of what is installed now, so that the   *)
(* step that closes it does that (Moves), or does nothing because every    *)
(* entry was taken back.                                                   *)
(***************************************************************************)
EXTENDS ShadowInstall, FiniteSetTheorems, TLAPS

ApplyStep == {"begin", "copy", "attempt", "publish", "confirm", "complete", "rollback", "takeback"}

\* A journal identifies the creates that it confirms as those of its call.
Log(log) ==
  /\ log = [call |-> log.call, entries |-> log.entries]
  /\ \A k \in DOMAIN log.entries :
       LET e == log.entries[k]
       IN  /\ e = [path |-> e.path, before |-> e.before, after |-> e.after,
                   state |-> e.state, identity |-> e.identity]
           /\ e.state = "confirmed" => e.identity = log.call

\* A file that is there has bytes.
Whole(f) == \A path \in Path : f[path] = None \/ f[path].data # None

\* What the lease of a call holds at a path is the call's own work.
Mine(w, path) == path \in Path => w.held[path] = None \/ w.held[path].by = w.call

Applying(w) ==
  /\ w = [pc |-> w.pc, call |-> w.call, ops |-> w.ops, held |-> w.held, log |-> w.log,
          done |-> w.done, back |-> w.back]
  /\ w.pc \in ApplyStep
  /\ w.call \in 1..MaxCalls /\ w.done \in Nat /\ w.back \in Nat
  /\ DOMAIN w.held = Path /\ Whole(w.held)
  /\ \A k \in 1..w.done : Mine(w, w.ops[k].path)
  /\ w.done > 0 \/ w.pc \in {"copy", "attempt", "publish", "confirm"} =>
       Log(w.log) /\ w.log.call = w.call
  /\ w.pc = "begin" => w.done = 0
  /\ w.pc = "attempt" => Current(w).before = None
  /\ w.pc = "confirm" => Mine(w, Current(w).path)
  /\ w.pc \in {"rollback", "takeback"} => w.back > 0
  /\ w.pc = "takeback" => w.back <= w.done

\* Before a file is published, its former bytes are seen and kept.
Prepared(w, b) ==
  w.pc = "publish" =>
    /\ AsSeen(w)
    /\ Current(w).before # None /\ Current(w).path \in Path =>
         b[w.call][Current(w).path] = Current(w).before

\* A create that recovery will undo is the file that its call published.
Recovering(w) ==
  /\ w = [pc |-> w.pc, log |-> w.log, held |-> w.held, saved |-> w.saved, done |-> w.done]
  /\ w.pc \in {"disown", "undo"}
  /\ Log(w.log)
  /\ \A k \in Undone(w) :
       LET e == w.log.entries[k]
       IN  e.before = None => w.held[e.path] = None \/ w.held[e.path].by = w.log.call

Work(w, b) == w = Idle \/ (Applying(w) /\ Prepared(w, b)) \/ Recovering(w)

Home(f, b, j) ==
  /\ DOMAIN f = Path /\ Whole(f)
  /\ DOMAIN b = 1..MaxCalls /\ \A c \in 1..MaxCalls : DOMAIN b[c] = Path
  /\ j # None => Log(j)

IInv ==
  /\ Home(files, backup, journal)
  /\ calls \in Nat /\ edits \in Nat
  /\ DOMAIN work = Proc /\ \A p \in Proc : Work(work[p], backup)

\* Backups are added and never changed.
Grows(b, next) ==
  \A c \in 1..MaxCalls, path \in Path : b[c][path] # None => next[c][path] = b[c][path]

-----------------------------------------------------------------------------
(* Files and journals.                                                     *)

LEMMA NewFileShape ==
  ASSUME NEW data, NEW by
  PROVE  NewFile(data, by) = None \/ (NewFile(data, by).data # None /\ NewFile(data, by).by = by)
  BY DEF NewFile

\* A file that is written keeps the files whole.
LEMMA WriteWhole ==
  ASSUME NEW f, DOMAIN f = Path, Whole(f), NEW path, NEW data, NEW by
  PROVE  DOMAIN [f EXCEPT ![path] = NewFile(data, by)] = Path
         /\ Whole([f EXCEPT ![path] = NewFile(data, by)])
<1>1. ASSUME NEW q \in Path
      PROVE  LET g == [f EXCEPT ![path] = NewFile(data, by)] IN g[q] = None \/ g[q].data # None
  <2>1. CASE q = path
    BY <2>1, NewFileShape
  <2>2. CASE q # path
    BY <2>2 DEF Whole
  <2> QED
    BY <2>1, <2>2
<1> QED
  BY <1>1 DEF Whole

LEMMA PendingLog ==
  ASSUME NEW call, NEW ops
  PROVE  Log(Pending(call, ops)) /\ Pending(call, ops).call = call
<1> DEFINE log == Pending(call, ops)
<1>1. log = [call |-> call, entries |-> [k \in DOMAIN ops |-> Entry(ops[k])]]
  BY DEF Pending
<1>2. ASSUME NEW k \in DOMAIN log.entries
      PROVE  LET e == log.entries[k]
             IN  /\ e = [path |-> e.path, before |-> e.before, after |-> e.after,
                         state |-> e.state, identity |-> e.identity]
                 /\ e.state # "confirmed"
  BY <1>1 DEF Entry
<1> HIDE DEF log
<1> QED
  BY <1>1, <1>2 DEF Log, log

\* Marking an entry changes its state, and the identity of a confirmed one.
LEMMA MarkedLog ==
  ASSUME NEW log, Log(log), NEW path, NEW state, NEW identity,
         state = "confirmed" => identity = log.call
  PROVE  LET next == Marked(log, path, state, identity)
         IN  /\ Log(next) /\ next.call = log.call
             /\ DOMAIN next.entries = DOMAIN log.entries
             /\ \A k \in DOMAIN log.entries :
                  /\ next.entries[k].path = log.entries[k].path
                  /\ next.entries[k].before = log.entries[k].before
                  /\ next.entries[k].after = log.entries[k].after
<1> DEFINE next == Marked(log, path, state, identity)
           Of(e) == IF e.path # path THEN e
                    ELSE [e EXCEPT !.state = state,
                                   !.identity = IF state = "confirmed" THEN identity ELSE @]
<1>1. next = [call |-> log.call, entries |-> [k \in DOMAIN log.entries |-> Of(log.entries[k])]]
  <2> DEFINE entries == [k \in DOMAIN log.entries |-> Of(log.entries[k])]
  <2>1. log = [call |-> log.call, entries |-> log.entries]
    BY DEF Log
  <2>2. next = [log EXCEPT !.entries = entries]
    BY DEF Marked
  <2> HIDE DEF entries, next
  <2>3. next = [call |-> log.call, entries |-> entries]
    BY <2>1, <2>2
  <2> QED
    BY <2>3 DEF entries
<1>2. ASSUME NEW k \in DOMAIN log.entries
      PROVE  LET e == log.entries[k]
                 n == Of(e)
             IN  /\ n = [path |-> e.path, before |-> e.before, after |-> e.after,
                         state |-> n.state, identity |-> n.identity]
                 /\ n.state = "confirmed" => n.identity = log.call
                 /\ n.path = e.path /\ n.before = e.before /\ n.after = e.after
  <2> DEFINE e == log.entries[k]
  <2>1. /\ e = [path |-> e.path, before |-> e.before, after |-> e.after,
                state |-> e.state, identity |-> e.identity]
        /\ e.state = "confirmed" => e.identity = log.call
    BY DEF Log
  <2> HIDE DEF e
  <2>2. CASE e.path = path
    <3>1. Of(e) = [path |-> e.path, before |-> e.before, after |-> e.after, state |-> state,
                   identity |-> IF state = "confirmed" THEN identity ELSE e.identity]
      BY <2>1, <2>2
    <3> QED
      BY <3>1 DEF e
  <2>3. CASE e.path # path
    BY <2>1, <2>3 DEF e
  <2> QED
    BY <2>2, <2>3
<1> HIDE DEF next, Of
<1>3. /\ next.call = log.call
      /\ next.entries = [k \in DOMAIN log.entries |-> Of(log.entries[k])]
  BY <1>1
<1>4. next = [call |-> next.call, entries |-> next.entries]
  BY <1>1
<1>5. ASSUME NEW k \in DOMAIN log.entries
      PROVE  /\ next.entries[k].path = log.entries[k].path
             /\ next.entries[k].before = log.entries[k].before
             /\ next.entries[k].after = log.entries[k].after
  <2> DEFINE n == Of(log.entries[k])
  <2>1. n.path = log.entries[k].path /\ n.before = log.entries[k].before
        /\ n.after = log.entries[k].after
    BY <1>2
  <2>2. next.entries[k] = n
    BY <1>3
  <2> QED
    BY <2>1, <2>2
<1>6. ASSUME NEW k \in DOMAIN next.entries
      PROVE  LET e == next.entries[k]
             IN  /\ e = [path |-> e.path, before |-> e.before, after |-> e.after,
                         state |-> e.state, identity |-> e.identity]
                 /\ e.state = "confirmed" => e.identity = next.call
  <2> DEFINE e == log.entries[k]
             n == Of(e)
  <2>1. k \in DOMAIN log.entries /\ next.entries[k] = n /\ next.call = log.call
    BY <1>3
  <2>2. /\ n = [path |-> e.path, before |-> e.before, after |-> e.after,
                state |-> n.state, identity |-> n.identity]
        /\ n.state = "confirmed" => n.identity = log.call
        /\ n.path = e.path /\ n.before = e.before /\ n.after = e.after
    BY <1>2, <2>1
  <2> HIDE DEF n, e
  <2> QED
    BY <2>1, <2>2
<1>7. Log(next)
  BY <1>4, <1>6 DEF Log
<1>8. next.call = log.call /\ DOMAIN next.entries = DOMAIN log.entries
  BY <1>3
<1> QED
  BY <1>5, <1>7, <1>8 DEF next

-----------------------------------------------------------------------------
(* Processes.                                                              *)

\* A call that meets an error has what it wrote to take back.
LEMMA GiveUpKeeps ==
  ASSUME NEW w, Applying(w), NEW log, log = w.log \/ (Log(log) /\ log.call = w.call), NEW b
  PROVE  Work(GiveUp([w EXCEPT !.log = log]), b)
<1> DEFINE v == GiveUp([w EXCEPT !.log = log])
<1>1. w = [pc |-> w.pc, call |-> w.call, ops |-> w.ops, held |-> w.held, log |-> w.log,
           done |-> w.done, back |-> w.back]
  BY DEF Applying
<1>2. v = [pc |-> "rollback", call |-> w.call, ops |-> w.ops, held |-> w.held, log |-> log,
           done |-> w.done, back |-> 1]
  <2> DEFINE u == [w EXCEPT !.log = log]
  <2>1. u = [pc |-> w.pc, call |-> w.call, ops |-> w.ops, held |-> w.held, log |-> log,
             done |-> w.done, back |-> w.back]
    BY <1>1
  <2>2. v = [u EXCEPT !.pc = "rollback", !.back = 1]
    BY DEF GiveUp
  <2> HIDE DEF u, v
  <2> QED
    BY <2>1, <2>2
<1> HIDE DEF v
<1>3. /\ v.pc = "rollback" /\ v.call = w.call /\ v.ops = w.ops /\ v.held = w.held
      /\ v.log = log /\ v.done = w.done /\ v.back = 1
      /\ v = [pc |-> v.pc, call |-> v.call, ops |-> v.ops, held |-> v.held, log |-> v.log,
              done |-> v.done, back |-> v.back]
  BY <1>2
<1>4. Applying(v)
  <2>1. \A k \in 1..v.done : Mine(v, v.ops[k].path)
    BY <1>3 DEF Applying, Mine
  <2>2. v.done > 0 => Log(v.log) /\ v.log.call = v.call
    BY <1>3 DEF Applying
  <2>3. /\ v.call \in 1..MaxCalls /\ v.done \in Nat /\ v.back \in Nat
        /\ DOMAIN v.held = Path /\ Whole(v.held)
    BY <1>3 DEF Applying
  <2> QED
    BY <1>3, <2>1, <2>2, <2>3 DEF Applying, ApplyStep
<1>5. Prepared(v, b)
  BY <1>3 DEF Prepared
<1> QED
  BY <1>4, <1>5 DEF Work, v

LEMMA GiveUpAsIs ==
  ASSUME NEW w, Applying(w), NEW b
  PROVE  Work(GiveUp(w), b)
<1>1. w = [w EXCEPT !.log = w.log]
  BY DEF Applying
<1> QED
  BY <1>1, GiveUpKeeps

\* What one process does leaves the others prepared.
LEMMA StepKeeps ==
  ASSUME IInv, NEW p \in Proc, NEW w, Becomes(p, w), Work(w, backup'),
         Home(files', backup', journal'), Grows(backup, backup'),
         calls' \in Nat, edits' \in Nat
  PROVE  IInv'
<1>1. DOMAIN work' = Proc /\ work'[p] = w /\ \A q \in Proc \ {p} : work'[q] = work[q]
  BY DEF IInv, Becomes
<1>2. ASSUME NEW q \in Proc \ {p} PROVE Work(work[q], backup')
  <2>1. Work(work[q], backup)
    BY DEF IInv
  <2>2. ASSUME Applying(work[q]), Prepared(work[q], backup) PROVE Prepared(work[q], backup')
    <3>1. work[q].call \in 1..MaxCalls
      BY <2>2 DEF Applying
    <3> QED
      BY <2>2, <3>1 DEF Prepared, Grows
  <2> QED
    BY <2>1, <2>2 DEF Work
<1> QED
  BY <1>1, <1>2 DEF IInv

\* A disk operation does what it should, or the call gives up.
LEMMA DiskKeeps ==
  ASSUME IInv, NEW p \in Proc, Applying(work[p]), NEW allowed, NEW f, NEW b, NEW j, NEW w,
         DiskStep(p, allowed, f, b, j, w), UNCHANGED <<calls, edits>>,
         w.log = work[p].log \/ (Log(w.log) /\ w.log.call = work[p].call),
         allowed => Home(f, b, j) /\ Grows(backup, b) /\ Work(w, b)
  PROVE  IInv'
<1>1. Home(files, backup, journal) /\ Grows(backup, backup)
      /\ calls' \in Nat /\ edits' \in Nat
  BY DEF IInv, Grows
<1>2. CASE /\ allowed
           /\ files' = f /\ backup' = b /\ journal' = j
           /\ Becomes(p, w)
  BY <1>1, <1>2, StepKeeps
<1>3. CASE Becomes(p, GiveUp(work[p])) /\ UNCHANGED home
  <2>1. Work(GiveUp(work[p]), backup)
    BY GiveUpAsIs
  <2>2. files' = files /\ backup' = backup /\ journal' = journal
    BY <1>3 DEF home
  <2> QED
    BY <1>1, <1>3, <2>1, <2>2, StepKeeps
<1>4. CASE /\ allowed
           /\ files' = f /\ backup' = b /\ journal' = j
           /\ \E log \in {work[p].log, w.log} : Becomes(p, GiveUp([work[p] EXCEPT !.log = log]))
  <2>1. PICK log \in {work[p].log, w.log} : Becomes(p, GiveUp([work[p] EXCEPT !.log = log]))
    BY <1>4
  <2>2. Work(GiveUp([work[p] EXCEPT !.log = log]), b)
    BY GiveUpKeeps
  <2> QED
    BY <1>1, <1>4, <2>1, <2>2, StepKeeps
<1> QED
  BY <1>2, <1>3, <1>4 DEF DiskStep

-----------------------------------------------------------------------------
(* The steps of install and remove.                                        *)

\* What a call keeps of itself when it goes on.
LEMMA GoesOn ==
  ASSUME NEW w, Applying(w), NEW pc, NEW log, NEW done
  PROVE  /\ [w EXCEPT !.log = log, !.pc = pc]
              = [pc |-> pc, call |-> w.call, ops |-> w.ops, held |-> w.held,
                 log |-> log, done |-> w.done, back |-> w.back]
         /\ [w EXCEPT !.done = done, !.pc = pc]
              = [pc |-> pc, call |-> w.call, ops |-> w.ops, held |-> w.held,
                 log |-> w.log, done |-> done, back |-> w.back]
<1>1. w = [pc |-> w.pc, call |-> w.call, ops |-> w.ops, held |-> w.held, log |-> w.log,
           done |-> w.done, back |-> w.back]
  BY DEF Applying
<1>2. [w EXCEPT !.log = log, !.pc = pc]
        = [pc |-> pc, call |-> w.call, ops |-> w.ops, held |-> w.held,
           log |-> log, done |-> w.done, back |-> w.back]
  <2> DEFINE v == [w EXCEPT !.log = log, !.pc = pc]
  <2>1. v = [w EXCEPT !.log = log, !.pc = pc]
    OBVIOUS
  <2> HIDE DEF v
  <2>2. v = [pc |-> pc, call |-> w.call, ops |-> w.ops, held |-> w.held,
             log |-> log, done |-> w.done, back |-> w.back]
    BY <1>1, <2>1
  <2> QED
    BY <2>1, <2>2
<1>3. [w EXCEPT !.done = done, !.pc = pc]
        = [pc |-> pc, call |-> w.call, ops |-> w.ops, held |-> w.held,
           log |-> w.log, done |-> done, back |-> w.back]
  <2> DEFINE v == [w EXCEPT !.done = done, !.pc = pc]
  <2>1. v = [w EXCEPT !.done = done, !.pc = pc]
    OBVIOUS
  <2> HIDE DEF v
  <2>2. v = [pc |-> pc, call |-> w.call, ops |-> w.ops, held |-> w.held,
             log |-> w.log, done |-> done, back |-> w.back]
    BY <1>1, <2>1
  <2> QED
    BY <2>1, <2>2
<1> QED
  BY <1>2, <1>3

\* The next operation begins, or the call is complete.
LEMMA AdvancedKeeps ==
  ASSUME NEW w, Applying(w), Mine(w, Current(w).path), Log(w.log), w.log.call = w.call, NEW b
  PROVE  Work(Advanced(w), b) /\ Advanced(w).log = w.log
<1> DEFINE done == w.done + 1
           pc == IF done = Len(w.ops) THEN "complete" ELSE StageOf(w.ops[done + 1])
           v == Advanced(w)
<1>1. v = [pc |-> pc, call |-> w.call, ops |-> w.ops, held |-> w.held, log |-> w.log,
           done |-> done, back |-> w.back]
  <2>1. v = [w EXCEPT !.done = done, !.pc = pc]
    BY DEF Advanced
  <2> HIDE DEF v, done, pc
  <2> QED
    BY <2>1, GoesOn
<1>2. pc \in {"complete", "attempt", "copy"} /\ (pc = "attempt" => w.ops[done + 1].before = None)
  BY DEF StageOf
<1>3. done \in Nat /\ \A k \in 1..done : k \in 1..w.done \/ k = done
  BY DEF Applying
<1>4. \A k \in 1..done : Mine(w, w.ops[k].path)
  BY <1>3 DEF Applying, Current
<1> HIDE DEF done, pc, v
<1>5. /\ v.pc = pc /\ v.call = w.call /\ v.ops = w.ops /\ v.held = w.held
      /\ v.log = w.log /\ v.done = done /\ v.back = w.back
      /\ v = [pc |-> v.pc, call |-> v.call, ops |-> v.ops, held |-> v.held, log |-> v.log,
              done |-> v.done, back |-> v.back]
  BY <1>1
<1>6. \A k \in 1..v.done : Mine(v, v.ops[k].path)
  BY <1>4, <1>5 DEF Mine
<1>7. v.pc = "attempt" => Current(v).before = None
  BY <1>2, <1>5 DEF Current
<1>8. Applying(v)
  BY <1>2, <1>3, <1>5, <1>6, <1>7 DEF Applying, ApplyStep
<1>9. Prepared(v, b)
  BY <1>2, <1>5 DEF Prepared
<1> QED
  BY <1>5, <1>8, <1>9 DEF Work, v

LEMMA BeginKeeps == ASSUME IInv, NEW p \in Proc, Applying(work[p]), Begin(p) PROVE IInv'
<1> DEFINE w == work[p]
           log == Pending(w.call, w.ops)
           v == [w EXCEPT !.log = log, !.pc = StageOf(w.ops[1])]
<1>1. w.pc = "begin" /\ DiskStep(p, LogHeld(w), files, backup, log, v) /\ UNCHANGED <<calls, edits>>
  BY DEF Begin
<1>2. Log(log) /\ log.call = w.call
  BY PendingLog
<1>3. StageOf(w.ops[1]) \in {"attempt", "copy"}
      /\ (StageOf(w.ops[1]) = "attempt" => w.ops[1].before = None)
  BY DEF StageOf
<1> HIDE DEF log
<1>4. v = [pc |-> StageOf(w.ops[1]), call |-> w.call, ops |-> w.ops, held |-> w.held,
           log |-> log, done |-> w.done, back |-> w.back]
  <2> DEFINE pc == StageOf(w.ops[1])
  <2>1. Applying(w) /\ v = [w EXCEPT !.log = log, !.pc = pc]
    OBVIOUS
  <2> HIDE DEF pc, v, w
  <2>2. v = [pc |-> pc, call |-> w.call, ops |-> w.ops, held |-> w.held,
             log |-> log, done |-> w.done, back |-> w.back]
    BY <2>1, GoesOn
  <2> QED
    BY <2>2 DEF pc
<1>5. Applying(w) /\ w.done = 0
  BY <1>1 DEF Applying
<1> HIDE DEF v, w
<1>6. /\ v.pc = StageOf(w.ops[1]) /\ v.call = w.call /\ v.ops = w.ops /\ v.held = w.held
      /\ v.log = log /\ v.done = 0 /\ v.back = w.back
      /\ v = [pc |-> v.pc, call |-> v.call, ops |-> v.ops, held |-> v.held, log |-> v.log,
              done |-> v.done, back |-> v.back]
  BY <1>4, <1>5
<1>7. Current(v) = w.ops[1]
  BY <1>6 DEF Current
<1>8. Applying(v)
  BY <1>2, <1>3, <1>5, <1>6, <1>7 DEF Applying, ApplyStep
<1>9. Work(v, backup)
  BY <1>3, <1>6, <1>8 DEF Prepared, Work
<1>10. Home(files, backup, log) /\ Grows(backup, backup)
  BY <1>2 DEF IInv, Home, Grows
<1>11. v.log = work[p].log \/ (Log(v.log) /\ v.log.call = work[p].call)
  BY <1>2, <1>6 DEF w
<1> QED
  BY <1>1, <1>9, <1>10, <1>11, DiskKeeps

LEMMA CopyKeeps == ASSUME IInv, NEW p \in Proc, Applying(work[p]), Copy(p) PROVE IInv'
<1> DEFINE w == work[p]
           op == Current(w)
           b == [backup EXCEPT ![w.call][op.path] = op.before]
           v == [w EXCEPT !.pc = "publish"]
           allowed == AsSeen(w) /\ backup[w.call][op.path] = None
<1>1. w.pc = "copy" /\ DiskStep(p, allowed, files, b, journal, v) /\ UNCHANGED <<calls, edits>>
  BY DEF Copy
<1>2. v = [pc |-> "publish", call |-> w.call, ops |-> w.ops, held |-> w.held,
           log |-> w.log, done |-> w.done, back |-> w.back]
  BY DEF Applying
<1>3. Applying(w)
  OBVIOUS
<1>4. Home(files, backup, journal)
  BY DEF IInv
<1>5. w.call \in 1..MaxCalls
  BY DEF Applying
<1>6. /\ DOMAIN b = 1..MaxCalls /\ \A c \in 1..MaxCalls : DOMAIN b[c] = Path
      /\ op.path \in Path => b[w.call][op.path] = op.before
      /\ \A c \in 1..MaxCalls, path \in Path :
           (c = w.call /\ path = op.path) \/ b[c][path] = backup[c][path]
  BY <1>4, <1>5 DEF Home
<1> HIDE DEF v, w, b, op
<1>7. /\ v.pc = "publish" /\ v.call = w.call /\ v.ops = w.ops /\ v.held = w.held
      /\ v.log = w.log /\ v.done = w.done /\ v.back = w.back
      /\ v = [pc |-> v.pc, call |-> v.call, ops |-> v.ops, held |-> v.held, log |-> v.log,
              done |-> v.done, back |-> v.back]
  BY <1>2
<1>8. Current(v) = op
  BY <1>7 DEF Current, op
<1>9. Applying(v)
  BY <1>1, <1>3, <1>7 DEF Applying, ApplyStep, Mine
<1>10. ASSUME allowed PROVE Home(files, b, journal) /\ Grows(backup, b) /\ Work(v, b)
  <2>1. Grows(backup, b)
    BY <1>6, <1>10 DEF Grows
  <2>2. AsSeen(v)
    BY <1>7, <1>8, <1>10 DEF AsSeen, op
  <2>3. Prepared(v, b)
    BY <1>6, <1>7, <1>8, <2>2 DEF Prepared
  <2> QED
    BY <1>4, <1>6, <1>9, <2>1, <2>3 DEF Home, Work
<1>11. v.log = work[p].log
  BY <1>7 DEF w
<1> HIDE DEF allowed
<1> QED
  BY <1>1, <1>10, <1>11, DiskKeeps

LEMMA MarkAttemptedKeeps ==
  ASSUME IInv, NEW p \in Proc, Applying(work[p]), MarkAttempted(p) PROVE IInv'
<1> DEFINE w == work[p]
           log == Marked(w.log, Current(w).path, "attempted", None)
           v == [w EXCEPT !.log = log, !.pc = "publish"]
           allowed == AsSeen(w) /\ LogHeld(w)
<1>1. w.pc = "attempt" /\ DiskStep(p, allowed, files, backup, log, v) /\ UNCHANGED <<calls, edits>>
  BY DEF MarkAttempted
<1>2. v = [pc |-> "publish", call |-> w.call, ops |-> w.ops, held |-> w.held,
           log |-> log, done |-> w.done, back |-> w.back]
  <2>1. Applying(w) /\ v = [w EXCEPT !.log = log, !.pc = "publish"]
    OBVIOUS
  <2> HIDE DEF log, v, w
  <2> QED
    BY <2>1, GoesOn
<1>3. Applying(w) /\ Log(w.log) /\ w.log.call = w.call /\ Current(w).before = None
  BY <1>1 DEF Applying
<1>4. Log(log) /\ log.call = w.call
  BY <1>3, MarkedLog
<1> HIDE DEF v, w, log
<1>5. /\ v.pc = "publish" /\ v.call = w.call /\ v.ops = w.ops /\ v.held = w.held
      /\ v.log = log /\ v.done = w.done /\ v.back = w.back
      /\ v = [pc |-> v.pc, call |-> v.call, ops |-> v.ops, held |-> v.held, log |-> v.log,
              done |-> v.done, back |-> v.back]
  BY <1>2
<1>6. Current(v) = Current(w)
  BY <1>5 DEF Current
<1>7. Applying(v)
  BY <1>3, <1>4, <1>5 DEF Applying, ApplyStep, Mine
<1>8. Home(files, backup, log) /\ Grows(backup, backup)
  BY <1>4 DEF IInv, Home, Grows
<1>9. ASSUME allowed PROVE Work(v, backup)
  <2>1. AsSeen(v)
    BY <1>5, <1>6, <1>9 DEF AsSeen
  <2>2. Prepared(v, backup)
    BY <1>3, <1>6, <2>1 DEF Prepared
  <2> QED
    BY <1>7, <2>2 DEF Work
<1>10. v.log = work[p].log \/ (Log(v.log) /\ v.log.call = work[p].call)
  BY <1>4, <1>5 DEF w
<1> HIDE DEF allowed
<1> QED
  BY <1>1, <1>8, <1>9, <1>10, DiskKeeps

LEMMA PublishKeeps ==
  ASSUME IInv, NEW p \in Proc, Applying(work[p]), Publish(p) PROVE IInv'
<1> DEFINE w == work[p]
           op == Current(w)
           new == NewFile(op.after, w.call)
           held == [w.held EXCEPT ![op.path] = new]
           seen == [w EXCEPT !.held[op.path] = new]
           f == [files EXCEPT ![op.path] = new]
           v == IF op.before = None THEN [seen EXCEPT !.pc = "confirm"] ELSE Advanced(seen)
<1>1. w.pc = "publish" /\ DiskStep(p, Held(w, op.path), f, backup, journal, v) /\ UNCHANGED <<calls, edits>>
  BY DEF Publish
<1>2. Applying(w) /\ Log(w.log) /\ w.log.call = w.call
  BY <1>1 DEF Applying
<1>3. seen = [pc |-> w.pc, call |-> w.call, ops |-> w.ops, held |-> held,
              log |-> w.log, done |-> w.done, back |-> w.back]
  <2>1. /\ w = [pc |-> w.pc, call |-> w.call, ops |-> w.ops, held |-> w.held,
                log |-> w.log, done |-> w.done, back |-> w.back]
        /\ seen = [w EXCEPT !.held = held]
    BY DEF Applying
  <2> HIDE DEF seen, held, w
  <2> QED
    BY <2>1
<1>4. DOMAIN held = Path /\ Whole(held)
  BY WriteWhole DEF Applying
<1>5. /\ op.path \in Path => held[op.path] = new
      /\ \A path \in Path : path = op.path \/ held[path] = w.held[path]
  BY DEF Applying
<1>6. new = None \/ new.by = w.call
  BY NewFileShape
<1>7. Home(files, backup, journal) /\ DOMAIN f = Path /\ Whole(f)
  BY WriteWhole DEF IInv, Home
<1>8. Home(f, backup, journal) /\ Grows(backup, backup)
  BY <1>7 DEF Home, Grows
<1> HIDE DEF w, new, held, f, v, op
<1>9. \A path : Mine(w, path) \/ path = op.path =>
        (path \in Path => held[path] = None \/ held[path].by = w.call)
  BY <1>5, <1>6 DEF Mine
<1> HIDE DEF seen
<1>10. /\ seen.pc = w.pc /\ seen.call = w.call /\ seen.ops = w.ops /\ seen.held = held
       /\ seen.log = w.log /\ seen.done = w.done /\ seen.back = w.back
       /\ seen = [pc |-> seen.pc, call |-> seen.call, ops |-> seen.ops, held |-> seen.held,
                  log |-> seen.log, done |-> seen.done, back |-> seen.back]
  BY <1>3
<1>11. Current(seen) = op /\ Mine(seen, op.path)
  BY <1>9, <1>10 DEF Current, op, Mine
<1>12. \A k \in 1..seen.done : Mine(seen, seen.ops[k].path)
  BY <1>2, <1>9, <1>10 DEF Applying, Mine
<1>13. Applying(seen)
  BY <1>1, <1>2, <1>4, <1>10, <1>12 DEF Applying, ApplyStep
<1>14. Work(v, backup) /\ v.log = w.log
  <2>1. CASE op.before = None
    <3>1. v = [seen EXCEPT !.pc = "confirm"]
      BY <2>1 DEF v
    <3>2. v = [pc |-> "confirm", call |-> seen.call, ops |-> seen.ops, held |-> seen.held,
               log |-> seen.log, done |-> seen.done, back |-> seen.back]
      BY <1>10, <3>1
    <3>3. /\ v.pc = "confirm" /\ v.call = seen.call /\ v.ops = seen.ops /\ v.held = seen.held
          /\ v.log = seen.log /\ v.done = seen.done /\ v.back = seen.back
          /\ v = [pc |-> v.pc, call |-> v.call, ops |-> v.ops, held |-> v.held, log |-> v.log,
                  done |-> v.done, back |-> v.back]
      BY <3>2
    <3>4. Current(v) = op
      BY <1>11, <3>3 DEF Current
    <3>5. Mine(v, op.path) /\ \A k \in 1..v.done : Mine(v, v.ops[k].path)
      BY <1>11, <1>12, <3>3 DEF Mine
    <3>6. Log(v.log) /\ v.log.call = v.call
      BY <1>2, <1>10, <3>3
    <3>7. Applying(v)
      BY <1>13, <3>3, <3>4, <3>5, <3>6 DEF Applying, ApplyStep
    <3> QED
      BY <1>10, <3>3, <3>7 DEF Work, Prepared
  <2>2. CASE op.before # None
    <3>1. v = Advanced(seen)
      BY <2>2 DEF v
    <3>2. Log(seen.log) /\ seen.log.call = seen.call
      BY <1>2, <1>10
    <3> QED
      BY <1>10, <1>11, <1>13, <3>1, <3>2, AdvancedKeeps
  <2> QED
    BY <2>1, <2>2
<1>15. Applying(work[p]) /\ v.log = work[p].log
  BY <1>14 DEF w
<1> QED
  BY <1>1, <1>8, <1>14, <1>15, DiskKeeps

LEMMA ConfirmKeeps ==
  ASSUME IInv, NEW p \in Proc, Applying(work[p]), Confirm(p) PROVE IInv'
<1> DEFINE w == work[p]
           log == Marked(w.log, Current(w).path, "confirmed", w.call)
           u == [w EXCEPT !.log = log]
           v == Advanced(u)
           allowed == LogHeld(w) /\ Held(w, Current(w).path)
<1>1. w.pc = "confirm" /\ DiskStep(p, allowed, files, backup, log, v) /\ UNCHANGED <<calls, edits>>
  BY DEF Confirm
<1>2. Applying(w) /\ Log(w.log) /\ w.log.call = w.call /\ Mine(w, Current(w).path)
  BY <1>1 DEF Applying
<1>3. Log(log) /\ log.call = w.call
  BY <1>2, MarkedLog
<1>4. u = [w EXCEPT !.log = log]
  OBVIOUS
<1> HIDE DEF u, w, log
<1>5. w = [pc |-> w.pc, call |-> w.call, ops |-> w.ops, held |-> w.held,
           log |-> w.log, done |-> w.done, back |-> w.back]
  BY <1>2 DEF Applying
<1>6. u = [pc |-> w.pc, call |-> w.call, ops |-> w.ops, held |-> w.held,
           log |-> log, done |-> w.done, back |-> w.back]
  BY <1>4, <1>5
<1>7. /\ u.pc = w.pc /\ u.call = w.call /\ u.ops = w.ops /\ u.held = w.held
      /\ u.log = log /\ u.done = w.done /\ u.back = w.back
      /\ u = [pc |-> u.pc, call |-> u.call, ops |-> u.ops, held |-> u.held, log |-> u.log,
              done |-> u.done, back |-> u.back]
  BY <1>6
<1>8. Current(u) = Current(w) /\ Mine(u, Current(u).path)
  BY <1>2, <1>7 DEF Current, Mine
<1>9. \A k \in 1..u.done : Mine(u, u.ops[k].path)
  BY <1>2, <1>7 DEF Applying, Mine
<1>10. Applying(u)
  BY <1>1, <1>2, <1>3, <1>7, <1>8, <1>9 DEF Applying, ApplyStep
<1>11. Work(v, backup) /\ v.log = u.log
  BY <1>3, <1>7, <1>8, <1>10, AdvancedKeeps
<1>12. Home(files, backup, log) /\ Grows(backup, backup)
  BY <1>3 DEF IInv, Home, Grows
<1>13. Applying(work[p]) /\ (v.log = work[p].log \/ (Log(v.log) /\ v.log.call = work[p].call))
  BY <1>2, <1>3, <1>7, <1>11 DEF w
<1> HIDE DEF v, allowed
<1> QED
  BY <1>1, <1>11, <1>12, <1>13, DiskKeeps

\* A call that ends leaves nothing to keep of it.
LEMMA IdleKeeps ==
  ASSUME IInv, NEW p \in Proc, Becomes(p, Idle), journal' \in {journal, None},
         UNCHANGED <<files, backup, calls, edits>>
  PROVE  IInv'
<1>1. Home(files', backup', journal') /\ Grows(backup, backup')
  BY DEF IInv, Home, Grows
<1>2. Work(Idle, backup') /\ calls' \in Nat /\ edits' \in Nat
  BY DEF IInv, Work
<1> QED
  BY <1>1, <1>2, StepKeeps

LEMMA StartApplyKeeps == ASSUME IInv, NEW p \in Proc, StartApply(p) PROVE IInv'
<1>1. PICK request \in Request :
        Becomes(p, [pc |-> "begin", call |-> calls + 1, ops |-> Plan(request),
                    held |-> files, log |-> None, done |-> 0, back |-> 0])
  BY DEF StartApply
<1> DEFINE ops == Plan(request)
           v == [pc |-> "begin", call |-> calls + 1, ops |-> ops,
                 held |-> files, log |-> None, done |-> 0, back |-> 0]
<1>2. Becomes(p, v)
  BY <1>1
<1>3. /\ calls < MaxCalls /\ calls' = calls + 1
      /\ files' = files /\ backup' = backup /\ journal' = journal /\ edits' = edits
  BY DEF StartApply, home
<1>4. calls + 1 \in 1..MaxCalls /\ calls' \in Nat /\ edits' \in Nat
  BY <1>3, InstallBounds DEF IInv
<1>5. Home(files', backup', journal') /\ Grows(backup, backup')
  BY <1>3 DEF IInv, Grows
<1> HIDE DEF ops
<1>6. Applying(v)
  BY <1>4 DEF IInv, Home, Applying, ApplyStep
<1>7. Work(v, backup')
  BY <1>6 DEF Work, Prepared
<1> HIDE DEF v
<1> QED
  BY <1>2, <1>4, <1>5, <1>7, StepKeeps

-----------------------------------------------------------------------------
(* The steps of the rollback.                                              *)

LEMMA NextBackKeeps ==
  ASSUME NEW w, Applying(w), w.pc \in {"rollback", "takeback"},
         NEW log, log = w.log \/ (Log(log) /\ log.call = w.call), NEW b
  PROVE  Work(NextBack([w EXCEPT !.log = log]), b)
<1> DEFINE u == [w EXCEPT !.log = log]
           v == NextBack(u)
<1>1. w = [pc |-> w.pc, call |-> w.call, ops |-> w.ops, held |-> w.held, log |-> w.log,
           done |-> w.done, back |-> w.back]
  BY DEF Applying
<1>2. u = [w EXCEPT !.log = log] /\ v = [u EXCEPT !.back = u.back + 1, !.pc = "rollback"]
  BY DEF NextBack
<1> HIDE DEF u, v
<1>3. u = [pc |-> w.pc, call |-> w.call, ops |-> w.ops, held |-> w.held, log |-> log,
           done |-> w.done, back |-> w.back]
  BY <1>1, <1>2
<1>4. v = [pc |-> "rollback", call |-> w.call, ops |-> w.ops, held |-> w.held, log |-> log,
           done |-> w.done, back |-> w.back + 1]
  BY <1>2, <1>3
<1>5. /\ v.pc = "rollback" /\ v.call = w.call /\ v.ops = w.ops /\ v.held = w.held
      /\ v.log = log /\ v.done = w.done /\ v.back = w.back + 1
      /\ v = [pc |-> v.pc, call |-> v.call, ops |-> v.ops, held |-> v.held, log |-> v.log,
              done |-> v.done, back |-> v.back]
  BY <1>4
<1>6. \A k \in 1..v.done : Mine(v, v.ops[k].path)
  BY <1>5 DEF Applying, Mine
<1>7. v.done > 0 => Log(v.log) /\ v.log.call = v.call
  BY <1>5 DEF Applying
<1>8. /\ v.call \in 1..MaxCalls /\ v.done \in Nat /\ v.back \in Nat /\ v.back > 0
      /\ DOMAIN v.held = Path /\ Whole(v.held)
  BY <1>5 DEF Applying
<1>9. Applying(v)
  BY <1>5, <1>6, <1>7, <1>8 DEF Applying, ApplyStep
<1> QED
  BY <1>5, <1>9 DEF Work, Prepared, u, v

LEMMA NextBackAsIs ==
  ASSUME NEW w, Applying(w), w.pc \in {"rollback", "takeback"}, NEW b
  PROVE  Work(NextBack(w), b)
<1>1. w = [w EXCEPT !.log = w.log]
  BY DEF Applying
<1> QED
  BY <1>1, NextBackKeeps

LEMMA RevokeKeeps == ASSUME IInv, NEW p \in Proc, Applying(work[p]), Revoke(p) PROVE IInv'
<1> DEFINE w == work[p]
           log == Marked(w.log, w.ops[w.back].path, "revoked", None)
           v == [w EXCEPT !.log = log, !.pc = "takeback"]
<1>1. /\ w.pc = "rollback" /\ w.back <= w.done
      /\ UNCHANGED <<files, backup, calls, edits>>
      /\ \/ journal' = log /\ Becomes(p, v)
         \/ /\ journal' = log
            /\ \E seen \in {w.log, log} : Becomes(p, NextBack([w EXCEPT !.log = seen]))
         \/ Becomes(p, NextBack(w)) /\ UNCHANGED journal
  BY DEF Revoke, Skip
<1>2. Applying(w) /\ w.back > 0 /\ w.done > 0 /\ Log(w.log) /\ w.log.call = w.call
  BY <1>1 DEF Applying
<1>3. Log(log) /\ log.call = w.call
  BY <1>2, MarkedLog
<1>4. calls' \in Nat /\ edits' \in Nat /\ Grows(backup, backup')
  BY <1>1 DEF IInv, Grows
<1>5. Home(files', backup', journal) /\ Home(files', backup', log)
  BY <1>1, <1>3 DEF IInv, Home
<1>6. v = [w EXCEPT !.log = log, !.pc = "takeback"]
  OBVIOUS
<1> HIDE DEF v, w, log
<1>7. v = [pc |-> "takeback", call |-> w.call, ops |-> w.ops, held |-> w.held,
           log |-> log, done |-> w.done, back |-> w.back]
  <2>1. w = [pc |-> w.pc, call |-> w.call, ops |-> w.ops, held |-> w.held, log |-> w.log,
             done |-> w.done, back |-> w.back]
    BY <1>2 DEF Applying
  <2> QED
    BY <1>6, <2>1
<1>8. /\ v.pc = "takeback" /\ v.call = w.call /\ v.ops = w.ops /\ v.held = w.held
      /\ v.log = log /\ v.done = w.done /\ v.back = w.back
      /\ v = [pc |-> v.pc, call |-> v.call, ops |-> v.ops, held |-> v.held, log |-> v.log,
              done |-> v.done, back |-> v.back]
  BY <1>7
<1>9. \A k \in 1..v.done : Mine(v, v.ops[k].path)
  BY <1>2, <1>8 DEF Applying, Mine
<1>10. Applying(v)
  BY <1>1, <1>2, <1>3, <1>8, <1>9 DEF Applying, ApplyStep
<1>11. Work(v, backup')
  BY <1>8, <1>10 DEF Work, Prepared
<1>12. CASE journal' = log /\ Becomes(p, v)
  BY <1>4, <1>5, <1>11, <1>12, StepKeeps
<1>13. CASE /\ journal' = log
            /\ \E seen \in {w.log, log} : Becomes(p, NextBack([w EXCEPT !.log = seen]))
  <2>1. PICK seen \in {w.log, log} : Becomes(p, NextBack([w EXCEPT !.log = seen]))
    BY <1>13
  <2>2. Work(NextBack([w EXCEPT !.log = seen]), backup')
    BY <1>1, <1>2, <1>3, NextBackKeeps
  <2> QED
    BY <1>4, <1>5, <1>13, <2>1, <2>2, StepKeeps
<1>14. CASE Becomes(p, NextBack(w)) /\ UNCHANGED journal
  <2>1. Work(NextBack(w), backup')
    BY <1>1, <1>2, NextBackAsIs
  <2> QED
    BY <1>4, <1>5, <1>14, <2>1, StepKeeps
<1> QED
  BY <1>1, <1>12, <1>13, <1>14

LEMMA TakeBackKeeps ==
  ASSUME IInv, NEW p \in Proc, Applying(work[p]), TakeBack(p) PROVE IInv'
<1> DEFINE w == work[p]
           path == w.ops[w.back].path
           f == [files EXCEPT ![path] = NewFile(w.ops[w.back].before, -w.call)]
<1>1. /\ w.pc \in {"rollback", "takeback"} /\ Becomes(p, NextBack(w))
      /\ files' = f \/ files' = files
      /\ UNCHANGED <<backup, journal, calls, edits>>
  BY DEF TakeBack, Skip
<1>2. Home(f, backup, journal) /\ Home(files, backup, journal)
  BY WriteWhole DEF IInv, Home
<1>3. Work(NextBack(w), backup)
  BY <1>1, NextBackAsIs
<1>4. calls' \in Nat /\ edits' \in Nat /\ Grows(backup, backup')
  BY <1>1 DEF IInv, Grows
<1> HIDE DEF f, w, path
<1>5. Home(files', backup', journal') /\ Work(NextBack(w), backup')
  BY <1>1, <1>2, <1>3
<1> QED
  BY <1>1, <1>4, <1>5, StepKeeps

-----------------------------------------------------------------------------
(* The steps of recover.                                                   *)

\* Nothing refuses the call: the creates that it will undo are the very
\* files that the journal identifies.
LEMMA StartRecoverKeeps == ASSUME IInv, NEW p \in Proc, StartRecover(p) PROVE IInv'
<1> DEFINE v == [pc |-> "disown", log |-> journal, held |-> files,
                 saved |-> backup[journal.call], done |-> 0]
<1>1. /\ journal # None /\ Conflicts = {} /\ Becomes(p, v)
      /\ files' = files /\ backup' = backup /\ journal' = journal
      /\ calls' = calls /\ edits' = edits
  BY DEF StartRecover, home
<1>2. Log(journal)
  BY <1>1 DEF IInv, Home
<1>3. ASSUME NEW k \in DOMAIN journal.entries,
             DataIn(files, journal.entries[k].path) = journal.entries[k].after,
             journal.entries[k].before = None
      PROVE  files[journal.entries[k].path].by = journal.call
  <2> DEFINE e == journal.entries[k]
  <2>1. ~Refuses(journal, e)
    BY <1>1 DEF Conflicts
  <2>2. e.state = "confirmed"
    BY <1>3, <2>1 DEF Refuses, InDoubt, DataAt
  <2>3. files[e.path] # None /\ files[e.path] = NewFile(e.after, e.identity)
    BY <2>1, <2>2 DEF Refuses
  <2>4. e.identity = journal.call
    BY <1>2, <2>2 DEF Log
  <2> HIDE DEF e
  <2>5. files[e.path].by = journal.call
    BY <2>3, <2>4, NewFileShape
  <2> QED
    BY <2>5 DEF e
<1> HIDE DEF v
<1>4. /\ v.pc = "disown" /\ v.log = journal /\ v.held = files
      /\ v = [pc |-> v.pc, log |-> v.log, held |-> v.held, saved |-> v.saved, done |-> v.done]
  BY DEF v
<1>5. \A k \in Undone(v) :
        LET e == v.log.entries[k]
        IN  e.before = None => v.held[e.path] = None \/ v.held[e.path].by = v.log.call
  BY <1>3, <1>4 DEF Undone
<1>6. Work(v, backup')
  BY <1>2, <1>4, <1>5 DEF Recovering, Work
<1>7. Home(files', backup', journal') /\ Grows(backup, backup') /\ calls' \in Nat /\ edits' \in Nat
  BY <1>1 DEF IInv, Grows
<1> QED
  BY <1>1, <1>6, <1>7, StepKeeps

LEMMA DisownKeeps == ASSUME IInv, NEW p \in Proc, Recovering(work[p]), Disown(p) PROVE IInv'
<1> DEFINE w == work[p]
<1>1. PICK k \in OwnedCreates(w) :
        LET log == Marked(w.log, w.log.entries[k].path, "revoked", None)
        IN  \/ journal' = log /\ Becomes(p, [w EXCEPT !.log = log])
            \/ Becomes(p, Idle) /\ UNCHANGED journal
  BY DEF Disown
<1>2. UNCHANGED <<files, backup, calls, edits>>
  BY DEF Disown
<1> DEFINE log == Marked(w.log, w.log.entries[k].path, "revoked", None)
           v == [w EXCEPT !.log = log]
<1>3. Recovering(w) /\ Log(w.log)
  BY DEF Recovering
<1>4. /\ Log(log) /\ log.call = w.log.call
      /\ DOMAIN log.entries = DOMAIN w.log.entries
      /\ \A n \in DOMAIN w.log.entries :
           /\ log.entries[n].path = w.log.entries[n].path
           /\ log.entries[n].before = w.log.entries[n].before
           /\ log.entries[n].after = w.log.entries[n].after
  <2> DEFINE was == w.log
             path == w.log.entries[k].path
  <2>1. Log(was) /\ "revoked" # "confirmed"
    BY <1>3
  <2> HIDE DEF was, path
  <2>2. LET next == Marked(was, path, "revoked", None)
        IN  /\ Log(next) /\ next.call = was.call
            /\ DOMAIN next.entries = DOMAIN was.entries
            /\ \A n \in DOMAIN was.entries :
                 /\ next.entries[n].path = was.entries[n].path
                 /\ next.entries[n].before = was.entries[n].before
                 /\ next.entries[n].after = was.entries[n].after
    BY <2>1, MarkedLog
  <2> QED
    BY <2>2 DEF was, path
<1>5. v = [w EXCEPT !.log = log]
  OBVIOUS
<1>6. \/ journal' = log /\ Becomes(p, v)
      \/ Becomes(p, Idle) /\ UNCHANGED journal
  BY <1>1
<1> HIDE DEF w, log, v
<1>7. v = [pc |-> w.pc, log |-> log, held |-> w.held, saved |-> w.saved, done |-> w.done]
  BY <1>3, <1>5 DEF Recovering
<1>8. /\ v.pc = w.pc /\ v.log = log /\ v.held = w.held
      /\ v = [pc |-> v.pc, log |-> v.log, held |-> v.held, saved |-> v.saved, done |-> v.done]
  BY <1>7
<1>9. ASSUME NEW n \in Undone(v)
      PROVE  LET e == v.log.entries[n]
             IN  e.before = None => v.held[e.path] = None \/ v.held[e.path].by = v.log.call
  <2>1. n \in Undone(w) /\ n \in DOMAIN w.log.entries
    BY <1>4, <1>8, <1>9 DEF Undone
  <2> QED
    BY <1>3, <1>4, <1>8, <2>1 DEF Recovering
<1>10. Work(v, backup)
  BY <1>3, <1>4, <1>8, <1>9 DEF Recovering, Work
<1>11. CASE journal' = log /\ Becomes(p, v)
  <2>1. Home(files', backup', journal') /\ Grows(backup, backup')
        /\ calls' \in Nat /\ edits' \in Nat
    BY <1>2, <1>4, <1>11 DEF IInv, Home, Grows
  <2>2. Work(v, backup')
    BY <1>2, <1>10
  <2> QED
    BY <1>11, <2>1, <2>2, StepKeeps
<1>12. CASE Becomes(p, Idle) /\ UNCHANGED journal
  BY <1>2, <1>12, IdleKeeps
<1> QED
  BY <1>6, <1>11, <1>12

LEMMA ReassertKeeps == ASSUME IInv, NEW p \in Proc, Recovering(work[p]), Reassert(p) PROVE IInv'
<1> DEFINE w == work[p]
           v == [w EXCEPT !.pc = "undo"]
<1>1. /\ Becomes(p, v) \/ Becomes(p, Idle)
      /\ files' = files /\ backup' = backup /\ journal' = journal
      /\ calls' = calls /\ edits' = edits
  BY DEF Reassert, home
<1>2. Recovering(w) /\ v = [w EXCEPT !.pc = "undo"]
  OBVIOUS
<1> HIDE DEF w, v
<1>3. v = [pc |-> "undo", log |-> w.log, held |-> w.held, saved |-> w.saved, done |-> w.done]
  BY <1>2 DEF Recovering
<1>4. /\ v.pc = "undo" /\ v.log = w.log /\ v.held = w.held
      /\ v = [pc |-> v.pc, log |-> v.log, held |-> v.held, saved |-> v.saved, done |-> v.done]
  BY <1>3
<1>5. Undone(v) = Undone(w)
  BY <1>4 DEF Undone
<1>6. Work(v, backup')
  BY <1>2, <1>4, <1>5 DEF Recovering, Work
<1>7. Home(files', backup', journal') /\ Grows(backup, backup') /\ calls' \in Nat /\ edits' \in Nat
  BY <1>1 DEF IInv, Grows
<1>8. CASE Becomes(p, v)
  BY <1>6, <1>7, <1>8, StepKeeps
<1>9. CASE Becomes(p, Idle)
  BY <1>1, <1>9, IdleKeeps
<1> QED
  BY <1>1, <1>8, <1>9

LEMMA UndoKeeps == ASSUME IInv, NEW p \in Proc, Recovering(work[p]), Undo(p) PROVE IInv'
<1> DEFINE w == work[p]
<1>1. PICK k \in Undone(w) :
        LET e == w.log.entries[k]
            saved == IF e.before = None THEN None ELSE w.saved[e.path]
        IN  \/ /\ files' = [files EXCEPT ![e.path] = NewFile(saved, -w.log.call)]
               /\ Becomes(p, [w EXCEPT !.done = k])
            \/ Becomes(p, Idle) /\ UNCHANGED files
  BY DEF Undo
<1> DEFINE e == w.log.entries[k]
           saved == IF e.before = None THEN None ELSE w.saved[e.path]
           f == [files EXCEPT ![e.path] = NewFile(saved, -w.log.call)]
           v == [w EXCEPT !.done = k]
<1>2. UNCHANGED <<backup, journal, calls, edits>>
  BY DEF Undo
<1>3. Home(f, backup, journal)
  <2> HIDE DEF saved, e, w
  <2> QED
    BY WriteWhole DEF IInv, Home
<1>4. Recovering(w) /\ v = [w EXCEPT !.done = k]
  OBVIOUS
<1>5. (files' = f /\ Becomes(p, v)) \/ (Becomes(p, Idle) /\ UNCHANGED files)
  BY <1>1
<1> HIDE DEF w, v, f
<1>6. v = [pc |-> w.pc, log |-> w.log, held |-> w.held, saved |-> w.saved, done |-> k]
  BY <1>4 DEF Recovering
<1>7. /\ v.pc = w.pc /\ v.log = w.log /\ v.held = w.held
      /\ v = [pc |-> v.pc, log |-> v.log, held |-> v.held, saved |-> v.saved, done |-> v.done]
  BY <1>6
<1>8. Undone(v) = Undone(w)
  BY <1>7 DEF Undone
<1>9. Work(v, backup')
  BY <1>4, <1>7, <1>8 DEF Recovering, Work
<1>10. CASE files' = f /\ Becomes(p, v)
  <2>1. Home(files', backup', journal') /\ Grows(backup, backup')
        /\ calls' \in Nat /\ edits' \in Nat
    BY <1>2, <1>3, <1>10 DEF IInv, Grows
  <2> QED
    BY <1>9, <1>10, <2>1, StepKeeps
<1>11. CASE Becomes(p, Idle) /\ UNCHANGED files
  BY <1>2, <1>11, IdleKeeps
<1> QED
  BY <1>5, <1>10, <1>11

-----------------------------------------------------------------------------
(* The invariant.                                                          *)

\* Other programs write whole files.
LEMMA PeerKeeps == ASSUME IInv, NEW path \in Path, Peer(path) PROVE IInv'
<1>1. PICK data \in PeerData(path) :
        files' = [files EXCEPT ![path] = NewFile(data, MaxCalls + edits + 1)]
  BY DEF Peer
<1>2. UNCHANGED <<backup, journal, work, calls>> /\ edits' = edits + 1
  BY DEF Peer
<1>3. DOMAIN files' = Path /\ Whole(files')
  BY <1>1, WriteWhole DEF IInv, Home
<1>4. Home(files', backup', journal') /\ calls' \in Nat /\ edits' \in Nat
  BY <1>2, <1>3 DEF IInv, Home
<1>5. DOMAIN work' = Proc /\ \A p \in Proc : Work(work'[p], backup')
  BY <1>2 DEF IInv
<1> QED
  BY <1>4, <1>5 DEF IInv

LEMMA Which ==
  ASSUME NEW w, NEW b, Work(w, b)
  PROVE  /\ w.pc \in ApplyStep => Applying(w) /\ Prepared(w, b)
         /\ w.pc \in {"disown", "undo"} => Recovering(w)
<1>1. CASE w = Idle
  <2>1. w.pc = "idle"
    BY <1>1 DEF Idle
  <2> QED
    BY <2>1 DEF ApplyStep
<1>2. CASE Applying(w) /\ Prepared(w, b)
  <2>1. w.pc \in ApplyStep
    BY <1>2 DEF Applying
  <2> QED
    BY <1>2, <2>1 DEF ApplyStep
<1>3. CASE Recovering(w)
  <2>1. w.pc \in {"disown", "undo"}
    BY <1>3 DEF Recovering
  <2> QED
    BY <1>3, <2>1 DEF ApplyStep
<1> QED
  BY <1>1, <1>2, <1>3 DEF Work

LEMMA Inductive == IInv /\ [Next]_vars => IInv'
<1> SUFFICES ASSUME IInv, [Next]_vars PROVE IInv'
  OBVIOUS
<1>1. ASSUME NEW p \in Proc, StartApply(p) \/ StartRecover(p) \/ Step(p) \/ Crash(p) PROVE IInv'
  <2>1. Work(work[p], backup)
    BY DEF IInv
  <2>2. /\ work[p].pc \in ApplyStep => Applying(work[p])
        /\ work[p].pc \in {"disown", "undo"} => Recovering(work[p])
    BY <2>1, Which
  <2>3. CASE Begin(p)
    BY <2>2, <2>3, BeginKeeps DEF Begin, ApplyStep
  <2>4. CASE Copy(p)
    BY <2>2, <2>4, CopyKeeps DEF Copy, ApplyStep
  <2>5. CASE MarkAttempted(p)
    BY <2>2, <2>5, MarkAttemptedKeeps DEF MarkAttempted, ApplyStep
  <2>6. CASE Publish(p)
    BY <2>2, <2>6, PublishKeeps DEF Publish, ApplyStep
  <2>7. CASE Confirm(p)
    BY <2>2, <2>7, ConfirmKeeps DEF Confirm, ApplyStep
  <2>8. CASE Complete(p)
    BY <2>8, IdleKeeps DEF Complete
  <2>9. CASE Revoke(p)
    BY <2>2, <2>9, RevokeKeeps DEF Revoke, ApplyStep
  <2>10. CASE TakeBack(p)
    BY <2>2, <2>10, TakeBackKeeps DEF TakeBack, ApplyStep
  <2>11. CASE EndRollback(p)
    BY <2>11, IdleKeeps DEF EndRollback, home
  <2>12. CASE Disown(p)
    BY <2>2, <2>12, DisownKeeps DEF Disown
  <2>13. CASE Reassert(p)
    BY <2>2, <2>13, ReassertKeeps DEF Reassert
  <2>14. CASE Undo(p)
    BY <2>2, <2>14, UndoKeeps DEF Undo
  <2>15. CASE CloseJournal(p)
    BY <2>15, IdleKeeps DEF CloseJournal
  <2>16. CASE Crash(p)
    BY <2>16, IdleKeeps DEF Crash, home
  <2> QED
    BY <1>1, <2>3, <2>4, <2>5, <2>6, <2>7, <2>8, <2>9, <2>10, <2>11, <2>12, <2>13, <2>14,
       <2>15, <2>16, StartApplyKeeps, StartRecoverKeeps DEF Step
<1>2. CASE UNCHANGED vars
  BY <1>2 DEF vars, home, IInv
<1> QED
  BY <1>1, <1>2, PeerKeeps DEF Next

LEMMA Initial == Init => IInv
<1> SUFFICES ASSUME Init PROVE IInv
  OBVIOUS
<1>1. DOMAIN files = Path /\ Whole(files)
  <2>1. PICK had \in [Host -> Release \cup {None}], known \in (SUBSET Project) \ {{}} :
          files = [path \in Path |->
            LET r == had[path[1]]
            IN  CASE path[2] = "settings" -> NewFile(Settings(0, r), 0)
                  [] path[2] # "settings" /\ r = None -> None
                  [] path[2] = "config" /\ r # None -> NewFile(Config(known), 0)
                  [] path[2] = "ownership" /\ r # None -> NewFile(Ownership(r), 0)
                  [] path[2] = "wrapper" /\ r # None -> NewFile(Wrapper(r), 0)]
    BY DEF Init
  <2>2. ASSUME NEW path \in Path
        PROVE  files[path] = None \/ \E data : files[path] = NewFile(data, 0)
    <3>1. path[2] \in Kind
      BY DEF Path
    <3> QED
      BY <2>1, <3>1 DEF Kind
  <2>3. Whole(files)
    BY <2>2, NewFileShape DEF Whole
  <2> QED
    BY <2>1, <2>3
<1>2. /\ DOMAIN backup = 1..MaxCalls /\ \A c \in 1..MaxCalls : DOMAIN backup[c] = Path
      /\ journal = None /\ calls \in Nat /\ edits \in Nat
      /\ DOMAIN work = Proc /\ \A p \in Proc : work[p] = Idle
  BY DEF Init
<1> QED
  BY <1>1, <1>2 DEF IInv, Home, Work

-----------------------------------------------------------------------------
(* What a step takes from a path.                                          *)

\* The installer's part of NothingLost, for one path.
Kept(path) ==
  \/ \E c \in 1..MaxCalls : backup[c][path] = DataAt(path)
  \/ \E p \in Proc : Working(p) /\ Transaction(work[p]) = files[path].by
  \/ \E p \in Proc : Working(p) /\ Restoring(work[p], path)

\* What is published over is seen, and in the backup of the call.
LEMMA PublishLosesNothing ==
  ASSUME IInv, NEW p \in Proc, Applying(work[p]), Prepared(work[p], backup), Publish(p),
         NEW path \in Path, files[path] # None, files'[path] # files[path]
  PROVE  Kept(path)
<1> DEFINE w == work[p]
           op == Current(w)
<1>1. w.pc = "publish" /\ w.call \in 1..MaxCalls
  BY DEF Publish, Applying
<1>2. UNCHANGED files \/ (Held(w, op.path)
        /\ files' = [files EXCEPT ![op.path] = NewFile(op.after, w.call)])
  BY DEF Publish, DiskStep, home
<1>3. path = op.path /\ files[path] = w.held[path]
  BY <1>2 DEF Held, IInv, Home
<1>4. AsSeen(w) /\ (op.before # None /\ op.path \in Path => backup[w.call][op.path] = op.before)
  BY <1>1 DEF Prepared
<1>5. DataAt(path) = op.before
  BY <1>3, <1>4 DEF AsSeen, DataIn, DataAt
<1>6. DataAt(path) # None
  BY DEF DataAt, DataIn, IInv, Home, Whole
<1>7. w.call \in 1..MaxCalls /\ backup[w.call][path] = DataAt(path)
  <2>1. op.before # None /\ op.path \in Path
    BY <1>3, <1>5, <1>6
  <2> HIDE DEF op, w
  <2> QED
    BY <1>1, <1>3, <1>4, <1>5, <2>1
<1> QED
  BY <1>7 DEF Kept

\* What is taken back is the call's own work.
LEMMA TakeBackLosesNothing ==
  ASSUME IInv, NEW p \in Proc, Applying(work[p]), TakeBack(p),
         NEW path \in Path, files[path] # None, files'[path] # files[path]
  PROVE  Kept(path)
<1> DEFINE w == work[p]
           op == w.ops[w.back]
<1>1. w.pc \in {"rollback", "takeback"} /\ w.back \in 1..w.done
  BY DEF TakeBack, Applying
<1>2. UNCHANGED files \/ (Held(w, op.path)
        /\ files' = [files EXCEPT ![op.path] = NewFile(op.before, -w.call)])
  BY DEF TakeBack
<1>3. path = op.path /\ files[path] = w.held[path]
  BY <1>2 DEF Held, IInv, Home
<1>4. files[path].by = w.call
  BY <1>1, <1>3 DEF Applying, Mine
<1>5. Working(p) /\ Transaction(w) = w.call
  BY <1>1 DEF Working, Transaction
<1> QED
  BY <1>4, <1>5 DEF Kept

\* What is undone is the file of the transaction, or restored.
LEMMA UndoLosesNothing ==
  ASSUME IInv, NEW p \in Proc, Recovering(work[p]), Undo(p),
         NEW path \in Path, files[path] # None, files'[path] # files[path]
  PROVE  Kept(path)
<1> DEFINE w == work[p]
<1>1. PICK k \in Undone(w) :
        \/ UNCHANGED files
        \/ /\ Held(w, w.log.entries[k].path)
           /\ \E new : files' = [files EXCEPT ![w.log.entries[k].path] = new]
  BY DEF Undo
<1> DEFINE e == w.log.entries[k]
<1>2. path = e.path /\ files[path] = w.held[path]
  BY <1>1 DEF Held, IInv, Home
<1>3. w.pc = "undo" /\ Working(p)
  BY DEF Undo, Working
<1>4. "log" \in DOMAIN w
  BY DEF Recovering
<1>5. CASE e.before = None
  <2>1. files[path].by = w.log.call
    BY <1>2, <1>5 DEF Recovering
  <2>2. Transaction(w) = w.log.call
    BY <1>3, <1>4 DEF Transaction
  <2> QED
    BY <1>3, <2>1, <2>2 DEF Kept
<1>6. CASE e.before # None
  BY <1>2, <1>3, <1>6 DEF Restoring, Kept
<1> QED
  BY <1>5, <1>6

LEMMA StepLosesNothing ==
  ASSUME IInv, [Next]_vars, edits' = edits,
         NEW path \in Path, files[path] # None, files'[path] # files[path]
  PROVE  Kept(path)
<1>1. ASSUME NEW p \in Proc, StartApply(p) \/ StartRecover(p) \/ Step(p) \/ Crash(p)
      PROVE  Kept(path)
  <2>1. Work(work[p], backup)
    BY DEF IInv
  <2>2. /\ work[p].pc \in ApplyStep => Applying(work[p]) /\ Prepared(work[p], backup)
        /\ work[p].pc \in {"disown", "undo"} => Recovering(work[p])
    BY <2>1, Which
  <2>3. CASE Publish(p)
    BY <2>2, <2>3, PublishLosesNothing DEF Publish, ApplyStep
  <2>4. CASE TakeBack(p)
    BY <2>2, <2>4, TakeBackLosesNothing DEF TakeBack, ApplyStep
  <2>5. CASE Undo(p)
    BY <2>2, <2>5, UndoLosesNothing DEF Undo
  <2>6. CASE Begin(p) \/ Copy(p) \/ MarkAttempted(p) \/ Confirm(p)
    BY <2>6 DEF Begin, Copy, MarkAttempted, Confirm, DiskStep, home
  <2>7. CASE Complete(p) \/ Revoke(p) \/ EndRollback(p)
    BY <2>7 DEF Complete, Revoke, EndRollback, home
  <2>8. CASE Disown(p) \/ Reassert(p) \/ CloseJournal(p)
    BY <2>8 DEF Disown, Reassert, CloseJournal, home
  <2>9. CASE StartApply(p) \/ StartRecover(p) \/ Crash(p)
    BY <2>9 DEF StartApply, StartRecover, Crash, home
  <2> QED
    BY <1>1, <2>3, <2>4, <2>5, <2>6, <2>7, <2>8, <2>9 DEF Step
<1>2. ASSUME NEW q \in Path, Peer(q) PROVE FALSE
  BY <1>2 DEF Peer, IInv
<1>3. ~UNCHANGED vars
  BY DEF vars, home
<1> QED
  BY <1>1, <1>2, <1>3 DEF Next

\* Whatever the installer takes from a path is its own work of the same
\* transaction, or kept in a backup, or brought back over by recovery.
THEOREM NothingLostHolds == Spec => NothingLost
<1>1. IInv /\ [Next]_vars =>
        [edits' = edits =>
           \A path \in Path : files[path] # None /\ files'[path] # files[path] =>
             \/ \E c \in 1..MaxCalls : backup[c][path] = DataAt(path)
             \/ \E p \in Proc : /\ Working(p)
                                /\ Transaction(work[p]) = files[path].by
             \/ \E p \in Proc : Working(p) /\ Restoring(work[p], path)]_vars
  BY StepLosesNothing DEF Kept
<1> QED
  BY <1>1, Initial, Inductive, PTL DEF Spec, NothingLost

-----------------------------------------------------------------------------
(* Homes that fit.                                                         *)

\* The wrapper and the manifest that go with a release, or with none.
WrapperOf(r) == IF r = None THEN None ELSE Wrapper(r)
OwnershipOf(r) == IF r = None THEN None ELSE Ownership(r)

\* Four files of a host that belong together.
Goes(settings, wrapper, ownership, config) ==
  /\ settings # None
  /\ \E r \in Release \cup {None} :
       /\ settings.hook = r
       /\ wrapper = WrapperOf(r) /\ ownership = OwnershipOf(r)
       /\ config = None <=> r = None

FitsIn(f, h) ==
  Goes(f[<<h, "settings">>], f[<<h, "wrapper">>], f[<<h, "ownership">>], f[<<h, "config">>])

AllFit(f) == \A h \in Host : FitsIn(f, h)

LEMMA NamesRelease ==
  ASSUME NEW r \in Release \cup {None}, NEW q \in Release \cup {None}
  PROVE  /\ WrapperOf(r) = WrapperOf(q) => r = q
         /\ OwnershipOf(r) = OwnershipOf(q) => r = q
<1>1. \A x \in Release : Wrapper(x) \in Data /\ Ownership(x) \in Data
  BY DEF Wrapper, Ownership, Data
<1>2. \A x \in Release : Wrapper(x) # None /\ Ownership(x) # None
  BY <1>1, NoneIsNothing
<1>3. \A x, y \in Release : /\ Wrapper(x) = Wrapper(y) => x = y
                            /\ Ownership(x) = Ownership(y) => x = y
  BY DEF Wrapper, Ownership
<1> QED
  BY <1>2, <1>3 DEF WrapperOf, OwnershipOf

\* What leads from one home that fits to another leads from any home that
\* agrees with the first where they differ to one that fits.
LEMMA Forward ==
  ASSUME NEW s1, NEW s2, NEW s3, NEW s4, Goes(s1, s2, s3, s4),
         NEW t1, NEW t2, NEW t3, NEW t4, Goes(t1, t2, t3, t4),
         NEW d1, NEW d2, NEW d3, NEW d4, Goes(d1, d2, d3, d4),
         NEW c1, NEW c2, NEW c3, NEW c4,
         (s1 # t1 /\ d1 = s1 /\ c1 = t1) \/ (s1 = t1 /\ c1 = d1),
         (s2 # t2 /\ d2 = s2 /\ c2 = t2) \/ (s2 = t2 /\ c2 = d2),
         (s3 # t3 /\ d3 = s3 /\ c3 = t3) \/ (s3 = t3 /\ c3 = d3),
         (s4 # t4 /\ d4 = s4 /\ c4 = t4) \/ (s4 = t4 /\ c4 = d4)
  PROVE  Goes(c1, c2, c3, c4)
<1>1. PICK s \in Release \cup {None} :
        s1.hook = s /\ s2 = WrapperOf(s) /\ s3 = OwnershipOf(s) /\ (s4 = None <=> s = None)
  BY DEF Goes
<1>2. PICK t \in Release \cup {None} :
        t1.hook = t /\ t2 = WrapperOf(t) /\ t3 = OwnershipOf(t) /\ (t4 = None <=> t = None)
  BY DEF Goes
<1>3. PICK d \in Release \cup {None} :
        d1.hook = d /\ d2 = WrapperOf(d) /\ d3 = OwnershipOf(d) /\ (d4 = None <=> d = None)
  BY DEF Goes
<1>4. t1 # None /\ d1 # None
  BY DEF Goes
<1>5. CASE s = t
  <2>1. c2 = d2 /\ c3 = d3
    BY <1>1, <1>2, <1>5
  <2>2. c1.hook = d /\ c1 # None
    BY <1>1, <1>2, <1>3, <1>4, <1>5
  <2>3. c4 = None <=> d = None
    BY <1>1, <1>2, <1>3, <1>5
  <2> QED
    BY <1>3, <2>1, <2>2, <2>3 DEF Goes
<1>6. CASE s # t
  <2>1. s1 # t1 /\ s2 # t2 /\ s3 # t3
    BY <1>1, <1>2, <1>6, NamesRelease
  <2>2. d = s
    BY <1>1, <1>3, <2>1
  <2>3. c1 = t1 /\ c2 = t2 /\ c3 = t3
    BY <2>1
  <2>4. c4 = None <=> t = None
    BY <1>1, <1>2, <1>3, <2>2
  <2> QED
    BY <1>2, <1>4, <2>3, <2>4 DEF Goes
<1> QED
  BY <1>5, <1>6

\* And back, even when one of the files was as it should become before.
LEMMA Backward ==
  ASSUME NEW s1, NEW s2, NEW s3, NEW s4, Goes(s1, s2, s3, s4),
         NEW t1, NEW t2, NEW t3, NEW t4, Goes(t1, t2, t3, t4),
         NEW d1, NEW d2, NEW d3, NEW d4, Goes(d1, d2, d3, d4),
         NEW c1, NEW c2, NEW c3, NEW c4,
         (s1 # t1 /\ d1 \in {s1, t1} /\ c1 = s1) \/ (s1 = t1 /\ c1 = d1),
         (s2 # t2 /\ d2 \in {s2, t2} /\ c2 = s2) \/ (s2 = t2 /\ c2 = d2),
         (s3 # t3 /\ d3 \in {s3, t3} /\ c3 = s3) \/ (s3 = t3 /\ c3 = d3),
         (s4 # t4 /\ d4 \in {s4, t4} /\ c4 = s4) \/ (s4 = t4 /\ c4 = d4),
         s1 # t1 /\ s2 # t2 => d1 = s1 \/ d2 = s2,
         s1 # t1 /\ s3 # t3 => d1 = s1 \/ d3 = s3,
         s2 # t2 /\ s3 # t3 => d2 = s2 \/ d3 = s3
  PROVE  Goes(c1, c2, c3, c4)
<1>1. PICK s \in Release \cup {None} :
        s1.hook = s /\ s2 = WrapperOf(s) /\ s3 = OwnershipOf(s) /\ (s4 = None <=> s = None)
  BY DEF Goes
<1>2. PICK t \in Release \cup {None} :
        t1.hook = t /\ t2 = WrapperOf(t) /\ t3 = OwnershipOf(t) /\ (t4 = None <=> t = None)
  BY DEF Goes
<1>3. PICK d \in Release \cup {None} :
        d1.hook = d /\ d2 = WrapperOf(d) /\ d3 = OwnershipOf(d) /\ (d4 = None <=> d = None)
  BY DEF Goes
<1>4. s1 # None /\ d1 # None
  BY DEF Goes
<1>5. CASE s = t
  <2>1. c2 = d2 /\ c3 = d3
    BY <1>1, <1>2, <1>5
  <2>2. c1.hook = d /\ c1 # None
    BY <1>1, <1>2, <1>3, <1>4, <1>5
  <2>3. c4 = None <=> d = None
    BY <1>1, <1>2, <1>3, <1>5
  <2> QED
    BY <1>3, <2>1, <2>2, <2>3 DEF Goes
<1>6. CASE s # t
  <2>1. s1 # t1 /\ s2 # t2 /\ s3 # t3
    BY <1>1, <1>2, <1>6, NamesRelease
  <2>2. d = s
    <3>1. (d1 = s1 /\ d2 = s2) \/ (d1 = s1 /\ d3 = s3) \/ (d2 = s2 /\ d3 = s3)
      BY <2>1
    <3>2. d1 = s1 => d = s
      BY <1>1, <1>3
    <3>3. d2 = s2 => d = s
      BY <1>1, <1>3, NamesRelease
    <3> QED
      BY <3>1, <3>2, <3>3
  <2>3. c1 = s1 /\ c2 = s2 /\ c3 = s3
    BY <2>1
  <2>4. c4 = None <=> s = None
    BY <1>1, <1>3, <2>2
  <2> QED
    BY <1>1, <1>4, <2>3, <2>4 DEF Goes
<1> QED
  BY <1>5, <1>6

-----------------------------------------------------------------------------
(* Types.                                                                  *)

SettingsData == [user : 0..MaxEdits, hook : Release \cup {None}]
ConfigData == [projects : (SUBSET Project) \ {{}}]

\* What may be at a path: nothing, what cannot be read, or data of its kind.
May(path, data) ==
  \/ data = None \/ data = Foreign
  \/ path[2] = "settings" /\ data \in SettingsData
  \/ path[2] = "config" /\ data \in ConfigData
  \/ path[2] = "ownership" /\ \E r \in Release : data = Ownership(r)
  \/ path[2] = "wrapper" /\ \E r \in Release : data = Wrapper(r)

FilesType(f) ==
  f \in [Path -> File \cup {None}] /\ \A path \in Path : May(path, DataIn(f, path))

\* A call that has not begun has no backups.
BackupType(b, n) ==
  /\ b \in [1..MaxCalls -> [Path -> Data \cup {None}]]
  /\ \A c \in 1..MaxCalls, path \in Path : May(path, b[c][path]) /\ (c > n => b[c][path] = None)

OpType(op) ==
  op.path \in Path /\ May(op.path, op.before) /\ May(op.path, op.after) /\ op.before # op.after

\* A path that is named twice is to be changed in the same way.
Single(ops) ==
  \A j, k \in DOMAIN ops : ops[j].path = ops[k].path =>
     ops[j].before = ops[k].before /\ ops[j].after = ops[k].after

OpsType(ops) ==
  /\ Len(ops) \in Nat \ {0} /\ DOMAIN ops = 1..Len(ops)
  /\ Single(ops) /\ \A k \in DOMAIN ops : OpType(ops[k])

StateType(e) ==
  /\ e.before = None => e.state \in {"planned", "attempted", "confirmed", "revoked"}
  /\ e.before # None => e.state = "not_applicable"

LogType(log, n) ==
  /\ log \in Journal /\ log.call \in 1..n
  /\ \E m \in Nat : DOMAIN log.entries = 1..m
  /\ Single(log.entries)
  /\ \A k \in DOMAIN log.entries : OpType(log.entries[k]) /\ StateType(log.entries[k])

\* A journal names the operations of its call.
Matches(ops, log) ==
  /\ DOMAIN log.entries = DOMAIN ops
  /\ \A k \in DOMAIN ops : /\ log.entries[k].path = ops[k].path
                           /\ log.entries[k].before = ops[k].before
                           /\ log.entries[k].after = ops[k].after

MidStep == {"copy", "attempt", "publish", "confirm"}

ApplyType(w, n) ==
  /\ w.call \in 1..n /\ OpsType(w.ops) /\ w.done \in 0..Len(w.ops)
  /\ w.pc \in MidStep => w.done < Len(w.ops)
  /\ w.pc = "complete" => w.done = Len(w.ops)
  /\ w.pc \in MidStep \cup {"complete"} \/ w.done > 0 =>
       LogType(w.log, n) /\ Matches(w.ops, w.log)
  /\ w.pc \in {"attempt", "confirm"} => Current(w).before = None

RecoverType(w, n) ==
  LogType(w.log, n) /\ \A path \in Path : May(path, w.saved[path])

WorkType(w, n) ==
  /\ w.pc \in ApplyStep => ApplyType(w, n)
  /\ w.pc \in {"disown", "undo"} => RecoverType(w, n)

HomeType(f, b, j, n) ==
  FilesType(f) /\ BackupType(b, n) /\ (j # None => LogType(j, n))

Types ==
  /\ HomeType(files, backup, journal, calls)
  /\ calls \in 0..MaxCalls /\ faults \in 0..MaxFaults /\ edits \in 0..MaxEdits
  /\ \A p \in Proc : WorkType(work[p], calls)

LEMMA MayData ==
  ASSUME NEW path, NEW data, May(path, data)
  PROVE  data \in Data \cup {None}
<1>1. \A r \in Release : Ownership(r) \in [owns : Release] /\ Wrapper(r) \in [text : Release]
  BY DEF Ownership, Wrapper
<1> QED
  BY <1>1 DEF May, Data, SettingsData, ConfigData

LEMMA TypesImplyTypeOK == Types => TypeOK
<1> SUFFICES ASSUME Types PROVE TypeOK
  OBVIOUS
<1>1. ASSUME journal # None PROVE
        /\ journal.call \in 1..calls
        /\ \A k \in DOMAIN journal.entries :
             LET e == journal.entries[k]
             IN  /\ e.path \in Path
                 /\ {e.before, e.after} \subseteq Data \cup {None}
                 /\ e.before # e.after
                 /\ IF e.before = None
                    THEN e.state \in {"planned", "attempted", "confirmed", "revoked"}
                    ELSE e.state = "not_applicable"
  BY <1>1, MayData DEF Types, HomeType, LogType, OpType, StateType
<1> QED
  BY <1>1 DEF TypeOK, Types, HomeType, FilesType, BackupType

\* A file that is written has what was written.
LEMMA WriteType ==
  ASSUME NEW f, FilesType(f), NEW path \in Path, NEW data, May(path, data), NEW by \in Writer
  PROVE  LET g == [f EXCEPT ![path] = NewFile(data, by)]
         IN  /\ FilesType(g) /\ DataIn(g, path) = data
             /\ \A q \in Path : q # path => DataIn(g, q) = DataIn(f, q)
<1> DEFINE new == NewFile(data, by)
           g == [f EXCEPT ![path] = new]
<1>1. new \in File \cup {None}
  BY MayData DEF NewFile, File
<1>2. (IF new = None THEN None ELSE new.data) = data
  <2>1. CASE data = None
    BY <2>1 DEF NewFile
  <2>2. CASE data # None
    <3>1. new = [data |-> data, by |-> by] /\ new \in File
      BY <2>2, MayData DEF NewFile, File
    <3>2. new # None
      BY <3>1, NoneIsNothing
    <3> QED
      BY <3>1, <3>2
  <2> QED
    BY <2>1, <2>2
<1> HIDE DEF new
<1>3. g[path] = new /\ \A q \in Path : q # path => g[q] = f[q]
  BY DEF FilesType
<1>4. DataIn(g, path) = data /\ \A q \in Path : q # path => DataIn(g, q) = DataIn(f, q)
  BY <1>2, <1>3 DEF DataIn
<1>5. g \in [Path -> File \cup {None}]
  BY <1>1 DEF FilesType
<1> HIDE DEF g
<1>6. \A q \in Path : May(q, DataIn(g, q))
  BY <1>4 DEF FilesType
<1> QED
  BY <1>4, <1>5, <1>6 DEF FilesType, g, new

LEMMA MarkedStates ==
  ASSUME NEW log, Log(log), NEW path, NEW state, NEW identity, NEW k \in DOMAIN log.entries
  PROVE  LET next == Marked(log, path, state, identity)
         IN  /\ log.entries[k].path = path => next.entries[k].state = state
             /\ log.entries[k].path # path => next.entries[k] = log.entries[k]
<1> DEFINE next == Marked(log, path, state, identity)
           Of(e) == IF e.path # path THEN e
                    ELSE [e EXCEPT !.state = state,
                                   !.identity = IF state = "confirmed" THEN identity ELSE @]
           entries == [n \in DOMAIN log.entries |-> Of(log.entries[n])]
<1>1. log = [call |-> log.call, entries |-> log.entries]
  BY DEF Log
<1>2. next = [log EXCEPT !.entries = entries]
  BY DEF Marked
<1>3. next.entries = entries
  <2> HIDE DEF entries, next
  <2> QED
    BY <1>1, <1>2
<1>4. entries[k] = Of(log.entries[k])
  OBVIOUS
<1>5. ASSUME log.entries[k].path = path PROVE Of(log.entries[k]).state = state
  <2> DEFINE e == log.entries[k]
             id == IF state = "confirmed" THEN identity ELSE e.identity
  <2>1. e = [path |-> e.path, before |-> e.before, after |-> e.after,
             state |-> e.state, identity |-> e.identity]
    BY DEF Log
  <2>2. Of(e) = [e EXCEPT !.state = state, !.identity = id]
    BY <1>5
  <2> HIDE DEF e, id, Of
  <2>3. Of(e).state = state
    BY <2>1, <2>2
  <2> QED
    BY <2>3 DEF e
<1>6. log.entries[k].path # path => Of(log.entries[k]) = log.entries[k]
  OBVIOUS
<1> HIDE DEF Of, entries
<1> QED
  BY <1>3, <1>4, <1>5, <1>6 DEF next

LEMMA MarkedJournal ==
  ASSUME NEW log \in Journal, NEW path, NEW state, NEW identity,
         state \in {"attempted", "revoked"} \/ (state = "confirmed" /\ identity = log.call)
  PROVE  Marked(log, path, state, identity) \in Journal
<1> DEFINE Of(e) == IF e.path # path THEN e
                    ELSE [e EXCEPT !.state = state,
                                   !.identity = IF state = "confirmed" THEN identity ELSE @]
           entries == [n \in DOMAIN log.entries |-> Of(log.entries[n])]
<1>1. log = [call |-> log.call, entries |-> log.entries]
      /\ log.call \in 1..MaxCalls /\ log.entries \in Seq(JournalEntry)
  BY DEF Journal
<1>2. Marked(log, path, state, identity) = [log EXCEPT !.entries = entries]
  BY DEF Marked
<1>3. ASSUME NEW e \in JournalEntry PROVE Of(e) \in JournalEntry
  <2>1. CASE e.path # path
    BY <2>1
  <2>2. CASE e.path = path
    <3> DEFINE id == IF state = "confirmed" THEN identity ELSE e.identity
    <3>1. e = [path |-> e.path, before |-> e.before, after |-> e.after,
               state |-> e.state, identity |-> e.identity]
          /\ e.path \in Path /\ e.before \in Data \cup {None} /\ e.after \in Data \cup {None}
          /\ e.identity \in 1..MaxCalls \cup {None}
      BY DEF JournalEntry
    <3>2. id \in 1..MaxCalls \cup {None}
      BY <1>1, <3>1
    <3>3. Of(e) = [e EXCEPT !.state = state, !.identity = id]
      BY <2>2
    <3> HIDE DEF Of, id
    <3>4. Of(e) = [path |-> e.path, before |-> e.before, after |-> e.after,
                   state |-> state, identity |-> id]
      BY <3>1, <3>3
    <3> QED
      BY <3>1, <3>2, <3>4 DEF JournalEntry
  <2> QED
    BY <2>1, <2>2
<1>4. entries \in Seq(JournalEntry)
  <2>1. Len(log.entries) \in Nat /\ DOMAIN log.entries = 1..Len(log.entries)
        /\ \A n \in 1..Len(log.entries) : log.entries[n] \in JournalEntry
    BY <1>1
  <2> HIDE DEF Of
  <2>2. entries \in [1..Len(log.entries) -> JournalEntry]
    BY <1>3, <2>1
  <2> QED
    BY <2>1, <2>2
<1> HIDE DEF entries
<1>5. Marked(log, path, state, identity) = [call |-> log.call, entries |-> entries]
  BY <1>1, <1>2
<1> QED
  BY <1>1, <1>4, <1>5 DEF Journal

\* What is marked in a journal is a create.
LEMMA MarkedType ==
  ASSUME NEW log, Log(log), NEW n, LogType(log, n), NEW path, NEW state, NEW identity,
         state \in {"attempted", "revoked"} \/ (state = "confirmed" /\ identity = log.call),
         NEW j \in DOMAIN log.entries, log.entries[j].path = path, log.entries[j].before = None
  PROVE  LogType(Marked(log, path, state, identity), n)
<1>0. Marked(log, path, state, identity) \in Journal
  BY MarkedJournal DEF LogType
<1> DEFINE next == Marked(log, path, state, identity)
<1>1. /\ next.call = log.call
      /\ DOMAIN next.entries = DOMAIN log.entries
      /\ \A k \in DOMAIN log.entries :
           /\ next.entries[k].path = log.entries[k].path
           /\ next.entries[k].before = log.entries[k].before
           /\ next.entries[k].after = log.entries[k].after
  BY MarkedLog
<1>2. \A k \in DOMAIN log.entries :
        /\ log.entries[k].path = path => next.entries[k].state = state
        /\ log.entries[k].path # path => next.entries[k] = log.entries[k]
  BY MarkedStates
<1> HIDE DEF next
<1>3. ASSUME NEW k \in DOMAIN next.entries
      PROVE  OpType(next.entries[k]) /\ StateType(next.entries[k])
  <2>1. OpType(next.entries[k])
    BY <1>1 DEF LogType, OpType
  <2>2. CASE log.entries[k].path = path
    <3>1. log.entries[k].before = None
      BY <1>1, <2>2 DEF LogType, Single
    <3> QED
      BY <1>1, <1>2, <2>1, <2>2, <3>1 DEF StateType
  <2>3. CASE log.entries[k].path # path
    BY <1>1, <1>2, <2>1, <2>3 DEF LogType
  <2> QED
    BY <2>2, <2>3
<1>4. Single(next.entries)
  BY <1>1 DEF LogType, Single
<1>5. next.call \in 1..n /\ \E m \in Nat : DOMAIN next.entries = 1..m
  BY <1>1 DEF LogType
<1> QED
  BY <1>0, <1>3, <1>4, <1>5 DEF LogType, next

LEMMA MarkedMatches ==
  ASSUME NEW log, Log(log), NEW ops, Matches(ops, log), NEW path, NEW state, NEW identity,
         state = "confirmed" => identity = log.call
  PROVE  Matches(ops, Marked(log, path, state, identity))
<1> DEFINE next == Marked(log, path, state, identity)
<1>1. /\ DOMAIN next.entries = DOMAIN log.entries
      /\ \A k \in DOMAIN log.entries :
           /\ next.entries[k].path = log.entries[k].path
           /\ next.entries[k].before = log.entries[k].before
           /\ next.entries[k].after = log.entries[k].after
  BY MarkedLog
<1> HIDE DEF next
<1>2. Matches(ops, next)
  BY <1>1 DEF Matches
<1> QED
  BY <1>2 DEF next

LEMMA PendingType ==
  ASSUME NEW call, NEW n, call \in 1..n, call \in 1..MaxCalls, NEW ops, OpsType(ops)
  PROVE  LogType(Pending(call, ops), n) /\ Matches(ops, Pending(call, ops))
<1>0. Pending(call, ops) \in Journal
  <2>1. ASSUME NEW k \in DOMAIN ops PROVE Entry(ops[k]) \in JournalEntry
    <3>1. /\ ops[k].path \in Path
          /\ ops[k].before \in Data \cup {None} /\ ops[k].after \in Data \cup {None}
      BY MayData DEF OpsType, OpType
    <3> QED
      BY <3>1 DEF Entry, JournalEntry
  <2> DEFINE entries == [k \in DOMAIN ops |-> Entry(ops[k])]
  <2>2. entries \in [1..Len(ops) -> JournalEntry] /\ Len(ops) \in Nat
    BY <2>1 DEF OpsType
  <2> HIDE DEF entries
  <2>3. entries \in Seq(JournalEntry)
    BY <2>2
  <2>4. Pending(call, ops) = [call |-> call, entries |-> entries]
    BY DEF Pending, entries
  <2> QED
    BY <2>3, <2>4 DEF Journal
<1> DEFINE log == Pending(call, ops)
<1>1. log.call = call /\ log.entries = [k \in DOMAIN ops |-> Entry(ops[k])]
  BY DEF Pending
<1>2. \A k \in DOMAIN ops :
        /\ Entry(ops[k]).path = ops[k].path /\ Entry(ops[k]).before = ops[k].before
        /\ Entry(ops[k]).after = ops[k].after
        /\ ops[k].before = None => Entry(ops[k]).state = "planned"
        /\ ops[k].before # None => Entry(ops[k]).state = "not_applicable"
  BY DEF Entry
<1> HIDE DEF log
<1>3. Matches(ops, log)
  BY <1>1, <1>2 DEF Matches
<1>4. \A k \in DOMAIN ops : OpType(log.entries[k]) /\ StateType(log.entries[k])
  BY <1>1, <1>2 DEF OpsType, OpType, StateType
<1>5. Single(log.entries) /\ DOMAIN log.entries = 1..Len(ops) /\ Len(ops) \in Nat
  BY <1>1, <1>2 DEF OpsType, Single
<1> QED
  BY <1>0, <1>1, <1>3, <1>4, <1>5 DEF LogType, log

LEMMA LaterType ==
  ASSUME NEW n \in Nat, NEW m \in Nat, n <= m, NEW w, WorkType(w, n)
  PROVE  WorkType(w, m)
<1>1. \A log : LogType(log, n) => LogType(log, m)
  BY DEF LogType
<1> QED
  BY <1>1 DEF WorkType, ApplyType, RecoverType

-----------------------------------------------------------------------------
(* What a step makes of a process.                                         *)

Took(v, w, pc, log, done) ==
  v.pc = pc /\ v.call = w.call /\ v.ops = w.ops /\ v.log = log /\ v.done = done

LEMMA GaveUp ==
  ASSUME NEW w, Applying(w), NEW log
  PROVE  /\ Took(GiveUp([w EXCEPT !.log = log]), w, "rollback", log, w.done)
         /\ Took(GiveUp(w), w, "rollback", w.log, w.done)
<1>1. w = [pc |-> w.pc, call |-> w.call, ops |-> w.ops, held |-> w.held, log |-> w.log,
           done |-> w.done, back |-> w.back]
  BY DEF Applying
<1>2. ASSUME NEW l PROVE Took(GiveUp([w EXCEPT !.log = l]), w, "rollback", l, w.done)
  <2> DEFINE u == [w EXCEPT !.log = l]
             v == GiveUp(u)
  <2>1. u = [pc |-> w.pc, call |-> w.call, ops |-> w.ops, held |-> w.held, log |-> l,
             done |-> w.done, back |-> w.back]
    BY <1>1
  <2>2. v = [u EXCEPT !.pc = "rollback", !.back = 1]
    BY DEF GiveUp
  <2> HIDE DEF u, v
  <2>3. Took(v, w, "rollback", l, w.done)
    BY <2>1, <2>2 DEF Took
  <2> QED
    BY <2>3 DEF v, u
<1>3. [w EXCEPT !.log = w.log] = w
  BY <1>1
<1> QED
  BY <1>2, <1>3

LEMMA WentBack ==
  ASSUME NEW w, Applying(w), NEW log
  PROVE  /\ Took(NextBack([w EXCEPT !.log = log]), w, "rollback", log, w.done)
         /\ Took(NextBack(w), w, "rollback", w.log, w.done)
<1>1. w = [pc |-> w.pc, call |-> w.call, ops |-> w.ops, held |-> w.held, log |-> w.log,
           done |-> w.done, back |-> w.back]
  BY DEF Applying
<1>2. ASSUME NEW l PROVE Took(NextBack([w EXCEPT !.log = l]), w, "rollback", l, w.done)
  <2> DEFINE u == [w EXCEPT !.log = l]
             v == NextBack(u)
  <2>1. u = [pc |-> w.pc, call |-> w.call, ops |-> w.ops, held |-> w.held, log |-> l,
             done |-> w.done, back |-> w.back]
    BY <1>1
  <2>2. v = [u EXCEPT !.back = u.back + 1, !.pc = "rollback"]
    BY DEF NextBack
  <2> HIDE DEF u, v
  <2>3. Took(v, w, "rollback", l, w.done)
    BY <2>1, <2>2 DEF Took
  <2> QED
    BY <2>3 DEF v, u
<1>3. [w EXCEPT !.log = w.log] = w
  BY <1>1
<1> QED
  BY <1>2, <1>3

LEMMA WentOn ==
  ASSUME NEW w, Applying(w), NEW pc, NEW log
  PROVE  Took([w EXCEPT !.log = log, !.pc = pc], w, pc, log, w.done)
<1> DEFINE v == [w EXCEPT !.log = log, !.pc = pc]
<1>1. w = [pc |-> w.pc, call |-> w.call, ops |-> w.ops, held |-> w.held, log |-> w.log,
           done |-> w.done, back |-> w.back]
  BY DEF Applying
<1>2. v = [w EXCEPT !.log = log, !.pc = pc]
  OBVIOUS
<1> HIDE DEF v
<1>3. Took(v, w, pc, log, w.done)
  BY <1>1, <1>2 DEF Took
<1> QED
  BY <1>3 DEF v

\* Where a call is when one more operation is done.
LEMMA GotOn ==
  ASSUME NEW w, w.done \in Nat,
         w = [pc |-> w.pc, call |-> w.call, ops |-> w.ops, held |-> w.held, log |-> w.log,
              done |-> w.done, back |-> w.back]
  PROVE  \E pc : /\ Took(Advanced(w), w, pc, w.log, w.done + 1)
                 /\ w.done + 1 = Len(w.ops) => pc = "complete"
                 /\ w.done + 1 # Len(w.ops) => pc = StageOf(w.ops[w.done + 2])
<1> DEFINE done == w.done + 1
           pc == IF done = Len(w.ops) THEN "complete" ELSE StageOf(w.ops[done + 1])
           v == Advanced(w)
<1>1. v = [w EXCEPT !.done = done, !.pc = pc]
  BY DEF Advanced
<1>2. done + 1 = w.done + 2
  OBVIOUS
<1>3. /\ done = Len(w.ops) => pc = "complete"
      /\ done # Len(w.ops) => pc = StageOf(w.ops[w.done + 2])
  BY <1>2
<1> HIDE DEF done, pc, v
<1>4. Took(v, w, pc, w.log, done)
  BY <1>1 DEF Took
<1> QED
  BY <1>3, <1>4 DEF done, v

\* A disk operation does what it should, or the call gives up before or
\* after its effect.
LEMMA DiskOutcome ==
  ASSUME NEW p \in Proc, Applying(work[p]), NEW allowed, NEW f, NEW b, NEW j, NEW w,
         DiskStep(p, allowed, f, b, j, w)
  PROVE  \E v : /\ Becomes(p, v)
                /\ faults' = faults \/ (faults < MaxFaults /\ faults' = faults + 1)
                /\ \/ allowed /\ files' = f /\ backup' = b /\ journal' = j /\ v = w
                   \/ /\ files' = files /\ backup' = backup /\ journal' = journal
                      /\ Took(v, work[p], "rollback", work[p].log, work[p].done)
                   \/ /\ allowed /\ files' = f /\ backup' = b /\ journal' = j
                      /\ \E log \in {work[p].log, w.log} :
                           Took(v, work[p], "rollback", log, work[p].done)
<1>1. CASE /\ allowed
           /\ files' = f /\ backup' = b /\ journal' = j
           /\ Becomes(p, w)
           /\ UNCHANGED faults
  BY <1>1
<1>2. CASE Becomes(p, GiveUp(work[p])) /\ UNCHANGED home
           /\ (faults' = faults \/ (faults < MaxFaults /\ faults' = faults + 1))
  <2>1. Took(GiveUp(work[p]), work[p], "rollback", work[p].log, work[p].done)
    BY GaveUp
  <2>2. files' = files /\ backup' = backup /\ journal' = journal
    BY <1>2 DEF home
  <2> QED
    BY <1>2, <2>1, <2>2
<1>3. CASE /\ allowed
           /\ faults < MaxFaults
           /\ faults' = faults + 1
           /\ files' = f /\ backup' = b /\ journal' = j
           /\ \E log \in {work[p].log, w.log} : Becomes(p, GiveUp([work[p] EXCEPT !.log = log]))
  <2>1. PICK log \in {work[p].log, w.log} : Becomes(p, GiveUp([work[p] EXCEPT !.log = log]))
    BY <1>3
  <2>2. Took(GiveUp([work[p] EXCEPT !.log = log]), work[p], "rollback", log, work[p].done)
    BY GaveUp
  <2> QED
    BY <1>3, <2>1, <2>2
<1> QED
  BY <1>1, <1>2, <1>3 DEF DiskStep

-----------------------------------------------------------------------------
(* Types are kept.                                                         *)

LEMMA StepTypes ==
  ASSUME IInv, Types, NEW p \in Proc, NEW v, Becomes(p, v), WorkType(v, calls'),
         HomeType(files', backup', journal', calls'),
         calls' \in 0..MaxCalls, calls <= calls', edits' \in 0..MaxEdits,
         faults' = faults \/ (faults < MaxFaults /\ faults' = faults + 1)
  PROVE  Types'
<1>1. DOMAIN work' = Proc /\ work'[p] = v /\ \A q \in Proc \ {p} : work'[q] = work[q]
  BY DEF IInv, Becomes
<1>2. MaxCalls \in Nat /\ MaxFaults \in Nat
  BY InstallBounds
<1>3. calls \in Nat /\ calls' \in Nat
  BY <1>2 DEF Types
<1>4. ASSUME NEW q \in Proc \ {p} PROVE WorkType(work[q], calls')
  BY <1>3, LaterType DEF Types
<1>5. \A q \in Proc : WorkType(work'[q], calls')
  BY <1>1, <1>4
<1>6. faults' \in 0..MaxFaults
  BY <1>2 DEF Types
<1> QED
  BY <1>5, <1>6 DEF Types

LEMMA RollbackTypes ==
  ASSUME NEW w, NEW n, ApplyType(w, n), w.pc \in ApplyStep, NEW v, NEW log,
         Took(v, w, "rollback", log, w.done),
         log = w.log \/ (LogType(log, n) /\ Matches(w.ops, log))
  PROVE  WorkType(v, n)
<1>1. v.pc = "rollback" /\ v.call = w.call /\ v.ops = w.ops /\ v.log = log /\ v.done = w.done
  BY DEF Took
<1>2. v.done > 0 => LogType(v.log, n) /\ Matches(v.ops, v.log)
  BY <1>1 DEF ApplyType
<1>3. ApplyType(v, n)
  BY <1>1, <1>2 DEF ApplyType, MidStep
<1> QED
  BY <1>1, <1>3 DEF WorkType

LEMMA DiskTypes ==
  ASSUME IInv, Types, NEW p \in Proc, Applying(work[p]), NEW allowed, NEW f, NEW b, NEW j, NEW w,
         DiskStep(p, allowed, f, b, j, w), UNCHANGED <<calls, edits>>,
         allowed => /\ HomeType(f, b, j, calls) /\ w.pc \in ApplyStep /\ ApplyType(w, calls)
                    /\ LogType(w.log, calls) /\ Matches(work[p].ops, w.log)
  PROVE  Types'
<1>1. work[p].pc \in ApplyStep /\ ApplyType(work[p], calls)
  BY DEF Types, WorkType, Applying
<1>2. calls' = calls /\ calls' \in 0..MaxCalls /\ calls <= calls' /\ edits' \in 0..MaxEdits
      /\ HomeType(files, backup, journal, calls)
  BY InstallBounds DEF Types
<1>3. PICK v : /\ Becomes(p, v)
               /\ faults' = faults \/ (faults < MaxFaults /\ faults' = faults + 1)
               /\ \/ allowed /\ files' = f /\ backup' = b /\ journal' = j /\ v = w
                  \/ /\ files' = files /\ backup' = backup /\ journal' = journal
                     /\ Took(v, work[p], "rollback", work[p].log, work[p].done)
                  \/ /\ allowed /\ files' = f /\ backup' = b /\ journal' = j
                     /\ \E log \in {work[p].log, w.log} :
                          Took(v, work[p], "rollback", log, work[p].done)
  BY DiskOutcome
<1>4. CASE allowed /\ files' = f /\ backup' = b /\ journal' = j /\ v = w
  <2>1. WorkType(v, calls')
    BY <1>2, <1>4 DEF WorkType, ApplyStep
  <2> QED
    BY <1>2, <1>3, <1>4, <2>1, StepTypes
<1>5. CASE /\ files' = files /\ backup' = backup /\ journal' = journal
           /\ Took(v, work[p], "rollback", work[p].log, work[p].done)
  <2>1. WorkType(v, calls')
    BY <1>1, <1>2, <1>5, RollbackTypes
  <2> QED
    BY <1>2, <1>3, <1>5, <2>1, StepTypes
<1>6. CASE /\ allowed /\ files' = f /\ backup' = b /\ journal' = j
           /\ \E log \in {work[p].log, w.log} :
                Took(v, work[p], "rollback", log, work[p].done)
  <2>1. PICK log \in {work[p].log, w.log} : Took(v, work[p], "rollback", log, work[p].done)
    BY <1>6
  <2>2. WorkType(v, calls')
    BY <1>1, <1>2, <1>6, <2>1, RollbackTypes
  <2> QED
    BY <1>2, <1>3, <1>6, <2>2, StepTypes
<1> QED
  BY <1>3, <1>4, <1>5, <1>6

LEMMA ApplyingType ==
  ASSUME Types, NEW p \in Proc, Applying(work[p])
  PROVE  /\ work[p].pc \in ApplyStep /\ ApplyType(work[p], calls)
         /\ work[p].call \in 1..MaxCalls /\ calls \in Nat
         /\ HomeType(files, backup, journal, calls)
         /\ work[p].call \in Writer /\ -work[p].call \in Writer
<1>1. work[p].pc \in ApplyStep /\ ApplyType(work[p], calls) /\ work[p].call \in 1..MaxCalls
  BY DEF Types, WorkType, Applying
<1>2. calls \in Nat /\ HomeType(files, backup, journal, calls)
  BY InstallBounds DEF Types
<1>3. work[p].call \in Writer /\ -work[p].call \in Writer
  BY <1>1, InstallBounds DEF Writer
<1> QED
  BY <1>1, <1>2, <1>3

\* The operation that is under way is one of the call's.
LEMMA CurrentType ==
  ASSUME NEW w, NEW n, ApplyType(w, n), w.done \in Nat, w.pc \in MidStep
  PROVE  /\ w.done + 1 \in DOMAIN w.ops /\ Current(w) = w.ops[w.done + 1]
         /\ OpType(Current(w)) /\ LogType(w.log, n) /\ Matches(w.ops, w.log)
         /\ w.done + 1 <= Len(w.ops) /\ Len(w.ops) \in Nat
         /\ Single(w.ops)
<1>1. w.done < Len(w.ops) /\ Len(w.ops) \in Nat /\ DOMAIN w.ops = 1..Len(w.ops)
  BY DEF ApplyType, OpsType
<1>2. w.done + 1 \in DOMAIN w.ops
  BY <1>1
<1>3. OpType(w.ops[w.done + 1])
  BY <1>2 DEF ApplyType, OpsType
<1>4. LogType(w.log, n) /\ Matches(w.ops, w.log) /\ Single(w.ops)
  BY DEF ApplyType, OpsType
<1> QED
  BY <1>1, <1>2, <1>3, <1>4 DEF Current

\* An operation is copied or announced first.
LEMMA StageType ==
  ASSUME NEW op
  PROVE  StageOf(op) \in {"copy", "attempt"} /\ (StageOf(op) = "attempt" => op.before = None)
  BY DEF StageOf

LEMMA BeginTypes == ASSUME IInv, Types, NEW p \in Proc, Applying(work[p]), Begin(p) PROVE Types'
<1> DEFINE w == work[p]
           log == Pending(w.call, w.ops)
           v == [w EXCEPT !.log = log, !.pc = StageOf(w.ops[1])]
<1>1. w.pc = "begin" /\ DiskStep(p, LogHeld(w), files, backup, log, v) /\ UNCHANGED <<calls, edits>>
  BY DEF Begin
<1>2. /\ w.pc \in ApplyStep /\ ApplyType(w, calls)
      /\ w.call \in 1..MaxCalls /\ calls \in Nat
      /\ HomeType(files, backup, journal, calls)
  BY ApplyingType
<1>3. LogType(log, calls) /\ Matches(w.ops, log)
  BY <1>2, PendingType DEF ApplyType
<1>4. Took(v, w, StageOf(w.ops[1]), log, w.done) /\ w.done = 0
  <2>1. Applying(w) /\ w.done = 0
    BY <1>1 DEF Applying
  <2> HIDE DEF w, log
  <2> QED
    BY <2>1, WentOn
<1> HIDE DEF log, v, w
<1>5. ApplyType(v, calls) /\ v.pc \in ApplyStep /\ v.log = log
  <2>1. /\ v.pc = StageOf(w.ops[1]) /\ v.call = w.call /\ v.ops = w.ops
        /\ v.log = log /\ v.done = 0
    BY <1>4 DEF Took
  <2>2. v.pc \in {"copy", "attempt"} /\ (v.pc = "attempt" => w.ops[1].before = None)
    BY <2>1, StageType
  <2>3. Current(v) = w.ops[1]
    BY <2>1 DEF Current
  <2>4. Len(v.ops) \in Nat \ {0} /\ v.call \in 1..calls /\ OpsType(v.ops)
    BY <1>2, <2>1 DEF ApplyType, OpsType
  <2> QED
    BY <1>3, <2>1, <2>2, <2>3, <2>4 DEF ApplyType, ApplyStep, MidStep
<1>6. HomeType(files, backup, log, calls)
  BY <1>2, <1>3 DEF HomeType
<1>7. v.log = log /\ Matches(work[p].ops, log)
  BY <1>3, <1>5 DEF w
<1> QED
  BY <1>1, <1>3, <1>5, <1>6, <1>7, DiskTypes

LEMMA CopyTypes == ASSUME IInv, Types, NEW p \in Proc, Applying(work[p]), Copy(p) PROVE Types'
<1> DEFINE w == work[p]
           op == Current(w)
           b == [backup EXCEPT ![w.call][op.path] = op.before]
           v == [w EXCEPT !.pc = "publish"]
           allowed == AsSeen(w) /\ backup[w.call][op.path] = None
<1>1. w.pc = "copy" /\ DiskStep(p, allowed, files, b, journal, v) /\ UNCHANGED <<calls, edits>>
  BY DEF Copy
<1>2. /\ w.pc \in ApplyStep /\ ApplyType(w, calls)
      /\ w.call \in 1..MaxCalls /\ calls \in Nat
      /\ HomeType(files, backup, journal, calls)
  BY ApplyingType
<1>3. /\ OpType(op) /\ LogType(w.log, calls) /\ Matches(w.ops, w.log) /\ w.done < Len(w.ops)
  <2>1. w.done \in Nat /\ w.pc \in MidStep
    BY <1>1 DEF Applying, MidStep
  <2> QED
    BY <1>2, <2>1, CurrentType DEF ApplyType
<1>4. v = [pc |-> "publish", call |-> w.call, ops |-> w.ops, held |-> w.held,
           log |-> w.log, done |-> w.done, back |-> w.back]
  BY DEF Applying
<1>5. BackupType(b, calls)
  <2>1. op.path \in Path /\ May(op.path, op.before) /\ op.before \in Data \cup {None}
    BY <1>3, MayData DEF OpType
  <2>2. BackupType(backup, calls) /\ w.call \in 1..calls
    BY <1>2 DEF HomeType, ApplyType
  <2> HIDE DEF op, w
  <2>3. b \in [1..MaxCalls -> [Path -> Data \cup {None}]]
    BY <1>2, <2>1, <2>2 DEF BackupType
  <2>4. ASSUME NEW c \in 1..MaxCalls, NEW path \in Path
        PROVE  (c = w.call /\ path = op.path /\ b[c][path] = op.before) \/ b[c][path] = backup[c][path]
    BY <1>2, <2>1, <2>2 DEF BackupType
  <2> HIDE DEF b
  <2>5. ASSUME NEW c \in 1..MaxCalls, NEW path \in Path
        PROVE  May(path, b[c][path]) /\ (c > calls => b[c][path] = None)
    <3>1. CASE c = w.call /\ path = op.path /\ b[c][path] = op.before
      BY <1>2, <2>1, <2>2, <3>1
    <3>2. CASE b[c][path] = backup[c][path]
      BY <2>2, <3>2 DEF BackupType
    <3> QED
      BY <2>4, <3>1, <3>2
  <2> QED
    BY <2>3, <2>5 DEF BackupType
<1> HIDE DEF v, w, b, op
<1>6. /\ v.pc = "publish" /\ v.call = w.call /\ v.ops = w.ops /\ v.log = w.log /\ v.done = w.done
  BY <1>4
<1>7. ApplyType(v, calls) /\ v.pc \in ApplyStep
  BY <1>2, <1>3, <1>6 DEF ApplyType, ApplyStep, MidStep
<1>8. HomeType(files, b, journal, calls)
  BY <1>2, <1>5 DEF HomeType
<1>9. LogType(v.log, calls) /\ Matches(work[p].ops, v.log)
  BY <1>3, <1>6 DEF w
<1> HIDE DEF allowed
<1> QED
  BY <1>1, <1>7, <1>8, <1>9, DiskTypes

LEMMA MarkAttemptedTypes ==
  ASSUME IInv, Types, NEW p \in Proc, Applying(work[p]), MarkAttempted(p) PROVE Types'
<1> DEFINE w == work[p]
           path == Current(w).path
           log == Marked(w.log, path, "attempted", None)
           v == [w EXCEPT !.log = log, !.pc = "publish"]
           allowed == AsSeen(w) /\ LogHeld(w)
<1>1. w.pc = "attempt" /\ DiskStep(p, allowed, files, backup, log, v) /\ UNCHANGED <<calls, edits>>
  BY DEF MarkAttempted
<1>2. /\ w.pc \in ApplyStep /\ ApplyType(w, calls)
      /\ w.call \in 1..MaxCalls /\ calls \in Nat
      /\ HomeType(files, backup, journal, calls)
  BY ApplyingType
<1>3. /\ w.done + 1 \in DOMAIN w.ops /\ Current(w) = w.ops[w.done + 1]
      /\ LogType(w.log, calls) /\ Matches(w.ops, w.log)
      /\ w.done < Len(w.ops)
  <2>1. w.done \in Nat /\ w.pc \in MidStep
    BY <1>1 DEF Applying, MidStep
  <2> QED
    BY <1>2, <2>1, CurrentType DEF ApplyType
<1>4. Applying(w) /\ Log(w.log) /\ Current(w).before = None
  BY <1>1 DEF Applying
<1>5. Took(v, w, "publish", log, w.done)
  <2> HIDE DEF w, log
  <2> QED
    BY <1>4, WentOn
<1> HIDE DEF w
<1>6. LogType(log, calls) /\ Matches(w.ops, log)
  <2> DEFINE k == w.done + 1
             was == w.log
  <2>1. k \in DOMAIN was.entries /\ was.entries[k].path = path /\ was.entries[k].before = None
    BY <1>3, <1>4 DEF Matches
  <2>2. Log(was) /\ LogType(was, calls) /\ Matches(w.ops, was)
    BY <1>3, <1>4
  <2> HIDE DEF k, was, path
  <2>3. /\ LogType(Marked(was, path, "attempted", None), calls)
        /\ Matches(w.ops, Marked(was, path, "attempted", None))
    BY <2>1, <2>2, MarkedType, MarkedMatches
  <2> QED
    BY <2>3 DEF was
<1> HIDE DEF v, log
<1>7. /\ v.pc = "publish" /\ v.call = w.call /\ v.ops = w.ops /\ v.log = log /\ v.done = w.done
  BY <1>5 DEF Took
<1>8. ApplyType(v, calls) /\ v.pc \in ApplyStep
  BY <1>2, <1>3, <1>6, <1>7 DEF ApplyType, ApplyStep, MidStep
<1>9. HomeType(files, backup, log, calls)
  BY <1>2, <1>6 DEF HomeType
<1>10. LogType(v.log, calls) /\ Matches(work[p].ops, v.log)
  BY <1>6, <1>7 DEF w
<1> HIDE DEF allowed
<1> QED
  BY <1>1, <1>8, <1>9, <1>10, DiskTypes

\* A call that has one more operation done is at the next one, or complete.
LEMMA AdvancedTypes ==
  ASSUME NEW u, NEW n, u.done \in Nat, u.pc \in MidStep, ApplyType(u, n),
         u = [pc |-> u.pc, call |-> u.call, ops |-> u.ops, held |-> u.held, log |-> u.log,
              done |-> u.done, back |-> u.back]
  PROVE  /\ ApplyType(Advanced(u), n) /\ Advanced(u).pc \in ApplyStep
         /\ Advanced(u).log = u.log
<1>1. PICK pc : /\ Took(Advanced(u), u, pc, u.log, u.done + 1)
                /\ u.done + 1 = Len(u.ops) => pc = "complete"
                /\ u.done + 1 # Len(u.ops) => pc = StageOf(u.ops[u.done + 2])
  BY GotOn
<1> DEFINE v == Advanced(u)
<1> HIDE DEF v
<1>2. v.pc = pc /\ v.call = u.call /\ v.ops = u.ops /\ v.log = u.log /\ v.done = u.done + 1
  BY <1>1 DEF Took, v
<1>3. /\ LogType(u.log, n) /\ Matches(u.ops, u.log) /\ u.call \in 1..n /\ OpsType(u.ops)
      /\ u.done < Len(u.ops) /\ Len(u.ops) \in Nat
  BY DEF ApplyType, OpsType
<1>4. CASE u.done + 1 = Len(u.ops)
  <2>1. v.pc = "complete" /\ v.done = Len(v.ops)
    BY <1>1, <1>2, <1>4
  <2>2. ApplyType(v, n)
    BY <1>2, <1>3, <2>1 DEF ApplyType, MidStep
  <2> QED
    BY <1>2, <2>1, <2>2 DEF ApplyStep, v
<1>5. CASE u.done + 1 # Len(u.ops)
  <2>1. v.pc \in {"copy", "attempt"} /\ (v.pc = "attempt" => u.ops[u.done + 2].before = None)
    BY <1>1, <1>2, <1>5, StageType
  <2>2. v.done < Len(v.ops) /\ v.done \in 0..Len(v.ops) /\ v.done + 1 = u.done + 2
    BY <1>2, <1>3, <1>5
  <2>3. Current(v) = u.ops[u.done + 2]
    BY <1>2, <2>2 DEF Current
  <2>4. ApplyType(v, n)
    BY <1>2, <1>3, <2>1, <2>2, <2>3 DEF ApplyType, MidStep
  <2> QED
    BY <1>2, <2>1, <2>4 DEF ApplyStep, v
<1> QED
  BY <1>4, <1>5

LEMMA PublishTypes ==
  ASSUME IInv, Types, NEW p \in Proc, Applying(work[p]), Publish(p) PROVE Types'
<1> DEFINE w == work[p]
           op == Current(w)
           new == NewFile(op.after, w.call)
           held == [w.held EXCEPT ![op.path] = new]
           seen == [w EXCEPT !.held[op.path] = new]
           f == [files EXCEPT ![op.path] = new]
           v == IF op.before = None THEN [seen EXCEPT !.pc = "confirm"] ELSE Advanced(seen)
<1>1. w.pc = "publish" /\ DiskStep(p, Held(w, op.path), f, backup, journal, v) /\ UNCHANGED <<calls, edits>>
  BY DEF Publish
<1>2. /\ w.pc \in ApplyStep /\ ApplyType(w, calls)
      /\ w.call \in 1..MaxCalls /\ calls \in Nat /\ w.call \in Writer
      /\ HomeType(files, backup, journal, calls)
  BY ApplyingType
<1>3. /\ OpType(op) /\ LogType(w.log, calls) /\ Matches(w.ops, w.log) /\ w.done < Len(w.ops)
      /\ w.done \in Nat
  <2>1. w.done \in Nat /\ w.pc \in MidStep
    BY <1>1 DEF Applying, MidStep
  <2> QED
    BY <1>2, <2>1, CurrentType DEF ApplyType
<1>4. seen = [pc |-> w.pc, call |-> w.call, ops |-> w.ops, held |-> held,
              log |-> w.log, done |-> w.done, back |-> w.back]
  <2>1. /\ w = [pc |-> w.pc, call |-> w.call, ops |-> w.ops, held |-> w.held,
                log |-> w.log, done |-> w.done, back |-> w.back]
        /\ seen = [w EXCEPT !.held = held]
    BY DEF Applying
  <2> HIDE DEF seen, held, w
  <2> QED
    BY <2>1
<1>5. FilesType(f)
  <2>1. op.path \in Path /\ May(op.path, op.after) /\ FilesType(files)
    BY <1>2, <1>3 DEF OpType, HomeType
  <2> HIDE DEF op, w
  <2> QED
    BY <1>2, <2>1, WriteType
<1> HIDE DEF w, op, new, held, f, v, seen
<1>6. /\ seen.pc = "publish" /\ seen.call = w.call /\ seen.ops = w.ops /\ seen.held = held
      /\ seen.log = w.log /\ seen.done = w.done /\ seen.back = w.back
      /\ seen = [pc |-> seen.pc, call |-> seen.call, ops |-> seen.ops, held |-> seen.held,
                 log |-> seen.log, done |-> seen.done, back |-> seen.back]
  BY <1>1, <1>4
<1>7. ApplyType(seen, calls) /\ Current(seen) = op
  BY <1>2, <1>3, <1>6 DEF ApplyType, MidStep, Current, op
<1>8. ApplyType(v, calls) /\ v.pc \in ApplyStep /\ v.log = w.log
  <2>1. CASE op.before = None
    <3>1. v = [pc |-> "confirm", call |-> seen.call, ops |-> seen.ops, held |-> seen.held,
               log |-> seen.log, done |-> seen.done, back |-> seen.back]
      BY <1>6, <2>1 DEF v
    <3>2. /\ v.pc = "confirm" /\ v.call = seen.call /\ v.ops = seen.ops
          /\ v.log = seen.log /\ v.done = seen.done
      BY <3>1
    <3>3. Current(v) = op
      BY <1>7, <3>2 DEF Current
    <3> QED
      BY <1>3, <1>6, <1>7, <2>1, <3>2, <3>3 DEF ApplyType, ApplyStep, MidStep
  <2>2. CASE op.before # None
    <3>1. v = Advanced(seen)
      BY <2>2 DEF v
    <3>2. seen.done \in Nat /\ seen.pc \in MidStep
      BY <1>3, <1>6 DEF MidStep
    <3> QED
      BY <1>6, <1>7, <3>1, <3>2, AdvancedTypes
  <2> QED
    BY <2>1, <2>2
<1>9. HomeType(f, backup, journal, calls)
  BY <1>2, <1>5 DEF HomeType
<1>10. LogType(v.log, calls) /\ Matches(work[p].ops, v.log)
  BY <1>3, <1>8 DEF w
<1> QED
  BY <1>1, <1>8, <1>9, <1>10, DiskTypes

LEMMA ConfirmTypes ==
  ASSUME IInv, Types, NEW p \in Proc, Applying(work[p]), Confirm(p) PROVE Types'
<1> DEFINE w == work[p]
           path == Current(w).path
           log == Marked(w.log, path, "confirmed", w.call)
           u == [w EXCEPT !.log = log]
           v == Advanced(u)
           allowed == LogHeld(w) /\ Held(w, path)
<1>1. w.pc = "confirm" /\ DiskStep(p, allowed, files, backup, log, v) /\ UNCHANGED <<calls, edits>>
  BY DEF Confirm
<1>2. /\ w.pc \in ApplyStep /\ ApplyType(w, calls)
      /\ w.call \in 1..MaxCalls /\ calls \in Nat
      /\ HomeType(files, backup, journal, calls)
  BY ApplyingType
<1>3. /\ w.done + 1 \in DOMAIN w.ops /\ Current(w) = w.ops[w.done + 1]
      /\ LogType(w.log, calls) /\ Matches(w.ops, w.log)
      /\ w.done < Len(w.ops) /\ w.done \in Nat
  <2>1. w.done \in Nat /\ w.pc \in MidStep
    BY <1>1 DEF Applying, MidStep
  <2> QED
    BY <1>2, <2>1, CurrentType DEF ApplyType
<1>4. Log(w.log) /\ w.log.call = w.call /\ Current(w).before = None
  BY <1>1, <1>2 DEF Applying, ApplyType
<1>5. u = [pc |-> w.pc, call |-> w.call, ops |-> w.ops, held |-> w.held,
           log |-> log, done |-> w.done, back |-> w.back]
  <2>1. w = [pc |-> w.pc, call |-> w.call, ops |-> w.ops, held |-> w.held, log |-> w.log,
             done |-> w.done, back |-> w.back]
    BY DEF Applying
  <2> HIDE DEF w, log
  <2> QED
    BY <2>1
<1> HIDE DEF w
<1>6. LogType(log, calls) /\ Matches(w.ops, log)
  <2> DEFINE k == w.done + 1
             was == w.log
             c == w.call
  <2>1. k \in DOMAIN was.entries /\ was.entries[k].path = path /\ was.entries[k].before = None
    BY <1>3, <1>4 DEF Matches
  <2>2. Log(was) /\ LogType(was, calls) /\ Matches(w.ops, was) /\ c = was.call
    BY <1>3, <1>4
  <2> HIDE DEF k, was, path, c
  <2>3. /\ LogType(Marked(was, path, "confirmed", c), calls)
        /\ Matches(w.ops, Marked(was, path, "confirmed", c))
    BY <2>1, <2>2, MarkedType, MarkedMatches
  <2> QED
    BY <2>3 DEF was, c
<1> HIDE DEF u, log
<1>7. /\ u.pc = "confirm" /\ u.call = w.call /\ u.ops = w.ops /\ u.held = w.held
      /\ u.log = log /\ u.done = w.done /\ u.back = w.back
      /\ u = [pc |-> u.pc, call |-> u.call, ops |-> u.ops, held |-> u.held, log |-> u.log,
              done |-> u.done, back |-> u.back]
  BY <1>1, <1>5
<1>8. Current(u) = Current(w) /\ u.done \in Nat /\ u.pc \in MidStep
  BY <1>3, <1>7 DEF Current, MidStep
<1>9. ApplyType(u, calls)
  BY <1>2, <1>3, <1>4, <1>6, <1>7, <1>8 DEF ApplyType, MidStep
<1>10. ApplyType(v, calls) /\ v.pc \in ApplyStep /\ v.log = log
  BY <1>7, <1>8, <1>9, AdvancedTypes
<1>11. HomeType(files, backup, log, calls)
  BY <1>2, <1>6 DEF HomeType
<1>12. LogType(v.log, calls) /\ Matches(work[p].ops, v.log)
  BY <1>6, <1>10 DEF w
<1> HIDE DEF allowed, v
<1> QED
  BY <1>1, <1>10, <1>11, <1>12, DiskTypes

\* A call that ends leaves nothing to be typed.
LEMMA IdleTypes ==
  ASSUME IInv, Types, NEW p \in Proc, Becomes(p, Idle), journal' \in {journal, None},
         UNCHANGED <<files, backup, calls, edits>>,
         faults' = faults \/ (faults < MaxFaults /\ faults' = faults + 1)
  PROVE  Types'
<1>1. HomeType(files', backup', journal', calls')
  BY DEF Types, HomeType
<1>2. Idle.pc = "idle"
  BY DEF Idle
<1>3. WorkType(Idle, calls')
  BY <1>2 DEF WorkType, ApplyStep
<1>4. calls' \in 0..MaxCalls /\ calls <= calls' /\ edits' \in 0..MaxEdits
  BY InstallBounds DEF Types
<1> QED
  BY <1>1, <1>3, <1>4, StepTypes

LEMMA RevokeTypes == ASSUME IInv, Types, NEW p \in Proc, Applying(work[p]), Revoke(p) PROVE Types'
<1> DEFINE w == work[p]
           path == w.ops[w.back].path
           log == Marked(w.log, path, "revoked", None)
           v == [w EXCEPT !.log = log, !.pc = "takeback"]
<1>1. /\ w.pc = "rollback" /\ w.back <= w.done /\ w.ops[w.back].before = None
      /\ UNCHANGED <<files, backup, calls, edits>>
      /\ faults' = faults \/ (faults < MaxFaults /\ faults' = faults + 1)
      /\ \/ journal' = log /\ Becomes(p, v)
         \/ /\ journal' = log
            /\ \E seen \in {w.log, log} : Becomes(p, NextBack([w EXCEPT !.log = seen]))
         \/ Becomes(p, NextBack(w)) /\ UNCHANGED journal
  BY DEF Revoke, Skip
<1>2. /\ w.pc \in ApplyStep /\ ApplyType(w, calls)
      /\ w.call \in 1..MaxCalls /\ calls \in Nat
      /\ HomeType(files, backup, journal, calls)
  BY ApplyingType
<1>3. Applying(w) /\ w.back > 0 /\ w.done > 0 /\ Log(w.log) /\ w.done \in Nat /\ w.back \in Nat
  BY <1>1 DEF Applying
<1>4. Took(v, w, "takeback", log, w.done)
  <2> HIDE DEF w, log
  <2> QED
    BY <1>3, WentOn
<1> HIDE DEF w
<1>5. /\ w.back \in DOMAIN w.ops /\ LogType(w.log, calls) /\ Matches(w.ops, w.log)
  BY <1>1, <1>2, <1>3 DEF ApplyType, OpsType
<1>6. LogType(log, calls) /\ Matches(w.ops, log)
  <2> DEFINE k == w.back
             was == w.log
  <2>1. k \in DOMAIN was.entries /\ was.entries[k].path = path /\ was.entries[k].before = None
    BY <1>1, <1>5 DEF Matches
  <2>2. Log(was) /\ LogType(was, calls) /\ Matches(w.ops, was)
    BY <1>3, <1>5
  <2> HIDE DEF k, was, path
  <2>3. /\ LogType(Marked(was, path, "revoked", None), calls)
        /\ Matches(w.ops, Marked(was, path, "revoked", None))
    BY <2>1, <2>2, MarkedType, MarkedMatches
  <2> QED
    BY <2>3 DEF was
<1> HIDE DEF v, log
<1>7. WorkType(v, calls')
  <2>1. v.pc = "takeback" /\ v.call = w.call /\ v.ops = w.ops /\ v.log = log /\ v.done = w.done
    BY <1>4 DEF Took
  <2>2. ApplyType(v, calls')
    BY <1>1, <1>2, <1>6, <2>1 DEF ApplyType, MidStep
  <2> QED
    BY <2>1, <2>2 DEF WorkType
<1>8. /\ calls' \in 0..MaxCalls /\ calls <= calls' /\ edits' \in 0..MaxEdits
      /\ HomeType(files', backup', journal, calls') /\ HomeType(files', backup', log, calls')
  BY <1>1, <1>2, <1>6, InstallBounds DEF Types, HomeType
<1>9. CASE journal' = log /\ Becomes(p, v)
  BY <1>1, <1>7, <1>8, <1>9, StepTypes
<1>10. CASE /\ journal' = log
            /\ \E seen \in {w.log, log} : Becomes(p, NextBack([w EXCEPT !.log = seen]))
  <2>1. PICK seen \in {w.log, log} : Becomes(p, NextBack([w EXCEPT !.log = seen]))
    BY <1>10
  <2>2. Took(NextBack([w EXCEPT !.log = seen]), w, "rollback", seen, w.done)
    BY <1>3, WentBack
  <2>3. WorkType(NextBack([w EXCEPT !.log = seen]), calls')
    BY <1>1, <1>2, <1>6, <2>2, RollbackTypes
  <2> QED
    BY <1>1, <1>8, <1>10, <2>1, <2>3, StepTypes
<1>11. CASE Becomes(p, NextBack(w)) /\ UNCHANGED journal
  <2>1. Took(NextBack(w), w, "rollback", w.log, w.done)
    BY <1>3, WentBack
  <2>2. WorkType(NextBack(w), calls')
    BY <1>1, <1>2, <2>1, RollbackTypes
  <2> QED
    BY <1>1, <1>8, <1>11, <2>1, <2>2, StepTypes
<1> QED
  BY <1>1, <1>9, <1>10, <1>11

LEMMA TakeBackTypes ==
  ASSUME IInv, Types, NEW p \in Proc, Applying(work[p]), TakeBack(p) PROVE Types'
<1> DEFINE w == work[p]
           op == w.ops[w.back]
           f == [files EXCEPT ![op.path] = NewFile(op.before, -w.call)]
<1>1. /\ w.pc \in {"rollback", "takeback"} /\ Becomes(p, NextBack(w))
      /\ w.pc = "takeback" \/ w.back <= w.done
      /\ files' = f \/ files' = files
      /\ faults' = faults \/ (faults < MaxFaults /\ faults' = faults + 1)
      /\ UNCHANGED <<backup, journal, calls, edits>>
  BY DEF TakeBack, Skip
<1>2. /\ w.pc \in ApplyStep /\ ApplyType(w, calls)
      /\ w.call \in 1..MaxCalls /\ calls \in Nat /\ -w.call \in Writer
      /\ HomeType(files, backup, journal, calls)
  BY ApplyingType
<1>3. Applying(w) /\ w.back \in Nat /\ w.back > 0 /\ w.back <= w.done /\ w.done \in Nat
  BY <1>1 DEF Applying
<1>4. WorkType(NextBack(w), calls')
  <2>1. Took(NextBack(w), w, "rollback", w.log, w.done)
    BY <1>3, WentBack
  <2> QED
    BY <1>1, <1>2, <2>1, RollbackTypes
<1> HIDE DEF w
<1>5. w.back \in DOMAIN w.ops
  BY <1>2, <1>3 DEF ApplyType, OpsType
<1>6. op.path \in Path /\ May(op.path, op.before)
  BY <1>2, <1>5 DEF ApplyType, OpsType, OpType
<1>7. FilesType(f)
  <2> HIDE DEF op
  <2> QED
    BY <1>2, <1>6, WriteType DEF HomeType
<1> HIDE DEF f, op
<1>8. HomeType(files', backup', journal', calls')
  BY <1>1, <1>2, <1>7 DEF HomeType
<1>9. calls' \in 0..MaxCalls /\ calls <= calls' /\ edits' \in 0..MaxEdits
  BY <1>1, InstallBounds DEF Types
<1> QED
  BY <1>1, <1>4, <1>8, <1>9, StepTypes

-----------------------------------------------------------------------------
(* The plan of a call.                                                     *)

Until(s, S) == {t \in S : NotAfter(t, s)}

IsStep(S) == \A s \in S : s[1] \in Nat /\ s[2] \in Nat /\ s = <<s[1], s[2]>>

LEMMA RankShape ==
  ASSUME NEW S, IsFiniteSet(S), IsStep(S)
  PROVE  /\ \A s \in S : Rank(s, S) \in 1..Cardinality(S)
         /\ \A s, t \in S : Rank(s, S) = Rank(t, S) => s = t
<1>1. ASSUME NEW s \in S
      PROVE  /\ Rank(s, S) = Cardinality(Until(s, S)) /\ IsFiniteSet(Until(s, S))
             /\ s \in Until(s, S) /\ Until(s, S) \in SUBSET S
             /\ Rank(s, S) \in 1..Cardinality(S)
  <2>1. Rank(s, S) = Cardinality(Until(s, S)) /\ Until(s, S) \in SUBSET S
    BY DEF Rank, Until
  <2>2. s \in Until(s, S)
    BY DEF Until, NotAfter, IsStep
  <2>3. IsFiniteSet(Until(s, S)) /\ Cardinality(Until(s, S)) <= Cardinality(S)
    BY <2>1, FS_Subset
  <2>4. Cardinality(Until(s, S)) \in Nat /\ Cardinality(S) \in Nat
    BY <2>3, FS_CardinalityType
  <2>5. Cardinality(Until(s, S)) # 0
    BY <2>2, <2>3, FS_EmptySet
  <2> QED
    BY <2>1, <2>2, <2>3, <2>4, <2>5
<1>2. ASSUME NEW s \in S, NEW t \in S, s # t, NotAfter(s, t) PROVE Rank(s, S) # Rank(t, S)
  <2>1. ~NotAfter(t, s)
    BY <1>2 DEF NotAfter, IsStep
  <2>2. Until(s, S) \subseteq Until(t, S)
    BY <1>2 DEF NotAfter, Until, IsStep
  <2>3. t \notin Until(s, S)
    BY <2>1 DEF Until
  <2>4. Until(s, S) # Until(t, S)
    BY <1>1, <2>3
  <2>5. Cardinality(Until(t, S)) = Cardinality(Until(s, S)) => Until(t, S) = Until(s, S)
    BY <1>1, <2>2, FS_Subset
  <2> QED
    BY <1>1, <2>4, <2>5
<1>3. \A s, t \in S : NotAfter(s, t) \/ NotAfter(t, s)
  BY DEF NotAfter, IsStep
<1> QED
  BY <1>1, <1>2, <1>3

LEMMA RankReached ==
  ASSUME NEW S, IsFiniteSet(S), IsStep(S), NEW n \in 1..Cardinality(S)
  PROVE  \E s \in S : Rank(s, S) = n
<1> DEFINE T == 1..Cardinality(S)
           f == [s \in S |-> Rank(s, S)]
<1>1. Cardinality(S) \in Nat
  BY FS_CardinalityType
<1>2. IsFiniteSet(T) /\ Cardinality(T) = Cardinality(S)
  BY <1>1, FS_Interval
<1>3. f \in [S -> T] /\ \A s, t \in S : f[s] = f[t] => s = t
  BY RankShape
<1> HIDE DEF T, f
<1>4. f \in Injection(S, T)
  BY <1>3 DEF Injection, IsInjective
<1>5. f \in Surjection(S, T)
  BY <1>2, <1>4, FS_Injection
<1>6. \A m \in T : \E s \in S : f[s] = m
  BY <1>5 DEF Surjection
<1> QED
  BY <1>6 DEF T, f

OpAt(request, s) == HostOps(request, request.hosts[s[1]])[s[2]]

\* Every operation of a plan is a change of the call, and every change is
\* an operation of the plan.
LEMMA PlanShape ==
  ASSUME NEW request, Len(request.hosts) \in Nat
  PROVE  /\ Len(Plan(request)) \in Nat /\ DOMAIN Plan(request) = 1..Len(Plan(request))
         /\ Plan(request) # <<>> => Len(Plan(request)) # 0
         /\ \A n \in DOMAIN Plan(request) :
              \E s \in Changes(request) : Plan(request)[n] = OpAt(request, s)
         /\ \A s \in Changes(request) :
              \E n \in DOMAIN Plan(request) : Plan(request)[n] = OpAt(request, s)
<1> DEFINE S == Changes(request)
           At(n) == CHOOSE t \in S : Rank(t, S) = n
           plan == [n \in 1..Cardinality(S) |-> OpAt(request, At(n))]
<1>1. Plan(request) = plan
  BY DEF Plan, OpAt
<1>2. IsFiniteSet(S) /\ IsStep(S)
  <2> DEFINE U == (1..Len(request.hosts)) \X (1..4)
  <2>1. IsFiniteSet(1..Len(request.hosts)) /\ IsFiniteSet(1..4)
    <3>1. \A n \in Nat : IsFiniteSet(1..n)
      BY FS_Interval
    <3> QED
      BY <3>1
  <2>2. IsFiniteSet(U)
    BY <2>1, FS_Product
  <2>3. S \in SUBSET U
    BY DEF Changes
  <2>4. IsFiniteSet(S)
    BY <2>2, <2>3, FS_Subset
  <2> QED
    BY <2>3, <2>4 DEF IsStep
<1> HIDE DEF S
<1>3. Cardinality(S) \in Nat
  BY <1>2, FS_CardinalityType
<1>4. ASSUME NEW n \in 1..Cardinality(S) PROVE At(n) \in S /\ Rank(At(n), S) = n
  <2>1. \E t \in S : Rank(t, S) = n
    BY <1>2, RankReached
  <2> QED
    BY <2>1
<1>5. ASSUME NEW s \in S PROVE Rank(s, S) \in 1..Cardinality(S) /\ At(Rank(s, S)) = s
  <2>1. Rank(s, S) \in 1..Cardinality(S)
    BY <1>2, RankShape
  <2>2. At(Rank(s, S)) \in S /\ Rank(At(Rank(s, S)), S) = Rank(s, S)
    BY <1>4, <2>1
  <2> HIDE DEF At
  <2> QED
    BY <1>2, <2>1, <2>2, RankShape
<1> HIDE DEF At
<1>6. DOMAIN plan = 1..Cardinality(S)
      /\ \A n \in 1..Cardinality(S) : plan[n] = OpAt(request, At(n))
  OBVIOUS
<1>7. Len(plan) = Cardinality(S) /\ (plan # <<>> => Len(plan) # 0)
  <2> DEFINE X == {plan[n] : n \in 1..Cardinality(S)}
  <2>1. plan \in [1..Cardinality(S) -> X]
    OBVIOUS
  <2> HIDE DEF plan, X
  <2>2. plan \in Seq(X)
    BY <1>3, <2>1
  <2> QED
    BY <1>3, <1>6, <2>2
<1> HIDE DEF plan
<1>8. \A n \in DOMAIN plan : \E s \in S : plan[n] = OpAt(request, s)
  BY <1>4, <1>6
<1>9. \A s \in S : \E n \in DOMAIN plan : plan[n] = OpAt(request, s)
  BY <1>5, <1>6
<1> QED
  BY <1>1, <1>3, <1>6, <1>7, <1>8, <1>9 DEF S

-----------------------------------------------------------------------------
(* Where a plan leads.                                                     *)

\* What a call means to leave at the files of a host.
InstallTarget(h, r, p) ==
  [settings |-> Settings(DataAt(<<h, "settings">>).user, r),
   wrapper |-> Wrapper(r), ownership |-> Ownership(r),
   config |-> Config(Projects(h) \cup {p})]

RemoveTarget(h, gone) ==
  IF Owned(h) # None /\ Empties(h, gone)
  THEN [settings |-> IF DataAt(<<h, "settings">>) = None THEN None
                     ELSE Settings(DataAt(<<h, "settings">>).user, None),
        wrapper |-> None, ownership |-> None, config |-> None]
  ELSE [settings |-> DataAt(<<h, "settings">>),
        wrapper |-> DataAt(<<h, "wrapper">>), ownership |-> DataAt(<<h, "ownership">>),
        config |-> IF Owned(h) = None THEN DataAt(<<h, "config">>)
                   ELSE Config(Projects(h) \ gone)]

TargetOf(request, h) ==
  IF request.op = "install" THEN InstallTarget(h, request.release, request.project)
  ELSE RemoveTarget(h, request.gone)

AdmissibleAt(request, h) ==
  IF request.op = "install" THEN CanInstall(h) ELSE CanRemove(h, request.gone)

DataMap == [path \in Path |-> DataAt(path)]

\* Operations on a host that make of its files what m says.
Makes(ops, h, m) ==
  /\ \A i \in DOMAIN ops : i \in 1..4 /\ \E kind \in Kind :
       /\ ops[i].path = <<h, kind>>
       /\ ops[i].before = DataAt(<<h, kind>>) /\ ops[i].after = m[kind]
  /\ \A kind \in Kind : m[kind] # DataAt(<<h, kind>>) =>
       \E i \in DOMAIN ops : ops[i].path = <<h, kind>>

LEMMA HostTypes ==
  ASSUME Types, NEW h \in Host
  PROVE  /\ \A kind \in Kind : <<h, kind>> \in Path /\ May(<<h, kind>>, DataAt(<<h, kind>>))
         /\ DataAt(<<h, "settings">>) \in SettingsData \cup {None, Foreign}
         /\ DataAt(<<h, "config">>) \in ConfigData \cup {None, Foreign}
         /\ DataAt(<<h, "ownership">>) \in {None, Foreign}
              \/ \E r \in Release : DataAt(<<h, "ownership">>) = Ownership(r)
<1>1. \A kind \in Kind : <<h, kind>> \in Path
  BY DEF Path
<1>2. \A kind \in Kind : May(<<h, kind>>, DataAt(<<h, kind>>))
  BY <1>1 DEF Types, HomeType, FilesType, DataAt
<1>3. \A kind \in Kind : <<h, kind>>[2] = kind
  OBVIOUS
<1>4. "settings" \in Kind /\ "config" \in Kind /\ "ownership" \in Kind
  BY DEF Kind
<1>5. /\ May(<<h, "settings">>, DataAt(<<h, "settings">>))
      /\ May(<<h, "config">>, DataAt(<<h, "config">>))
      /\ May(<<h, "ownership">>, DataAt(<<h, "ownership">>))
  BY <1>2, <1>4
<1>6. DataAt(<<h, "settings">>) \in SettingsData \cup {None, Foreign}
  BY <1>5 DEF May
<1>7. DataAt(<<h, "config">>) \in ConfigData \cup {None, Foreign}
  BY <1>5 DEF May
<1>8. DataAt(<<h, "ownership">>) \in {None, Foreign}
        \/ \E r \in Release : DataAt(<<h, "ownership">>) = Ownership(r)
  BY <1>5 DEF May
<1> QED
  BY <1>1, <1>2, <1>6, <1>7, <1>8

LEMMA Written ==
  /\ \A user \in 0..MaxEdits, r \in Release \cup {None} :
       Settings(user, r) \in SettingsData /\ Settings(user, r).hook = r /\ Settings(user, r) # None
  /\ \A S \in (SUBSET Project) \ {{}} :
       Config(S) \in ConfigData /\ Config(S) # None /\ Config(S).projects = S
  /\ \A r \in Release : Ownership(r) # None /\ Wrapper(r) # None /\ Ownership(r).owns = r
<1>1. \A user \in 0..MaxEdits, r \in Release \cup {None} :
        Settings(user, r) \in SettingsData /\ Settings(user, r).hook = r
  BY DEF Settings, SettingsData
<1>2. \A S \in (SUBSET Project) \ {{}} : Config(S) \in ConfigData /\ Config(S).projects = S
  BY DEF Config, ConfigData
<1>3. \A r \in Release : Ownership(r) \in Data /\ Wrapper(r) \in Data /\ Ownership(r).owns = r
  BY DEF Ownership, Wrapper, Data
<1>4. SettingsData \subseteq Data /\ ConfigData \subseteq Data
  BY DEF SettingsData, ConfigData, Data
<1> QED
  BY <1>1, <1>2, <1>3, <1>4, NoneIsNothing

LEMMA Registered ==
  ASSUME Types, NEW h \in Host, Legible(h)
  PROVE  /\ Projects(h) \in SUBSET Project
         /\ Owned(h) \in Release \cup {None}
         /\ Owned(h) = None <=> DataAt(<<h, "ownership">>) = None
<1>1. /\ DataAt(<<h, "config">>) \in ConfigData \cup {None}
      /\ DataAt(<<h, "ownership">>) = None
           \/ \E r \in Release : DataAt(<<h, "ownership">>) = Ownership(r)
  BY HostTypes DEF Legible
<1>2. Projects(h) \in SUBSET Project
  BY <1>1 DEF Projects, ConfigData
<1>3. CASE DataAt(<<h, "ownership">>) = None
  BY <1>2, <1>3 DEF Owned
<1>4. ASSUME NEW r \in Release, DataAt(<<h, "ownership">>) = Ownership(r)
      PROVE  /\ Owned(h) \in Release \cup {None}
             /\ Owned(h) = None <=> DataAt(<<h, "ownership">>) = None
  <2>1. Owned(h) = r /\ Ownership(r) # None /\ r # None
    BY <1>4, Written, NoneIsNothing DEF Owned
  <2> QED
    BY <1>4, <2>1
<1> QED
  BY <1>1, <1>2, <1>3, <1>4

LEMMA InstallLeads ==
  ASSUME Types, NEW h \in Host, NEW r \in Release, NEW q \in Project, CanInstall(h)
  PROVE  /\ Makes(InstallOps(h, r, q), h, InstallTarget(h, r, q))
         /\ \A kind \in Kind : May(<<h, kind>>, InstallTarget(h, r, q)[kind])
         /\ LET m == InstallTarget(h, r, q)
            IN  Goes(m["settings"], m["wrapper"], m["ownership"], m["config"])
<1> DEFINE m == InstallTarget(h, r, q)
           ops == InstallOps(h, r, q)
           user == DataAt(<<h, "settings">>).user
<1>1. user \in 0..MaxEdits
  <2>1. DataAt(<<h, "settings">>) \in SettingsData
    BY HostTypes DEF CanInstall, Legible
  <2> QED
    BY <2>1 DEF SettingsData
<1>2. Projects(h) \cup {q} \in (SUBSET Project) \ {{}}
  <2>1. Legible(h)
    BY DEF CanInstall
  <2>2. Projects(h) \in SUBSET Project
    BY <2>1, Registered
  <2> QED
    BY <2>2
<1>3. /\ m["settings"] = Settings(user, r) /\ m["wrapper"] = Wrapper(r)
      /\ m["ownership"] = Ownership(r) /\ m["config"] = Config(Projects(h) \cup {q})
  BY DEF InstallTarget
<1>4. /\ DOMAIN ops = 1..4
      /\ ops[1].path = <<h, "wrapper">> /\ ops[1].before = DataAt(<<h, "wrapper">>)
      /\ ops[1].after = Wrapper(r)
      /\ ops[2].path = <<h, "settings">> /\ ops[2].before = DataAt(<<h, "settings">>)
      /\ ops[2].after = Settings(user, r)
      /\ ops[3].path = <<h, "config">> /\ ops[3].before = DataAt(<<h, "config">>)
      /\ ops[3].after = Config(Projects(h) \cup {q})
      /\ ops[4].path = <<h, "ownership">> /\ ops[4].before = DataAt(<<h, "ownership">>)
      /\ ops[4].after = Ownership(r)
  BY DEF InstallOps, Op
<1> HIDE DEF m, ops, user
<1>5. Makes(ops, h, m)
  <2>1. \A i \in DOMAIN ops : i = 1 \/ i = 2 \/ i = 3 \/ i = 4
    BY <1>4
  <2>2. \A i \in DOMAIN ops : i \in 1..4 /\ \E kind \in Kind :
          /\ ops[i].path = <<h, kind>>
          /\ ops[i].before = DataAt(<<h, kind>>) /\ ops[i].after = m[kind]
    BY <1>3, <1>4, <2>1 DEF Kind
  <2>3. 1 \in DOMAIN ops /\ 2 \in DOMAIN ops /\ 3 \in DOMAIN ops /\ 4 \in DOMAIN ops
    BY <1>4
  <2>4. \A kind \in Kind : \E i \in DOMAIN ops : ops[i].path = <<h, kind>>
    BY <1>4, <2>3 DEF Kind
  <2> QED
    BY <2>2, <2>4 DEF Makes
<1>6. ASSUME NEW kind \in Kind PROVE May(<<h, kind>>, m[kind])
  <2>1. <<h, kind>>[2] = kind
    OBVIOUS
  <2>2. CASE kind = "settings"
    BY <1>1, <1>3, <2>1, <2>2, Written DEF May
  <2>3. CASE kind = "config"
    BY <1>2, <1>3, <2>1, <2>3, Written DEF May
  <2>4. CASE kind = "ownership"
    BY <1>3, <2>1, <2>4 DEF May
  <2>5. CASE kind = "wrapper"
    BY <1>3, <2>1, <2>5 DEF May
  <2> QED
    BY <2>2, <2>3, <2>4, <2>5 DEF Kind
<1>7. Goes(m["settings"], m["wrapper"], m["ownership"], m["config"])
  <2>1. r # None /\ r \in Release \cup {None}
    BY NoneIsNothing
  <2>2. m["settings"] # None /\ m["settings"].hook = r /\ m["config"] # None
    BY <1>1, <1>2, <1>3, Written
  <2>3. m["wrapper"] = WrapperOf(r) /\ m["ownership"] = OwnershipOf(r)
    BY <1>3, <2>1 DEF WrapperOf, OwnershipOf
  <2> QED
    BY <2>1, <2>2, <2>3 DEF Goes
<1> QED
  BY <1>5, <1>6, <1>7 DEF m, ops

LEMMA RemoveLeads ==
  ASSUME Types, NEW h \in Host, NEW gone, CanRemove(h, gone)
  PROVE  /\ Makes(RemoveOps(h, gone), h, RemoveTarget(h, gone))
         /\ \A kind \in Kind : May(<<h, kind>>, RemoveTarget(h, gone)[kind])
         /\ LET m == RemoveTarget(h, gone)
            IN  FitsIn(DataMap, h) =>
                  Goes(m["settings"], m["wrapper"], m["ownership"], m["config"])
<1> DEFINE m == RemoveTarget(h, gone)
           ops == RemoveOps(h, gone)
           new == IF DataAt(<<h, "settings">>) = None THEN None
                  ELSE Settings(DataAt(<<h, "settings">>).user, None)
           less == Config(Projects(h) \ gone)
<1>1. /\ Legible(h) /\ Projects(h) \in SUBSET Project /\ Owned(h) \in Release \cup {None}
      /\ Owned(h) = None <=> DataAt(<<h, "ownership">>) = None
  <2>1. Legible(h)
    BY DEF CanRemove
  <2> QED
    BY <2>1, Registered
<1>2. /\ May(<<h, "settings">>, DataAt(<<h, "settings">>)) /\ May(<<h, "wrapper">>, DataAt(<<h, "wrapper">>))
      /\ May(<<h, "ownership">>, DataAt(<<h, "ownership">>)) /\ May(<<h, "config">>, DataAt(<<h, "config">>))
  <2>1. "settings" \in Kind /\ "wrapper" \in Kind /\ "ownership" \in Kind /\ "config" \in Kind
    BY DEF Kind
  <2> QED
    BY <2>1, HostTypes
<1>3. May(<<h, "settings">>, new) /\ (new # None => new.hook = None)
      /\ (DataAt(<<h, "settings">>) # None => new # None)
  <2>1. CASE DataAt(<<h, "settings">>) = None
    BY <2>1 DEF May
  <2>2. CASE DataAt(<<h, "settings">>) # None
    <3>1. DataAt(<<h, "settings">>) \in SettingsData
      BY <1>1, <2>2, HostTypes DEF Legible
    <3>2. DataAt(<<h, "settings">>).user \in 0..MaxEdits
      BY <3>1 DEF SettingsData
    <3>3. new = Settings(DataAt(<<h, "settings">>).user, None)
      BY <2>2
    <3> HIDE DEF new
    <3>4. new \in SettingsData /\ new.hook = None /\ new # None
      BY <3>2, <3>3, Written
    <3>5. <<h, "settings">>[2] = "settings"
      OBVIOUS
    <3> QED
      BY <3>4, <3>5 DEF May
  <2> QED
    BY <2>1, <2>2
<1>4. DataMap[<<h, "settings">>] = DataAt(<<h, "settings">>) /\ DataMap[<<h, "wrapper">>] = DataAt(<<h, "wrapper">>)
      /\ DataMap[<<h, "ownership">>] = DataAt(<<h, "ownership">>) /\ DataMap[<<h, "config">>] = DataAt(<<h, "config">>)
  <2>1. <<h, "settings">> \in Path /\ <<h, "wrapper">> \in Path
        /\ <<h, "ownership">> \in Path /\ <<h, "config">> \in Path
    BY DEF Path, Kind
  <2> QED
    BY <2>1 DEF DataMap
<1>5. CASE Owned(h) = None
  <2>1. /\ m["settings"] = DataAt(<<h, "settings">>) /\ m["wrapper"] = DataAt(<<h, "wrapper">>)
        /\ m["ownership"] = DataAt(<<h, "ownership">>) /\ m["config"] = DataAt(<<h, "config">>)
    BY <1>5 DEF RemoveTarget
  <2>2. ops = <<>>
    BY <1>5 DEF RemoveOps
  <2> HIDE DEF m, ops
  <2>3. \A kind \in Kind : m[kind] = DataAt(<<h, kind>>)
    BY <2>1 DEF Kind
  <2>4. Makes(ops, h, m)
    BY <2>2, <2>3 DEF Makes
  <2>5. \A kind \in Kind : May(<<h, kind>>, m[kind])
    BY <1>2, <2>1 DEF Kind
  <2>6. FitsIn(DataMap, h) => Goes(m["settings"], m["wrapper"], m["ownership"], m["config"])
    BY <1>4, <2>1 DEF FitsIn
  <2> QED
    BY <2>4, <2>5, <2>6 DEF m, ops
<1>6. CASE Owned(h) # None /\ ~Empties(h, gone)
  <2>1. /\ m["settings"] = DataAt(<<h, "settings">>) /\ m["wrapper"] = DataAt(<<h, "wrapper">>)
        /\ m["ownership"] = DataAt(<<h, "ownership">>) /\ m["config"] = less
    BY <1>6 DEF RemoveTarget
  <2>2. ops = <<Op(<<h, "config">>, DataAt(<<h, "config">>), less)>>
    BY <1>6 DEF RemoveOps
  <2>3. Projects(h) \ gone \in (SUBSET Project) \ {{}}
    BY <1>1, <1>6 DEF Empties
  <2>4. less \in ConfigData /\ less # None
    BY <2>3, Written
  <2> HIDE DEF m, ops, less
  <2>5. /\ DOMAIN ops = 1..1 /\ 1 \in DOMAIN ops
        /\ ops[1].path = <<h, "config">> /\ ops[1].before = DataAt(<<h, "config">>) /\ ops[1].after = less
    BY <2>2 DEF Op
  <2>6. \A kind \in Kind : kind # "config" => m[kind] = DataAt(<<h, kind>>)
    BY <2>1 DEF Kind
  <2>7. Makes(ops, h, m)
    <3>1. \A i \in DOMAIN ops : i = 1 /\ i \in 1..4
      BY <2>5
    <3>2. "config" \in Kind
      BY DEF Kind
    <3> QED
      BY <2>1, <2>5, <2>6, <3>1, <3>2 DEF Makes
  <2>8. \A kind \in Kind : May(<<h, kind>>, m[kind])
    <3>1. May(<<h, "config">>, less)
      <4>1. <<h, "config">>[2] = "config"
        OBVIOUS
      <4> QED
        BY <2>4, <4>1 DEF May
    <3> QED
      BY <1>2, <2>1, <3>1 DEF Kind
  <2>9. FitsIn(DataMap, h) => Goes(m["settings"], m["wrapper"], m["ownership"], m["config"])
    <3> SUFFICES ASSUME FitsIn(DataMap, h)
                 PROVE  Goes(m["settings"], m["wrapper"], m["ownership"], m["config"])
      OBVIOUS
    <3>1. PICK r \in Release \cup {None} :
            /\ DataAt(<<h, "settings">>).hook = r /\ DataAt(<<h, "wrapper">>) = WrapperOf(r)
            /\ DataAt(<<h, "ownership">>) = OwnershipOf(r) /\ DataAt(<<h, "settings">>) # None
      BY <1>4 DEF FitsIn, Goes
    <3>2. r # None
      BY <1>1, <1>6, <3>1 DEF OwnershipOf
    <3> QED
      BY <2>1, <2>4, <3>1, <3>2 DEF Goes
  <2> QED
    BY <2>7, <2>8, <2>9 DEF m, ops
<1>7. CASE Owned(h) # None /\ Empties(h, gone)
  <2>1. m["settings"] = new /\ m["wrapper"] = None /\ m["ownership"] = None /\ m["config"] = None
    BY <1>7 DEF RemoveTarget
  <2>2. ops = << Op(<<h, "settings">>, DataAt(<<h, "settings">>), new),
                 Op(<<h, "config">>, DataAt(<<h, "config">>), None),
                 Op(<<h, "ownership">>, DataAt(<<h, "ownership">>), None),
                 Op(<<h, "wrapper">>, DataAt(<<h, "wrapper">>), None) >>
    BY <1>7 DEF RemoveOps
  <2> HIDE DEF m, ops, new
  <2>3. /\ DOMAIN ops = 1..4
        /\ ops[1].path = <<h, "settings">> /\ ops[1].before = DataAt(<<h, "settings">>)
        /\ ops[1].after = new
        /\ ops[2].path = <<h, "config">> /\ ops[2].before = DataAt(<<h, "config">>)
        /\ ops[2].after = None
        /\ ops[3].path = <<h, "ownership">> /\ ops[3].before = DataAt(<<h, "ownership">>)
        /\ ops[3].after = None
        /\ ops[4].path = <<h, "wrapper">> /\ ops[4].before = DataAt(<<h, "wrapper">>)
        /\ ops[4].after = None
    BY <2>2 DEF Op
  <2>4. Makes(ops, h, m)
    <3>1. \A i \in DOMAIN ops : i = 1 \/ i = 2 \/ i = 3 \/ i = 4
      BY <2>3
    <3>2. \A i \in DOMAIN ops : i \in 1..4 /\ \E kind \in Kind :
            /\ ops[i].path = <<h, kind>>
            /\ ops[i].before = DataAt(<<h, kind>>) /\ ops[i].after = m[kind]
      BY <2>1, <2>3, <3>1 DEF Kind
    <3>3. 1 \in DOMAIN ops /\ 2 \in DOMAIN ops /\ 3 \in DOMAIN ops /\ 4 \in DOMAIN ops
      BY <2>3
    <3>4. \A kind \in Kind : \E i \in DOMAIN ops : ops[i].path = <<h, kind>>
      BY <2>3, <3>3 DEF Kind
    <3> QED
      BY <3>2, <3>4 DEF Makes
  <2>5. \A kind \in Kind : May(<<h, kind>>, m[kind])
    BY <1>3, <2>1 DEF Kind, May
  <2>6. FitsIn(DataMap, h) => Goes(m["settings"], m["wrapper"], m["ownership"], m["config"])
    <3> SUFFICES ASSUME FitsIn(DataMap, h)
                 PROVE  Goes(m["settings"], m["wrapper"], m["ownership"], m["config"])
      OBVIOUS
    <3>1. new # None /\ new.hook = None
      BY <1>3, <1>4 DEF FitsIn, Goes
    <3> QED
      BY <2>1, <3>1 DEF Goes, WrapperOf, OwnershipOf
  <2> QED
    BY <2>4, <2>5, <2>6 DEF m, ops
<1> QED
  BY <1>5, <1>6, <1>7

\* Operations that lead from one home to another, and name all that differs.
Between(ops, s, t) ==
  /\ \A k \in DOMAIN ops : ops[k].before = s[ops[k].path] /\ ops[k].after = t[ops[k].path]
  /\ \A path \in Path : s[path] # t[path] => \E k \in DOMAIN ops : ops[k].path = path

Named(request, h) == \E k \in 1..Len(request.hosts) : request.hosts[k] = h

TargetMap(request) ==
  [path \in Path |-> IF Named(request, path[1]) THEN TargetOf(request, path[1])[path[2]]
                     ELSE DataAt(path)]

LEMMA RequestShape ==
  ASSUME NEW request \in Request
  PROVE  /\ request.hosts \in Seq(Host) /\ Len(request.hosts) \in Nat
         /\ DOMAIN request.hosts = 1..Len(request.hosts)
         /\ request.op = "install" => request.release \in Release /\ request.project \in Project
<1>1. /\ request.hosts \in HostLists
      /\ request.op = "install" => request.release \in Release /\ request.project \in Project
  <2>1. CASE request \in [op : {"install"}, hosts : HostLists, release : Release, project : Project]
    BY <2>1
  <2>2. CASE request \in [op : {"remove"}, hosts : HostLists, gone : {{p} : p \in Project} \cup {Project}]
    BY <2>2
  <2> QED
    BY <2>1, <2>2 DEF Request
<1>2. request.hosts \in Seq(Host)
  BY <1>1, HostListsShape
<1> QED
  BY <1>1, <1>2

LEMMA HostLeads ==
  ASSUME Types, NEW request \in Request, Admissible(request), NEW h \in Host, Named(request, h)
  PROVE  /\ Makes(HostOps(request, h), h, TargetOf(request, h))
         /\ \A kind \in Kind : May(<<h, kind>>, TargetOf(request, h)[kind])
         /\ LET m == TargetOf(request, h)
            IN  FitsIn(DataMap, h) =>
                  Goes(m["settings"], m["wrapper"], m["ownership"], m["config"])
<1>1. IF request.op = "install" THEN CanInstall(h) ELSE CanRemove(h, request.gone)
  BY RequestShape DEF Admissible, Named
<1>2. CASE request.op = "install"
  <2>1. request.release \in Release /\ request.project \in Project /\ CanInstall(h)
    BY <1>1, <1>2, RequestShape
  <2>2. /\ HostOps(request, h) = InstallOps(h, request.release, request.project)
        /\ TargetOf(request, h) = InstallTarget(h, request.release, request.project)
    BY <1>2 DEF HostOps, TargetOf
  <2> QED
    BY <2>1, <2>2, InstallLeads
<1>3. CASE request.op # "install"
  <2>1. CanRemove(h, request.gone)
    BY <1>1, <1>3
  <2>2. /\ HostOps(request, h) = RemoveOps(h, request.gone)
        /\ TargetOf(request, h) = RemoveTarget(h, request.gone)
    BY <1>3 DEF HostOps, TargetOf
  <2> QED
    BY <2>1, <2>2, RemoveLeads
<1> QED
  BY <1>2, <1>3

LEMMA TargetShape ==
  ASSUME NEW request
  PROVE  \A h \in Host, kind \in Kind :
           /\ Named(request, h) => TargetMap(request)[<<h, kind>>] = TargetOf(request, h)[kind]
           /\ ~Named(request, h) => TargetMap(request)[<<h, kind>>] = DataAt(<<h, kind>>)
           /\ DataMap[<<h, kind>>] = DataAt(<<h, kind>>)
<1> SUFFICES ASSUME NEW h \in Host, NEW kind \in Kind
             PROVE  /\ Named(request, h) => TargetMap(request)[<<h, kind>>] = TargetOf(request, h)[kind]
                    /\ ~Named(request, h) => TargetMap(request)[<<h, kind>>] = DataAt(<<h, kind>>)
                    /\ DataMap[<<h, kind>>] = DataAt(<<h, kind>>)
  OBVIOUS
<1>1. <<h, kind>> \in Path /\ <<h, kind>>[1] = h /\ <<h, kind>>[2] = kind
  BY DEF Path
<1> QED
  BY <1>1 DEF TargetMap, DataMap

\* A plan leads from the files as they are to what the call means to leave,
\* and from a home that fits to one that fits.
LEMMA PlanLeads ==
  ASSUME Types, NEW request \in Request, Admissible(request), Plan(request) # <<>>
  PROVE  /\ OpsType(Plan(request))
         /\ Between(Plan(request), DataMap, TargetMap(request))
         /\ AllFit(DataMap) => AllFit(TargetMap(request))
<1> DEFINE plan == Plan(request)
           t == TargetMap(request)
<1>1. /\ Len(request.hosts) \in Nat /\ DOMAIN request.hosts = 1..Len(request.hosts)
      /\ \A k \in 1..Len(request.hosts) : request.hosts[k] \in Host
  BY RequestShape
<1>2. /\ Len(plan) \in Nat /\ DOMAIN plan = 1..Len(plan)
      /\ \A n \in DOMAIN plan : \E s \in Changes(request) : plan[n] = OpAt(request, s)
      /\ \A s \in Changes(request) : \E n \in DOMAIN plan : plan[n] = OpAt(request, s)
  BY <1>1, PlanShape
<1>3. Len(plan) # 0
  BY <1>1, PlanShape
<1>4. \A k \in 1..Len(request.hosts) :
        /\ Named(request, request.hosts[k]) /\ request.hosts[k] \in Host
        /\ Makes(HostOps(request, request.hosts[k]), request.hosts[k], TargetOf(request, request.hosts[k]))
        /\ \A kind \in Kind : May(<<request.hosts[k], kind>>, TargetOf(request, request.hosts[k])[kind])
  BY <1>1, HostLeads DEF Named
<1> HIDE DEF plan, t
\* An operation of the plan.
<1>5. ASSUME NEW n \in DOMAIN plan
      PROVE  OpType(plan[n]) /\ plan[n].before = DataMap[plan[n].path] /\ plan[n].after = t[plan[n].path]
  <2>1. PICK s \in Changes(request) : plan[n] = OpAt(request, s)
    BY <1>2
  <2> DEFINE h == request.hosts[s[1]]
             ops == HostOps(request, h)
             m == TargetOf(request, h)
  <2>2. s[1] \in 1..Len(request.hosts) /\ s[2] \in DOMAIN ops /\ ops[s[2]].before # ops[s[2]].after
        /\ plan[n] = ops[s[2]]
    BY <2>1 DEF Changes, OpAt
  <2>3. /\ h \in Host /\ Named(request, h) /\ Makes(ops, h, m)
        /\ \A kind \in Kind : May(<<h, kind>>, m[kind])
    BY <1>4, <2>2
  <2> HIDE DEF h, ops, m
  <2>4. PICK kind \in Kind : /\ plan[n].path = <<h, kind>>
                             /\ plan[n].before = DataAt(<<h, kind>>) /\ plan[n].after = m[kind]
    BY <2>2, <2>3 DEF Makes
  <2>5. /\ <<h, kind>> \in Path /\ May(<<h, kind>>, DataAt(<<h, kind>>)) /\ May(<<h, kind>>, m[kind])
    BY <2>3, HostTypes
  <2>6. OpType(plan[n])
    BY <2>2, <2>4, <2>5 DEF OpType
  <2>7. t[<<h, kind>>] = m[kind] /\ DataMap[<<h, kind>>] = DataAt(<<h, kind>>)
    BY <2>3, TargetShape DEF t, m
  <2> QED
    BY <2>4, <2>6, <2>7
<1>6. ASSUME NEW path \in Path, DataMap[path] # t[path]
      PROVE  \E n \in DOMAIN plan : plan[n].path = path
  <2>1. PICK h \in Host, kind \in Kind : path = <<h, kind>>
    BY DEF Path
  <2>2. Named(request, h) /\ TargetOf(request, h)[kind] # DataAt(<<h, kind>>)
    BY <1>6, <2>1, TargetShape DEF t
  <2>3. PICK k \in 1..Len(request.hosts) : request.hosts[k] = h
    BY <2>2 DEF Named
  <2>4. Makes(HostOps(request, h), h, TargetOf(request, h))
    BY <1>4, <2>3
  <2>5. PICK i \in DOMAIN HostOps(request, h) : HostOps(request, h)[i].path = <<h, kind>>
    BY <2>2, <2>4 DEF Makes
  <2>6. /\ i \in 1..4 /\ HostOps(request, h)[i].before = DataAt(<<h, kind>>)
        /\ HostOps(request, h)[i].after = TargetOf(request, h)[kind]
    <3>1. PICK other \in Kind : /\ i \in 1..4 /\ <<h, kind>> = <<h, other>>
                                /\ HostOps(request, h)[i].before = DataAt(<<h, other>>)
                                /\ HostOps(request, h)[i].after = TargetOf(request, h)[other]
      BY <2>4, <2>5 DEF Makes
    <3>2. kind = other
      BY <3>1
    <3> QED
      BY <3>1, <3>2
  <2>7. <<k, i>> \in Changes(request) /\ OpAt(request, <<k, i>>) = HostOps(request, h)[i]
    BY <2>2, <2>3, <2>5, <2>6 DEF Changes, OpAt
  <2> QED
    BY <1>2, <2>1, <2>5, <2>7
<1>7. Between(plan, DataMap, t)
  BY <1>5, <1>6 DEF Between
<1>8. OpsType(plan)
  BY <1>2, <1>3, <1>5 DEF OpsType, Single
<1>9. ASSUME AllFit(DataMap) PROVE AllFit(t)
  <2>1. ASSUME NEW h \in Host PROVE FitsIn(t, h)
    <3>1. FitsIn(DataMap, h)
      BY <1>9 DEF AllFit
    <3>2. "settings" \in Kind /\ "wrapper" \in Kind /\ "ownership" \in Kind /\ "config" \in Kind
      BY DEF Kind
    <3>3. CASE Named(request, h)
      <4> DEFINE m == TargetOf(request, h)
      <4>1. Goes(m["settings"], m["wrapper"], m["ownership"], m["config"])
        BY <3>1, <3>3, HostLeads
      <4>2. /\ t[<<h, "settings">>] = m["settings"] /\ t[<<h, "wrapper">>] = m["wrapper"]
            /\ t[<<h, "ownership">>] = m["ownership"] /\ t[<<h, "config">>] = m["config"]
        BY <3>2, <3>3, TargetShape DEF t
      <4> HIDE DEF m
      <4> QED
        BY <4>1, <4>2 DEF FitsIn
    <3>4. CASE ~Named(request, h)
      <4>1. \A kind \in Kind : t[<<h, kind>>] = DataMap[<<h, kind>>]
        BY <3>4, TargetShape DEF t
      <4> QED
        BY <3>1, <3>2, <4>1 DEF FitsIn
    <3> QED
      BY <3>3, <3>4
  <2> QED
    BY <2>1 DEF AllFit
<1> QED
  BY <1>7, <1>8, <1>9 DEF plan, t

LEMMA StartApplyTypes == ASSUME IInv, Types, NEW p \in Proc, StartApply(p) PROVE Types'
<1>1. PICK request \in Request :
        /\ Admissible(request) /\ Plan(request) # <<>>
        /\ Becomes(p, [pc |-> "begin", call |-> calls + 1, ops |-> Plan(request),
                       held |-> files, log |-> None, done |-> 0, back |-> 0])
  BY DEF StartApply
<1> DEFINE ops == Plan(request)
           v == [pc |-> "begin", call |-> calls + 1, ops |-> ops,
                 held |-> files, log |-> None, done |-> 0, back |-> 0]
<1>2. Becomes(p, v)
  BY <1>1
<1>3. OpsType(ops)
  BY <1>1, PlanLeads
<1>4. /\ calls < MaxCalls /\ calls' = calls + 1 /\ faults' = faults
      /\ files' = files /\ backup' = backup /\ journal' = journal /\ edits' = edits
  BY DEF StartApply, home
<1>5. calls \in Nat /\ calls' \in Nat /\ calls' \in 0..MaxCalls /\ calls <= calls' /\ calls + 1 \in 1..calls'
      /\ edits' \in 0..MaxEdits
  BY <1>4, InstallBounds DEF Types
<1>6. HomeType(files', backup', journal', calls')
  <2>1. HomeType(files, backup, journal, calls)
    BY DEF Types
  <2>2. \A c \in 1..MaxCalls : c > calls' => c > calls
    BY <1>4, <1>5
  <2>3. BackupType(backup', calls')
    BY <1>4, <2>1, <2>2 DEF HomeType, BackupType
  <2>4. journal' # None => LogType(journal', calls')
    BY <1>4, <1>5, <2>1 DEF HomeType, LogType
  <2> QED
    BY <1>4, <2>1, <2>3, <2>4 DEF HomeType
<1> HIDE DEF ops
<1>7. v.pc = "begin" /\ v.call = calls + 1 /\ v.ops = ops /\ v.done = 0
  OBVIOUS
<1> HIDE DEF v
<1>8. ApplyType(v, calls')
  BY <1>3, <1>5, <1>7 DEF ApplyType, MidStep, OpsType
<1>9. WorkType(v, calls')
  BY <1>7, <1>8 DEF WorkType
<1> QED
  BY <1>2, <1>4, <1>5, <1>6, <1>9, StepTypes

LEMMA RecoveringType ==
  ASSUME Types, NEW p \in Proc, Recovering(work[p])
  PROVE  /\ work[p].pc \in {"disown", "undo"} /\ RecoverType(work[p], calls)
         /\ HomeType(files, backup, journal, calls) /\ calls \in Nat
         /\ calls \in 0..MaxCalls /\ calls <= calls /\ edits \in 0..MaxEdits
<1>1. work[p].pc \in {"disown", "undo"} /\ RecoverType(work[p], calls)
  BY DEF Types, WorkType, Recovering
<1> QED
  BY <1>1, InstallBounds DEF Types

LEMMA StartRecoverTypes == ASSUME IInv, Types, NEW p \in Proc, StartRecover(p) PROVE Types'
<1> DEFINE v == [pc |-> "disown", log |-> journal, held |-> files,
                 saved |-> backup[journal.call], done |-> 0]
<1>1. /\ journal # None /\ Becomes(p, v)
      /\ files' = files /\ backup' = backup /\ journal' = journal
      /\ calls' = calls /\ edits' = edits /\ faults' = faults
  BY DEF StartRecover, home
<1>2. HomeType(files, backup, journal, calls) /\ calls \in 0..MaxCalls /\ edits \in 0..MaxEdits
      /\ calls \in Nat /\ MaxCalls \in Nat /\ calls <= calls /\ calls <= MaxCalls
  BY InstallBounds DEF Types
<1>3. LogType(journal, calls) /\ journal.call \in 1..MaxCalls
  BY <1>1, <1>2 DEF HomeType, LogType
<1>4. \A path \in Path : May(path, backup[journal.call][path])
  BY <1>2, <1>3 DEF HomeType, BackupType
<1>5. v.pc = "disown" /\ v.log = journal /\ v.saved = backup[journal.call]
  OBVIOUS
<1> HIDE DEF v
<1>6. RecoverType(v, calls)
  BY <1>3, <1>4, <1>5 DEF RecoverType
<1>7. WorkType(v, calls')
  BY <1>1, <1>5, <1>6 DEF WorkType, ApplyStep
<1> QED
  BY <1>1, <1>2, <1>7, StepTypes

LEMMA DisownTypes == ASSUME IInv, Types, NEW p \in Proc, Recovering(work[p]), Disown(p) PROVE Types'
<1> DEFINE w == work[p]
<1>1. PICK k \in OwnedCreates(w) :
        LET log == Marked(w.log, w.log.entries[k].path, "revoked", None)
        IN  \/ journal' = log /\ Becomes(p, [w EXCEPT !.log = log])
            \/ Becomes(p, Idle) /\ UNCHANGED journal
  BY DEF Disown
<1>2. UNCHANGED <<files, backup, calls, faults, edits>>
  BY DEF Disown
<1> DEFINE path == w.log.entries[k].path
           log == Marked(w.log, path, "revoked", None)
           v == [w EXCEPT !.log = log]
<1>3. Recovering(w) /\ Log(w.log)
  BY DEF Recovering
<1>4. /\ w.pc \in {"disown", "undo"} /\ RecoverType(w, calls)
      /\ HomeType(files, backup, journal, calls) /\ calls \in Nat
      /\ calls \in 0..MaxCalls /\ calls <= calls /\ edits \in 0..MaxEdits
  BY RecoveringType
<1>5. k \in DOMAIN w.log.entries /\ w.log.entries[k].state = "confirmed"
  BY DEF OwnedCreates, Undone
<1>6. v = [w EXCEPT !.log = log] /\ (\/ journal' = log /\ Becomes(p, v)
                                     \/ Becomes(p, Idle) /\ UNCHANGED journal)
  BY <1>1
<1> HIDE DEF w, v
<1>7. w.log.entries[k].before = None
  BY <1>4, <1>5 DEF RecoverType, LogType, StateType
<1>8. LogType(log, calls)
  <2> DEFINE was == w.log
  <2>1. /\ Log(was) /\ LogType(was, calls) /\ k \in DOMAIN was.entries
        /\ was.entries[k].path = path /\ was.entries[k].before = None
    BY <1>3, <1>4, <1>5, <1>7 DEF RecoverType
  <2> HIDE DEF was, path
  <2>2. LogType(Marked(was, path, "revoked", None), calls)
    BY <2>1, MarkedType
  <2> QED
    BY <2>2 DEF was
<1> HIDE DEF log
<1>9. v = [pc |-> w.pc, log |-> log, held |-> w.held, saved |-> w.saved, done |-> w.done]
  BY <1>3, <1>6 DEF Recovering
<1>10. v.pc = w.pc /\ v.log = log /\ v.saved = w.saved
  BY <1>9
<1>11. WorkType(v, calls)
  BY <1>4, <1>8, <1>10 DEF WorkType, RecoverType, ApplyStep
<1>12. CASE journal' = log /\ Becomes(p, v)
  <2>1. HomeType(files', backup', journal', calls')
    BY <1>2, <1>4, <1>8, <1>12 DEF HomeType
  <2> QED
    BY <1>2, <1>4, <1>11, <1>12, <2>1, StepTypes
<1>13. CASE Becomes(p, Idle) /\ UNCHANGED journal
  BY <1>2, <1>13, IdleTypes
<1> QED
  BY <1>6, <1>12, <1>13

LEMMA ReassertTypes == ASSUME IInv, Types, NEW p \in Proc, Recovering(work[p]), Reassert(p) PROVE Types'
<1> DEFINE w == work[p]
           v == [w EXCEPT !.pc = "undo"]
<1>1. /\ Becomes(p, v) \/ Becomes(p, Idle)
      /\ files' = files /\ backup' = backup /\ journal' = journal
      /\ calls' = calls /\ edits' = edits /\ faults' = faults
  BY DEF Reassert, home
<1>2. Recovering(w) /\ v = [w EXCEPT !.pc = "undo"]
  OBVIOUS
<1>3. /\ RecoverType(w, calls)
      /\ HomeType(files, backup, journal, calls) /\ calls \in Nat
      /\ calls \in 0..MaxCalls /\ calls <= calls /\ edits \in 0..MaxEdits
  BY RecoveringType
<1> HIDE DEF w, v
<1>4. v = [pc |-> "undo", log |-> w.log, held |-> w.held, saved |-> w.saved, done |-> w.done]
  BY <1>2 DEF Recovering
<1>5. v.pc = "undo" /\ v.log = w.log /\ v.saved = w.saved
  BY <1>4
<1>6. WorkType(v, calls)
  BY <1>3, <1>5 DEF WorkType, RecoverType, ApplyStep
<1>7. CASE Becomes(p, v)
  BY <1>1, <1>3, <1>6, <1>7, StepTypes
<1>8. CASE Becomes(p, Idle)
  BY <1>1, <1>8, IdleTypes
<1> QED
  BY <1>1, <1>7, <1>8

LEMMA UndoTypes == ASSUME IInv, Types, NEW p \in Proc, Recovering(work[p]), Undo(p) PROVE Types'
<1> DEFINE w == work[p]
<1>1. PICK k \in Undone(w) :
        LET e == w.log.entries[k]
            saved == IF e.before = None THEN None ELSE w.saved[e.path]
        IN  \/ /\ files' = [files EXCEPT ![e.path] = NewFile(saved, -w.log.call)]
               /\ Becomes(p, [w EXCEPT !.done = k])
            \/ Becomes(p, Idle) /\ UNCHANGED files
  BY DEF Undo
<1> DEFINE e == w.log.entries[k]
           saved == IF e.before = None THEN None ELSE w.saved[e.path]
           f == [files EXCEPT ![e.path] = NewFile(saved, -w.log.call)]
           v == [w EXCEPT !.done = k]
<1>2. UNCHANGED <<backup, journal, calls, faults, edits>>
  BY DEF Undo
<1>3. /\ RecoverType(w, calls) /\ w.pc \in {"disown", "undo"}
      /\ HomeType(files, backup, journal, calls) /\ calls \in Nat
      /\ calls \in 0..MaxCalls /\ calls <= calls /\ edits \in 0..MaxEdits
  BY RecoveringType
<1>4. Recovering(w) /\ v = [w EXCEPT !.done = k]
  OBVIOUS
<1>5. (files' = f /\ Becomes(p, v)) \/ (Becomes(p, Idle) /\ UNCHANGED files)
  BY <1>1
<1>6. k \in DOMAIN w.log.entries
  BY DEF Undone
<1> HIDE DEF w, v
<1>7. e.path \in Path /\ May(e.path, saved) /\ -w.log.call \in Writer
  <2>1. w.log.call \in 1..calls /\ e.path \in Path
    BY <1>3, <1>6 DEF RecoverType, LogType, OpType
  <2>2. MaxCalls \in Nat /\ MaxEdits \in Nat /\ calls \in Nat /\ calls <= MaxCalls
    BY <1>3, InstallBounds
  <2>3. -w.log.call \in Writer
    <3> DEFINE c == w.log.call
    <3>1. c \in 1..calls
      BY <2>1
    <3> HIDE DEF c
    <3>2. -c \in Writer
      BY <2>2, <3>1 DEF Writer
    <3> QED
      BY <3>2 DEF c
  <2>4. May(e.path, None)
    BY DEF May
  <2>5. e.before # None => May(e.path, w.saved[e.path])
    BY <1>3, <2>1 DEF RecoverType
  <2> QED
    BY <2>1, <2>3, <2>4, <2>5
<1>8. FilesType(f)
  <2> HIDE DEF saved, e
  <2> QED
    BY <1>3, <1>7, WriteType DEF HomeType
<1> HIDE DEF f
<1>9. v = [pc |-> w.pc, log |-> w.log, held |-> w.held, saved |-> w.saved, done |-> k]
  BY <1>4 DEF Recovering
<1>10. v.pc = w.pc /\ v.log = w.log /\ v.saved = w.saved
  BY <1>9
<1>11. WorkType(v, calls)
  BY <1>3, <1>10 DEF WorkType, RecoverType, ApplyStep
<1>12. CASE files' = f /\ Becomes(p, v)
  <2>1. HomeType(files', backup', journal', calls')
    BY <1>2, <1>3, <1>8, <1>12 DEF HomeType
  <2> QED
    BY <1>2, <1>3, <1>11, <1>12, <2>1, StepTypes
<1>13. CASE Becomes(p, Idle) /\ UNCHANGED files
  BY <1>2, <1>13, IdleTypes
<1> QED
  BY <1>5, <1>12, <1>13

\* What other programs write is of the kind of its path.
LEMMA PeerTypes == ASSUME IInv, Types, NEW path \in Path, Peer(path) PROVE Types'
<1>1. PICK data \in PeerData(path) :
        files' = [files EXCEPT ![path] = NewFile(data, MaxCalls + edits + 1)]
  BY DEF Peer
<1>2. edits < MaxEdits /\ edits' = edits + 1 /\ backup' = backup /\ journal' = journal
      /\ work' = work /\ calls' = calls /\ faults' = faults
  BY DEF Peer
<1>3. MaxCalls \in Nat /\ MaxEdits \in Nat /\ edits \in Nat
  BY InstallBounds DEF Types
<1>4. edits' \in 0..MaxEdits /\ MaxCalls + edits + 1 \in Writer /\ edits + 1 \in 0..MaxEdits
  BY <1>2, <1>3 DEF Writer
<1>5. FilesType(files) /\ (journal # None => LogType(journal, calls))
  BY DEF Types, HomeType
<1>6. May(path, data)
  <2>1. CASE data \in {None, Foreign}
    BY <2>1 DEF May
  <2>2. CASE journal # None /\ \E k \in DOMAIN journal.entries :
               journal.entries[k].path = path /\ data = journal.entries[k].after
    BY <1>5, <2>2 DEF LogType, OpType
  <2>3. CASE /\ path[2] = "settings" /\ DataAt(path) \notin {None, Foreign}
             /\ data = Settings(edits + 1, DataAt(path).hook)
    <3>1. May(path, DataAt(path))
      BY <1>5 DEF FilesType, DataAt
    <3>2. DataAt(path) \in SettingsData
      BY <2>3, <3>1 DEF May
    <3>3. DataAt(path).hook \in Release \cup {None}
      BY <3>2 DEF SettingsData
    <3>4. data \in SettingsData
      BY <1>4, <2>3, <3>3, Written
    <3> QED
      BY <2>3, <3>4 DEF May
  <2> QED
    BY <1>1, <2>1, <2>2, <2>3 DEF PeerData
<1>7. FilesType(files')
  BY <1>1, <1>4, <1>5, <1>6, WriteType
<1> QED
  BY <1>2, <1>4, <1>7 DEF Types, HomeType

LEMMA TypesKept == IInv /\ Types /\ [Next]_vars => Types'
<1> SUFFICES ASSUME IInv, Types, [Next]_vars PROVE Types'
  OBVIOUS
<1>1. ASSUME NEW p \in Proc, StartApply(p) \/ StartRecover(p) \/ Step(p) \/ Crash(p) PROVE Types'
  <2>1. Work(work[p], backup)
    BY DEF IInv
  <2>2. /\ work[p].pc \in ApplyStep => Applying(work[p])
        /\ work[p].pc \in {"disown", "undo"} => Recovering(work[p])
    BY <2>1, Which
  <2>3. CASE Begin(p)
    BY <2>2, <2>3, BeginTypes DEF Begin, ApplyStep
  <2>4. CASE Copy(p)
    BY <2>2, <2>4, CopyTypes DEF Copy, ApplyStep
  <2>5. CASE MarkAttempted(p)
    BY <2>2, <2>5, MarkAttemptedTypes DEF MarkAttempted, ApplyStep
  <2>6. CASE Publish(p)
    BY <2>2, <2>6, PublishTypes DEF Publish, ApplyStep
  <2>7. CASE Confirm(p)
    BY <2>2, <2>7, ConfirmTypes DEF Confirm, ApplyStep
  <2>8. CASE Complete(p)
    BY <2>8, IdleTypes DEF Complete
  <2>9. CASE Revoke(p)
    BY <2>2, <2>9, RevokeTypes DEF Revoke, ApplyStep
  <2>10. CASE TakeBack(p)
    BY <2>2, <2>10, TakeBackTypes DEF TakeBack, ApplyStep
  <2>11. CASE EndRollback(p)
    BY <2>11, IdleTypes DEF EndRollback, home
  <2>12. CASE Disown(p)
    BY <2>2, <2>12, DisownTypes DEF Disown
  <2>13. CASE Reassert(p)
    BY <2>2, <2>13, ReassertTypes DEF Reassert
  <2>14. CASE Undo(p)
    BY <2>2, <2>14, UndoTypes DEF Undo
  <2>15. CASE CloseJournal(p)
    BY <2>15, IdleTypes DEF CloseJournal
  <2>16. CASE Crash(p)
    BY <2>16, IdleTypes DEF Crash, home
  <2> QED
    BY <1>1, <2>3, <2>4, <2>5, <2>6, <2>7, <2>8, <2>9, <2>10, <2>11, <2>12, <2>13, <2>14,
       <2>15, <2>16, StartApplyTypes, StartRecoverTypes DEF Step
<1>2. CASE UNCHANGED vars
  BY <1>2 DEF vars, home, Types
<1> QED
  BY <1>1, <1>2, PeerTypes DEF Next

-----------------------------------------------------------------------------
(* What a pending journal stands for.                                      *)

\* No other program meddled, and nobody called recover during a call.
Quiet == ~overtaken /\ edits = 0

Recover == {"disown", "undo"}

\* Operations that would lead from one home that fits to another.
Sound(ops) == \E s, t : AllFit(s) /\ AllFit(t) /\ Between(ops, s, t)

\* An entry whose turn has not come: nothing vouches for its after-state.
Unclaimed(e, copies) ==
  /\ e.before = None => e.state # "confirmed"
  /\ e.before # None => copies[e.path] = None

\* The home was d, which fits, until the first n entries were published or
\* taken back; those beyond the next are unclaimed.
Stands(f, b, j, n, d) ==
  /\ AllFit(d) /\ n \in Nat /\ 1..n \subseteq DOMAIN j.entries
  /\ \A k \in 1..n : d[j.entries[k].path] = j.entries[k].before
  /\ \A path \in Path : (\A k \in 1..n : j.entries[k].path # path) => d[path] = DataIn(f, path)
  /\ \A k \in DOMAIN j.entries :
       (\A i \in DOMAIN j.entries : i <= n + 1 => j.entries[i].path # j.entries[k].path) =>
         Unclaimed(j.entries[k], b[j.call])

\* How many entries a call has published.
Reached(w) == IF w.pc = "confirm" THEN w.done + 1 ELSE w.done

\* A call that goes on owns the journal.
Publishes(w, f, j, n) ==
  w.pc \in MidStep \cup {"complete"} =>
    /\ j = w.log /\ n = Reached(w)
    /\ \A k \in 1..n : DataIn(f, w.ops[k].path) = w.ops[k].after

\* A call that takes back what it wrote has published at least that.
TakesBack(w, j, n) ==
  w.pc \in {"rollback", "takeback"} /\ w.done > 0 =>
    j.call = w.call /\ Matches(w.ops, j) /\ w.done <= n

\* A recovery has restored what it has undone, and has what restores the rest.
Restores(w, f, j, n) ==
  w.pc \in Recover =>
    /\ j = w.log /\ DOMAIN j.entries = 1..n /\ w.done \in Nat
    /\ \A k \in 1..n :
         LET e == w.log.entries[k]
         IN  /\ k \notin Undone(w) \/ k <= w.done => DataIn(f, e.path) = e.before
             /\ k \in Undone(w) /\ e.before # None => w.saved[e.path] = e.before

Led(w, f, j, n) == Publishes(w, f, j, n) /\ TakesBack(w, j, n) /\ Restores(w, f, j, n)

\* A process that may change the home.
Busy(w) ==
  \/ w.pc \in MidStep \cup {"complete"} \cup Recover
  \/ w.pc \in {"rollback", "takeback"} /\ w.done > 0

\* A call before its journal.
Unborn(w, b) ==
  w.pc = "begin" =>
    w.log = None /\ Sound(w.ops) /\ \A path \in Path : b[w.call][path] = None

Apart(v, w) ==
  /\ v.pc \in ApplyStep /\ w.pc \in ApplyStep => v.call # w.call
  /\ v.pc \in Recover => w.pc = "idle"
  /\ w.pc \in Recover => v.pc = "idle"

Fit ==
  /\ journal = None => AllFit(DataMap) /\ \A p \in Proc : ~Busy(work[p])
  /\ journal # None =>
       /\ Sound(journal.entries)
       /\ \E n, d : /\ Stands(files, backup, journal, n, d)
                    /\ \A p \in Proc : Led(work[p], files, journal, n)
  /\ \A p \in Proc : Unborn(work[p], backup)
  /\ \A p, q \in Proc : p # q => Apart(work[p], work[q])

FInv == Quiet => Fit

LEMMA AllFitFits == ASSUME AllFit(DataMap), NEW h \in Host PROVE Fits(h)
<1>1. DataMap[<<h, "settings">>] = DataAt(<<h, "settings">>) /\ DataMap[<<h, "wrapper">>] = DataAt(<<h, "wrapper">>)
      /\ DataMap[<<h, "ownership">>] = DataAt(<<h, "ownership">>) /\ DataMap[<<h, "config">>] = DataAt(<<h, "config">>)
  <2>1. <<h, "settings">> \in Path /\ <<h, "wrapper">> \in Path
        /\ <<h, "ownership">> \in Path /\ <<h, "config">> \in Path
    BY DEF Path, Kind
  <2> QED
    BY <2>1 DEF DataMap
<1>2. PICK r \in Release \cup {None} :
        /\ DataAt(<<h, "settings">>).hook = r /\ DataAt(<<h, "wrapper">>) = WrapperOf(r)
        /\ DataAt(<<h, "ownership">>) = OwnershipOf(r) /\ (DataAt(<<h, "config">>) = None <=> r = None)
  BY <1>1 DEF AllFit, FitsIn, Goes
<1>3. CASE r = None
  <2>1. \A kind \in Kind \ {"settings"} : DataAt(<<h, kind>>) = None
    BY <1>2, <1>3 DEF Kind, WrapperOf, OwnershipOf
  <2> QED
    BY <1>2, <1>3, <2>1 DEF Fits
<1>4. CASE r # None
  <2>1. r \in Release /\ DataAt(<<h, "wrapper">>) = Wrapper(r)
        /\ DataAt(<<h, "ownership">>) = Ownership(r) /\ DataAt(<<h, "config">>) # None
    BY <1>2, <1>4 DEF WrapperOf, OwnershipOf
  <2> QED
    BY <1>2, <2>1 DEF Fits
<1> QED
  BY <1>3, <1>4

\* The operations of a call and the entries of its journal lead the same way.
LEMMA SoundMatches ==
  ASSUME NEW ops, NEW log, Matches(ops, log)
  PROVE  Sound(ops) <=> Sound(log.entries)
<1>1. \A s, t : Between(ops, s, t) <=> Between(log.entries, s, t)
  BY DEF Between, Matches
<1> QED
  BY <1>1 DEF Sound

\* A process that is not busy needs nothing of the journal.
LEMMA FreeLed ==
  ASSUME NEW w, ~Busy(w), NEW f, NEW j, NEW n PROVE Led(w, f, j, n)
  BY DEF Busy, Led, Publishes, TakesBack, Restores

\* One process at most changes the home.
LEMMA Alone ==
  ASSUME IInv, Types, Fit, NEW p \in Proc, Busy(work[p])
  PROVE  \A q \in Proc : q # p => ~Busy(work[q])
<1>1. journal # None
  BY DEF Fit
<1>2. PICK n : \A q \in Proc : Led(work[q], files, journal, n)
  BY <1>1 DEF Fit
<1>3. ASSUME NEW q \in Proc, Busy(work[q]), work[q].pc \notin Recover
      PROVE  work[q].pc \in ApplyStep /\ work[q].call = journal.call
  <2>1. work[q].pc \in ApplyStep
    BY <1>3 DEF Busy, ApplyStep, MidStep
  <2>2. Applying(work[q]) /\ ApplyType(work[q], calls)
    <3>1. Work(work[q], backup) /\ WorkType(work[q], calls)
      BY DEF IInv, Types
    <3> QED
      BY <2>1, <3>1, Which DEF WorkType
  <2>3. CASE work[q].pc \in MidStep \cup {"complete"}
    <3>1. work[q].log = journal
      BY <1>2, <2>3 DEF Led, Publishes
    <3>2. work[q].pc = "complete" => work[q].done > 0
      BY <2>2 DEF ApplyType, OpsType
    <3> QED
      BY <2>1, <2>2, <2>3, <3>1, <3>2 DEF Applying, MidStep
  <2>4. CASE work[q].pc \in {"rollback", "takeback"} /\ work[q].done > 0
    BY <1>2, <2>1, <2>4 DEF Led, TakesBack
  <2> QED
    BY <1>3, <2>3, <2>4 DEF Busy
<1>4. ASSUME NEW q \in Proc, q # p PROVE ~Busy(work[q])
  <2>1. Apart(work[p], work[q])
    BY <1>4 DEF Fit
  <2>2. ~(work[p].pc = "idle" /\ Busy(work[p])) /\ ~(work[q].pc = "idle" /\ Busy(work[q]))
    BY DEF Busy, MidStep, Recover
  <2> QED
    BY <1>3, <2>1, <2>2 DEF Apart
<1> QED
  BY <1>4

\* Who goes on, or stops, stays apart from the others.
Role(v, w) ==
  \/ v.pc = "idle"
  \/ v.pc \in ApplyStep \ {"begin"} /\ w.pc \in ApplyStep /\ v.call = w.call
  \/ v.pc \in Recover /\ w.pc \in Recover

LEMMA RoleKeeps ==
  ASSUME Fit, IInv, NEW p \in Proc, NEW v, Becomes(p, v), Role(v, work[p]),
         \A q \in Proc : q # p /\ work[q].pc = "begin" =>
            backup'[work[q].call] = backup[work[q].call]
  PROVE  /\ work'[p] = v /\ \A q \in Proc : q # p => work'[q] = work[q]
         /\ \A q \in Proc : Unborn(work'[q], backup')
         /\ \A q, r \in Proc : q # r => Apart(work'[q], work'[r])
<1>1. work'[p] = v /\ \A q \in Proc : q # p => work'[q] = work[q]
  BY DEF IInv, Becomes
<1>2. Unborn(v, backup')
  BY DEF Role, Unborn, Recover, ApplyStep
<1>3. ASSUME NEW q \in Proc, q # p PROVE Unborn(work[q], backup')
  BY <1>3 DEF Fit, Unborn
<1>4. ASSUME NEW q \in Proc, q # p PROVE Apart(v, work[q]) /\ Apart(work[q], v)
  <2>1. Apart(work[p], work[q])
    BY <1>4 DEF Fit
  <2>2. "idle" \notin ApplyStep /\ "idle" \notin Recover /\ ApplyStep \cap Recover = {}
    BY DEF ApplyStep, Recover
  <2> QED
    BY <2>1, <2>2 DEF Apart, Role
<1>5. \A q, r \in Proc : q # r => Apart(work'[q], work'[r])
  BY <1>1, <1>4 DEF Fit
<1>6. \A q \in Proc : Unborn(work'[q], backup')
  BY <1>1, <1>2, <1>3
<1> QED
  BY <1>1, <1>5, <1>6

\* A step that leaves the home alone.
LEMMA SameHome ==
  ASSUME Fit, IInv, NEW p \in Proc, NEW v, Becomes(p, v), Role(v, work[p]),
         files' = files, backup' = backup, journal' = journal,
         Busy(v) => Busy(work[p]),
         \A n : journal # None /\ Led(work[p], files, journal, n) => Led(v, files, journal, n)
  PROVE  Fit'
<1>1. /\ work'[p] = v /\ \A q \in Proc : q # p => work'[q] = work[q]
      /\ \A q \in Proc : Unborn(work'[q], backup')
      /\ \A q, r \in Proc : q # r => Apart(work'[q], work'[r])
  BY RoleKeeps
<1>2. DataMap' = DataMap
  BY DEF DataMap, DataAt
<1>3. journal' = None => AllFit(DataMap') /\ \A q \in Proc : ~Busy(work'[q])
  BY <1>1, <1>2 DEF Fit
<1>4. ASSUME journal' # None
      PROVE  \E n, d : /\ Stands(files', backup', journal', n, d)
                       /\ \A q \in Proc : Led(work'[q], files', journal', n)
  <2>1. PICK n, d : /\ Stands(files, backup, journal, n, d)
                    /\ \A q \in Proc : Led(work[q], files, journal, n)
    BY <1>4 DEF Fit
  <2>2. \A q \in Proc : Led(work'[q], files', journal', n)
    BY <1>1, <1>4, <2>1
  <2> QED
    BY <2>1, <2>2
<1>5. journal' # None => Sound(journal'.entries)
  BY DEF Fit
<1> QED
  BY <1>1, <1>3, <1>4, <1>5 DEF Fit

\* A step of the only process that may change the home.
LEMMA OwnHome ==
  ASSUME Fit, IInv, NEW p \in Proc, NEW v, Becomes(p, v), Role(v, work[p]),
         \A q \in Proc : q # p => ~Busy(work[q]),
         \A q \in Proc : q # p /\ work[q].pc = "begin" =>
            backup'[work[q].call] = backup[work[q].call],
         journal' = None => AllFit(DataMap') /\ ~Busy(v),
         journal' # None =>
           /\ Sound(journal'.entries)
           /\ \E n, d : Stands(files', backup', journal', n, d) /\ Led(v, files', journal', n)
  PROVE  Fit'
<1>1. /\ work'[p] = v /\ \A q \in Proc : q # p => work'[q] = work[q]
      /\ \A q \in Proc : Unborn(work'[q], backup')
      /\ \A q, r \in Proc : q # r => Apart(work'[q], work'[r])
  BY RoleKeeps
<1>2. journal' = None => AllFit(DataMap') /\ \A q \in Proc : ~Busy(work'[q])
  BY <1>1
<1>3. ASSUME journal' # None
      PROVE  \E n, d : /\ Stands(files', backup', journal', n, d)
                       /\ \A q \in Proc : Led(work'[q], files', journal', n)
  <2>1. PICK n, d : Stands(files', backup', journal', n, d) /\ Led(v, files', journal', n)
    BY <1>3
  <2>2. \A q \in Proc : q # p => Led(work[q], files', journal', n)
    BY FreeLed
  <2>3. \A q \in Proc : Led(work'[q], files', journal', n)
    BY <1>1, <2>1, <2>2
  <2> QED
    BY <2>1, <2>3
<1> QED
  BY <1>1, <1>2, <1>3 DEF Fit

-----------------------------------------------------------------------------
(* Calls that publish.                                                     *)

\* What is marked is the next entry at most.
LEMMA MarkedStands ==
  ASSUME NEW f, NEW b, NEW j, NEW n, NEW d, Stands(f, b, j, n, d), Log(j),
         NEW path, NEW state, NEW identity, state = "confirmed" => identity = j.call,
         \/ state # "confirmed"
         \/ \E i \in DOMAIN j.entries : i <= n + 1 /\ j.entries[i].path = path
  PROVE  /\ Stands(f, b, Marked(j, path, state, identity), n, d)
         /\ Sound(j.entries) => Sound(Marked(j, path, state, identity).entries)
<1> DEFINE next == Marked(j, path, state, identity)
<1>1. /\ next.call = j.call
      /\ DOMAIN next.entries = DOMAIN j.entries
      /\ \A k \in DOMAIN j.entries :
           /\ next.entries[k].path = j.entries[k].path
           /\ next.entries[k].before = j.entries[k].before
           /\ next.entries[k].after = j.entries[k].after
  BY MarkedLog
<1>2. \A k \in DOMAIN j.entries :
        /\ j.entries[k].path = path => next.entries[k].state = state
        /\ j.entries[k].path # path => next.entries[k] = j.entries[k]
  BY MarkedStates
<1> HIDE DEF next
<1>3. Matches(j.entries, next)
  BY <1>1 DEF Matches
<1>4. Sound(j.entries) => Sound(next.entries)
  BY <1>3, SoundMatches
<1>5. AllFit(d) /\ n \in Nat /\ 1..n \subseteq DOMAIN next.entries
  BY <1>1 DEF Stands
<1>6. /\ \A k \in 1..n : d[next.entries[k].path] = next.entries[k].before
      /\ \A q \in Path : (\A k \in 1..n : next.entries[k].path # q) => d[q] = DataIn(f, q)
  BY <1>1, <1>5 DEF Stands
<1>7. ASSUME NEW k \in DOMAIN next.entries,
             \A i \in DOMAIN next.entries : i <= n + 1 => next.entries[i].path # next.entries[k].path
      PROVE  Unclaimed(next.entries[k], b[next.call])
  <2>1. \A i \in DOMAIN j.entries : i <= n + 1 => j.entries[i].path # j.entries[k].path
    BY <1>1, <1>7
  <2>2. k \in DOMAIN j.entries /\ Unclaimed(j.entries[k], b[j.call])
    BY <1>1, <2>1 DEF Stands
  <2>3. CASE j.entries[k].path = path
    BY <1>1, <1>2, <2>1, <2>2, <2>3 DEF Unclaimed
  <2>4. CASE j.entries[k].path # path
    BY <1>1, <1>2, <2>2, <2>4
  <2> QED
    BY <2>3, <2>4
<1> QED
  BY <1>4, <1>5, <1>6, <1>7 DEF Stands, next

\* What a call in the middle of its operations knows.
LEMMA MidFacts ==
  ASSUME IInv, Types, Fit, NEW p \in Proc, Applying(work[p]), work[p].pc \in MidStep
  PROVE  LET w == work[p]
         IN  /\ journal # None /\ journal = w.log /\ journal.call = w.call /\ Log(journal)
             /\ Matches(w.ops, journal) /\ LogType(journal, calls) /\ Sound(journal.entries)
             /\ \A q \in Proc : q # p => ~Busy(work[q])
             /\ \E d : Stands(files, backup, journal, Reached(w), d)
             /\ \A k \in 1..Reached(w) : DataAt(w.ops[k].path) = w.ops[k].after
             /\ Reached(w) \in Nat /\ w.done \in Nat /\ w.done <= Reached(w)
             /\ DOMAIN w.ops = 1..Len(w.ops) /\ DOMAIN journal.entries = 1..Len(w.ops)
             /\ Len(w.ops) \in Nat /\ w.done + 1 <= Len(w.ops)
             /\ Current(w) = w.ops[w.done + 1] /\ OpType(Current(w)) /\ Single(w.ops)
             /\ journal.entries[w.done + 1].path = Current(w).path
             /\ journal.entries[w.done + 1].before = Current(w).before
<1> DEFINE w == work[p]
<1>1. Busy(w)
  BY DEF Busy
<1>2. journal # None /\ \A q \in Proc : q # p => ~Busy(work[q])
  BY <1>1, Alone DEF Fit
<1>3. /\ Sound(journal.entries)
      /\ \E n, d : Stands(files, backup, journal, n, d) /\ Led(w, files, journal, n)
  BY <1>2 DEF Fit
<1>4. PICK n, d : Stands(files, backup, journal, n, d) /\ Publishes(w, files, journal, n)
  BY <1>3 DEF Led
<1>5. /\ journal = w.log /\ n = Reached(w)
      /\ \A k \in 1..n : DataAt(w.ops[k].path) = w.ops[k].after
  BY <1>4 DEF Publishes, DataAt
<1>6. ApplyType(w, calls) /\ w.done \in Nat /\ Log(w.log) /\ w.log.call = w.call
  BY ApplyingType DEF Applying, MidStep
<1>7. /\ w.done + 1 \in DOMAIN w.ops /\ Current(w) = w.ops[w.done + 1]
      /\ OpType(Current(w)) /\ LogType(w.log, calls) /\ Matches(w.ops, w.log)
      /\ w.done + 1 <= Len(w.ops) /\ Len(w.ops) \in Nat
      /\ Single(w.ops)
  <2> HIDE DEF w
  <2> QED
    BY <1>6, CurrentType DEF w
<1>8. DOMAIN w.ops = 1..Len(w.ops)
  BY <1>6 DEF ApplyType, OpsType
<1>9. Reached(w) \in Nat /\ w.done <= Reached(w)
  BY <1>6 DEF Reached
<1>10. /\ DOMAIN journal.entries = 1..Len(w.ops)
       /\ journal.entries[w.done + 1].path = Current(w).path
       /\ journal.entries[w.done + 1].before = Current(w).before
  BY <1>5, <1>7, <1>8 DEF Matches
<1> QED
  BY <1>2, <1>3, <1>4, <1>5, <1>6, <1>7, <1>8, <1>9, <1>10

\* A call that gives up takes back what it has published, if anything.
LEMMA GivenUp ==
  ASSUME IInv, Types, Fit, NEW p \in Proc, Applying(work[p]),
         work[p].pc \in MidStep \cup {"begin"},
         NEW v, NEW log, Took(v, work[p], "rollback", log, work[p].done)
  PROVE  /\ Role(v, work[p]) /\ (Busy(v) => Busy(work[p]))
         /\ \A f, j, n : Publishes(v, f, j, n) /\ Restores(v, f, j, n)
         /\ \A f, j, n : j.call = work[p].call /\ Matches(work[p].ops, j) /\ work[p].done <= n
                           => Led(v, f, j, n)
         /\ work[p].pc = "begin" => \A f, j, n : Led(v, f, j, n)
<1>1. v.pc = "rollback" /\ v.call = work[p].call /\ v.ops = work[p].ops /\ v.done = work[p].done
  BY DEF Took
<1>2. work[p].pc = "begin" => work[p].done = 0
  BY DEF Applying
<1>3. Role(v, work[p])
  BY <1>1 DEF Role, Applying, ApplyStep
<1>4. Busy(v) => Busy(work[p])
  BY <1>1, <1>2 DEF Busy, MidStep, Recover
<1>5. \A f, j, n : Publishes(v, f, j, n) /\ Restores(v, f, j, n)
  BY <1>1 DEF Publishes, Restores, MidStep, Recover
<1>6. \A f, j, n : j.call = work[p].call /\ Matches(work[p].ops, j) /\ work[p].done <= n
                     => TakesBack(v, j, n)
  BY <1>1 DEF TakesBack
<1>7. work[p].pc = "begin" => \A j, n : TakesBack(v, j, n)
  BY <1>1, <1>2 DEF TakesBack
<1> QED
  BY <1>3, <1>4, <1>5, <1>6, <1>7 DEF Led

LEMMA DiskFit ==
  ASSUME IInv, Types, Fit, NEW p \in Proc, Applying(work[p]),
         work[p].pc \in MidStep \cup {"begin"},
         NEW allowed, NEW f, NEW b, NEW j, NEW w, DiskStep(p, allowed, f, b, j, w),
         allowed =>
           /\ w.pc \in ApplyStep \ {"begin"} /\ w.call = work[p].call
           /\ \A q \in Proc : q # p => ~Busy(work[q])
           /\ \A c \in 1..MaxCalls : c # work[p].call => b[c] = backup[c]
           /\ j # None /\ j.call = work[p].call /\ Matches(work[p].ops, j) /\ Sound(j.entries)
           /\ \E n, d : Stands(f, b, j, n, d) /\ Led(w, f, j, n) /\ work[p].done <= n
  PROVE  Fit'
<1>1. PICK v : /\ Becomes(p, v)
               /\ \/ allowed /\ files' = f /\ backup' = b /\ journal' = j /\ v = w
                  \/ /\ files' = files /\ backup' = backup /\ journal' = journal
                     /\ Took(v, work[p], "rollback", work[p].log, work[p].done)
                  \/ /\ allowed /\ files' = f /\ backup' = b /\ journal' = j
                     /\ \E log \in {work[p].log, w.log} :
                          Took(v, work[p], "rollback", log, work[p].done)
  <2>1. \E v : /\ Becomes(p, v)
               /\ faults' = faults \/ (faults < MaxFaults /\ faults' = faults + 1)
               /\ \/ allowed /\ files' = f /\ backup' = b /\ journal' = j /\ v = w
                  \/ /\ files' = files /\ backup' = backup /\ journal' = journal
                     /\ Took(v, work[p], "rollback", work[p].log, work[p].done)
                  \/ /\ allowed /\ files' = f /\ backup' = b /\ journal' = j
                     /\ \E log \in {work[p].log, w.log} :
                          Took(v, work[p], "rollback", log, work[p].done)
    BY DiskOutcome
  <2> QED
    BY <2>1
<1>2. ASSUME NEW q \in Proc, q # p, work[q].pc = "begin"
      PROVE  work[q].call \in 1..MaxCalls /\ work[q].call # work[p].call
  <2>1. Applying(work[q])
    BY <1>2, Which DEF IInv, ApplyStep
  <2>2. Apart(work[p], work[q])
    BY <1>2 DEF Fit
  <2> QED
    BY <2>1, <2>2 DEF Applying, Apart
<1>3. CASE allowed /\ files' = f /\ backup' = b /\ journal' = j /\ v = w
  <2>1. Role(v, work[p])
    BY <1>3 DEF Role, Applying
  <2>2. \A q \in Proc : q # p /\ work[q].pc = "begin" => backup'[work[q].call] = backup[work[q].call]
    BY <1>2, <1>3
  <2> QED
    BY <1>1, <1>3, <2>1, <2>2, OwnHome
<1>4. CASE /\ files' = files /\ backup' = backup /\ journal' = journal
           /\ Took(v, work[p], "rollback", work[p].log, work[p].done)
  <2>1. /\ Role(v, work[p]) /\ (Busy(v) => Busy(work[p]))
        /\ \A n : journal.call = work[p].call /\ Matches(work[p].ops, journal) /\ work[p].done <= n
                           => Led(v, files, journal, n)
        /\ work[p].pc = "begin" => \A n : Led(v, files, journal, n)
    BY <1>4, GivenUp
  <2>2. ASSUME NEW n, journal # None, Led(work[p], files, journal, n), work[p].pc \in MidStep
        PROVE  journal.call = work[p].call /\ Matches(work[p].ops, journal) /\ work[p].done <= n
    BY <2>2, MidFacts DEF Led, Publishes
  <2>3. \A n : journal # None /\ Led(work[p], files, journal, n) => Led(v, files, journal, n)
    BY <2>1, <2>2
  <2> QED
    BY <1>1, <1>4, <2>1, <2>3, SameHome
<1>5. CASE /\ allowed /\ files' = f /\ backup' = b /\ journal' = j
           /\ \E log \in {work[p].log, w.log} :
                Took(v, work[p], "rollback", log, work[p].done)
  <2>1. PICK log \in {work[p].log, w.log} : Took(v, work[p], "rollback", log, work[p].done)
    BY <1>5
  <2>2. /\ Role(v, work[p])
        /\ \A n : j.call = work[p].call /\ Matches(work[p].ops, j) /\ work[p].done <= n
                           => Led(v, f, j, n)
    BY <2>1, GivenUp
  <2>3. \A q \in Proc : q # p /\ work[q].pc = "begin" => backup'[work[q].call] = backup[work[q].call]
    BY <1>2, <1>5
  <2>4. \E n, d : Stands(f, b, j, n, d) /\ Led(v, f, j, n)
    BY <1>5, <2>2
  <2> QED
    BY <1>1, <1>5, <2>2, <2>3, <2>4, OwnHome
<1> QED
  BY <1>1, <1>3, <1>4, <1>5

\* What leads a call that goes on, when it has its journal.
LEMMA GoesLed ==
  ASSUME NEW v, NEW f, NEW j, v.pc \in MidStep \cup {"complete"}, j = v.log,
         \A k \in 1..Reached(v) : DataIn(f, v.ops[k].path) = v.ops[k].after
  PROVE  Led(v, f, j, Reached(v))
  BY DEF Led, Publishes, TakesBack, Restores, MidStep, Recover

LEMMA LogNotNone == ASSUME NEW log, NEW n, LogType(log, n) PROVE log # None
  BY NoneIsNothing DEF LogType

\* What was written is there, and the rest is as it was.
LEMMA WriteData ==
  ASSUME NEW f, NEW g, NEW path, NEW data, May(path, data), NEW by \in Writer,
         g[path] = NewFile(data, by), \A q \in Path : q # path => g[q] = f[q]
  PROVE  DataIn(g, path) = data /\ \A q \in Path : q # path => DataIn(g, q) = DataIn(f, q)
<1>1. DataIn(g, path) = data
  <2>1. CASE data = None
    BY <2>1 DEF NewFile, DataIn
  <2>2. CASE data # None
    <3>1. g[path] = [data |-> data, by |-> by]
      BY <2>2 DEF NewFile
    <3>2. g[path].data = data /\ g[path] # None
      BY <2>2, <3>1, MayData, NoneIsNothing DEF File
    <3> QED
      BY <2>2, <3>2 DEF DataIn
  <2> QED
    BY <2>1, <2>2
<1> QED
  BY <1>1 DEF DataIn

LEMMA BeginFit ==
  ASSUME IInv, Types, Fit, NEW p \in Proc, Applying(work[p]), Begin(p) PROVE Fit'
<1> DEFINE w == work[p]
           log == Pending(w.call, w.ops)
           v == [w EXCEPT !.log = log, !.pc = StageOf(w.ops[1])]
<1>1. w.pc = "begin" /\ DiskStep(p, LogHeld(w), files, backup, log, v)
  BY DEF Begin
<1>2. /\ ApplyType(w, calls) /\ Applying(w) /\ w.done = 0
      /\ w.call \in 1..MaxCalls /\ calls \in Nat
  BY <1>1, ApplyingType DEF Applying
<1>3. LogType(log, calls) /\ Matches(w.ops, log) /\ Log(log) /\ log.call = w.call
  BY <1>2, PendingType, PendingLog DEF ApplyType
<1>4. \A k \in DOMAIN log.entries : log.entries[k].state # "confirmed"
  <2>1. log.entries = [k \in DOMAIN w.ops |-> Entry(w.ops[k])]
    BY DEF Pending
  <2>2. \A k \in DOMAIN w.ops : Entry(w.ops[k]).state # "confirmed"
    BY DEF Entry
  <2> HIDE DEF log
  <2> QED
    BY <2>1, <2>2
<1>5. Took(v, w, StageOf(w.ops[1]), log, w.done)
  <2> HIDE DEF w, log
  <2> QED
    BY <1>2, WentOn
<1>6. Unborn(w, backup)
  BY DEF Fit
<1> HIDE DEF log, v, w
<1>7. /\ v.pc \in {"copy", "attempt"} /\ v.call = w.call /\ v.ops = w.ops
      /\ v.log = log /\ v.done = 0
  BY <1>2, <1>5, StageType DEF Took
<1>8. /\ w.log = None /\ Sound(w.ops) /\ \A path \in Path : backup[w.call][path] = None
  BY <1>1, <1>6 DEF Unborn
<1>9. ASSUME LogHeld(w)
      PROVE  /\ v.pc \in ApplyStep \ {"begin"} /\ v.call = w.call
             /\ \A q \in Proc : q # p => ~Busy(work[q])
             /\ log # None /\ log.call = w.call /\ Matches(w.ops, log) /\ Sound(log.entries)
             /\ \E n, d : Stands(files, backup, log, n, d) /\ Led(v, files, log, n) /\ w.done <= n
  <2>1. journal = None
    BY <1>8, <1>9 DEF LogHeld
  <2>2. AllFit(DataMap) /\ \A q \in Proc : ~Busy(work[q])
    BY <2>1 DEF Fit
  <2>3. log # None
    BY <1>3, LogNotNone
  <2>4. Sound(log.entries)
    BY <1>3, <1>8, SoundMatches
  <2>5. Stands(files, backup, log, 0, DataMap)
    <3>1. \A path \in Path : DataMap[path] = DataIn(files, path)
      BY DEF DataMap, DataAt
    <3>2. ASSUME NEW k \in DOMAIN log.entries PROVE Unclaimed(log.entries[k], backup[log.call])
      <4>1. log.entries[k].path \in Path
        BY <1>3 DEF LogType, OpType
      <4> QED
        BY <1>3, <1>4, <1>8, <4>1 DEF Unclaimed
    <3>3. 1..0 = {}
      OBVIOUS
    <3> QED
      BY <2>2, <3>1, <3>2, <3>3 DEF Stands
  <2>6. Led(v, files, log, 0)
    <3>1. Reached(v) = 0 /\ v.pc \in MidStep
      BY <1>7 DEF Reached, MidStep
    <3>2. \A k \in 1..Reached(v) : DataIn(files, v.ops[k].path) = v.ops[k].after
      BY <3>1
    <3> QED
      BY <1>7, <3>1, <3>2, GoesLed
  <2> QED
    BY <1>2, <1>3, <1>7, <2>2, <2>3, <2>4, <2>5, <2>6 DEF ApplyStep
<1>10. LogHeld(w) =>
         /\ v.pc \in ApplyStep \ {"begin"} /\ v.call = work[p].call
         /\ \A q \in Proc : q # p => ~Busy(work[q])
         /\ \A c \in 1..MaxCalls : c # work[p].call => backup[c] = backup[c]
         /\ log # None /\ log.call = work[p].call /\ Matches(work[p].ops, log) /\ Sound(log.entries)
         /\ \E n, d : Stands(files, backup, log, n, d) /\ Led(v, files, log, n) /\ work[p].done <= n
  BY <1>9 DEF w
<1>11. work[p].pc \in MidStep \cup {"begin"}
  BY <1>1 DEF w
<1> QED
  BY <1>1, <1>10, <1>11, DiskFit

LEMMA CopyFit ==
  ASSUME IInv, Types, Fit, NEW p \in Proc, Applying(work[p]), Copy(p) PROVE Fit'
<1> DEFINE w == work[p]
           op == Current(w)
           b == [backup EXCEPT ![w.call][op.path] = op.before]
           v == [w EXCEPT !.pc = "publish"]
           allowed == AsSeen(w) /\ backup[w.call][op.path] = None
           j == journal
<1>1. w.pc = "copy" /\ DiskStep(p, allowed, files, b, j, v)
  BY DEF Copy
<1>2. w.pc \in MidStep
  BY <1>1 DEF MidStep
<1>3. /\ j # None /\ j = w.log /\ j.call = w.call
      /\ Matches(w.ops, j) /\ LogType(j, calls) /\ Sound(j.entries)
      /\ \A q \in Proc : q # p => ~Busy(work[q])
      /\ \E d : Stands(files, backup, j, Reached(w), d)
      /\ \A k \in 1..Reached(w) : DataAt(w.ops[k].path) = w.ops[k].after
      /\ w.done \in Nat /\ Len(w.ops) \in Nat /\ w.done + 1 <= Len(w.ops)
      /\ DOMAIN j.entries = 1..Len(w.ops) /\ OpType(op)
      /\ j.entries[w.done + 1].path = op.path
  BY <1>2, MidFacts
<1>4. v = [pc |-> "publish", call |-> w.call, ops |-> w.ops, held |-> w.held,
           log |-> w.log, done |-> w.done, back |-> w.back]
  BY DEF Applying
<1>5. /\ DOMAIN backup = 1..MaxCalls /\ \A c \in 1..MaxCalls : DOMAIN backup[c] = Path
      /\ w.call \in 1..MaxCalls
  BY DEF IInv, Home, Applying
<1> HIDE DEF v, w, op, j
<1>6. /\ \A c \in 1..MaxCalls : c # w.call => b[c] = backup[c]
      /\ \A path \in Path : path # op.path => b[w.call][path] = backup[w.call][path]
  BY <1>5
<1> HIDE DEF b
<1>7. /\ v.pc = "publish" /\ v.call = w.call /\ v.ops = w.ops /\ v.log = w.log /\ v.done = w.done
  BY <1>4
<1>8. Reached(w) = w.done /\ Reached(v) = w.done
  BY <1>1, <1>7 DEF Reached
<1>9. PICK d : Stands(files, backup, j, w.done, d)
  BY <1>3, <1>8
<1>10. Stands(files, b, j, w.done, d)
  <2>1. ASSUME NEW k \in DOMAIN j.entries,
               \A i \in DOMAIN j.entries : i <= w.done + 1 => j.entries[i].path # j.entries[k].path
        PROVE  Unclaimed(j.entries[k], b[j.call])
    <3>1. w.done + 1 \in DOMAIN j.entries
      BY <1>3
    <3>2. j.entries[k].path # op.path
      BY <1>3, <2>1, <3>1
    <3>3. j.entries[k].path \in Path
      BY <1>3 DEF LogType, OpType
    <3>4. Unclaimed(j.entries[k], backup[j.call])
      BY <1>9, <2>1 DEF Stands
    <3> QED
      BY <1>3, <1>6, <3>2, <3>3, <3>4 DEF Unclaimed
  <2> QED
    BY <1>9, <2>1 DEF Stands
<1>11. Led(v, files, j, w.done)
  <2>1. \A k \in 1..Reached(v) : DataIn(files, v.ops[k].path) = v.ops[k].after
    BY <1>3, <1>7, <1>8 DEF DataAt
  <2>2. v.pc \in MidStep \cup {"complete"} /\ j = v.log
    BY <1>3, <1>7 DEF MidStep
  <2> QED
    BY <1>8, <2>1, <2>2, GoesLed
<1>12. /\ v.pc \in ApplyStep \ {"begin"} /\ v.call = work[p].call
       /\ \A q \in Proc : q # p => ~Busy(work[q])
       /\ \A c \in 1..MaxCalls : c # work[p].call => b[c] = backup[c]
       /\ j # None /\ j.call = work[p].call /\ Matches(work[p].ops, j) /\ Sound(j.entries)
       /\ \E n, e : Stands(files, b, j, n, e) /\ Led(v, files, j, n) /\ work[p].done <= n
  BY <1>3, <1>6, <1>7, <1>10, <1>11 DEF w, ApplyStep
<1>13. work[p].pc \in MidStep \cup {"begin"}
  BY <1>2 DEF w
<1> HIDE DEF allowed
<1> QED
  BY <1>1, <1>12, <1>13, DiskFit

LEMMA MarkAttemptedFit ==
  ASSUME IInv, Types, Fit, NEW p \in Proc, Applying(work[p]), MarkAttempted(p) PROVE Fit'
<1> DEFINE w == work[p]
           j == journal
           path == Current(w).path
           log == Marked(w.log, path, "attempted", None)
           v == [w EXCEPT !.log = log, !.pc = "publish"]
           allowed == AsSeen(w) /\ LogHeld(w)
<1>1. w.pc = "attempt" /\ DiskStep(p, allowed, files, backup, log, v)
  BY DEF MarkAttempted
<1>2. w.pc \in MidStep /\ Applying(w)
  BY <1>1 DEF MidStep
<1>3. /\ j # None /\ j = w.log /\ j.call = w.call /\ Log(j)
      /\ Matches(w.ops, j) /\ LogType(j, calls) /\ Sound(j.entries)
      /\ \A q \in Proc : q # p => ~Busy(work[q])
      /\ \E d : Stands(files, backup, j, Reached(w), d)
      /\ \A k \in 1..Reached(w) : DataAt(w.ops[k].path) = w.ops[k].after
      /\ w.done \in Nat
  BY <1>2, MidFacts
<1>4. Took(v, w, "publish", log, w.done)
  <2> HIDE DEF w, log
  <2> QED
    BY <1>2, WentOn
<1> HIDE DEF w, j, path, v
<1>5. log = Marked(j, path, "attempted", None)
  BY <1>3
<1> HIDE DEF log
<1>6. log.call = w.call /\ Log(log) /\ Matches(w.ops, log) /\ log # None
  <2>1. log \in Journal
    BY <1>3, <1>5, MarkedJournal DEF LogType
  <2> QED
    BY <1>3, <1>5, <2>1, MarkedLog, MarkedMatches, NoneIsNothing
<1>7. /\ v.pc = "publish" /\ v.call = w.call /\ v.ops = w.ops /\ v.log = log /\ v.done = w.done
  BY <1>4 DEF Took
<1>8. Reached(w) = w.done /\ Reached(v) = w.done
  BY <1>1, <1>7 DEF Reached
<1>9. PICK d : Stands(files, backup, j, w.done, d)
  BY <1>3, <1>8
<1>10. Stands(files, backup, log, w.done, d) /\ Sound(log.entries)
  <2>1. /\ Stands(files, backup, Marked(j, path, "attempted", None), w.done, d)
        /\ Sound(j.entries) => Sound(Marked(j, path, "attempted", None).entries)
    BY <1>3, <1>9, MarkedStands
  <2> QED
    BY <1>3, <1>5, <2>1
<1>11. Led(v, files, log, w.done)
  <2>1. \A k \in 1..Reached(v) : DataIn(files, v.ops[k].path) = v.ops[k].after
    BY <1>3, <1>7, <1>8 DEF DataAt
  <2>2. v.pc \in MidStep \cup {"complete"} /\ log = v.log
    BY <1>7 DEF MidStep
  <2> QED
    BY <1>8, <2>1, <2>2, GoesLed
<1>12. /\ v.pc \in ApplyStep \ {"begin"} /\ v.call = work[p].call
       /\ \A q \in Proc : q # p => ~Busy(work[q])
       /\ \A c \in 1..MaxCalls : c # work[p].call => backup[c] = backup[c]
       /\ log # None /\ log.call = work[p].call /\ Matches(work[p].ops, log) /\ Sound(log.entries)
       /\ \E n, e : Stands(files, backup, log, n, e) /\ Led(v, files, log, n) /\ work[p].done <= n
  BY <1>3, <1>6, <1>7, <1>10, <1>11 DEF w, ApplyStep
<1>13. work[p].pc \in MidStep \cup {"begin"}
  BY <1>2 DEF w
<1> HIDE DEF allowed
<1> QED
  BY <1>1, <1>12, <1>13, DiskFit

\* Whatever is done, the call has one more operation published.
LEMMA AdvancedReached ==
  ASSUME NEW u, NEW n, u.done \in Nat, ApplyType(u, n), u.pc \in MidStep,
         u = [pc |-> u.pc, call |-> u.call, ops |-> u.ops, held |-> u.held, log |-> u.log,
              done |-> u.done, back |-> u.back]
  PROVE  LET v == Advanced(u)
         IN  /\ v.pc \in {"copy", "attempt", "complete"} /\ v.call = u.call /\ v.ops = u.ops
             /\ v.log = u.log /\ Reached(v) = u.done + 1
<1>1. PICK pc : /\ Took(Advanced(u), u, pc, u.log, u.done + 1)
                /\ u.done + 1 = Len(u.ops) => pc = "complete"
                /\ u.done + 1 # Len(u.ops) => pc = StageOf(u.ops[u.done + 2])
  BY GotOn
<1> DEFINE v == Advanced(u)
<1> HIDE DEF v
<1>2. v.pc = pc /\ v.call = u.call /\ v.ops = u.ops /\ v.log = u.log /\ v.done = u.done + 1
  BY <1>1 DEF Took, v
<1>3. pc \in {"copy", "attempt", "complete"}
  BY <1>1, StageType
<1> QED
  BY <1>2, <1>3 DEF Reached, v

LEMMA PublishFit ==
  ASSUME IInv, Types, Fit, NEW p \in Proc, Applying(work[p]), Publish(p) PROVE Fit'
<1> DEFINE w == work[p]
           j == journal
           op == Current(w)
           new == NewFile(op.after, w.call)
           held == [w.held EXCEPT ![op.path] = new]
           seen == [w EXCEPT !.held[op.path] = new]
           f == [files EXCEPT ![op.path] = new]
           v == IF op.before = None THEN [seen EXCEPT !.pc = "confirm"] ELSE Advanced(seen)
           m == w.done + 1
<1>1. w.pc = "publish" /\ DiskStep(p, Held(w, op.path), f, backup, j, v)
  BY DEF Publish
<1>2. w.pc \in MidStep /\ Applying(w) /\ AsSeen(w)
  <2>1. Work(w, backup)
    BY DEF IInv
  <2>2. w.pc \in ApplyStep
    BY <1>1 DEF ApplyStep
  <2>3. Applying(w) /\ Prepared(w, backup)
    BY <2>1, <2>2, Which
  <2> QED
    BY <1>1, <2>3 DEF MidStep, Prepared
<1>3. /\ j # None /\ j = w.log /\ j.call = w.call /\ Log(j)
      /\ Matches(w.ops, j) /\ LogType(j, calls) /\ Sound(j.entries)
      /\ \A q \in Proc : q # p => ~Busy(work[q])
      /\ \E d : Stands(files, backup, j, Reached(w), d)
      /\ \A k \in 1..Reached(w) : DataAt(w.ops[k].path) = w.ops[k].after
      /\ w.done \in Nat /\ Len(w.ops) \in Nat /\ m <= Len(w.ops)
      /\ DOMAIN w.ops = 1..Len(w.ops) /\ DOMAIN j.entries = 1..Len(w.ops)
      /\ op = w.ops[m] /\ OpType(op) /\ Single(w.ops)
      /\ j.entries[m].path = op.path /\ j.entries[m].before = op.before
  BY <1>2, MidFacts
<1>4. /\ ApplyType(w, calls) /\ w.call \in Writer /\ HomeType(files, backup, journal, calls)
  BY <1>2, ApplyingType
<1>5. seen = [pc |-> w.pc, call |-> w.call, ops |-> w.ops, held |-> held,
              log |-> w.log, done |-> w.done, back |-> w.back]
  <2>1. /\ w = [pc |-> w.pc, call |-> w.call, ops |-> w.ops, held |-> w.held,
                log |-> w.log, done |-> w.done, back |-> w.back]
        /\ seen = [w EXCEPT !.held = held]
    BY <1>2 DEF Applying
  <2> HIDE DEF seen, held, w
  <2> QED
    BY <2>1
<1> HIDE DEF w, op, held, v, seen, j, m
<1>6. DataIn(f, op.path) = op.after /\ \A q \in Path : q # op.path => DataIn(f, q) = DataIn(files, q)
  <2>1. op.path \in Path /\ May(op.path, op.after) /\ FilesType(files)
    BY <1>3, <1>4 DEF OpType, HomeType
  <2>2. f[op.path] = new /\ \A q \in Path : q # op.path => f[q] = files[q]
    <3>1. DOMAIN files = Path
      BY DEF IInv, Home
    <3> HIDE DEF new
    <3> QED
      BY <2>1, <3>1
  <2> HIDE DEF f
  <2> QED
    BY <1>4, <2>1, <2>2, WriteData DEF new
<1> HIDE DEF new, f
<1>7. /\ seen.pc = "publish" /\ seen.call = w.call /\ seen.ops = w.ops
      /\ seen.log = w.log /\ seen.done = w.done
      /\ seen = [pc |-> seen.pc, call |-> seen.call, ops |-> seen.ops, held |-> seen.held,
                 log |-> seen.log, done |-> seen.done, back |-> seen.back]
  BY <1>1, <1>5
<1>8. /\ v.pc \in MidStep \cup {"complete"} /\ v.call = w.call /\ v.ops = w.ops /\ v.log = w.log
      /\ Reached(v) = m
  <2>1. CASE op.before = None
    <3>1. v = [pc |-> "confirm", call |-> seen.call, ops |-> seen.ops, held |-> seen.held,
               log |-> seen.log, done |-> seen.done, back |-> seen.back]
      BY <1>7, <2>1 DEF v
    <3>2. /\ v.pc = "confirm" /\ v.call = seen.call /\ v.ops = seen.ops
          /\ v.log = seen.log /\ v.done = seen.done
      BY <3>1
    <3> QED
      BY <1>7, <3>2 DEF MidStep, Reached, m
  <2>2. CASE op.before # None
    <3>1. v = Advanced(seen)
      BY <2>2 DEF v
    <3>2. seen.done \in Nat /\ seen.pc \in MidStep
      BY <1>3, <1>7 DEF MidStep
    <3>3. ApplyType(seen, calls)
      BY <1>1, <1>4, <1>7 DEF ApplyType, MidStep
    <3> QED
      BY <1>7, <3>1, <3>2, <3>3, AdvancedReached DEF MidStep, m
  <2> QED
    BY <2>1, <2>2
<1>9. Reached(w) = w.done
  BY <1>1 DEF Reached
<1>10. PICK d : Stands(files, backup, j, w.done, d)
  BY <1>3, <1>9
<1>11. m \in Nat /\ m = w.done + 1 /\ m \in DOMAIN j.entries /\ m \in DOMAIN w.ops
       /\ 1..m = 1..w.done \cup {m}
  BY <1>3 DEF m
<1>12. ASSUME Held(w, op.path) PROVE Stands(f, backup, j, m, d)
  <2>1. DataIn(files, op.path) = op.before /\ op.path \in Path
    BY <1>2, <1>3, <1>12 DEF Held, AsSeen, DataIn, op, OpType
  <2>2. d[op.path] = op.before
    <3>1. CASE \A k \in 1..w.done : j.entries[k].path # op.path
      BY <1>10, <2>1, <3>1 DEF Stands
    <3>2. ASSUME NEW k \in 1..w.done, j.entries[k].path = op.path PROVE d[op.path] = op.before
      <4>1. d[j.entries[k].path] = j.entries[k].before /\ k \in DOMAIN j.entries
        BY <1>10 DEF Stands
      <4>2. j.entries[k].before = op.before
        BY <1>3, <1>11, <3>2, <4>1 DEF LogType, Single
      <4> QED
        BY <3>2, <4>1, <4>2
    <3> QED
      BY <3>1, <3>2
  <2>3. AllFit(d) /\ 1..m \subseteq DOMAIN j.entries
    BY <1>10, <1>11 DEF Stands
  <2>4. \A k \in 1..m : d[j.entries[k].path] = j.entries[k].before
    BY <1>3, <1>10, <1>11, <2>2 DEF Stands
  <2>5. \A q \in Path : (\A k \in 1..m : j.entries[k].path # q) => d[q] = DataIn(f, q)
    <3> SUFFICES ASSUME NEW q \in Path, \A k \in 1..m : j.entries[k].path # q
                 PROVE  d[q] = DataIn(f, q)
      OBVIOUS
    <3>1. q # op.path /\ \A k \in 1..w.done : j.entries[k].path # q
      BY <1>3, <1>11
    <3> QED
      BY <1>6, <1>10, <3>1 DEF Stands
  <2>6. \A k \in DOMAIN j.entries :
          (\A i \in DOMAIN j.entries : i <= m + 1 => j.entries[i].path # j.entries[k].path) =>
            Unclaimed(j.entries[k], backup[j.call])
    <3>1. \A i \in DOMAIN j.entries : i <= w.done + 1 => i <= m + 1
      BY <1>3, <1>11
    <3> QED
      BY <1>10, <3>1 DEF Stands
  <2> QED
    BY <1>11, <2>3, <2>4, <2>5, <2>6 DEF Stands
<1>13. Led(v, f, j, m)
  <2>1. ASSUME NEW k \in 1..m PROVE DataIn(f, v.ops[k].path) = v.ops[k].after
    <3>1. k \in DOMAIN w.ops /\ w.ops[k].path \in Path
      <4>1. k \in DOMAIN w.ops
        BY <1>3, <1>11
      <4> QED
        BY <1>4, <4>1 DEF ApplyType, OpsType, OpType
    <3>2. CASE w.ops[k].path = op.path
      BY <1>3, <1>6, <1>8, <1>11, <3>1, <3>2 DEF Single
    <3>3. CASE w.ops[k].path # op.path
      <4>1. k \in 1..w.done
        BY <1>3, <1>11, <3>3
      <4>2. DataIn(files, w.ops[k].path) = w.ops[k].after
        BY <1>3, <1>9, <4>1 DEF DataAt
      <4> QED
        BY <1>6, <1>8, <3>1, <3>3, <4>2
    <3> QED
      BY <3>2, <3>3
  <2>2. j = v.log
    BY <1>3, <1>8
  <2> QED
    BY <1>8, <2>1, <2>2, GoesLed
<1>14. w.done <= m
  BY <1>3, <1>11
<1>15. Held(w, op.path) =>
         /\ v.pc \in ApplyStep \ {"begin"} /\ v.call = work[p].call
         /\ \A q \in Proc : q # p => ~Busy(work[q])
         /\ \A c \in 1..MaxCalls : c # work[p].call => backup[c] = backup[c]
         /\ j # None /\ j.call = work[p].call /\ Matches(work[p].ops, j) /\ Sound(j.entries)
         /\ \E n, e : Stands(f, backup, j, n, e) /\ Led(v, f, j, n) /\ work[p].done <= n
  BY <1>3, <1>8, <1>12, <1>13, <1>14 DEF w, ApplyStep, MidStep
<1>16. work[p].pc \in MidStep \cup {"begin"}
  BY <1>2 DEF w
<1> QED
  BY <1>1, <1>15, <1>16, DiskFit

LEMMA ConfirmFit ==
  ASSUME IInv, Types, Fit, NEW p \in Proc, Applying(work[p]), Confirm(p) PROVE Fit'
<1> DEFINE w == work[p]
           j == journal
           path == Current(w).path
           log == Marked(w.log, path, "confirmed", w.call)
           u == [w EXCEPT !.log = log]
           v == Advanced(u)
           allowed == LogHeld(w) /\ Held(w, path)
           m == w.done + 1
<1>1. w.pc = "confirm" /\ DiskStep(p, allowed, files, backup, log, v)
  BY DEF Confirm
<1>2. w.pc \in MidStep /\ Applying(w)
  BY <1>1 DEF MidStep
<1>3. /\ j # None /\ j = w.log /\ j.call = w.call /\ Log(j)
      /\ Matches(w.ops, j) /\ LogType(j, calls) /\ Sound(j.entries)
      /\ \A q \in Proc : q # p => ~Busy(work[q])
      /\ \E d : Stands(files, backup, j, Reached(w), d)
      /\ \A k \in 1..Reached(w) : DataAt(w.ops[k].path) = w.ops[k].after
      /\ w.done \in Nat /\ Len(w.ops) \in Nat /\ m <= Len(w.ops)
      /\ DOMAIN j.entries = 1..Len(w.ops)
      /\ j.entries[m].path = path /\ j.entries[m].before = Current(w).before
  BY <1>2, MidFacts
<1>4. ApplyType(w, calls) /\ w.call \in 1..MaxCalls
  BY <1>2, ApplyingType
<1>5. u = [pc |-> w.pc, call |-> w.call, ops |-> w.ops, held |-> w.held,
           log |-> log, done |-> w.done, back |-> w.back]
  <2>1. w = [pc |-> w.pc, call |-> w.call, ops |-> w.ops, held |-> w.held, log |-> w.log,
             done |-> w.done, back |-> w.back]
    BY <1>2 DEF Applying
  <2> HIDE DEF w, log
  <2> QED
    BY <2>1
<1> HIDE DEF w, j, path, m
<1>6. log = Marked(j, path, "confirmed", w.call)
  BY <1>3
<1> HIDE DEF log, u
<1>7. m \in DOMAIN j.entries /\ m = w.done + 1 /\ m \in Nat
  BY <1>3 DEF m
<1>8. log.call = w.call /\ Log(log) /\ Matches(w.ops, log) /\ log # None /\ LogType(log, calls)
  <2>1. j.entries[m].before = None
    BY <1>1, <1>3, <1>4 DEF ApplyType
  <2>2. LogType(log, calls)
    BY <1>3, <1>6, <1>7, <2>1, MarkedType
  <2>3. log.call = j.call /\ Log(log) /\ Matches(w.ops, log)
    BY <1>3, <1>6, MarkedLog, MarkedMatches
  <2> QED
    BY <1>3, <2>2, <2>3, NoneIsNothing DEF LogType
<1>9. /\ u.pc = "confirm" /\ u.call = w.call /\ u.ops = w.ops
      /\ u.log = log /\ u.done = w.done
      /\ u = [pc |-> u.pc, call |-> u.call, ops |-> u.ops, held |-> u.held, log |-> u.log,
              done |-> u.done, back |-> u.back]
  BY <1>1, <1>5
<1>10. /\ v.pc \in {"copy", "attempt", "complete"} /\ v.call = w.call /\ v.ops = w.ops
       /\ v.log = log /\ Reached(v) = m
  <2>1. Current(u) = Current(w) /\ u.done \in Nat /\ u.pc \in MidStep
    BY <1>3, <1>9 DEF Current, MidStep
  <2>2. ApplyType(u, calls)
    BY <1>1, <1>4, <1>8, <1>9, <2>1 DEF ApplyType, MidStep
  <2> QED
    BY <1>7, <1>9, <2>1, <2>2, AdvancedReached
<1> HIDE DEF v
<1>11. Reached(w) = m
  BY <1>1, <1>7 DEF Reached
<1>12. PICK d : Stands(files, backup, j, m, d)
  BY <1>3, <1>11
<1>13. Stands(files, backup, log, m, d) /\ Sound(log.entries)
  <2>1. \E i \in DOMAIN j.entries : i <= m + 1 /\ j.entries[i].path = path
    BY <1>3, <1>7
  <2>2. /\ Stands(files, backup, Marked(j, path, "confirmed", w.call), m, d)
        /\ Sound(j.entries) => Sound(Marked(j, path, "confirmed", w.call).entries)
    BY <1>3, <1>12, <2>1, MarkedStands
  <2> QED
    BY <1>3, <1>6, <2>2
<1>14. Led(v, files, log, m)
  <2>1. \A k \in 1..Reached(v) : DataIn(files, v.ops[k].path) = v.ops[k].after
    BY <1>3, <1>10, <1>11 DEF DataAt
  <2>2. v.pc \in MidStep \cup {"complete"} /\ log = v.log
    BY <1>10 DEF MidStep
  <2> QED
    BY <1>10, <2>1, <2>2, GoesLed
<1>15. w.done <= m
  BY <1>3, <1>7
<1>16. /\ v.pc \in ApplyStep \ {"begin"} /\ v.call = work[p].call
       /\ \A q \in Proc : q # p => ~Busy(work[q])
       /\ \A c \in 1..MaxCalls : c # work[p].call => backup[c] = backup[c]
       /\ log # None /\ log.call = work[p].call /\ Matches(work[p].ops, log) /\ Sound(log.entries)
       /\ \E n, e : Stands(files, backup, log, n, e) /\ Led(v, files, log, n) /\ work[p].done <= n
  BY <1>3, <1>8, <1>10, <1>13, <1>14, <1>15 DEF w, ApplyStep
<1>17. work[p].pc \in MidStep \cup {"begin"}
  BY <1>2 DEF w
<1> HIDE DEF allowed
<1> QED
  BY <1>1, <1>16, <1>17, DiskFit

-----------------------------------------------------------------------------
(* Calls that end, or take back.                                           *)

\* A process that stops and leaves the home alone.
LEMMA IdleFit ==
  ASSUME IInv, Fit, NEW p \in Proc, Becomes(p, Idle),
         files' = files, backup' = backup, journal' = journal
  PROVE  Fit'
<1>1. Idle.pc = "idle"
  BY DEF Idle
<1>2. ~Busy(Idle) /\ Role(Idle, work[p])
  BY <1>1 DEF Busy, Role, MidStep, Recover
<1>3. \A n : Led(Idle, files, journal, n)
  BY <1>2, FreeLed
<1> QED
  BY <1>2, <1>3, SameHome

LEMMA AllFitSame ==
  ASSUME NEW d, AllFit(d), NEW c, \A path \in Path : c[path] = d[path]
  PROVE  AllFit(c)
<1>1. \A h \in Host : /\ <<h, "settings">> \in Path /\ <<h, "wrapper">> \in Path
                      /\ <<h, "ownership">> \in Path /\ <<h, "config">> \in Path
  BY DEF Path, Kind
<1>2. ASSUME NEW h \in Host PROVE FitsIn(c, h)
  BY <1>1 DEF AllFit, FitsIn
<1> QED
  BY <1>2 DEF AllFit

\* Where two homes differ, d is the first and c the second.
LEMMA HomeForward ==
  ASSUME NEW s, AllFit(s), NEW t, AllFit(t), NEW d, AllFit(d), NEW c,
         \A path \in Path :
           \/ s[path] # t[path] /\ d[path] = s[path] /\ c[path] = t[path]
           \/ s[path] = t[path] /\ c[path] = d[path]
  PROVE  AllFit(c)
<1>1. ASSUME NEW h \in Host PROVE FitsIn(c, h)
  <2>1. /\ <<h, "settings">> \in Path /\ <<h, "wrapper">> \in Path
        /\ <<h, "ownership">> \in Path /\ <<h, "config">> \in Path
    BY DEF Path, Kind
  <2>2. FitsIn(s, h) /\ FitsIn(t, h) /\ FitsIn(d, h)
    BY DEF AllFit
  <2> DEFINE s1 == s[<<h, "settings">>]
             s2 == s[<<h, "wrapper">>]
             s3 == s[<<h, "ownership">>]
             s4 == s[<<h, "config">>]
             t1 == t[<<h, "settings">>]
             t2 == t[<<h, "wrapper">>]
             t3 == t[<<h, "ownership">>]
             t4 == t[<<h, "config">>]
             d1 == d[<<h, "settings">>]
             d2 == d[<<h, "wrapper">>]
             d3 == d[<<h, "ownership">>]
             d4 == d[<<h, "config">>]
             c1 == c[<<h, "settings">>]
             c2 == c[<<h, "wrapper">>]
             c3 == c[<<h, "ownership">>]
             c4 == c[<<h, "config">>]
  <2>3. Goes(s1, s2, s3, s4) /\ Goes(t1, t2, t3, t4) /\ Goes(d1, d2, d3, d4)
    BY <2>2 DEF FitsIn
  <2>4. /\ (s1 # t1 /\ d1 = s1 /\ c1 = t1) \/ (s1 = t1 /\ c1 = d1)
        /\ (s2 # t2 /\ d2 = s2 /\ c2 = t2) \/ (s2 = t2 /\ c2 = d2)
        /\ (s3 # t3 /\ d3 = s3 /\ c3 = t3) \/ (s3 = t3 /\ c3 = d3)
        /\ (s4 # t4 /\ d4 = s4 /\ c4 = t4) \/ (s4 = t4 /\ c4 = d4)
    BY <2>1
  <2> HIDE DEF s1, s2, s3, s4, t1, t2, t3, t4, d1, d2, d3, d4, c1, c2, c3, c4
  <2>5. Goes(c1, c2, c3, c4)
    BY <2>3, <2>4, Forward
  <2> QED
    BY <2>5 DEF FitsIn, c1, c2, c3, c4
<1> QED
  BY <1>1 DEF AllFit

\* Where two homes differ, d is one of them, the first except perhaps at x,
\* and c is the first.
LEMMA HomeBackward ==
  ASSUME NEW s, AllFit(s), NEW t, AllFit(t), NEW d, AllFit(d), NEW c, NEW x,
         \A path \in Path :
           \/ /\ s[path] # t[path] /\ d[path] \in {s[path], t[path]} /\ c[path] = s[path]
              /\ path # x => d[path] = s[path]
           \/ s[path] = t[path] /\ c[path] = d[path]
  PROVE  AllFit(c)
<1>1. ASSUME NEW h \in Host PROVE FitsIn(c, h)
  <2>1. /\ <<h, "settings">> \in Path /\ <<h, "wrapper">> \in Path
        /\ <<h, "ownership">> \in Path /\ <<h, "config">> \in Path
    BY DEF Path, Kind
  <2>2. FitsIn(s, h) /\ FitsIn(t, h) /\ FitsIn(d, h)
    BY DEF AllFit
  <2> DEFINE s1 == s[<<h, "settings">>]
             s2 == s[<<h, "wrapper">>]
             s3 == s[<<h, "ownership">>]
             s4 == s[<<h, "config">>]
             t1 == t[<<h, "settings">>]
             t2 == t[<<h, "wrapper">>]
             t3 == t[<<h, "ownership">>]
             t4 == t[<<h, "config">>]
             d1 == d[<<h, "settings">>]
             d2 == d[<<h, "wrapper">>]
             d3 == d[<<h, "ownership">>]
             d4 == d[<<h, "config">>]
             c1 == c[<<h, "settings">>]
             c2 == c[<<h, "wrapper">>]
             c3 == c[<<h, "ownership">>]
             c4 == c[<<h, "config">>]
  <2>3. Goes(s1, s2, s3, s4) /\ Goes(t1, t2, t3, t4) /\ Goes(d1, d2, d3, d4)
    BY <2>2 DEF FitsIn
  <2>4. /\ (s1 # t1 /\ d1 \in {s1, t1} /\ c1 = s1) \/ (s1 = t1 /\ c1 = d1)
        /\ (s2 # t2 /\ d2 \in {s2, t2} /\ c2 = s2) \/ (s2 = t2 /\ c2 = d2)
        /\ (s3 # t3 /\ d3 \in {s3, t3} /\ c3 = s3) \/ (s3 = t3 /\ c3 = d3)
        /\ (s4 # t4 /\ d4 \in {s4, t4} /\ c4 = s4) \/ (s4 = t4 /\ c4 = d4)
    BY <2>1
  <2>5. /\ <<h, "settings">> # <<h, "wrapper">> /\ <<h, "settings">> # <<h, "ownership">>
        /\ <<h, "wrapper">> # <<h, "ownership">>
    OBVIOUS
  <2>6. /\ <<h, "settings">> # x => s1 = t1 \/ d1 = s1
        /\ <<h, "wrapper">> # x => s2 = t2 \/ d2 = s2
        /\ <<h, "ownership">> # x => s3 = t3 \/ d3 = s3
    BY <2>1
  <2> HIDE DEF s1, s2, s3, s4, t1, t2, t3, t4, d1, d2, d3, d4, c1, c2, c3, c4
  <2>7. /\ s1 # t1 /\ s2 # t2 => d1 = s1 \/ d2 = s2
        /\ s1 # t1 /\ s3 # t3 => d1 = s1 \/ d3 = s3
        /\ s2 # t2 /\ s3 # t3 => d2 = s2 \/ d3 = s3
    BY <2>5, <2>6
  <2>8. Goes(c1, c2, c3, c4)
    BY <2>3, <2>4, <2>7, Backward
  <2> QED
    BY <2>8 DEF FitsIn, c1, c2, c3, c4
<1> QED
  BY <1>1 DEF AllFit

\* A call that has published everything leaves a home that fits.
LEMMA PublishedFits ==
  ASSUME IInv, Types, Fit, NEW p \in Proc, work[p].pc = "complete"
  PROVE  AllFit(DataMap) /\ \A q \in Proc : q # p => ~Busy(work[q])
<1> DEFINE w == work[p]
           j == journal
<1>1. Busy(w)
  BY DEF Busy
<1>2. journal # None /\ \A q \in Proc : q # p => ~Busy(work[q])
  BY <1>1, Alone DEF Fit
<1>3. Sound(j.entries) /\ \E n, d : Stands(files, backup, j, n, d) /\ Led(w, files, j, n)
  BY <1>2 DEF Fit
<1>4. PICK n, d : Stands(files, backup, j, n, d) /\ Publishes(w, files, j, n)
  BY <1>3 DEF Led
<1>5. ApplyType(w, calls) /\ LogType(j, calls)
  <2>1. Work(w, backup) /\ WorkType(w, calls)
    BY DEF IInv, Types
  <2> QED
    BY <1>2, <2>1 DEF WorkType, ApplyStep, Types, HomeType
<1>6. /\ j = w.log /\ n = w.done
      /\ \A k \in 1..n : DataIn(files, w.ops[k].path) = w.ops[k].after
  BY <1>4 DEF Publishes, Reached
<1>7. Matches(w.ops, j) /\ DOMAIN w.ops = 1..n /\ DOMAIN j.entries = 1..n
  BY <1>5, <1>6 DEF ApplyType, OpsType, Matches
<1>8. PICK s, t : AllFit(s) /\ AllFit(t) /\ Between(j.entries, s, t)
  BY <1>3 DEF Sound
<1> HIDE DEF w, j
<1>9. \A k \in 1..n : /\ d[j.entries[k].path] = s[j.entries[k].path]
                      /\ DataIn(files, j.entries[k].path) = t[j.entries[k].path]
                      /\ s[j.entries[k].path] # t[j.entries[k].path]
  <2> SUFFICES ASSUME NEW k \in 1..n
               PROVE  /\ d[j.entries[k].path] = s[j.entries[k].path]
                      /\ DataIn(files, j.entries[k].path) = t[j.entries[k].path]
                      /\ s[j.entries[k].path] # t[j.entries[k].path]
    OBVIOUS
  <2>1. /\ d[j.entries[k].path] = j.entries[k].before
        /\ j.entries[k].path = w.ops[k].path /\ j.entries[k].after = w.ops[k].after
        /\ DataIn(files, w.ops[k].path) = w.ops[k].after
        /\ j.entries[k].before # j.entries[k].after
    BY <1>4, <1>5, <1>6, <1>7 DEF Stands, Matches, LogType, OpType
  <2>2. j.entries[k].before = s[j.entries[k].path] /\ j.entries[k].after = t[j.entries[k].path]
    BY <1>7, <1>8 DEF Between
  <2> QED
    BY <2>1, <2>2
<1>10. ASSUME NEW path \in Path
       PROVE  \/ s[path] # t[path] /\ d[path] = s[path] /\ DataMap[path] = t[path]
              \/ s[path] = t[path] /\ DataMap[path] = d[path]
  <2>1. DataMap[path] = DataIn(files, path)
    BY DEF DataMap, DataAt
  <2>2. CASE \E k \in 1..n : j.entries[k].path = path
    BY <1>9, <2>1, <2>2
  <2>3. CASE \A k \in 1..n : j.entries[k].path # path
    <3>1. d[path] = DataIn(files, path)
      BY <1>4, <2>3 DEF Stands
    <3>2. s[path] = t[path]
      BY <1>7, <1>8, <2>3 DEF Between
    <3> QED
      BY <2>1, <3>1, <3>2
  <2> QED
    BY <2>2, <2>3
<1>11. AllFit(d)
  BY <1>4 DEF Stands
<1>12. AllFit(DataMap)
  <2> DEFINE c == DataMap
  <2> HIDE DEF c
  <2>1. \A path \in Path :
           \/ s[path] # t[path] /\ d[path] = s[path] /\ c[path] = t[path]
           \/ s[path] = t[path] /\ c[path] = d[path]
    BY <1>10 DEF c
  <2>2. AllFit(c)
    BY <1>8, <1>11, <2>1, HomeForward
  <2> QED
    BY <2>2 DEF c
<1> QED
  BY <1>2, <1>12

LEMMA CompleteFit ==
  ASSUME IInv, Types, Fit, NEW p \in Proc, Complete(p) PROVE Fit'
<1>1. /\ work[p].pc = "complete" /\ Becomes(p, Idle)
      /\ journal' = None \/ journal' = journal
      /\ files' = files /\ backup' = backup
  BY DEF Complete
<1>2. CASE journal' = journal
  BY <1>1, <1>2, IdleFit
<1>3. CASE journal' = None
  <2>1. AllFit(DataMap) /\ \A q \in Proc : q # p => ~Busy(work[q])
    BY <1>1, PublishedFits
  <2>2. DataMap' = DataMap
    BY <1>1 DEF DataMap, DataAt
  <2>3. Idle.pc = "idle"
    BY DEF Idle
  <2>4. ~Busy(Idle) /\ Role(Idle, work[p])
    BY <2>3 DEF Busy, Role, MidStep, Recover
  <2> QED
    BY <1>1, <1>3, <2>1, <2>2, <2>4, OwnHome
<1> QED
  BY <1>1, <1>2, <1>3

\* What a call that takes back knows.
LEMMA BackFacts ==
  ASSUME IInv, Types, Fit, NEW p \in Proc, Applying(work[p]),
         work[p].pc \in {"rollback", "takeback"}, work[p].done > 0
  PROVE  LET w == work[p]
         IN  /\ journal # None /\ journal.call = w.call /\ Log(journal) /\ LogType(journal, calls)
             /\ Matches(w.ops, journal) /\ Sound(journal.entries)
             /\ \A q \in Proc : q # p => ~Busy(work[q])
             /\ \E n, d : Stands(files, backup, journal, n, d) /\ w.done <= n
             /\ ApplyType(w, calls) /\ -w.call \in Writer
<1> DEFINE w == work[p]
<1>1. Busy(w)
  BY DEF Busy
<1>2. journal # None /\ \A q \in Proc : q # p => ~Busy(work[q])
  BY <1>1, Alone DEF Fit
<1>3. Sound(journal.entries) /\ \E n, d : Stands(files, backup, journal, n, d) /\ Led(w, files, journal, n)
  BY <1>2 DEF Fit
<1>4. Log(journal) /\ LogType(journal, calls)
  BY <1>2 DEF IInv, Home, Types, HomeType
<1>5. ApplyType(w, calls) /\ -w.call \in Writer
  BY ApplyingType
<1> QED
  BY <1>2, <1>3, <1>4, <1>5 DEF Led, TakesBack

\* A call that takes back goes on taking back.
LEMMA BackLed ==
  ASSUME NEW v, NEW w, v.pc \in {"rollback", "takeback"}, v.call = w.call, v.ops = w.ops,
         v.done = w.done, w.pc \in {"rollback", "takeback"}
  PROVE  /\ Role(v, w) /\ (Busy(v) => Busy(w))
         /\ \A f, j, n : j.call = w.call /\ Matches(w.ops, j) /\ w.done <= n => Led(v, f, j, n)
         /\ \A f, j, n : Led(w, f, j, n) => Led(v, f, j, n)
<1>1. Role(v, w) /\ (Busy(v) => Busy(w))
  BY DEF Role, Busy, ApplyStep, MidStep, Recover
<1>2. \A f, j, n : Publishes(v, f, j, n) /\ Restores(v, f, j, n)
  BY DEF Publishes, Restores, MidStep, Recover
<1>3. \A j, n : j.call = w.call /\ Matches(w.ops, j) /\ w.done <= n => TakesBack(v, j, n)
  BY DEF TakesBack
<1>4. \A j, n : TakesBack(w, j, n) => TakesBack(v, j, n)
  BY DEF TakesBack
<1> QED
  BY <1>1, <1>2, <1>3, <1>4 DEF Led

LEMMA RevokeFit ==
  ASSUME IInv, Types, Fit, NEW p \in Proc, Applying(work[p]), Revoke(p) PROVE Fit'
<1> DEFINE w == work[p]
           j == journal
           path == w.ops[w.back].path
           log == Marked(w.log, path, "revoked", None)
           u == [w EXCEPT !.log = log, !.pc = "takeback"]
<1>1. /\ w.pc = "rollback" /\ w.back <= w.done
      /\ files' = files /\ backup' = backup
      /\ \/ LogHeld(w) /\ journal' = log /\ Becomes(p, u)
         \/ /\ LogHeld(w) /\ journal' = log
            /\ \E seen \in {w.log, log} : Becomes(p, NextBack([w EXCEPT !.log = seen]))
         \/ Becomes(p, NextBack(w)) /\ journal' = j
  BY DEF Revoke, Skip
<1>2. Applying(w) /\ w.back > 0 /\ w.done > 0
  BY <1>1 DEF Applying
<1>3. /\ j # None /\ j.call = w.call /\ Log(j) /\ LogType(j, calls)
      /\ Matches(w.ops, j) /\ Sound(j.entries)
      /\ \A q \in Proc : q # p => ~Busy(work[q])
      /\ \E n, d : Stands(files, backup, j, n, d) /\ w.done <= n
  BY <1>1, <1>2, BackFacts
<1>4. Took(u, w, "takeback", log, w.done)
  <2> HIDE DEF w, log
  <2> QED
    BY <1>2, WentOn
<1>5. PICK v, l : /\ Becomes(p, v) /\ Took(v, w, v.pc, l, w.done) /\ v.pc \in {"rollback", "takeback"}
                  /\ \/ LogHeld(w) /\ journal' = log
                     \/ journal' = j
  <2>1. CASE LogHeld(w) /\ journal' = log /\ Becomes(p, u)
    <3>1. u.pc = "takeback"
      BY <1>4 DEF Took
    <3> HIDE DEF u, log, w
    <3> QED
      BY <1>4, <2>1, <3>1
  <2>2. ASSUME NEW seen, LogHeld(w), journal' = log, Becomes(p, NextBack([w EXCEPT !.log = seen]))
        PROVE  \E v, l : /\ Becomes(p, v) /\ Took(v, w, v.pc, l, w.done) /\ v.pc \in {"rollback", "takeback"}
                         /\ \/ LogHeld(w) /\ journal' = log
                            \/ journal' = j
    <3> DEFINE v == NextBack([w EXCEPT !.log = seen])
    <3>1. Took(v, w, "rollback", seen, w.done)
      BY <1>2, WentBack
    <3>2. v.pc = "rollback" /\ Becomes(p, v)
      BY <2>2, <3>1 DEF Took
    <3> HIDE DEF v, log, w
    <3> QED
      BY <2>2, <3>1, <3>2
  <2>3. CASE Becomes(p, NextBack(w)) /\ journal' = j
    <3> DEFINE v == NextBack(w)
    <3>1. Took(v, w, "rollback", w.log, w.done)
      BY <1>2, WentBack
    <3>2. v.pc = "rollback" /\ Becomes(p, v)
      BY <2>3, <3>1 DEF Took
    <3> HIDE DEF v, log, w
    <3> QED
      BY <2>3, <3>1, <3>2
  <2> QED
    BY <1>1, <2>1, <2>2, <2>3
<1>6. /\ Role(v, w) /\ (Busy(v) => Busy(w))
      /\ \A f, i, n : i.call = w.call /\ Matches(w.ops, i) /\ w.done <= n => Led(v, f, i, n)
      /\ \A f, i, n : Led(w, f, i, n) => Led(v, f, i, n)
  <2>1. v.call = w.call /\ v.ops = w.ops /\ v.done = w.done
    BY <1>5 DEF Took
  <2> HIDE DEF w
  <2> QED
    BY <1>1, <1>5, <2>1, BackLed
<1>7. CASE journal' = j
  BY <1>1, <1>5, <1>6, <1>7, SameHome
<1>8. CASE LogHeld(w) /\ journal' = log
  <2> HIDE DEF w, path, u
  <2>1. log = Marked(j, path, "revoked", None)
    BY <1>8 DEF LogHeld
  <2> HIDE DEF log, j
  <2>2. log # None /\ log.call = w.call /\ Matches(w.ops, log)
    <3>1. log \in Journal
      BY <1>3, <2>1, MarkedJournal DEF LogType
    <3> QED
      BY <1>3, <2>1, <3>1, MarkedLog, MarkedMatches, NoneIsNothing
  <2>3. PICK n, d : Stands(files, backup, j, n, d) /\ w.done <= n
    BY <1>3
  <2>4. Stands(files, backup, log, n, d) /\ Sound(log.entries)
    BY <1>3, <2>1, <2>3, MarkedStands
  <2>5. Led(v, files, log, n)
    BY <1>6, <2>2, <2>3
  <2>6. \A q \in Proc : q # p => ~Busy(work[q])
    BY <1>3
  <2>7. Role(v, work[p])
    BY <1>6 DEF w
  <2> QED
    BY <1>1, <1>5, <1>8, <2>2, <2>4, <2>5, <2>6, <2>7, OwnHome
<1> QED
  BY <1>5, <1>7, <1>8

LEMMA TakeBackFit ==
  ASSUME IInv, Types, Fit, NEW p \in Proc, Applying(work[p]), TakeBack(p) PROVE Fit'
<1> DEFINE w == work[p]
           j == journal
           op == w.ops[w.back]
           new == NewFile(op.before, -w.call)
           f == [files EXCEPT ![op.path] = new]
           v == NextBack(w)
<1>1. /\ w.pc \in {"rollback", "takeback"} /\ Becomes(p, v)
      /\ w.pc = "takeback" \/ w.back <= w.done
      /\ files' = f \/ files' = files
      /\ backup' = backup /\ journal' = j
  BY DEF TakeBack, Skip
<1>2. Applying(w) /\ w.back \in Nat /\ w.back > 0 /\ w.back <= w.done /\ w.done > 0 /\ w.done \in Nat
  BY <1>1 DEF Applying
<1>3. /\ j # None /\ j.call = w.call /\ Log(j) /\ LogType(j, calls)
      /\ Matches(w.ops, j) /\ Sound(j.entries)
      /\ \A q \in Proc : q # p => ~Busy(work[q])
      /\ \E n, d : Stands(files, backup, j, n, d) /\ w.done <= n
      /\ ApplyType(w, calls) /\ -w.call \in Writer
  BY <1>1, <1>2, BackFacts
<1>4. Took(v, w, "rollback", w.log, w.done)
  BY <1>2, WentBack
<1> HIDE DEF w, v, j
<1>5. v.pc = "rollback" /\ v.call = w.call /\ v.ops = w.ops /\ v.done = w.done
  BY <1>4 DEF Took
<1>6. /\ Role(v, w) /\ (Busy(v) => Busy(w))
      /\ \A g, i, n : i.call = w.call /\ Matches(w.ops, i) /\ w.done <= n => Led(v, g, i, n)
      /\ \A g, i, n : Led(w, g, i, n) => Led(v, g, i, n)
  BY <1>1, <1>5, BackLed
<1>7. CASE files' = files
  BY <1>1, <1>6, <1>7, SameHome DEF w, j
<1>8. CASE files' = f
  <2>1. PICK n, d : Stands(files, backup, j, n, d) /\ w.done <= n
    BY <1>3
  <2>2. n \in Nat /\ w.back \in 1..n /\ w.back \in DOMAIN j.entries
    BY <1>2, <2>1 DEF Stands
  <2>3. j.entries[w.back].path = op.path /\ op.path \in Path /\ May(op.path, op.before)
    <3>1. w.back \in DOMAIN w.ops
      BY <1>3, <2>2 DEF Matches
    <3> QED
      BY <1>3, <3>1 DEF Matches, ApplyType, OpsType, OpType
  <2>4. f[op.path] = new /\ \A q \in Path : q # op.path => f[q] = files[q]
    <3>1. DOMAIN files = Path
      BY DEF IInv, Home
    <3> HIDE DEF new, op
    <3> QED
      BY <2>3, <3>1
  <2> HIDE DEF f, op
  <2>5. \A q \in Path : q # op.path => DataIn(f, q) = DataIn(files, q)
    BY <2>4 DEF DataIn
  <2>6. Stands(f, backup, j, n, d)
    <3>1. \A q \in Path : (\A k \in 1..n : j.entries[k].path # q) => d[q] = DataIn(f, q)
      <4> SUFFICES ASSUME NEW q \in Path, \A k \in 1..n : j.entries[k].path # q
                   PROVE  d[q] = DataIn(f, q)
        OBVIOUS
      <4>1. q # op.path
        BY <2>2, <2>3
      <4>2. d[q] = DataIn(files, q)
        BY <2>1 DEF Stands
      <4> QED
        BY <2>5, <4>1, <4>2
    <3> QED
      BY <2>1, <3>1 DEF Stands
  <2>7. Led(v, f, j, n)
    BY <1>3, <1>6, <2>1
  <2>8. \A q \in Proc : q # p => ~Busy(work[q])
    BY <1>3
  <2>9. Role(v, work[p]) /\ j # None /\ Sound(j.entries)
    BY <1>3, <1>6 DEF w
  <2> QED
    BY <1>1, <1>8, <2>6, <2>7, <2>8, <2>9, OwnHome
<1> QED
  BY <1>1, <1>7, <1>8

-----------------------------------------------------------------------------
(* Calls that begin, and recovery.                                         *)

LEMMA StartApplyFit ==
  ASSUME IInv, Types, Fit, NEW p \in Proc, StartApply(p) PROVE Fit'
<1>1. PICK request \in Request :
        /\ Admissible(request) /\ Plan(request) # <<>>
        /\ Becomes(p, [pc |-> "begin", call |-> calls + 1, ops |-> Plan(request),
                       held |-> files, log |-> None, done |-> 0, back |-> 0])
  BY DEF StartApply
<1> DEFINE ops == Plan(request)
           v == [pc |-> "begin", call |-> calls + 1, ops |-> ops,
                 held |-> files, log |-> None, done |-> 0, back |-> 0]
<1>2. Becomes(p, v) /\ v.pc = "begin" /\ v.call = calls + 1 /\ v.ops = ops /\ v.log = None
  BY <1>1
<1>3. /\ calls < MaxCalls /\ journal = None
      /\ files' = files /\ backup' = backup /\ journal' = journal
  BY DEF StartApply, home, NothingPending
<1>4. AllFit(DataMap) /\ \A q \in Proc : ~Busy(work[q])
  BY <1>3 DEF Fit
<1>5. Sound(ops)
  <2>1. Between(ops, DataMap, TargetMap(request)) /\ AllFit(TargetMap(request))
    BY <1>1, <1>4, PlanLeads
  <2> QED
    BY <1>4, <2>1 DEF Sound
<1> HIDE DEF v, ops
<1>6. Unborn(v, backup)
  <2>1. calls + 1 \in 1..MaxCalls /\ calls + 1 > calls
    BY <1>3, InstallBounds DEF Types
  <2>2. \A path \in Path : backup[calls + 1][path] = None
    BY <2>1 DEF Types, HomeType, BackupType
  <2> QED
    BY <1>2, <1>5, <2>2 DEF Unborn
<1>7. work'[p] = v /\ \A q \in Proc : q # p => work'[q] = work[q]
  BY <1>2 DEF IInv, Becomes
<1>8. ASSUME NEW q \in Proc, q # p PROVE Apart(v, work[q]) /\ Apart(work[q], v)
  <2>1. work[q].pc \notin Recover
    BY <1>4 DEF Busy
  <2>2. work[q].pc \in ApplyStep => work[q].call \in 1..calls
    BY DEF Types, WorkType, ApplyType
  <2>3. work[q].call \in 1..calls => work[q].call # calls + 1
    BY DEF IInv
  <2> QED
    BY <1>2, <2>1, <2>2, <2>3 DEF Apart, Recover
<1>9. ~Busy(v)
  BY <1>2 DEF Busy, MidStep, Recover
<1>10. DataMap' = DataMap
  BY <1>3 DEF DataMap, DataAt
<1>11. \A q, r \in Proc : q # r => Apart(work'[q], work'[r])
  BY <1>7, <1>8 DEF Fit
<1>12. \A q \in Proc : Unborn(work'[q], backup') /\ ~Busy(work'[q])
  BY <1>3, <1>4, <1>6, <1>7, <1>9 DEF Fit
<1> QED
  BY <1>3, <1>4, <1>10, <1>11, <1>12 DEF Fit

\* The home before the whole transaction, when recovery does not refuse.
LEMMA RecoverableStands ==
  ASSUME Types, Fit, journal # None, Conflicts = {}, NEW m \in Nat, DOMAIN journal.entries = 1..m
  PROVE  \E c : Stands(files, backup, journal, m, c)
<1> DEFINE j == journal
           e(k) == j.entries[k]
<1>1. /\ LogType(j, calls) /\ Sound(j.entries)
      /\ \E n, d : Stands(files, backup, j, n, d)
  BY DEF Types, HomeType, Fit
<1>2. PICK n, d : Stands(files, backup, j, n, d)
  BY <1>1
<1>3. PICK s, t : AllFit(s) /\ AllFit(t) /\ Between(j.entries, s, t)
  BY <1>1 DEF Sound
<1>4. ASSUME NEW k \in 1..m
      PROVE  /\ e(k).path \in Path
             /\ e(k).before = s[e(k).path] /\ e(k).after = t[e(k).path]
             /\ s[e(k).path] # t[e(k).path]
  BY <1>1, <1>3 DEF LogType, OpType, Between
<1>5. ASSUME NEW k \in 1..m
      PROVE  /\ DataAt(e(k).path) \in {e(k).before, e(k).after}
             /\ Unclaimed(e(k), backup[j.call]) => DataAt(e(k).path) = e(k).before
  <2>1. ~Refuses(j, j.entries[k])
    BY DEF Conflicts
  <2> QED
    BY <2>1 DEF Refuses, InDoubt, Unclaimed
<1> DEFINE x == j.entries[n + 1].path
           c == [path \in Path |-> IF \E k \in 1..m : e(k).path = path THEN s[path] ELSE d[path]]
<1>6. n \in Nat /\ AllFit(d) /\ 1..n \subseteq 1..m
  BY <1>2 DEF Stands
<1>7. ASSUME NEW path \in Path
      PROVE  \/ /\ s[path] # t[path] /\ d[path] \in {s[path], t[path]} /\ c[path] = s[path]
                /\ path # x => d[path] = s[path]
             \/ s[path] = t[path] /\ c[path] = d[path]
  <2>1. CASE \A k \in 1..m : e(k).path # path
    <3>1. s[path] = t[path]
      BY <1>3, <2>1 DEF Between
    <3>2. c[path] = d[path]
      BY <2>1
    <3> QED
      BY <3>1, <3>2
  <2>2. ASSUME NEW k \in 1..m, e(k).path = path
        PROVE  /\ s[path] # t[path] /\ d[path] \in {s[path], t[path]} /\ c[path] = s[path]
               /\ path # x => d[path] = s[path]
    <3>1. s[path] # t[path] /\ c[path] = s[path] /\ e(k).before = s[path] /\ e(k).after = t[path]
      BY <1>4, <2>2
    <3> HIDE DEF c
    <3>2. ASSUME NEW i \in 1..n, e(i).path = path PROVE d[path] = s[path]
      <4>1. d[j.entries[i].path] = j.entries[i].before
        BY <1>2 DEF Stands
      <4>2. i \in 1..m
        BY <1>6
      <4> QED
        BY <1>4, <3>2, <4>1, <4>2
    <3>3. ASSUME \A i \in 1..n : e(i).path # path
          PROVE  /\ d[path] \in {s[path], t[path]}
                 /\ path # x => d[path] = s[path]
      <4>1. d[path] = DataAt(path)
        BY <1>2, <3>3 DEF Stands, DataAt
      <4>2. d[path] \in {s[path], t[path]}
        BY <1>5, <2>2, <3>1, <4>1
      <4>3. ASSUME path # x PROVE d[path] = s[path]
        <5>1. ASSUME NEW i \in 1..m, i <= n + 1 PROVE e(i).path # path
          <6>1. i \in 1..n \/ i = n + 1
            BY <1>6, <5>1
          <6> QED
            BY <3>3, <4>3, <6>1
        <5>2. \A i \in DOMAIN j.entries : i <= n + 1 => j.entries[i].path # j.entries[k].path
          BY <2>2, <5>1
        <5>3. Unclaimed(e(k), backup[j.call])
          BY <1>2, <5>2 DEF Stands
        <5> QED
          BY <1>5, <2>2, <3>1, <4>1, <5>3
      <4> QED
        BY <4>2, <4>3
    <3> QED
      BY <3>1, <3>2, <3>3
  <2> QED
    BY <2>1, <2>2
<1>8. \A path \in Path : /\ (\E k \in 1..m : e(k).path = path) => c[path] = s[path]
                         /\ (\A k \in 1..m : e(k).path # path) => c[path] = d[path]
  OBVIOUS
<1> HIDE DEF c, x
<1>9. AllFit(c)
  BY <1>3, <1>6, <1>7, HomeBackward
<1>10. \A k \in 1..m : c[j.entries[k].path] = j.entries[k].before
  BY <1>4, <1>8
<1>11. ASSUME NEW path \in Path, \A k \in 1..m : j.entries[k].path # path
       PROVE  c[path] = DataIn(files, path)
  <2>1. \A k \in 1..n : j.entries[k].path # path
    BY <1>6, <1>11
  <2> QED
    BY <1>2, <1>8, <1>11, <2>1 DEF Stands
<1>12. ASSUME NEW k \in DOMAIN j.entries,
              \A i \in DOMAIN j.entries : i <= m + 1 => j.entries[i].path # j.entries[k].path
       PROVE  FALSE
  BY <1>12
<1>13. Stands(files, backup, j, m, c)
  BY <1>9, <1>10, <1>11, <1>12 DEF Stands
<1> QED
  BY <1>13

LEMMA StartRecoverFit ==
  ASSUME IInv, Types, Fit, NEW p \in Proc, StartRecover(p), ~overtaken' PROVE Fit'
<1> DEFINE v == [pc |-> "disown", log |-> journal, held |-> files,
                 saved |-> backup[journal.call], done |-> 0]
           j == journal
<1>1. /\ journal # None /\ Becomes(p, v) /\ Conflicts = {}
      /\ files' = files /\ backup' = backup /\ journal' = j
      /\ \A q \in Proc : work[q].pc = "idle"
  BY DEF StartRecover, home, Working
<1>2. /\ v.pc = "disown" /\ v.log = j /\ v.held = files /\ v.saved = backup[j.call] /\ v.done = 0
  OBVIOUS
<1>3. LogType(j, calls) /\ Sound(j.entries)
  BY <1>1 DEF Types, HomeType, Fit
<1>4. PICK m \in Nat : DOMAIN j.entries = 1..m
  BY <1>3 DEF LogType
<1>5. PICK c : Stands(files, backup, j, m, c)
  BY <1>1, <1>4, RecoverableStands
<1>6. work'[p] = v /\ \A q \in Proc : q # p => work'[q] = work[q]
  BY <1>1 DEF IInv, Becomes
<1> HIDE DEF v
<1>7. Led(v, files, j, m)
  <2>1. ASSUME NEW k \in 1..m
        PROVE  LET e == v.log.entries[k]
               IN  /\ k \notin Undone(v) \/ k <= v.done => DataIn(files, e.path) = e.before
                   /\ k \in Undone(v) /\ e.before # None => v.saved[e.path] = e.before
    <3> DEFINE e == v.log.entries[k]
    <3>1. ~Refuses(j, e)
      BY <1>1, <1>2, <1>4 DEF Conflicts
    <3>2. k \in Undone(v) <=> DataAt(e.path) = e.after
      BY <1>2, <1>4 DEF Undone, DataAt
    <3>3. ~(k <= v.done)
      BY <1>2
    <3> QED
      BY <1>2, <3>1, <3>2, <3>3 DEF Refuses, DataAt
  <2>2. Restores(v, files, j, m)
    BY <1>2, <1>4, <2>1 DEF Restores
  <2>3. Publishes(v, files, j, m) /\ TakesBack(v, j, m)
    BY <1>2 DEF Publishes, TakesBack, MidStep
  <2> QED
    BY <2>2, <2>3 DEF Led
<1>8. \A q \in Proc : q # p => Led(work[q], files, j, m)
  <2>1. \A q \in Proc : ~Busy(work[q])
    BY <1>1 DEF Busy, MidStep, Recover
  <2> QED
    BY <2>1, FreeLed
<1>9. \A q \in Proc : q # p => Apart(v, work[q]) /\ Apart(work[q], v)
  BY <1>1, <1>2 DEF Apart, ApplyStep, Recover
<1>10. \A q, r \in Proc : q # r => Apart(work'[q], work'[r])
  BY <1>6, <1>9 DEF Fit
<1>11. \A q \in Proc : Unborn(work'[q], backup')
  <2>1. Unborn(v, backup)
    BY <1>2 DEF Unborn
  <2> QED
    BY <1>1, <1>6, <2>1 DEF Fit
<1>12. \A q \in Proc : Led(work'[q], files', journal', m)
  BY <1>1, <1>6, <1>7, <1>8
<1> QED
  BY <1>1, <1>3, <1>5, <1>10, <1>11, <1>12 DEF Fit

\* What a recovery knows.
LEMMA RecoverFacts ==
  ASSUME IInv, Types, Fit, NEW p \in Proc, Recovering(work[p])
  PROVE  LET w == work[p]
         IN  /\ journal # None /\ journal = w.log /\ Log(journal) /\ LogType(journal, calls)
             /\ Sound(journal.entries) /\ w.pc \in Recover
             /\ \A q \in Proc : q # p => ~Busy(work[q])
             /\ \E n, d : /\ Stands(files, backup, journal, n, d) /\ n \in Nat
                          /\ DOMAIN journal.entries = 1..n /\ Restores(w, files, journal, n)
<1> DEFINE w == work[p]
<1>1. w.pc \in Recover /\ Busy(w)
  BY DEF Busy, Recover, Recovering
<1>2. journal # None /\ \A q \in Proc : q # p => ~Busy(work[q])
  BY <1>1, Alone DEF Fit
<1>3. Sound(journal.entries) /\ \E n, d : Stands(files, backup, journal, n, d) /\ Led(w, files, journal, n)
  BY <1>2 DEF Fit
<1>4. Log(journal) /\ LogType(journal, calls)
  BY <1>2 DEF IInv, Home, Types, HomeType
<1>5. PICK n, d : Stands(files, backup, journal, n, d) /\ Restores(w, files, journal, n)
  BY <1>3 DEF Led
<1>6. journal = w.log /\ DOMAIN journal.entries = 1..n /\ n \in Nat
  BY <1>1, <1>5 DEF Restores, Stands
<1> QED
  BY <1>1, <1>2, <1>3, <1>4, <1>5, <1>6

\* What leads a recovery that goes on.
LEMMA RestoresLed ==
  ASSUME NEW v, NEW w, v.pc \in Recover, w.pc \in Recover, NEW f, NEW j, NEW n
  PROVE  Role(v, w) /\ (Restores(v, f, j, n) => Led(v, f, j, n))
  BY DEF Role, Led, Publishes, TakesBack, MidStep, Recover

LEMMA DisownFit ==
  ASSUME IInv, Types, Fit, NEW p \in Proc, Recovering(work[p]), Disown(p) PROVE Fit'
<1> DEFINE w == work[p]
           j == journal
<1>1. PICK k \in OwnedCreates(w) :
        LET log == Marked(w.log, w.log.entries[k].path, "revoked", None)
        IN  \/ journal' = log /\ Becomes(p, [w EXCEPT !.log = log])
            \/ Becomes(p, Idle) /\ UNCHANGED journal
  BY DEF Disown
<1>2. files' = files /\ backup' = backup
  BY DEF Disown
<1>3. /\ j # None /\ j = w.log /\ Log(j) /\ LogType(j, calls)
      /\ Sound(j.entries) /\ w.pc \in Recover
      /\ \A q \in Proc : q # p => ~Busy(work[q])
      /\ \E n, d : /\ Stands(files, backup, j, n, d) /\ n \in Nat
                   /\ DOMAIN j.entries = 1..n /\ Restores(w, files, j, n)
  BY RecoverFacts
<1> DEFINE path == w.log.entries[k].path
           log == Marked(w.log, path, "revoked", None)
           v == [w EXCEPT !.log = log]
<1>4. v = [pc |-> w.pc, log |-> log, held |-> w.held, saved |-> w.saved, done |-> w.done]
  <2>1. w = [pc |-> w.pc, log |-> w.log, held |-> w.held, saved |-> w.saved, done |-> w.done]
    BY DEF Recovering
  <2> HIDE DEF w, log
  <2> QED
    BY <2>1
<1>5. CASE Becomes(p, Idle) /\ UNCHANGED journal
  BY <1>2, <1>5, IdleFit
<1>6. CASE journal' = log /\ Becomes(p, v)
  <2> HIDE DEF w, path, v
  <2>1. log = Marked(j, path, "revoked", None)
    BY <1>3
  <2> HIDE DEF log, j
  <2>2. log # None
    <3>1. log \in Journal
      BY <1>3, <2>1, MarkedJournal DEF LogType
    <3> QED
      BY <3>1, NoneIsNothing
  <2>3. /\ DOMAIN log.entries = DOMAIN j.entries
        /\ \A i \in DOMAIN j.entries :
             /\ log.entries[i].path = j.entries[i].path
             /\ log.entries[i].before = j.entries[i].before
             /\ log.entries[i].after = j.entries[i].after
    BY <1>3, <2>1, MarkedLog
  <2>4. PICK n, d : /\ Stands(files, backup, j, n, d) /\ n \in Nat
                    /\ DOMAIN j.entries = 1..n /\ Restores(w, files, j, n)
    BY <1>3
  <2>5. Stands(files, backup, log, n, d) /\ Sound(log.entries)
    BY <1>3, <2>1, <2>4, MarkedStands
  <2>6. v.pc = w.pc /\ v.log = log /\ v.held = w.held /\ v.saved = w.saved /\ v.done = w.done
    BY <1>4
  <2>7. Undone(v) = Undone(w)
    BY <1>3, <2>3, <2>6 DEF Undone
  <2>8. Restores(v, files, log, n)
    <3>1. \A i \in 1..n :
            LET e == w.log.entries[i]
            IN  /\ i \notin Undone(w) \/ i <= w.done => DataIn(files, e.path) = e.before
                /\ i \in Undone(w) /\ e.before # None => w.saved[e.path] = e.before
      BY <1>3, <2>4 DEF Restores
    <3>2. \A i \in 1..n : /\ v.log.entries[i].path = w.log.entries[i].path
                          /\ v.log.entries[i].before = w.log.entries[i].before
      BY <1>3, <2>3, <2>4, <2>6
    <3>3. \A i \in 1..n :
            LET e == v.log.entries[i]
            IN  /\ i \notin Undone(v) \/ i <= v.done => DataIn(files, e.path) = e.before
                /\ i \in Undone(v) /\ e.before # None => v.saved[e.path] = e.before
      BY <2>6, <2>7, <3>1, <3>2
    <3> QED
      BY <2>3, <2>4, <2>6, <3>3 DEF Restores
  <2>9. Role(v, work[p]) /\ Led(v, files, log, n)
    BY <1>3, <2>6, <2>8, RestoresLed DEF w
  <2>10. \A q \in Proc : q # p => ~Busy(work[q])
    BY <1>3
  <2> QED
    BY <1>2, <1>6, <2>2, <2>5, <2>9, <2>10, OwnHome
<1> QED
  BY <1>1, <1>5, <1>6

LEMMA ReassertFit ==
  ASSUME IInv, Types, Fit, NEW p \in Proc, Recovering(work[p]), Reassert(p) PROVE Fit'
<1> DEFINE w == work[p]
           v == [w EXCEPT !.pc = "undo"]
<1>1. /\ Becomes(p, v) \/ Becomes(p, Idle)
      /\ files' = files /\ backup' = backup /\ journal' = journal
  BY DEF Reassert, home
<1>2. v = [pc |-> "undo", log |-> w.log, held |-> w.held, saved |-> w.saved, done |-> w.done]
  <2>1. w = [pc |-> w.pc, log |-> w.log, held |-> w.held, saved |-> w.saved, done |-> w.done]
    BY DEF Recovering
  <2> HIDE DEF w
  <2> QED
    BY <2>1
<1>3. w.pc \in Recover
  BY DEF Recovering, Recover
<1> HIDE DEF v, w
<1>4. v.pc = "undo" /\ v.log = w.log /\ v.held = w.held /\ v.saved = w.saved /\ v.done = w.done
  BY <1>2
<1>5. Undone(v) = Undone(w)
  BY <1>4 DEF Undone
<1>6. \A f, j, n : Restores(w, f, j, n) => Restores(v, f, j, n)
  BY <1>3, <1>4, <1>5 DEF Restores, Recover
<1>7. v.pc \in Recover
  BY <1>4 DEF Recover
<1>8. Role(v, w) /\ \A f, j, n : Led(w, f, j, n) => Led(v, f, j, n)
  BY <1>3, <1>6, <1>7, RestoresLed DEF Led
<1>9. Busy(w)
  BY <1>3 DEF Busy
<1>10. CASE Becomes(p, v)
  BY <1>1, <1>8, <1>9, <1>10, SameHome DEF w
<1>11. CASE Becomes(p, Idle)
  BY <1>1, <1>11, IdleFit
<1> QED
  BY <1>1, <1>10, <1>11

LEMMA UndoFit ==
  ASSUME IInv, Types, Fit, NEW p \in Proc, Recovering(work[p]), Undo(p) PROVE Fit'
<1> DEFINE w == work[p]
           j == journal
<1>1. PICK k \in Undone(w) :
        LET e == w.log.entries[k]
            saved == IF e.before = None THEN None ELSE w.saved[e.path]
        IN  /\ IsFirst(k, {n \in Undone(w) : n > w.done})
            /\ \/ /\ files' = [files EXCEPT ![e.path] = NewFile(saved, -w.log.call)]
                  /\ Becomes(p, [w EXCEPT !.done = k])
               \/ Becomes(p, Idle) /\ UNCHANGED files
  BY DEF Undo
<1> DEFINE e == w.log.entries[k]
           path == e.path
           saved == IF e.before = None THEN None ELSE w.saved[path]
           by == -w.log.call
           f == [files EXCEPT ![path] = NewFile(saved, by)]
           v == [w EXCEPT !.done = k]
<1>2. backup' = backup /\ journal' = j
  BY DEF Undo
<1>3. /\ j # None /\ j = w.log /\ Log(j) /\ LogType(j, calls)
      /\ Sound(j.entries) /\ w.pc \in Recover
      /\ \A q \in Proc : q # p => ~Busy(work[q])
      /\ \E n, d : /\ Stands(files, backup, j, n, d) /\ n \in Nat
                   /\ DOMAIN j.entries = 1..n /\ Restores(w, files, j, n)
  BY RecoverFacts
<1>4. v = [pc |-> w.pc, log |-> w.log, held |-> w.held, saved |-> w.saved, done |-> k]
  <2>1. w = [pc |-> w.pc, log |-> w.log, held |-> w.held, saved |-> w.saved, done |-> w.done]
    BY DEF Recovering
  <2> HIDE DEF w
  <2> QED
    BY <2>1
<1>5. IsFirst(k, {n \in Undone(w) : n > w.done})
      /\ ((files' = f /\ Becomes(p, v)) \/ (Becomes(p, Idle) /\ UNCHANGED files))
  BY <1>1
<1>6. k \in DOMAIN w.log.entries
  BY DEF Undone
<1>7. CASE Becomes(p, Idle) /\ UNCHANGED files
  BY <1>2, <1>7, IdleFit
<1>8. CASE files' = f /\ Becomes(p, v)
  <2>1. DOMAIN files = Path
    BY DEF IInv, Home
  <2> HIDE DEF w, j, v
  <2>2. PICK n, d : /\ Stands(files, backup, j, n, d) /\ n \in Nat
                    /\ DOMAIN j.entries = 1..n /\ Restores(w, files, j, n)
    BY <1>3
  <2>3. \A i \in 1..n :
          LET g == w.log.entries[i]
          IN  /\ i \notin Undone(w) \/ i <= w.done => DataIn(files, g.path) = g.before
              /\ i \in Undone(w) /\ g.before # None => w.saved[g.path] = g.before
    BY <1>3, <2>2 DEF Restores
  <2>4. k \in 1..n /\ saved = e.before /\ path \in Path /\ May(path, saved) /\ by \in Writer
    <3>1. k \in 1..n /\ path \in Path /\ May(path, e.before)
      BY <1>3, <1>6, <2>2 DEF LogType, OpType
    <3>2. saved = e.before
      BY <2>3, <3>1
    <3>3. by \in Writer
      <4> DEFINE c == w.log.call
      <4>1. c \in 1..calls /\ calls \in 0..MaxCalls /\ MaxCalls \in Nat /\ MaxEdits \in Nat
        BY <1>3, InstallBounds DEF LogType, Types
      <4> HIDE DEF c
      <4>2. -c \in Writer
        BY <4>1 DEF Writer
      <4> QED
        BY <4>2 DEF c
    <3> HIDE DEF saved, by, path
    <3> QED
      BY <3>1, <3>2, <3>3
  <2> HIDE DEF saved, by, path, e
  <2>5. DataIn(f, path) = saved /\ \A q \in Path : q # path => DataIn(f, q) = DataIn(files, q)
    <3>1. f[path] = NewFile(saved, by) /\ \A q \in Path : q # path => f[q] = files[q]
      BY <2>1, <2>4
    <3> HIDE DEF f
    <3> QED
      BY <2>4, <3>1, WriteData
  <2> HIDE DEF f
  <2>6. v.pc = w.pc /\ v.log = w.log /\ v.held = w.held /\ v.saved = w.saved /\ v.done = k
    BY <1>4
  <2>7. Undone(v) = Undone(w)
    BY <2>6 DEF Undone
  <2>8. Stands(f, backup, j, n, d)
    <3>1. \A q \in Path : (\A i \in 1..n : j.entries[i].path # q) => d[q] = DataIn(f, q)
      <4> SUFFICES ASSUME NEW q \in Path, \A i \in 1..n : j.entries[i].path # q
                   PROVE  d[q] = DataIn(f, q)
        OBVIOUS
      <4>1. q # path
        BY <1>3, <2>4 DEF path, e
      <4>2. d[q] = DataIn(files, q)
        BY <2>2 DEF Stands
      <4> QED
        BY <2>5, <4>1, <4>2
    <3> QED
      BY <2>2, <3>1 DEF Stands
  <2>9. ASSUME NEW i \in 1..n
        PROVE  LET g == v.log.entries[i]
               IN  /\ i \notin Undone(v) \/ i <= v.done => DataIn(f, g.path) = g.before
                   /\ i \in Undone(v) /\ g.before # None => v.saved[g.path] = g.before
    <3> DEFINE g == w.log.entries[i]
    <3>1. g.path \in Path /\ (g.path = path => g.before = e.before)
      BY <1>3, <1>6, <2>2, <2>4 DEF LogType, OpType, Single, path, e
    <3>2. CASE g.path = path
      <4>1. DataIn(f, g.path) = g.before
        BY <2>4, <2>5, <3>1, <3>2
      <4> QED
        BY <2>3, <2>6, <2>7, <4>1
    <3>3. CASE g.path # path
      <4>1. DataIn(f, g.path) = DataIn(files, g.path)
        BY <2>5, <3>1, <3>3
      <4>2. i \in Undone(w) /\ i <= k => i <= w.done
        <5> SUFFICES ASSUME i \in Undone(w), i <= k, ~(i <= w.done) PROVE FALSE
          OBVIOUS
        <5>1. i # k
          BY <3>3 DEF path, e
        <5>2. w.done \in Nat /\ i \in Nat /\ k \in Nat
          BY <1>3, <2>2, <2>4 DEF Restores
        <5> QED
          BY <1>5, <5>1, <5>2 DEF IsFirst
      <4> QED
        BY <2>3, <2>6, <2>7, <4>1, <4>2
    <3> QED
      BY <3>2, <3>3
  <2>10. Restores(v, f, j, n)
    <3>1. v.done \in Nat
      BY <2>2, <2>4, <2>6
    <3>2. j = v.log
      BY <1>3, <2>6
    <3> HIDE DEF v
    <3> QED
      BY <2>2, <2>9, <3>1, <3>2 DEF Restores
  <2>11. Role(v, work[p]) /\ Led(v, f, j, n)
    BY <1>3, <2>6, <2>10, RestoresLed DEF w
  <2>12. (\A q \in Proc : q # p => ~Busy(work[q])) /\ j # None /\ Sound(j.entries)
    BY <1>3
  <2> QED
    BY <1>2, <1>8, <2>8, <2>11, <2>12, OwnHome
<1> QED
  BY <1>5, <1>7, <1>8

LEMMA CloseJournalFit ==
  ASSUME IInv, Types, Fit, NEW p \in Proc, Recovering(work[p]), CloseJournal(p) PROVE Fit'
<1> DEFINE w == work[p]
           j == journal
<1>1. /\ \A n \in Undone(w) : n <= w.done
      /\ Becomes(p, Idle)
      /\ journal' = None \/ journal' = j
      /\ files' = files /\ backup' = backup
  BY DEF CloseJournal
<1>2. /\ j = w.log /\ w.pc \in Recover
      /\ \A q \in Proc : q # p => ~Busy(work[q])
      /\ \E n, d : /\ Stands(files, backup, j, n, d) /\ n \in Nat
                   /\ DOMAIN j.entries = 1..n /\ Restores(w, files, j, n)
  BY RecoverFacts
<1>3. CASE journal' = j
  BY <1>1, <1>3, IdleFit
<1>4. CASE journal' = None
  <2>1. PICK n, d : Stands(files, backup, j, n, d) /\ Restores(w, files, j, n)
    BY <1>2
  <2> HIDE DEF w, j
  <2>2. \A k \in 1..n : DataIn(files, j.entries[k].path) = j.entries[k].before
    BY <1>1, <1>2, <2>1 DEF Restores
  <2>3. ASSUME NEW path \in Path PROVE DataMap[path] = d[path]
    <3>1. DataMap[path] = DataIn(files, path)
      BY DEF DataMap, DataAt
    <3>2. CASE \A k \in 1..n : j.entries[k].path # path
      BY <2>1, <3>1, <3>2 DEF Stands
    <3>3. ASSUME NEW k \in 1..n, j.entries[k].path = path PROVE DataMap[path] = d[path]
      BY <2>1, <2>2, <3>1, <3>3 DEF Stands
    <3> QED
      BY <3>2, <3>3
  <2>4. AllFit(DataMap)
    <3> DEFINE c == DataMap
    <3> HIDE DEF c
    <3>1. \A path \in Path : c[path] = d[path]
      BY <2>3 DEF c
    <3>2. AllFit(d)
      BY <2>1 DEF Stands
    <3>3. AllFit(c)
      BY <3>1, <3>2, AllFitSame
    <3> QED
      BY <3>3 DEF c
  <2>5. DataMap' = DataMap
    BY <1>1 DEF DataMap, DataAt
  <2>6. Idle.pc = "idle"
    BY DEF Idle
  <2>7. ~Busy(Idle) /\ Role(Idle, work[p])
    BY <2>6 DEF Busy, Role, MidStep, Recover
  <2> QED
    BY <1>1, <1>2, <1>4, <2>4, <2>5, <2>7, OwnHome
<1> QED
  BY <1>1, <1>3, <1>4

LEMMA FitKept == IInv /\ Types /\ FInv /\ [Next]_vars => FInv'
<1> SUFFICES ASSUME IInv, Types, FInv, [Next]_vars, Quiet' PROVE Fit'
  BY DEF FInv
<1>1. ASSUME NEW p \in Proc, StartApply(p) \/ StartRecover(p) \/ Step(p) \/ Crash(p) PROVE Fit'
  <2>1. edits' = edits /\ (overtaken => overtaken')
    <3>1. CASE Begin(p)
      BY <3>1, Zenon DEF Begin
    <3>2. CASE Copy(p)
      BY <3>2, Zenon DEF Copy
    <3>3. CASE MarkAttempted(p)
      BY <3>3, Zenon DEF MarkAttempted
    <3>4. CASE Publish(p)
      BY <3>4, Zenon DEF Publish
    <3>5. CASE Confirm(p)
      BY <3>5, Zenon DEF Confirm
    <3>6. CASE Complete(p)
      BY <3>6, Zenon DEF Complete
    <3>7. CASE Revoke(p)
      BY <3>7, Zenon DEF Revoke
    <3>8. CASE TakeBack(p)
      BY <3>8, Zenon DEF TakeBack
    <3>9. CASE EndRollback(p)
      BY <3>9, Zenon DEF EndRollback
    <3>10. CASE Disown(p)
      BY <3>10, Zenon DEF Disown
    <3>11. CASE Reassert(p)
      BY <3>11, Zenon DEF Reassert
    <3>12. CASE Undo(p)
      BY <3>12, Zenon DEF Undo
    <3>13. CASE CloseJournal(p)
      BY <3>13, Zenon DEF CloseJournal
    <3>14. CASE StartApply(p)
      BY <3>14, Zenon DEF StartApply
    <3>15. CASE Crash(p)
      BY <3>15, Zenon DEF Crash
    <3>16. CASE StartRecover(p)
      BY <3>16, Zenon DEF StartRecover
    <3> QED
      BY <1>1, <3>1, <3>2, <3>3, <3>4, <3>5, <3>6, <3>7, <3>8,
         <3>9, <3>10, <3>11, <3>12, <3>13, <3>14, <3>15, <3>16 DEF Step
  <2>2. Fit /\ ~overtaken'
    BY <2>1 DEF FInv, Quiet
  <2>3. Work(work[p], backup)
    BY DEF IInv
  <2>4. /\ work[p].pc \in ApplyStep => Applying(work[p])
        /\ work[p].pc \in {"disown", "undo"} => Recovering(work[p])
    BY <2>3, Which
  <2>5. CASE Begin(p)
    BY <2>2, <2>4, <2>5, BeginFit DEF Begin, ApplyStep
  <2>6. CASE Copy(p)
    BY <2>2, <2>4, <2>6, CopyFit DEF Copy, ApplyStep
  <2>7. CASE MarkAttempted(p)
    BY <2>2, <2>4, <2>7, MarkAttemptedFit DEF MarkAttempted, ApplyStep
  <2>8. CASE Publish(p)
    BY <2>2, <2>4, <2>8, PublishFit DEF Publish, ApplyStep
  <2>9. CASE Confirm(p)
    BY <2>2, <2>4, <2>9, ConfirmFit DEF Confirm, ApplyStep
  <2>10. CASE Complete(p)
    BY <2>2, <2>10, CompleteFit
  <2>11. CASE Revoke(p)
    BY <2>2, <2>4, <2>11, RevokeFit DEF Revoke, ApplyStep
  <2>12. CASE TakeBack(p)
    BY <2>2, <2>4, <2>12, TakeBackFit DEF TakeBack, ApplyStep
  <2>13. CASE EndRollback(p)
    BY <2>2, <2>13, IdleFit DEF EndRollback, home
  <2>14. CASE Disown(p)
    BY <2>2, <2>4, <2>14, DisownFit DEF Disown
  <2>15. CASE Reassert(p)
    BY <2>2, <2>4, <2>15, ReassertFit DEF Reassert
  <2>16. CASE Undo(p)
    BY <2>2, <2>4, <2>16, UndoFit DEF Undo
  <2>17. CASE CloseJournal(p)
    BY <2>2, <2>4, <2>17, CloseJournalFit DEF CloseJournal
  <2>18. CASE Crash(p)
    BY <2>2, <2>18, IdleFit DEF Crash, home
  <2> QED
    BY <1>1, <2>2, <2>5, <2>6, <2>7, <2>8, <2>9, <2>10, <2>11, <2>12, <2>13, <2>14, <2>15,
       <2>16, <2>17, <2>18, StartApplyFit, StartRecoverFit DEF Step
<1>2. ASSUME NEW path \in Path, Peer(path) PROVE FALSE
  <2>1. edits' = edits + 1 /\ edits' = 0
    BY <1>2 DEF Peer, Quiet
  <2> QED
    BY <2>1 DEF Types
<1>3. CASE UNCHANGED vars
  <2>1. Fit
    BY <1>3 DEF vars, FInv, Quiet
  <2>2. UNCHANGED <<files, backup, journal, work>>
    BY <1>3 DEF vars, home
  <2> QED
    BY <2>1, <2>2 DEF Fit, DataMap, DataAt
<1> QED
  BY <1>1, <1>2, <1>3 DEF Next

LEMMA InitData ==
  ASSUME Init
  PROVE  /\ files \in [Path -> File \cup {None}]
         /\ \A path \in Path : May(path, DataIn(files, path))
         /\ AllFit(DataMap)
         /\ \A h \in Host : DataAt(<<h, "config">>) \in ConfigData \cup {None}
<1>1. PICK had \in [Host -> Release \cup {None}], known \in (SUBSET Project) \ {{}} :
        files = [path \in Path |->
          LET r == had[path[1]]
          IN  CASE path[2] = "settings" -> NewFile(Settings(0, r), 0)
                [] path[2] # "settings" /\ r = None -> None
                [] path[2] = "config" /\ r # None -> NewFile(Config(known), 0)
                [] path[2] = "ownership" /\ r # None -> NewFile(Ownership(r), 0)
                [] path[2] = "wrapper" /\ r # None -> NewFile(Wrapper(r), 0)]
  BY DEF Init
<1>2. \A h \in Host : had[h] \in Release \cup {None}
  OBVIOUS
<1>3. Config(known) \in ConfigData /\ Config(known) \in Data
  BY DEF Config, ConfigData, Data
<1>4. 0 \in 0..MaxEdits /\ 0 \in Writer
  BY InstallBounds DEF Writer
<1>5. ASSUME NEW r \in Release \cup {None}
      PROVE  /\ Settings(0, r) \in SettingsData /\ Settings(0, r) \in Data
             /\ r # None => Ownership(r) \in Data /\ Wrapper(r) \in Data
  BY <1>4 DEF Settings, SettingsData, Ownership, Wrapper, Data
<1>6. \A data : data \in Data => data # None
  BY NoneIsNothing
<1>7. \A data \in Data : NewFile(data, 0) \in File /\ NewFile(data, 0) # None
                         /\ NewFile(data, 0).data = data
  BY <1>4, <1>6, NoneIsNothing DEF NewFile, File
<1>8. ASSUME NEW h \in Host, NEW kind \in Kind
      PROVE  LET r == had[h]
                 path == <<h, kind>>
             IN  /\ kind = "settings" => files[path] = NewFile(Settings(0, r), 0)
                 /\ kind # "settings" /\ r = None => files[path] = None
                 /\ kind = "config" /\ r # None => files[path] = NewFile(Config(known), 0)
                 /\ kind = "ownership" /\ r # None => files[path] = NewFile(Ownership(r), 0)
                 /\ kind = "wrapper" /\ r # None => files[path] = NewFile(Wrapper(r), 0)
  <2>1. <<h, kind>> \in Path
    BY DEF Path
  <2> QED
    BY <1>1, <2>1
<1>9. ASSUME NEW h \in Host, NEW kind \in Kind
      PROVE  LET r == had[h]
                 path == <<h, kind>>
             IN  /\ files[path] \in File \cup {None}
                 /\ kind = "settings" => DataIn(files, path) = Settings(0, r)
                 /\ kind # "settings" /\ r = None => DataIn(files, path) = None
                 /\ kind = "config" /\ r # None => DataIn(files, path) = Config(known)
                 /\ kind = "ownership" /\ r # None => DataIn(files, path) = Ownership(r)
                 /\ kind = "wrapper" /\ r # None => DataIn(files, path) = Wrapper(r)
  <2> DEFINE r == had[h]
             path == <<h, kind>>
  <2>1. r \in Release \cup {None}
    BY <1>2
  <2>2. ASSUME NEW data \in Data, files[path] = NewFile(data, 0)
        PROVE  files[path] \in File \cup {None} /\ DataIn(files, path) = data
    BY <1>7, <2>2 DEF DataIn
  <2>3. files[path] = None => files[path] \in File \cup {None} /\ DataIn(files, path) = None
    BY DEF DataIn
  <2>4. CASE kind = "settings"
    BY <1>5, <1>8, <2>1, <2>2, <2>4
  <2>5. CASE kind # "settings" /\ r = None
    BY <1>8, <2>3, <2>5
  <2>6. CASE kind = "config" /\ r # None
    BY <1>3, <1>8, <2>2, <2>6
  <2>7. CASE kind = "ownership" /\ r # None
    BY <1>5, <1>8, <2>1, <2>2, <2>7
  <2>8. CASE kind = "wrapper" /\ r # None
    BY <1>5, <1>8, <2>1, <2>2, <2>8
  <2> QED
    BY <2>4, <2>5, <2>6, <2>7, <2>8 DEF Kind
<1>10. \A path \in Path : \E h \in Host, kind \in Kind : path = <<h, kind>>
  BY DEF Path
<1>11. \A path \in Path : files[path] \in File \cup {None}
  BY <1>9, <1>10
<1>12. \A path \in Path : May(path, DataIn(files, path))
  <2> SUFFICES ASSUME NEW h \in Host, NEW kind \in Kind
               PROVE  May(<<h, kind>>, DataIn(files, <<h, kind>>))
    BY <1>10
  <2>1. had[h] \in Release \cup {None}
    BY <1>2
  <2> QED
    BY <1>3, <1>5, <1>9, <2>1 DEF May, Kind
<1>13. ASSUME NEW h \in Host PROVE FitsIn(DataMap, h)
  <2> DEFINE r == had[h]
  <2>1. <<h, "settings">> \in Path /\ <<h, "wrapper">> \in Path
        /\ <<h, "ownership">> \in Path /\ <<h, "config">> \in Path
    BY DEF Path, Kind
  <2>2. r \in Release \cup {None}
    BY <1>2
  <2>3. DataMap[<<h, "settings">>] = Settings(0, r)
        /\ DataMap[<<h, "wrapper">>] = WrapperOf(r) /\ DataMap[<<h, "ownership">>] = OwnershipOf(r)
        /\ DataMap[<<h, "config">>] = IF r = None THEN None ELSE Config(known)
    <3>1. \A path \in Path : DataMap[path] = DataIn(files, path)
      BY DEF DataMap, DataAt
    <3> QED
      BY <1>9, <2>1, <3>1 DEF Kind, WrapperOf, OwnershipOf
  <2>4. Settings(0, r) # None /\ Settings(0, r).hook = r /\ Config(known) # None
    BY <1>3, <1>5, <1>6, <2>2 DEF Settings
  <2> HIDE DEF r
  <2>5. (IF r = None THEN None ELSE Config(known)) = None <=> r = None
    BY <2>4
  <2> QED
    BY <2>2, <2>3, <2>4, <2>5 DEF FitsIn, Goes
<1>14. files \in [Path -> File \cup {None}]
  BY <1>1, <1>11
<1>15. \A h \in Host : DataAt(<<h, "config">>) \in ConfigData \cup {None}
  BY <1>3, <1>9 DEF DataAt, Kind
<1> QED
  BY <1>12, <1>13, <1>14, <1>15 DEF AllFit

LEMMA InitTypes == Init => Types
<1> SUFFICES ASSUME Init PROVE Types
  OBVIOUS
<1>1. FilesType(files)
  BY InitData DEF FilesType
<1>2. BackupType(backup, calls)
  BY DEF Init, BackupType, May
<1>3. \A p \in Proc : WorkType(work[p], calls)
  BY DEF Init, WorkType, Idle, ApplyStep
<1> QED
  <2>1. journal = None /\ calls = 0 /\ faults = 0 /\ edits = 0
    BY DEF Init
  <2>2. MaxCalls \in Nat /\ MaxFaults \in Nat /\ MaxEdits \in Nat
    BY InstallBounds
  <2> QED
    BY <1>1, <1>2, <1>3, <2>1, <2>2 DEF Types, HomeType

LEMMA InitFit == Init => FInv
<1> SUFFICES ASSUME Init PROVE Fit
  BY DEF FInv
<1>1. \A p \in Proc : work[p].pc = "idle"
  BY DEF Init, Idle
<1>2. \A p \in Proc : ~Busy(work[p]) /\ Unborn(work[p], backup)
  BY <1>1 DEF Busy, Unborn, MidStep, Recover
<1>3. \A p, q \in Proc : Apart(work[p], work[q])
  BY <1>1 DEF Apart, ApplyStep, Recover
<1> QED
  BY <1>2, <1>3, InitData DEF Init, Fit

LEMMA FitFits == Types /\ FInv => HomeFits
<1> SUFFICES ASSUME Types, FInv, ~overtaken, journal = None, edits = 0, NEW h \in Host
             PROVE  Fits(h)
  BY TypesImplyTypeOK DEF HomeFits, UncertainKeepsJournal
<1>1. AllFit(DataMap)
  BY DEF FInv, Quiet, Fit
<1> QED
  BY <1>1, AllFitFits

\* The home fits whenever no journal is pending: every host has a whole
\* installation of one release, or none, whatever failed, whoever was
\* interrupted and whichever calls overlap, as long as recover is not called in
\* the middle of another call; and the state is always of its type.
THEOREM HomeFitsHolds == Spec => []HomeFits
<1>1. Spec => []IInv
  BY Initial, Inductive, PTL DEF Spec
<1>2. Spec => []Types
  BY <1>1, InitTypes, TypesKept, PTL DEF Spec
<1>3. Spec => []FInv
  BY <1>1, <1>2, InitFit, FitKept, PTL DEF Spec
<1> QED
  BY <1>2, <1>3, FitFits, PTL

-----------------------------------------------------------------------------
(* What a call does to the installation.                                   *)

\* The installation that files with these data amount to.
InstalledOf(m) ==
  [h \in Host |->
    IF m[<<h, "config">>] = None THEN None
    ELSE [release |-> m[<<h, "ownership">>].owns, projects |-> m[<<h, "config">>].projects]]

ProjectsOf(i, h) == IF i[h] = None THEN {} ELSE i[h].projects

Without(i, h, gone) ==
  IF i[h] = None \/ i[h].projects \subseteq gone THEN None
  ELSE [i[h] EXCEPT !.projects = @ \ gone]

\* An install or a removal leads from i to j, on all its hosts.
Installs(i, j, hosts, r, q) ==
  \A h \in Host : j[h] = IF h \in hosts
                         THEN [release |-> r, projects |-> ProjectsOf(i, h) \cup {q}]
                         ELSE i[h]

Removes(i, j, hosts, gone) ==
  \A h \in Host : j[h] = IF h \in hosts THEN Without(i, h, gone) ELSE i[h]

Happens(i, j) ==
  \E hosts \in SUBSET Host :
    \/ \E r \in Release, q \in Project : Installs(i, j, hosts, r, q)
    \/ \E gone \in {{q} : q \in Project} \cup {Project} : Removes(i, j, hosts, gone)

LEMMA HappensIsStep ==
  ASSUME DOMAIN InstalledNow = Host, InstalledNow' = [h \in Host |-> InstalledNow'[h]],
         Happens(InstalledNow, InstalledNow')
  PROVE  Installation!Next
<1> DEFINE i == InstalledNow
           j == InstalledNow'
<1>1. PICK hosts \in SUBSET Host :
        \/ \E r \in Release, q \in Project : Installs(i, j, hosts, r, q)
        \/ \E gone \in {{q} : q \in Project} \cup {Project} : Removes(i, j, hosts, gone)
  BY DEF Happens
<1>2. ASSUME NEW r \in Release, NEW q \in Project, Installs(i, j, hosts, r, q)
      PROVE  Installation!Install(hosts, r, q)
  <2>1. \A h \in Host : i[h] = InstalledNow[h] /\ ProjectsOf(i, h) = Installation!Registered(h)
    BY DEF ProjectsOf, Installation!Registered
  <2>2. \A h \in Host : j[h] = IF h \in hosts
                               THEN [release |-> r, projects |-> Installation!Registered(h) \cup {q}]
                               ELSE InstalledNow[h]
    BY <1>2, <2>1 DEF Installs
  <2> QED
    BY <2>2 DEF Installation!Install
<1>3. ASSUME NEW gone, Removes(i, j, hosts, gone)
      PROVE  Installation!Remove(hosts, gone)
  <2>1. ASSUME NEW h \in Host
        PROVE  j[h] = IF h \notin hosts \/ InstalledNow[h] = None THEN InstalledNow[h]
                      ELSE IF Installation!Registered(h) \subseteq gone THEN None
                      ELSE [InstalledNow[h] EXCEPT !.projects = @ \ gone]
    <3>1. j[h] = IF h \in hosts THEN Without(i, h, gone) ELSE i[h]
      BY <1>3 DEF Removes
    <3> HIDE DEF j, i
    <3>2. i = InstalledNow
      BY DEF i
    <3>3. CASE h \notin hosts
      BY <3>1, <3>2, <3>3
    <3>4. CASE h \in hosts /\ i[h] = None
      BY <3>1, <3>2, <3>4 DEF Without
    <3>5. CASE h \in hosts /\ i[h] # None
      <4>1. Installation!Registered(h) = i[h].projects
        BY <3>2, <3>5 DEF Installation!Registered
      <4>2. j[h] = IF i[h].projects \subseteq gone THEN None ELSE [i[h] EXCEPT !.projects = @ \ gone]
        BY <3>1, <3>5 DEF Without
      <4> QED
        BY <3>2, <3>5, <4>1, <4>2
    <3> QED
      BY <3>3, <3>4, <3>5
  <2> QED
    BY <2>1 DEF Installation!Remove
<1> QED
  BY <1>1, <1>2, <1>3 DEF Installation!Next

\* What is installed on a host, when its files fit.
LEMMA InstalledAt ==
  ASSUME NEW h \in Host, FitsIn(DataMap, h), DataAt(<<h, "config">>) \in ConfigData \cup {None}
  PROVE  LET i == InstalledOf(DataMap)
         IN  /\ i[h] = None <=> DataAt(<<h, "config">>) = None
             /\ i[h] = None <=> Owned(h) = None
             /\ i[h] # None => i[h] = [release |-> Owned(h), projects |-> Projects(h)]
             /\ ProjectsOf(i, h) = Projects(h)
<1> DEFINE config == DataAt(<<h, "config">>)
           owner == DataAt(<<h, "ownership">>)
           i == InstalledOf(DataMap)
<1>1. DataMap[<<h, "config">>] = config /\ DataMap[<<h, "ownership">>] = owner
      /\ <<h, "config">> \in Path /\ <<h, "ownership">> \in Path
  BY DEF DataMap, Path, Kind
<1>2. PICK r \in Release \cup {None} : owner = OwnershipOf(r) /\ (config = None <=> r = None)
  BY <1>1 DEF FitsIn, Goes
<1>3. config \in ConfigData \cup {None}
  OBVIOUS
<1>4. CASE r = None
  <2>1. config = None /\ owner = None
    BY <1>2, <1>4 DEF OwnershipOf
  <2>2. i[h] = None
    BY <1>1, <2>1 DEF InstalledOf
  <2> QED
    BY <2>1, <2>2 DEF Owned, Projects, ProjectsOf
<1>5. CASE r # None
  <2>1. config # None /\ owner = Ownership(r) /\ r \in Release /\ config \in ConfigData
    BY <1>2, <1>3, <1>5 DEF OwnershipOf
  <2>2. Owned(h) = r /\ Owned(h) = owner.owns /\ Projects(h) = config.projects
    BY <2>1, Written DEF Owned, Projects
  <2>3. i[h] = [release |-> r, projects |-> Projects(h)]
    BY <1>1, <2>1, <2>2 DEF InstalledOf
  <2>4. [release |-> r, projects |-> Projects(h)] \in Installation!Installed
    BY <2>1, <2>2 DEF ConfigData, Installation!Installed
  <2>5. i[h] # None /\ r # None
    BY <2>1, <2>3, <2>4, NothingIsNone, NoneIsNothing
  <2> HIDE DEF i
  <2>6. ProjectsOf(i, h) = Projects(h)
    BY <2>3, <2>5 DEF ProjectsOf
  <2> QED
    BY <2>1, <2>2, <2>3, <2>5, <2>6 DEF i
<1> QED
  BY <1>4, <1>5

\* A call that is admitted means to install or to remove.
LEMMA CallHappens ==
  ASSUME Types, AllFit(DataMap), NEW request \in Request, Admissible(request)
  PROVE  Happens(InstalledOf(DataMap), InstalledOf(TargetMap(request)))
<1> DEFINE i == InstalledOf(DataMap)
           t == TargetMap(request)
           j == InstalledOf(t)
           hosts == {h \in Host : Named(request, h)}
<1>1. ASSUME NEW h \in Host, ~Named(request, h)
      PROVE  j[h] = i[h]
  <2>1. t[<<h, "config">>] = DataMap[<<h, "config">>] /\ t[<<h, "ownership">>] = DataMap[<<h, "ownership">>]
    BY <1>1, TargetShape DEF Kind
  <2> HIDE DEF t
  <2> QED
    BY <2>1 DEF InstalledOf
<1>2. ASSUME NEW h \in Host, Named(request, h)
      PROVE  /\ Legible(h) /\ FitsIn(DataMap, h)
             /\ DataAt(<<h, "config">>) \in ConfigData \cup {None}
             /\ t[<<h, "config">>] = TargetOf(request, h)["config"]
             /\ t[<<h, "ownership">>] = TargetOf(request, h)["ownership"]
  <2>1. IF request.op = "install" THEN CanInstall(h) ELSE CanRemove(h, request.gone)
    BY <1>2, RequestShape DEF Admissible, Named
  <2>2. Legible(h) /\ FitsIn(DataMap, h)
    BY <2>1 DEF CanInstall, CanRemove, AllFit
  <2>3. DataAt(<<h, "config">>) \in ConfigData \cup {None}
    BY <2>2, HostTypes DEF Legible
  <2> QED
    BY <1>2, <2>2, <2>3, TargetShape DEF Kind
<1> HIDE DEF t
<1>3. CASE request.op = "install"
  <2> DEFINE r == request.release
             q == request.project
  <2>1. r \in Release /\ q \in Project
    BY <1>3, RequestShape
  <2>2. ASSUME NEW h \in Host, Named(request, h)
        PROVE  j[h] = [release |-> r, projects |-> ProjectsOf(i, h) \cup {q}]
    <3>1. TargetOf(request, h) = InstallTarget(h, r, q)
      BY <1>3 DEF TargetOf
    <3>2. t[<<h, "config">>] = Config(Projects(h) \cup {q}) /\ t[<<h, "ownership">>] = Ownership(r)
      BY <1>2, <2>2, <3>1 DEF InstallTarget
    <3>3. Projects(h) \cup {q} \in (SUBSET Project) \ {{}}
      BY <1>2, <2>1, <2>2, Registered
    <3>4. t[<<h, "config">>] # None /\ t[<<h, "config">>].projects = Projects(h) \cup {q}
          /\ t[<<h, "ownership">>].owns = r
      BY <2>1, <3>2, <3>3, Written
    <3>5. j[h] = [release |-> r, projects |-> Projects(h) \cup {q}]
      BY <3>4 DEF InstalledOf
    <3>6. ProjectsOf(i, h) = Projects(h)
      BY <1>2, <2>2, InstalledAt
    <3> QED
      BY <3>5, <3>6
  <2> HIDE DEF i, j, r, q
  <2>3. Installs(i, j, hosts, r, q)
    BY <1>1, <2>2 DEF Installs
  <2> HIDE DEF hosts
  <2>4. hosts \in SUBSET Host
    BY DEF hosts
  <2> QED
    BY <2>1, <2>3, <2>4 DEF Happens, i, j, t
<1>4. CASE request.op # "install"
  <2> DEFINE gone == request.gone
  <2>1. gone \in {{q} : q \in Project} \cup {Project}
    <3>1. request \in [op : {"remove"}, hosts : HostLists, gone : {{q} : q \in Project} \cup {Project}]
      BY <1>4 DEF Request
    <3> QED
      BY <3>1
  <2>2. ASSUME NEW h \in Host, Named(request, h)
        PROVE  j[h] = Without(i, h, gone)
    <3>1. TargetOf(request, h) = RemoveTarget(h, gone)
      BY <1>4 DEF TargetOf
    <3>2. /\ i[h] = None <=> DataAt(<<h, "config">>) = None
          /\ i[h] = None <=> Owned(h) = None
          /\ i[h] # None => i[h] = [release |-> Owned(h), projects |-> Projects(h)]
      BY <1>2, <2>2, InstalledAt
    <3> HIDE DEF i
    <3>3. CASE Owned(h) = None
      <4>1. t[<<h, "config">>] = None
        BY <1>2, <2>2, <3>1, <3>2, <3>3 DEF RemoveTarget
      <4> QED
        BY <3>2, <3>3, <4>1 DEF InstalledOf, Without
    <3>4. CASE Owned(h) # None /\ Empties(h, gone)
      <4>1. t[<<h, "config">>] = None
        <5>1. RemoveTarget(h, gone).config = None
          BY <3>4 DEF RemoveTarget
        <5> QED
          BY <1>2, <2>2, <3>1, <5>1
      <4>2. i[h].projects \subseteq gone
        BY <3>2, <3>4 DEF Empties
      <4> QED
        BY <4>1, <4>2 DEF InstalledOf, Without
    <3>5. CASE Owned(h) # None /\ ~Empties(h, gone)
      <4>1. t[<<h, "config">>] = Config(Projects(h) \ gone) /\ t[<<h, "ownership">>] = DataAt(<<h, "ownership">>)
        BY <1>2, <2>2, <3>1, <3>5 DEF RemoveTarget
      <4>2. Projects(h) \ gone \in (SUBSET Project) \ {{}}
        BY <1>2, <2>2, <3>5, Registered DEF Empties
      <4>3. t[<<h, "config">>] # None /\ t[<<h, "config">>].projects = Projects(h) \ gone
        BY <4>1, <4>2, Written
      <4>4. DataAt(<<h, "ownership">>).owns = Owned(h)
        BY <3>5 DEF Owned
      <4>5. j[h] = [release |-> Owned(h), projects |-> Projects(h) \ gone]
        BY <4>1, <4>3, <4>4 DEF InstalledOf
      <4>6. i[h] # None /\ ~(i[h].projects \subseteq gone)
        BY <3>2, <3>5 DEF Empties
      <4>7. Without(i, h, gone) = [i[h] EXCEPT !.projects = @ \ gone]
        BY <4>6 DEF Without
      <4>8. i[h] = [release |-> Owned(h), projects |-> Projects(h)]
        BY <3>2, <3>5
      <4>9. [i[h] EXCEPT !.projects = @ \ gone] = [release |-> Owned(h), projects |-> Projects(h) \ gone]
        BY <4>8
      <4> QED
        BY <4>5, <4>7, <4>9
    <3> QED
      BY <3>3, <3>4, <3>5
  <2> HIDE DEF i, j, gone
  <2>3. Removes(i, j, hosts, gone)
    BY <1>1, <2>2 DEF Removes
  <2> HIDE DEF hosts
  <2>4. hosts \in SUBSET Host
    BY DEF hosts
  <2> QED
    BY <2>1, <2>3, <2>4 DEF Happens, i, j, t
<1> QED
  BY <1>3, <1>4

-----------------------------------------------------------------------------
(* How a step moves the journal and the files.                             *)

\* Journals that differ in the states of their entries at most.
Alike(j, k) ==
  /\ DOMAIN k.entries = DOMAIN j.entries
  /\ \A n \in DOMAIN j.entries : /\ k.entries[n].path = j.entries[n].path
                                 /\ k.entries[n].before = j.entries[n].before
                                 /\ k.entries[n].after = j.entries[n].after

Beside(path) == \A n \in DOMAIN journal.entries : journal.entries[n].path # path

\* A transaction goes on: only the files that it names may change.
Proceeds ==
  /\ journal # None /\ journal' # None /\ Alike(journal, journal')
  /\ \A path \in Path : Beside(path) => DataIn(files', path) = DataIn(files, path)

Rests == journal = None /\ journal' = None /\ files' = files

Begins(p) ==
  /\ journal = None /\ work[p].pc = "begin"
  /\ journal' # None /\ LogType(journal', calls) /\ Matches(work[p].ops, journal')
  /\ files' = files

\* It ends, with all its changes made, or none.
Commits ==
  /\ journal # None /\ journal' = None /\ files' = files
  /\ \A n \in DOMAIN journal.entries :
       DataIn(files, journal.entries[n].path) = journal.entries[n].after

Reverts ==
  /\ journal # None /\ journal' = None /\ files' = files
  /\ \A n \in DOMAIN journal.entries :
       DataIn(files, journal.entries[n].path) = journal.entries[n].before

Moves(p) == Proceeds \/ Rests \/ Begins(p) \/ Commits \/ Reverts

LEMMA StillMoves ==
  ASSUME files' = files, journal' = journal PROVE Proceeds \/ Rests
  BY DEF Proceeds, Rests, Alike

\* An entry is marked.
LEMMA MarkMoves ==
  ASSUME journal # None, Log(journal), LogType(journal, calls), files' = files,
         NEW path, NEW state, NEW identity,
         state \in {"attempted", "revoked"} \/ (state = "confirmed" /\ identity = journal.call),
         journal' = Marked(journal, path, state, identity)
  PROVE  Proceeds
<1> DEFINE j == journal
           log == Marked(j, path, state, identity)
<1>1. log # None
  <2>1. log \in Journal
    BY MarkedJournal DEF LogType
  <2> QED
    BY <2>1, NoneIsNothing
<1>2. Alike(j, log)
  BY MarkedLog DEF Alike
<1> HIDE DEF log, j
<1>3. journal' = log
  BY DEF log, j
<1> QED
  BY <1>1, <1>2, <1>3 DEF Proceeds, j

\* A file that the journal names is written.
LEMMA WriteMoves ==
  ASSUME IInv, journal # None, journal' = journal,
         NEW n \in DOMAIN journal.entries, NEW new,
         files' = [files EXCEPT ![journal.entries[n].path] = new]
  PROVE  Proceeds
<1>1. Alike(journal, journal')
  BY DEF Alike
<1>2. ASSUME NEW path \in Path, Beside(path) PROVE DataIn(files', path) = DataIn(files, path)
  <2>1. path # journal.entries[n].path /\ path \in DOMAIN files
    BY <1>2 DEF Beside, IInv, Home
  <2>2. files'[path] = files[path]
    BY <2>1
  <2> QED
    BY <2>2 DEF DataIn
<1> QED
  BY <1>1, <1>2 DEF Proceeds

LEMMA BeginMoves ==
  ASSUME IInv, Types, Fit, NEW p \in Proc, Applying(work[p]), Begin(p) PROVE Moves(p)
<1> DEFINE w == work[p]
           log == Pending(w.call, w.ops)
           u == [w EXCEPT !.log = log, !.pc = StageOf(w.ops[1])]
<1>1. w.pc = "begin" /\ DiskStep(p, LogHeld(w), files, backup, log, u)
  BY DEF Begin
<1>2. ApplyType(w, calls) /\ w.call \in 1..MaxCalls
  BY ApplyingType
<1>3. LogType(log, calls) /\ Matches(w.ops, log) /\ log # None
  <2>1. LogType(log, calls) /\ Matches(w.ops, log)
    BY <1>2, PendingType DEF ApplyType
  <2> QED
    BY <2>1, LogNotNone
<1>4. LogHeld(w) => journal = None
  BY <1>1 DEF LogHeld, Fit, Unborn
<1> HIDE DEF log, u
<1>5. files' = files /\ (journal' = journal \/ (LogHeld(w) /\ journal' = log))
  BY <1>1, DiskOutcome
<1>6. CASE journal' = journal
  BY <1>5, <1>6, StillMoves DEF Moves
<1>7. CASE LogHeld(w) /\ journal' = log
  <2>1. Begins(p)
    BY <1>1, <1>3, <1>4, <1>5, <1>7 DEF Begins
  <2> QED
    BY <2>1 DEF Moves
<1> QED
  BY <1>5, <1>6, <1>7

LEMMA MidMoves ==
  ASSUME IInv, Types, Fit, NEW p \in Proc, Applying(work[p]),
         Copy(p) \/ MarkAttempted(p) \/ Publish(p) \/ Confirm(p)
  PROVE  Moves(p)
<1> DEFINE w == work[p]
           op == Current(w)
<1>1. w.pc \in MidStep
  BY DEF Copy, MarkAttempted, Publish, Confirm, MidStep
<1>2. /\ journal # None /\ journal = w.log /\ journal.call = w.call /\ Log(journal)
      /\ LogType(journal, calls)
      /\ w.done \in Nat /\ Len(w.ops) \in Nat /\ w.done + 1 <= Len(w.ops)
      /\ DOMAIN journal.entries = 1..Len(w.ops)
      /\ journal.entries[w.done + 1].path = op.path
  BY <1>1, MidFacts
<1>3. w.done + 1 \in DOMAIN journal.entries
  BY <1>2
<1>4. CASE Copy(p)
  <2>1. files' = files /\ journal' = journal
    BY <1>4 DEF Copy, DiskStep, home
  <2> QED
    BY <2>1, StillMoves DEF Moves
<1>5. CASE MarkAttempted(p)
  <2>1. files' = files /\ (journal' = journal \/ journal' = Marked(w.log, op.path, "attempted", None))
    BY <1>5 DEF MarkAttempted, DiskStep, home
  <2> HIDE DEF w, op
  <2>2. CASE journal' = journal
    BY <2>1, <2>2, StillMoves DEF Moves
  <2>3. CASE journal' = Marked(journal, op.path, "attempted", None)
    <3>1. Proceeds
      BY <1>2, <2>1, <2>3, MarkMoves
    <3> QED
      BY <3>1 DEF Moves
  <2> QED
    BY <1>2, <2>1, <2>2, <2>3
<1>6. CASE Publish(p)
  <2>1. journal' = journal
        /\ (files' = files \/ files' = [files EXCEPT ![op.path] = NewFile(op.after, w.call)])
    BY <1>6 DEF Publish, DiskStep, home
  <2> HIDE DEF w, op
  <2>2. CASE files' = files
    BY <2>1, <2>2, StillMoves DEF Moves
  <2>3. CASE files' = [files EXCEPT ![op.path] = NewFile(op.after, w.call)]
    <3>1. files' = [files EXCEPT ![journal.entries[w.done + 1].path] = NewFile(op.after, w.call)]
      BY <1>2, <2>3
    <3>2. Proceeds
      BY <1>2, <1>3, <2>1, <3>1, WriteMoves
    <3> QED
      BY <3>2 DEF Moves
  <2> QED
    BY <2>1, <2>2, <2>3
<1>7. CASE Confirm(p)
  <2>1. files' = files /\ (journal' = journal \/ journal' = Marked(w.log, op.path, "confirmed", w.call))
    BY <1>7 DEF Confirm, DiskStep, home
  <2> HIDE DEF w, op
  <2>2. CASE journal' = journal
    BY <2>1, <2>2, StillMoves DEF Moves
  <2>3. CASE journal' = Marked(journal, op.path, "confirmed", w.call)
    <3>1. Proceeds
      BY <1>2, <2>1, <2>3, MarkMoves
    <3> QED
      BY <3>1 DEF Moves
  <2> QED
    BY <1>2, <2>1, <2>2, <2>3
<1> QED
  BY <1>4, <1>5, <1>6, <1>7

LEMMA CompleteMoves ==
  ASSUME IInv, Types, Fit, NEW p \in Proc, Complete(p) PROVE Moves(p)
<1> DEFINE w == work[p]
           j == journal
<1>1. w.pc = "complete" /\ files' = files /\ (journal' = None \/ journal' = j)
  BY DEF Complete
<1>2. j # None
  BY <1>1 DEF Fit, Busy
<1>3. PICK n : Publishes(w, files, j, n)
  BY <1>2 DEF Fit, Led
<1>4. ApplyType(w, calls)
  <2>1. WorkType(w, calls)
    BY DEF Types
  <2> QED
    BY <1>1, <2>1 DEF WorkType, ApplyStep
<1>5. /\ j = w.log /\ n = w.done
      /\ \A k \in 1..n : DataIn(files, w.ops[k].path) = w.ops[k].after
  BY <1>1, <1>3 DEF Publishes, Reached
<1>6. Matches(w.ops, j) /\ DOMAIN w.ops = 1..n
  BY <1>1, <1>4, <1>5 DEF ApplyType, OpsType
<1> HIDE DEF w
<1>7. \A k \in DOMAIN j.entries : DataIn(files, j.entries[k].path) = j.entries[k].after
  BY <1>5, <1>6 DEF Matches
<1>8. CASE journal' = j
  BY <1>1, <1>8, StillMoves DEF Moves
<1>9. CASE journal' = None
  BY <1>1, <1>2, <1>7, <1>9 DEF Commits, Moves
<1> QED
  BY <1>1, <1>8, <1>9

LEMMA BackMoves ==
  ASSUME IInv, Types, Fit, NEW p \in Proc, Applying(work[p]), Revoke(p) \/ TakeBack(p)
  PROVE  Moves(p)
<1> DEFINE w == work[p]
           op == w.ops[w.back]
<1>1. w.pc \in {"rollback", "takeback"} /\ (w.pc = "takeback" \/ w.back <= w.done)
  BY DEF Revoke, TakeBack
<1>2. w.back \in Nat /\ w.back > 0 /\ w.done \in Nat /\ w.back <= w.done /\ w.done > 0
  BY <1>1 DEF Applying
<1>3. /\ journal # None /\ Log(journal) /\ LogType(journal, calls)
      /\ Matches(w.ops, journal) /\ ApplyType(w, calls)
  BY <1>1, <1>2, BackFacts
<1>4. w.back \in DOMAIN journal.entries /\ journal.entries[w.back].path = op.path
  BY <1>2, <1>3 DEF Matches, ApplyType, OpsType
<1>5. CASE Revoke(p)
  <2>1. files' = files
        /\ (journal' = journal \/ (journal = w.log /\ journal' = Marked(w.log, op.path, "revoked", None)))
    BY <1>5 DEF Revoke, Skip, LogHeld
  <2> HIDE DEF w, op
  <2>2. CASE journal' = journal
    BY <2>1, <2>2, StillMoves DEF Moves
  <2>3. CASE journal' = Marked(journal, op.path, "revoked", None)
    <3>1. Proceeds
      BY <1>3, <2>1, <2>3, MarkMoves
    <3> QED
      BY <3>1 DEF Moves
  <2> QED
    BY <2>1, <2>2, <2>3
<1>6. CASE TakeBack(p)
  <2>1. journal' = journal
        /\ (files' = files \/ files' = [files EXCEPT ![op.path] = NewFile(op.before, -w.call)])
    BY <1>6 DEF TakeBack, Skip
  <2> HIDE DEF w, op
  <2>2. CASE files' = files
    BY <2>1, <2>2, StillMoves DEF Moves
  <2>3. CASE files' = [files EXCEPT ![op.path] = NewFile(op.before, -w.call)]
    <3>1. files' = [files EXCEPT ![journal.entries[w.back].path] = NewFile(op.before, -w.call)]
      BY <1>4, <2>3
    <3>2. Proceeds
      BY <1>3, <1>4, <2>1, <3>1, WriteMoves
    <3> QED
      BY <3>2 DEF Moves
  <2> QED
    BY <2>1, <2>2, <2>3
<1> QED
  BY <1>5, <1>6

LEMMA RecoverMoves ==
  ASSUME IInv, Types, Fit, NEW p \in Proc, Recovering(work[p]),
         Disown(p) \/ Reassert(p) \/ Undo(p) \/ CloseJournal(p)
  PROVE  Moves(p)
<1> DEFINE w == work[p]
<1>1. /\ journal # None /\ journal = w.log /\ Log(journal) /\ LogType(journal, calls)
      /\ w.pc \in Recover
      /\ \E n : DOMAIN journal.entries = 1..n /\ Restores(w, files, journal, n)
  BY RecoverFacts
<1>2. CASE Disown(p)
  <2>1. /\ files' = files
        /\ \/ journal' = journal
           \/ \E k : journal' = Marked(w.log, w.log.entries[k].path, "revoked", None)
    BY <1>2 DEF Disown
  <2> HIDE DEF w
  <2>2. CASE journal' = journal
    BY <2>1, <2>2, StillMoves DEF Moves
  <2>3. CASE \E k : journal' = Marked(journal, w.log.entries[k].path, "revoked", None)
    <3>1. Proceeds
      BY <1>1, <2>1, <2>3, MarkMoves
    <3> QED
      BY <3>1 DEF Moves
  <2> QED
    BY <1>1, <2>1, <2>2, <2>3
<1>3. CASE Reassert(p)
  <2>1. files' = files /\ journal' = journal
    BY <1>3 DEF Reassert, home
  <2> QED
    BY <2>1, StillMoves DEF Moves
<1>4. CASE Undo(p)
  <2>1. /\ journal' = journal
        /\ \/ files' = files
           \/ \E k \in DOMAIN w.log.entries : \E f :
                files' = [files EXCEPT ![w.log.entries[k].path] = f]
    BY <1>4 DEF Undo, Undone
  <2> HIDE DEF w
  <2>2. CASE files' = files
    BY <2>1, <2>2, StillMoves DEF Moves
  <2>3. CASE \E k \in DOMAIN journal.entries : \E f :
               files' = [files EXCEPT ![journal.entries[k].path] = f]
    <3>1. Proceeds
      BY <1>1, <2>1, <2>3, WriteMoves
    <3> QED
      BY <3>1 DEF Moves
  <2> QED
    BY <1>1, <2>1, <2>2, <2>3
<1>5. CASE CloseJournal(p)
  <2>1. files' = files /\ (journal' = journal \/ journal' = None)
        /\ \A n \in Undone(w) : n <= w.done
    BY <1>5 DEF CloseJournal
  <2>2. PICK n : DOMAIN journal.entries = 1..n /\ Restores(w, files, journal, n)
    BY <1>1
  <2> HIDE DEF w
  <2>3. \A k \in DOMAIN journal.entries :
          DataIn(files, journal.entries[k].path) = journal.entries[k].before
    BY <1>1, <2>1, <2>2 DEF Restores
  <2>4. CASE journal' = journal
    BY <2>1, <2>4, StillMoves DEF Moves
  <2>5. CASE journal' = None
    BY <1>1, <2>1, <2>3, <2>5 DEF Reverts, Moves
  <2> QED
    BY <2>1, <2>4, <2>5
<1> QED
  BY <1>2, <1>3, <1>4, <1>5

-----------------------------------------------------------------------------
(* Callers that take turns.                                                *)

Turns ==
  /\ ~overtaken
  /\ \A p, q \in Proc : p # q => work[p].pc = "idle" \/ work[q].pc = "idle"

\* A step of a call is that of a working process, and leaves to others what is theirs.
LEMMA StepLeaves ==
  ASSUME NEW p \in Proc, Step(p)
  PROVE  edits' = edits /\ overtaken' = overtaken
<1>1. CASE Begin(p)
  BY <1>1, Zenon DEF Begin
<1>2. CASE Copy(p)
  BY <1>2, Zenon DEF Copy
<1>3. CASE MarkAttempted(p)
  BY <1>3, Zenon DEF MarkAttempted
<1>4. CASE Publish(p)
  BY <1>4, Zenon DEF Publish
<1>5. CASE Confirm(p)
  BY <1>5, Zenon DEF Confirm
<1>6. CASE Complete(p)
  BY <1>6, Zenon DEF Complete
<1>7. CASE Revoke(p)
  BY <1>7, Zenon DEF Revoke
<1>8. CASE TakeBack(p)
  BY <1>8, Zenon DEF TakeBack
<1>9. CASE EndRollback(p)
  BY <1>9, Zenon DEF EndRollback
<1>10. CASE Disown(p)
  BY <1>10, Zenon DEF Disown
<1>11. CASE Reassert(p)
  BY <1>11, Zenon DEF Reassert
<1>12. CASE Undo(p)
  BY <1>12, Zenon DEF Undo
<1>13. CASE CloseJournal(p)
  BY <1>13, Zenon DEF CloseJournal
<1> QED
  BY <1>1, <1>2, <1>3, <1>4, <1>5, <1>6, <1>7, <1>8,
     <1>9, <1>10, <1>11, <1>12, <1>13 DEF Step

LEMMA StepWorks ==
  ASSUME NEW p \in Proc, Step(p)
  PROVE  work[p].pc # "idle" /\ \E v : Becomes(p, v)
<1>1. CASE Begin(p)
  <2>1. work[p].pc # "idle"
    BY <1>1 DEF Begin
  <2>2. \E v : Becomes(p, v)
    BY <1>1, Zenon DEF Begin, DiskStep
  <2> QED
    BY <2>1, <2>2
<1>2. CASE Copy(p)
  <2>1. work[p].pc # "idle"
    BY <1>2 DEF Copy
  <2>2. \E v : Becomes(p, v)
    BY <1>2, Zenon DEF Copy, DiskStep
  <2> QED
    BY <2>1, <2>2
<1>3. CASE MarkAttempted(p)
  <2>1. work[p].pc # "idle"
    BY <1>3 DEF MarkAttempted
  <2>2. \E v : Becomes(p, v)
    BY <1>3, Zenon DEF MarkAttempted, DiskStep
  <2> QED
    BY <2>1, <2>2
<1>4. CASE Publish(p)
  <2>1. work[p].pc # "idle"
    BY <1>4 DEF Publish
  <2>2. \E v : Becomes(p, v)
    BY <1>4, Zenon DEF Publish, DiskStep
  <2> QED
    BY <2>1, <2>2
<1>5. CASE Confirm(p)
  <2>1. work[p].pc # "idle"
    BY <1>5 DEF Confirm
  <2>2. \E v : Becomes(p, v)
    BY <1>5, Zenon DEF Confirm, DiskStep
  <2> QED
    BY <2>1, <2>2
<1>6. CASE Complete(p)
  <2>1. work[p].pc # "idle"
    BY <1>6 DEF Complete
  <2>2. \E v : Becomes(p, v)
    BY <1>6, Zenon DEF Complete
  <2> QED
    BY <2>1, <2>2
<1>7. CASE Revoke(p)
  <2>1. work[p].pc # "idle"
    BY <1>7 DEF Revoke
  <2>2. \E v : Becomes(p, v)
    BY <1>7, Zenon DEF Revoke, Skip
  <2> QED
    BY <2>1, <2>2
<1>8. CASE TakeBack(p)
  <2>1. work[p].pc # "idle"
    BY <1>8 DEF TakeBack
  <2>2. \E v : Becomes(p, v)
    BY <1>8, Zenon DEF TakeBack, Skip
  <2> QED
    BY <2>1, <2>2
<1>9. CASE EndRollback(p)
  <2>1. work[p].pc # "idle"
    BY <1>9 DEF EndRollback
  <2>2. \E v : Becomes(p, v)
    BY <1>9, Zenon DEF EndRollback
  <2> QED
    BY <2>1, <2>2
<1>10. CASE Disown(p)
  <2>1. work[p].pc # "idle"
    BY <1>10 DEF Disown
  <2>2. \E v : Becomes(p, v)
    BY <1>10, Zenon DEF Disown
  <2> QED
    BY <2>1, <2>2
<1>11. CASE Reassert(p)
  <2>1. work[p].pc # "idle"
    BY <1>11 DEF Reassert
  <2>2. \E v : Becomes(p, v)
    BY <1>11, Zenon DEF Reassert
  <2> QED
    BY <2>1, <2>2
<1>12. CASE Undo(p)
  <2>1. work[p].pc # "idle"
    BY <1>12 DEF Undo
  <2>2. \E v : Becomes(p, v)
    BY <1>12, Zenon DEF Undo
  <2> QED
    BY <2>1, <2>2
<1>13. CASE CloseJournal(p)
  <2>1. work[p].pc # "idle"
    BY <1>13 DEF CloseJournal
  <2>2. \E v : Becomes(p, v)
    BY <1>13, Zenon DEF CloseJournal
  <2> QED
    BY <2>1, <2>2
<1> QED
  BY <1>1, <1>2, <1>3, <1>4, <1>5, <1>6, <1>7, <1>8,
     <1>9, <1>10, <1>11, <1>12, <1>13 DEF Step

LEMMA TurnsKept == Serial /\ IInv /\ Turns /\ [Next]_vars => Turns'
<1> SUFFICES ASSUME Serial, IInv, Turns, [Next]_vars PROVE Turns'
  OBVIOUS
<1>1. ASSUME NEW p \in Proc, NEW v, Becomes(p, v),
             \A q \in Proc : q # p => work[q].pc = "idle"
      PROVE  \A a, b \in Proc : a # b => work'[a].pc = "idle" \/ work'[b].pc = "idle"
  <2>1. \A q \in Proc : q # p => work'[q] = work[q]
    BY <1>1 DEF Becomes, IInv
  <2> QED
    BY <1>1, <2>1
<1>2. ASSUME NEW p \in Proc, StartApply(p) \/ StartRecover(p) PROVE Turns'
  <2>1. \A q \in Proc : work[q].pc = "idle"
    BY <1>2 DEF StartApply, StartRecover, MayStart, Working
  <2>2. \E v : Becomes(p, v)
    BY <1>2, Zenon DEF StartApply, StartRecover
  <2>3. ~overtaken'
    <3>1. ~overtaken
      BY DEF Turns
    <3>2. ~ \E q \in Proc : Working(q)
      BY <2>1 DEF Working
    <3>3. CASE StartApply(p)
      BY <3>1, <3>3, Zenon DEF StartApply
    <3>4. CASE StartRecover(p)
      BY <3>1, <3>2, <3>4, Zenon DEF StartRecover
    <3> QED
      BY <1>2, <3>3, <3>4
  <2> QED
    BY <1>1, <2>1, <2>2, <2>3 DEF Turns
<1>3. ASSUME NEW p \in Proc, Step(p) \/ Crash(p) PROVE Turns'
  <2>1. work[p].pc # "idle" /\ \E v : Becomes(p, v)
    BY <1>3, StepWorks DEF Crash, Working
  <2>2. ~overtaken'
    <3>1. overtaken' = overtaken
      BY <1>3, StepLeaves DEF Crash
    <3> QED
      BY <3>1, Zenon DEF Turns
  <2>3. \A q \in Proc : q # p => work[q].pc = "idle"
    BY <2>1 DEF Turns
  <2> QED
    BY <1>1, <2>1, <2>2, <2>3 DEF Turns
<1>4. ASSUME overtaken' = overtaken, work' = work PROVE Turns'
  <2>1. ~overtaken'
    BY <1>4, Zenon DEF Turns
  <2> QED
    BY <1>4, <2>1 DEF Turns
<1>5. CASE UNCHANGED vars \/ \E path \in Path : Peer(path)
  BY <1>4, <1>5 DEF vars, Peer
<1> QED
  BY <1>2, <1>3, <1>5 DEF Next

LEMMA InitTurns == Init => Turns
  BY DEF Init, Turns, Idle

-----------------------------------------------------------------------------
(* What a transaction will make of the installation.                       *)

\* The files as they count: those of a pending transaction as they were.
SettledAt(f, j, path) ==
  IF j # None /\ \E k \in DOMAIN j.entries : j.entries[k].path = path
  THEN EntryOf(j, path).before
  ELSE DataIn(f, path)

Settled(f, j) == [path \in Path |-> SettledAt(f, j, path)]

\* Operations that make an install or a removal of what is there.
Meant(ops, s) == \E t : Between(ops, s, t) /\ Happens(InstalledOf(s), InstalledOf(t))

Due ==
  /\ journal # None => Meant(journal.entries, Settled(files, journal))
  /\ \A p \in Proc : work[p].pc = "begin" =>
       journal = None /\ Meant(work[p].ops, Settled(files, journal))

LEMMA SettledNow ==
  /\ InstalledNow = InstalledOf(Settled(files, journal))
  /\ InstalledNow' = InstalledOf(Settled(files', journal'))
<1>1. \A h \in Host : <<h, "config">> \in Path /\ <<h, "ownership">> \in Path
  BY DEF Path, Kind
<1>2. \A path : Committed(path) = SettledAt(files, journal, path)
  BY DEF Committed, SettledAt, DataAt
<1>3. \A path : Committed(path)' = SettledAt(files', journal', path)
  BY DEF Committed, SettledAt, DataAt, EntryOf, DataIn
<1>4. InstalledNow = InstalledOf(Settled(files, journal))
  BY <1>1, <1>2 DEF InstalledNow, InstalledOf, Settled
<1>5. InstalledNow' = InstalledOf(Settled(files', journal'))
  BY <1>1, <1>3 DEF InstalledNow, InstalledOf, Settled
<1> QED
  BY <1>4, <1>5

\* A pending journal decides at the paths it names.
LEMMA SettledPending ==
  ASSUME NEW f, NEW j, NEW n, LogType(j, n)
  PROVE  /\ \A k \in DOMAIN j.entries :
              Settled(f, j)[j.entries[k].path] = j.entries[k].before
         /\ \A path \in Path : (\A k \in DOMAIN j.entries : j.entries[k].path # path) =>
              Settled(f, j)[path] = DataIn(f, path)
<1>1. j # None
  BY LogNotNone
<1>2. ASSUME NEW k \in DOMAIN j.entries
      PROVE  Settled(f, j)[j.entries[k].path] = j.entries[k].before
  <2> DEFINE path == j.entries[k].path
  <2>1. path \in Path
    BY DEF LogType, OpType
  <2>2. EntryOf(j, path).before = j.entries[k].before
    <3> DEFINE m == CHOOSE i \in DOMAIN j.entries : j.entries[i].path = path
    <3>1. m \in DOMAIN j.entries /\ j.entries[m].path = path
      OBVIOUS
    <3>2. j.entries[m].before = j.entries[k].before
      BY <3>1 DEF LogType, Single
    <3> QED
      BY <3>2 DEF EntryOf
  <2> QED
    BY <1>1, <2>1, <2>2 DEF Settled, SettledAt
<1>3. \A path \in Path : (\A k \in DOMAIN j.entries : j.entries[k].path # path) =>
        Settled(f, j)[path] = DataIn(f, path)
  BY DEF Settled, SettledAt
<1> QED
  BY <1>2, <1>3

LEMMA SettledRest == ASSUME NEW f PROVE \A path \in Path : Settled(f, None)[path] = DataIn(f, path)
  BY DEF Settled, SettledAt

\* Nothing is settled before the transaction ends.
LEMMA GoesOnSettled ==
  ASSUME Types, Types', Proceeds
  PROVE  Settled(files', journal') = Settled(files, journal)
<1> DEFINE j == journal
           k == journal'
           s == Settled(files, j)
           t == Settled(files', k)
<1>1. LogType(j, calls) /\ LogType(k, calls')
  BY DEF Proceeds, Types, HomeType
<1>2. /\ \A n \in DOMAIN j.entries : s[j.entries[n].path] = j.entries[n].before
      /\ \A path \in Path : Beside(path) => s[path] = DataIn(files, path)
  BY <1>1, SettledPending DEF Beside
<1>3. /\ \A n \in DOMAIN k.entries : t[k.entries[n].path] = k.entries[n].before
      /\ \A path \in Path : (\A n \in DOMAIN k.entries : k.entries[n].path # path) =>
           t[path] = DataIn(files', path)
  BY <1>1, SettledPending
<1>4. /\ DOMAIN k.entries = DOMAIN j.entries
      /\ \A n \in DOMAIN j.entries : /\ k.entries[n].path = j.entries[n].path
                                     /\ k.entries[n].before = j.entries[n].before
      /\ \A path \in Path : Beside(path) => DataIn(files', path) = DataIn(files, path)
  BY DEF Proceeds, Alike
<1>5. s = [path \in Path |-> s[path]] /\ t = [path \in Path |-> t[path]]
  BY DEF Settled
<1> HIDE DEF s, t, k
<1>6. ASSUME NEW path \in Path PROVE t[path] = s[path]
  <2>1. CASE Beside(path)
    BY <1>2, <1>3, <1>4, <2>1 DEF Beside
  <2>2. CASE ~Beside(path)
    BY <1>2, <1>3, <1>4, <2>2 DEF Beside
  <2> QED
    BY <2>1, <2>2
<1>7. s = t
  BY <1>5, <1>6
<1> QED
  BY <1>7 DEF s, t, k

LEMMA MeantMatches ==
  ASSUME NEW ops, NEW log, Matches(ops, log), NEW s
  PROVE  Meant(ops, s) <=> Meant(log.entries, s)
<1>1. \A t : Between(ops, s, t) <=> Between(log.entries, s, t)
  BY DEF Between, Matches
<1> QED
  BY <1>1 DEF Meant

\* A journal that begins settles nothing: its call planned on these files.
LEMMA BeginsSettled ==
  ASSUME Due, NEW p \in Proc, Begins(p)
  PROVE  Settled(files', journal') = Settled(files, journal)
<1> DEFINE k == journal'
           s == Settled(files, journal)
           t == Settled(files', k)
<1>1. /\ \A n \in DOMAIN k.entries : t[k.entries[n].path] = k.entries[n].before
      /\ \A path \in Path : (\A n \in DOMAIN k.entries : k.entries[n].path # path) =>
           t[path] = DataIn(files, path)
  BY SettledPending DEF Begins
<1>2. \A path \in Path : s[path] = DataIn(files, path)
  BY SettledRest DEF Begins
<1>3. Meant(k.entries, s)
  BY MeantMatches DEF Begins, Due
<1>4. \A n \in DOMAIN k.entries : k.entries[n].before = s[k.entries[n].path]
  BY <1>3 DEF Meant, Between
<1>5. s = [path \in Path |-> s[path]] /\ t = [path \in Path |-> t[path]]
  BY DEF Settled
<1> HIDE DEF s, t, k
<1>6. ASSUME NEW path \in Path PROVE t[path] = s[path]
  BY <1>1, <1>2, <1>4
<1>7. s = t
  BY <1>5, <1>6
<1> QED
  BY <1>7 DEF s, t, k

\* A transaction that is undone settles nothing.
LEMMA RevertsSettled ==
  ASSUME Types, Reverts
  PROVE  Settled(files', journal') = Settled(files, journal)
<1> DEFINE j == journal
           s == Settled(files, j)
           t == Settled(files', journal')
<1>1. /\ \A n \in DOMAIN j.entries : s[j.entries[n].path] = j.entries[n].before
      /\ \A path \in Path : (\A n \in DOMAIN j.entries : j.entries[n].path # path) =>
           s[path] = DataIn(files, path)
  BY SettledPending DEF Reverts, Types, HomeType
<1>2. \A path \in Path : t[path] = DataIn(files, path)
  BY SettledRest DEF Reverts
<1>3. \A n \in DOMAIN j.entries : DataIn(files, j.entries[n].path) = j.entries[n].before
  BY DEF Reverts
<1>4. s = [path \in Path |-> s[path]] /\ t = [path \in Path |-> t[path]]
  BY DEF Settled
<1> HIDE DEF s, t, j
<1>5. ASSUME NEW path \in Path PROVE t[path] = s[path]
  BY <1>1, <1>2, <1>3
<1>6. s = t
  BY <1>4, <1>5
<1> QED
  BY <1>6 DEF s, t, j

\* One that is completed happens, as it was meant.
LEMMA CommitsHappens ==
  ASSUME Types, Due, Commits
  PROVE  Happens(InstalledOf(Settled(files, journal)), InstalledOf(Settled(files', journal')))
<1> DEFINE j == journal
           s == Settled(files, j)
           c == Settled(files', journal')
<1>1. /\ \A n \in DOMAIN j.entries : s[j.entries[n].path] = j.entries[n].before
      /\ \A path \in Path : (\A n \in DOMAIN j.entries : j.entries[n].path # path) =>
           s[path] = DataIn(files, path)
  BY SettledPending DEF Commits, Types, HomeType
<1>2. \A path \in Path : c[path] = DataIn(files, path)
  BY SettledRest DEF Commits
<1>3. \A n \in DOMAIN j.entries : DataIn(files, j.entries[n].path) = j.entries[n].after
  BY DEF Commits
<1>4. PICK t : Between(j.entries, s, t) /\ Happens(InstalledOf(s), InstalledOf(t))
  BY DEF Commits, Due, Meant
<1> HIDE DEF s, c, j
<1>5. ASSUME NEW path \in Path PROVE c[path] = t[path]
  <2>1. CASE \E n \in DOMAIN j.entries : j.entries[n].path = path
    BY <1>2, <1>3, <1>4, <2>1 DEF Between
  <2>2. CASE \A n \in DOMAIN j.entries : j.entries[n].path # path
    BY <1>1, <1>2, <1>4, <2>2 DEF Between
  <2> QED
    BY <2>1, <2>2
<1>6. \A h \in Host : c[<<h, "config">>] = t[<<h, "config">>] /\ c[<<h, "ownership">>] = t[<<h, "ownership">>]
  <2>1. \A h \in Host : <<h, "config">> \in Path /\ <<h, "ownership">> \in Path
    BY DEF Path, Kind
  <2> QED
    BY <1>5, <2>1
<1>7. InstalledOf(c) = InstalledOf(t)
  BY <1>6 DEF InstalledOf
<1> QED
  BY <1>4, <1>7 DEF s, c, j

LEMMA PcWritten ==
  ASSUME NEW w, "pc" \in DOMAIN w, NEW x
  PROVE  /\ [w EXCEPT !.pc = x].pc = x
         /\ \A y : [w EXCEPT !.log = y, !.pc = x].pc = x
         /\ \A y : [w EXCEPT !.done = y, !.pc = x].pc = x
         /\ \A y : [w EXCEPT !.back = y, !.pc = x].pc = x
         /\ \A y : [w EXCEPT !.pc = x, !.back = y].pc = x
         /\ \A path, new : "pc" \in DOMAIN [w EXCEPT !.held[path] = new]
         /\ \A y : "pc" \in DOMAIN [w EXCEPT !.log = y]
  OBVIOUS

\* A call begins once.
LEMMA AppliesOnce ==
  ASSUME IInv, NEW p \in Proc, Applying(work[p]), Begin(p) \/ Copy(p) \/ MarkAttempted(p)
           \/ Publish(p) \/ Confirm(p) \/ Revoke(p) \/ TakeBack(p)
  PROVE  work'[p].pc # "begin"
<1> DEFINE w == work[p]
           op == Current(w)
           seen == [w EXCEPT !.held[op.path] = NewFile(op.after, w.call)]
<1>1. ASSUME NEW v, Becomes(p, v), v.pc # "begin" PROVE work'[p].pc # "begin"
  BY <1>1 DEF Becomes, IInv
<1>2. "pc" \in DOMAIN w
  BY DEF Applying
<1>3. ASSUME NEW allowed, NEW f, NEW b, NEW j, NEW u, DiskStep(p, allowed, f, b, j, u), u.pc # "begin"
      PROVE  work'[p].pc # "begin"
  <2>1. PICK v : Becomes(p, v) /\ (v = u \/ \E log : Took(v, work[p], "rollback", log, work[p].done))
    BY <1>3, DiskOutcome
  <2>2. v.pc # "begin"
    BY <1>3, <2>1 DEF Took
  <2> QED
    BY <1>1, <2>1, <2>2
<1>4. ASSUME NEW u, "pc" \in DOMAIN u PROVE Advanced(u).pc # "begin"
  <2>1. Advanced(u).pc \in {"complete", "attempt", "copy"}
    BY <1>4, PcWritten DEF Advanced, StageOf
  <2> QED
    BY <2>1
<1>5. ASSUME NEW u, "pc" \in DOMAIN u PROVE NextBack(u).pc # "begin"
  BY <1>5, PcWritten DEF NextBack
<1> HIDE DEF w
<1>6. CASE Begin(p)
  <2> DEFINE log == Pending(w.call, w.ops)
             u == [w EXCEPT !.log = log, !.pc = StageOf(w.ops[1])]
  <2>1. u.pc = StageOf(w.ops[1])
    BY <1>2, PcWritten
  <2>2. DiskStep(p, LogHeld(w), files, backup, log, u)
    BY <1>6 DEF Begin, w
  <2>3. u.pc # "begin"
    BY <2>1, StageType
  <2> HIDE DEF u, log
  <2> QED
    BY <1>3, <2>2, <2>3
<1>7. CASE Copy(p)
  <2> DEFINE u == [w EXCEPT !.pc = "publish"]
  <2>1. u.pc # "begin"
    BY <1>2, PcWritten
  <2>2. \E allowed, b : DiskStep(p, allowed, files, b, journal, u)
    BY <1>7 DEF Copy, w
  <2> HIDE DEF u
  <2> QED
    BY <1>3, <2>1, <2>2
<1>8. CASE MarkAttempted(p)
  <2> DEFINE log == Marked(w.log, op.path, "attempted", None)
             u == [w EXCEPT !.log = log, !.pc = "publish"]
  <2>1. u.pc # "begin"
    BY <1>2, PcWritten
  <2>2. \E allowed : DiskStep(p, allowed, files, backup, log, u)
    BY <1>8 DEF MarkAttempted, w
  <2> HIDE DEF u, log
  <2> QED
    BY <1>3, <2>1, <2>2
<1>9. CASE Publish(p)
  <2> DEFINE u == IF op.before = None THEN [seen EXCEPT !.pc = "confirm"] ELSE Advanced(seen)
             f == [files EXCEPT ![op.path] = NewFile(op.after, w.call)]
  <2>1. "pc" \in DOMAIN seen
    BY <1>2, PcWritten
  <2>2. DiskStep(p, Held(w, op.path), f, backup, journal, u)
    BY <1>9 DEF Publish, w
  <2> HIDE DEF seen, f
  <2>3. [seen EXCEPT !.pc = "confirm"].pc # "begin" /\ Advanced(seen).pc # "begin"
    BY <1>4, <2>1, PcWritten
  <2>4. u.pc # "begin"
    BY <2>3
  <2> HIDE DEF u
  <2> QED
    BY <1>3, <2>2, <2>4
<1>10. CASE Confirm(p)
  <2> DEFINE log == Marked(w.log, op.path, "confirmed", w.call)
             u == [w EXCEPT !.log = log]
  <2>1. "pc" \in DOMAIN u
    BY <1>2, PcWritten
  <2>2. DiskStep(p, LogHeld(w) /\ Held(w, op.path), files, backup, log, Advanced(u))
    BY <1>10 DEF Confirm, w
  <2> HIDE DEF u, log
  <2> QED
    BY <1>3, <1>4, <2>1, <2>2
<1>11. CASE Revoke(p)
  <2> DEFINE log == Marked(w.log, w.ops[w.back].path, "revoked", None)
  <2>1. \/ Becomes(p, [w EXCEPT !.log = log, !.pc = "takeback"])
        \/ \E seen_log : Becomes(p, NextBack([w EXCEPT !.log = seen_log]))
        \/ Becomes(p, NextBack(w))
    BY <1>11 DEF Revoke, Skip, w
  <2>2. [w EXCEPT !.log = log, !.pc = "takeback"].pc # "begin"
    BY <1>2, PcWritten
  <2>3. \A y : "pc" \in DOMAIN [w EXCEPT !.log = y]
    BY <1>2, PcWritten
  <2>4. NextBack(w).pc # "begin" /\ \A y : NextBack([w EXCEPT !.log = y]).pc # "begin"
    BY <1>2, <1>5, <2>3
  <2> HIDE DEF log
  <2> QED
    BY <1>1, <2>1, <2>2, <2>4
<1>12. CASE TakeBack(p)
  <2>1. Becomes(p, NextBack(w))
    BY <1>12 DEF TakeBack, Skip, w
  <2> QED
    BY <1>1, <1>2, <1>5, <2>1
<1> QED
  BY <1>6, <1>7, <1>8, <1>9, <1>10, <1>11, <1>12

\* No step but the first of a call leaves it about to begin.
LEMMA BegunOnce ==
  ASSUME IInv, NEW p \in Proc, Step(p) \/ Crash(p) \/ StartRecover(p)
  PROVE  work'[p].pc # "begin"
<1>1. ASSUME NEW v, Becomes(p, v), v.pc # "begin" PROVE work'[p].pc # "begin"
  BY <1>1 DEF Becomes, IInv
<1>2. ASSUME Becomes(p, Idle) PROVE work'[p].pc # "begin"
  BY <1>1, <1>2 DEF Idle
<1>3. Work(work[p], backup)
  BY DEF IInv
<1>4. /\ work[p].pc \in ApplyStep => Applying(work[p])
      /\ work[p].pc \in {"disown", "undo"} => Recovering(work[p])
  BY <1>3, Which
<1>5. CASE Begin(p) \/ Copy(p) \/ MarkAttempted(p) \/ Publish(p) \/ Confirm(p) \/ Revoke(p) \/ TakeBack(p)
  <2>1. work[p].pc \in ApplyStep
    BY <1>5 DEF Begin, Copy, MarkAttempted, Publish, Confirm, Revoke, TakeBack, ApplyStep
  <2> QED
    BY <1>4, <1>5, <2>1, AppliesOnce
<1>6. CASE Complete(p) \/ EndRollback(p) \/ CloseJournal(p) \/ Crash(p)
  BY <1>2, <1>6 DEF Complete, EndRollback, CloseJournal, Crash
<1>7. CASE Disown(p) \/ Reassert(p) \/ Undo(p)
  <2> DEFINE w == work[p]
  <2>1. w.pc \in {"disown", "undo"}
    BY <1>7 DEF Disown, Reassert, Undo
  <2>2. "pc" \in DOMAIN w
    BY <1>4, <2>1 DEF Recovering
  <2>3. \/ Becomes(p, Idle)
        \/ \E log : Becomes(p, [w EXCEPT !.log = log])
        \/ Becomes(p, [w EXCEPT !.pc = "undo"])
        \/ \E k : Becomes(p, [w EXCEPT !.done = k])
    BY <1>7 DEF Disown, Reassert, Undo
  <2> HIDE DEF w
  <2>4. \A y : [w EXCEPT !.log = y].pc = w.pc /\ [w EXCEPT !.done = y].pc = w.pc
    BY <2>2
  <2>5. [w EXCEPT !.pc = "undo"].pc = "undo"
    BY <2>2
  <2> QED
    BY <1>1, <1>2, <2>1, <2>3, <2>4, <2>5
<1>8. CASE StartRecover(p)
  BY <1>1, <1>8 DEF StartRecover
<1> QED
  BY <1>5, <1>6, <1>7, <1>8 DEF Step

\* The call that has started is about to do what it was asked for.
LEMMA StartDue ==
  ASSUME Serial, IInv, Types, Turns, Fit, Due, NEW p \in Proc, StartApply(p) PROVE Due'
<1>1. PICK request \in Request :
        /\ Admissible(request) /\ Plan(request) # <<>>
        /\ Becomes(p, [pc |-> "begin", call |-> calls + 1, ops |-> Plan(request),
                       held |-> files, log |-> None, done |-> 0, back |-> 0])
  BY DEF StartApply
<1>2. journal = None /\ files' = files /\ journal' = journal
      /\ \A q \in Proc : work[q].pc = "idle"
  BY DEF StartApply, NothingPending, home, MayStart, Working
<1> DEFINE s == Settled(files, journal)
           c == DataMap
           t == TargetMap(request)
           ops == Plan(request)
<1>3. s = c
  <2>1. \A path \in Path : s[path] = DataIn(files, path)
    BY <1>2, SettledRest
  <2>2. c = [path \in Path |-> DataIn(files, path)]
    BY DEF DataMap, DataAt
  <2>3. s = [path \in Path |-> s[path]]
    BY DEF Settled
  <2> HIDE DEF s, c
  <2>4. s = [path \in Path |-> DataIn(files, path)]
    BY <2>1, <2>3
  <2> QED
    BY <2>2, <2>4
<1>4. AllFit(DataMap)
  BY <1>2 DEF Fit
<1>5. Between(ops, c, t)
  BY <1>1, PlanLeads
<1>6. Happens(InstalledOf(c), InstalledOf(t))
  BY <1>1, <1>4, CallHappens
<1> HIDE DEF s, c, t, ops
<1>7. Meant(ops, s)
  BY <1>3, <1>5, <1>6 DEF Meant
<1>8. work'[p].ops = ops /\ \A q \in Proc : q # p => work'[q] = work[q]
  BY <1>1 DEF Becomes, IInv, ops
<1>9. s' = s
  BY <1>2 DEF s
<1>10. \A q \in Proc : work'[q].pc = "begin" => Meant(work'[q].ops, s)
  BY <1>2, <1>7, <1>8
<1>11. Settled(files', journal') = s
  BY <1>2 DEF s
<1> QED
  BY <1>2, <1>10, <1>11 DEF Due

\* A transaction that goes on is meant as before.
LEMMA MovesDue ==
  ASSUME IInv, Types, Types', Turns, Due, NEW p \in Proc, Step(p), Moves(p)
  PROVE  /\ Due'
         /\ \/ Settled(files', journal') = Settled(files, journal)
            \/ Happens(InstalledOf(Settled(files, journal)), InstalledOf(Settled(files', journal')))
<1> DEFINE s == Settled(files, journal)
           t == Settled(files', journal')
<1>1. \A q \in Proc : work'[q].pc # "begin"
  <2>1. work'[p].pc # "begin"
    BY BegunOnce
  <2>2. \A q \in Proc : q # p => work[q].pc = "idle"
    BY StepWorks DEF Turns
  <2>3. \A q \in Proc : q # p => work'[q] = work[q]
    BY StepWorks DEF Becomes, IInv
  <2> QED
    BY <2>1, <2>2, <2>3
<1>2. SUFFICES /\ journal' # None => Meant(journal'.entries, t)
               /\ t = s \/ Happens(InstalledOf(s), InstalledOf(t))
  BY <1>1 DEF Due
<1>3. CASE Proceeds
  <2>1. t = s
    BY <1>3, GoesOnSettled
  <2>2. Meant(journal.entries, s)
    BY <1>3 DEF Proceeds, Due
  <2> HIDE DEF s, t
  <2>3. \A m : Between(journal.entries, s, m) => Between(journal'.entries, s, m)
    BY <1>3 DEF Proceeds, Alike, Between
  <2>4. Meant(journal'.entries, s)
    BY <2>2, <2>3 DEF Meant
  <2> QED
    BY <2>1, <2>4
<1>4. CASE Rests
  BY <1>4 DEF Rests
<1>5. CASE Begins(p)
  <2>1. t = s
    BY <1>5, BeginsSettled
  <2>2. Meant(work[p].ops, s)
    BY <1>5 DEF Begins, Due
  <2>3. Meant(journal'.entries, s)
    BY <1>5, <2>2, MeantMatches DEF Begins
  <2> HIDE DEF s, t
  <2> QED
    BY <2>1, <2>3
<1>6. CASE Commits
  BY <1>6, CommitsHappens DEF Commits
<1>7. CASE Reverts
  BY <1>7, RevertsSettled DEF Reverts
<1> QED
  BY <1>3, <1>4, <1>5, <1>6, <1>7 DEF Moves

LEMMA StepMoves ==
  ASSUME IInv, Types, Fit, NEW p \in Proc, Step(p) PROVE Moves(p)
<1>1. Work(work[p], backup)
  BY DEF IInv
<1>2. /\ work[p].pc \in ApplyStep => Applying(work[p])
      /\ work[p].pc \in {"disown", "undo"} => Recovering(work[p])
  BY <1>1, Which
<1>3. CASE Begin(p)
  BY <1>2, <1>3, BeginMoves DEF Begin, ApplyStep
<1>4. CASE Copy(p) \/ MarkAttempted(p) \/ Publish(p) \/ Confirm(p)
  <2>1. work[p].pc \in ApplyStep
    BY <1>4 DEF Copy, MarkAttempted, Publish, Confirm, ApplyStep
  <2> QED
    BY <1>2, <1>4, <2>1, MidMoves
<1>5. CASE Complete(p)
  BY <1>5, CompleteMoves
<1>6. CASE Revoke(p) \/ TakeBack(p)
  <2>1. work[p].pc \in ApplyStep
    BY <1>6 DEF Revoke, TakeBack, ApplyStep
  <2> QED
    BY <1>2, <1>6, <2>1, BackMoves
<1>7. CASE EndRollback(p)
  <2>1. files' = files /\ journal' = journal
    BY <1>7 DEF EndRollback, home
  <2> QED
    BY <2>1, StillMoves DEF Moves
<1>8. CASE Disown(p) \/ Reassert(p) \/ Undo(p) \/ CloseJournal(p)
  <2>1. work[p].pc \in {"disown", "undo"}
    BY <1>8 DEF Disown, Reassert, Undo, CloseJournal
  <2> QED
    BY <1>2, <1>8, <2>1, RecoverMoves
<1> QED
  BY <1>3, <1>4, <1>5, <1>6, <1>7, <1>8 DEF Step

DueInv == edits = 0 => Due

\* Under turns a step settles nothing, or completes what a call was asked for.
LEMMA DueStep ==
  ASSUME Serial, IInv, Types, Turns, FInv, DueInv, [Next]_vars, edits' = 0
  PROVE  /\ Due'
         /\ \/ Settled(files', journal') = Settled(files, journal)
            \/ Happens(InstalledOf(Settled(files, journal)), InstalledOf(Settled(files', journal')))
<1>1. Types'
  BY TypesKept
<1>2. ASSUME edits' = edits PROVE Fit /\ Due
  BY <1>2 DEF FInv, Quiet, DueInv, Turns
<1>3. ASSUME NEW p \in Proc, Step(p)
      PROVE  /\ Due'
             /\ \/ Settled(files', journal') = Settled(files, journal)
                \/ Happens(InstalledOf(Settled(files, journal)), InstalledOf(Settled(files', journal')))
  <2>1. Fit /\ Due
    BY <1>2, <1>3, StepLeaves
  <2> QED
    BY <1>1, <1>3, <2>1, StepMoves, MovesDue
<1>4. ASSUME NEW p \in Proc, StartRecover(p) \/ Crash(p)
      PROVE  Due' /\ Settled(files', journal') = Settled(files, journal)
  <2>1. Due /\ files' = files /\ journal' = journal
    BY <1>2, <1>4 DEF StartRecover, Crash, home
  <2>2. \A q \in Proc : work'[q].pc = "begin" => work'[q] = work[q]
    <3>1. work'[p].pc # "begin"
      BY <1>4, BegunOnce
    <3>2. \E v : Becomes(p, v)
      BY <1>4, Zenon DEF StartRecover, Crash
    <3> QED
      BY <3>1, <3>2 DEF Becomes, IInv
  <2>3. \A q \in Proc : work'[q].pc = "begin" =>
          journal' = None /\ Meant(work'[q].ops, Settled(files', journal'))
    BY <2>1, <2>2 DEF Due
  <2>4. journal' # None => Meant(journal'.entries, Settled(files', journal'))
    BY <2>1 DEF Due
  <2> QED
    BY <2>1, <2>3, <2>4 DEF Due
<1>5. ASSUME NEW p \in Proc, StartApply(p)
      PROVE  Due' /\ Settled(files', journal') = Settled(files, journal)
  <2>1. Fit /\ Due /\ files' = files /\ journal' = journal
    BY <1>2, <1>5 DEF StartApply, home
  <2>2. Due'
    BY <1>5, <2>1, StartDue
  <2> QED
    BY <2>1, <2>2
<1>6. ASSUME NEW path \in Path, Peer(path) PROVE FALSE
  BY <1>6 DEF Peer, Types
<1>7. CASE UNCHANGED vars
  <2>1. Due /\ UNCHANGED <<files, journal, work>>
    BY <1>2, <1>7 DEF vars, home
  <2>2. \A q \in Proc : work'[q].pc = "begin" =>
          journal' = None /\ Meant(work'[q].ops, Settled(files', journal'))
    BY <2>1 DEF Due
  <2>3. journal' # None => Meant(journal'.entries, Settled(files', journal'))
    BY <2>1 DEF Due
  <2> QED
    BY <2>1, <2>2, <2>3 DEF Due
<1> QED
  BY <1>3, <1>4, <1>5, <1>6, <1>7 DEF Next

LEMMA InitInstalls == Init => DueInv /\ Installation!Init
<1> SUFFICES ASSUME Init PROVE Due /\ Installation!Init
  BY DEF DueInv
<1>1. journal = None /\ \A p \in Proc : work[p].pc = "idle"
  BY DEF Init, Idle
<1>2. ASSUME NEW h \in Host PROVE InstalledNow[h] \in Installation!Installed \cup {None}
  <2> DEFINE i == InstalledOf(DataMap)
             config == DataAt(<<h, "config">>)
             r == Owned(h)
  <2>1. FitsIn(DataMap, h) /\ config \in ConfigData \cup {None}
    BY InitData DEF AllFit
  <2>2. InstalledNow[h] = i[h]
    <3>1. /\ Committed(<<h, "config">>) = DataAt(<<h, "config">>)
          /\ Committed(<<h, "ownership">>) = DataAt(<<h, "ownership">>)
          /\ <<h, "config">> \in Path /\ <<h, "ownership">> \in Path
      BY <1>1 DEF Committed, Path, Kind
    <3> QED
      BY <3>1 DEF InstalledNow, InstalledOf, DataMap
  <2>3. /\ i[h] = None <=> config = None
        /\ i[h] = None <=> r = None
        /\ i[h] # None => i[h] = [release |-> r, projects |-> Projects(h)]
    BY <2>1, InstalledAt
  <2>4. r \in Release \cup {None}
    <3>1. <<h, "ownership">> \in Path /\ DataMap[<<h, "ownership">>] = DataAt(<<h, "ownership">>)
      BY DEF DataMap, Path, Kind
    <3>2. PICK x \in Release \cup {None} : DataAt(<<h, "ownership">>) = OwnershipOf(x)
      BY <2>1, <3>1 DEF FitsIn, Goes
    <3> QED
      BY <3>2, Written DEF OwnershipOf, Owned
  <2> HIDE DEF i, r
  <2>5. ASSUME i[h] # None PROVE i[h] \in Installation!Installed
    <3>1. config \in ConfigData /\ r \in Release
      BY <2>1, <2>3, <2>4, <2>5
    <3>2. Projects(h) = config.projects /\ Projects(h) \in (SUBSET Project) \ {{}}
      BY <2>3, <2>5, <3>1 DEF Projects, ConfigData
    <3> QED
      BY <2>3, <2>5, <3>1, <3>2 DEF Installation!Installed
  <2> QED
    BY <2>2, <2>5
<1>3. InstalledNow = [h \in Host |-> InstalledNow[h]]
  BY DEF InstalledNow
<1> HIDE DEF InstalledNow
<1>4. Installation!Init
  BY <1>2, <1>3 DEF Installation!Init
<1>5. Due
  BY <1>1 DEF Due
<1> QED
  BY <1>4, <1>5

\* As long as no other program meddles and callers take turns, the installer
\* implements Installation: an install or a removal happens on all the hosts it
\* names at once, when its journal goes, or not at all.
THEOREM ImplementsInstallationHolds ==
  ASSUME Serial PROVE Spec => ImplementsInstallation
<1>1. Spec => []IInv
  BY Initial, Inductive, PTL DEF Spec
<1>2. Spec => []Types
  BY <1>1, InitTypes, TypesKept, PTL DEF Spec
<1>3. Spec => []FInv
  BY <1>1, <1>2, InitFit, FitKept, PTL DEF Spec
<1>4. Spec => []Turns
  <2>1. IInv /\ Turns /\ [Next]_vars => Turns'
    BY TurnsKept
  <2> QED
    BY <1>1, <2>1, InitTurns, PTL DEF Spec
<1>5. IInv /\ Types /\ Turns /\ FInv /\ DueInv /\ [Next]_vars => DueInv'
  BY DueStep DEF DueInv
<1>6. IInv /\ Types /\ Turns /\ FInv /\ DueInv /\ [Next]_vars =>
        [edits' = 0 => Installation!Next]_InstalledNow
  <2> SUFFICES ASSUME IInv, Types, Turns, FInv, DueInv, [Next]_vars, edits' = 0,
                      InstalledNow' # InstalledNow
               PROVE  Installation!Next
    OBVIOUS
  <2>1. Happens(InstalledNow, InstalledNow')
    BY DueStep, SettledNow
  <2>2. DOMAIN InstalledNow = Host /\ InstalledNow' = [h \in Host |-> InstalledNow'[h]]
    BY SettledNow DEF InstalledOf
  <2> QED
    BY <2>1, <2>2, HappensIsStep
<1>7. Spec => []DueInv
  BY <1>1, <1>2, <1>3, <1>4, <1>5, InitInstalls, PTL DEF Spec
<1> QED
  BY <1>1, <1>2, <1>3, <1>4, <1>6, <1>7, InitInstalls, PTL DEF Spec, ImplementsInstallation
=============================================================================
