--------------------------- MODULE HoldoutLedger ---------------------------
(***************************************************************************)
(* The holdout ledger (protocol.py): a JSON file that records which        *)
(* holdout corpora were spent, and on which evidence.  Any number of       *)
(* processes evaluate holdouts; each reads, decides and writes while it    *)
(* holds a lock file created with O_CREAT | O_EXCL.                        *)
(*                                                                         *)
(* Nothing is atomic here but single system calls: the exclusive create,   *)
(* the read of the file, the rename over it and the unlink of the lock are *)
(* steps of their own, and a process may die between any two of them.  The *)
(* lock file has no owner: a process that dies holding it leaves it there. *)
(***************************************************************************)
EXTENDS Naturals, Holdouts

CONSTANTS
  Process,   \* the processes that share the ledger
  Evidence,  \* what a receipt binds: protocol, epoch, verdict, measurements
  MaxCalls   \* bound on the calls made, over all processes

ASSUME UnspentAssumption == Unspent \notin Evidence
ASSUME MaxCallsAssumption == MaxCalls \in Nat

VARIABLES
  lock,      \* whether the lock file exists
  entries,   \* the ledger file: the receipt of each corpus
  pc,        \* where each process is in its call
  job,       \* the call each process is making
  snapshot,  \* the entries each process read
  calls,     \* history: how many calls were made
  ended,     \* history: how each finished call ended
  spender    \* history: the call that spent each corpus, or 0

file == <<lock, entries>>
vars == <<file, pc, job, snapshot, calls, ended, spender>>

Operation == {"evaluate", "require"}
Job == [call : 1..MaxCalls, op : Operation, corpus : Corpus, evidence : Evidence]
NoJob == [call |-> 0]

\* The steps of a call: those under the lock, and the others.
Critical == {"locked", "read", "staged", "replaced", "refused"}
Step == {"idle", "waiting", "answering"} \cup Critical

\* The end of a call; only the answers of Refusal are ProtocolViolations.
Refusal == {"LockTimeout", "Unreadable", "AlreadyConsumed", "NotBound"}
Answer == Refusal \cup {"Verdict", "Bound", "OSError", "Died"}

End(p, answer) ==
  ended' = ended \cup {[call |-> job[p].call, op |-> job[p].op,
                        corpus |-> job[p].corpus, evidence |-> job[p].evidence,
                        answer |-> answer]}

Goto(p, step) == pc' = [pc EXCEPT ![p] = step]

-----------------------------------------------------------------------------
Init ==
  /\ lock = FALSE
  /\ entries = NoReceipts
  /\ pc = [p \in Process |-> "idle"]
  /\ job = [p \in Process |-> NoJob]
  /\ snapshot = [p \in Process |-> NoReceipts]
  /\ calls = 0
  /\ ended = {}
  /\ spender = [c \in Corpus |-> 0]

\* evaluate scores before it touches the ledger, so a call that gets here has
\* a verdict on a holdout; require_consumption starts here too.  At most
\* MaxCalls calls.
Begin(p, op, c, ev) ==
  /\ pc[p] = "idle"
  /\ calls < MaxCalls
  /\ calls' = calls + 1
  /\ job' = [job EXCEPT ![p] = [call |-> calls + 1, op |-> op,
                                corpus |-> c, evidence |-> ev]]
  /\ Goto(p, "waiting")
  /\ UNCHANGED <<file, snapshot, ended, spender>>

\* Mutant: the lock is taken by a create that is not exclusive.
AcquireShared(p) ==
  /\ pc[p] = "waiting"
  /\ lock' = TRUE
  /\ Goto(p, "locked")
  /\ UNCHANGED <<entries, job, snapshot, calls, ended, spender>>

\* The exclusive create of the lock file succeeds.
Acquire(p) ==
  /\ pc[p] = "waiting"
  /\ ~lock
  /\ lock' = TRUE
  /\ Goto(p, "locked")
  /\ UNCHANGED <<entries, job, snapshot, calls, ended, spender>>

\* Mutant: the deadline is computed again at every attempt, so it never passes.
TimeOutNever(p) ==
  FALSE /\ pc[p] = "waiting" /\ UNCHANGED vars

\* The lock file exists and the deadline has passed.
TimeOut(p) ==
  /\ pc[p] = "waiting"
  /\ lock
  /\ End(p, "LockTimeout")
  /\ Goto(p, "idle")
  /\ UNCHANGED <<file, job, snapshot, calls, spender>>

ReadEntries(p) ==
  /\ pc[p] = "locked"
  /\ snapshot' = [snapshot EXCEPT ![p] = entries]
  /\ Goto(p, "read")
  /\ UNCHANGED <<file, job, calls, ended, spender>>

\* The file cannot be read or parsed: it is never taken for an empty one.
ReadFails(p) ==
  /\ pc[p] = "locked"
  /\ End(p, "Unreadable")
  /\ Goto(p, "refused")
  /\ UNCHANGED <<file, job, snapshot, calls, spender>>

\* consume refuses a corpus that the entries it read already name.
Refuse(p) ==
  /\ pc[p] = "read"
  /\ job[p].op = "evaluate"
  /\ snapshot[p][job[p].corpus] # Unspent
  /\ End(p, "AlreadyConsumed")
  /\ Goto(p, "refused")
  /\ UNCHANGED <<file, job, snapshot, calls, spender>>

\* Mutant: a corpus spent on other evidence (another protocol) is armed again.
StageRearmed(p) ==
  /\ pc[p] = "read"
  /\ job[p].op = "evaluate"
  /\ snapshot[p][job[p].corpus] # job[p].evidence
  /\ snapshot' = [snapshot EXCEPT ![p][job[p].corpus] = job[p].evidence]
  /\ Goto(p, "staged")
  /\ UNCHANGED <<file, job, calls, ended, spender>>

\* Mutant: what the caller passed is stored without being validated.
StageUnvalidated(p) ==
  /\ pc[p] = "read"
  /\ job[p].op = "evaluate"
  /\ snapshot[p][job[p].corpus] = Unspent
  /\ snapshot' = [snapshot EXCEPT ![p][job[p].corpus] = job[p]]
  /\ Goto(p, "staged")
  /\ UNCHANGED <<file, job, calls, ended, spender>>

\* Otherwise it writes its receipt among them, to a temporary file.
Stage(p) ==
  /\ pc[p] = "read"
  /\ job[p].op = "evaluate"
  /\ snapshot[p][job[p].corpus] = Unspent
  /\ snapshot' = [snapshot EXCEPT ![p][job[p].corpus] = job[p].evidence]
  /\ Goto(p, "staged")
  /\ UNCHANGED <<file, job, calls, ended, spender>>

\* Mutant: the write is tried again after the rename, and then fails.
StageFailsLate(p) ==
  /\ pc[p] \in {"staged", "replaced"}
  /\ End(p, "OSError")
  /\ Goto(p, "refused")
  /\ UNCHANGED <<file, job, snapshot, calls, spender>>

\* The temporary file cannot be written: it is removed and the error raised.
StageFails(p) ==
  /\ pc[p] = "staged"
  /\ End(p, "OSError")
  /\ Goto(p, "refused")
  /\ UNCHANGED <<file, job, snapshot, calls, spender>>

\* Mutant: the rename publishes only the receipt of this call.
ReplaceAlone(p) ==
  /\ pc[p] = "staged"
  /\ entries' = [NoReceipts EXCEPT ![job[p].corpus] = job[p].evidence]
  /\ spender' = [spender EXCEPT ![job[p].corpus] = job[p].call]
  /\ Goto(p, "replaced")
  /\ UNCHANGED <<lock, job, snapshot, calls, ended>>

\* The temporary file is renamed over the ledger.
Replace(p) ==
  /\ pc[p] = "staged"
  /\ entries' = snapshot[p]
  /\ spender' = [spender EXCEPT ![job[p].corpus] = job[p].call]
  /\ Goto(p, "replaced")
  /\ UNCHANGED <<lock, job, snapshot, calls, ended>>

\* Leaving the block of the lock removes its file, whatever happened inside.
Release(p) ==
  /\ \/ pc[p] = "refused" /\ Goto(p, "idle")
     \/ pc[p] = "replaced" /\ Goto(p, "answering")
     \/ pc[p] = "read" /\ job[p].op = "require" /\ Goto(p, "answering")
  /\ lock' = FALSE
  /\ UNCHANGED <<entries, job, snapshot, calls, ended, spender>>

\* evaluate returns its verdict only now.
ReturnVerdict(p) ==
  /\ pc[p] = "answering"
  /\ job[p].op = "evaluate"
  /\ End(p, "Verdict")
  /\ Goto(p, "idle")
  /\ UNCHANGED <<file, job, snapshot, calls, spender>>

\* require_consumption compares, after the lock is released, what it read.
Compare(p) ==
  /\ pc[p] = "answering"
  /\ job[p].op = "require"
  /\ End(p, IF snapshot[p][job[p].corpus] = job[p].evidence
            THEN "Bound" ELSE "NotBound")
  /\ Goto(p, "idle")
  /\ UNCHANGED <<file, job, snapshot, calls, spender>>

\* A process dies in the middle of a call: the lock file stays if it held it.
Crash(p) ==
  /\ pc[p] # "idle"
  /\ IF pc[p] = "refused" THEN UNCHANGED ended ELSE End(p, "Died")
  /\ Goto(p, "idle")
  /\ UNCHANGED <<file, job, snapshot, calls, spender>>

Work(p) ==
  \/ Acquire(p) \/ TimeOut(p) \/ ReadEntries(p) \/ Refuse(p) \/ Stage(p)
  \/ Replace(p) \/ Release(p) \/ ReturnVerdict(p) \/ Compare(p)

Fault(p) == ReadFails(p) \/ StageFails(p) \/ Crash(p)

Next ==
  \E p \in Process :
    \/ Work(p) \/ Fault(p)
    \/ \E op \in Operation, c \in Corpus, ev \in Evidence : Begin(p, op, c, ev)

Spec == Init /\ [][Next]_vars

\* A process inside a call keeps running: its loop retries the lock or gives
\* up, and nothing it does under the lock waits.
FairSpec == Spec /\ \A p \in Process : WF_vars(Work(p))

-----------------------------------------------------------------------------
(* Properties.                                                             *)

\* Every variable holds a value of its kind.
TypeOK ==
  /\ lock \in BOOLEAN
  /\ entries \in [Corpus -> Evidence \cup {Unspent}]
  /\ pc \in [Process -> Step]
  /\ job \in [Process -> Job \cup {NoJob}]
  /\ snapshot \in [Process -> [Corpus -> Evidence \cup {Unspent}]]
  /\ calls \in 0..MaxCalls
  /\ \A e \in ended : e.answer \in Answer
  /\ spender \in [Corpus -> 0..MaxCalls]

\* One final verdict per corpus: no two calls are ever given a verdict on the
\* same holdout corpus, whatever protocol, measurements or process they use.
OneVerdictPerCorpus ==
  \A e, f \in ended :
    /\ e.answer = "Verdict" /\ f.answer = "Verdict" /\ e.corpus = f.corpus
    => e.call = f.call

\* A verdict that was returned has its receipt in the file, and so has every
\* evidence that require_consumption ever found bound: the answer does not go
\* stale although the comparison is made without the lock.
AnswersAreRecorded ==
  \A e \in ended :
    e.answer \in {"Verdict", "Bound"} => entries[e.corpus] = e.evidence

\* A refused evaluation never spends the holdout, nor does one whose write
\* failed: only a verdict, or the death of the process, follows a spend.
RefusedNeverSpends ==
  \A e \in ended :
    e.answer \in Refusal \cup {"OSError"} => \A c \in Corpus : spender[c] # e.call

\* Receipts are written once and kept: two processes that spend different
\* corpora both land, and a spent corpus is never armed again.
Receipts == INSTANCE WriteOnce WITH
  Key <- Corpus, Value <- Evidence, Empty <- Unspent, cell <- entries

ImplementsWriteOnce == Receipts!Spec

\* Every call ends, even behind a lock file that a dead process left: the
\* deadline of the lock turns waiting into a refusal.
EveryCallEnds == \A p \in Process : pc[p] # "idle" ~> pc[p] = "idle"
=============================================================================
