------------------------ MODULE HoldoutLedgerProofs ------------------------
(***************************************************************************)
(* The holdout discipline, for every number of processes, corpora and      *)
(* calls, and for a crash at any step.                                     *)
(***************************************************************************)
EXTENDS HoldoutLedger, TLAPS

\* The lock file exists while a process is in its block, and only one is.
\* (It may also exist when none is: a dead process left it.)
Exclusive ==
  /\ \A p \in Process : pc[p] \in Critical => lock
  /\ \A p, q \in Process : pc[p] \in Critical /\ pc[q] \in Critical => p = q

\* Under the lock, what a process read is what the file still holds.
Fresh ==
  \A p \in Process :
    /\ pc[p] = "read" => snapshot[p] = entries
    /\ pc[p] = "staged" =>
         /\ job[p].op = "evaluate"
         /\ entries[job[p].corpus] = Unspent
         /\ snapshot[p] = [entries EXCEPT ![job[p].corpus] = job[p].evidence]
    /\ pc[p] = "replaced" => job[p].op = "evaluate"

\* Each call has a number of its own, and has not ended while it runs.
Numbered ==
  /\ \A p \in Process :
       pc[p] # "idle" => job[p] \in Job /\ job[p].call \in 1..calls
  /\ \A p, q \in Process :
       /\ pc[p] # "idle" /\ pc[q] # "idle" /\ job[p].call = job[q].call
       => p = q
  /\ \A e \in ended : e.call \in 1..calls
  /\ \A p \in Process :
       pc[p] \notin {"idle", "refused"} => \A e \in ended : e.call # job[p].call
  /\ \A c \in Corpus : spender[c] \in 0..calls

\* A call has spent its corpus exactly from its rename on.
Spent ==
  /\ \A c \in Corpus : spender[c] = 0 <=> entries[c] = Unspent
  /\ \A p \in Process :
       IF pc[p] \in {"replaced", "answering"} /\ job[p].op = "evaluate"
       THEN /\ spender[job[p].corpus] = job[p].call
            /\ entries[job[p].corpus] = job[p].evidence
       ELSE pc[p] # "idle" => \A c \in Corpus : spender[c] # job[p].call

\* What require_consumption read stays true after the lock is released.
Stable ==
  \A p \in Process :
    pc[p] = "answering" /\ job[p].op = "require" =>
      \A c \in Corpus : snapshot[p][c] # Unspent => entries[c] = snapshot[p][c]

\* What a finished call was told stays true of the file.
Told ==
  \A e \in ended :
    /\ e.answer = "Verdict" => e.corpus \in Corpus /\ spender[e.corpus] = e.call
    /\ e.answer \in {"Verdict", "Bound"} =>
         /\ e.corpus \in Corpus /\ e.evidence \in Evidence
         /\ entries[e.corpus] = e.evidence
    /\ e.answer \in Refusal \cup {"OSError"} =>
         \A c \in Corpus : spender[c] # e.call

Inv == TypeOK /\ Exclusive /\ Fresh /\ Numbered /\ Spent /\ Stable /\ Told

-----------------------------------------------------------------------------
LEMMA InitInv == Init => Inv
<1> SUFFICES ASSUME Init PROVE Inv
  OBVIOUS
<1>1. /\ \A p \in Process : pc[p] = "idle"
      /\ ended = {}
      /\ \A c \in Corpus : entries[c] = Unspent /\ spender[c] = 0
      /\ calls = 0
  BY DEF Init, NoReceipts
<1>2. TypeOK
  <2>1. lock \in BOOLEAN /\ pc \in [Process -> Step]
    BY DEF Init, Step
  <2>2. NoReceipts \in [Corpus -> Evidence \cup {Unspent}]
    BY DEF NoReceipts
  <2>3. /\ entries \in [Corpus -> Evidence \cup {Unspent}]
        /\ snapshot \in [Process -> [Corpus -> Evidence \cup {Unspent}]]
    BY <2>2 DEF Init
  <2>4. job \in [Process -> Job \cup {NoJob}]
    BY DEF Init
  <2>5. calls \in 0..MaxCalls /\ spender \in [Corpus -> 0..MaxCalls]
    BY MaxCallsAssumption DEF Init
  <2>6. QED
    BY <1>1, <2>1, <2>3, <2>4, <2>5 DEF TypeOK
<1>3. Exclusive /\ Fresh /\ Numbered
  BY <1>1 DEF Exclusive, Fresh, Numbered, Critical
<1>4. Spent /\ Stable /\ Told
  BY <1>1 DEF Spent, Stable, Told
<1>5. QED
  BY <1>2, <1>3, <1>4 DEF Inv

LEMMA JobFields ==
  ASSUME NEW j \in Job
  PROVE  /\ j.call \in 1..MaxCalls /\ j.op \in Operation
         /\ j.corpus \in Corpus /\ j.evidence \in Evidence
BY DEF Job

LEMMA NextType == Inv /\ [Next]_vars => TypeOK'
<1> SUFFICES ASSUME Inv, [Next]_vars PROVE TypeOK'
  OBVIOUS
<1> USE DEF TypeOK, Goto, End, Step, Critical, Answer, Refusal, file
<1>1. ASSUME NEW p \in Process, NEW op \in Operation, NEW c \in Corpus,
             NEW ev \in Evidence, Begin(p, op, c, ev)
      PROVE  TypeOK'
  <2>1. calls' \in 0..MaxCalls /\ calls + 1 \in 1..MaxCalls
    BY <1>1, MaxCallsAssumption DEF Begin, Inv
  <2>2. job' \in [Process -> Job \cup {NoJob}]
    BY <1>1, <2>1 DEF Begin, Inv, Job
  <2>3. QED
    BY <1>1, <2>1, <2>2 DEF Begin, Inv
<1>2. ASSUME NEW p \in Process, Stage(p) PROVE TypeOK'
  <2>1. job[p].corpus \in Corpus /\ job[p].evidence \in Evidence
    BY <1>2, JobFields DEF Stage, Inv, Numbered
  <2>2. snapshot' \in [Process -> [Corpus -> Evidence \cup {Unspent}]]
    BY <1>2, <2>1 DEF Stage, Inv
  <2>3. QED
    BY <1>2, <2>2 DEF Stage, Inv
<1>3. ASSUME NEW p \in Process, Replace(p) PROVE TypeOK'
  <2>1. job[p].corpus \in Corpus /\ job[p].call \in 0..MaxCalls
    BY <1>3, JobFields DEF Replace, Inv, Numbered
  <2>2. QED
    BY <1>3, <2>1 DEF Replace, Inv
<1>4. ASSUME NEW p \in Process,
             \/ Acquire(p) \/ ReadEntries(p) \/ Release(p)
      PROVE  TypeOK'
  BY <1>4 DEF Acquire, ReadEntries, Release, Inv
<1>5. ASSUME NEW p \in Process,
             \/ TimeOut(p) \/ ReadFails(p) \/ Refuse(p) \/ StageFails(p)
             \/ ReturnVerdict(p) \/ Compare(p) \/ Crash(p)
      PROVE  TypeOK'
  BY <1>5
  DEF TimeOut, ReadFails, Refuse, StageFails, ReturnVerdict, Compare, Crash, Inv
<1>6. CASE UNCHANGED vars
  BY <1>6 DEF vars, Inv
<1>7. QED
  BY <1>1, <1>2, <1>3, <1>4, <1>5, <1>6 DEF Next, Work, Fault

LEMMA NextExclusive == Inv /\ [Next]_vars => Exclusive'
<1> SUFFICES ASSUME Inv, [Next]_vars PROVE Exclusive'
  OBVIOUS
<1> USE DEF Exclusive, Goto, Critical, file, TypeOK, Inv
<1>1. ASSUME NEW p \in Process, Acquire(p) PROVE Exclusive'
  BY <1>1 DEF Acquire
<1>2. ASSUME NEW p \in Process, Release(p) PROVE Exclusive'
  BY <1>2 DEF Release
<1>3. ASSUME NEW p \in Process,
             \/ TimeOut(p) \/ ReadEntries(p) \/ ReadFails(p) \/ Refuse(p)
             \/ Stage(p) \/ StageFails(p) \/ Replace(p)
             \/ ReturnVerdict(p) \/ Compare(p) \/ Crash(p)
             \/ \E op \in Operation, c \in Corpus, ev \in Evidence :
                  Begin(p, op, c, ev)
      PROVE  Exclusive'
  BY <1>3 DEF TimeOut, ReadEntries, ReadFails, Refuse, Stage, StageFails, Replace,
     ReturnVerdict, Compare, Crash, Begin
<1>4. CASE UNCHANGED vars
  BY <1>4 DEF vars
<1>5. QED
  BY <1>1, <1>2, <1>3, <1>4 DEF Next, Work, Fault

LEMMA NextFresh == Inv /\ [Next]_vars => Fresh'
<1> SUFFICES ASSUME Inv, [Next]_vars PROVE Fresh'
  OBVIOUS
<1> USE DEF Fresh, Goto, file, TypeOK, Inv
<1>1. ASSUME NEW p \in Process, Replace(p) PROVE Fresh'
  BY <1>1 DEF Replace, Exclusive, Critical
<1>2. ASSUME NEW p \in Process, Stage(p) PROVE Fresh'
  BY <1>2 DEF Stage
<1>3. ASSUME NEW p \in Process,
             \/ Acquire(p) \/ Release(p) \/ TimeOut(p) \/ ReadEntries(p)
             \/ ReadFails(p) \/ Refuse(p) \/ StageFails(p)
             \/ ReturnVerdict(p) \/ Compare(p) \/ Crash(p)
             \/ \E op \in Operation, c \in Corpus, ev \in Evidence :
                  Begin(p, op, c, ev)
      PROVE  Fresh'
  <2>1. CASE Acquire(p) \/ Release(p) \/ TimeOut(p)
    BY <2>1 DEF Acquire, Release, TimeOut
  <2>2. CASE ReadEntries(p)
    BY <2>2 DEF ReadEntries
  <2>3. CASE ReadFails(p) \/ Refuse(p) \/ StageFails(p)
    BY <2>3 DEF ReadFails, Refuse, StageFails
  <2>4. CASE ReturnVerdict(p) \/ Compare(p) \/ Crash(p)
    BY <2>4 DEF ReturnVerdict, Compare, Crash
  <2>5. CASE \E op \in Operation, c \in Corpus, ev \in Evidence : Begin(p, op, c, ev)
    BY <2>5 DEF Begin
  <2>6. QED
    BY <1>3, <2>1, <2>2, <2>3, <2>4, <2>5
<1>4. CASE UNCHANGED vars
  BY <1>4 DEF vars
<1>5. QED
  BY <1>1, <1>2, <1>3, <1>4 DEF Next, Work, Fault

LEMMA NextNumbered == Inv /\ [Next]_vars => Numbered'
<1> SUFFICES ASSUME Inv, [Next]_vars PROVE Numbered'
  OBVIOUS
<1> USE DEF Numbered, Goto, TypeOK, Inv
<1>1. ASSUME NEW p \in Process, NEW op \in Operation, NEW c \in Corpus,
             NEW ev \in Evidence, Begin(p, op, c, ev)
      PROVE  Numbered'
  <2> DEFINE j == [call |-> calls + 1, op |-> op, corpus |-> c, evidence |-> ev]
  <2>1. j \in Job /\ j.call = calls + 1
    BY <1>1, MaxCallsAssumption DEF Begin, Job
  <2>2. job' = [job EXCEPT ![p] = j] /\ calls' = calls + 1 /\ calls \in Nat
        /\ pc' = [pc EXCEPT ![p] = "waiting"]
        /\ UNCHANGED <<ended, spender>>
    BY <1>1 DEF Begin
  <2> HIDE DEF j
  <2>3. \A q \in Process :
          /\ q = p => job'[q] = j
          /\ q # p => job'[q] = job[q] /\ pc'[q] = pc[q]
    BY <2>2
  <2>4. \A q \in Process :
          pc'[q] # "idle" => job'[q] \in Job /\ job'[q].call \in 1..calls'
    BY <2>1, <2>2, <2>3
  <2>5. \A q, r \in Process :
          /\ pc'[q] # "idle" /\ pc'[r] # "idle" /\ job'[q].call = job'[r].call
          => q = r
    <3> SUFFICES ASSUME NEW q \in Process, NEW r \in Process,
                        pc'[q] # "idle", pc'[r] # "idle",
                        job'[q].call = job'[r].call, q # r
                 PROVE  FALSE
      OBVIOUS
    <3>1. CASE q = p
      BY <2>1, <2>2, <2>3, <3>1
    <3>2. CASE r = p
      BY <2>1, <2>2, <2>3, <3>2
    <3>3. QED
      BY <2>3, <3>1, <3>2
  <2>6. \A e \in ended' : e.call \in 1..calls'
    BY <2>2
  <2>7. \A q \in Process : pc'[q] \notin {"idle", "refused"} =>
          \A e \in ended' : e.call # job'[q].call
    <3> SUFFICES ASSUME NEW q \in Process, pc'[q] \notin {"idle", "refused"},
                        NEW e \in ended'
                 PROVE  e.call # job'[q].call
      OBVIOUS
    <3>1. CASE q = p
      BY <2>1, <2>2, <2>3, <3>1
    <3>2. CASE q # p
      BY <2>2, <2>3, <3>2
    <3>3. QED
      BY <3>1, <3>2
  <2>8. \A d \in Corpus : spender'[d] \in 0..calls'
    BY <2>2
  <2>9. QED
    BY <2>4, <2>5, <2>6, <2>7, <2>8
<1>2. ASSUME NEW p \in Process, NEW answer, End(p, answer),
             pc[p] \notin {"idle", "refused"}, pc'[p] \in {"idle", "refused"},
             \A q \in Process : q # p => pc'[q] = pc[q],
             UNCHANGED <<job, calls, spender>>
      PROVE  Numbered'
  <2>1. \A e \in ended' : e \in ended \/ e.call = job[p].call
    BY <1>2 DEF End
  <2>2. job[p].call \in 1..calls
    BY <1>2
  <2>3. \A e \in ended' : e.call \in 1..calls'
    BY <1>2, <2>1, <2>2
  <2>4. \A q \in Process : pc'[q] \notin {"idle", "refused"} =>
          \A e \in ended' : e.call # job'[q].call
    BY <1>2, <2>1
  <2>5. QED
    BY <1>2, <2>3, <2>4
<1>3. ASSUME NEW p \in Process,
             \/ TimeOut(p) \/ ReadFails(p) \/ Refuse(p) \/ StageFails(p)
             \/ ReturnVerdict(p) \/ Compare(p)
      PROVE  Numbered'
  BY <1>2, <1>3 DEF TimeOut, ReadFails, Refuse, StageFails, ReturnVerdict, Compare
<1>4. ASSUME NEW p \in Process, Crash(p) PROVE Numbered'
  <2>1. CASE pc[p] = "refused"
    BY <1>4, <2>1 DEF Crash
  <2>2. CASE pc[p] # "refused"
    BY <1>2, <1>4, <2>2 DEF Crash
  <2>3. QED
    BY <2>1, <2>2
<1>5. ASSUME NEW p \in Process, Replace(p) PROVE Numbered'
  BY <1>5 DEF Replace
<1>6. ASSUME NEW p \in Process,
             Acquire(p) \/ ReadEntries(p) \/ Stage(p) \/ Release(p)
      PROVE  Numbered'
  <2>1. UNCHANGED <<job, ended, calls, spender>>
    BY <1>6 DEF Acquire, ReadEntries, Stage, Release
  <2>2. \A q \in Process : /\ pc'[q] # "idle" => pc[q] # "idle"
                           /\ pc'[q] \notin {"idle", "refused"}
                                => pc[q] \notin {"idle", "refused"}
    <3>1. CASE Acquire(p)
      BY <3>1 DEF Acquire
    <3>2. CASE ReadEntries(p)
      BY <3>2 DEF ReadEntries
    <3>3. CASE Stage(p)
      BY <3>3 DEF Stage
    <3>4. CASE Release(p)
      BY <3>4 DEF Release
    <3>5. QED
      BY <1>6, <3>1, <3>2, <3>3, <3>4
  <2>3. \A q \in Process :
          pc'[q] # "idle" => job'[q] \in Job /\ job'[q].call \in 1..calls'
    BY <2>1, <2>2
  <2>4. \A q, r \in Process :
          /\ pc'[q] # "idle" /\ pc'[r] # "idle" /\ job'[q].call = job'[r].call
          => q = r
    BY <2>1, <2>2
  <2>5. \A e \in ended' : e.call \in 1..calls'
    BY <2>1
  <2>6. \A q \in Process : pc'[q] \notin {"idle", "refused"} =>
          \A e \in ended' : e.call # job'[q].call
    BY <2>1, <2>2
  <2>7. \A c \in Corpus : spender'[c] \in 0..calls'
    BY <2>1
  <2>8. QED
    BY <2>3, <2>4, <2>5, <2>6, <2>7
<1>7. CASE UNCHANGED vars
  BY <1>7 DEF vars
<1>8. QED
  BY <1>1, <1>3, <1>4, <1>5, <1>6, <1>7 DEF Next, Work, Fault

\* The one step that writes the ledger: a spend of an unspent corpus.
LEMMA ReplaceSpends ==
  ASSUME Inv, NEW p \in Process, Replace(p)
  PROVE  \E c \in Corpus, ev \in Evidence :
           /\ c = job[p].corpus /\ ev = job[p].evidence /\ ev # Unspent
           /\ job[p].op = "evaluate" /\ job[p].call # 0
           /\ entries[c] = Unspent /\ spender[c] = 0
           /\ entries' = [entries EXCEPT ![c] = ev]
           /\ spender' = [spender EXCEPT ![c] = job[p].call]
<1>1. job[p].corpus \in Corpus /\ job[p].evidence \in Evidence /\ job[p].call # 0
  BY JobFields DEF Replace, Inv, Numbered
<1>2. /\ job[p].op = "evaluate"
      /\ entries[job[p].corpus] = Unspent
      /\ entries' = [entries EXCEPT ![job[p].corpus] = job[p].evidence]
      /\ spender' = [spender EXCEPT ![job[p].corpus] = job[p].call]
  BY DEF Replace, Inv, Fresh
<1>3. spender[job[p].corpus] = 0
  BY <1>1, <1>2 DEF Inv, Spent
<1>4. QED
  BY <1>1, <1>2, <1>3, UnspentAssumption

LEMMA NextSpent == Inv /\ [Next]_vars => Spent'
<1> SUFFICES ASSUME Inv, [Next]_vars PROVE Spent'
  OBVIOUS
<1> USE DEF Goto, TypeOK, Inv, Spent
<1>1. ASSUME NEW p \in Process, Replace(p) PROVE Spent'
  <2>1. PICK c \in Corpus, ev \in Evidence :
          /\ c = job[p].corpus /\ ev = job[p].evidence /\ ev # Unspent
          /\ job[p].op = "evaluate" /\ job[p].call # 0
          /\ entries[c] = Unspent /\ spender[c] = 0
          /\ entries' = [entries EXCEPT ![c] = ev]
          /\ spender' = [spender EXCEPT ![c] = job[p].call]
    BY <1>1, ReplaceSpends
  <2>2. pc' = [pc EXCEPT ![p] = "replaced"] /\ job' = job /\ pc[p] = "staged"
    BY <1>1 DEF Replace
  <2>3. \A d \in Corpus : spender'[d] = 0 <=> entries'[d] = Unspent
    BY <2>1
  <2>4. ASSUME NEW q \in Process
        PROVE  IF pc'[q] \in {"replaced", "answering"} /\ job'[q].op = "evaluate"
               THEN /\ spender'[job'[q].corpus] = job'[q].call
                    /\ entries'[job'[q].corpus] = job'[q].evidence
               ELSE pc'[q] # "idle" => \A d \in Corpus : spender'[d] # job'[q].call
    <3>1. CASE q = p
      BY <2>1, <2>2, <3>1
    <3>2. CASE q # p /\ pc[q] \in {"replaced", "answering"} /\ job[q].op = "evaluate"
      <4>1. job[q].corpus \in Corpus /\ job[q].evidence \in Evidence
        BY <3>2, JobFields DEF Numbered
      <4>2. entries[job[q].corpus] = job[q].evidence
        BY <3>2
      <4>3. job[q].corpus # c
        BY <2>1, <4>1, <4>2, UnspentAssumption
      <4>4. QED
        BY <2>1, <2>2, <3>2, <4>1, <4>3
    <3>3. CASE q # p /\ ~(pc[q] \in {"replaced", "answering"} /\ job[q].op = "evaluate")
      BY <2>1, <2>2, <3>3 DEF Numbered
    <3>4. QED
      BY <3>1, <3>2, <3>3
  <2>5. QED
    BY <2>3, <2>4
<1>2. ASSUME NEW p \in Process, NEW op \in Operation, NEW c \in Corpus,
             NEW ev \in Evidence, Begin(p, op, c, ev)
      PROVE  Spent'
  <2> DEFINE j == [call |-> calls + 1, op |-> op, corpus |-> c, evidence |-> ev]
  <2>1. /\ job' = [job EXCEPT ![p] = j] /\ j.call = calls + 1 /\ calls \in Nat
        /\ pc' = [pc EXCEPT ![p] = "waiting"] /\ UNCHANGED <<entries, spender>>
    BY <1>2 DEF Begin, file
  <2> HIDE DEF j
  <2>2. \A d \in Corpus : spender[d] # j.call
    BY <2>1 DEF Numbered
  <2>3. QED
    BY <2>1, <2>2
<1>3. ASSUME NEW p \in Process, Release(p) PROVE Spent'
  BY <1>3 DEF Release, Fresh
<1>4. ASSUME NEW p \in Process,
             \/ Acquire(p) \/ TimeOut(p) \/ ReadEntries(p) \/ ReadFails(p)
             \/ Refuse(p) \/ Stage(p) \/ StageFails(p)
             \/ ReturnVerdict(p) \/ Compare(p) \/ Crash(p)
      PROVE  Spent'
  <2>1. /\ UNCHANGED <<job, entries, spender>>
        /\ \A q \in Process : q # p => pc'[q] = pc[q]
        /\ pc'[p] = "idle" \/ (/\ pc'[p] \notin {"replaced", "answering"}
                               /\ pc[p] \notin {"idle", "replaced", "answering"})
    BY <1>4 DEF file, Acquire, TimeOut, ReadEntries, ReadFails, Refuse, Stage,
       StageFails, ReturnVerdict, Compare, Crash
  <2>2. QED
    BY <2>1
<1>5. CASE UNCHANGED vars
  BY <1>5 DEF vars, file
<1>6. QED
  BY <1>1, <1>2, <1>3, <1>4, <1>5 DEF Next, Work, Fault

LEMMA NextStable == Inv /\ [Next]_vars => Stable'
<1> SUFFICES ASSUME Inv, [Next]_vars PROVE Stable'
  OBVIOUS
<1> USE DEF Goto, TypeOK, Inv, Stable, file
<1>1. ASSUME NEW p \in Process, Replace(p) PROVE Stable'
  <2>1. PICK c \in Corpus, ev \in Evidence :
          entries[c] = Unspent /\ entries' = [entries EXCEPT ![c] = ev]
    BY <1>1, ReplaceSpends
  <2>2. QED
    BY <1>1, <2>1 DEF Replace
<1>2. ASSUME NEW p \in Process, Release(p) PROVE Stable'
  BY <1>2 DEF Release, Fresh
<1>3. ASSUME NEW p \in Process,
             \/ Acquire(p) \/ TimeOut(p) \/ ReadEntries(p) \/ ReadFails(p)
             \/ Refuse(p) \/ Stage(p) \/ StageFails(p)
             \/ ReturnVerdict(p) \/ Compare(p) \/ Crash(p)
             \/ \E op \in Operation, c \in Corpus, ev \in Evidence :
                  Begin(p, op, c, ev)
      PROVE  Stable'
  BY <1>3 DEF Acquire, TimeOut, ReadEntries, ReadFails, Refuse, Stage, StageFails,
     ReturnVerdict, Compare, Crash, Begin
<1>4. CASE UNCHANGED vars
  BY <1>4 DEF vars
<1>5. QED
  BY <1>1, <1>2, <1>3, <1>4 DEF Next, Work, Fault

LEMMA NextTold == Inv /\ [Next]_vars => Told'
<1> SUFFICES ASSUME Inv, [Next]_vars PROVE Told'
  OBVIOUS
<1> USE DEF Inv, Told, Goto, file
<1>1. ASSUME NEW p \in Process, Replace(p) PROVE Told'
  <2>1. PICK c \in Corpus, ev \in Evidence :
          /\ entries[c] = Unspent /\ spender[c] = 0
          /\ entries' = [entries EXCEPT ![c] = ev]
          /\ spender' = [spender EXCEPT ![c] = job[p].call]
    BY <1>1, ReplaceSpends
  <2>2. ended' = ended /\ \A e \in ended : e.call # job[p].call /\ e.call # 0
    BY <1>1 DEF Replace, Numbered
  <2>3. QED
    BY <2>1, <2>2, UnspentAssumption DEF TypeOK
<1>2. ASSUME NEW p \in Process, NEW answer, End(p, answer),
             UNCHANGED <<entries, spender>>, job[p] \in Job,
             answer = "Verdict" => spender[job[p].corpus] = job[p].call,
             answer \in {"Verdict", "Bound"} =>
               entries[job[p].corpus] = job[p].evidence,
             answer \in Refusal \cup {"OSError"} =>
               \A c \in Corpus : spender[c] # job[p].call
      PROVE  Told'
  <2>1. PICK e : /\ e = [call |-> job[p].call, op |-> job[p].op,
                         corpus |-> job[p].corpus, evidence |-> job[p].evidence,
                         answer |-> answer]
                 /\ ended' = ended \cup {e}
    BY <1>2 DEF End
  <2>2. /\ e.call = job[p].call /\ e.corpus = job[p].corpus
        /\ e.evidence = job[p].evidence /\ e.answer = answer
        /\ e.corpus \in Corpus /\ e.evidence \in Evidence
    BY <1>2, <2>1, JobFields
  <2>3. QED
    BY <1>2, <2>1, <2>2
<1>3. ASSUME NEW p \in Process, TimeOut(p) \/ ReadFails(p) \/ Refuse(p) \/ StageFails(p)
      PROVE  Told'
  <2>1. /\ job[p] \in Job /\ \A c \in Corpus : spender[c] # job[p].call
        /\ UNCHANGED <<entries, spender>>
    BY <1>3 DEF TimeOut, ReadFails, Refuse, StageFails, Numbered, Spent
  <2>2. \E answer \in Refusal \cup {"OSError"} : End(p, answer)
    BY <1>3 DEF TimeOut, ReadFails, Refuse, StageFails, Refusal
  <2>3. QED
    BY <1>2, <2>1, <2>2 DEF Refusal
<1>4. ASSUME NEW p \in Process, ReturnVerdict(p) PROVE Told'
  BY <1>2, <1>4 DEF ReturnVerdict, Numbered, Spent, Refusal
<1>5. ASSUME NEW p \in Process, Compare(p) PROVE Told'
  <2>1. /\ job[p] \in Job /\ \A c \in Corpus : spender[c] # job[p].call
        /\ UNCHANGED <<entries, spender>>
    BY <1>5 DEF Compare, Numbered, Spent
  <2>2. job[p].corpus \in Corpus /\ job[p].evidence \in Evidence
    BY <2>1, JobFields
  <2>3. CASE snapshot[p][job[p].corpus] = job[p].evidence
    <3>1. entries[job[p].corpus] = job[p].evidence
      BY <1>5, <2>2, <2>3, UnspentAssumption DEF Compare, Stable
    <3>2. End(p, "Bound")
      BY <1>5, <2>3 DEF Compare
    <3>3. QED
      BY <1>2, <2>1, <3>1, <3>2 DEF Refusal
  <2>4. CASE snapshot[p][job[p].corpus] # job[p].evidence
    <3>1. End(p, "NotBound")
      BY <1>5, <2>4 DEF Compare
    <3>2. QED
      BY <1>2, <2>1, <3>1 DEF Refusal
  <2>5. QED
    BY <2>3, <2>4
<1>6. ASSUME NEW p \in Process, Crash(p) PROVE Told'
  <2>1. job[p] \in Job /\ UNCHANGED <<entries, spender>>
    BY <1>6 DEF Crash, Numbered
  <2>2. CASE pc[p] = "refused"
    BY <1>6, <2>2 DEF Crash
  <2>3. CASE pc[p] # "refused"
    BY <1>2, <1>6, <2>1, <2>3 DEF Crash, Refusal
  <2>4. QED
    BY <2>2, <2>3
<1>7. ASSUME NEW p \in Process,
             \/ Acquire(p) \/ ReadEntries(p) \/ Stage(p) \/ Release(p)
             \/ \E op \in Operation, c \in Corpus, ev \in Evidence :
                  Begin(p, op, c, ev)
      PROVE  Told'
  BY <1>7 DEF Acquire, ReadEntries, Stage, Release, Begin
<1>8. CASE UNCHANGED vars
  BY <1>8 DEF vars
<1>9. QED
  BY <1>1, <1>3, <1>4, <1>5, <1>6, <1>7, <1>8 DEF Next, Work, Fault

LEMMA InvHolds == Spec => []Inv
<1>1. Inv /\ [Next]_vars => Inv'
  BY NextType, NextExclusive, NextFresh, NextNumbered, NextSpent, NextStable, NextTold
  DEF Inv
<1>2. QED
  BY <1>1, InitInv, PTL DEF Spec

-----------------------------------------------------------------------------
\* Every variable of the ledger keeps to its kind: in particular no receipt
\* is ever half written, and a corpus has at most one (HoldoutLedger.consume).
THEOREM TypeOKHolds == Spec => []TypeOK
<1>1. Inv => TypeOK
  BY DEF Inv
<1>2. QED
  BY <1>1, InvHolds, PTL

\* A holdout corpus yields at most one final verdict, over all processes and
\* all calls, wherever processes die.
THEOREM OneVerdictPerCorpusHolds == Spec => []OneVerdictPerCorpus
<1>1. Inv => OneVerdictPerCorpus
  BY DEF Inv, Told, OneVerdictPerCorpus
<1>2. QED
  BY <1>1, InvHolds, PTL

\* Every verdict returned and every receipt found bound is in the file.
THEOREM AnswersAreRecordedHolds == Spec => []AnswersAreRecorded
<1>1. Inv => AnswersAreRecorded
  BY DEF Inv, Told, AnswersAreRecorded
<1>2. QED
  BY <1>1, InvHolds, PTL

\* A call that was refused, or whose write failed, has spent nothing.
THEOREM RefusedNeverSpendsHolds == Spec => []RefusedNeverSpends
<1>1. Inv => RefusedNeverSpends
  BY DEF Inv, Told, RefusedNeverSpends
<1>2. QED
  BY <1>1, InvHolds, PTL

\* The ledger is a write-once register for each corpus: nothing is lost to a
\* concurrent writer, nothing is written twice.
THEOREM ImplementsWriteOnceHolds == Spec => ImplementsWriteOnce
<1>1. Init => Receipts!Init
  BY DEF Init, Receipts!Init, NoReceipts
<1>2. ASSUME Inv, [Next]_vars PROVE [Receipts!Next]_entries
  <2>1. ASSUME NEW p \in Process, Replace(p) PROVE Receipts!Next
    <3>1. \E c \in Corpus, ev \in Evidence :
            entries[c] = Unspent /\ entries' = [entries EXCEPT ![c] = ev]
      BY <1>2, <2>1, ReplaceSpends
    <3>2. QED
      BY <3>1 DEF Receipts!Next, Receipts!Write
  <2>2. CASE \A p \in Process : ~Replace(p)
    BY <1>2, <2>2 DEF Next, Work, Fault, vars, file, Acquire, TimeOut, ReadEntries,
       ReadFails, Refuse, Stage, StageFails, Release, ReturnVerdict, Compare, Crash,
       Begin
  <2>3. QED
    BY <2>1, <2>2
<1>3. QED
  BY <1>1, <1>2, InvHolds, PTL DEF Spec, ImplementsWriteOnce, Receipts!Spec
=============================================================================
