--------------------------- MODULE ShadowInstall ----------------------------
(***************************************************************************)
(* The transactional installer of the shadow hooks (shadow_install.py) and *)
(* the file leases that it works through (confined_io.py).                 *)
(*                                                                         *)
(* A home directory holds, for each host, the hook settings that the user  *)
(* shares with the installer and three files of the installer's own:       *)
(* configuration, ownership manifest and wrapper.  install and remove      *)
(* observe every file they depend on through a lease, write a pending      *)
(* journal, change one file after another, each behind a backup or, when   *)
(* it is new, behind a publication state in the journal, and remove the    *)
(* journal.  recover undoes what a pending journal names.                  *)
(*                                                                         *)
(* A lease holds a file as it was seen: replacing or removing through it   *)
(* is one compare-and-swap on identity and bytes.  The window between the  *)
(* last comparison and the rename is the one replace_file documents.  A    *)
(* file is its content and who wrote it, which stands for inode and change *)
(* time; a release stands for the runtime and the text of the wrapper.     *)
(* A call may fail at each disk operation, before or after its effect, and *)
(* may die between two.  Other programs may replace or delete any target.  *)
(***************************************************************************)
EXTENDS Naturals, Integers, Sequences, FiniteSets

CONSTANTS
  Proc,       \* processes that call the installer
  Host,
  HostLists,  \* the hosts arguments of calls: sequences of hosts
  Release,
  Project,
  Serial,     \* whether callers take turns: no call begins during another
  MaxCalls,   \* bound on install and remove calls that reach the disk
  MaxFaults,  \* bound on failing disk operations and deaths of processes
  MaxEdits,   \* bound on what other programs do to the targets
  Foreign,    \* bytes that the installer cannot read as its own
  None

ASSUME InstallBounds == {MaxCalls, MaxFaults, MaxEdits} \subseteq Nat
ASSUME HostListsShape ==
  \A list \in HostLists : list \in Seq(Host) /\ list # <<>>
ASSUME SerialShape == Serial \in BOOLEAN

VARIABLES
  files,    \* the targets of every host: None or [data, by]
  backup,   \* of each call, the copy it made of each target, or None
  journal,  \* the pending transaction: None or [call, entries]
  work,     \* what each process is doing
  calls,    \* how many calls took a backup tag
  faults, edits,
  overtaken \* history: whether recover was called during another call

home == <<files, backup, journal>>
vars == <<home, work, calls, faults, edits, overtaken>>

-----------------------------------------------------------------------------
(* Files.                                                                  *)

Kind == {"settings", "config", "ownership", "wrapper"}
Path == Host \X Kind

\* What the installer writes.  Settings hold the user's own hooks, numbered
\* by the edit that wrote them, and the hook groups of a release.
Settings(user, r) == [user |-> user, hook |-> r]
Config(projects) == [projects |-> projects]
Ownership(r) == [owns |-> r]
Wrapper(r) == [text |-> r]

Data ==
  [user : 0..MaxEdits, hook : Release \cup {None}]
    \cup [projects : (SUBSET Project) \ {{}}] \cup [owns : Release] \cup [text : Release]
    \cup {Foreign}

\* A call is 1..MaxCalls, the undoing of it is its negation, other programs
\* come after the calls, and 0 is what was there before.
Writer == -MaxCalls .. MaxCalls + MaxEdits
File == [data : Data, by : Writer]

DataIn(f, path) == IF f[path] = None THEN None ELSE f[path].data
DataAt(path) == DataIn(files, path)

\* The pending journal names, of each file to change, what it was and shall
\* be, and for a new file how far its publication got and whose it is.
JournalEntry ==
  [path : Path, before : Data \cup {None}, after : Data \cup {None},
   state : {"planned", "attempted", "confirmed", "revoked", "not_applicable"},
   identity : 1..MaxCalls \cup {None}]
Journal == [call : 1..MaxCalls, entries : Seq(JournalEntry)]

\* Where there is nothing there is no release, no file and no journal.
ASSUME NoneIsNothing ==
  None \notin Release /\ None \notin Data /\ None \notin File /\ None \notin Journal

NewFile(data, by) == IF data = None THEN None ELSE [data |-> data, by |-> by]

-----------------------------------------------------------------------------
(* Planning.                                                               *)

Op(path, before, after) == [path |-> path, before |-> before, after |-> after]

\* The release that the ownership manifest names.
Owned(h) ==
  IF DataAt(<<h, "ownership">>) = None THEN None ELSE DataAt(<<h, "ownership">>).owns

Projects(h) ==
  IF DataAt(<<h, "config">>) = None THEN {} ELSE DataAt(<<h, "config">>).projects

Legible(h) == \A kind \in {"settings", "config", "ownership"} : DataAt(<<h, kind>>) # Foreign

\* No hook group names the wrapper unless the manifest accounts for it.
HooksAreOwn(h) == DataAt(<<h, "settings">>).hook \in {None, Owned(h)}

\* plan_install_shadow_hooks has no conflict on this host.  Hook groups
\* without a manifest are those of a legacy installation, and replaced.
CanInstall(h) ==
  /\ DataAt(<<h, "settings">>) # None
  /\ Legible(h)
  /\ IF Owned(h) = None
     THEN DataAt(<<h, "wrapper">>) = None
     ELSE DataAt(<<h, "wrapper">>) = Wrapper(Owned(h)) /\ HooksAreOwn(h)

\* Mutant: a registration takes the place of those that were there.
InstallOpsAlone(h, r, p) ==
  << Op(<<h, "wrapper">>, DataAt(<<h, "wrapper">>), Wrapper(r)),
     Op(<<h, "settings">>, DataAt(<<h, "settings">>),
        Settings(DataAt(<<h, "settings">>).user, r)),
     Op(<<h, "config">>, DataAt(<<h, "config">>), Config({p})),
     Op(<<h, "ownership">>, DataAt(<<h, "ownership">>), Ownership(r)) >>

InstallOps(h, r, p) ==
  << Op(<<h, "wrapper">>, DataAt(<<h, "wrapper">>), Wrapper(r)),
     Op(<<h, "settings">>, DataAt(<<h, "settings">>),
        Settings(DataAt(<<h, "settings">>).user, r)),
     Op(<<h, "config">>, DataAt(<<h, "config">>), Config(Projects(h) \cup {p})),
     Op(<<h, "ownership">>, DataAt(<<h, "ownership">>), Ownership(r)) >>

\* Removing what is not registered leaves a configuration as it is; a host
\* whose configuration is missing is removed as a whole.
Empties(h, gone) == Projects(h) \subseteq gone

\* plan_remove_shadow_hooks has no conflict on this host.
CanRemove(h, gone) ==
  /\ Legible(h)
  /\ Owned(h) = None => Projects(h) = {}
  /\ Owned(h) # None => DataAt(<<h, "wrapper">>) \in {None, Wrapper(Owned(h))}
  /\ (Owned(h) # None /\ Empties(h, gone) /\ DataAt(<<h, "settings">>) # None)
       => HooksAreOwn(h)

RemoveOps(h, gone) ==
  CASE Owned(h) = None -> <<>>
    [] Owned(h) # None /\ ~Empties(h, gone) ->
         << Op(<<h, "config">>, DataAt(<<h, "config">>), Config(Projects(h) \ gone)) >>
    [] OTHER ->
         << Op(<<h, "settings">>, DataAt(<<h, "settings">>),
               IF DataAt(<<h, "settings">>) = None THEN None
               ELSE Settings(DataAt(<<h, "settings">>).user, None)),
            Op(<<h, "config">>, DataAt(<<h, "config">>), None),
            Op(<<h, "ownership">>, DataAt(<<h, "ownership">>), None),
            Op(<<h, "wrapper">>, DataAt(<<h, "wrapper">>), None) >>

Request ==
  [op : {"install"}, hosts : HostLists, release : Release, project : Project]
    \cup [op : {"remove"}, hosts : HostLists, gone : {{p} : p \in Project} \cup {Project}]

HostOps(request, h) ==
  IF request.op = "install" THEN InstallOps(h, request.release, request.project)
  ELSE RemoveOps(h, request.gone)

\* The changes of a call: which operation of which host changes something.
Changes(request) ==
  {s \in (1..Len(request.hosts)) \X (1..4) :
     LET ops == HostOps(request, request.hosts[s[1]])
     IN  s[2] \in DOMAIN ops /\ ops[s[2]].before # ops[s[2]].after}

\* Host after host, and in the order of the operations of a host.
NotAfter(s, t) == s[1] < t[1] \/ (s[1] = t[1] /\ s[2] <= t[2])

Rank(s, S) == Cardinality({t \in S : NotAfter(t, s)})

\* The operations of a call in this order, without those that change nothing.
Plan(request) ==
  LET S == Changes(request)
  IN  [n \in 1..Cardinality(S) |->
        LET s == CHOOSE t \in S : Rank(t, S) = n
        IN  HostOps(request, request.hosts[s[1]])[s[2]]]

Admissible(request) ==
  \A k \in DOMAIN request.hosts :
    IF request.op = "install" THEN CanInstall(request.hosts[k])
    ELSE CanRemove(request.hosts[k], request.gone)

-----------------------------------------------------------------------------
(* The pending journal.                                                    *)

Entry(op) ==
  [path |-> op.path, before |-> op.before, after |-> op.after,
   state |-> IF op.before = None THEN "planned" ELSE "not_applicable",
   identity |-> None]

Pending(call, ops) ==
  [call |-> call, entries |-> [k \in DOMAIN ops |-> Entry(ops[k])]]

\* Mutant: the journal does not say which file was published.
MarkedAnonymous(log, path, state, identity) ==
  [log EXCEPT !.entries = [k \in DOMAIN @ |->
     IF @[k].path = path THEN [@[k] EXCEPT !.state = state] ELSE @[k]]]

\* _set_create_publication_state_lease: a confirmed create also records the
\* file that was published.
Marked(log, path, state, identity) ==
  LET mark(e) == IF e.path # path THEN e
                 ELSE [e EXCEPT !.state = state,
                                !.identity = IF state = "confirmed" THEN identity ELSE @]
  IN  [log EXCEPT !.entries = [k \in DOMAIN log.entries |-> mark(log.entries[k])]]

EntryOf(log, path) ==
  LET k == CHOOSE n \in DOMAIN log.entries : log.entries[n].path = path
  IN  log.entries[k]

-----------------------------------------------------------------------------
(* Calls of install and remove.                                            *)

Idle == [pc |-> "idle"]

Working(p) == work[p].pc # "idle"

MayStart(p) ==
  /\ ~Working(p)
  /\ Serial => \A q \in Proc : ~Working(q)

\* The user has hook settings; on some hosts an earlier call has installed a
\* release with some projects.
Init ==
  /\ \E had \in [Host -> Release \cup {None}], known \in (SUBSET Project) \ {{}} :
       files = [path \in Path |->
         LET r == had[path[1]]
         IN  CASE path[2] = "settings" -> NewFile(Settings(0, r), 0)
               [] path[2] # "settings" /\ r = None -> None
               [] path[2] = "config" /\ r # None -> NewFile(Config(known), 0)
               [] path[2] = "ownership" /\ r # None -> NewFile(Ownership(r), 0)
               [] path[2] = "wrapper" /\ r # None -> NewFile(Wrapper(r), 0)]
  /\ backup = [c \in 1..MaxCalls |-> [path \in Path |-> None]]
  /\ journal = None
  /\ work = [p \in Proc |-> Idle]
  /\ calls = 0 /\ faults = 0 /\ edits = 0 /\ overtaken = FALSE

Becomes(p, w) == work' = [work EXCEPT ![p] = w]

\* The operation that is under way, and where the next one begins.
Current(w) == w.ops[w.done + 1]
StageOf(op) == IF op.before = None THEN "attempt" ELSE "copy"
Advanced(w) ==
  LET done == w.done + 1
  IN  [w EXCEPT !.done = done,
                !.pc = IF done = Len(w.ops) THEN "complete" ELSE StageOf(w.ops[done + 1])]

GiveUp(w) == [w EXCEPT !.pc = "rollback", !.back = 1]

\* assert_current of the lease on a target, and of the one on the journal.
Held(w, path) == files[path] = w.held[path]
LogHeld(w) == journal = w.log

\* One disk operation of the apply phase.  It has its effect and goes on, or
\* it is refused, or it fails before or after its effect; an error leads to
\* the rollback.  Only the journal's lease is used again after an error, and
\* it may or may not have taken note of the new journal.
DiskStep(p, allowed, f, b, j, w) ==
  \/ /\ allowed
     /\ files' = f /\ backup' = b /\ journal' = j
     /\ Becomes(p, w)
     /\ UNCHANGED faults
  \/ /\ ~allowed
     /\ Becomes(p, GiveUp(work[p]))
     /\ UNCHANGED <<home, faults>>
  \/ /\ faults < MaxFaults
     /\ faults' = faults + 1
     /\ Becomes(p, GiveUp(work[p]))
     /\ UNCHANGED home
  \/ /\ allowed
     /\ faults < MaxFaults
     /\ faults' = faults + 1
     /\ files' = f /\ backup' = b /\ journal' = j
     /\ \E log \in {work[p].log, w.log} : Becomes(p, GiveUp([work[p] EXCEPT !.log = log]))

\* A pending journal refuses every call but recover.
NothingPending == journal = None

\* plan_install_shadow_hooks or plan_remove_shadow_hooks and the snapshot:
\* every file is leased, a pending journal or a conflict refuses the call,
\* and all leases are asserted once more.  A call with nothing to change ends.
StartApply(p) ==
  /\ MayStart(p)
  /\ calls < MaxCalls
  /\ NothingPending
  /\ \E request \in Request :
       /\ Admissible(request)
       /\ Plan(request) # <<>>
       /\ Becomes(p, [pc |-> "begin", call |-> calls + 1, ops |-> Plan(request),
                      held |-> files, log |-> None, done |-> 0, back |-> 0])
  /\ calls' = calls + 1
  /\ UNCHANGED <<home, faults, edits, overtaken>>

\* _begin_transaction_lease: the journal is created where none was seen.
Begin(p) ==
  LET w == work[p]
      log == Pending(w.call, w.ops)
  IN  /\ w.pc = "begin"
      /\ DiskStep(p, LogHeld(w), files, backup, log,
                  [w EXCEPT !.log = log, !.pc = StageOf(w.ops[1])])
      /\ UNCHANGED <<calls, edits, overtaken>>

\* The snapshot has what the operation was planned on; if not, the call fails.
AsSeen(w) == DataIn(w.held, Current(w).path) = Current(w).before

\* The backup of the bytes that the plan saw, created where no file was.
Copy(p) ==
  LET w == work[p]
      op == Current(w)
  IN  /\ w.pc = "copy"
      /\ DiskStep(p, AsSeen(w) /\ backup[w.call][op.path] = None, files,
                  [backup EXCEPT ![w.call][op.path] = op.before], journal,
                  [w EXCEPT !.pc = "publish"])
      /\ UNCHANGED <<calls, edits, overtaken>>

MarkAttempted(p) ==
  LET w == work[p]
      log == Marked(w.log, Current(w).path, "attempted", None)
  IN  /\ w.pc = "attempt"
      /\ DiskStep(p, AsSeen(w) /\ LogHeld(w), files, backup, log,
                  [w EXCEPT !.log = log, !.pc = "publish"])
      /\ UNCHANGED <<calls, edits, overtaken>>

\* The target is created, replaced or removed through its lease.
Publish(p) ==
  LET w == work[p]
      op == Current(w)
      new == NewFile(op.after, w.call)
      seen == [w EXCEPT !.held[op.path] = new]
  IN  /\ w.pc = "publish"
      /\ DiskStep(p, Held(w, op.path), [files EXCEPT ![op.path] = new], backup, journal,
                  IF op.before = None THEN [seen EXCEPT !.pc = "confirm"] ELSE Advanced(seen))
      /\ UNCHANGED <<calls, edits, overtaken>>

\* The identity of the created file, read through its lease, is recorded.
Confirm(p) ==
  LET w == work[p]
      path == Current(w).path
      log == Marked(w.log, path, "confirmed", w.call)
  IN  /\ w.pc = "confirm"
      /\ DiskStep(p, LogHeld(w) /\ Held(w, path), files, backup, log,
                  Advanced([w EXCEPT !.log = log]))
      /\ UNCHANGED <<calls, edits, overtaken>>

\* _complete_transaction_journal_lease, reporting a conflict when it cannot.
Complete(p) ==
  /\ work[p].pc = "complete"
  /\ Becomes(p, Idle)
  /\ \/ /\ LogHeld(work[p])
        /\ journal' = None
        /\ UNCHANGED faults
     \/ /\ ~LogHeld(work[p])
        /\ UNCHANGED <<journal, faults>>
     \/ /\ faults < MaxFaults
        /\ faults' = faults + 1
        /\ UNCHANGED journal
  /\ UNCHANGED <<files, backup, calls, edits, overtaken>>

-----------------------------------------------------------------------------
(* _rollback_transaction: what was written is taken back, in the order in  *)
(* which it was written, and what cannot be is left and reported.  The     *)
(* journal stays.                                                          *)

NextBack(w) == [w EXCEPT !.back = @ + 1, !.pc = "rollback"]

\* A step may be skipped when it is refused, or when the disk fails.
Skip(p, refused) ==
  /\ Becomes(p, NextBack(work[p]))
  /\ \/ refused /\ UNCHANGED faults
     \/ faults < MaxFaults /\ faults' = faults + 1

\* A created file is revoked in the journal before it is removed.
Revoke(p) ==
  LET w == work[p]
      op == w.ops[w.back]
      log == Marked(w.log, op.path, "revoked", None)
  IN  /\ w.pc = "rollback"
      /\ w.back <= w.done
      /\ op.before = None
      /\ \/ /\ LogHeld(w)
            /\ journal' = log
            /\ Becomes(p, [w EXCEPT !.log = log, !.pc = "takeback"])
            /\ UNCHANGED faults
         \/ /\ LogHeld(w)
            /\ journal' = log
            /\ faults < MaxFaults
            /\ faults' = faults + 1
            /\ \E seen \in {w.log, log} : Becomes(p, NextBack([w EXCEPT !.log = seen]))
         \/ Skip(p, ~LogHeld(w)) /\ UNCHANGED journal
      /\ UNCHANGED <<files, backup, calls, edits, overtaken>>

\* The target gets its former bytes back, or is removed, through its lease.
TakeBack(p) ==
  LET w == work[p]
      op == w.ops[w.back]
  IN  /\ \/ w.pc = "takeback"
         \/ w.pc = "rollback" /\ w.back <= w.done /\ op.before # None
      /\ \/ /\ Held(w, op.path)
            /\ files' = [files EXCEPT ![op.path] = NewFile(op.before, -w.call)]
            /\ Becomes(p, NextBack(w))
            /\ UNCHANGED faults
         \/ Skip(p, ~Held(w, op.path)) /\ UNCHANGED files
      /\ UNCHANGED <<backup, journal, calls, edits, overtaken>>

\* Mutant: after a rollback nothing is believed to be pending.
EndRollbackClean(p) ==
  /\ work[p].pc = "rollback"
  /\ work[p].back > work[p].done
  /\ Becomes(p, Idle)
  /\ journal' = IF LogHeld(work[p]) THEN None ELSE journal
  /\ UNCHANGED <<files, backup, calls, faults, edits, overtaken>>

\* The rollback is over; what it could not undo is left to recover.
EndRollback(p) ==
  /\ work[p].pc = "rollback"
  /\ work[p].back > work[p].done
  /\ Becomes(p, Idle)
  /\ UNCHANGED <<home, calls, faults, edits, overtaken>>

-----------------------------------------------------------------------------
(* Calls of recover.                                                       *)

\* A create that was published, or may have been, without the journal
\* vouching for it: only an operator can tell whose file it is.
InDoubt(e) ==
  e.before = None /\ DataAt(e.path) = e.after /\ e.state # "confirmed"

\* Mutant: a created file is recognised by its bytes.
RefusesByBytes(log, e) ==
  \/ DataAt(e.path) \notin {e.before, e.after}
  \/ InDoubt(e)
  \/ e.before # None /\ backup[log.call][e.path] \notin {None, e.before}
  \/ e.before # None /\ DataAt(e.path) = e.after /\ backup[log.call][e.path] = None

\* _observe_recovery_targets reports a conflict for this entry.
Refuses(log, e) ==
  \/ e.state = "confirmed"
       /\ (files[e.path] = None \/ files[e.path] # NewFile(e.after, e.identity))
  \/ DataAt(e.path) \notin {e.before, e.after}
  \/ InDoubt(e)
  \/ e.before # None /\ backup[log.call][e.path] \notin {None, e.before}
  \/ e.before # None /\ DataAt(e.path) = e.after /\ backup[log.call][e.path] = None

Conflicts == {k \in DOMAIN journal.entries : Refuses(journal, journal.entries[k])}

\* _pending_recovery_session: the journal, its targets and its backups are
\* leased, and a conflict refuses the call.
StartRecover(p) ==
  /\ MayStart(p)
  /\ journal # None
  /\ Conflicts = {}
  /\ Becomes(p, [pc |-> "disown", log |-> journal, held |-> files,
                 saved |-> backup[journal.call], done |-> 0])
  /\ overtaken' = (overtaken \/ \E q \in Proc : Working(q))
  /\ UNCHANGED <<home, calls, faults, edits>>

\* What recovery will undo: the entries that it saw in their after-state.
Undone(w) == {k \in DOMAIN w.log.entries :
                DataIn(w.held, w.log.entries[k].path) = w.log.entries[k].after}

IsFirst(k, S) == k \in S /\ \A j \in S : k <= j

\* Before it removes anything, recovery revokes every create that it will
\* remove: the loop over the observations in _recover_pending_transaction.
OwnedCreates(w) == {k \in Undone(w) : w.log.entries[k].state = "confirmed"}

Disown(p) ==
  LET w == work[p]
  IN  /\ w.pc = "disown"
      /\ \E k \in OwnedCreates(w) :
           LET log == Marked(w.log, w.log.entries[k].path, "revoked", None)
           IN  /\ IsFirst(k, OwnedCreates(w))
               /\ \/ LogHeld(w) /\ journal' = log /\ Becomes(p, [w EXCEPT !.log = log])
                  \/ ~LogHeld(w) /\ Becomes(p, Idle) /\ UNCHANGED journal
      /\ UNCHANGED <<files, backup, calls, faults, edits, overtaken>>

\* All leases are asserted once more before the first target is touched.
Reassert(p) ==
  LET w == work[p]
      unchanged == LogHeld(w) /\ \A k \in DOMAIN w.log.entries : Held(w, w.log.entries[k].path)
  IN  /\ w.pc = "disown"
      /\ OwnedCreates(w) = {}
      /\ Becomes(p, IF unchanged THEN [w EXCEPT !.pc = "undo"] ELSE Idle)
      /\ UNCHANGED <<home, calls, faults, edits, overtaken>>

\* A created file is removed, any other gets the bytes of its backup.
Undo(p) ==
  LET w == work[p]
  IN  /\ w.pc = "undo"
      /\ \E k \in Undone(w) :
           LET e == w.log.entries[k]
               saved == IF e.before = None THEN None ELSE w.saved[e.path]
           IN  /\ IsFirst(k, {n \in Undone(w) : n > w.done})
               /\ \/ /\ Held(w, e.path)
                     /\ files' = [files EXCEPT ![e.path] = NewFile(saved, -w.log.call)]
                     /\ Becomes(p, [w EXCEPT !.done = k])
                  \/ ~Held(w, e.path) /\ Becomes(p, Idle) /\ UNCHANGED files
      /\ UNCHANGED <<backup, journal, calls, faults, edits, overtaken>>

CloseJournal(p) ==
  LET w == work[p]
  IN  /\ w.pc = "undo"
      /\ \A n \in Undone(w) : n <= w.done
      /\ Becomes(p, Idle)
      /\ journal' = IF LogHeld(w) THEN None ELSE journal
      /\ UNCHANGED <<files, backup, calls, faults, edits, overtaken>>

-----------------------------------------------------------------------------
(* What the installer does not control.                                    *)

\* The process dies.  An exception in recover has the same effect: the call
\* ends where it is.
Crash(p) ==
  /\ Working(p)
  /\ faults < MaxFaults
  /\ faults' = faults + 1
  /\ Becomes(p, Idle)
  /\ UNCHANGED <<home, calls, edits, overtaken>>

\* Another program deletes a target, replaces it with bytes of its own or
\* with the very bytes that a pending transaction means to write, or a user
\* edits the settings.
PeerData(path) ==
  {None, Foreign}
    \cup (IF journal = None THEN {}
          ELSE {e.after : e \in {journal.entries[k] : k \in
                   {n \in DOMAIN journal.entries : journal.entries[n].path = path}}})
    \cup (IF path[2] # "settings" \/ DataAt(path) \in {None, Foreign} THEN {}
          ELSE {Settings(edits + 1, DataAt(path).hook)})

Peer(path) ==
  /\ edits < MaxEdits
  /\ edits' = edits + 1
  /\ \E data \in PeerData(path) :
       files' = [files EXCEPT ![path] = NewFile(data, MaxCalls + edits + 1)]
  /\ UNCHANGED <<backup, journal, work, calls, faults, overtaken>>

-----------------------------------------------------------------------------
Step(p) ==
  \/ Begin(p) \/ Copy(p) \/ MarkAttempted(p) \/ Publish(p) \/ Confirm(p) \/ Complete(p)
  \/ Revoke(p) \/ TakeBack(p) \/ EndRollback(p)
  \/ Disown(p) \/ Reassert(p) \/ Undo(p) \/ CloseJournal(p)

Next ==
  \/ \E p \in Proc : StartApply(p) \/ StartRecover(p) \/ Step(p) \/ Crash(p)
  \/ \E path \in Path : Peer(path)

Spec == Init /\ [][Next]_vars

\* A call that runs goes on running, and the operator calls recover when the
\* installer says that it must be called.
FairSpec ==
  /\ Spec
  /\ \A p \in Proc : WF_vars(Step(p))
  /\ \A p \in Proc : WF_vars(StartRecover(p))

-----------------------------------------------------------------------------
(* Properties.                                                             *)

\* Everything is of its kind; the journal and what a process works from only
\* speak of targets and calls.
TypeOK ==
  /\ files \in [Path -> File \cup {None}]
  /\ backup \in [1..MaxCalls -> [Path -> Data \cup {None}]]
  /\ calls \in 0..MaxCalls /\ faults \in 0..MaxFaults /\ edits \in 0..MaxEdits
  /\ journal # None =>
       /\ journal.call \in 1..calls
       /\ \A k \in DOMAIN journal.entries :
            LET e == journal.entries[k]
            IN  /\ e.path \in Path
                /\ {e.before, e.after} \subseteq Data \cup {None}
                /\ e.before # e.after
                /\ IF e.before = None
                   THEN e.state \in {"planned", "attempted", "confirmed", "revoked"}
                   ELSE e.state = "not_applicable"

\* The four files of a host belong together, or there are none of ours.
Fits(h) ==
  LET at(kind) == DataAt(<<h, kind>>)
  IN  \/ /\ at("settings").hook = None
         /\ \A kind \in Kind \ {"settings"} : at(kind) = None
      \/ \E r \in Release :
           /\ at("settings").hook = r
           /\ at("wrapper") = Wrapper(r)
           /\ at("ownership") = Ownership(r)
           /\ at("config") # None

\* The journal stays as long as a host is neither installed completely nor
\* not at all.  (docs/host-observations.md: "with backups and the pending
\* journal retained for recovery when completion is uncertain".)
UncertainKeepsJournal == journal = None /\ edits = 0 => \A h \in Host : Fits(h)

\* It does, whatever failed, whoever was interrupted and whichever installs
\* and removals overlap, as long as recover is not called in the middle of
\* another call; and the journal is always of its type.
HomeFits == TypeOK /\ (~overtaken => UncertainKeepsJournal)

\* The transaction that a process applies or undoes.
Transaction(w) == IF "log" \in DOMAIN w /\ w.pc \in {"disown", "undo"}
                  THEN w.log.call ELSE w.call

Restoring(w, path) ==
  /\ w.pc = "undo"
  /\ \E k \in Undone(w) : /\ w.log.entries[k].path = path
                          /\ w.log.entries[k].before # None

\* Whatever the installer takes from a path is its own work of the same
\* transaction, or kept in a backup, or has the very bytes that a pending
\* transaction wrote over a file that recovery now brings back: a file that
\* another program put there is never lost, and one in the place of a created
\* file is never removed, even when its bytes are the same.
NothingLost ==
  [][edits' = edits =>
      \A path \in Path : files[path] # None /\ files'[path] # files[path] =>
        \/ \E c \in 1..MaxCalls : backup[c][path] = DataAt(path)
        \/ \E p \in Proc : /\ Working(p)
                           /\ Transaction(work[p]) = files[path].by
        \/ \E p \in Proc : Working(p) /\ Restoring(work[p], path)]_vars

\* While a transaction is pending it has not happened.
Committed(path) ==
  IF journal # None /\ \E k \in DOMAIN journal.entries : journal.entries[k].path = path
  THEN EntryOf(journal, path).before
  ELSE DataAt(path)

InstalledNow ==
  [h \in Host |->
    IF Committed(<<h, "config">>) = None THEN None
    ELSE [release |-> Committed(<<h, "ownership">>).owns,
          projects |-> Committed(<<h, "config">>).projects]]

Installation == INSTANCE Installation WITH Nothing <- None, installed <- InstalledNow

\* That nothing is installed on a host is told from any release with projects.
ASSUME NothingIsNone == None \notin Installation!Installed

\* As long as no other program meddles, and calls do not overlap, an install
\* or a removal happens on all its hosts at once, when its journal goes, or
\* not at all.
ImplementsInstallation ==
  /\ Installation!Init
  /\ [][edits' = 0 => Installation!Next]_InstalledNow

\* A transaction that was interrupted is undone at last, unless a create is
\* left in doubt or another program has changed a target.
PendingEnds ==
  journal # None ~>
    \/ journal = None
    \/ edits > 0
    \/ \E k \in DOMAIN journal.entries : InDoubt(journal.entries[k])
=============================================================================
