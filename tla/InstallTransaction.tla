------------------------- MODULE InstallTransaction -------------------------
(***************************************************************************)
(* The transaction of the installer (install.py) and the publication       *)
(* barrier of every project command (workflowlib/publication.py).          *)
(*                                                                         *)
(* An invocation takes the publication lock exclusively, recovers what an  *)
(* earlier one left behind, plans, builds candidates in a staging          *)
(* directory, and then moves every target to a backup and its candidate    *)
(* into place, one rename at a time.  A journal beside the project says    *)
(* what a later invocation has to undo or to finish.  An invocation may    *)
(* die between any two steps, and a user may edit targets at any time.     *)
(*                                                                         *)
(* A file is an inode and what is in it.  Target 1 is the .agent           *)
(* directory, whose private state the commands write; a digest of it       *)
(* covers the managed files only.                                          *)
(***************************************************************************)
EXTENDS Integers

CONSTANTS
    Last,         \* number of managed targets
    Commands,     \* project commands
    MaxInstalls,  \* bound: transactions begun
    MaxEdits,     \* bound: edits by a user
    MaxWrites,    \* bound: writes of private state by commands
    Torn,         \* content of a directory that is partly removed
    None          \* no file

ASSUME InstallAssumption ==
    /\ Last \in Nat \ {0}
    /\ MaxInstalls \in Nat
    /\ MaxEdits \in Nat
    /\ MaxWrites \in Nat
    /\ Torn \notin Int
    /\ None \notin [id : Int, data : Int \cup {Torn}, private : Nat]

Label == 1..Last

\* Transaction n makes inodes n with contents n, the user's edit k makes -k.
File == [id : Int, data : Int \cup {Torn}, private : Nat]

VARIABLES
    target,     \* the managed targets
    root,       \* the project directory exists
    staging,    \* the staging directory of the transaction
    candidate,  \* what it holds to be installed
    backup,     \* what was moved out of the way into it
    journal,    \* state of the journal
    plan,       \* the operations; in the journal once it is committing
    tx,         \* the transaction; its candidates are inodes of this number
    pc,         \* where the invocation holding the lock is
    next,       \* the target it is at
    recovering, \* it recovers before it does its own work
    cmd,        \* where each command is
    edits,      \* history: edits by a user
    writes,     \* history: writes of private state
    installed,  \* history: inodes and contents the last committed transaction left
    retried     \* history: a rollback of this transaction was cut short

disk == <<target, root, staging, candidate, backup, journal>>
context == <<plan, tx, recovering, cmd>>
history == <<edits, writes, installed, retried>>
vars == <<disk, context, pc, next, history>>

Nothing == [l \in Label |-> None]

Plan == [targets : SUBSET Label, removes : SUBSET Label,
         original : [Label -> File \cup {None}], creates : BOOLEAN]

\* The steps of commit_transaction, of rollback_transaction, and of cleanup.
CommitSteps == {"directory", "check", "backup", "observe", "rebind", "rebound",
                "unstable", "redigest", "install", "verify"}
UndoSteps == {"undo", "removing", "restoring", "restored"}
PreSteps == {"created", "begun", "unmarked", "marked", "staged", "ready"}
CleanSteps == {"cleanup", "emptied", "unstaged"}
Steps == {"idle", "locked", "plan", "create", "validate", "refused"}
            \cup PreSteps \cup CommitSteps \cup UndoSteps \cup CleanSteps

TypeOK ==
    /\ target \in [Label -> File \cup {None}]
    /\ root \in BOOLEAN
    /\ staging \in {"none", "bare", "marked"}
    /\ candidate \in [Label -> File \cup {None}]
    /\ backup \in [Label -> File \cup {None}]
    /\ journal \in {"none", "partial", "initializing", "staging", "committing", "committed"}
    /\ plan \in Plan
    /\ tx \in Nat
    /\ pc \in Steps
    /\ next \in 0..(Last + 1)
    /\ recovering \in BOOLEAN
    /\ cmd \in [Commands -> {"idle", "locked", "running"}]
    /\ edits \in Nat
    /\ writes \in Nat
    /\ installed \in [Label -> File \cup {None}]
    /\ retried \in BOOLEAN

\* A project without the workflow, or one it was installed in.
Init ==
    /\ root \in BOOLEAN
    /\ target \in [Label -> {None, [id |-> 0, data |-> 0, private |-> 0]}]
    /\ ~root => target = Nothing
    /\ staging = "none"
    /\ candidate = Nothing
    /\ backup = Nothing
    /\ journal = "none"
    /\ plan = [targets |-> {}, removes |-> {}, original |-> Nothing, creates |-> FALSE]
    /\ tx = 0
    /\ pc = "idle"
    /\ next = 0
    /\ recovering = FALSE
    /\ cmd = [c \in Commands |-> "idle"]
    /\ edits = 0
    /\ writes = 0
    /\ installed = target
    /\ retried = FALSE

(***************************************************************************)
(* What the checks of identities and digests see.                          *)
(***************************************************************************)
SameIdentity(f, g) == f # None /\ g # None /\ f.id = g.id
SameContent(f, g) == f # None /\ g # None /\ f.data = g.data
Matches(f, g) == SameIdentity(f, g) /\ SameContent(f, g)
SameFile(f, g) == Matches(f, g) \/ (f = None /\ g = None)

Original(l) == plan.original[l]
IsCandidate(f) == f # None /\ f.id = tx /\ f.data = tx

\* require_planned_transaction_target
AsPlanned(l) == SameFile(target[l], Original(l))

(***************************************************************************)
(* The lock, and the start of an invocation.                               *)
(***************************************************************************)
Goto(step) == pc' = step /\ UNCHANGED next
GotoAt(step, l) == pc' = step /\ next' = l

\* Mutant: the installer does not wait for commands.
Unbarred == TRUE

\* No command holds the publication lock.
Free == \A c \in Commands : cmd[c] = "idle"

Acquire ==
    /\ pc = "idle"
    /\ Free
    /\ Goto("locked")
    /\ UNCHANGED <<disk, context, history>>

\* recover_transaction: a committed transaction is as it left the targets.
CommitStands ==
    \A l \in plan.targets :
        IF l \in plan.removes THEN target[l] = None ELSE IsCandidate(target[l])

\* Mutant: a transaction that was committing is only cleaned up.
ForgetfulRecovery ==
    CASE journal = "none" -> "plan"
      [] journal = "partial" -> "refused"
      [] OTHER -> "cleanup"

RecoveryStep ==
    CASE journal = "none" -> "plan"
      [] journal = "partial" -> "refused"
      [] journal \in {"initializing", "staging"} -> "cleanup"
      [] journal = "committing" -> "validate"
      [] journal = "committed" -> IF CommitStands THEN "cleanup" ELSE "refused"

Recover ==
    /\ pc = "locked"
    /\ recovering' = (journal # "none")
    /\ Goto(RecoveryStep)
    /\ UNCHANGED <<disk, plan, tx, cmd, history>>

\* The invocation ends: nothing to do, blocked, or refused.
Release ==
    /\ pc \in {"plan", "refused"}
    /\ Goto("idle")
    /\ UNCHANGED <<disk, context, history>>

\* install, uninstall_workflow, execute: .agent is always replaced, other
\* targets are left alone, replaced or removed.
MakePlan(targets, removes) ==
    /\ pc = "plan"
    /\ tx < MaxInstalls
    /\ 1 \in targets \ removes
    /\ removes \subseteq {l \in targets : target[l] # None}
    /\ plan' = [targets |-> targets, removes |-> removes,
                original |-> [l \in Label |-> IF l \in targets THEN target[l] ELSE None],
                creates |-> ~root]
    /\ tx' = tx + 1
    /\ recovering' = FALSE
    /\ retried' = FALSE
    /\ Goto("create")
    /\ UNCHANGED <<disk, cmd, edits, writes, installed>>

(***************************************************************************)
(* begin_transaction.  The journal is created in place: it exists before   *)
(* it can be read.                                                         *)
(***************************************************************************)
CreateJournal ==
    /\ pc = "create"
    /\ journal' = "partial"
    /\ Goto("created")
    /\ UNCHANGED <<target, root, staging, candidate, backup, context, history>>

WriteJournal ==
    /\ pc = "created"
    /\ journal' = "initializing"
    /\ Goto("begun")
    /\ UNCHANGED <<target, root, staging, candidate, backup, context, history>>

MakeStaging ==
    /\ pc = "begun"
    /\ staging' = "bare"
    /\ Goto("unmarked")
    /\ UNCHANGED <<target, root, candidate, backup, journal, context, history>>

MarkStaging ==
    /\ pc = "unmarked"
    /\ staging' = "marked"
    /\ Goto("marked")
    /\ UNCHANGED <<target, root, candidate, backup, journal, context, history>>

BeginStaging ==
    /\ pc = "marked"
    /\ journal' = "staging"
    /\ Goto("staged")
    /\ UNCHANGED <<target, root, staging, candidate, backup, context, history>>

\* The candidates: .agent is a copy of the installed one, private state and all.
Stage ==
    /\ pc = "staged"
    /\ candidate' = [l \in Label |->
          IF l \in plan.targets \ plan.removes
          THEN [id |-> tx, data |-> tx,
                private |-> IF target[l] = None THEN 0 ELSE target[l].private]
          ELSE None]
    /\ Goto("ready")
    /\ UNCHANGED <<target, root, staging, backup, journal, context, history>>

\* Before the journal is committing a failure only cleans up.
AbortStaging ==
    /\ pc \in PreSteps \ {"created"}
    /\ Goto("cleanup")
    /\ UNCHANGED <<disk, context, history>>

(***************************************************************************)
(* commit_transaction.                                                     *)
(***************************************************************************)
\* The step at which the operation on a target begins; after the last operation
\* only the journal is left to write.
Begin(l) == IF Original(l) # None THEN "check" ELSE "install"

Rest(l) == {k \in plan.targets : k > l}
GotoNext(l) ==
    \/ Rest(l) = {} /\ GotoAt("verify", Last + 1)
    \/ \E k \in Rest(l) : (\A j \in Rest(l) : k <= j) /\ GotoAt(Begin(k), k)

PlanStands == root = ~plan.creates /\ \A l \in plan.targets : AsPlanned(l)

StartCommit ==
    /\ pc = "ready"
    /\ PlanStands
    /\ journal' = "committing"
    /\ Goto("directory")
    /\ UNCHANGED <<target, root, staging, candidate, backup, context, history>>

CreateDirectory ==
    /\ pc = "directory"
    /\ plan.creates => ~root
    /\ root' = TRUE
    /\ GotoNext(0)
    /\ UNCHANGED <<target, staging, candidate, backup, journal, context, history>>

CheckOriginal ==
    /\ pc = "check"
    /\ SameContent(target[next], Original(next))
    /\ Goto("backup")
    /\ UNCHANGED <<disk, context, history>>

BackUp ==
    /\ pc = "backup"
    /\ SameIdentity(target[next], Original(next))
    /\ backup' = [backup EXCEPT ![next] = target[next]]
    /\ target' = [target EXCEPT ![next] = None]
    /\ Goto("observe")
    /\ UNCHANGED <<root, staging, candidate, journal, context, history>>

\* What was moved is hashed.  If it is not what was planned, its digest is
\* recorded and it goes back; if it cannot be read in peace it goes back first.
Observe ==
    /\ pc = "observe"
    /\ IF SameContent(backup[next], Original(next))
       THEN IF next \in plan.removes THEN Goto("verify") ELSE Goto("install")
       ELSE Goto("rebind") \/ Goto("unstable")
    /\ UNCHANGED <<disk, context, history>>

Rebind ==
    /\ pc = "rebind"
    /\ plan' = [plan EXCEPT !.original[next].data = backup[next].data]
    /\ Goto("rebound")
    /\ UNCHANGED <<disk, tx, recovering, cmd, history>>

PutBack ==
    /\ pc \in {"rebound", "unstable"}
    /\ target[next] = None
    /\ target' = [target EXCEPT ![next] = backup[next]]
    /\ backup' = [backup EXCEPT ![next] = None]
    /\ Goto(IF pc = "rebound" THEN "validate" ELSE "redigest")
    /\ UNCHANGED <<root, staging, candidate, journal, context, history>>

Redigest ==
    /\ pc = "redigest"
    /\ target[next] # None
    /\ plan' = [plan EXCEPT !.original[next].data = target[next].data]
    /\ Goto("validate")
    /\ UNCHANGED <<disk, tx, recovering, cmd, history>>

Install ==
    /\ pc = "install"
    /\ IsCandidate(candidate[next])
    /\ target[next] = None
    /\ target' = [target EXCEPT ![next] = candidate[next]]
    /\ candidate' = [candidate EXCEPT ![next] = None]
    /\ Goto("verify")
    /\ UNCHANGED <<root, staging, backup, journal, context, history>>

Verify ==
    /\ pc = "verify"
    /\ next \in plan.targets
    /\ next \notin plan.removes => target[next] # None /\ target[next].data = tx
    /\ GotoNext(next)
    /\ UNCHANGED <<disk, context, history>>

Commit ==
    /\ pc = "verify"
    /\ next = Last + 1
    /\ journal' = "committed"
    /\ installed' = [l \in Label |->
          IF l \in plan.targets
          THEN IF l \in plan.removes THEN None
               ELSE [id |-> tx, data |-> tx, private |-> 0]
          ELSE installed[l]]
    /\ Goto("cleanup")
    /\ UNCHANGED <<target, root, staging, candidate, backup, plan, tx, recovering, cmd,
                   edits, writes, retried>>

\* Mutant: a failure in the commit cleans up without rolling back.
FailureCleansUp ==
    /\ pc \in CommitSteps
    /\ Goto("cleanup")
    /\ UNCHANGED <<disk, context, history>>

\* Any step of the commit may fail, by its check or by the file system.
FailCommit ==
    /\ pc \in CommitSteps
    /\ Goto("validate")
    /\ UNCHANGED <<disk, context, history>>

(***************************************************************************)
(* rollback_transaction.                                                   *)
(***************************************************************************)

\* Mutant: a predecessor is looked for in its place only.
UndoableInPlace(l) ==
    IF Original(l) # None THEN Matches(target[l], Original(l))
    ELSE target[l] # None => candidate[l] = None /\ IsCandidate(target[l])

Undoable(l) ==
    IF backup[l] # None
    THEN /\ Matches(backup[l], Original(l))
         /\ target[l] # None => l \notin plan.removes /\ IsCandidate(target[l])
    ELSE IF Original(l) # None
         THEN Matches(target[l], Original(l))
         ELSE target[l] # None => candidate[l] = None /\ IsCandidate(target[l])

\* The whole rollback is validated before anything is touched.
Validate ==
    /\ pc = "validate"
    /\ IF staging = "marked" /\ \A l \in plan.targets : Undoable(l)
       THEN GotoAt("undo", Last)
       ELSE Goto("refused")
    /\ UNCHANGED <<disk, context, history>>

UndoMore == next > 0

\* One operation, from the last to the first: a candidate in place is removed, a
\* backup is moved back, and the outcome is checked.
Undo ==
    /\ pc = "undo"
    /\ UndoMore
    /\ IF next \notin plan.targets THEN GotoAt("undo", next - 1)
       ELSE Goto(CASE ~Undoable(next) -> "refused"
                   [] Undoable(next) /\ IsCandidate(target[next]) -> "removing"
                   [] Undoable(next) /\ ~IsCandidate(target[next]) ->
                        IF backup[next] # None THEN "restoring" ELSE "restored")
    /\ UNCHANGED <<disk, context, history>>

\* durable_remove: a file at once, the .agent tree entry by entry.
UndoRemove ==
    /\ pc = "removing"
    /\ target[next] # None
    /\ target[next].id = tx
    /\ IF next = 1 /\ target[next].data # Torn
       THEN target' = [target EXCEPT ![next].data = Torn] /\ Goto("removing")
       ELSE /\ target' = [target EXCEPT ![next] = None]
            /\ Goto(IF backup[next] # None THEN "restoring" ELSE "restored")
    /\ UNCHANGED <<root, staging, candidate, backup, journal, context, history>>

UndoRestore ==
    /\ pc = "restoring"
    /\ target[next] = None
    /\ target' = [target EXCEPT ![next] = backup[next]]
    /\ backup' = [backup EXCEPT ![next] = None]
    /\ Goto("restored")
    /\ UNCHANGED <<root, staging, candidate, journal, context, history>>

UndoRestored ==
    /\ pc = "restored"
    /\ AsPlanned(next)
    /\ GotoAt("undo", next - 1)
    /\ UNCHANGED <<disk, context, history>>

\* A check inside the rollback fails.
UndoRefused ==
    /\ \/ pc = "removing" /\ (target[next] = None \/ target[next].id # tx)
       \/ pc = "restoring" /\ target[next] # None
       \/ pc = "restored" /\ ~AsPlanned(next)
       \/ pc = "undo" /\ next = 0 /\ plan.creates /\ root /\ target # Nothing
    /\ Goto("refused")
    /\ UNCHANGED <<disk, context, history>>

\* The created directory is removed last; it has to be empty.
UndoDirectory ==
    /\ pc = "undo"
    /\ next = 0
    /\ plan.creates /\ root => target = Nothing
    /\ root' = (root /\ ~plan.creates)
    /\ Goto("cleanup")
    /\ UNCHANGED <<target, staging, candidate, backup, journal, context, history>>

(***************************************************************************)
(* finish_transaction_cleanup: the contents of the staging directory, the  *)
(* directory with its marker, the journal.                                 *)
(***************************************************************************)
EmptyStaging ==
    /\ pc = "cleanup"
    /\ candidate' = Nothing
    /\ backup' = Nothing
    /\ Goto("emptied")
    /\ UNCHANGED <<target, root, staging, journal, context, history>>

RemoveStaging ==
    /\ pc = "emptied"
    /\ staging' = "none"
    /\ Goto("unstaged")
    /\ UNCHANGED <<target, root, candidate, backup, journal, context, history>>

RemoveJournal ==
    /\ pc = "unstaged"
    /\ journal' = "none"
    /\ Goto(IF recovering THEN "plan" ELSE "idle")
    /\ UNCHANGED <<target, root, staging, candidate, backup, context, history>>

(***************************************************************************)
(* The installer dies: its lock is free, the disk stays as it is.          *)
(***************************************************************************)
Crash ==
    /\ pc # "idle"
    /\ GotoAt("idle", 0)
    /\ recovering' = FALSE
    /\ retried' = (retried \/ (journal = "committing" /\ pc \in UndoSteps \cup CleanSteps))
    /\ UNCHANGED <<disk, plan, tx, cmd, edits, writes, installed>>

(***************************************************************************)
(* A command: acquire_project_publication around whatever it does.         *)
(***************************************************************************)
Lock(c) ==
    /\ cmd[c] = "idle"
    /\ pc = "idle"
    /\ cmd' = [cmd EXCEPT ![c] = "locked"]
    /\ UNCHANGED <<disk, plan, tx, pc, next, recovering, history>>

\* Mutant: a command does not look for a pending transaction.
AlwaysMay == target[1] # None

MayRun == target[1] # None /\ journal = "none"

Enter(c) ==
    /\ cmd[c] = "locked"
    /\ cmd' = [cmd EXCEPT ![c] = IF MayRun THEN "running" ELSE "idle"]
    /\ UNCHANGED <<disk, plan, tx, pc, next, recovering, history>>

WritePrivate(c) ==
    /\ cmd[c] = "running"
    /\ writes < MaxWrites
    /\ target[1] # None
    /\ target' = [target EXCEPT ![1].private = @ + 1]
    /\ writes' = writes + 1
    /\ UNCHANGED <<root, staging, candidate, backup, journal, context, pc, next,
                   edits, installed, retried>>

Leave(c) ==
    /\ cmd[c] = "running"
    /\ cmd' = [cmd EXCEPT ![c] = "idle"]
    /\ UNCHANGED <<disk, plan, tx, pc, next, recovering, history>>

(***************************************************************************)
(* A user edits a target, holding no lock: in place, through a file that   *)
(* was opened before it was moved, or by putting a new file there.         *)
(***************************************************************************)
Edited == -(edits + 1)

EditInPlace(l) ==
    /\ edits < MaxEdits
    /\ target[l] # None
    /\ target' = [target EXCEPT ![l].data = Edited]
    /\ edits' = edits + 1
    /\ UNCHANGED <<root, staging, candidate, backup, journal, context, pc, next, writes,
                   installed, retried>>

EditMoved(l) ==
    /\ edits < MaxEdits
    /\ backup[l] # None
    /\ backup' = [backup EXCEPT ![l].data = Edited]
    /\ edits' = edits + 1
    /\ UNCHANGED <<target, root, staging, candidate, journal, context, pc, next,
                   writes, installed, retried>>

EditAnew(l) ==
    /\ edits < MaxEdits
    /\ root
    /\ target' = [target EXCEPT ![l] =
          [id |-> Edited, data |-> Edited, private |-> IF @ = None THEN 0 ELSE @.private]]
    /\ edits' = edits + 1
    /\ UNCHANGED <<root, staging, candidate, backup, journal, context, pc, next, writes,
                   installed, retried>>

Begins == CreateJournal \/ WriteJournal \/ MakeStaging \/ MarkStaging \/ BeginStaging
            \/ Stage \/ AbortStaging
Commits == StartCommit \/ CreateDirectory \/ CheckOriginal \/ BackUp \/ Observe \/ Rebind
             \/ PutBack \/ Redigest \/ Install \/ Verify \/ Commit \/ FailCommit
RollsBack == Validate \/ Undo \/ UndoRemove \/ UndoRestore \/ UndoRestored \/ UndoRefused
               \/ UndoDirectory
CleansUp == EmptyStaging \/ RemoveStaging \/ RemoveJournal

Installer ==
    \/ Acquire \/ Recover \/ Release
    \/ \E targets, removes \in SUBSET Label : MakePlan(targets, removes)
    \/ Begins \/ Commits \/ RollsBack \/ CleansUp

Command(c) == Lock(c) \/ Enter(c) \/ WritePrivate(c) \/ Leave(c)

Next ==
    \/ Installer
    \/ Crash
    \/ \E c \in Commands : Command(c)
    \/ \E l \in Label : EditInPlace(l) \/ EditMoved(l) \/ EditAnew(l)

Spec == Init /\ [][Next]_vars

(***************************************************************************)
(* Properties.                                                             *)
(***************************************************************************)
Uncommitted == {"none", "partial", "initializing", "staging"}

\* Inode and content of a target are what the last committed transaction left.

Stands(l) == SameFile(target[l], installed[l])

\* Install, update and uninstall are atomic: whatever crashes, fails and is rolled
\* back, a project without a transaction under way is, in every target, what the
\* last committed transaction left, unless a user edited it.
InstalledStands == edits = 0 /\ journal \in Uncommitted => \A l \in Label : Stands(l)

\* No command runs while targets are being replaced, nor after an installer died
\* between two of them ("pending installer transaction blocks project commands").
CommandsAreBarred == (\E c \in Commands : cmd[c] = "running") => journal = "none"

\* An update copies the private state and puts the copy in place much later; no
\* write of a command is lost by it, nor by a rollback.
PrivateKept ==
    edits = 0 /\ journal = "none" /\ target[1] # None => target[1].private = writes

\* Until it commits the installer destroys no predecessor, whatever a user does to
\* the targets meanwhile and however often a rollback is refused or cut short.
HasOriginal(l) ==
    \/ SameIdentity(target[l], Original(l))
    \/ SameIdentity(backup[l], Original(l))

PredecessorKept ==
    [][\A l \in Label :
          journal = "committing" /\ HasOriginal(l) /\ edits' = edits => HasOriginal(l)']_vars

\* A pending transaction is refused only after an edit, after a death while the
\* journal was created, or after a death inside a rollback: what a first commit
\* leaves can always be rolled back or finished.
RefusalHasCause == pc = "refused" => edits > 0 \/ journal = "partial" \/ retried

(***************************************************************************)
(* The strengthening of the first two.                                     *)
(***************************************************************************)

\* The installer works alone.
Barrier ==
    /\ pc # "idle" => Free
    /\ CommandsAreBarred

\* What the journal says at each step.
JournalFollows ==
    /\ pc \in {"plan", "create"} => journal = "none"
    /\ pc = "created" => journal = "partial"
    /\ pc \in {"begun", "unmarked", "marked"} => journal = "initializing"
    /\ pc \in {"staged", "ready"} => journal = "staging"
    /\ pc \in {"validate"} \cup CommitSteps \cup UndoSteps => journal = "committing"
    /\ pc \in CleanSteps => journal \notin {"none", "partial"}

\* The target a step is at is one of the plan, and has what the step needs.
NextFollows ==
    /\ pc \in CommitSteps \ {"directory", "verify"} => next \in plan.targets
    /\ pc = "verify" => next \in plan.targets \cup {Last + 1}
    /\ pc \in UndoSteps \ {"undo"} => next \in plan.targets
    /\ pc = "undo" => next \in 0..Last
    /\ pc \in CommitSteps \ {"directory", "install", "verify"} => Original(next) # None
    /\ pc \in {"observe", "rebind", "rebound", "unstable"} => backup[next] # None
    /\ pc = "install" => next \notin plan.removes
    /\ \A l \in plan.removes : Original(l) # None

\* The committed inodes are older than the candidates.
CandidatesAreNew ==
    \A l \in Label : installed[l] # None =>
        /\ installed[l].id <= tx
        /\ pc \in {"create"} \cup PreSteps => installed[l].id < tx
        /\ journal = "committing" => installed[l].id < tx

\* A backup exists only while targets are being replaced, and afterwards until
\* the staging directory is emptied.
BackupsAreStaged ==
    journal \in Uncommitted \/ pc \in {"emptied", "unstaged"} => backup = Nothing

\* While the journal is committing: each predecessor is in place or backed up, and
\* what stands in its stead is the candidate, whole or torn.
Placed(l) ==
    \/ AsPlanned(l) /\ backup[l] = None
    \/ /\ target[l] # None => target[l].id = tx
       /\ \/ Original(l) = None /\ backup[l] = None
          \/ Matches(backup[l], Original(l))

TargetsArePlaced ==
    journal = "committing" =>
        \A l \in Label :
            IF l \in plan.targets
            THEN Placed(l) /\ SameFile(Original(l), installed[l])
            ELSE Stands(l) /\ backup[l] = None

\* What the commit has reached.  Unless a user edits, what it moved away is what it
\* planned to move.
Done(l) == IF l \in plan.removes THEN target[l] = None ELSE IsCandidate(target[l])

CommitReached ==
    /\ pc \in CommitSteps \ {"directory"} => \A l \in plan.targets : l < next => Done(l)
    /\ pc = "observe" => target[next] = None
    /\ pc \notin {"rebind", "rebound", "unstable", "redigest"}
    /\ pc = "verify" /\ next # Last + 1 => Done(next)

\* What the rollback has reached.
UndoReached ==
    /\ pc \in UndoSteps =>
          \A l \in plan.targets : l > next => AsPlanned(l) /\ backup[l] = None
    /\ pc = "removing" => target[next] # None /\ target[next].id = tx
    /\ pc = "restored" => backup[next] = None

\* What is cleaned up after.
Settled ==
    /\ pc \in CleanSteps /\ journal = "committing" => \A l \in plan.targets : AsPlanned(l)
    /\ journal = "committed" => \A l \in Label : Stands(l)

Undisturbed ==
    /\ InstalledStands
    /\ CandidatesAreNew
    /\ BackupsAreStaged
    /\ TargetsArePlaced
    /\ CommitReached
    /\ UndoReached
    /\ Settled

IInv ==
    /\ TypeOK
    /\ Barrier
    /\ JournalFollows
    /\ NextFollows
    /\ edits = 0 => Undisturbed
=============================================================================
