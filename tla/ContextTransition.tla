--------------------------- MODULE ContextTransition ---------------------------
(***************************************************************************)
(* The TASK/CONTEXT transaction of contexttx.py, the contextctl child that *)
(* commits its CONTEXT half, and the three contextctl commands that run    *)
(* beside it: account-turn, journal --restore and journal --discard.       *)
(*                                                                         *)
(* A process is one command invocation; it runs once.  The version a       *)
(* mutator writes to a file is named by the mutator itself, so a file      *)
(* holds Initial or the mutator whose bytes it has.                        *)
(*                                                                         *)
(* Two flock(2) locks are involved.  A transition holds TASK_LOCK; its     *)
(* child, account-turn and both journal commands hold the CONTEXT lock     *)
(* (contextctl.main takes it for every subcommand); restore takes          *)
(* TASK_LOCK inside it.                                                    *)
(***************************************************************************)
EXTENDS Naturals, FiniteSets

CONSTANTS
    Mutators,     \* invocations of a command that calls transition_task
    Accountants,  \* invocations of contextctl account-turn
    Restorers,    \* invocations of contextctl journal --restore
    Discarders,   \* invocations of contextctl journal --discard
    Turns,        \* host turn identities
    TurnOf,       \* the turn each accountant charges
    Initial,      \* the version every file has at the start
    NoOwner       \* a free lock

Proc == Mutators \cup Accountants \cup Restorers \cup Discarders
Version == Mutators \cup {Initial}

ASSUME ProcAssumption ==
    /\ Initial \notin Proc
    /\ NoOwner \notin Proc
    /\ Mutators \cap (Accountants \cup Restorers \cup Discarders) = {}
    /\ Accountants \cap (Restorers \cup Discarders) = {}
    /\ Restorers \cap Discarders = {}
    /\ TurnOf \in [Accountants -> Turns]

VARIABLES
    task,         \* version in .agent/state/TASK.json
    stage,        \* version in the side-effect file (STAGE)
    context,      \* .agent/state/CONTEXT.json
    journal,      \* .context-transition-journal.json: {} or one record
    taskLock,     \* holder of .task.lock
    contextLock,  \* holder of .context.lock; a mutator stands for its child
    pc,           \* next step of each command, or how it ended
    before,       \* the TASK version each command read when it started
    tokens,       \* the --source-tokens a mutator gives its child
    held,         \* the journal record a command works from: {} or one
    child         \* the contextctl sync --transition child of each mutator

files == <<task, stage, context>>
locks == <<taskLock, contextLock>>
vars == <<task, stage, context, journal, taskLock, contextLock, pc, before,
          tokens, held, child>>

(***************************************************************************)
(* The parts of a capsule that decide a transition: the TASK invariant it  *)
(* binds, the one its usage receipt binds, the active-window estimate and  *)
(* the turn ids already charged.                                           *)
(***************************************************************************)
Context == [task : Version, fresh : Version, est : Nat, turns : SUBSET Turns]
Files == [task : Version, stage : Version, context : Context]
Journal == [after : Mutators, before : Files]

Steps == {"start", "enter", "journal", "stage", "task", "authorize", "wait",
          "clean", "undoTask", "undoContext", "undoStage", "undone",
          "lockTask", "unlink", "charge"}
Ends == {"committed", "rolledBack", "restored", "discarded", "accounted",
         "rejected", "crashed"}
ChildSteps == {"queued", "running", "checked"}
ChildEnds == {"none", "ok", "failed", "killed"}

TypeOK ==
    /\ task \in Version
    /\ stage \in Version
    /\ context \in Context
    /\ journal \in SUBSET Journal
    /\ taskLock \in Proc \cup {NoOwner}
    /\ contextLock \in Proc \cup {NoOwner}
    /\ pc \in [Proc -> Steps \cup Ends]
    /\ before \in [Mutators -> Version]
    /\ tokens \in [Mutators -> Nat]
    /\ held \in [Proc -> SUBSET Journal]
    /\ child \in [Mutators -> ChildSteps \cup ChildEnds]

Init ==
    /\ task = Initial
    /\ stage = Initial
    /\ context = [task |-> Initial, fresh |-> Initial, est |-> 1, turns |-> {}]
    /\ journal = {}
    /\ taskLock = NoOwner
    /\ contextLock = NoOwner
    /\ pc = [p \in Proc |-> "start"]
    /\ before = [m \in Mutators |-> Initial]
    /\ tokens = [m \in Mutators |-> 0]
    /\ held = [p \in Proc |-> {}]
    /\ child = [m \in Mutators |-> "none"]

(***************************************************************************)
(* transition_journal_status: each file is at its before bytes, at its     *)
(* after bytes, or unknown.  CONTEXT has no after digest.                  *)
(***************************************************************************)
FileState(current, old, new) ==
    IF current = new THEN "after" ELSE IF current = old THEN "before" ELSE "unknown"

JournalState(j) ==
    LET taskState == FileState(task, j.before.task, j.after)
        stageState == FileState(stage, j.before.stage, j.after)
        contextState == IF context = j.before.context THEN "before" ELSE "unknown"
    IN  IF {taskState, stageState, contextState} = {"before"}
        THEN "rolled_back"
        ELSE IF taskState = "after" /\ stageState = "after" /\ contextState = "unknown"
        THEN "committed"
        ELSE "interrupted"

Interrupted == \E j \in journal : JournalState(j) = "interrupted"

(***************************************************************************)
(* transition_task.                                                        *)
(***************************************************************************)
\* The command loads TASK before it has any lock.
ReadTask(m) ==
    /\ pc[m] = "start"
    /\ before' = [before EXCEPT ![m] = task]
    /\ pc' = [pc EXCEPT ![m] = "enter"]
    /\ UNCHANGED <<files, journal, locks, tokens, held, child>>

\* Fault: the compare with the TASK read before is left out.
EnterUnchecked(m) ==
    /\ pc[m] = "enter"
    /\ taskLock = NoOwner
    /\ taskLock' = m
    /\ tokens' = [tokens EXCEPT ![m] = context.est + 1]
    /\ pc' = [pc EXCEPT ![m] = "journal"]
    /\ UNCHANGED <<files, journal, contextLock, before, held, child>>

\* TASK_LOCK, the compare with the TASK read before, and the token floor
\* automatic_transition_source_tokens derives from the capsule on disk.
EnterTransition(m) ==
    /\ pc[m] = "enter"
    /\ taskLock = NoOwner
    /\ task = before[m]
    /\ taskLock' = m
    /\ tokens' = [tokens EXCEPT ![m] = context.est + 1]
    /\ pc' = [pc EXCEPT ![m] = "journal"]
    /\ UNCHANGED <<files, journal, contextLock, before, held, child>>

RejectTransition(m) ==
    /\ pc[m] = "enter"
    /\ taskLock = NoOwner
    /\ task # before[m]
    /\ pc' = [pc EXCEPT ![m] = "rejected"]
    /\ UNCHANGED <<files, journal, locks, before, tokens, held, child>>

\* The backups of every target and the journal that holds them.
WriteJournal(m) ==
    /\ pc[m] = "journal"
    /\ LET j == [after |-> m,
                 before |-> [task |-> task, stage |-> stage, context |-> context]]
       IN  /\ journal' = {j}
           /\ held' = [held EXCEPT ![m] = {j}]
    /\ pc' = [pc EXCEPT ![m] = "stage"]
    /\ UNCHANGED <<files, locks, before, tokens, child>>

WriteSideEffects(m) ==
    /\ pc[m] = "stage"
    /\ stage' = m
    /\ pc' = [pc EXCEPT ![m] = "task"]
    /\ UNCHANGED <<task, context, journal, locks, before, tokens, held, child>>

WriteTask(m) ==
    /\ pc[m] = "task"
    /\ task' = m
    /\ pc' = [pc EXCEPT ![m] = "authorize"]
    /\ UNCHANGED <<stage, context, journal, locks, before, tokens, held, child>>

\* The authorization file is written and the child is started.
StartChild(m) ==
    /\ pc[m] = "authorize"
    /\ pc' = [pc EXCEPT ![m] = "wait"]
    /\ child' = [child EXCEPT ![m] = "queued"]
    /\ UNCHANGED <<files, journal, locks, before, tokens, held>>

\* A write, the authorization or the launch raises: the except branch.
AbortTransition(m) ==
    /\ pc[m] \in {"stage", "task", "authorize"}
    /\ pc' = [pc EXCEPT ![m] = "undoTask"]
    /\ UNCHANGED <<files, journal, locks, before, tokens, held, child>>

\* Fault: the exit status of the child is not looked at.
ReapUnchecked(m) ==
    /\ pc[m] = "wait"
    /\ child[m] \in {"ok", "failed"}
    /\ pc' = [pc EXCEPT ![m] = "clean"]
    /\ UNCHANGED <<files, journal, locks, before, tokens, held, child>>

ReapChild(m) ==
    /\ pc[m] = "wait"
    /\ child[m] \in {"ok", "failed"}
    /\ pc' = [pc EXCEPT ![m] = IF child[m] = "ok" THEN "clean" ELSE "undoTask"]
    /\ UNCHANGED <<files, journal, locks, before, tokens, held, child>>

\* Fault: the limit covers only a child that has the CONTEXT lock.
TimeoutRunning(m) ==
    /\ pc[m] = "wait"
    /\ child[m] \in {"running", "checked"}
    /\ child' = [child EXCEPT ![m] = "killed"]
    /\ contextLock' = IF contextLock = m THEN NoOwner ELSE contextLock
    /\ pc' = [pc EXCEPT ![m] = "undoTask"]
    /\ UNCHANGED <<files, journal, taskLock, before, tokens, held>>

\* The 120 second limit (or an interrupt): the supervisor kills the child,
\* and with it the child's hold on the CONTEXT lock.
TimeoutChild(m) ==
    /\ pc[m] = "wait"
    /\ child[m] \in ChildSteps
    /\ child' = [child EXCEPT ![m] = "killed"]
    /\ contextLock' = IF contextLock = m THEN NoOwner ELSE contextLock
    /\ pc' = [pc EXCEPT ![m] = "undoTask"]
    /\ UNCHANGED <<files, journal, taskLock, before, tokens, held>>

CommitTransition(m) ==
    /\ pc[m] = "clean"
    /\ journal' = {}
    /\ taskLock' = NoOwner
    /\ pc' = [pc EXCEPT ![m] = "committed"]
    /\ UNCHANGED <<files, contextLock, before, tokens, held, child>>

(***************************************************************************)
(* contextctl sync --transition, the child of a mutator.  It outlives a    *)
(* parent that is killed.                                                  *)
(***************************************************************************)
LockChild(m) ==
    /\ child[m] = "queued"
    /\ contextLock = NoOwner
    /\ contextLock' = m
    /\ child' = [child EXCEPT ![m] = "running"]
    /\ UNCHANGED <<files, journal, taskLock, pc, before, tokens, held>>

\* The previous capsule binds before_task and is intact, TASK is after_task,
\* and the estimate is at least one increment above the capsule's.
TransitionAllowed(m) ==
    /\ context.task = before[m]
    /\ context.fresh = context.task
    /\ task = m
    /\ tokens[m] >= context.est + 1

CheckChild(m) ==
    /\ child[m] = "running"
    /\ TransitionAllowed(m)
    /\ child' = [child EXCEPT ![m] = "checked"]
    /\ UNCHANGED <<files, journal, locks, pc, before, tokens, held>>

\* A failed check, or any other error of the child before it writes.
FailChild(m) ==
    /\ child[m] \in {"running", "checked"}
    /\ child' = [child EXCEPT ![m] = "failed"]
    /\ contextLock' = NoOwner
    /\ UNCHANGED <<files, journal, taskLock, pc, before, tokens, held>>

\* build_capsule loads TASK again; the final validate_context may fail.
WriteContext(m) ==
    /\ child[m] = "checked"
    /\ context' = [context EXCEPT !.task = task, !.fresh = task, !.est = tokens[m]]
    /\ \E result \in {"ok", "failed"} : child' = [child EXCEPT ![m] = result]
    /\ contextLock' = NoOwner
    /\ UNCHANGED <<task, stage, journal, taskLock, pc, before, tokens, held>>

(***************************************************************************)
(* _restore_all and the discard that follows it, run by a mutator whose    *)
(* transition failed and by journal --restore.                             *)
(***************************************************************************)
\* Fault: the journal goes before the other files are back.
UndoTaskEarlyDiscard(p) ==
    /\ pc[p] = "undoTask"
    /\ \E j \in held[p] : task' = j.before.task
    /\ journal' = {}
    /\ pc' = [pc EXCEPT ![p] = "undoContext"]
    /\ UNCHANGED <<stage, context, locks, before, tokens, held, child>>

UndoTask(p) ==
    /\ pc[p] = "undoTask"
    /\ \E j \in held[p] : task' = j.before.task
    /\ pc' = [pc EXCEPT ![p] = "undoContext"]
    /\ UNCHANGED <<stage, context, journal, locks, before, tokens, held, child>>

\* Fault: CONTEXT is left to the child.
UndoContextSkipped(p) ==
    /\ pc[p] = "undoContext"
    /\ pc' = [pc EXCEPT ![p] = "undoStage"]
    /\ UNCHANGED <<files, journal, locks, before, tokens, held, child>>

UndoContext(p) ==
    /\ pc[p] = "undoContext"
    /\ \E j \in held[p] : context' = j.before.context
    /\ pc' = [pc EXCEPT ![p] = "undoStage"]
    /\ UNCHANGED <<task, stage, journal, locks, before, tokens, held, child>>

\* Fault: side effects are not rolled back.
UndoStageSkipped(p) ==
    /\ pc[p] = "undoStage"
    /\ pc' = [pc EXCEPT ![p] = "undone"]
    /\ UNCHANGED <<files, journal, locks, before, tokens, held, child>>

UndoStage(p) ==
    /\ pc[p] = "undoStage"
    /\ \E j \in held[p] : stage' = j.before.stage
    /\ pc' = [pc EXCEPT ![p] = "undone"]
    /\ UNCHANGED <<task, context, journal, locks, before, tokens, held, child>>

FinishUndo(p) ==
    /\ pc[p] = "undone"
    /\ journal' = {}
    /\ taskLock' = NoOwner
    /\ contextLock' = IF p \in Restorers THEN NoOwner ELSE contextLock
    /\ pc' = [pc EXCEPT ![p] = IF p \in Restorers THEN "restored" ELSE "rolledBack"]
    /\ UNCHANGED <<files, before, tokens, held, child>>

(***************************************************************************)
(* contextctl journal --restore.                                           *)
(***************************************************************************)
LockContextForRestore(r) ==
    /\ pc[r] = "start"
    /\ contextLock = NoOwner
    /\ contextLock' = r
    /\ pc' = [pc EXCEPT ![r] = "lockTask"]
    /\ UNCHANGED <<files, journal, taskLock, before, tokens, held, child>>

\* Fault: any journal is restored, whatever its state.
RestoreAny(r) ==
    /\ pc[r] = "lockTask"
    /\ taskLock = NoOwner
    /\ journal # {}
    /\ taskLock' = r
    /\ held' = [held EXCEPT ![r] = journal]
    /\ pc' = [pc EXCEPT ![r] = "undoTask"]
    /\ UNCHANGED <<files, journal, contextLock, before, tokens, child>>

RestoreJournal(r) ==
    /\ pc[r] = "lockTask"
    /\ taskLock = NoOwner
    /\ Interrupted
    /\ taskLock' = r
    /\ held' = [held EXCEPT ![r] = journal]
    /\ pc' = [pc EXCEPT ![r] = "undoTask"]
    /\ UNCHANGED <<files, journal, contextLock, before, tokens, child>>

RefuseRestore(r) ==
    /\ pc[r] = "lockTask"
    /\ taskLock = NoOwner
    /\ ~Interrupted
    /\ contextLock' = NoOwner
    /\ pc' = [pc EXCEPT ![r] = "rejected"]
    /\ UNCHANGED <<files, journal, taskLock, before, tokens, held, child>>

(***************************************************************************)
(* contextctl journal --discard: the status is read and the file removed   *)
(* under the CONTEXT lock alone.                                           *)
(***************************************************************************)
CheckDiscard(d) ==
    /\ pc[d] = "start"
    /\ contextLock = NoOwner
    /\ ~Interrupted
    /\ contextLock' = d
    /\ pc' = [pc EXCEPT ![d] = "unlink"]
    /\ UNCHANGED <<files, journal, taskLock, before, tokens, held, child>>

RefuseDiscard(d) ==
    /\ pc[d] = "start"
    /\ contextLock = NoOwner
    /\ Interrupted
    /\ pc' = [pc EXCEPT ![d] = "rejected"]
    /\ UNCHANGED <<files, journal, locks, before, tokens, held, child>>

DiscardJournal(d) ==
    /\ pc[d] = "unlink"
    /\ journal' = {}
    /\ contextLock' = NoOwner
    /\ pc' = [pc EXCEPT ![d] = "discarded"]
    /\ UNCHANGED <<files, taskLock, before, tokens, held, child>>

(***************************************************************************)
(* contextctl account-turn: validate_context, then one more load of TASK   *)
(* and the write of the capsule.                                           *)
(***************************************************************************)
ContextValid == context.task = task /\ context.fresh = task

ValidateTurn(a) ==
    /\ pc[a] = "start"
    /\ contextLock = NoOwner
    /\ ContextValid
    /\ TurnOf[a] \notin context.turns
    /\ contextLock' = a
    /\ pc' = [pc EXCEPT ![a] = "charge"]
    /\ UNCHANGED <<files, journal, taskLock, before, tokens, held, child>>

\* The id is in the ledger already: the command succeeds without a charge.
TurnAlreadyAccounted(a) ==
    /\ pc[a] = "start"
    /\ contextLock = NoOwner
    /\ ContextValid
    /\ TurnOf[a] \in context.turns
    /\ pc' = [pc EXCEPT ![a] = "accounted"]
    /\ UNCHANGED <<files, journal, locks, before, tokens, held, child>>

RefuseTurn(a) ==
    /\ pc[a] = "start"
    /\ contextLock = NoOwner
    /\ ~ContextValid
    /\ pc' = [pc EXCEPT ![a] = "rejected"]
    /\ UNCHANGED <<files, journal, locks, before, tokens, held, child>>

ChargeTurn(a) ==
    /\ pc[a] = "charge"
    /\ context' = [context EXCEPT !.fresh = task, !.est = @ + 1,
                                  !.turns = @ \cup {TurnOf[a]}]
    /\ contextLock' = NoOwner
    /\ pc' = [pc EXCEPT ![a] = IF task = context.task THEN "accounted" ELSE "rejected"]
    /\ UNCHANGED <<task, stage, journal, taskLock, before, tokens, held, child>>

(***************************************************************************)
(* Failures.  A killed command drops the locks it has; the child of a      *)
(* mutator runs on.  A failure inside _restore_all ends the command the    *)
(* same way, the journal left in place.                                    *)
(***************************************************************************)
Running(p) == pc[p] \in Steps \ {"start"}

Crash(p) ==
    /\ Running(p)
    /\ pc' = [pc EXCEPT ![p] = "crashed"]
    /\ taskLock' = IF taskLock = p THEN NoOwner ELSE taskLock
    /\ contextLock' = IF contextLock = p /\ p \notin Mutators THEN NoOwner ELSE contextLock
    /\ UNCHANGED <<files, journal, before, tokens, held, child>>

\* The machine stops: every command and every child is gone.
PowerLoss ==
    /\ \E p \in Proc : Running(p)
    /\ pc' = [p \in Proc |-> IF Running(p) THEN "crashed" ELSE pc[p]]
    /\ child' = [m \in Mutators |-> IF child[m] \in ChildSteps THEN "killed" ELSE child[m]]
    /\ taskLock' = NoOwner
    /\ contextLock' = NoOwner
    /\ UNCHANGED <<files, journal, before, tokens, held>>

Transition(m) ==
    \/ ReadTask(m) \/ EnterTransition(m) \/ RejectTransition(m)
    \/ WriteJournal(m) \/ WriteSideEffects(m) \/ WriteTask(m) \/ StartChild(m)
    \/ AbortTransition(m) \/ ReapChild(m) \/ TimeoutChild(m) \/ CommitTransition(m)

Child(m) == LockChild(m) \/ CheckChild(m) \/ FailChild(m) \/ WriteContext(m)

Undo(p) == UndoTask(p) \/ UndoContext(p) \/ UndoStage(p) \/ FinishUndo(p)

Restore(r) == LockContextForRestore(r) \/ RestoreJournal(r) \/ RefuseRestore(r)

Discard(d) == CheckDiscard(d) \/ RefuseDiscard(d) \/ DiscardJournal(d)

AccountTurn(a) ==
    ValidateTurn(a) \/ TurnAlreadyAccounted(a) \/ RefuseTurn(a) \/ ChargeTurn(a)

Next ==
    \/ \E m \in Mutators : Transition(m) \/ Child(m)
    \/ \E p \in Mutators \cup Restorers : Undo(p)
    \/ \E r \in Restorers : Restore(r)
    \/ \E d \in Discarders : Discard(d)
    \/ \E a \in Accountants : AccountTurn(a)
    \/ \E p \in Proc : Crash(p)
    \/ PowerLoss

Spec == Init /\ [][Next]_vars

(***************************************************************************)
(* Every command and every child is scheduled; the time limit of a child   *)
(* is part of its parent's step.  Crashes are not forced.                  *)
(***************************************************************************)
Fairness ==
    /\ \A m \in Mutators : WF_vars(Transition(m)) /\ WF_vars(Child(m))
    /\ \A p \in Mutators \cup Restorers : WF_vars(Undo(p))
    /\ \A r \in Restorers : WF_vars(Restore(r))
    /\ \A d \in Discarders : WF_vars(Discard(d))
    /\ \A a \in Accountants : WF_vars(AccountTurn(a))

FairSpec == Spec /\ Fairness

-----------------------------------------------------------------------------
(***************************************************************************)
(* Properties.                                                             *)
(***************************************************************************)
\* The mutators whose transaction reported success.
Acknowledged == {m \in Mutators : pc[m] = "committed"}

(***************************************************************************)
(* What TASK promises to the mutators: compare-and-set on the version each *)
(* one read, and no acknowledged update is ever undone, whatever crashes,  *)
(* overtakes or restores.                                                  *)
(***************************************************************************)
Register == INSTANCE TaskRegister WITH
                Writers <- Mutators, value <- task, base <- before, acked <- Acknowledged
RegisterSpec == Register!Spec

(***************************************************************************)
(* "Commit TASK, side effects and CONTEXT as one rollback-safe             *)
(* transaction" (transition_task): when a transition reports success, all  *)
(* three files have its version.                                           *)
(***************************************************************************)
CommitIsWhole ==
    [][\A m \in Mutators :
          pc[m] # "committed" /\ pc'[m] = "committed"
            => task' = m /\ stage' = m /\ context'.task = m]_vars

(***************************************************************************)
(* A transition that reports "rolled back" leaves TASK and the side effect *)
(* exactly as it found them.                                               *)
(***************************************************************************)
RollbackIsExact ==
    [][\A m \in Mutators :
          pc[m] # "rolledBack" /\ pc'[m] = "rolledBack"
            => /\ task' = before[m]
               /\ \A j \in held[m] : stage' = j.before.stage]_vars

Torn == ~(task = stage /\ task = context.task)

(***************************************************************************)
(* The crash journal (contexttx.py:374-376): when no transition is running *)
(* and the files disagree, the journal is there and restore accepts it.    *)
(***************************************************************************)
JournalCoversTear == Torn /\ taskLock = NoOwner => Interrupted

(***************************************************************************)
(* A restore that reports success leaves one version in all three files,   *)
(* and no journal.                                                         *)
(***************************************************************************)
RestoreHeals ==
    [][\A r \in Restorers :
          pc[r] # "restored" /\ pc'[r] = "restored" => ~Torn' /\ journal' = {}]_vars

(***************************************************************************)
(* restore never undoes a transition all of whose files are in place       *)
(* (contexttx.py:238-242: it "would silently revert valid current state"). *)
(***************************************************************************)
RestoreSparesComplete ==
    [][\A r \in Restorers :
          pc[r] = "lockTask" /\ pc'[r] = "undoTask" => Torn]_vars

(***************************************************************************)
(* Every command ends, though restore and a transition take the two locks  *)
(* in opposite orders.                                                     *)
(***************************************************************************)
EveryCommandEnds == \A p \in Proc : <>(pc[p] \in Ends)

(***************************************************************************)
(* The inductive invariant.                                                *)
(***************************************************************************)
\* Steps at which a mutator (or a restorer) is inside TASK_LOCK, and those
\* at which a mutator has its journal on disk.
Journaled == {"stage", "task", "authorize", "wait", "clean",
              "undoTask", "undoContext", "undoStage", "undone"}
Critical == Journaled \cup {"journal"}
Undoing == {"undoTask", "undoContext", "undoStage", "undone"}

\* The steps each kind of command goes through.
RolesKept ==
    /\ \A m \in Mutators :
          pc[m] \in {"start", "enter"} \cup Critical
                    \cup {"committed", "rolledBack", "rejected", "crashed"}
    /\ \A r \in Restorers :
          pc[r] \in {"start", "lockTask", "restored", "rejected", "crashed"} \cup Undoing
    /\ \A d \in Discarders : pc[d] \in {"start", "unlink", "discarded", "rejected", "crashed"}
    /\ \A a \in Accountants : pc[a] \in {"start", "charge", "accounted", "rejected", "crashed"}

LocksKept ==
    /\ \A p \in Proc : pc[p] \in Critical => taskLock = p
    /\ \A r \in Restorers : pc[r] \in Undoing \cup {"lockTask"} => contextLock = r
    /\ \A d \in Discarders : pc[d] = "unlink" => contextLock = d
    /\ \A a \in Accountants : pc[a] = "charge" => contextLock = a
    /\ \A m \in Mutators : child[m] \in {"running", "checked"} => contextLock = m

\* Where TASK is while a mutator works on it.
TaskTracked ==
    \A m \in Mutators :
        /\ pc[m] \in {"journal", "stage", "task", "undoContext", "undoStage", "undone"}
             => task = before[m]
        /\ pc[m] \in {"authorize", "wait", "clean"} => task = m
        /\ pc[m] = "undoTask" => task \in {m, before[m]}

\* What a mutator works from.
OwnBackup(m, j) == j.after = m /\ j.before.task = before[m]

HeldTracked ==
    \A m \in Mutators : pc[m] \in Journaled =>
        /\ held[m] # {}
        /\ \A j \in held[m] : OwnBackup(m, j)
        /\ \A i, j \in held[m] : i = j
        /\ \A j \in journal : j.after = m

\* A journal belongs to a transition that is running or was killed, and TASK
\* has one of its two versions.
JournalTracked ==
    /\ \A i, j \in journal : i = j
    /\ \A j \in journal :
          /\ OwnBackup(j.after, j)
          /\ pc[j.after] \in Journaled \cup {"crashed"}
          /\ task \in {j.after, before[j.after]}

\* So does the record a restorer works from, and its owner is gone.
RestoreTracked ==
    \A r \in Restorers : pc[r] \in Undoing =>
        /\ held[r] # {}
        /\ \A j \in held[r] :
              /\ OwnBackup(j.after, j)
              /\ pc[j.after] = "crashed"
              /\ task \in {j.after, before[j.after]}
        /\ \A i, j \in held[r] : i = j
        /\ \A i \in journal, j \in held[r] : i.after = j.after

\* The other two files of a transition on its way to success, and the side
\* effect of one that has been undone.
FilesTracked ==
    \A m \in Mutators :
        /\ pc[m] \in {"task", "authorize", "wait", "clean"} => stage = m
        /\ pc[m] = "wait" /\ child[m] = "ok" => context.task = m
        /\ pc[m] = "clean" => context.task = m
        /\ pc[m] \in {"start", "enter", "journal", "stage", "task", "authorize"}
             => child[m] = "none"
        /\ pc[m] = "undone" => \A j \in held[m] : stage = j.before.stage

IInv ==
    /\ TypeOK
    /\ RolesKept
    /\ LocksKept
    /\ TaskTracked
    /\ HeldTracked
    /\ JournalTracked
    /\ RestoreTracked
    /\ FilesTracked

\* No mutator has read its own version, and none has written it before it starts.
OlderRead ==
    \A m \in Mutators :
        /\ before[m] # m
        /\ pc[m] = "start" => task # m /\ \A n \in Mutators : before[n] # m

(***************************************************************************)
(* What makes the journal enough when one transition runs, without         *)
(* account-turn or a discard beside it: the journal is there whenever the  *)
(* files are torn, and leads back to files that agree.                     *)
(***************************************************************************)
Solo ==
    /\ Accountants = {}
    /\ Discarders = {}
    /\ \A m, n \in Mutators : m = n

SoloInv ==
    /\ journal = {} => ~Torn
    /\ \A j \in journal :
          /\ j.before.task = j.before.stage /\ j.before.task = j.before.context.task
          /\ context = j.before.context \/ context.task = j.after
    /\ \A m \in Mutators :
          /\ pc[m] \in {"start", "enter", "journal"} => journal = {}
          /\ pc[m] \in Journaled => held[m] = journal
          /\ child[m] = "checked" => task = m
          /\ pc[m] \in Undoing => child[m] \notin ChildSteps
          /\ pc[m] \in {"undoStage", "undone"} =>
                \A j \in held[m] : context = j.before.context
    /\ \A r \in Restorers :
          /\ pc[r] \in Undoing => held[r] = journal
          /\ pc[r] \in {"undoContext", "undoStage", "undone"} =>
                \A j \in held[r] : task = j.before.task
          /\ pc[r] \in {"undoStage", "undone"} =>
                \A j \in held[r] : context = j.before.context
          /\ pc[r] = "undone" => \A j \in held[r] : stage = j.before.stage
=============================================================================
