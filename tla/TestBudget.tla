------------------------------- MODULE TestBudget -------------------------------
(***************************************************************************)
(* The test budgets of the candidates (testrun.py): runners reserve        *)
(* seconds in a shared registry, execute a case, append it to the receipt  *)
(* of their run and settle the reservation.  A runner may die at any step; *)
(* the next one to look charges what it had reserved.  An infrastructure   *)
(* failure stops all launches until a human decision, which is bound to    *)
(* the next one.                                                           *)
(*                                                                         *)
(* A command reads the registry, decides and writes it under budget_lock.  *)
(* agentctl start replaces the registry, and its rollback or contextctl    *)
(* journal --restore puts the old one back, without that lock: in between, *)
(* too.  The digest of a candidate covers TASK, so a task that starts has  *)
(* a candidate, and an entry in the registry, of its own.                  *)
(***************************************************************************)
EXTENDS Integers, FiniteSets, FiniteSetsExt

CONSTANTS
    Runners,      \* invocations of testrun.py
    Runs,         \* run ids; each has its own receipt file for a candidate
    Cases,        \* case ids
    Timeouts,     \* values of --timeout
    Cap,          \* wall time of the task's mode, in seconds
    Grace,        \* bound: seconds a runner may take beyond its timeout
    MaxRequests,  \* bound: remediation requests on disk, and decisions on a candidate
    MaxTasks,     \* bound: starts
    None          \* nothing there

Launch == [run : Runs, case : Cases]
Failure == {"none", "candidate", "infrastructure"}
Attempt == [track : {"code", "infrastructure"}, failure : Failure, cases : SUBSET Cases]
Budget ==
    [consumed : Nat,                            \* consumed_seconds
     failures : Nat,                            \* infrastructure_failures
     attempts : [Runs -> Attempt \cup {None}],  \* attempts
     active : SUBSET Runners,                   \* active_reservations
     allowance : Launch \cup {None},            \* remediation_allowance: the launch it is bound to
     latest : Nat]                              \* latest_receipt, 0 when there is none

Tasks == 0..MaxTasks
Registry == [Tasks -> Budget]
Held == [registry : Registry, task : Tasks]
Begun ==
    [phase : {"journaled", "emptied", "committed", "synced", "undone", "back"},
     from : Tasks, backup : Registry, alive : BOOLEAN, touched : BOOLEAN]

ASSUME BudgetAssumption ==
    /\ IsFiniteSet(Runners)
    /\ IsFiniteSet(Runs)
    /\ Timeouts \subseteq Nat \ {0}
    /\ Cap \in Nat
    /\ Grace \in Nat
    /\ MaxRequests \in Nat
    /\ MaxTasks \in Nat
    /\ None \notin Launch \cup Attempt \cup Held \cup Begun

VARIABLES
    registry,     \* test-budget.json: the budget of each task's candidate
    held,         \* what the holder of budget_lock found: the registry, and the task before it
    receipts,     \* the cases in the receipt files, by candidate and run
    requests,     \* remediation requests on disk
    pc,           \* where each runner is
    args,         \* its candidate, run, case and timeout
    loaded,       \* the cases it read from the receipt
    published,    \* budget receipts written so far: the next one is unique
    present,      \* the task in TASK
    born,         \* the last task for which a start was begun
    start,        \* the start under way, or the journal of one that died
    due,          \* history: the seconds each launch owes its budget
    decisions,    \* history: human decisions applied to each budget
    reopened      \* history: tasks whose charges a start that did not happen dropped

runner == <<pc, args, loaded, receipts>>
tasks == <<present, born, reopened>>
vars == <<registry, held, runner, requests, published, tasks, start, due, decisions>>

Args == [task : Tasks, run : Runs, case : Cases, timeout : Timeouts]
Request == [task : Tasks, launch : Launch, failures : Nat, receipt : Nat]
Phases == {"idle", "loaded", "running", "reported", "done", "dead"}

TypeOK ==
    /\ registry \in Registry
    /\ held \in Held \cup {None}
    /\ receipts \in [Tasks -> [Runs -> SUBSET Cases]]
    /\ requests \in SUBSET Request
    /\ pc \in [Runners -> Phases]
    /\ DOMAIN args \subseteq Runners
    /\ \A p \in DOMAIN args : args[p] \in Args
    /\ \A p \in Runners : pc[p] # "idle" => p \in DOMAIN args
    /\ loaded \in [Runners -> SUBSET Cases]
    /\ published \in Nat
    /\ born \in Tasks /\ present \in 0..born
    /\ start \in Begun \cup {None}
    /\ due \in [Runners -> Nat]
    /\ decisions \in [Tasks -> Nat]
    /\ reopened \subseteq Tasks

Unused ==
    [consumed |-> 0, failures |-> 0, attempts |-> [r \in Runs |-> None], active |-> {},
     allowance |-> None, latest |-> 0]
Empty == [c \in Tasks |-> Unused]

Init ==
    /\ registry = Empty
    /\ held = None
    /\ receipts = [c \in Tasks |-> [r \in Runs |-> {}]]
    /\ requests = {}
    /\ pc = [p \in Runners |-> "idle"]
    /\ args = [p \in {} |-> None]
    /\ loaded = [p \in Runners |-> {}]
    /\ published = 0
    /\ present = 0 /\ born = 0
    /\ start = None
    /\ due = [p \in Runners |-> 0]
    /\ decisions = [c \in Tasks |-> 0]
    /\ reopened = {}

(***************************************************************************)
(* reconcile_reservations.  A reservation is kept when the process that    *)
(* made it is seen alive; a live one may be missed, because the            *)
(* observation of processes can fail.                                      *)
(***************************************************************************)
Total(seconds, runners) == MapThenSumSet(LAMBDA p : seconds[p], runners)
Timeout == [p \in DOMAIN args |-> args[p].timeout]
Seconds(runners) == Total(Timeout, runners)
Alive == {p \in Runners : pc[p] \in {"running", "reported"}}

\* Mutant: a dead runner's reservation is dropped without being charged.
ConsumedWithoutCrashes(e, kept) == e.consumed

ConsumedAfter(e, kept) == e.consumed + Seconds(e.active \ kept)

Reconciled(e, kept) == [e EXCEPT !.consumed = ConsumedAfter(e, kept), !.active = kept]

\* Which reservations reconcile_reservations may keep.
Keepable(e) == SUBSET (e.active \cap Alive)

Known(e, r) == e.attempts[r] # None
KnownRuns(e) == {r \in Runs : Known(e, r)}
CodeRuns(e) == {r \in Runs : Known(e, r) /\ e.attempts[r].track = "code"}

\* Mutant: an attempt that failed does not count against the limit.
MayRetry(e, r) ==
    IF Known(e, r)
    THEN e.attempts[r].track = "code" /\ e.attempts[r].failure = "none"
    ELSE \A s \in CodeRuns(e) : e.attempts[s].failure # "none"

\* The attempt a launch joins, or opens as the only one of the code track.
MayJoin(e, r) ==
    IF Known(e, r)
    THEN e.attempts[r].track = "code" /\ e.attempts[r].failure = "none"
    ELSE CodeRuns(e) = {}

\* Mutant: the seconds other runners have reserved are not subtracted.
AffordableAlone(e, timeout, kept) == timeout <= Cap - ConsumedAfter(e, kept)

Affordable(e, timeout, kept) == timeout <= Cap - ConsumedAfter(e, kept) - Seconds(kept)

(***************************************************************************)
(* budget_lock.  Its holder writes the registry it has read with one entry *)
(* changed; one that is refused or dies writes nothing.                    *)
(***************************************************************************)
Lock ==
    /\ held = None
    /\ held' = [registry |-> registry, task |-> present]
    /\ UNCHANGED <<registry, runner, requests, published, tasks, start, due, decisions>>

Unlock ==
    /\ held # None
    /\ held' = None
    /\ UNCHANGED <<registry, runner, requests, published, tasks, start, due, decisions>>

Found(c) == held.registry[c]

Save(c, e) ==
    /\ registry' = [held.registry EXCEPT ![c] = e]
    /\ held' = None
    /\ start' = IF start # None /\ start.from = c THEN [start EXCEPT !.touched = TRUE] ELSE start

\* A budget receipt with an event in it.
Publish == published' = published + 1

(***************************************************************************)
(* A runner.                                                               *)
(***************************************************************************)

\* main: TASK, the arguments, and the receipt as they are before any lock.
LoadReceipt(p, a) ==
    /\ pc[p] = "idle"
    /\ a.task = present
    /\ a.case \notin receipts[a.task][a.run]
    /\ pc' = [pc EXCEPT ![p] = "loaded"]
    /\ args' = [q \in DOMAIN args \cup {p} |-> IF q = p THEN a ELSE args[q]]
    /\ loaded' = [loaded EXCEPT ![p] = receipts[a.task][a.run]]
    /\ UNCHANGED <<registry, held, receipts, requests, published, tasks, start, due, decisions>>

\* What reserve_budget makes of the budget: the attempt is opened unless it is there,
\* and an allowance is used up.
Reserving(e, p, kept) ==
    [Reconciled(e, kept) EXCEPT
        !.active = kept \cup {p},
        !.attempts[args[p].run] =
            IF Known(e, args[p].run) THEN @
            ELSE [track |-> "code", failure |-> "none", cases |-> {}],
        !.allowance = None,
        !.latest = published + 1]

\* reserve_budget, for the candidate that is still there when it looks under the lock
Reserve(p) ==
    LET a == args[p]
        e == Found(a.task)
    IN  /\ held # None
        /\ pc[p] = "loaded"
        /\ held.task = a.task
        /\ e.failures = 0
        /\ e.allowance \in {None, [run |-> a.run, case |-> a.case]}
        /\ MayJoin(e, a.run)
        /\ Known(e, a.run) => a.case \notin e.attempts[a.run].cases
        /\ \E kept \in Keepable(e) :
              Affordable(e, a.timeout, kept) /\ Save(a.task, Reserving(e, p, kept))
        /\ Publish
        /\ pc' = [pc EXCEPT ![p] = "running"]
        /\ due' = [due EXCEPT ![p] = a.timeout]
        /\ UNCHANGED <<args, loaded, receipts, requests, tasks, decisions>>

\* The case has run: the receipt as read before, with the case, replaces the file.
WriteReceipt(p) ==
    LET a == args[p]
    IN  /\ pc[p] = "running"
        /\ receipts' = [receipts EXCEPT ![a.task][a.run] = loaded[p] \cup {a.case}]
        /\ pc' = [pc EXCEPT ![p] = "reported"]
        /\ UNCHANGED <<registry, held, args, loaded, requests, published, tasks, start, due, decisions>>

TrackAfter(track, failure) == IF failure = "infrastructure" THEN failure ELSE track

Settling(e, p, elapsed, failure) ==
    LET a == args[p]
        x == e.attempts[a.run]
    IN  [e EXCEPT
            !.consumed = @ + elapsed,
            !.active = @ \ {p},
            !.attempts[a.run] = [track |-> TrackAfter(x.track, failure), failure |-> failure,
                                 cases |-> x.cases \cup {a.case}],
            !.failures = IF failure = "infrastructure" THEN @ + 1 ELSE @,
            !.latest = published + 1]

\* finish_budget, which wants the reservation it made; also straight from "running"
\* when the command cannot start.
Finish(p, elapsed, failure) ==
    LET e == Found(args[p].task)
    IN  /\ held # None
        /\ pc[p] = "reported" \/ (pc[p] = "running" /\ failure = "infrastructure")
        /\ p \in e.active
        /\ Save(args[p].task, Settling(e, p, elapsed, failure))
        /\ Publish
        /\ pc' = [pc EXCEPT ![p] = "done"]
        /\ due' = [due EXCEPT ![p] = elapsed]
        /\ UNCHANGED <<args, loaded, receipts, requests, tasks, decisions>>

\* A runner is killed.  One that is killed or refused before it has a reservation
\* leaves nothing: it stays "loaded".
Die(p) ==
    /\ pc[p] \in {"running", "reported"}
    /\ pc' = [pc EXCEPT ![p] = "dead"]
    /\ UNCHANGED <<registry, held, args, loaded, receipts, requests, published, tasks, start, due, decisions>>

(***************************************************************************)
(* Remediation.                                                            *)
(***************************************************************************)
\* prepare_infrastructure_remediation
Prepare(c, launch) ==
    LET e == Found(c)
    IN  /\ held # None
        /\ e.failures > 0
        /\ Cardinality(requests) < MaxRequests
        /\ \E kept \in Keepable(e) : Save(c, Reconciled(e, kept))
        /\ requests' = requests \cup
              {[task |-> c, launch |-> launch, failures |-> e.failures, receipt |-> e.latest]}
        /\ UNCHANGED <<runner, published, tasks, due, decisions>>

\* Mutant: runners that are still active do not make a request stale.
RequestBound(q, e) ==
    /\ q.receipt = e.latest
    /\ q.failures = e.failures
    /\ ~Known(e, q.launch.run)
    /\ e.failures > 0

\* validate_remediation_request
RequestCurrent(q, e) ==
    /\ q.receipt = e.latest
    /\ q.failures = e.failures
    /\ ~Known(e, q.launch.run)
    /\ e.failures > 0
    /\ e.allowance = None
    /\ e.active = {}

Remedied(e, launch) ==
    [e EXCEPT !.failures = 0, !.allowance = launch, !.latest = published + 1]

\* apply_infrastructure_remediation, with a human decision on the request.
Apply(q) ==
    LET e == Found(q.task)
    IN  /\ held # None
        /\ RequestCurrent(q, e)
        /\ decisions[q.task] < MaxRequests
        /\ Save(q.task, Remedied(e, q.launch))
        /\ Publish
        /\ decisions' = [decisions EXCEPT ![q.task] = @ + 1]
        /\ UNCHANGED <<runner, requests, tasks, due>>

(***************************************************************************)
(* agentctl start, as far as the registry and TASK go: transition_task     *)
(* keeps the bytes of both in its journal, writes the registry and then    *)
(* TASK, has its child write CONTEXT, and puts both back, TASK first, when *)
(* anything fails.  What a journal says of a start that died, and the      *)
(* restore that goes by it, are in contexttx.py; the next transition of    *)
(* any command writes over that journal.                                   *)
(***************************************************************************)
\* The registry in the file is not the one of the task in TASK.
Torn == start # None /\ start.phase \in {"emptied", "undone"}

\* A version of the registry has another budget for the task than was backed up.
Moved(v) == v[start.from] # start.backup[start.from]

\* Nothing will put back the registry that a start emptied.
Forgotten ==
    IF Torn /\ (start.touched \/ Moved(registry) \/ (held # None /\ Moved(held.registry)))
    THEN {start.from} ELSE {}

BeginStart ==
    /\ start = None
    /\ born < MaxTasks
    /\ born' = born + 1
    /\ start' = [phase |-> "journaled", from |-> present, backup |-> registry,
                 alive |-> TRUE, touched |-> FALSE]
    /\ UNCHANGED <<registry, held, runner, requests, published, present, reopened, due, decisions>>

Proceed(from, to) ==
    /\ start # None
    /\ start.phase = from /\ start.alive
    /\ start' = [start EXCEPT !.phase = to]

EmptyRegistry ==
    /\ Proceed("journaled", "emptied")
    /\ registry' = Empty
    /\ UNCHANGED <<held, runner, requests, published, tasks, due, decisions>>

CommitTask ==
    /\ Proceed("emptied", "committed")
    /\ present' = born
    /\ UNCHANGED <<registry, held, runner, requests, published, born, reopened, due, decisions>>

\* The child, which outlives its parent.
SyncContext ==
    /\ start # None
    /\ start.phase = "committed"
    /\ start' = [start EXCEPT !.phase = "synced"]
    /\ UNCHANGED <<registry, held, runner, requests, published, tasks, due, decisions>>

\* The journal is discarded, after the last write or the last one put back.
EndStart ==
    /\ start # None
    /\ start.phase \in {"synced", "back"} /\ start.alive
    /\ start' = None
    /\ UNCHANGED <<registry, held, runner, requests, published, tasks, due, decisions>>

StartDies ==
    /\ start # None
    /\ start.alive
    /\ start' = [start EXCEPT !.alive = FALSE]
    /\ UNCHANGED <<registry, held, runner, requests, published, tasks, due, decisions>>

\* transition_journal_status: what the files say is neither undone nor done.
Interrupted ==
    /\ ~(start.phase \in {"journaled", "back"} /\ registry = start.backup /\ registry # Empty)
    /\ ~(start.phase = "synced" /\ registry = Empty)

\* _restore_all, of a start that fails or by restore_transition_journal: TASK.
UndoTask ==
    /\ start # None
    /\ IF start.alive THEN start.phase \notin {"undone", "back"} ELSE Interrupted
    /\ present' = start.from
    /\ start' = [start EXCEPT !.phase = "undone", !.alive = TRUE]
    /\ UNCHANGED <<registry, held, runner, requests, published, born, reopened, due, decisions>>

\* _restore_all: the registry, whatever was written to it since.
PutBack ==
    /\ Proceed("undone", "back")
    /\ registry' = start.backup
    /\ reopened' = IF start.touched \/ (held # None /\ Moved(held.registry))
                   THEN reopened \cup {start.from} ELSE reopened
    /\ UNCHANGED <<held, runner, requests, published, present, born, due, decisions>>

\* The journal of a dead start is discarded, or another command's transition writes
\* over it.
Forget ==
    /\ start # None
    /\ ~start.alive
    /\ start' = None
    /\ reopened' = reopened \cup Forgotten
    /\ UNCHANGED <<registry, held, runner, requests, published, present, born, due, decisions>>

Runner(p) ==
    \/ \E a \in Args : LoadReceipt(p, a)
    \/ Reserve(p)
    \/ WriteReceipt(p)
    \/ /\ pc[p] \in {"running", "reported"}
       /\ \E elapsed \in 1..(args[p].timeout + Grace), failure \in Failure :
              Finish(p, elapsed, failure)
    \/ Die(p)

Start ==
    \/ BeginStart \/ EmptyRegistry \/ CommitTask \/ SyncContext \/ EndStart
    \/ StartDies \/ UndoTask \/ PutBack \/ Forget

Next ==
    \/ Lock \/ Unlock
    \/ \E p \in Runners : Runner(p)
    \/ \E c \in 0..born, launch \in Launch : Prepare(c, launch)
    \/ \E q \in requests : Apply(q)
    \/ Start

Spec == Init /\ [][Next]_vars

(***************************************************************************)
(* Properties.                                                             *)
(***************************************************************************)
Reserved(e) == Seconds(e.active)

\* The launches on the candidate of a task, and their run ids.
Launches(c) == {p \in DOMAIN args : args[p].task = c /\ due[p] > 0}
LaunchedRuns(c) == {args[p].run : p \in Launches(c)}

\* The registry speaks for TASK: no start is between emptying it and writing TASK, or
\* between putting back TASK and putting back the registry, and none dropped a charge.
InForce == ~Torn /\ present \notin reopened

\* Every launch owes the budget exactly once: the time it took if it settled its
\* reservation, the whole reservation while it runs and after it died or was taken for
\* dead, and never both ("a crash cannot reopen the budget"), although a start writes
\* the registry without the lock; unless one that did not happen, and overlapped with
\* the launch, put the old registry back or left an empty one.
ChargedOnce ==
    InForce => registry[present].consumed + Reserved(registry[present]) = Total(due, Launches(present))

\* The seconds a runner needed to end after its timeout.
Overrun ==
    [p \in DOMAIN args |-> IF due[p] > args[p].timeout THEN due[p] - args[p].timeout ELSE 0]

\* However runners overlap and die, and whichever version of the registry a start puts
\* back under them, what is charged and reserved stays within the budget but for the
\* seconds a runner needed to end after its timeout.
BudgetHolds ==
    \A c \in Tasks : registry[c].consumed + Reserved(registry[c]) <= Cap + Total(Overrun, Launches(c))

\* A decision unlocks "that exact one next launch": until that launch begins nothing
\* runs, so no failure can slip in under a decision that did not see it.
AllowanceIsQuiet ==
    \A c \in Tasks : registry[c].allowance # None =>
        registry[c].active = {} /\ registry[c].failures = 0

\* A candidate has one automatic attempt: every further run id that was launched was
\* paid for with a human decision on an infrastructure failure, whatever fails
\* concurrently; but for a start that did not happen and dropped the attempt or the
\* decision, as above.
RunsNeedDecisions == InForce => Cardinality(LaunchedRuns(present)) <= 1 + decisions[present]
=============================================================================
