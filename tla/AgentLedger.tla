------------------------------- MODULE AgentLedger ------------------------------
(***************************************************************************)
(* The ledger of child agents (agentledger.py) and its append hash chain.  *)
(* A command of agentledger.py works under .agents.lock: it loads the      *)
(* ledger, checks it against a snapshot of the platform, and saves the     *)
(* next version, the chain's new tip first.  Registration, task start and  *)
(* completion write the ledger inside a TASK transition instead            *)
(* (contexttx.py), and so does agentctl escalate-mode, which never takes   *)
(* .agents.lock.  Either process may die at any step; what a transition    *)
(* leaves is repaired with contextctl journal.                             *)
(*                                                                         *)
(* A version of the ledger is named by the content of its file (id).  A    *)
(* command that is refused changes nothing and is not modelled.            *)
(***************************************************************************)
EXTENDS Integers, Sequences, FiniteSets

CONSTANTS
    Agents,      \* canonical agent ids
    Retries,     \* those whose envelope says redispatch_count 1
    Budget,      \* what each mode's token budget leaves to children
    Cap,         \* children a mode admits beside the root
    Cost,        \* tokens one child reserves
    MaxIds,      \* bound: versions of the ledger
    MaxSnaps,    \* bound: platform snapshots
    MaxFaults,   \* bound: commands that die or fail half way
    None         \* no operation, journal, marker, task

Modes == DOMAIN Budget

ASSUME LedgerAssumption ==
    /\ IsFiniteSet(Agents)
    /\ Retries \subseteq Agents
    /\ Budget \in Seq(Nat) /\ Len(Budget) > 0
    /\ Cap \in [Modes -> Nat]
    /\ \A m, n \in Modes : m < n => Budget[m] <= Budget[n] /\ Cap[m] <= Cap[n]
    /\ Cost \in Nat
    /\ MaxIds \in Nat
    /\ MaxSnaps \in Nat
    /\ MaxFaults \in Nat

VARIABLES
    ledger,      \* state/agents.json
    chain,       \* the chain journal beside it
    task,        \* the fields of TASK.json the ledger depends on
    context,     \* which transition CONTEXT.json was last bound by
    journal,     \* the TASK transition's crash journal, or None
    op,          \* the command under way: of agentledger, start or complete
                 \* (all hold .agents.lock), and of escalate-mode
    markers,     \* terminal markers: immutable files by epoch and agent
    snap,        \* the platform snapshot at hand: its number and the children in it
    ids,         \* versions of the ledger made so far
    faults,      \* commands that died or failed half way
    acked,       \* history: versions acknowledged since the last init
    reverted     \* history: what repairs undid that another command had written or read

vars == <<ledger, chain, task, context, journal, op, markers, snap, ids, faults,
          acked, reverted>>

Preparation == {"none", "pending", "consumed", "cancelled"}
Reservation == {"none", "reserved", "released", "settled"}
Terminal == {"completed", "failed", "lost"}   \* failed: interrupted, errored, expired
Member == {"none", "active"} \cup Terminal
Slots == {"agents", "escalate"}

\* The operations that write the ledger in a TASK transition, by what they write
\* and what follows.
Chained == {"register", "complete"}           \* the chain is part of the transition
Appended == {"start", "escalate"}             \* the tip is appended afterwards
InTransition == {"ledger", "chained", "task", "context", "clean"}

(***************************************************************************)
(* The append hash chain.                                                  *)
(***************************************************************************)
Entry(l) == [rev |-> l.rev, prev |-> l.prev, file |-> l.id]

\* The entries from one genesis to the tip, when they link up.
Linked(c, i) ==
    /\ c[i].rev = 1 /\ c[i].prev = 0
    /\ \A j \in i+1..Len(c) :
          c[j].rev # 1 /\ c[j].prev = c[j-1].file /\ c[j].rev = c[j-1].rev + 1

\* ledger_chain_errors
ChainValid(l, c) ==
    /\ c # <<>>
    /\ c[Len(c)] = Entry(l)
    /\ \E i \in 1..Len(c) : Linked(c, i)

\* The versions the chain vouches for.
Vouched(c) ==
    LET i == CHOOSE i \in 1..Len(c) : Linked(c, i)
    IN  {c[j].file : j \in i..Len(c)}

\* chain_upgrade, agents_chain_advance: the revision counts on from the version
\* that was loaded, the hash is of the file as it is when the chain advances.
Genesis(l) == l.rev = 1
Advance(l) == IF Genesis(l) THEN l ELSE [l EXCEPT !.prev = ledger.id]

(***************************************************************************)
(* What a command makes of the ledger it loaded.                           *)
(***************************************************************************)
\* Mutant: a chain that does not verify is taken for a legacy one and restarted.
RestartingVersion(l) ==
    IF ChainValid(ledger, chain) THEN [l EXCEPT !.id = ids + 1, !.rev = @ + 1]
    ELSE [l EXCEPT !.id = ids + 1, !.rev = 1, !.prev = 0]

Version(l) == [l EXCEPT !.id = ids + 1, !.rev = @ + 1]

Active(l) == {a \in Agents : l.member[a] = "active"}
Pending(l) == {a \in Agents : l.prep[a] = "pending"}
Members(l) == {a \in Agents : l.member[a] # "none"}
Holding(l, status) == {a \in Agents : l.res[a] = status}

Fresh(mode, empty) ==
    [id |-> 1, rev |-> 1, prev |-> 0, epoch |-> 1, budget |-> Budget[mode],
     settled |-> 0, empty |-> empty,
     prep |-> [a \in Agents |-> "none"], res |-> [a \in Agents |-> "none"],
     member |-> [a \in Agents |-> "none"], to |-> [a \in Agents |-> None]]

Marker(l, a, status) == [epoch |-> l.epoch, agent |-> a, status |-> status, snap |-> snap.n]
MarkersOf(l, a) == {m \in markers : m.epoch = l.epoch /\ m.agent = a}

\* command_validate, but for the shape of the file and what holds of every
\* version these commands write.
LedgerValid(l) ==
    /\ ChainValid(l, chain)
    /\ l.budget = Budget[task.mode]
    /\ \A a \in Active(l) : MarkersOf(l, a) = {}
    /\ \A a \in Members(l) \ Active(l) : \E m \in MarkersOf(l, a) : m.status = l.member[a]
    /\ \A m \in markers : m.epoch = l.epoch => m.agent \in Members(l)
    /\ Cardinality(Active(l) \cup Pending(l)) <= Cap[task.mode]
    /\ ~task.open => Active(l) \cup Pending(l) = {}

(***************************************************************************)
(* The platform as its snapshots show it: the next one is any outcome of   *)
(* children being spawned, ending and vanishing in between.  A child is    *)
(* known by its epoch; the orchestrator spawns what has been prepared,     *)
(* even if the preparation is cancelled meanwhile.                         *)
(***************************************************************************)
Child(status, epoch) == [status |-> status, epoch |-> epoch]

Running(view) == {a \in Agents : view[a].status = "running"}
Seen(l, a, status) == snap.view[a] = Child(status, l.epoch)
Missing(a) == snap.view[a].status = "absent"

Spawnable(a) ==
    /\ ledger.prep[a] \in {"pending", "cancelled"}
    /\ snap.view[a].epoch # ledger.epoch
    /\ snap.view[a].status # "running"

Outlook(a) ==
    LET child == snap.view[a]
    IN  {child}
        \cup {Child(status, ledger.epoch) :
                 status \in IF Spawnable(a) THEN {"running", "ended", "absent"} ELSE {}}
        \cup {Child(status, child.epoch) :
                 status \in CASE child.status = "running" -> {"ended", "absent"}
                              [] child.status = "ended" -> {"absent"}
                              [] OTHER -> {}}

\* platform_snapshot: commands use the last one, which may be behind.
Observe ==
    /\ snap.n < MaxSnaps
    /\ \E view \in [Agents -> UNION {Outlook(a) : a \in Agents}] :
          /\ \A a \in Agents : view[a] \in Outlook(a)
          /\ snap' = [n |-> snap.n + 1, view |-> view]
    /\ UNCHANGED <<ledger, chain, task, context, journal, op, markers, ids, faults, acked, reverted>>

(***************************************************************************)
(* Commands of agentledger.py, from loading the ledger to the version they *)
(* are about to save.                                                      *)
(***************************************************************************)
Operation(kind, phase, next) ==
    [kind |-> kind, phase |-> phase, read |-> ledger.id, next |-> next, marker |-> None,
     goal |-> None, before |-> None]

Begin(slot, o) ==
    /\ op[slot] = None
    /\ ids < MaxIds
    /\ ids' = ids + 1
    /\ op' = [op EXCEPT ![slot] = o]
    /\ UNCHANGED <<ledger, chain, task, context, journal, markers, snap,
                   faults, acked, reverted>>

Save(l) == Begin("agents", Operation("save", "chain", Version(l)))

Charge(l) == Cost * Cardinality(Holding(l, "reserved") \cup Holding(l, "settled"))

\* token_budget_snapshot, require_payload_token_budget
Affords(l) == Charge(l) + Cost <= Budget[task.mode]

\* command_prepare, the phase under the lock.
Prepare(a) ==
    /\ task.open
    /\ ledger.prep[a] = "none"
    /\ Members(ledger) = {} => ledger.empty
    /\ Cardinality(Active(ledger) \cup Pending(ledger)) < Cap[task.mode]
    /\ ledger.budget = Budget[task.mode]
    /\ Affords(ledger)
    /\ Save([ledger EXCEPT !.prep[a] = "pending", !.res[a] = "reserved"])

\* command_cancel_prepare
CancelPrepare(a) ==
    /\ ledger.prep[a] = "pending"
    /\ Save([ledger EXCEPT !.prep[a] = "cancelled", !.res[a] = "released"])

\* register: what the platform must show, and the member it appends.
Registers(a) ==
    /\ task.open
    /\ ledger.prep[a] = "pending"
    /\ Running(snap.view) = Active(ledger) \cup {a}
    /\ \A b \in Running(snap.view) : Seen(ledger, b, "running")

Registered(l, a) ==
    [l EXCEPT !.prep[a] = "consumed", !.member[a] = "active", !.empty = FALSE]

\* command_register
Register(a) ==
    /\ a \notin Retries
    /\ Registers(a)
    /\ Begin("agents", Operation("register", "begin", Version(Registered(ledger, a))))

\* command_redispatch
Redispatch(old, a) ==
    /\ a \in Retries /\ old \notin Retries
    /\ ledger.member[old] = "failed"
    /\ ledger.to[old] = None
    /\ Registers(a)
    /\ Begin("agents", Operation("register", "begin",
                Version([Registered(ledger, a) EXCEPT !.to[old] = a])))

\* command_check; a mismatch is only noted.
Check ==
    LET agree == Running(snap.view) = Active(ledger)
    IN  /\ snap.n > 0
        /\ agree => \A a \in Active(ledger) : Seen(ledger, a, "running")
        /\ Save(IF agree THEN [ledger EXCEPT !.empty = (Active(ledger) = {})] ELSE ledger)

\* Mutant: the reservation of a lost child stays open.
OutcomeUnreleased(l, a, status) ==
    [l EXCEPT !.member[a] = status, !.empty = FALSE,
              !.res[a] = IF status = "lost" THEN @ ELSE "settled",
              !.settled = IF status = "lost" THEN @ ELSE @ + Cost]

\* settle_token_reservation, release_token_reservation
Outcome(l, a, status) ==
    [l EXCEPT !.member[a] = status, !.empty = FALSE,
              !.res[a] = IF status = "lost" THEN "released" ELSE "settled",
              !.settled = IF status = "lost" THEN @ ELSE @ + Cost]

\* command_finish.  The marker is published before the ledger; one that is there
\* already must have the same bytes.
Finish(a, status) ==
    LET marker == Marker(ledger, a, status)
    IN  /\ ledger.member[a] = "active"
        /\ IF status = "lost" THEN snap.n > 0 /\ Missing(a) ELSE Seen(ledger, a, "ended")
        /\ MarkersOf(ledger, a) \subseteq {marker}
        /\ Begin("agents", [Operation("save", "marker", Version(Outcome(ledger, a, status)))
                            EXCEPT !.marker = marker])

\* command_init.  Plain, it wants no active member; with --archive-existing (and
\* --force, for active members) a ledger that validates.
InitLedger ==
    /\ snap.n > 0
    /\ Running(snap.view) = {}
    /\ Active(ledger) = {} \/ LedgerValid(ledger)
    /\ Begin("agents", Operation("save", "chain",
                [Fresh(task.mode, TRUE) EXCEPT !.id = ids + 1, !.epoch = ids + 1]))

(***************************************************************************)
(* Commands that write the ledger as part of a TASK transition.            *)
(***************************************************************************)
\* Mutant: children that are only prepared do not count.
UntouchedMembers(l) == \A a \in Agents : l.member[a] = "none"

Untouched(l) == \A a \in Agents : l.prep[a] = "none"

\* _command_start_locked, after agentctl validate.
StartTask(mode) ==
    /\ LedgerValid(ledger)
    /\ Untouched(ledger)
    /\ Begin("agents",
          [Operation("start", "begin",
              Advance([Version(ledger) EXCEPT !.epoch = ids + 1, !.budget = Budget[mode],
                                              !.settled = 0, !.empty = FALSE]))
           EXCEPT !.goal = [from |-> task,
                            to |-> [gen |-> task.gen + 1, mode |-> mode, used |-> 0,
                                    open |-> TRUE]]])

\* workflowctl complete-task
CompleteTask ==
    /\ task.open
    /\ LedgerValid(ledger)
    /\ Active(ledger) \cup Pending(ledger) = {}
    /\ ledger.empty
    /\ Begin("agents", [Operation("complete", "begin", Version(ledger))
                        EXCEPT !.goal = [from |-> task, to |-> [task EXCEPT !.open = FALSE]]])

\* command_escalate_mode: no .agents.lock.
Escalate(mode) ==
    /\ task.open
    /\ mode > task.mode
    /\ Active(ledger) = {}
    /\ Holding(ledger, "reserved") = {}
    /\ Begin("escalate",
          [Operation("escalate", "begin", Advance([Version(ledger) EXCEPT !.budget = Budget[mode]]))
           EXCEPT !.goal = [from |-> task, to |-> [task EXCEPT !.mode = mode]]])

(***************************************************************************)
(* save: the chain's tip, then the ledger.                                 *)
(***************************************************************************)
Fault == faults < MaxFaults /\ faults' = faults + 1

At(slot, phase) == op[slot] # None /\ op[slot].phase = phase
Goto(slot, phase) == op' = [op EXCEPT ![slot].phase = phase]
Done(slot) == op' = [op EXCEPT ![slot] = None]

\* The command has printed its result.
Acknowledge(s, l) ==
    acked' = (IF Genesis(l) /\ l.epoch = l.id THEN {} ELSE acked)
                \cup {[id |-> l.id, epoch |-> l.epoch, charged |-> Holding(l, "settled"),
                       locked |-> s = "agents"]}

\* publish_terminal_marker
PublishMarker ==
    /\ At("agents", "marker")
    /\ markers' = markers \cup {op["agents"].marker}
    /\ Goto("agents", "chain")
    /\ UNCHANGED <<ledger, chain, task, context, journal, snap, ids, faults, acked, reverted>>

Files == [ledger |-> ledger, chain |-> chain, task |-> task, context |-> context]

WriteTip ==
    /\ At("agents", "chain")
    /\ LET next == Advance(op["agents"].next)
       IN  /\ chain' = Append(chain, Entry(next))
           /\ op' = [op EXCEPT !["agents"] =
                        [@ EXCEPT !.phase = "state", !.next = next, !.before = Files]]
    /\ UNCHANGED <<ledger, task, context, journal, markers, snap, ids, faults, acked, reverted>>

WriteState ==
    /\ At("agents", "state")
    /\ ledger' = op["agents"].next
    /\ Done("agents")
    /\ Acknowledge("agents", op["agents"].next)
    /\ UNCHANGED <<chain, task, context, journal, markers, snap, ids, faults, reverted>>

\* The state cannot be written: the chain is put back.
SaveFails ==
    /\ Fault
    /\ At("agents", "state")
    /\ chain' = op["agents"].before.chain
    /\ reverted' = reverted \cup
          {w \in {"written"} : chain # Append(chain', Entry(op["agents"].next))}
    /\ Done("agents")
    /\ UNCHANGED <<ledger, task, context, journal, markers, snap, ids, acked>>

(***************************************************************************)
(* transition_task, with the ledger among its targets.                     *)
(***************************************************************************)
TaskLocked == \E s \in Slots : op[s] # None /\ op[s].phase \in InTransition

\* commit_registered_ledger reads TASK and the chain only now; the others compare
\* TASK with what they loaded.
BeginTransition(s) ==
    /\ At(s, "begin")
    /\ ~TaskLocked
    /\ LET o == op[s]
           next == IF o.kind \in Chained THEN Advance(o.next) ELSE o.next
           goal == IF o.kind = "register"
                   THEN [from |-> task, to |-> [task EXCEPT !.used = @ + 1]] ELSE o.goal
       IN  /\ goal.from = task
           /\ op' = [op EXCEPT ![s] = [o EXCEPT !.phase = "ledger", !.next = next,
                                                !.goal = goal, !.before = Files]]
           /\ journal' = [before |-> Files, chained |-> o.kind \in Chained,
                          after |-> [ledger |-> next, chain |-> Append(chain, Entry(next)),
                                     task |-> goal.to]]
    /\ UNCHANGED <<ledger, chain, task, context, markers, snap, ids, faults, acked, reverted>>

StoreLedger(s) ==
    /\ At(s, "ledger")
    /\ ledger' = op[s].next
    /\ Goto(s, IF op[s].kind \in Chained THEN "chained" ELSE "task")
    /\ UNCHANGED <<chain, task, context, journal, markers, snap, ids, faults, acked, reverted>>

StoreChain(s) ==
    /\ At(s, "chained")
    /\ chain' = Append(op[s].before.chain, Entry(op[s].next))
    /\ Goto(s, "task")
    /\ UNCHANGED <<ledger, task, context, journal, markers, snap, ids, faults, acked, reverted>>

StoreTask(s) ==
    /\ At(s, "task")
    /\ task' = op[s].goal.to
    /\ Goto(s, "context")
    /\ UNCHANGED <<ledger, chain, context, journal, markers, snap, ids, faults, acked, reverted>>

BindContext(s) ==
    /\ At(s, "context")
    /\ context' = op[s].next.id
    /\ Goto(s, "clean")
    /\ UNCHANGED <<ledger, chain, task, journal, markers, snap, ids, faults, acked, reverted>>

CleanJournal(s) ==
    /\ At(s, "clean")
    /\ journal' = None
    /\ IF op[s].kind \in Appended
       THEN Goto(s, "tip") /\ UNCHANGED acked
       ELSE Done(s) /\ Acknowledge(s, op[s].next)
    /\ UNCHANGED <<ledger, chain, task, context, markers, snap, ids, faults, reverted>>

\* agents_chain_journal_append
AppendTip(s) ==
    /\ At(s, "tip")
    /\ chain' = Append(chain, Entry(op[s].next))
    /\ Done(s)
    /\ Acknowledge(s, op[s].next)
    /\ UNCHANGED <<ledger, task, context, journal, markers, snap, ids, faults, reverted>>

\* Put back the files of a transition; the chain is one of them or is not.
PutBack(files, chained) ==
    /\ ledger' = files.ledger
    /\ chain' = IF chained THEN files.chain ELSE chain
    /\ task' = files.task
    /\ context' = files.context
    /\ journal' = None

\* Another command has written a file the transition had backed up.
Foreign(files, next, chained) ==
    \/ ledger \notin {files.ledger, next}
    \/ chained /\ chain \notin {files.chain, Append(files.chain, Entry(next))}

\* The command that holds .agents.lock works from the version that is undone.
Misled(next) == op["agents"] # None /\ op["agents"].read = next.id

Undone(files, next, chained) ==
    {w \in {"written", "read"} :
        IF w = "written" THEN Foreign(files, next, chained) ELSE Misled(next)}

\* A write or the context command fails.
Rollback(s) ==
    /\ Fault
    /\ op[s] # None
    /\ op[s].phase \in InTransition \ {"clean"}
    /\ PutBack(op[s].before, op[s].kind \in Chained)
    /\ Done(s)
    /\ reverted' = reverted \cup Undone(op[s].before, op[s].next, op[s].kind \in Chained)
    /\ UNCHANGED <<markers, snap, ids, acked>>

Crash(s) ==
    /\ Fault
    /\ op[s] # None
    /\ Done(s)
    /\ UNCHANGED <<ledger, chain, task, context, journal, markers, snap, ids,
                   acked, reverted>>

\* transition_journal_status
Unchanged(f, chained) ==
    /\ f.ledger = ledger
    /\ chained => f.chain = chain
    /\ f.task = task

Status ==
    IF Unchanged(journal.before, journal.chained) /\ context = journal.before.context
    THEN "rolled_back"
    ELSE IF Unchanged(journal.after, journal.chained) /\ context # journal.before.context
    THEN "committed"
    ELSE "interrupted"

\* contextctl journal --restore: under TASK.lock, without .agents.lock.
Restore ==
    /\ journal # None
    /\ ~TaskLocked
    /\ Status = "interrupted"
    /\ PutBack(journal.before, journal.chained)
    /\ reverted' = reverted \cup Undone(journal.before, journal.after.ledger, journal.chained)
    /\ UNCHANGED <<op, markers, snap, ids, faults, acked>>

\* contextctl journal --discard: without any lock.
Discard ==
    /\ journal # None
    /\ Status # "interrupted"
    /\ journal' = None
    /\ UNCHANGED <<ledger, chain, task, context, op, markers, snap, ids, faults, acked, reverted>>

Init ==
    /\ \E mode \in Modes :
          /\ ledger = Fresh(mode, TRUE)
          /\ task = [gen |-> 1, mode |-> mode, used |-> 0, open |-> TRUE]
    /\ chain = <<Entry(ledger)>>
    /\ context = 0
    /\ journal = None
    /\ op = [s \in Slots |-> None]
    /\ markers = {}
    /\ snap = [n |-> 0, view |-> [a \in Agents |-> Child("absent", 0)]]
    /\ ids = 1
    /\ faults = 0
    /\ acked = {[id |-> 1, epoch |-> 1, charged |-> {}, locked |-> TRUE]}
    /\ reverted = {}

Transition(s) ==
    \/ BeginTransition(s)
    \/ StoreLedger(s)
    \/ StoreChain(s)
    \/ StoreTask(s)
    \/ BindContext(s)
    \/ CleanJournal(s)
    \/ AppendTip(s)
    \/ Rollback(s)

Next ==
    \/ Observe
    \/ \E a \in Agents :
          \/ Prepare(a)
          \/ CancelPrepare(a)
          \/ Register(a)
          \/ \E old \in Agents : Redispatch(old, a)
          \/ \E status \in Terminal : Finish(a, status)
    \/ Check
    \/ InitLedger
    \/ \E mode \in Modes : StartTask(mode) \/ Escalate(mode)
    \/ CompleteTask
    \/ PublishMarker
    \/ WriteTip
    \/ WriteState
    \/ SaveFails
    \/ \E s \in Slots : Transition(s) \/ Crash(s)
    \/ Restore
    \/ Discard

Spec == Init /\ [][Next]_vars

(***************************************************************************)
(* Properties.                                                             *)
(***************************************************************************)

\* Whatever dies where, and although escalate-mode writes beside the lock: while
\* the chain of the ledger verifies, no version that was acknowledged under the
\* lock is lost unless a repair put files back over what another command had
\* written, nor a charge that was settled unless a command that held the lock
\* worked on from a version that a repair undid.
ChainDetects ==
    ChainValid(ledger, chain) /\ "written" \notin reverted =>
        \A v \in acked : v.locked =>
            /\ v.id \in Vouched(chain)
            /\ "read" \notin reverted /\ v.epoch = ledger.epoch =>
                  v.charged \subseteq Holding(ledger, "settled")

\* Children stay within what their mode leaves them, although prepare checks one
\* TASK and saves beside an escalation that may be undone: unless a repair undid
\* what another command had written or read, the ledger charges and admits no more
\* than the mode in TASK, whether or not its chain verifies.
WithinMode ==
    reverted = {} =>
        /\ Charge(ledger) <= Budget[task.mode]
        /\ Cardinality(Active(ledger) \cup Pending(ledger)) <= Cap[task.mode]

(***************************************************************************)
(* The invariant of every version of the ledger: on disk, about to be      *)
(* saved, or kept by a transition to be put back.                          *)
(***************************************************************************)
LedgerType ==
    [id : Nat, rev : Nat, prev : Nat, epoch : Nat, budget : Nat, settled : Nat,
     empty : BOOLEAN, prep : [Agents -> Preparation], res : [Agents -> Reservation],
     member : [Agents -> Member], to : [Agents -> Agents \cup {None}]]
EntryType == [rev : Nat, prev : Nat, file : Nat]
TaskType == [gen : Nat, mode : Modes, used : Nat, open : BOOLEAN]
MarkerType == [epoch : Nat, agent : Agents, status : Terminal, snap : Nat]
FilesType == [ledger : LedgerType, chain : Seq(EntryType), task : TaskType, context : Nat]
GoalType == [from : TaskType, to : TaskType]
OperationType ==
    [kind : {"save"} \cup Chained \cup Appended,
     phase : {"marker", "chain", "state", "begin", "tip"} \cup InTransition,
     read : Nat, next : LedgerType, marker : MarkerType \cup {None},
     goal : GoalType \cup {None}, before : FilesType \cup {None}]
JournalType ==
    [before : FilesType, chained : BOOLEAN,
     after : [ledger : LedgerType, chain : Seq(EntryType), task : TaskType]]

TypeOK ==
    /\ ledger \in LedgerType
    /\ chain \in Seq(EntryType)
    /\ task \in TaskType
    /\ context \in Nat
    /\ journal \in JournalType \cup {None}
    /\ op \in [Slots -> OperationType \cup {None}]
    /\ markers \subseteq MarkerType
    /\ snap \in [n : Nat, view : [Agents -> [status : {"absent", "running", "ended"}, epoch : Nat]]]
    /\ ids \in Nat
    /\ faults \in Nat
    /\ acked \subseteq [id : Nat, epoch : Nat, charged : SUBSET Agents, locked : BOOLEAN]
    /\ reverted \subseteq {"written", "read"}

\* A preparation, its reservation and the member it became agree, the platform is on
\* record as empty only while no child is, and the running total is what the settled
\* reservations add up to.
Consistent(l) ==
    /\ \A a \in Agents :
          CASE l.prep[a] = "none" -> l.res[a] = "none" /\ l.member[a] = "none"
            [] l.prep[a] = "pending" -> l.res[a] = "reserved" /\ l.member[a] = "none"
            [] l.prep[a] = "cancelled" -> l.res[a] = "released" /\ l.member[a] = "none"
            [] OTHER -> /\ l.member[a] # "none"
                        /\ l.res[a] = CASE l.member[a] = "active" -> "reserved"
                                        [] l.member[a] = "lost" -> "released"
                                        [] OTHER -> "settled"
    /\ l.empty => Active(l) = {}
    /\ l.settled = Cost * Cardinality(Holding(l, "settled"))

\* Every terminal member has its immutable marker.
Marked(l, files) ==
    \A a \in Agents : l.member[a] \in Terminal =>
        \E m \in files : m.epoch = l.epoch /\ m.agent = a /\ m.status = l.member[a]

Sound(l, files) == Consistent(l) /\ Marked(l, files)

\* The markers there will be when an operation gets to its next version.
MarkersBy(o) == IF o.phase = "marker" THEN markers \cup {o.marker} ELSE markers

SoundOperation(s, o) ==
    /\ Sound(o.next, MarkersBy(o))
    /\ o.phase \in {"state"} \cup InTransition =>
          o.before \in FilesType /\ Sound(o.before.ledger, markers)
    /\ o.phase \in InTransition \/ (o.phase = "begin" /\ o.kind # "register") => o.goal \in GoalType
    /\ o.phase = "marker" =>
          /\ s = "agents" /\ o.marker \in MarkerType
          /\ \A m \in markers : m.epoch = o.marker.epoch /\ m.agent = o.marker.agent
                                    => m = o.marker

\* Preparations, reservations, members, totals and markers never contradict each other,
\* in no version that a crash, a rollback or a race can put on disk; and an agent ends
\* in one way only per epoch.
IInv ==
    /\ TypeOK
    /\ Sound(ledger, markers)
    /\ \A s \in Slots : op[s] # None => SoundOperation(s, op[s])
    /\ journal # None => Sound(journal.before.ledger, markers)
    /\ \A m, n \in markers : m.epoch = n.epoch /\ m.agent = n.agent => m = n
=============================================================================
