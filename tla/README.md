# Agent workflow control plane: TLA+ models and proofs

This directory models the control plane of the agent-workflow template
(`.agent/scripts`): the commands that move a task through its nodes, the
transaction that keeps the task record, its stage index and the context capsule
together, the ledgers that decide when a failing task must stop for a human, the
budget its test runs draw on, the ledger of child agents and their formal review,
the delivery of a task, the retention of evidence, and the journaled mutations of
Skills, of provider files and, by the installer, of the workflow itself.
Every definition is translated from the Python source; `PROJECT.json` maps each
one to the lines it stands for.

To check a run: `tlc -config <cfg> <module>`; to check proofs:
`tlapm <module>_proofs.tla`.

## 1. Inventory

The program is a set of short-lived commands that share files under
`.agent/state`. Nothing stays resident: all concurrency is between command
invocations (several agents, a human and a host may start commands at any time),
and between a command and a child it started. State is JSON, each file replaced
atomically; consistency *across* files comes from `flock` locks, a rollback
journal, and validators that every later command runs.

| Component | State | Operations | Interacts through | Correct when |
|---|---|---|---|---|
| context transition (`contexttx.py`) | TASK, side-effect files, CONTEXT, `.context-transition-journal.json`, `.task.lock`, `.context.lock` | `transition_task`, journal restore, discard, status | starts `contextctl sync --transition`; called by every mutator of TASK | all three files change or none does; a crash leaves a journal that heals the tear |
| context capsule (`contextctl.py`) | CONTEXT: bound invariants, receipt, token estimate, charged turns | sync, account-turn, begin/finish host compaction, repair, journal | the CONTEXT lock; child of a transition | the estimate never falls without a host compaction; a turn is charged once |
| delivery state machine (`workflowctl.py`) | TASK: status, node, accepted nodes, artifacts, approvals, failure records | submit-gate, approve-gate, advance, return-node, resolve-failure, complete-task, route-resume | transitions; artifact validators; human receipts | no node is skipped, no demanded approval is missing or stale, a third recurrence waits for a human |
| failure and rollback ledgers (`workflowctl.py`) | hot ledgers in TASK, content-addressed archive chains | part of return-node and start; compact-state | archive files | no count and no entry is lost or reordered, whatever is evicted |
| task lifecycle (`agentctl.py`) | TASK, PROJECT, agents.json, decisions, process registry | start, approve-requirements, escalate-mode, reopen-clarification, project-init, select-model, knowledge promotion, usage, processes, cleanup | transitions; its own journals for project-init and promotion | a command never commits a state no command accepts |
| template routing (`templatectl.py`) | TASK.template_route, rendered artifacts | route, render, validate | `advance` and `submit-gate` ask it whether a node's template is routed | a node is accepted only with an artifact of its own route |
| total budget (`workflowlib/budget.py`) | derived from TASK, CONTEXT, agents.json | reads | gate of nearly every command | spent tokens are counted once |
| publication lock (`workflowlib/publication.py`) | one lock file | shared by commands, exclusive for the installer | wraps every command | no command runs while files are replaced |
| bounded file access (`boundedio.py`, `boundedprocess.py`, `schema_validation.py`) | none | atomic write, bounded read, bounded subprocess | everything | a write is whole or absent |
| test budget (`testrun.py`) | attempts, reservations, consumed time | reserve, run, finish, reconcile, remediation | TASK, the test plan | every launch is charged once, and a further run needs a human decision |
| delivery (`deliveryctl.py`) | the delivery state, its archived predecessors as a chain | init, artifact, test, preflight, approve, promote, rollback, validate | TASK, called by `start` after its transition; validated by route-resume | no command writes a state the validator refuses |
| evidence retention (`evidencectl.py`) | evidence tree, archives, index with pages, the head of the task archives in TASK | compact, gc-orphans, restore, migrate-task-archives, verify | writers of evidence, `start` and its task archive (no common lock); TASK transitions | evidence is never lost between archive and removal; the task archives TASK names are there; a compaction that died can be repeated |
| provider emission (`providerctl.py`) | emitted files, hidden stages and quarantine files, mutation journal | emit, verify, attest, recover | the user's editors, which take no lock | a user's file is never lost; all files are emitted or none |
| skill mutation (`skillctl.py`) | active directories, lock and archive of locks, lifecycle, content store, history with head, mutation journal | install, update, deprecate, retire, quarantine, rollback, recover | the provider of human decisions | an interrupted mutation is completed or undone, by the decision alone |
| agent ledger (`agentledger.py`) | agents.json with preparations, members, reservations, replay runs; chain journal; terminal markers | prepare, register, redispatch, check, finish, init, replay | platform snapshots; written by agentctl in TASK transitions, too | acknowledged versions survive; children stay within the mode; a review rests on one that passed; a replay once closed stands |
| installer (`install.py`) | managed targets, staging directory, transaction journal | install, update, adopt, uninstall; recovery first | publication lock; copies the private state commands write | a crash leaves the old or the new version; no private write and no predecessor is lost |
| human decisions (`humandecision.py`) | none | verify signed receipts | all approvals | an approval needs a receipt for exactly this subject |
| knowledge and evolution (`knowledgectl.py`, `evolutionctl.py`, `adaptive_common.py`) | registries, candidates | capture, promote | agentctl | promotion needs a decision |
| artifact semantics (`artifactctl.py`, `blueprintctl.py`, `blueprintacceptance.py`) | none | validate documents | gates | pure functions of documents |
| process observation, acceptance and release gates, pxpipe plugin, test drivers | none of the control plane | | | |

### How the parts interact

A command that changes TASK computes a successor from the TASK it loaded
*before* taking any lock, then calls `transition_task(before, after, files)`.
That takes `.task.lock`, compares TASK with `before`, journals the bytes of every
file, writes the side effects (the stage index) and TASK, and starts
`contextctl sync --transition` as a child, which takes `.context.lock` and writes
CONTEXT. If anything fails the parent writes the old bytes back. Three other
commands touch the same files under `.context.lock` only: `account-turn`,
`journal --restore` (which then takes `.task.lock` inside it) and
`journal --discard`.

`agentledger.py` works under `.agents.lock`: it saves the next version of the ledger,
the tip of its hash chain first. Registration, task start and completion write the
ledger as a file of a TASK transition, holding both locks; `escalate-mode` writes it
without `.agents.lock`. `start` calls `deliveryctl init` after its transition.
`testrun.py` reads, decides and writes the test registry under a budget lock; `start`
empties that registry as a side effect of its transition, and never takes that lock.
`evidencectl.py` works under `.evidence.lock`, which neither the writers of evidence
nor `start` take; it moves the head of the task archives by a TASK transition.
Skills and provider files have a mutation lock each, and a journal that the next
mutation or `recover` works off.

### What is hard

* **Interleaving**: two locks taken in opposite orders; `account-turn` writes
  CONTEXT while a transition owns the bytes it will roll back to.
* **Crashes**: a command can be killed between any two writes; its child runs on.
* **Stale reads**: TASK read before the lock; a journal status read before the
  unlink; an approval that outlives the artifact it approved.
* **Long legal command sequences**: returns, rulings, escalations and reopened
  clarifications each rewrite part of TASK by a rule of their own.
* **Others at work**: children of the platform known only by snapshots, a provider
  whose answer is lost, editors that save into a file while it is exchanged.
* **Bounds**: the strike limit, hot ledgers and archive depth, test and token
  budgets.

`PROJECT.json` lists 40 hazards at their lines; each has the properties that
cover it, and where they do not, or not wholly, a note that says why. Nine more are not
listed there: that submit-gate and approve-gate ignore a finished task
(`workflowctl.py:1248`) and gates are submitted under a resolved escalation
(`workflowctl.py:1640`); a return under a resolved escalation (`workflowctl.py:1385`); the
escalation of an unclarified task (`agentctl.py:3366`); a lowered archive depth
(`workflowctl.py:1906`); a CONTEXT that merely changed (`contexttx.py:211`); a session
stopped by 64 accounted turns (`contextctl.py:1447`, planned); the outcomes of a repeated
review that `finish` and the validator admit (`agentledger.py:3776`); a repair that undoes
acknowledged versions of the ledger (`contexttx.py:294`). Section 4 describes those that go
wrong.

## 2. Plan

Done, most important first:

1. `ContextTransition`: what everything else stands on, because it makes TASK a
   compare-and-set register (`TaskRegister`), so that
2. `WorkflowNodes` may take each command as one step. It is the rule book of the
   workflow.
3. `StrikeLedger`, the abstract strike counter, which
4. `FailureLedger` refines, with eviction, archive chains and snapshots.
5. `TestBudget`: the reservations of concurrent test runners, which die, are taken
   for dead, and are let on again by human decisions, beside a start that replaces
   their registry without their lock.
6. `InstallTransaction`: the installer's journaled replacement of targets, and the
   publication lock that keeps commands out of it.

7. `AgentLedger`: dispatch, reservation, settlement, the append chain with its
   writers outside `agentledger.py`, and
8. `FormalReview`, what three reviewers in a chain and two executors of a replay do
   to the ledger, with its proofs.
9. `SkillMutation`, which implements the abstract `SkillRegister`, and
   `ProviderEmit`: two more journaled mutations, one against exceptions and lost
   answers, one against editors without a lock, both with their proofs.
10. `Delivery`: the delivery state with its resets.
11. `EvidenceArchive`: compaction, removal, restoration and migration of evidence,
    with the one kind of reader that refuses what a death leaves, with its proofs.

Next, in this order (modules still to be written):

12. `ActiveWindow`: plain sync, host-compaction handshake, the 64-turn ledger, the
    monotone estimate and the total budget (`contextctl.py`, `budget.py`).
    Abstract specification: an estimate that only a host compaction lowers.
13. `LockOrder`: the lock acquisitions of every command (project-init, agents,
    TASK, CONTEXT, publication, shared and exclusive); deadlock freedom, or a
    counterexample for the commands without a time limit.
14. `SchedulerResume`, the project-init and knowledge-promotion journals of
    `agentctl.py`, the closure of a template route.

## 3. Modules

### ContextTransition

A process is one command invocation, and runs once: `Mutators` (any command that
calls `transition_task`, together with its child), `Accountants`, `Restorers`,
`Discarders`.

| variable | code |
|---|---|
| `task`, `stage` | version of `TASK.json` and of one side-effect file; a mutator's new version is named by the mutator |
| `context` | the four parts of CONTEXT that decide a transition: the TASK it binds, the TASK its usage receipt binds, the window estimate, the charged turn ids |
| `journal` | the crash journal: which mutator it is of, and the bytes to go back to |
| `taskLock`, `contextLock` | the two `flock` locks; a mutator as holder of `contextLock` is its child |
| `pc`, `child` | next step of a command and of its child |
| `before`, `tokens`, `held` | locals: the TASK that was read, the child's `--source-tokens`, the journal record in hand |

One action is one durable write, or one critical section without a write
(`EnterTransition` is the lock, the compare and the token floor). `AbortTransition`
is the `except` branch of `transition_task`, `TimeoutChild` the 120-second limit,
`UndoTask`/`UndoContext`/`UndoStage`/`FinishUndo` the writes of `_restore_all` in
their order. `Crash` kills one command at any step, drops its `flock`s and leaves
its child running; `PowerLoss` kills everything. A command that fails inside the
rollback ends as a crash does, with the journal on disk.

`TaskRegister` is the abstract specification: a register with compare-and-set on
the version each writer read, where an installed value may be taken back only by
its writer's failure and never after it was acknowledged.

### WorkflowNodes

One action per command of `workflowctl.py`, with the commands of `agentctl.py`
and `templatectl.py` that write the same fields. Its variables are the fields of
TASK by name (see the declarations). `ExecutionGate` and `FailureGate` are the two
gates every mutator passes first, `ControlPlaneValid` the validators that `start`
and `complete-task` require. `ruled` is a history variable: the rollback entries a
human has ruled on.

A command may be refused for reasons outside TASK (budget, schema, receipts,
artifact contents). A refusal changes nothing, so it is a step not taken; the
model is free to take every step TASK allows, which is the larger set of
behaviours. Artifact contents are members of `Versions` where a gate binds them,
and `Unbound` elsewhere.

### FailureLedger and StrikeLedger

`FailureLedger` keeps `failure_ledger` (`hot`), `rollback_ledger` (`rollbacks`)
and their archive chains (`cold`, `coldRollbacks`) as sequences of nodes, oldest
first. `CompactFailures` and `CompactRollbacks` are the two compaction functions
with the snapshot at limit minus one; `FailureArchiveValid` and
`RollbackArchiveValid` are the validators, which guard the commands as in the
code. Hot limits are edited by `EditLimit`, as a user edits `config.json` between
commands. `ever` is a history variable. `StrikeLedger` is what this module
implements: every return counted, the last one known, though a count may live in the
hot ledger, in an archive or in a snapshot.

### TestBudget

The budgets of the candidates of two tasks, before and after a start; the digest of a
candidate covers TASK, so each task has a candidate and an entry of its own. A runner is
one invocation of `testrun.py`, and runs once. `budget_lock` covers reading, deciding and
writing the registry: `Lock` takes it and reads, `Reserve`, `Finish`, `Prepare` and
`Apply` decide on what was read and write that registry with one entry changed, `Unlock`
is a holder that is refused or dies. `LoadReceipt` reads the receipt file before any
lock, `WriteReceipt` replaces it after the case has run.

| variable | code |
|---|---|
| `registry` | `test-budget.json`: the budget of each task's candidate, its fields by name |
| `held` | what the holder of `budget_lock` has read: the registry, and TASK before it |
| `receipts` | the receipt file of each run: the cases in it |
| `requests` | remediation requests on disk; `receipt` is the budget receipt each one names, a number instead of a digest |
| `pc`, `args`, `loaded` | a runner: where it is, its arguments, the receipt it read |
| `present`, `born` | the task in TASK; starts begun so far |
| `start` | the start under way, or the journal of one that died: how far, the registry it backed up |
| `due`, `decisions`, `reopened` | history: what each launch owes, the decisions applied, the tasks whose charges a start that did not happen dropped |

`Reserve` and `Prepare` include `reconcile_reservations`: `kept` is the set of
reservations it retains. Only the reservation of a living runner can be retained,
and one may also be missed, because `process_start_identity` returns `None` when
processes cannot be observed; that runner's `Finish` is then refused. The limit of one
automatic attempt is the value `test_policy` insists on.

`start` never takes `budget_lock`. Its transition is taken apart as far as registry and
TASK go: `BeginStart` keeps the bytes, `EmptyRegistry` writes the registry, `CommitTask`
TASK, `SyncContext` is the child, `EndStart` the removal of the journal; `UndoTask` and
`PutBack` are `_restore_all` in its order, of a start that fails and of a restore, which
goes by `Interrupted`; `StartDies` leaves the journal, and `Forget` is its discard or the
transition of another command that writes over it. Each may fall between a runner's
`Lock` and its `Save`. Taken as one step: reading TASK (the snapshot of the candidate)
and the registry in `Lock`; a start between the two only replaces what is read of the
registry by an emptied one.

### InstallTransaction

One project directory, one invocation of `install.py` at a time (invocations wait
for each other on the exclusive publication lock), any number of commands, and a
user who holds no lock. A target is a file: inode, content and, for the `.agent`
directory (target 1), the private state under it. A digest covers the managed files
only (`committed_content_sha256`), so private writes leave it alone.

| variable | code |
|---|---|
| `target`, `root` | the managed targets in the order the transaction takes them; the project directory |
| `staging`, `candidate`, `backup` | the staging directory, the candidates and backups in it |
| `journal`, `plan` | the journal's state; its `replacements`, which targets are replaced, removed, created |
| `tx` | the transaction; its candidates have inode and content of this number |
| `pc`, `next`, `recovering` | the invocation holding the lock: step, target, and whether it is in `recover_transaction` |
| `cmd` | each command: outside, holding the shared lock, past the checks of `acquire_project_publication` |
| `edits`, `writes`, `installed`, `retried` | history |

One action is one durable change or one check between two. `CreateJournal` and
`WriteJournal` are apart because the journal is created in place (`O_EXCL`, then
written); later versions of it are renamed into place and are one step. The
rollback removes `.agent` entry by entry, hence the content `Torn`. `FailCommit` is
any exception between the committing journal and the committed one; `Crash` kills
the installer at any step. `EditInPlace`, `EditMoved` and `EditAnew` are a user who
saves into a target, into a file opened before it was moved, or by renaming a new
file there.

Taken as one step: the identity check and the rename of `durable_replace`, which
the code makes as close as it can. Left out: the `phase` of an operation, which no
recovery reads; created directories below the project root; what candidates
contain; commands that inherit the lock from their parent.

### AgentLedger

The slots of `op` are the two ways to write the ledger: under `.agents.lock` (any
command of `agentledger.py`, `start` and `complete-task`), and `escalate-mode`, which
never takes that lock.

| variable | code |
|---|---|
| `ledger` | `agents.json`: its file (`id`), revision and predecessor, epoch, budget, settled total; per agent the preparation, reservation, membership and retry |
| `chain` | the append chain: revision, predecessor and file of each entry |
| `task`, `context`, `journal` | TASK, CONTEXT and crash journal, as far as the ledger depends on them |
| `markers` | the immutable terminal files by epoch and agent |
| `snap` | the platform snapshot the commands decide on, which may be behind |
| `op` | the commands under way, with the version each is about to save |
| `acked`, `reverted` | history: acknowledged versions; whether a repair undid what another command had written, or had read |

A command of `agentledger.py` computes its version in one step (`Prepare`, `Register`,
`Redispatch`, `Check`, `Finish`, `InitLedger`) and saves it in up to three: the marker,
the chain, the ledger. `heartbeat`, `capacity-failure` and `validate --require-empty`
save like `Check`. A transition is taken file by file, as its rollback is; `SaveFails`
is the rollback of a failing save, `Crash` kills either command, `Restore` and
`Discard` are `contextctl journal`. `StartTask` checks `LedgerValid` before its lock and
`Untouched` again under it, as the code does. Left out: counters of missing children,
root tokens, the contents of envelopes and reports.

### FormalReview

One epoch of the ledger, seen from the review: commands under `.agents.lock` are one
step. `agents` are the reviewers in the order of their preparation, with role, chain,
subject, predecessor, verdict and retry; `runs` the replay of each integrator;
`exec` what each executor of `replay-execute` is about between claiming a case and
committing its result; `candidate` what is in the tree and `node6` what the accepted
artifact is about. `Claim` aborts a run in which an executor left a case open, `Commit`
rejects a result whose run was closed and `Abort` ends the run of a missing one,
`Overdue` is supervision, and `Finish` the end of a reviewer, with the verdict its report gives.

### SkillMutation and SkillRegister

One command at a time, under the lifecycle lock; every write is a step after which
the command may die or raise, which is two different things: an exception in a
mutation starts its own recovery, a death leaves that to the next command.

| variable | code |
|---|---|
| `journal` | `skill-mutation-journal.json`: the whole intent, states before and after, phase |
| `consumed`, `spent` | the provider's record of the journal's decision; decisions spent in all |
| `standing` | whether the request in the journal is still good: TASK and adapter are the ones it binds, its decision is not revoked |
| `lock`, `life`, `archive` | `skills.lock`, the lifecycle, the archive of locks |
| `active`, `remnants` | the directories of active Skills, hidden ones beside them |
| `cas`, `private`, `tomb` | the content store, its staging, the tombstone of a removal |
| `chain`, `head` | the history and its head |
| `pc`, `call`, `mode` | the command, its step, and whether it recovers |

`SkillRegister` is the abstract specification: registers and directories change at
once, each time with a decision of its own; the mapping shows the journal's
post-state as soon as the decision is consumed (`InForce`). `RecoverRefused` and
`Consume` ask for the standing of the request, which `_validate_prepared_request` builds
anew from the present TASK (title, mode, generation, routing profile) and adapter;
`TaskMoves`, `TaskReturns` (the start is rolled back or restored) and `Revoke` change it
at any step, `RecoverUnanswered` is a provider that does not answer. Left out: coverage,
scores, digests, journals of version 1 and their migration, read-only commands.

### ProviderEmit

One `emit` or `recover` at a time; editors save and delete targets between any two
system calls.

| variable | code |
|---|---|
| `journal` | predecessors and state of each file |
| `target`, `stage`, `aside` | a file of the project, its hidden stage, its quarantined files |
| `pc`, `local` | the command's step, and the variables of `_commit_existing` and `_recover_existing_item` |
| `latest` | history: the last word on each path, a user's or the emission's |

`Commit` to `Restored` are the statements of `_commit_existing`; `Swap` and `Judge` are
the loop in it and the one in `_recover_existing_item`, which are the same loop with
another beginning and end (`next`); `Drop` and `Unlink`, and for a target `Take` and
`Taken`, are `_remove_name_if_record`. Left out: inodes and modes, directories that
change identity, writes through a descriptor opened before an exchange, an editor that
saves exactly the generated bytes. Staging is one step, since nothing acts on stages
without a journal; so is reading the predecessors.

### Delivery

One action per command of `deliveryctl.py`; `BeginTask` is the transition of `start`,
`InitDelivery` the command it calls afterwards (or a user does), which
may die between the archive and the state (`InitDies`). `delivery` is the state with the
receipts in it, `archives` the chain of states before, `fresh` whether the preflight is
younger than its limit, `owner` the task the state was initialised in. The task's nodes
are accepted and returned meanwhile, since `execution_gate` asks for Node 7. Digests are
what they are digests of: that `canonical` keeps characters outside ASCII
(`deliveryctl.py:77`) and `command_promote` escapes them (`deliveryctl.py:860`) makes a
difference only in the bytes, which is outside the model.

### EvidenceArchive

One command of `evidencectl.py` at a time, under `.evidence.lock`; writers of evidence
(`Save`) and `start` act between any two steps.

| variable | code |
|---|---|
| `active` | the files of `state/evidence`, with their contents |
| `zips`, `pages`, `index` | the archives, the pages of a full index, `EVIDENCE_INDEX.json` |
| `twice` | what has two links, because a command died between `os.link` and `os.unlink` |
| `head` | `task_archive` of TASK |
| `op`, `start` | the command under way with its selection; a start, from the head it loaded to its commit |
| `journal` | the archive in the journal of a start that died before its commit |
| `saved`, `torn`, `excused` | history: what was saved and not overwritten, what was saved in the last instant before an unlink, which known way to break the chain was met |

A task archive contains the head before it, so it is named by the chain it ends;
`named` is the head inside the archived TASK, which the validator compares and a
migration does not rewrite. `Plan` is `plan` and all checks of `command_compact` up to
the first change, with what the roots reach and what is too young as input; `ClearHead`,
`Look`/`Unlink` and `LinkPage` to `WriteIndex` are the durable steps in their order.
`LoadHead` reads TASK without its lock and is done if the head is null; `ClearHead` is the
transition, refused if TASK is no longer what was loaded. `StartDies` leaves the archive
of a start and its journal; `JournalRestored` removes the archive, whoever asks for it,
and the next transition overwrites the journal and leaves the archive, as does
`JournalOverwritten` for all transitions that do not touch evidence.
Digests are contents, an archive the set of its members. Left out: byte limits and
thresholds (some kept set stands for each), the temporary as a file of its own, empty
directories, `verify` and `status`.

Operators described as a mutant or a fault in their comment are not part of any
specification. Each is a plausible slip in the code, and shows that the property
named in `PROJECT.json` notices it.

## 4. Runs

| run | instance | what it shows |
|---|---|---|
| `transition` | 2 mutators, 2 accountants of the same turn, 1 restorer, 1 discarder (1.07 M states) | under every interleaving, crash and power loss: TASK is a compare-and-set register, a reported success is whole, a reported rollback exact |
| `recovery` | 1 mutator, 3 restorers, with fairness | the journal covers every torn state, a restore heals it and spares a finished commit, and every command ends |
| `nodes` | every mode, projection and environment; 2 versions of each gated artifact, 2 root causes, up to 4 recurrences (271 k states) | the chain has no hole, artifacts and accepted nodes agree, demanded approvals are for the accepted artifact; a third recurrence shuts the failure gate until a human ruled on that recurrence |
| `failure_ledger` | 3 root causes, 6 returns, hot limits 1 or 2 and edited, chain depths 3 and 2 | archives stay valid, history is complete and ordered, counts refine `StrikeLedger` |
| `test_budget` | 2 runners, 2 runs, 1 case, timeouts of 1 or 2 in a budget of 3, 1 start (2.61 M states) | while a start writes the registry without the lock, fails, dies, is restored or forgotten at any step: every launch is charged exactly once, but for the charges a start that did not happen drops; the budget holds but for the runners' own overrun, nothing runs under a waiting decision, and every further run is paid for with a decision |
| `install` | 2 targets, 2 commands, 2 transactions, 2 edits (1.13 M states) | under every crash, failure, edit and command: targets are replaced all or none, commands run only without a pending journal, no private write is lost, no predecessor is destroyed before the commit, and a rollback that was not cut short is never refused |
| `agents` | 3 children, one a retry of another, modes with room for none, one and two, 2 faults | beside an escalation without the lock, with deaths, failures and repairs, and over every order of spawning, stale snapshots, ends and losses, retries and resets: while the chain verifies nothing acknowledged is lost, capacity and account fit the mode, and `IInv`: preparations, reservations, members and markers agree |
| `review` | 4 reviewers in 2 chains, 2 executors, 2 checks, 2 candidates (156 k states) | a successor rests on a predecessor that passed; replays run in order, belong to an active integrator, and stand once closed |
| `skills` | 2 Skills, 2 bundles, 4 mutations, 2 faults, with fairness (621 k states) | mutations implement `SkillRegister`, also when the task, the adapter or the decision changes under a pending one; between them nothing is left over and the chain ends in the present state; recovery ends but for a half-made directory and a request that is no longer good |
| `provider` | 2 files, 3 saves or deletions, 2 deaths, with fairness (578 k states) | no save is lost, all files are emitted or none, recovery ends but for two named conflicts |
| `delivery` | 2 tasks of every target, 3 resets, 2 faults (2.02 M states) | every state the commands write validates |
| `evidence` | 1 file with 2 contents, up to 2 task archives of an older release, 3 saves, starts, restorations and migrations, 2 faults, with fairness (790 k states) | nothing saved is lost but in one instant that is named; the chain TASK names stands before the validator but in two named ways; compaction that is repeated gets done unless it is barred in a named way |

No run expects a violation; the disagreements between the code and what it says of
itself that came up are described here. Where a property is named, it was checked
with the model and is violated; the model has every step of the sequence.

Of the transaction and the state machine:

* A turn is charged "exactly once" (`contextctl.py:1426`), but a failing transition
  rewrites CONTEXT from old bytes without the CONTEXT lock (`contexttx.py:421`) and
  erases a turn already reported as charged.
* Journaled bytes "drive a deterministic rollback" (`contexttx.py:374`), but the next
  transition overwrites the journal and its own rollback removes it (`contexttx.py:377`).
  `JournalCoversTear` is therefore checked with one mutator.
* "Accepted nodes must exactly precede current_node" (`workflowctl.py:1621`), but a gate
  command on a finished task (`workflowctl.py:1248`) leaves a state that only discarding
  the work leaves.
* The escalation "binds its rollback entry" (`workflowctl.py:1636`), but a return after
  a ruling (`workflowctl.py:1385`) appends an entry the resolved escalation does not
  bind; every command then refuses.
* A failed attempt "is sealed" (`testrun.py:943`), but two cases of a run may overlap;
  the first fails, the second passes and clears the failure class, and a third is let in.
* "Run the intended mutating command to recover" (`install.py:4852`), but a rollback
  that was cut short, in the removal of the candidate tree or between the removal of
  staging and of the journal, is refused by every later one.
* A changed CONTEXT "means the crash hit after the commit" (`contexttx.py:212`), but
  an account-turn between the write of TASK and a crash changes it too: the journal
  of a torn state reads `committed`, restore refuses, discard deletes the backups.
* "Progression is blocked until requirements are clarified" (`workflowctl.py:1133`),
  but `escalate-mode` during clarification commits node 2 with
  `requirements_clarified` false, a state no command but a new start accepts
  (`agentctl.py:3366`).
* A death while the installer's journal is created (`install.py:2013`) leaves a file
  no invocation can parse and no invocation removes.
* `JournalCoversTear` also fails with one mutator and one discarder: discard reads
  the status and unlinks without TASK_LOCK.
* A resolved escalation does not let its task resume when the repaired node is gated,
  until the gate is approved (`workflowctl.py:1640`); after a mode escalation or a
  reroute a pending one is no longer at the node it names (`workflowctl.py:1638`).
* The second late failure of a fast task is sent to node 4, which its route cannot
  accept (`workflowctl.py:1382`; the lightweight case is handled).
* `escalate-mode` after a ruling drops the ruling but keeps the resolved record;
  the failure gate then names `resolve-failure` as the remedy
  (`workflowctl.py:1199`), which refuses because nothing is pending
  (`workflowctl.py:1415`).
* Two launches of one case of one run may both pass the duplicate check
  (`testrun.py:945`), because a case is recorded when it ends; and of two cases
  that overlap, the later `WriteReceipt` drops the other from the receipt
  (`testrun.py:1441`, `testrun.py:1572`).
* "A crash cannot reopen the budget" (`testrun.py:882`), but a start that does not happen
  can, because it writes the registry without `budget_lock`. `ChargedOnce` and
  `RunsNeedDecisions` are violated without `InForce`, whose two parts are needed each:
  between the emptying of the registry and TASK (`Torn`) the file is not the present
  task's, and these sequences (`reopened`) leave it wrong for good:
  * a rollback or `journal --restore` puts the backup back over whatever runners wrote
    since (`contexttx.py:421`, `contexttx.py:288`): launches and settlements between are
    not charged, and an attempt or a decision is gone;
  * a start that died before it wrote anything is `interrupted` as soon as a runner
    writes the registry (`contexttx.py:208`), so that `journal --restore` does the same;
    for the same reason it accepts a start that died after its last write, and reverts
    it together with the new task's charges;
  * the journal of a start that died after emptying the registry is overwritten by the
    next transition (`contexttx.py:377`): the old task goes on with an empty registry.
* The converse, a runner that read the registry before a start and writes it after,
  brings back entries of the old task and drops none of the new: the lost update is
  harmless, because no runner of the new task can have reserved meanwhile.

Of the agent ledger and the review:

* "Trust the ledger only through its append hash chain; [...] any later break fails
  closed" (manage-agent-team's `coordination-contract.md:39`), but `journal --restore`
  or a rollback amid another command's save puts back an old ledger with its old chain:
  acknowledged versions are gone and the chain verifies. `ChainDetects` excepts what
  happened since such a repair (`reverted`).
* A command that loads the ledger while an escalation's transition is open counts its
  revision on from the escalation's version but takes the hash of the file that is there
  when it saves (`agentledger.py:220`). If `journal --restore` undoes the escalation in
  between, its version is linked to the restored file and still holds what the undone
  one said. With escalations that die one after the other, each having read the ledger
  before the last was undone, the revisions meet again, the chain verifies and a charge
  settled meanwhile is gone. This takes more versions and faults than the run has; both
  properties except what such a repair undid, too (`reverted`), and are stated for every
  number of versions.
* Registration inside a transition computes the chain before the TASK lock, and drops
  the tip an escalation appends in between; a failing save puts back a chain without an
  escalation's tip (`agentledger.py:231`). The chain then no longer verifies.
* A crash between chain and ledger (`agentledger.py:228`), or between a transition of
  `start` or `escalate-mode` and the tip (`agentctl.py:4030`), breaks the chain until a
  plain `init`; the remedy named at `agentledger.py:2061`, `init --archive-existing`, is
  refused for just that reason (`agentledger.py:2227`).
* A crash between the terminal marker and the save (`agentledger.py:3664`): once
  another snapshot was taken, `finish` writes another marker, which collides with the
  first for good; the agent stays active.
* Two prepared children that are both spawned before either is registered block each
  other's registration, which wants the platform to show the one and no other.
* "A second stable failure returns to node 4" and "Preserve both attempts"
  (manage-agent-team's `SKILL.md:63`), but after the second FAIL that `finish` records
  `formal_review_chain_errors` refuses the preserved history (`agentledger.py:3776`),
  and with it every `start` and `complete-task`, until a plain `init` drops the ledger.
* A lost formal reviewer locks the chain of its subject, and a completed replay makes
  the ledger invalid as soon as the candidate changes (`agentledger.py:3845`), though
  historical validation must not depend on it (`agentledger.py:1295`). With two
  executors, the second claim aborts the first's run, and an integrator has exactly one.

Of Skills, provider files and delivery:

* "After an interruption run `skillctl.py recover`, which rolls back deterministically"
  (README.md:165, in Chinese), but once the decision is consumed recovery publishes; so
  may a command that reported failure because the provider's answer was lost. A death in
  the middle of a copy or of a removal, recovery's own included, leaves a directory that
  is neither bundle, and "unknown Skill publication remnant" (`skillctl.py:2759`) then
  stops every command for good: `Foreign` in `RecoveryEnds`.
* Nor does recovery end when another task is started, its mode or routing profile
  changes, or the adapter is updated before it ran: the status of the request is asked
  with a request rebuilt from the present TASK and adapter (`skillctl.py:2936`,
  `humandecision.py:774`, `humandecision.py:866`), which is not the prepared one. The same
  holds when the decision, already consumed, is revoked (`humandecision.py:903`,
  `skillctl.py:2940`). Every later mutation starts with that recovery and fails:
  `Unanswerable` in `RecoveryEnds`. A mutation whose journal is published, or a task that
  comes back by a rollback or a restore, is recovered.
* An interrupted emission is "never stuck for good" (README.md:212, in Chinese), but
  `Contested` states two ways: the user saved over a file already replaced, while the
  predecessor is still staged, or over any file in the cleanup phase; and a file that
  was its own predecessor (the generated bytes) is back, its stage removed, when the
  recovery dies or fails at a later file (`providerctl.py:706`).
* A death between the rename into quarantine and the way back leaves the user's file
  under a hidden name, and recovery later reports success; a deleted file may come back
  when it was being moved (`Settled` says both). A death before the journal is written
  leaves stages nobody removes.
* `start` dies before `deliveryctl init`, and the new task has the same target: nothing
  detects the earlier task's delivery state, whose artifact the new task's gates then
  promote (`agentctl.py:4031`; a production approval names its task and does not pass).
  `StatesValidate` speaks of states initialised in the present task.
* The execution gate asks whether Node 7 is accepted now, not whether it was when the
  artifact was recorded (`deliveryctl.py:145`).
* After more than 256 resets the chain fails validation for good
  (`deliveryctl.py:569`), against the comment at `deliveryctl.py:632`: `WithinLimit` in
  `StatesStayValid`. The run stays within `Limit`.
* A preflight that grew old while production approval or promotion was awaited cannot
  be recorded again; only `init` starts over.

Of the retention of evidence:

* `migrate-task-archives` "upgrades legacy task-archive chains to v2" (INDEX.md:64 of
  `.agent`), but a chain of two or more then fails `task_archive_errors`: the archived
  TASK still names the archive before it by its old digest (`workflowctl.py:1712`).
  `HeadStands` excepts it (`migrated`).
* Migration leaves the old files "as unreachable, compactable evidence"
  (`evidencectl.py:1252`), but once they are older than the age limit `compact` selects
  them and refuses (`evidencectl.py:970`); what it then asks for, `--include-task-history`,
  also archives the present history and clears its head. A restored task archive, or a
  death between clearing the head and the removal, does the same.
* "A crash before this point leaves only safe duplicates" (`evidencectl.py:1013`), but
  the bounded readers refuse a file with two links (`boundedio.py:41`), which a death
  between `os.link` and `os.unlink` leaves: of a restored or migrated file it stops every
  later compaction and restoration, of a page the publication of that page. `gc-orphans`
  removes the second link of an archive, and of nothing else: `Barred` in `RetriesSettle`.
* If a writer puts back an archived content between plan and publication, the same
  archive is indexed twice, and `verify_index` refuses the index for good.
* A start that publishes its task archive, while a compaction of the history is planned,
  has it archived and removed; it then commits a head that names nothing (`overlap`). With
  no head before, `clear_compacted_task_head` returns without the TASK lock
  (`evidencectl.py:922`) and nothing makes the compaction wait; with one, the compaction
  waits for the start, finds another head and is refused before it removes anything.
* A file saved between the last look at its predecessor and the unlink is gone
  (`evidencectl.py:1114`): `torn` in `NothingLost`.

### Bounds

* **Two mutators** are enough for a transition to overtake, be refused by, or meet
  the journal of another; a third adds only another crashed predecessor, and the
  proofs hold for any number. **Three restorers** let a restore die, a second one
  die while redoing it, and a third finish.
* **One side-effect file**: the code treats all of them alike and in a row.
* **Two versions** distinguish an approved artifact from a resubmitted one. The
  chain has all nine nodes, nothing is shortened.
* `MaxStrikes` **is 4** where the three-strike rule is checked, so that a ruling, a
  further recurrence and its second ruling occur.
* `MaxReturns` **is 6** with hot limits 1 and 2: both chains reach their depth limit,
  collapse, and grow again. Depth limits are constants of the model; an edited
  depth limit is a listed hazard without a property.
* **Two runners** in `test_budget`: one that holds the lock, runs or died, and one that
  reads what it left; a start is the third writer. Two runs are the failed one and the
  one a decision is bound to. A budget of 3 holds one launch of 2 and one of 1 and no
  more, and `Grace` 1 lets each take a second beyond its timeout; one request
  (`MaxRequests`) and one start (`MaxTasks`), whose restores may die in turn, occur
  between any two steps. With one case a second launch on the same run is one that
  overlaps; the proofs hold for any number of cases and runners.
* **Two targets** in `install` are the directory and a file, one done and one not;
  **two transactions** let a second one meet what the first left. Any number of
  invocations may crash and recover in between. **Two edits** let a user edit what
  was moved and what was put back; **two commands** contend for the lock, and one
  private write can fall before or after each copy.
* **Three children** in `agents` reach a capacity of two with one waiting or retrying; a
  mode without room and one with it is what an escalation changes. TLC expands
  (`Explored`) every state of up to four versions and two snapshots, with escalations,
  a death, and another in its repair; and, up to six versions and three snapshots, those
  in which nothing but children has happened: prepare, register, end and retry.
* **Four reviewers** in `review` are the three of a chain and a retry, or two chains
  against each other; two executors and two checks let one overtake the other between
  two cases; the second candidate comes at any moment.
* **Two Skills**, two bundles and a chain of four mutations: install, update, deprecate,
  retire, roll back; **two faults** are a death, and another in the recovery from it, or a
  death and a task that moves on before it.
* **Two files** in `provider` are one done and one not; **three saves** are one under the
  exchange, one under the way back and one in the contest, which two rounds of `MaxTries`
  (8 in the code) decide or give up; a second death falls into the recovery.
* **Two tasks** in `delivery` with three resets: the state of an earlier task is archived,
  and a chain of three verified at its `Limit`.
* **One file and one archive per page** in `evidence`: the second archive makes a page,
  the third a chain of pages; task archives are further files. Up to two older task
  archives are migrated, alone and as a chain, and one more is started upon; three calls
  save, archive, restore and save again; the second death falls into a retry, or is that of
  a start.
* The runs switch off the deadlock check for `ContextTransition` and
  `TestBudget`, whose commands run once and end, and for `AgentLedger`, `FormalReview`,
  `Delivery` and `EvidenceArchive`, whose bounds on versions, reviewers, events and calls
  end the behaviour. `EveryCommandEnds` is the check that
  no transition gets stuck; the holder of the budget lock waits for nothing, and can
  always let it go (`Unlock`).
  In the other modules a new task can always be started or a limit edited.

### Fairness

`FairSpec` of `ContextTransition` assumes weak fairness of each command and child:
the operating system schedules runnable processes and hands over a free lock. The
120-second limit is a step of the parent, so it need not be waited for; crashes are
never assumed. A command waiting for a lock has no fairness beyond that (`flock`
promises no order), which is why the run states only that a command *ends*:
between once-only commands no one can starve forever.

`SkillMutation` and `ProviderEmit` assume weak fairness of the running command
(`Continue`), and that somebody calls `recover` after an interruption, as README.md:165
and README.md:212 tell the user to. Nobody need call anything else.

`EvidenceArchive` assumes that a command under way and a start go on (weak), and that
compaction of everything and `gc-orphans` are tried again and again (strong, since other
commands disable them meanwhile): the refusal of an unfinished compaction tells the user
to "explicitly retry with --min-age-hours 0 --force" (`evidencectl.py:991`), and
`RetriesSettle` speaks of nothing but such repetition.

## 5. Proofs

`Task_proofs` on `ContextTransition`, for any sets of commands and turns, from
`ProcAssumption` (the kinds of commands and the two null values are disjoint):

* `Invariance`: `IInv` is inductive. TypeOK alone does not say why TASK is safe: a
  rollback writes TASK from a journal record, so the proof must know that the
  record is the owner's, that it names the version the owner read, and that TASK is
  still one of the owner's two versions. `HeldTracked`, `JournalTracked` and
  `RestoreTracked` say that for the mutator, the file and the restorer;
  `LocksKept` says no second mutator is inside, `TaskTracked` and `FilesTracked`
  where each file is at each step. One lemma per part, one case per action.
* `CommitsAreWhole`, `RollbacksAreExact`: action properties that follow from
  `FilesTracked` and `TaskTracked` at the step that reports the outcome.
* `Refinement`: every step is a step of `TaskRegister` or a stutter.
* `SoloRecovery`: with one transition, no account-turn and no discard
  (assumption `Solo`), the journal covers every torn state, for any number of
  restores and crashes. Each part of `Solo` is needed: a second transition overwrites the
  journal of the first; the account-turn and the discard are described above.
* `RestoresHeal`, `RestoresSpareComplete`, also under `Solo`: a restore decides by the
  journal it read, so the proof must know that whatever record it holds is the one
  mutator's, and that the files it finds are no newer than the record says; `OlderRead`
  carries that from the reading of the journal to the last write.

`Task_proofs` on `WorkflowNodes`, for any root causes and artifact contents, from
`NodesAssumption`:

* `NoHoles`: the accepted nodes are a prefix; inductive given the types.
* `StrikesStopTheTask`: by `StrikeHeld` — an unruled third strike is the last
  rollback entry and holds a pending escalation. The rule itself is not inductive:
  the gate reads the escalation, and only `StrikeHeld` ties that to the counts
  through escalations and reopened clarifications, which rewrite everything else.
* `CompletionIsApproved`: by `GateHeld` — a demanded gate holds as soon as the task
  is past its node. Approvals are dropped by resubmission, so the invariant speaks
  of every later node and not only of completion.
* `RecordsFollowNodes`: `EvidenceMatchesNodes` is not inductive, because the approval
  of the requirements resets the accepted nodes and keeps the records. `EvidenceKept`
  adds that no node past the first has a record while the requirements are not
  clarified: only an advance makes one, and it asks for clarified requirements.
* `NodesInvariance`, `NodesTypeCorrect`.

`Ledgers_proofs` on `TestBudget`, for any runners, runs, cases, timeouts and number of
starts, from `BudgetAssumption` (finitely many runners and run ids, counted; the null value
is none of what it stands for). Since a runner writes what it read and a start puts back
what it backed up, the invariant speaks of every version that may become the file: the
file, the one a holder of the lock has read, the one a start backed up (`Versions`).

* `AllowanceWaitsAlone`, `BudgetIsKept`: by `VersionsSound`, which holds of all versions and
  all tasks, without exception, and has every run id on record paid for, too. A decision is
  applied only with no reservation and clears the failures; the first launch takes the
  allowance. For the payment `Sound` adds what the moment is worth in which a launch may
  open an attempt: with none of the code track on record and no failure unresolved, every
  run on record is already paid for. An attempt leaves the code track only with a failure,
  and the failures reach zero only by a decision.
* `LaunchesAreChargedOnce`, `FurtherRunsArePaid`: that a version is sound says nothing of
  launches it has not seen. `CurrentFaithful` says the versions of the present task's budget
  that are in the file or in a holder's hands have seen every launch, unless `InForce` is
  false; `BackupFaithful` the same of a backup as long as nobody wrote over it, which is
  what makes a rollback harmless then. `UnbornUnused` keeps the candidate of a task that is
  not yet in TASK untouched in all of them, so that a runner that writes the old registry
  over an emptied one brings back nothing of it.
* All of it is about sums over sets of runners, which
  the model computes by a fold. That adding a runner adds its seconds holds for every finite
  set because a smallest set for which it fails would have a smaller one (`MinimalSubset`);
  this replaces the induction theorems, whose operator parameter the provers cannot fill in.

`Ledgers_proofs` on `FailureLedger`, for any root causes, limits and chain depths:

* `LedgersStand`: `LedgersInv` is the types, `ArchivesValid` and `HistoryKept`, which need
  each other: a compaction drops nodes of the chain, and what it drops must be in the
  snapshot it writes. What a chain of archives contains, and how often, is a sum along the
  sequence; the lemmas about it take the least position at which a law fails.
* `ArchivesStayValid` (with the depth bound of both chains) and `HistoryIsKept`.
* `StrikesAreCounted`: `FailureLedger` implements `StrikeLedger`; compaction and an edited
  limit are stutters.

`Ledgers_proofs` on `Delivery`, for any targets, tasks and resets:

* `DeliveryInvariance`: `DeliveryTyped`, `ArchivesLinked` (each archive names an earlier one,
  so following the heads ends) and `PresentCoherent` (the state fits its receipts).
* `StatesStayValid`: as long as the chain has never been longer than the 256 that
  `DELIVERY_CHAIN_LIMIT` allows, every state the commands write validates;
  `FewResetsValidate`: so it does for every instance with at most that many resets.

`AgentLedger_proofs`, for any agents, retries, modes and costs, from its assumptions on
those (`Cost` is positive, a later mode has no smaller budget, `None` is no agent, mode or
journal):

* `VersionsAreSound`: `IInv`, with every version that is in the ledger, in the hands of a
  command, in a journal or archived: an agent that ended has its marker and its reservation
  settled, a member was prepared, and the settled total is the cost of what has settled,
  which is a count of a set and proved as such.
* `ChildrenStayWithinMode`: `WithinMode`, by two more inductive invariants. `SInv` says how
  files, journal and commands hang together: versions are numbered in the order in which
  commands begin (`Numbered`), a command gets as far as its kind goes (`Shaped`), the version
  it is about to make is named nowhere before it is stored (`NextIsNew`), and of one
  transition at a time the backups and the journal are its own (`OneTransition`). `Within`
  then says what fits which mode: the ledger and what is about to be saved the mode in TASK
  (`CommandFits`), an escalation both of its modes (`EscalationFits`), and what a repair would
  put back the mode that it puts back with it (`FitsBack`); the last also for what a command
  holds in its hands while the repair happens, unless it read what is undone. That exception
  is needed: of two modes, a rollback may take TASK back to the smaller while a command that
  loaded the ledger of the larger is about to save.
* `ChainDetectsLosses`: `ChainDetects`, over `IInv` and `SInv` by three more inductive
  invariants. A version is acknowledged before its entry is where it will stay: a transition
  may append an entry, die, and be rolled back around another command's save. `ListsApart`
  says which chains list the version of a command under way: none before its tip is in one,
  and never the chain that is put back when that command fails. `VInv` says, unless a repair
  put files back over what another command had written, that each acknowledged version stays
  `Anchored`: after it the chain restarts with no genesis that anything names. A genesis that
  nothing names may stand behind it (its `start` died), so that `Listing`, the simpler law, is not
  inductive; but then the chain no longer verifies, because the next entry does not link to that
  genesis. So a chain that verifies vouches for every acknowledged version. `CInv` is about the
  charges, and needs `reverted` empty: it follows the links from an acknowledged version to the
  tip (`Follows`)
  and says of every version that stands on that tip, is about to, or would be put back on it
  (`Heir`, `Kept`) that it holds what was settled. The conjuncts after `BackKept` are the
  races: an escalation that writes over a save leaves a tip that the ledger does not follow
  (`Overtaken`), an escalation that read a transition's version inherits its charges
  (`ReadWhile`), and a task that starts has an epoch in which nothing was charged
  (`StartFresh`, `TipFresh`).

`InstallTransaction_proofs`, for any number of targets, commands, transactions and
edits, from `InstallAssumption` (at least one target; `None` is no file):

* `TargetsAreAtomic`: while the journal commits, a target may be old, absent or new,
  so atomicity is not inductive. `TargetsArePlaced` adds that each predecessor is
  either in place or the backup, and that only this transaction's candidate stands
  in its stead; `CandidatesAreNew` that the two cannot be confused, because the
  predecessor's inode is older; `CommitReached` and `UndoReached` how far the two
  loops are, in opposite directions; `Settled` that the cleanup is reached only with
  every target done or every one undone. All of it is asked for only while nobody
  has edited: an edit makes the checks refuse, and what then stands is the user's.
* `BarrierHolds`: by `Barrier`, the exclusion of installer and commands, and
  `JournalFollows`, which says the journal is there at every step that needs it.
* `PredecessorsSurvive`: with edits. The candidate is removed by its inode number, so
  `IdsFollow` keeps every planned predecessor older than the transaction; the cleanup
  empties the staging directory, so `BackupsFollow` has the rollback leave no backup
  behind, not even for a target a user replaced.
* `PrivateStateSurvives`: by `PrivateFollows`, wherever `.agent` is (in place, backed up
  or copied as a candidate) its private state is current; nothing is staged without a
  journal (`CandidatesFollow`) and nothing runs with one.
* `RefusalsAreCaused`: `Reversible` says what stands in a predecessor's place is a whole
  candidate that left the staging directory, which is still there; `CommitIsUndoable`
  derives from it and `TargetsArePlaced` that the rollback passes its validation.
  `UndoReady`, `RootFollows` and `NewDirectory` are what the rollback checks on its way,
  `CommitHolds` what a recovery checks of a committed transaction.
* `Invariance`, `TypeCorrect` (with edits, too), `Strengthened`: `SInv`, the conjunction
  of the parts above, is inductive on top of `IInv`.

`FormalReview_proofs`, for any chains, executors, checks, reviewers and candidates, from
`ReviewAssumption`:

* `ReviewsFollowEachOther`: `ChainOrdered` is inductive only with `VerdictsKept`: a
  verdict is had by completed members alone, so what `Retryable` found to have failed
  cannot pass afterwards. One lemma per command and conjunct; `Frame` states what the
  review chain knows a reviewer by, and that most commands leave it alone.
* `ReplaysAreOrdered`: a run ends as its cases did, because a result is committed only
  into the case that is open.
* `ClosedReplaysStand`, and `Invariance` for the whole.

`EvidenceArchive_proofs`, for any papers, contents, chains an older release left, limits
and numbers of calls and of deaths, from `EvidenceAssumption` (the chains are sequences in
which each archive names the one before; `None` is no content):

* `NothingIsLost`: `NothingLost` is not inductive for three reasons, each a part of the
  invariant. A start publishes its task archive before TASK names it, and a migration may
  see that archive meanwhile: `HeldKept` asks for it as for what was saved. A start that
  fails removes its archive again, which must not be one that a committed chain contains:
  `StartKept` and `ChainsKept` tell them apart by the task, whose number is above that of
  every task committed. The restore of a start that died does so much later: `JournalKept`
  keeps its archive out of the chain in TASK and out of what was saved. A removal looks at
  the index only once, when it begins: `CompactionKept` says that what is left to remove is
  archived, and that the index about to be written contains the one that is there, whether
  or not its list becomes a page; `IndexStands` that the archives the index names are there
  with one link.
* `HeadKeepsStanding`: `Stands` says, while no excuse is on record, that everything evidence
  and a command know by name is a paper or a task archive older than the start under way.
  So the archive a start publishes is new, no removal meets it, and it is there with one link
  when the start commits (`StartStands`). What a removal has left is not in the chain: papers
  are not, and task archives are removed only after the head was cleared. Readable archives
  stay so (`ReadableStays`), but for removals, failing starts and restores of dead ones; a chain one longer contains
  the chain before and names it (`ChainGrows`). The hypothesis `Apart` says that no paper is
  named like a task archive and that `None` is no start; names are free in the model, in the
  code they are paths in different directories.
* `Invariance` for the whole.

`SkillMutation_proofs`, for any Skills, bundles and numbers of mutations and faults, from
`SkillAssumption` (`None` is no bundle, no entry and no journal):

* `Refinement`: every step is a step of `SkillRegister` or a stutter. What is in force
  changes where the decision is consumed, with a fresh decision; everywhere else it must
  stay, and that takes two parts of the invariant. `StatePlaced`: under a journal each
  document and directory is as before the mutation or as after it, and as before while
  the decision is not consumed, so that a rollback has something to go back to.
  `ControlKept`: the publication steps are reached only with a consumed decision, and the
  journal is forgotten only when every document is the one that is in force.
* `MutationsAreAudited`: by `ChainKept` (the history ends in the state before or the state
  after, the head follows it), `AsideKept` (a private copy, a remnant or a tombstone is
  there only under a journal, as far as the mutation or its recovery is), and `StoreKept`
  (the store is what the chain registered and the one bundle that is fresh; the journal
  knows whether it is, which is what the rollback removes it by).
* `Invariance` for the whole.

`ProviderEmit_proofs`, for any number of files, saves, deaths and rounds of the contest,
from `ProviderAssumption` (at least one file, since the trace is always written; `None`,
the generated bytes, numbers and journals are told apart):

* `NothingIsLost`: that the last word is somewhere says nothing of what a step may take
  away. `PathKept` adds that a user's bytes stand in one place (`Alone`), and where the
  generated bytes may be the last word themselves (`Emitted`, `Single`); `Behind`, that
  until all files are proved a predecessor in the stage has the generated file before it;
  `Unstaged`, that afterwards the stage holds no last word, so the cleanup may remove it.
  `ToSwap` and `ToJudge` are the contest: which of the two files is the last word, told by
  the two the transaction remembers. The second exchange of the contest loses nothing
  because a user's save is none of the files the transaction has seen.
* `EmissionsSettle`: by `Clear`, which the rollback establishes from the last file to the
  first (`UndoKept`) and the cleanup from the first to the last (`FinishKept`).
* `Invariance`, `TypeCorrect`.

The inductive invariants are not checked by a run of their own, except that of
`AgentLedger`: the proofs cover every instance.

Model-checked only:

* `EveryCommandEnds`, both `RecoveryEnds` and `RetriesSettle`: liveness.

## 6. Not modelled

The components with status `not_modelled` in `PROJECT.json` carry the reason. In
short: planned (see section 2); pure input validation (file access, schemas,
artifact semantics, receipts), which appears in the models only as a command that
may be refused; readers of external state (processes, acceptance drivers); and the
bundled plugin, which keeps no state of the control plane.
