----------------------------- MODULE WorkflowNodes -----------------------------
(***************************************************************************)
(* The delivery state machine: TASK.json as workflowctl.py (gates, nodes,  *)
(* returns, completion), agentctl.py (start, requirement approval, mode    *)
(* escalation, reopened clarification) and templatectl.py (route) move it. *)
(* Each command is one step: ContextTransition shows that TASK is a        *)
(* compare-and-set register.                                               *)
(*                                                                         *)
(* A command may always be refused for a reason that is not in TASK (a     *)
(* budget gate, an artifact that fails its schema, a missing human         *)
(* receipt): a refusal changes nothing, so it is a step not taken.         *)
(*                                                                         *)
(* The usual names of a specification carry a prefix here, so that         *)
(* Task_proofs can extend this module beside ContextTransition.            *)
(***************************************************************************)
EXTENDS Integers, FiniteSets

CONSTANTS
    Signatures,   \* root causes: sha256 of issue id and cause category
    Versions,     \* contents of an artifact that a gate binds
    MaxStrikes,   \* bound: recurrences of one root cause
    Unbound,      \* content of an artifact that no gate binds
    NoVersion,    \* no artifact or approval recorded
    NoEntry       \* no rollback entry

ASSUME NodesAssumption ==
    /\ MaxStrikes \in Nat
    /\ {NoVersion, Unbound} \cap Versions = {}
    /\ NoEntry \notin Signatures \X Nat

VARIABLES
    status,       \* TASK.status
    node,         \* TASK.current_node; Idle stands for "idle"
    phase,        \* TASK.phase, which only approve-requirements tests
    clarified,    \* TASK.requirements_clarified
    mode,         \* TASK.mode
    light,        \* task_type is governance, documentation or maintenance
    production,   \* TASK.environment = "production"
    accepted,     \* TASK.accepted_nodes
    artifacts,    \* TASK.node_artifacts: node -> version
    approvals,    \* TASK.gate_approvals of the artifact gates
    pending,      \* TASK.pending_gate_artifacts
    marker,       \* TASK.next_action = THREE_STRIKE_NEXT_ACTION
    escalation,   \* TASK.failure_escalation: its state and the entry it binds
    ruling,       \* TASK.gate_approvals["failure-escalation"]: the entry bound
    strikes,      \* hot and archived failures of each signature
    last,         \* last entry of TASK.rollback_ledger
    ruled         \* history: the rollback entries a human has ruled on

route == <<mode, light, production>>
position == <<status, node, phase, clarified>>
evidence == <<accepted, artifacts>>
gates == <<approvals, pending>>
failures == <<strikes, last, ruled>>
nodeVars == <<route, position, evidence, gates, marker, escalation, ruling, failures>>

Idle == 0      \* never the current node of an active task: start enters node 1
Mode == {"fast", "standard", "release"}
Rank == [fast |-> 0, standard |-> 1, release |-> 2]
Gates == {"solution", "acceptance", "production", "knowledge"}
GateNode == [solution |-> 4, acceptance |-> 7, production |-> 8, knowledge |-> 8]
GatedNodes == {4, 7, 8}
Entry == Signatures \X Nat

Terminal == IF mode = "release" THEN 8 ELSE 7

\* The task projection is "lightweight".
Lightweight == light /\ mode # "release"
LightweightStandard == mode = "standard" /\ Lightweight

\* Nodes 2-5 are advanced only with a rendered template of the task's route;
\* the fast and the lightweight route have none of these four templates.
NodeRouted(n) == n \in 2..5 => mode # "fast" /\ ~Lightweight
Projected(n) == node = 2 /\ n = 6 /\ (mode = "fast" \/ Lightweight)

VersionsOf(n) == IF n \in GatedNodes THEN Versions ELSE {Unbound}

\* Mutant: release tasks are forgotten at the acceptance gate.
RequiredGateStandard(n) ==
    CASE n = 4 /\ mode # "fast" -> {"solution"}
      [] n = 7 /\ mode = "standard" -> {"acceptance"}
      [] n = 8 /\ production -> {"production"}
      [] OTHER -> {}

RequiredGate(n) ==
    CASE n = 4 /\ mode # "fast" -> {"solution"}
      [] n = 7 /\ mode # "fast" -> {"acceptance"}
      [] n = 8 /\ production -> {"production"}
      [] OTHER -> {}

PositionType ==
    /\ status \in {"idle", "waiting_human", "in_progress", "ready_to_complete", "accepted"}
    /\ node \in 0..8
    /\ phase \in {"clarification", "other"}
    /\ mode \in Mode

FlagType ==
    /\ clarified \in BOOLEAN
    /\ light \in BOOLEAN
    /\ production \in BOOLEAN
    /\ marker \in BOOLEAN

EvidenceType ==
    /\ accepted \in SUBSET (0..8)
    /\ DOMAIN artifacts \subseteq 1..8
    /\ \A n \in DOMAIN artifacts : artifacts[n] \in Versions \cup {Unbound}
    /\ approvals \in [Gates -> Versions \cup {NoVersion}]
    /\ pending \in [Gates -> Versions \cup {NoVersion}]

FailureType ==
    /\ escalation \in [state : {"none", "pending", "resolved"}, entry : Entry \cup {NoEntry}]
    /\ ruling \in Entry \cup {NoEntry}
    /\ strikes \in [Signatures -> Nat]
    /\ last \in Entry \cup {NoEntry}
    /\ ruled \in SUBSET Entry

NodesTyped == PositionType /\ FlagType /\ EvidenceType /\ FailureType

None == [g \in Gates |-> NoVersion]
NoEscalation == [state |-> "none", entry |-> NoEntry]
NoArtifacts == [n \in {} |-> NoVersion]

\* The state the template ships with: an idle standard maintenance task.
NodesInit ==
    /\ status = "idle"
    /\ node = Idle
    /\ phase = "other"
    /\ clarified = FALSE
    /\ mode = "standard"
    /\ light = TRUE
    /\ production = FALSE
    /\ accepted = {}
    /\ artifacts = NoArtifacts
    /\ approvals = None
    /\ pending = None
    /\ marker = FALSE
    /\ escalation = NoEscalation
    /\ ruling = NoEntry
    /\ strikes = [s \in Signatures |-> 0]
    /\ last = NoEntry
    /\ ruled = {}

(***************************************************************************)
(* The gates every workflow mutator passes first.                          *)
(***************************************************************************)
ExecutionGate ==
    /\ clarified
    /\ node >= 2 => accepted = IF status = "ready_to_complete"
                               THEN 0..node ELSE 0..(node - 1)

FailureGate ==
    \/ escalation.state = "none" /\ ~marker
    \/ escalation.state = "resolved" /\ escalation.entry = last /\ ruling = last

(***************************************************************************)
(* What start and complete-task require of TASK before they touch it:      *)
(* state_machine_errors, workflow_validation_errors, agentctl validate.    *)
(***************************************************************************)
ActivePrefix ==
    status \in {"in_progress", "waiting_human"} =>
        node \in 1..Terminal /\ accepted = 0..(node - 1)

EscalationBinds == escalation.state # "none" => escalation.entry = last
PendingAtMarker == escalation.state = "pending" => marker /\ status = "waiting_human"
ResolvedResumes == escalation.state = "resolved" => status = "in_progress"

StateMachineValid ==
    /\ status = "idle" => node = Idle /\ accepted = {}
    /\ status = "accepted" => node = Idle /\ phase = "other" /\ accepted = 0..Terminal
    /\ status = "ready_to_complete" => node = Terminal /\ accepted = 0..Terminal
    /\ ActivePrefix
    /\ EscalationBinds
    /\ PendingAtMarker
    /\ ResolvedResumes

RecordsExact ==
    DOMAIN artifacts =
        CASE mode = "fast" -> {1, 6, 7}
          [] LightweightStandard -> {1, 6, 7} \cup (DOMAIN artifacts \cap {2})
          [] OTHER -> 1..Terminal

GateHolds(g) ==
    LET n == GateNode[g]
    IN  n \in accepted => n \in DOMAIN artifacts /\ approvals[g] = artifacts[n]

GateApprovalsValid ==
    /\ mode # "fast" => GateHolds("acceptance")
    /\ mode # "fast" /\ ~LightweightStandard => GateHolds("solution")
    /\ production => GateHolds("production")

WorkflowValid ==
    /\ StateMachineValid
    /\ status \in {"in_progress", "ready_to_complete"} => clarified
    /\ status \in {"ready_to_complete", "accepted"} => RecordsExact
    /\ GateApprovalsValid

ControlPlaneValid ==
    /\ WorkflowValid
    /\ clarified \/ phase = "clarification" \/ status = "idle"

(***************************************************************************)
(* agentctl: the life of a task outside the node sequence.                 *)
(***************************************************************************)

\* start, from a valid workflow state only; it replaces an unfinished task only
\* with a signed archive decision.
Start(m, l, p) ==
    /\ ControlPlaneValid
    /\ p => m = "release"
    /\ status' = "waiting_human"
    /\ node' = 1
    /\ phase' = "clarification"
    /\ clarified' = FALSE
    /\ mode' = m
    /\ light' = l
    /\ production' = p
    /\ accepted' = {0}
    /\ artifacts' = NoArtifacts
    /\ approvals' = None
    /\ pending' = None
    /\ marker' = FALSE
    /\ escalation' = NoEscalation
    /\ ruling' = NoEntry
    /\ strikes' = [s \in Signatures |-> 0]
    /\ last' = NoEntry
    /\ ruled' = {}

ApproveRequirements ==
    /\ phase = "clarification"
    /\ status = "waiting_human"
    /\ ~clarified
    /\ clarified' = TRUE
    /\ status' = "in_progress"
    /\ phase' = "other"
    /\ node' = 2
    /\ accepted' = {0, 1}
    /\ artifacts' = [n \in DOMAIN artifacts \cup {1} |->
                        IF n = 1 THEN Unbound ELSE artifacts[n]]
    /\ marker' = FALSE
    /\ UNCHANGED <<route, gates, escalation, ruling, failures>>

\* Mutant: escalate-mode also forgets a pending failure escalation.
EscalateModeForgets(m) ==
    /\ status \notin {"idle", "accepted"}
    /\ Rank[m] >= Rank[mode]
    /\ mode' = m
    /\ status' = "in_progress"
    /\ node' = 2
    /\ phase' = "other"
    /\ accepted' = {0, 1}
    /\ artifacts' = [n \in DOMAIN artifacts \cap {1} |-> artifacts[n]]
    /\ approvals' = None
    /\ ruling' = NoEntry
    /\ pending' = None
    /\ marker' = FALSE
    /\ escalation' = NoEscalation
    /\ UNCHANGED <<clarified, light, production, failures>>

\* escalate-mode: a stricter mode, or the same one with more risk or files.
EscalateMode(m) ==
    /\ status \notin {"idle", "accepted"}
    /\ Rank[m] >= Rank[mode]
    /\ mode' = m
    /\ status' = "in_progress"
    /\ node' = 2
    /\ phase' = "other"
    /\ accepted' = {0, 1}
    /\ artifacts' = [n \in DOMAIN artifacts \cap {1} |-> artifacts[n]]
    /\ approvals' = None
    /\ ruling' = NoEntry
    /\ pending' = None
    /\ marker' = FALSE
    /\ UNCHANGED <<clarified, light, production, escalation, failures>>

\* Mutant: reopen-clarification keeps the node artifacts.
ReopenKeepsArtifacts ==
    /\ clarified
    /\ clarified' = FALSE
    /\ status' = "waiting_human"
    /\ node' = 1
    /\ phase' = "clarification"
    /\ accepted' = {0}
    /\ approvals' = None
    /\ ruling' = NoEntry
    /\ pending' = None
    /\ marker' = FALSE
    /\ UNCHANGED <<route, artifacts, escalation, failures>>

ReopenClarification ==
    /\ clarified
    /\ clarified' = FALSE
    /\ status' = "waiting_human"
    /\ node' = 1
    /\ phase' = "clarification"
    /\ accepted' = {0}
    /\ artifacts' = NoArtifacts
    /\ approvals' = None
    /\ ruling' = NoEntry
    /\ pending' = None
    /\ marker' = FALSE
    /\ UNCHANGED <<route, escalation, failures>>

\* templatectl route: of the state here it rewrites only the next action.
RouteTemplates ==
    /\ clarified
    /\ phase # "clarification"
    /\ status \notin {"idle", "accepted"}
    /\ marker' = (marker /\ node < 2)
    /\ UNCHANGED <<route, position, evidence, gates, escalation, ruling, failures>>

(***************************************************************************)
(* workflowctl: gates.                                                     *)
(***************************************************************************)
SubmitGate(g, v) ==
    /\ ExecutionGate
    /\ FailureGate
    /\ node = GateNode[g]
    /\ NodeRouted(GateNode[g])
    /\ approvals' = [approvals EXCEPT ![g] = NoVersion]
    /\ pending' = [pending EXCEPT ![g] = v]
    /\ status' = "waiting_human"
    /\ marker' = FALSE
    /\ UNCHANGED <<route, node, phase, clarified, evidence, escalation, ruling, failures>>

ApproveGate(g) ==
    /\ ExecutionGate
    /\ FailureGate
    /\ node = GateNode[g] \/ g \in {"knowledge", "production"}
    /\ pending[g] # NoVersion
    /\ approvals' = [approvals EXCEPT ![g] = pending[g]]
    /\ status' = "in_progress"
    /\ marker' = FALSE
    /\ UNCHANGED <<route, node, phase, clarified, evidence, pending, escalation,
                   ruling, failures>>

(***************************************************************************)
(* workflowctl: nodes.                                                     *)
(***************************************************************************)

Finishes(n) == (mode # "release" /\ n = 7) \/ n = 8

Advance(n, v) ==
    /\ ExecutionGate
    /\ FailureGate
    /\ status \in {"in_progress", "waiting_human"}
    /\ node = n \/ Projected(n)
    /\ NodeRouted(n)
    /\ \A g \in RequiredGate(n) : approvals[g] = v
    /\ escalation' = NoEscalation
    /\ ruling' = NoEntry
    /\ artifacts' = [k \in DOMAIN artifacts \cup {n} |-> IF k = n THEN v ELSE artifacts[k]]
    /\ accepted' = accepted \cup (IF Projected(n) THEN 2..6 ELSE {n})
    /\ IF Finishes(n)
       THEN status' = "ready_to_complete" /\ node' = n
       ELSE status' = "in_progress" /\ node' = n + 1
    /\ phase' = "other"
    /\ marker' = FALSE
    /\ UNCHANGED <<route, clarified, gates, failures>>

\* Mutant: the widening is not limited to late nodes.
RepairNodeAnywhere(count, target) ==
    IF count = 2 THEN IF LightweightStandard THEN 2 ELSE 4 ELSE target

\* The node a return goes to: the second late failure of a root cause widens
\* the repair.
RepairNode(count, target) ==
    IF count = 2 /\ node > 4
    THEN IF LightweightStandard THEN 2 ELSE 4
    ELSE target

StrikeCount(s) == strikes[s] + 1

ReturnNode(s, requested) ==
    LET count == StrikeCount(s)
        target == RepairNode(count, requested)
    IN  /\ ExecutionGate
        /\ FailureGate
        /\ requested < node
        /\ count <= MaxStrikes
        /\ node' = target
        /\ status' = IF count >= 3 THEN "waiting_human" ELSE "in_progress"
        /\ marker' = (count >= 3)
        /\ escalation' = IF count >= 3
                         THEN [state |-> "pending", entry |-> <<s, count>>]
                         ELSE escalation
        /\ strikes' = [strikes EXCEPT ![s] = count]
        /\ last' = <<s, count>>
        /\ accepted' = {n \in accepted : n < target}
        /\ artifacts' = [n \in {k \in DOMAIN artifacts : k < target} |-> artifacts[n]]
        /\ phase' = "other"
        /\ UNCHANGED <<route, clarified, gates, ruling, ruled>>

\* resolve-failure: a signed human decision on the last rollback entry.
ResolveAllowed ==
    /\ ExecutionGate
    /\ (marker /\ status = "waiting_human") \/ escalation.state = "pending"
    /\ last # NoEntry

ResolveFailure ==
    /\ ResolveAllowed
    /\ ruling' = last
    /\ escalation' = [state |-> "resolved", entry |-> last]
    /\ status' = "in_progress"
    /\ marker' = FALSE
    /\ ruled' = ruled \cup {last}
    /\ UNCHANGED <<route, node, phase, clarified, evidence, gates, strikes, last>>

CompleteTask ==
    /\ ExecutionGate
    /\ status = "ready_to_complete"
    /\ accepted = 0..Terminal
    /\ ControlPlaneValid
    /\ node' = Idle
    /\ status' = "accepted"
    /\ phase' = "other"
    /\ marker' = FALSE
    /\ UNCHANGED <<route, clarified, evidence, gates, escalation, ruling, failures>>

NodesNext ==
    \/ \E m \in Mode, l, p \in BOOLEAN : Start(m, l, p)
    \/ ApproveRequirements
    \/ \E m \in Mode : EscalateMode(m)
    \/ ReopenClarification
    \/ RouteTemplates
    \/ \E g \in Gates, v \in Versions : SubmitGate(g, v)
    \/ \E g \in Gates : ApproveGate(g)
    \/ \E n \in 2..8 : \E v \in VersionsOf(n) : Advance(n, v)
    \/ \E s \in Signatures, t \in 2..8 : ReturnNode(s, t)
    \/ ResolveFailure
    \/ CompleteTask

NodesSpec == NodesInit /\ [][NodesNext]_nodeVars

(***************************************************************************)
(* Safety.                                                                 *)
(***************************************************************************)

\* The accepted nodes are the nodes before the current one, or (a finished
\* task, and a task a gate command took out of ready_to_complete) up to and
\* including it: no sequence of returns, projections, escalations and reopened
\* clarifications leaves a hole in the chain or a node accepted ahead of it.
AcceptedPrefix ==
    node # Idle => accepted \in {0..(node - 1), 0..node}

\* A task that is ready or completed has, for every gate its route demands, a
\* human approval of exactly the artifact the node was accepted with, although
\* artifacts are resubmitted, approvals dropped and nodes returned on the way.
GatesHonoured ==
    status \in {"ready_to_complete", "accepted"} => GateApprovalsValid

\* From the third recurrence of a root cause until a human has ruled on that
\* very recurrence, no gate, advance or further return is possible.
ThirdStrikeNeedsHuman ==
    \A s \in Signatures :
        strikes[s] >= 3 /\ <<s, strikes[s]>> \notin ruled => ~FailureGate

\* On the full routes a node from 2 on counts as accepted exactly as long as the
\* artifact it was accepted with is on record: returns, escalations and reopened
\* clarifications forget both, and nothing else forgets either.
EvidenceMatchesNodes ==
    mode # "fast" /\ ~Lightweight => DOMAIN artifacts \ {1} = accepted \ {0, 1}

(***************************************************************************)
(* The strengthening behind the last three, one part per ledger.           *)
(***************************************************************************)

\* An unruled third strike is the last rollback entry and holds the escalation.
StrikeHeld ==
    \A s \in Signatures :
        strikes[s] >= 3 /\ <<s, strikes[s]>> \notin ruled =>
            /\ escalation.state = "pending"
            /\ last = <<s, strikes[s]>>

Demanded(g) ==
    CASE g = "acceptance" -> mode # "fast"
      [] g = "solution" -> mode # "fast" /\ ~LightweightStandard
      [] g = "production" -> production
      [] OTHER -> FALSE

\* A demanded gate holds from the moment the task has moved past its node.
GateHeld ==
    \A g \in Gates :
        /\ Demanded(g)
        /\ node > GateNode[g] \/ status \in {"ready_to_complete", "accepted"}
        => GateHolds(g)

\* The inductive invariant: an action that leaves the node chain, the ledger of
\* strikes and the gate approvals consistent keeps all three consistent.
NodesInv == NodesTyped /\ AcceptedPrefix /\ StrikeHeld /\ GateHeld
=============================================================================
