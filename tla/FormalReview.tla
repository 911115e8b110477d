------------------------------ MODULE FormalReview ------------------------------
(***************************************************************************)
(* The formal review of a release (agentledger.py): for one root task and  *)
(* each review subject, an adversarial, a cross and an integrator reviewer *)
(* follow each other in one review chain; a role that failed may be        *)
(* dispatched once more; and the integrator runs the checks of the         *)
(* accepted Node 6 again through the ledger (replay-prepare and            *)
(* replay-execute), whose executors hold .agents.lock only to claim a case *)
(* and to commit its result.                                               *)
(*                                                                         *)
(* Commands that hold .agents.lock are one step here: how they write the   *)
(* ledger is the matter of AgentLedger.  This is one epoch of the ledger.  *)
(***************************************************************************)
EXTENDS Integers, Sequences, FiniteSets

CONSTANTS
    Chains,         \* review chain ids
    Executors,      \* processes of replay-execute
    Cap,            \* children the mode admits
    Checks,         \* checks of Node 6, in plan order
    MaxAgents,      \* bound: reviewers prepared
    MaxCandidates,  \* bound: candidates the tree goes through
    None

ASSUME ReviewAssumption ==
    /\ Cap \in Nat
    /\ Checks \in Nat \ {0}
    /\ MaxAgents \in Nat
    /\ MaxCandidates \in Nat \ {0}
    /\ None \notin {"PASS", "FAIL"}

VARIABLES
    agents,     \* reviewers in the order they were prepared
    runs,       \* the replay run of each integrator, or None
    exec,       \* what each executor is about
    candidate,  \* the candidate in the tree
    node6       \* the candidate the accepted Node 6 artifact is about

vars == <<agents, runs, exec, candidate, node6>>

Roles == {"adversarial", "cross", "integrator"}
Failed == "failed"     \* interrupted, errored or expired
Ids == 1..Len(agents)
Members == {a \in Ids : agents[a].prep = "consumed"}
Active == {a \in Members : agents[a].status = "active"}
Pending == {a \in Ids : agents[a].prep = "pending"}

(***************************************************************************)
(* What the review chain requires.                                         *)
(***************************************************************************)
\* replay_run_authority, as far as the tree is concerned
Replayed(a) ==
    /\ runs[a] # None
    /\ runs[a].status = "completed"
    /\ runs[a].candidate = candidate
    /\ node6 = agents[a].subject

\* committed_review_result
Committed(a, verdict) ==
    /\ agents[a].status = "completed"
    /\ agents[a].verdict = verdict
    /\ agents[a].role = "integrator" => Replayed(a)

\* formal_review_chain_ids
ChainsOf(subject) ==
    {agents[a].chain : a \in {b \in Ids : agents[b].subject = subject
                                            /\ agents[b].prep # "cancelled"}}

Attempts(chain, role) == {a \in Members : agents[a].chain = chain /\ agents[a].role = role}
Passed(chain, role) == {a \in Attempts(chain, role) : Committed(a, "PASS")}
Retryable(a) == agents[a].status = Failed \/ Committed(a, "FAIL")

Predecessor(role) == IF role = "cross" THEN "adversarial" ELSE "cross"

\* require_formal_review_predecessor, for a reviewer not yet among the members
MayReview(r) ==
    LET prior == Attempts(r.chain, r.role)
    IN  /\ \A a \in Members : agents[a].chain = r.chain => agents[a].subject = r.subject
        /\ IF r.count = 0 THEN prior = {}
           ELSE \E a \in prior : prior = {a} /\ Retryable(a) /\ agents[a].count = 0
        /\ IF r.role = "adversarial"
           THEN /\ r.pred = None
                /\ Attempts(r.chain, "cross") \cup Attempts(r.chain, "integrator") = {}
           ELSE Passed(r.chain, Predecessor(r.role)) = {r.pred}
        /\ r.role = "integrator" => Passed(r.chain, "adversarial") = {agents[r.pred].pred}

\* Mutant: what held when the reviewer was prepared is not looked at again.
MayStillReviewAnyway(a) == TRUE

\* register asks again.
MayStillReview(a) == MayReview(agents[a])

(***************************************************************************)
(* Dispatch.                                                               *)
(***************************************************************************)
Reviewer(role, chain, subject, count, pred) ==
    [role |-> role, chain |-> chain, subject |-> subject, count |-> count, pred |-> pred,
     prep |-> "pending", status |-> None, verdict |-> None, to |-> None, late |-> FALSE]

\* command_prepare; a report is known by the reviewer who wrote it.
Prepare(role, chain, subject, count, pred) ==
    LET r == Reviewer(role, chain, subject, count, pred)
    IN  /\ Len(agents) < MaxAgents
        /\ Cardinality(Active \cup Pending) < Cap
        /\ ChainsOf(subject) \subseteq {chain}
        /\ MayReview(r)
        /\ agents' = Append(agents, r)
    /\ UNCHANGED <<runs, exec, candidate, node6>>

CancelPrepare(a) ==
    /\ a \in Pending
    /\ agents' = [agents EXCEPT ![a].prep = "cancelled"]
    /\ UNCHANGED <<runs, exec, candidate, node6>>

\* register appends the member.
Joined(r) == [r EXCEPT !.prep = "consumed", !.status = "active"]

\* command_register
Register(a) ==
    /\ a \in Pending
    /\ agents[a].count = 0
    /\ MayStillReview(a)
    /\ agents' = [agents EXCEPT ![a] = Joined(@)]
    /\ UNCHANGED <<runs, exec, candidate, node6>>

\* command_redispatch: the payload, and with it the subject, is the source's.
Redispatch(old, a) ==
    /\ old \in Members /\ a \in Pending
    /\ Retryable(old)
    /\ agents[old].to = None
    /\ agents[old].count = 0 /\ agents[a].count = 1
    /\ agents[a].role = agents[old].role
    /\ agents[a].subject = agents[old].subject
    /\ MayStillReview(a)
    /\ agents' = [agents EXCEPT ![a] = Joined(@), ![old].to = a]
    /\ UNCHANGED <<runs, exec, candidate, node6>>

\* The deadline of a child passes, or it is seen to have stalled.
Overdue(a) ==
    /\ a \in Active
    /\ ~agents[a].late
    /\ agents' = [agents EXCEPT ![a].late = TRUE]
    /\ UNCHANGED <<runs, exec, candidate, node6>>

(***************************************************************************)
(* The end of a reviewer.                                                  *)
(***************************************************************************)
Prepared(a) == runs[a] # None /\ runs[a].status = "prepared"
Aborted(run) == [run EXCEPT !.status = "aborted"]

\* Mutant: only a child that ended on the platform gives up its replay run.
AbandonedUnlessLost(a, status) == status = Failed /\ Prepared(a)

\* abort_pending_replays_for_terminal
Abandoned(a, status) == status # "completed" /\ Prepared(a)

Ended(r, status, verdict) == [r EXCEPT !.status = status, !.verdict = verdict]

\* command_finish
Finish(a, status, verdict) ==
    /\ a \in Active
    /\ status = "completed" =>
          /\ ~agents[a].late
          /\ agents[a].role = "integrator" => Replayed(a)
    /\ verdict \in IF status = "completed" THEN {"PASS", "FAIL"} ELSE {None}
    /\ agents' = [agents EXCEPT ![a] = Ended(@, status, verdict)]
    /\ runs' = IF Abandoned(a, status) THEN [runs EXCEPT ![a] = Aborted(@)] ELSE runs
    /\ UNCHANGED <<exec, candidate, node6>>

(***************************************************************************)
(* The replay.                                                             *)
(***************************************************************************)
\* command_replay_prepare
ReplayPrepare(a) ==
    /\ a \in Active
    /\ agents[a].role = "integrator"
    /\ runs[a] = None
    /\ node6 = agents[a].subject
    /\ runs' = [runs EXCEPT ![a] = [candidate |-> candidate, status |-> "prepared",
                                    cases |-> [i \in 1..Checks |-> "new"]]]
    /\ UNCHANGED <<agents, exec, candidate, node6>>

Started(run) == {i \in 1..Checks : run.cases[i] = "started"}
New(run) == {i \in 1..Checks : run.cases[i] = "new"}

Orphaned(run) == Started(run) # {}

\* replay_execute_claim: claims the next case, or aborts the run.
Claim(e, a) ==
    /\ exec[e] = None
    /\ a \in Active
    /\ Prepared(a)
    /\ node6 = agents[a].subject
    /\ runs[a].candidate = candidate
    /\ IF agents[a].late \/ Orphaned(runs[a])
       THEN /\ runs' = [runs EXCEPT ![a] = Aborted(@)]
            /\ UNCHANGED exec
       ELSE \E i \in New(runs[a]) :
                /\ \A j \in New(runs[a]) : i <= j
                /\ runs' = [runs EXCEPT ![a].cases[i] = "started"]
                /\ exec' = [exec EXCEPT ![e] = [run |-> a, index |-> i, phase |-> "running"]]
    /\ UNCHANGED <<agents, candidate, node6>>

\* The child testrun.py ends; without a result, or with one to commit.
RunnerEnds(e, phase) ==
    /\ exec[e] # None
    /\ exec[e].phase = "running"
    /\ exec' = [exec EXCEPT ![e].phase = phase]
    /\ UNCHANGED <<agents, runs, candidate, node6>>

Closed(cases) ==
    IF \E i \in 1..Checks : cases[i] = "failed" THEN "failed"
    ELSE IF \A i \in 1..Checks : cases[i] = "passed" THEN "completed" ELSE "prepared"

\* Mutant: the result is written into the run whatever became of it.
CommittableAlways(e) == runs[exec[e].run].candidate = candidate

Committable(e) ==
    LET a == exec[e].run
    IN  /\ a \in Active
        /\ Prepared(a)
        /\ runs[a].candidate = candidate

\* replay_execute_commit
Commit(e) ==
    /\ exec[e] # None
    /\ exec[e].phase \in {"passed", "failed"}
    /\ LET a == exec[e].run
           cases == [runs[a].cases EXCEPT ![exec[e].index] = exec[e].phase]
           on_time == ~agents[a].late /\ runs[a].cases[exec[e].index] = "started"
       IN  IF ~Committable(e)
           THEN exec' = [exec EXCEPT ![e].phase = "rejected"] /\ UNCHANGED runs
           ELSE /\ runs' = [runs EXCEPT ![a] =
                                IF on_time THEN [@ EXCEPT !.cases = cases, !.status = Closed(cases)]
                                ELSE Aborted(@)]
                /\ exec' = [exec EXCEPT ![e] = None]
    /\ UNCHANGED <<agents, candidate, node6>>

\* command_replay_execute, in a critical section of its own: no result, or one
\* that was rejected.
Abort(e) ==
    /\ exec[e] # None
    /\ exec[e].phase \in {"none", "rejected"}
    /\ runs' = IF Prepared(exec[e].run) THEN [runs EXCEPT ![exec[e].run] = Aborted(@)] ELSE runs
    /\ exec' = [exec EXCEPT ![e] = None]
    /\ UNCHANGED <<agents, candidate, node6>>

Crash(e) ==
    /\ exec[e] # None
    /\ exec' = [exec EXCEPT ![e] = None]
    /\ UNCHANGED <<agents, runs, candidate, node6>>

(***************************************************************************)
(* The tree and the state machine go on beside the review.                 *)
(***************************************************************************)
Edit ==
    /\ candidate < MaxCandidates
    /\ candidate' = candidate + 1
    /\ UNCHANGED <<agents, runs, exec, node6>>

\* Node 6 is accepted again, for the candidate of now.
Accept6 ==
    /\ node6 # candidate
    /\ node6' = candidate
    /\ UNCHANGED <<agents, runs, exec, candidate>>

Init ==
    /\ agents = <<>>
    /\ runs = [a \in 1..MaxAgents |-> None]
    /\ exec = [e \in Executors |-> None]
    /\ candidate = 1
    /\ node6 = 1

Next ==
    \/ \E role \in Roles, chain \in Chains, subject \in 1..node6, count \in {0, 1},
          pred \in Ids \cup {None} : Prepare(role, chain, subject, count, pred)
    \/ \E a \in Ids :
          \/ CancelPrepare(a)
          \/ Register(a)
          \/ \E old \in Ids : Redispatch(old, a)
          \/ Overdue(a)
          \/ \E status \in {"completed", "lost", Failed}, verdict \in {"PASS", "FAIL", None} :
                Finish(a, status, verdict)
          \/ ReplayPrepare(a)
          \/ \E e \in Executors : Claim(e, a)
    \/ \E e \in Executors :
          \/ \E phase \in {"passed", "failed", "none"} : RunnerEnds(e, phase)
          \/ Commit(e)
          \/ Abort(e)
          \/ Crash(e)
    \/ Edit
    \/ Accept6

Spec == Init /\ [][Next]_vars

(***************************************************************************)
(* Properties.                                                             *)
(***************************************************************************)
Run == [candidate : 1..MaxCandidates,
        status : {"prepared", "completed", "failed", "aborted"},
        cases : [1..Checks -> {"new", "started", "passed", "failed"}]]

ReviewerType ==
    [role : Roles, chain : Chains, subject : 1..MaxCandidates, count : {0, 1},
     pred : 1..MaxAgents \cup {None}, prep : {"pending", "consumed", "cancelled"},
     status : {None, "active", "completed", "lost", Failed},
     verdict : {None, "PASS", "FAIL"}, to : 1..MaxAgents \cup {None}, late : BOOLEAN]

Execution ==
    [run : 1..MaxAgents, index : 1..Checks,
     phase : {"running", "passed", "failed", "none", "rejected"}]

TypeOK ==
    /\ agents \in Seq(ReviewerType)
    /\ Len(agents) <= MaxAgents
    /\ runs \in [1..MaxAgents -> Run \cup {None}]
    /\ exec \in [Executors -> Execution \cup {None}]
    /\ candidate \in 1..MaxCandidates
    /\ node6 \in 1..MaxCandidates

\* A subject is reviewed in one chain.
OneChain ==
    \A a, b \in Ids : agents[a].subject = agents[b].subject =>
        \/ "cancelled" \in {agents[a].prep, agents[b].prep}
        \/ agents[a].chain = agents[b].chain

\* A role is attempted once more at most, and not after it passed.
RetriedOnce ==
    \A a, b \in Members : agents[a].chain = agents[b].chain =>
        /\ agents[a].subject = agents[b].subject
        /\ a # b /\ agents[a].role = agents[b].role =>
              /\ agents[a].count # agents[b].count
              /\ agents[a].count = 0 =>
                    agents[a].status \in {"completed", Failed} /\ agents[a].verdict # "PASS"

\* A successor rests on a predecessor that passed, an integrator on both.
PredecessorPassed ==
    \A a \in Members : agents[a].role # "adversarial" =>
        LET p == agents[a].pred
        IN  /\ p \in Passed(agents[a].chain, Predecessor(agents[a].role))
            /\ agents[a].role = "integrator" =>
                  agents[p].pred \in Passed(agents[a].chain, "adversarial")

\* What formal_review_chain_errors finds nothing against, in any order of
\* preparations, cancellations, registrations, ends and retries.
ChainOrdered == OneChain /\ RetriedOnce /\ PredecessorPassed

\* Cases start in plan order and one at a time, and a run ends as its cases did: an
\* aborted run hides no failed case.
InOrder(run) ==
    /\ \A i, j \in 1..Checks : i < j /\ run.cases[j] # "new" => run.cases[i] = "passed"
    /\ run.status = "completed" <=> \A i \in 1..Checks : run.cases[i] = "passed"
    /\ run.status = "failed" <=> \E i \in 1..Checks : run.cases[i] = "failed"

\* A run that is still open belongs to an active integrator, and one that completed
\* its review has no open or failed run.
Owned(a) ==
    /\ a \in Members /\ agents[a].role = "integrator"
    /\ runs[a].status = "prepared" => a \in Active
    /\ agents[a].status = "completed" => runs[a].status = "completed"

\* What replay_run_registry_errors finds nothing against, whatever two executors,
\* the supervision and the end of the integrator do to each other.
ReplayOrdered == \A a \in 1..MaxAgents : runs[a] # None => InOrder(runs[a]) /\ Owned(a)

\* A replay that was closed stays as it was: no executor that was late, no retry and
\* no end of the integrator rewrites it.
ClosedIsFinal ==
    [][\A a \in 1..MaxAgents :
          runs[a] # None /\ runs[a].status # "prepared" => runs'[a] = runs[a]]_vars

\* Only a member that completed has a verdict; what a retry may follow rests on it.
VerdictsKept ==
    \A a \in Ids : agents[a].verdict \in {"PASS", "FAIL"} =>
        agents[a].prep = "consumed" /\ agents[a].status = "completed"

IInv == TypeOK /\ VerdictsKept /\ ChainOrdered /\ ReplayOrdered
=============================================================================
