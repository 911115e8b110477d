--------------------------- MODULE FormalReview_proofs ---------------------------
(***************************************************************************)
(* Proofs about FormalReview: the review chain and the replay keep their   *)
(* order for any chains, executors, checks, reviewers and candidates.      *)
(***************************************************************************)
EXTENDS FormalReview, TLAPS, SequenceTheorems

(***************************************************************************)
(* One reviewer changes, or one is added.                                  *)
(***************************************************************************)
LEMMA OneChanges ==
  ASSUME TypeOK, NEW a \in Ids, NEW r \in ReviewerType, agents' = [agents EXCEPT ![a] = r]
  PROVE  /\ agents' \in Seq(ReviewerType)
         /\ Len(agents') = Len(agents)
         /\ agents'[a] = r
         /\ \A b \in Ids : b # a => agents'[b] = agents[b]
  <1>1. agents \in Seq(ReviewerType) /\ a \in 1..Len(agents)
    BY DEF TypeOK, Ids
  <1> QED
    BY <1>1, ExceptSeq DEF Ids

LEMMA ReviewerIs == \A a \in Ids : TypeOK => agents[a] \in ReviewerType
  BY DEF TypeOK, Ids

LEMMA CancelStep ==
  ASSUME TypeOK, NEW a \in Ids, CancelPrepare(a)
  PROVE  /\ agents' = [agents EXCEPT ![a] = [agents[a] EXCEPT !.prep = "cancelled"]]
         /\ [agents[a] EXCEPT !.prep = "cancelled"] \in ReviewerType
  <1>1. agents[a] \in ReviewerType
    BY ReviewerIs
  <1>2. [agents[a] EXCEPT !.prep = "cancelled"] \in ReviewerType
    BY <1>1 DEF ReviewerType
  <1> QED
    BY <1>2 DEF CancelPrepare

LEMMA JoinedIs ==
  ASSUME NEW r \in ReviewerType
  PROVE  Joined(r) \in ReviewerType
  BY DEF ReviewerType, Joined

LEMMA EndedIs ==
  ASSUME NEW r \in ReviewerType, NEW status \in {"completed", "lost", Failed},
         NEW verdict \in {None, "PASS", "FAIL"}
  PROVE  Ended(r, status, verdict) \in ReviewerType
  BY DEF ReviewerType, Ended

LEMMA LateIs ==
  ASSUME NEW r \in ReviewerType
  PROVE  [r EXCEPT !.late = TRUE] \in ReviewerType
  BY DEF ReviewerType

LEMMA RetriedIs ==
  ASSUME NEW r \in ReviewerType, NEW a \in 1..MaxAgents
  PROVE  [r EXCEPT !.to = a] \in ReviewerType
  BY DEF ReviewerType

\* What the review chain knows a reviewer by.
Frame(b) ==
    /\ agents'[b].role = agents[b].role
    /\ agents'[b].chain = agents[b].chain
    /\ agents'[b].subject = agents[b].subject
    /\ agents'[b].count = agents[b].count
    /\ agents'[b].pred = agents[b].pred

\* Registration and redispatch: one pending reviewer joins, and nothing else that
\* the chain reads changes.
Joins(a) ==
    /\ agents' \in Seq(ReviewerType)
    /\ Len(agents') = Len(agents)
    /\ agents'[a].prep = "consumed" /\ agents'[a].status = "active"
    /\ \A b \in Ids : Frame(b) /\ agents'[b].verdict = agents[b].verdict
    /\ \A b \in Ids : b # a => agents'[b].prep = agents[b].prep /\ agents'[b].status = agents[b].status
    /\ UNCHANGED <<runs, exec, candidate, node6>>

LEMMA RegisterJoins ==
  ASSUME TypeOK, NEW a \in Ids, Register(a)
  PROVE  Joins(a)
  <1>1. agents[a] \in ReviewerType
    BY ReviewerIs
  <1>2. Joined(agents[a]) \in ReviewerType
    BY <1>1, JoinedIs
  <1>3. agents' = [agents EXCEPT ![a] = Joined(agents[a])]
    BY DEF Register
  <1>4. /\ agents' \in Seq(ReviewerType)
        /\ Len(agents') = Len(agents)
        /\ agents'[a] = Joined(agents[a])
        /\ \A b \in Ids : b # a => agents'[b] = agents[b]
    BY <1>2, <1>3, OneChanges
  <1>5. /\ agents'[a].prep = "consumed" /\ agents'[a].status = "active"
        /\ Frame(a) /\ agents'[a].verdict = agents[a].verdict
    BY <1>1, <1>4 DEF Joined, ReviewerType, Frame
  <1>6. \A b \in Ids : b # a => Frame(b)
    BY <1>4 DEF Frame
  <1>7. UNCHANGED <<runs, exec, candidate, node6>>
    BY DEF Register
  <1> QED
    BY <1>4, <1>5, <1>6, <1>7 DEF Joins

LEMMA RedispatchJoins ==
  ASSUME TypeOK, NEW a \in Ids, NEW old \in Ids, Redispatch(old, a)
  PROVE  Joins(a)
  <1> DEFINE s == [agents EXCEPT ![a] = Joined(agents[a])]
  <1>1. agents \in Seq(ReviewerType) /\ a \in 1..Len(agents) /\ old \in 1..Len(agents)
        /\ agents[a] \in ReviewerType /\ agents[old] \in ReviewerType
    BY ReviewerIs DEF TypeOK, Ids
  <1>2. a # old /\ a \in 1..MaxAgents
    BY <1>1, ReviewAssumption DEF Redispatch, Members, Pending, TypeOK
  <1>3. Joined(agents[a]) \in ReviewerType
    BY <1>1, JoinedIs
  <1>4. /\ s \in Seq(ReviewerType) /\ Len(s) = Len(agents)
        /\ s[a] = Joined(agents[a]) /\ s[old] = agents[old]
        /\ \A b \in Ids : b # a => s[b] = agents[b]
    BY <1>1, <1>2, <1>3, ExceptSeq DEF Ids
  <1>5. [s[old] EXCEPT !.to = a] \in ReviewerType
    BY <1>1, <1>2, <1>4, RetriedIs
  <1>6. agents' = [s EXCEPT ![old] = [s[old] EXCEPT !.to = a]]
    BY DEF Redispatch
  <1> HIDE DEF s
  <1>7. /\ agents' \in Seq(ReviewerType) /\ Len(agents') = Len(agents)
        /\ agents'[old] = [s[old] EXCEPT !.to = a]
        /\ \A b \in Ids : b # old => agents'[b] = s[b]
    BY <1>1, <1>4, <1>5, <1>6, ExceptSeq DEF Ids
  <1>8. agents'[a] = Joined(agents[a])
    BY <1>2, <1>4, <1>7
  <1>9. /\ agents'[a].prep = "consumed" /\ agents'[a].status = "active"
        /\ Frame(a) /\ agents'[a].verdict = agents[a].verdict
    BY <1>1, <1>8 DEF Joined, ReviewerType, Frame
  <1>10. agents'[old] = [agents[old] EXCEPT !.to = a]
    BY <1>4, <1>7
  <1>11. /\ Frame(old) /\ agents'[old].verdict = agents[old].verdict
         /\ agents'[old].prep = agents[old].prep /\ agents'[old].status = agents[old].status
    BY <1>1, <1>10 DEF ReviewerType, Frame
  <1>12. \A b \in Ids : b # a /\ b # old => agents'[b] = agents[b]
    BY <1>4, <1>7
  <1>13. \A b \in Ids : b # a /\ b # old => Frame(b)
    BY <1>12 DEF Frame
  <1>14. UNCHANGED <<runs, exec, candidate, node6>>
    BY DEF Redispatch
  <1>15. \A b \in Ids : Frame(b) /\ agents'[b].verdict = agents[b].verdict
    BY <1>9, <1>11, <1>12, <1>13
  <1>16. \A b \in Ids : b # a => agents'[b].prep = agents[b].prep /\ agents'[b].status = agents[b].status
    BY <1>11, <1>12
  <1> QED
    BY <1>7, <1>9, <1>14, <1>15, <1>16 DEF Joins

\* Any other step on a reviewer leaves members members.
Stays(a) ==
    /\ agents' \in Seq(ReviewerType)
    /\ Len(agents') = Len(agents)
    /\ \A b \in Ids : Frame(b)
    /\ \A b \in Ids : b # a => agents'[b] = agents[b]

LEMMA CancelStays ==
  ASSUME TypeOK, NEW a \in Ids, CancelPrepare(a)
  PROVE  /\ Stays(a)
         /\ agents[a].prep = "pending" /\ agents'[a].prep = "cancelled"
         /\ agents'[a].status = agents[a].status /\ agents'[a].verdict = agents[a].verdict
  <1>1. agents[a] \in ReviewerType
    BY ReviewerIs
  <1>2. /\ agents' \in Seq(ReviewerType)
        /\ Len(agents') = Len(agents)
        /\ agents'[a] = [agents[a] EXCEPT !.prep = "cancelled"]
        /\ \A b \in Ids : b # a => agents'[b] = agents[b]
    BY CancelStep, OneChanges
  <1>3. /\ Frame(a) /\ agents'[a].prep = "cancelled"
        /\ agents'[a].status = agents[a].status /\ agents'[a].verdict = agents[a].verdict
    BY <1>1, <1>2 DEF Frame, ReviewerType
  <1>4. \A b \in Ids : b # a => Frame(b)
    BY <1>2 DEF Frame
  <1>5. agents[a].prep = "pending"
    BY DEF CancelPrepare, Pending
  <1> QED
    BY <1>2, <1>3, <1>4, <1>5 DEF Stays

LEMMA OverdueStays ==
  ASSUME TypeOK, NEW a \in Ids, Overdue(a)
  PROVE  /\ Stays(a)
         /\ agents'[a].prep = agents[a].prep
         /\ agents'[a].status = agents[a].status /\ agents'[a].verdict = agents[a].verdict
  <1>1. agents[a] \in ReviewerType
    BY ReviewerIs
  <1>2. [agents[a] EXCEPT !.late = TRUE] \in ReviewerType
    BY <1>1, LateIs
  <1>3. agents' = [agents EXCEPT ![a] = [agents[a] EXCEPT !.late = TRUE]]
    BY DEF Overdue
  <1>4. /\ agents' \in Seq(ReviewerType)
        /\ Len(agents') = Len(agents)
        /\ agents'[a] = [agents[a] EXCEPT !.late = TRUE]
        /\ \A b \in Ids : b # a => agents'[b] = agents[b]
    BY <1>2, <1>3, OneChanges
  <1>5. /\ Frame(a) /\ agents'[a].prep = agents[a].prep
        /\ agents'[a].status = agents[a].status /\ agents'[a].verdict = agents[a].verdict
    BY <1>1, <1>4 DEF Frame, ReviewerType
  <1>6. \A b \in Ids : b # a => Frame(b)
    BY <1>4 DEF Frame
  <1> QED
    BY <1>4, <1>5, <1>6 DEF Stays

LEMMA FinishStays ==
  ASSUME TypeOK, NEW a \in Ids, NEW status \in {"completed", "lost", Failed},
         NEW verdict \in {"PASS", "FAIL", None}, Finish(a, status, verdict)
  PROVE  /\ Stays(a)
         /\ agents'[a].prep = agents[a].prep
         /\ agents[a].status = "active"
         /\ agents'[a].status = status /\ agents'[a].verdict = verdict
  <1>1. agents[a] \in ReviewerType
    BY ReviewerIs
  <1>2. Ended(agents[a], status, verdict) \in ReviewerType
    BY <1>1, EndedIs
  <1>3. agents' = [agents EXCEPT ![a] = Ended(agents[a], status, verdict)]
    BY DEF Finish
  <1>4. /\ agents' \in Seq(ReviewerType)
        /\ Len(agents') = Len(agents)
        /\ agents'[a] = Ended(agents[a], status, verdict)
        /\ \A b \in Ids : b # a => agents'[b] = agents[b]
    BY <1>2, <1>3, OneChanges
  <1>5. /\ Frame(a) /\ agents'[a].prep = agents[a].prep
        /\ agents'[a].status = status /\ agents'[a].verdict = verdict
    BY <1>1, <1>4 DEF Frame, ReviewerType, Ended
  <1>6. \A b \in Ids : b # a => Frame(b)
    BY <1>4 DEF Frame
  <1>7. agents[a].status = "active"
    BY DEF Finish, Active
  <1> QED
    BY <1>4, <1>5, <1>6, <1>7 DEF Stays

\* Preparation appends a pending reviewer.
LEMMA PrepareAppends ==
  ASSUME TypeOK, NEW role \in Roles, NEW chain \in Chains, NEW subject \in 1..node6,
         NEW count \in {0, 1}, NEW pred \in Ids \cup {None},
         Prepare(role, chain, subject, count, pred)
  PROVE  LET r == Reviewer(role, chain, subject, count, pred)
         IN  /\ r \in ReviewerType
             /\ agents' \in Seq(ReviewerType)
             /\ Len(agents') = Len(agents) + 1 /\ Len(agents') <= MaxAgents
             /\ agents'[Len(agents) + 1] = r
             /\ \A b \in Ids : agents'[b] = agents[b]
  <1> DEFINE r == Reviewer(role, chain, subject, count, pred)
  <1>1. subject \in 1..MaxCandidates /\ pred \in 1..MaxAgents \cup {None}
    BY ReviewAssumption DEF TypeOK, Ids
  <1>2. r \in ReviewerType
    BY <1>1 DEF Reviewer, ReviewerType
  <1>3. agents \in Seq(ReviewerType) /\ agents' = Append(agents, r) /\ Len(agents) < MaxAgents
    BY DEF Prepare, TypeOK
  <1> HIDE DEF r
  <1>4. Len(agents) \in Nat
    BY <1>3
  <1>5. /\ agents' \in Seq(ReviewerType)
        /\ Len(agents') = Len(agents) + 1
        /\ agents'[Len(agents) + 1] = r
        /\ \A b \in 1..Len(agents) : agents'[b] = agents[b]
    BY <1>2, <1>3, AppendProperties
  <1>6. Len(agents) + 1 <= MaxAgents
    BY <1>3, <1>4, ReviewAssumption
  <1> QED
    BY <1>2, <1>5, <1>6 DEF Ids, r

(***************************************************************************)
(* The replay runs.                                                        *)
(***************************************************************************)
LEMMA AbortedIs ==
  ASSUME NEW run \in Run
  PROVE  /\ Aborted(run) \in Run
         /\ Aborted(run).status = "aborted"
         /\ Aborted(run).cases = run.cases
         /\ Aborted(run).candidate = run.candidate
  BY DEF Run, Aborted

\* One run is replaced, as every step on runs does.
LEMMA RunChanges ==
  ASSUME TypeOK, NEW a \in 1..MaxAgents, NEW run \in Run, runs' = [runs EXCEPT ![a] = run]
  PROVE  /\ runs' \in [1..MaxAgents -> Run \cup {None}]
         /\ runs'[a] = run
         /\ \A b \in 1..MaxAgents : b # a => runs'[b] = runs[b]
  BY DEF TypeOK

LEMMA IdsInRange == TypeOK => Ids \subseteq 1..MaxAgents
  BY ReviewAssumption DEF TypeOK, Ids

LEMMA PreparedIs ==
  ASSUME TypeOK, NEW a \in 1..MaxAgents, Prepared(a)
  PROVE  runs[a] \in Run /\ runs[a].status = "prepared"
  BY DEF TypeOK, Prepared

\* The end of a reviewer, and an abort, either leave the runs alone or abort one
\* that was open.
LEMMA FinishRuns ==
  ASSUME TypeOK, NEW a \in Ids, NEW status \in {"completed", "lost", Failed}, NEW verdict,
         Finish(a, status, verdict)
  PROVE  \/ runs' = runs /\ (Prepared(a) => status = "completed")
         \/ status # "completed" /\ Prepared(a) /\ runs' = [runs EXCEPT ![a] = Aborted(runs[a])]
  BY DEF Finish, Abandoned

LEMMA NewRunIs ==
  ASSUME TypeOK, NEW a \in Ids, ReplayPrepare(a)
  PROVE  LET run == [candidate |-> candidate, status |-> "prepared",
                     cases |-> [i \in 1..Checks |-> "new"]]
         IN  run \in Run /\ runs' = [runs EXCEPT ![a] = run]
  BY DEF TypeOK, ReplayPrepare, Run

\* A claim starts the first case that is new, or aborts.
LEMMA ClaimRuns ==
  ASSUME TypeOK, NEW a \in Ids, NEW e \in Executors, Claim(e, a)
  PROVE  /\ Prepared(a)
         /\ \/ runs' = [runs EXCEPT ![a] = Aborted(runs[a])] /\ exec' = exec
            \/ /\ ~Orphaned(runs[a])
               /\ \E i \in New(runs[a]) :
                    /\ \A j \in New(runs[a]) : i <= j
                    /\ runs' = [runs EXCEPT ![a] = [runs[a] EXCEPT !.cases[i] = "started"]]
                    /\ exec' = [exec EXCEPT ![e] = [run |-> a, index |-> i, phase |-> "running"]]
  <1>1. CASE agents[a].late \/ Orphaned(runs[a])
    BY <1>1 DEF Claim
  <1>2. CASE ~(agents[a].late \/ Orphaned(runs[a]))
    <2>1. Prepared(a)
      BY DEF Claim
    <2>2. PICK i \in New(runs[a]) :
             /\ \A j \in New(runs[a]) : i <= j
             /\ runs' = [runs EXCEPT ![a].cases[i] = "started"]
             /\ exec' = [exec EXCEPT ![e] = [run |-> a, index |-> i, phase |-> "running"]]
      BY <1>2 DEF Claim
    <2>3. runs' = [runs EXCEPT ![a] = [runs[a] EXCEPT !.cases[i] = "started"]]
      BY <2>2
    <2> QED
      BY <1>2, <2>1, <2>2, <2>3
  <1> QED
    BY <1>1, <1>2

LEMMA StartedIs ==
  ASSUME NEW run \in Run, NEW i \in 1..Checks
  PROVE  LET next == [run EXCEPT !.cases[i] = "started"]
         IN  /\ next \in Run
             /\ next.status = run.status
             /\ next.cases = [run.cases EXCEPT ![i] = "started"]
  <1> DEFINE cases == [run.cases EXCEPT ![i] = "started"]
  <1>1. cases \in [1..Checks -> {"new", "started", "passed", "failed"}]
    BY DEF Run
  <1>2. [run EXCEPT !.cases[i] = "started"] = [run EXCEPT !.cases = cases]
    OBVIOUS
  <1> HIDE DEF cases
  <1>3. [run EXCEPT !.cases = cases] \in Run
        /\ [run EXCEPT !.cases = cases].status = run.status
        /\ [run EXCEPT !.cases = cases].cases = cases
    BY <1>1 DEF Run
  <1> QED
    BY <1>2, <1>3 DEF cases

\* A commit records the case and closes the run, or aborts it, or is rejected.
LEMMA CommitRuns ==
  ASSUME TypeOK, NEW e \in Executors, Commit(e)
  PROVE  LET a == exec[e].run
             i == exec[e].index
             cases == [runs[a].cases EXCEPT ![i] = exec[e].phase]
         IN  /\ exec[e] \in Execution
             /\ a \in 1..MaxAgents /\ i \in 1..Checks /\ exec[e].phase \in {"passed", "failed"}
             /\ \/ runs' = runs /\ exec' = [exec EXCEPT ![e].phase = "rejected"]
                \/ /\ exec' = [exec EXCEPT ![e] = None]
                   /\ Prepared(a) /\ runs[a] \in Run
                   /\ \/ runs' = [runs EXCEPT ![a] = Aborted(runs[a])]
                      \/ /\ runs[a].cases[i] = "started"
                         /\ runs' = [runs EXCEPT ![a] =
                                       [runs[a] EXCEPT !.cases = cases, !.status = Closed(cases)]]
  <1> DEFINE a == exec[e].run
             i == exec[e].index
             cases == [runs[a].cases EXCEPT ![i] = exec[e].phase]
  <1>1. exec[e] \in Execution /\ exec[e].phase \in {"passed", "failed"}
    BY DEF TypeOK, Commit
  <1>2. a \in 1..MaxAgents /\ i \in 1..Checks
    BY <1>1 DEF Execution
  <1>3. CASE ~Committable(e)
    BY <1>1, <1>2, <1>3 DEF Commit
  <1>4. CASE Committable(e)
    <2>1. Prepared(a) /\ runs[a] \in Run
      BY <1>2, <1>4 DEF Committable, Prepared, TypeOK
    <2>2. exec' = [exec EXCEPT ![e] = None]
      BY <1>4 DEF Commit
    <2>3. CASE ~agents[a].late /\ runs[a].cases[i] = "started"
      <3>1. runs' = [runs EXCEPT ![a] =
                       [runs[a] EXCEPT !.cases = cases, !.status = Closed(cases)]]
        BY <1>4, <2>3 DEF Commit
      <3> QED
        BY <1>1, <1>2, <2>1, <2>2, <2>3, <3>1
    <2>4. CASE ~(~agents[a].late /\ runs[a].cases[i] = "started")
      <3>1. runs' = [runs EXCEPT ![a] = Aborted(runs[a])]
        BY <1>4, <2>4 DEF Commit
      <3> QED
        BY <1>1, <1>2, <2>1, <2>2, <3>1
    <2> QED
      BY <2>3, <2>4
  <1> QED
    BY <1>3, <1>4

LEMMA ClosedIs ==
  ASSUME NEW run \in Run, NEW i \in 1..Checks, NEW outcome \in {"passed", "failed"}
  PROVE  LET cases == [run.cases EXCEPT ![i] = outcome]
             next == [run EXCEPT !.cases = cases, !.status = Closed(cases)]
         IN  /\ next \in Run
             /\ next.cases = cases
             /\ next.status = Closed(cases)
             /\ Closed(cases) \in {"failed", "completed", "prepared"}
  <1> DEFINE cases == [run.cases EXCEPT ![i] = outcome]
  <1>1. cases \in [1..Checks -> {"new", "started", "passed", "failed"}]
    BY DEF Run
  <1>2. Closed(cases) \in {"failed", "completed", "prepared"}
    BY DEF Closed
  <1> HIDE DEF cases
  <1> QED
    BY <1>1, <1>2 DEF Run, cases

LEMMA AbortRuns ==
  ASSUME TypeOK, NEW e \in Executors, Abort(e)
  PROVE  /\ exec' = [exec EXCEPT ![e] = None]
         /\ \/ runs' = runs
            \/ \E a \in 1..MaxAgents : Prepared(a) /\ runs' = [runs EXCEPT ![a] = Aborted(runs[a])]
  <1>1. exec[e].run \in 1..MaxAgents
    BY DEF TypeOK, Abort, Execution
  <1> QED
    BY <1>1 DEF Abort

(***************************************************************************)
(* Types.                                                                  *)
(***************************************************************************)
LEMMA TypeInit == Init => TypeOK
  <1> SUFFICES ASSUME Init PROVE TypeOK
    OBVIOUS
  <1>1. agents \in Seq(ReviewerType) /\ Len(agents) <= MaxAgents
    BY ReviewAssumption DEF Init
  <1>2. runs \in [1..MaxAgents -> Run \cup {None}] /\ exec \in [Executors -> Execution \cup {None}]
    BY DEF Init
  <1>3. candidate \in 1..MaxCandidates /\ node6 \in 1..MaxCandidates
    BY ReviewAssumption DEF Init
  <1> QED
    BY <1>1, <1>2, <1>3 DEF TypeOK

LEMMA AgentsTyped == TypeOK /\ [Next]_vars => agents' \in Seq(ReviewerType) /\ Len(agents') <= MaxAgents
  <1> SUFFICES ASSUME TypeOK, [Next]_vars
               PROVE  agents' \in Seq(ReviewerType) /\ Len(agents') <= MaxAgents
    OBVIOUS
  <1>t. agents \in Seq(ReviewerType) /\ Len(agents) <= MaxAgents
    BY DEF TypeOK
  <1>1. ASSUME NEW role \in Roles, NEW chain \in Chains, NEW subject \in 1..node6,
               NEW count \in {0, 1}, NEW pred \in Ids \cup {None},
               Prepare(role, chain, subject, count, pred)
        PROVE  agents' \in Seq(ReviewerType) /\ Len(agents') <= MaxAgents
    BY <1>1, PrepareAppends
  <1>2. ASSUME NEW a \in Ids, CancelPrepare(a)
        PROVE  agents' \in Seq(ReviewerType) /\ Len(agents') <= MaxAgents
    BY <1>t, <1>2, CancelStays DEF Stays
  <1>3. ASSUME NEW a \in Ids, Register(a)
        PROVE  agents' \in Seq(ReviewerType) /\ Len(agents') <= MaxAgents
    BY <1>t, <1>3, RegisterJoins DEF Joins
  <1>4. ASSUME NEW a \in Ids, NEW old \in Ids, Redispatch(old, a)
        PROVE  agents' \in Seq(ReviewerType) /\ Len(agents') <= MaxAgents
    BY <1>t, <1>4, RedispatchJoins DEF Joins
  <1>5. ASSUME NEW a \in Ids, Overdue(a)
        PROVE  agents' \in Seq(ReviewerType) /\ Len(agents') <= MaxAgents
    BY <1>t, <1>5, OverdueStays DEF Stays
  <1>6. ASSUME NEW a \in Ids, NEW status \in {"completed", "lost", Failed},
               NEW verdict \in {"PASS", "FAIL", None}, Finish(a, status, verdict)
        PROVE  agents' \in Seq(ReviewerType) /\ Len(agents') <= MaxAgents
    BY <1>t, <1>6, FinishStays DEF Stays
  <1>7. CASE agents' = agents
    BY <1>t, <1>7
  <1>8. ASSUME NEW a \in Ids, ReplayPrepare(a) \/ \E e \in Executors : Claim(e, a)
        PROVE  agents' = agents
    BY <1>8 DEF ReplayPrepare, Claim
  <1>9. ASSUME NEW e \in Executors,
               \/ \E phase \in {"passed", "failed", "none"} : RunnerEnds(e, phase)
               \/ Commit(e) \/ Abort(e) \/ Crash(e)
        PROVE  agents' = agents
    BY <1>9 DEF RunnerEnds, Commit, Abort, Crash
  <1>10. CASE Edit \/ Accept6 \/ UNCHANGED vars
    BY <1>7, <1>10 DEF Edit, Accept6, vars
  <1> QED
    BY <1>1, <1>2, <1>3, <1>4, <1>5, <1>6, <1>7, <1>8, <1>9, <1>10 DEF Next

LEMMA RunsTyped == TypeOK /\ [Next]_vars => runs' \in [1..MaxAgents -> Run \cup {None}]
  <1> SUFFICES ASSUME TypeOK, [Next]_vars PROVE runs' \in [1..MaxAgents -> Run \cup {None}]
    OBVIOUS
  <1> DEFINE Typed == runs' \in [1..MaxAgents -> Run \cup {None}]
  <1>0. CASE runs' = runs
    BY <1>0 DEF TypeOK
  <1>a. ASSUME NEW a \in 1..MaxAgents, Prepared(a), runs' = [runs EXCEPT ![a] = Aborted(runs[a])]
        PROVE  Typed
    <2>1. Aborted(runs[a]) \in Run
      BY <1>a, PreparedIs, AbortedIs
    <2> QED
      BY <1>a, <2>1, RunChanges
  <1>1. ASSUME NEW a \in Ids, NEW status \in {"completed", "lost", Failed},
               NEW verdict \in {"PASS", "FAIL", None}, Finish(a, status, verdict)
        PROVE  Typed
    <2>1. a \in 1..MaxAgents
      BY IdsInRange
    <2> QED
      BY <1>0, <1>a, <1>1, <2>1, FinishRuns
  <1>2. ASSUME NEW a \in Ids, ReplayPrepare(a) PROVE Typed
    <2>1. a \in 1..MaxAgents
      BY IdsInRange
    <2> QED
      BY <1>2, <2>1, NewRunIs, RunChanges
  <1>3. ASSUME NEW a \in Ids, NEW e \in Executors, Claim(e, a) PROVE Typed
    <2>1. a \in 1..MaxAgents
      BY IdsInRange
    <2>2. Prepared(a) /\ runs[a] \in Run
      BY <1>3, <2>1, ClaimRuns, PreparedIs
    <2>3. ASSUME NEW i \in New(runs[a]),
                 runs' = [runs EXCEPT ![a] = [runs[a] EXCEPT !.cases[i] = "started"]]
          PROVE  Typed
      <3>1. [runs[a] EXCEPT !.cases[i] = "started"] \in Run
        BY <2>2, StartedIs DEF New
      <3> QED
        BY <2>1, <2>3, <3>1, RunChanges
    <2> QED
      BY <1>3, <1>a, <2>1, <2>2, <2>3, ClaimRuns
  <1>4. ASSUME NEW e \in Executors, Commit(e) PROVE Typed
    <2> DEFINE a == exec[e].run
               i == exec[e].index
               cases == [runs[a].cases EXCEPT ![i] = exec[e].phase]
    <2>1. a \in 1..MaxAgents /\ i \in 1..Checks /\ exec[e].phase \in {"passed", "failed"}
      BY <1>4, CommitRuns
    <2>2. ASSUME Prepared(a), runs[a] \in Run,
                 runs' = [runs EXCEPT ![a] = [runs[a] EXCEPT !.cases = cases, !.status = Closed(cases)]]
          PROVE  Typed
      <3>1. [runs[a] EXCEPT !.cases = cases, !.status = Closed(cases)] \in Run
        BY <2>1, <2>2, ClosedIs
      <3> QED
        BY <2>1, <2>2, <3>1, RunChanges
    <2> QED
      BY <1>0, <1>4, <1>a, <2>1, <2>2, CommitRuns
  <1>5. ASSUME NEW e \in Executors, Abort(e) PROVE Typed
    BY <1>0, <1>5, <1>a, AbortRuns
  <1>6. ASSUME NEW role \in Roles, NEW chain \in Chains, NEW subject \in 1..node6,
               NEW count \in {0, 1}, NEW pred \in Ids \cup {None},
               Prepare(role, chain, subject, count, pred)
        PROVE  Typed
    BY <1>0, <1>6 DEF Prepare
  <1>7. ASSUME NEW a \in Ids, \/ CancelPrepare(a) \/ Register(a) \/ Overdue(a)
                              \/ \E old \in Ids : Redispatch(old, a)
        PROVE  Typed
    BY <1>0, <1>7 DEF CancelPrepare, Register, Overdue, Redispatch
  <1>8. ASSUME NEW e \in Executors,
               Crash(e) \/ \E phase \in {"passed", "failed", "none"} : RunnerEnds(e, phase)
        PROVE  Typed
    BY <1>0, <1>8 DEF RunnerEnds, Crash
  <1>9. CASE Edit \/ Accept6 \/ UNCHANGED vars
    BY <1>0, <1>9 DEF Edit, Accept6, vars
  <1> QED
    BY <1>1, <1>2, <1>3, <1>4, <1>5, <1>6, <1>7, <1>8, <1>9 DEF Next

LEMMA ExecTyped == TypeOK /\ [Next]_vars => exec' \in [Executors -> Execution \cup {None}]
  <1> SUFFICES ASSUME TypeOK, [Next]_vars PROVE exec' \in [Executors -> Execution \cup {None}]
    OBVIOUS
  <1> DEFINE Typed == exec' \in [Executors -> Execution \cup {None}]
  <1>t. exec \in [Executors -> Execution \cup {None}]
    BY DEF TypeOK
  <1>0. CASE exec' = exec
    BY <1>0, <1>t
  <1>a. ASSUME NEW e \in Executors, exec' = [exec EXCEPT ![e] = None] PROVE Typed
    BY <1>t, <1>a
  <1>b. ASSUME NEW e \in Executors, exec[e] \in Execution,
               NEW phase \in {"running", "passed", "failed", "none", "rejected"},
               exec' = [exec EXCEPT ![e].phase = phase]
        PROVE  Typed
    <2>1. [exec[e] EXCEPT !.phase = phase] \in Execution
      BY <1>b DEF Execution
    <2>2. exec' = [exec EXCEPT ![e] = [exec[e] EXCEPT !.phase = phase]]
      BY <1>b
    <2> QED
      BY <1>t, <2>1, <2>2
  <1>1. ASSUME NEW a \in Ids, NEW e \in Executors, Claim(e, a) PROVE Typed
    <2>1. a \in 1..MaxAgents
      BY IdsInRange
    <2>2. ASSUME NEW i \in New(runs[a]),
                 exec' = [exec EXCEPT ![e] = [run |-> a, index |-> i, phase |-> "running"]]
          PROVE  Typed
      <3>1. [run |-> a, index |-> i, phase |-> "running"] \in Execution
        BY <2>1 DEF New, Execution
      <3> QED
        BY <1>t, <2>2, <3>1
    <2> QED
      BY <1>0, <1>1, <2>2, ClaimRuns
  <1>2. ASSUME NEW e \in Executors, Commit(e) PROVE Typed
    BY <1>2, <1>a, <1>b, CommitRuns
  <1>3. ASSUME NEW e \in Executors, Abort(e) \/ Crash(e) PROVE Typed
    BY <1>3, <1>a DEF Abort, Crash
  <1>4. ASSUME NEW e \in Executors, NEW phase \in {"passed", "failed", "none"}, RunnerEnds(e, phase)
        PROVE  Typed
    <2>1. exec[e] \in Execution
      BY <1>t, <1>4 DEF RunnerEnds
    <2> QED
      BY <1>4, <1>b, <2>1 DEF RunnerEnds
  <1>5. ASSUME NEW role \in Roles, NEW chain \in Chains, NEW subject \in 1..node6,
               NEW count \in {0, 1}, NEW pred \in Ids \cup {None},
               Prepare(role, chain, subject, count, pred)
        PROVE  Typed
    BY <1>0, <1>5 DEF Prepare
  <1>6. ASSUME NEW a \in Ids,
               \/ CancelPrepare(a) \/ Register(a) \/ Overdue(a) \/ ReplayPrepare(a)
               \/ \E old \in Ids : Redispatch(old, a)
               \/ \E status \in {"completed", "lost", Failed}, verdict \in {"PASS", "FAIL", None} :
                     Finish(a, status, verdict)
        PROVE  Typed
    BY <1>0, <1>6 DEF CancelPrepare, Register, Overdue, Redispatch, ReplayPrepare, Finish
  <1>7. CASE Edit \/ Accept6 \/ UNCHANGED vars
    BY <1>0, <1>7 DEF Edit, Accept6, vars
  <1> QED
    BY <1>1, <1>2, <1>3, <1>4, <1>5, <1>6, <1>7 DEF Next

LEMMA TreeTyped ==
  TypeOK /\ [Next]_vars => candidate' \in 1..MaxCandidates /\ node6' \in 1..MaxCandidates
  <1> SUFFICES ASSUME TypeOK, [Next]_vars
               PROVE  candidate' \in 1..MaxCandidates /\ node6' \in 1..MaxCandidates
    OBVIOUS
  <1>t. candidate \in 1..MaxCandidates /\ node6 \in 1..MaxCandidates
    BY DEF TypeOK
  <1>1. CASE Edit
    BY <1>1, <1>t, ReviewAssumption DEF Edit
  <1>2. CASE Accept6
    BY <1>2, <1>t DEF Accept6
  <1>3. CASE UNCHANGED <<candidate, node6>>
    BY <1>3, <1>t
  <1>4. CASE ~Edit /\ ~Accept6
    BY <1>3, <1>4 DEF Next, vars, Prepare, CancelPrepare, Register, Redispatch, Overdue, Finish,
                      ReplayPrepare, Claim, RunnerEnds, Commit, Abort, Crash
  <1> QED
    BY <1>1, <1>2, <1>4

LEMMA TypeStep == TypeOK /\ [Next]_vars => TypeOK'
  BY AgentsTyped, RunsTyped, ExecTyped, TreeTyped DEF TypeOK

(***************************************************************************)
(* The review chain.  Every step either leaves the reviewers alone, or     *)
(* prepares one, lets one join, or ends or cancels one.                    *)
(***************************************************************************)
\* A reviewer that is no longer active, or was cancelled, keeps what it is.
Settles(a) ==
    /\ Stays(a)
    /\ agents'[a].prep = agents[a].prep \/ (agents[a].prep = "pending" /\ agents'[a].prep = "cancelled")
    /\ agents[a].status # "active" =>
          agents'[a].status = agents[a].status /\ agents'[a].verdict = agents[a].verdict
    /\ agents'[a].verdict \in {"PASS", "FAIL"} =>
          \/ agents'[a].prep = "consumed" /\ agents'[a].status = "completed"
          \/ agents'[a].status = agents[a].status /\ agents'[a].verdict = agents[a].verdict

Prepares ==
    \E r \in ReviewerType :
        /\ Len(agents') = Len(agents) + 1
        /\ agents'[Len(agents) + 1] = r
        /\ \A b \in Ids : agents'[b] = agents[b]
        /\ r.prep = "pending" /\ r.verdict = None
        /\ ChainsOf(r.subject) \subseteq {r.chain}

MayJoin(a) ==
    /\ agents[a].prep = "pending"
    /\ MayReview(agents[a])
    /\ Joins(a)

LEMMA StepIs ==
  ASSUME TypeOK, [Next]_vars
  PROVE  \/ agents' = agents
         \/ Prepares
         \/ \E a \in Ids : MayJoin(a)
         \/ \E a \in Ids : Settles(a)
  <1> DEFINE Goal == \/ agents' = agents
                     \/ Prepares
                     \/ \E a \in Ids : MayJoin(a)
                     \/ \E a \in Ids : Settles(a)
  <1>1. ASSUME NEW role \in Roles, NEW chain \in Chains, NEW subject \in 1..node6,
               NEW count \in {0, 1}, NEW pred \in Ids \cup {None},
               Prepare(role, chain, subject, count, pred)
        PROVE  Goal
    <2> DEFINE r == Reviewer(role, chain, subject, count, pred)
    <2>1. r.prep = "pending" /\ r.verdict = None /\ r.subject = subject /\ r.chain = chain
      BY DEF Reviewer
    <2>2. ChainsOf(r.subject) \subseteq {r.chain}
      BY <1>1, <2>1 DEF Prepare
    <2>3. /\ r \in ReviewerType
          /\ Len(agents') = Len(agents) + 1
          /\ agents'[Len(agents) + 1] = r
          /\ \A b \in Ids : agents'[b] = agents[b]
      BY <1>1, PrepareAppends
    <2> HIDE DEF r
    <2> QED
      BY <2>1, <2>2, <2>3 DEF Prepares
  <1>2. ASSUME NEW a \in Ids, CancelPrepare(a) PROVE Goal
    BY <1>2, CancelStays DEF Settles
  <1>3. ASSUME NEW a \in Ids, Register(a) PROVE Goal
    BY <1>3, RegisterJoins DEF MayJoin, Register, Pending, MayStillReview
  <1>4. ASSUME NEW a \in Ids, NEW old \in Ids, Redispatch(old, a) PROVE Goal
    BY <1>4, RedispatchJoins DEF MayJoin, Redispatch, Pending, MayStillReview
  <1>5. ASSUME NEW a \in Ids, Overdue(a) PROVE Goal
    BY <1>5, OverdueStays DEF Settles
  <1>6. ASSUME NEW a \in Ids, NEW status \in {"completed", "lost", Failed},
               NEW verdict \in {"PASS", "FAIL", None}, Finish(a, status, verdict)
        PROVE  Goal
    <2>1. status # "completed" => verdict = None
      BY <1>6 DEF Finish
    <2>2. agents[a].prep = "consumed"
      BY <1>6 DEF Finish, Active, Members
    <2> QED
      BY <1>6, <2>1, <2>2, FinishStays, ReviewAssumption DEF Settles
  <1>7. ASSUME NEW a \in Ids, ReplayPrepare(a) \/ \E e \in Executors : Claim(e, a)
        PROVE  Goal
    BY <1>7 DEF ReplayPrepare, Claim
  <1>8. ASSUME NEW e \in Executors,
               \/ \E phase \in {"passed", "failed", "none"} : RunnerEnds(e, phase)
               \/ Commit(e) \/ Abort(e) \/ Crash(e)
        PROVE  Goal
    BY <1>8 DEF RunnerEnds, Commit, Abort, Crash
  <1>9. CASE Edit \/ Accept6 \/ UNCHANGED vars
    BY <1>9 DEF Edit, Accept6, vars
  <1> QED
    BY <1>1, <1>2, <1>3, <1>4, <1>5, <1>6, <1>7, <1>8, <1>9 DEF Next

LEMMA IdsGrow ==
  ASSUME TypeOK
  PROVE  /\ Prepares => Ids' = Ids \cup {Len(agents) + 1} /\ Len(agents) + 1 \notin Ids
         /\ \A a \in Ids : Joins(a) \/ Stays(a) => Ids' = Ids
  <1>1. Len(agents) \in Nat
    BY DEF TypeOK
  <1> QED
    BY <1>1 DEF Prepares, Joins, Stays, Ids

LEMMA VerdictsStep == TypeOK /\ VerdictsKept /\ [Next]_vars => VerdictsKept'
  <1> SUFFICES ASSUME TypeOK, VerdictsKept, [Next]_vars, NEW b \in Ids',
                      agents'[b].verdict \in {"PASS", "FAIL"}
               PROVE  agents'[b].prep = "consumed" /\ agents'[b].status = "completed"
    BY DEF VerdictsKept
  <1> DEFINE Goal == agents'[b].prep = "consumed" /\ agents'[b].status = "completed"
  <1>1. CASE agents' = agents
    BY <1>1 DEF VerdictsKept, Ids
  <1>2. CASE Prepares
    BY <1>2, IdsGrow, ReviewAssumption DEF VerdictsKept, Prepares
  <1>3. ASSUME NEW a \in Ids, MayJoin(a) PROVE Goal
    <2>1. b \in Ids
      BY <1>3, IdsGrow DEF MayJoin
    <2>2. /\ agents[b].prep = "consumed" /\ agents[b].status = "completed"
          /\ agents[b].verdict = agents'[b].verdict
      BY <1>3, <2>1 DEF MayJoin, Joins, VerdictsKept
    <2>3. b # a
      BY <1>3, <2>2 DEF MayJoin
    <2> QED
      BY <1>3, <2>1, <2>2, <2>3 DEF MayJoin, Joins
  <1>4. ASSUME NEW a \in Ids, Settles(a) PROVE Goal
    <2>1. b \in Ids
      BY <1>4, IdsGrow DEF Settles
    <2> QED
      BY <1>4, <2>1 DEF Settles, Stays, VerdictsKept
  <1> QED
    BY <1>1, <1>2, <1>3, <1>4, StepIs

\* What Passed means of the two roles that have a successor: nothing of the tree.
Passes(b, chain, role) ==
    /\ agents[b].prep = "consumed"
    /\ agents[b].chain = chain /\ agents[b].role = role
    /\ agents[b].status = "completed" /\ agents[b].verdict = "PASS"

LEMMA PassedIs ==
  ASSUME NEW chain, NEW role \in {"adversarial", "cross"}
  PROVE  /\ Passed(chain, role) = {b \in Ids : Passes(b, chain, role)}
         /\ Passed(chain, role)' = {b \in Ids : Passes(b, chain, role)}'
  BY DEF Passed, Attempts, Members, Committed, Passes

\* A reviewer that passed goes on having passed.
LEMMA PassesOn ==
  ASSUME TypeOK, VerdictsKept, [Next]_vars, NEW b \in Ids, NEW chain, NEW role,
         Passes(b, chain, role)
  PROVE  b \in Ids' /\ Passes(b, chain, role)' /\ agents'[b].pred = agents[b].pred
  <1> DEFINE Goal == b \in Ids' /\ Passes(b, chain, role)' /\ agents'[b].pred = agents[b].pred
  <1>1. CASE agents' = agents
    BY <1>1 DEF Passes, Ids
  <1>2. CASE Prepares
    BY <1>2, IdsGrow DEF Passes, Prepares
  <1>3. ASSUME NEW a \in Ids, MayJoin(a) PROVE Goal
    <2>1. b \in Ids' /\ b # a
      BY <1>3, IdsGrow DEF MayJoin, Passes
    <2> QED
      BY <1>3, <2>1 DEF MayJoin, Joins, Frame, Passes
  <1>4. ASSUME NEW a \in Ids, Settles(a) PROVE Goal
    <2>1. b \in Ids' /\ Frame(b)
      BY <1>4, IdsGrow DEF Settles, Stays
    <2>2. CASE b = a
      BY <1>4, <2>1, <2>2 DEF Settles, Frame, Passes
    <2>3. CASE b # a
      BY <1>4, <2>1, <2>3 DEF Settles, Stays, Passes
    <2> QED
      BY <2>2, <2>3
  <1> QED
    BY <1>1, <1>2, <1>3, <1>4, StepIs

\* A member was one before, or joins now.
LEMMA MemberWas ==
  ASSUME TypeOK, [Next]_vars, NEW b \in Members'
  PROVE  /\ b \in Ids
         /\ Frame(b)
         /\ b \in Members \/ MayJoin(b)
  <1> DEFINE Goal == b \in Ids /\ Frame(b) /\ (b \in Members \/ MayJoin(b))
  <1>b. b \in Ids' /\ agents'[b].prep = "consumed"
    BY DEF Members
  <1>1. CASE agents' = agents
    BY <1>1 DEF Members, Ids, Frame
  <1>2. CASE Prepares
    BY <1>2, <1>b, IdsGrow DEF Prepares, Members, Frame
  <1>3. ASSUME NEW a \in Ids, MayJoin(a) PROVE Goal
    <2>1. b \in Ids
      BY <1>3, <1>b, IdsGrow DEF MayJoin
    <2>2. CASE b = a
      BY <1>3, <2>1, <2>2 DEF MayJoin, Joins
    <2>3. CASE b # a
      BY <1>3, <1>b, <2>1, <2>3 DEF MayJoin, Joins, Members
    <2> QED
      BY <2>2, <2>3
  <1>4. ASSUME NEW a \in Ids, Settles(a) PROVE Goal
    <2>1. b \in Ids
      BY <1>4, <1>b, IdsGrow DEF Settles
    <2> QED
      BY <1>4, <1>b, <2>1 DEF Settles, Stays, Members
  <1> QED
    BY <1>1, <1>2, <1>3, <1>4, StepIs

\* A member that is no longer active keeps its status and verdict.
LEMMA QuietKept ==
  ASSUME TypeOK, [Next]_vars, NEW b \in Members, agents[b].status # "active"
  PROVE  agents'[b].status = agents[b].status /\ agents'[b].verdict = agents[b].verdict
  <1>b. b \in Ids /\ agents[b].prep = "consumed"
    BY DEF Members
  <1>1. CASE agents' = agents
    BY <1>1
  <1>2. CASE Prepares
    BY <1>2, <1>b DEF Prepares
  <1>3. ASSUME NEW a \in Ids, MayJoin(a)
        PROVE  agents'[b].status = agents[b].status /\ agents'[b].verdict = agents[b].verdict
    BY <1>3, <1>b DEF MayJoin, Joins
  <1>4. ASSUME NEW a \in Ids, Settles(a)
        PROVE  agents'[b].status = agents[b].status /\ agents'[b].verdict = agents[b].verdict
    BY <1>4, <1>b DEF Settles, Stays
  <1> QED
    BY <1>1, <1>2, <1>3, <1>4, StepIs

LEMMA OneChainStep == TypeOK /\ OneChain /\ [Next]_vars => OneChain'
  <1> SUFFICES ASSUME TypeOK, OneChain, [Next]_vars, NEW a \in Ids', NEW b \in Ids',
                      agents'[a].subject = agents'[b].subject,
                      agents'[a].prep # "cancelled", agents'[b].prep # "cancelled"
               PROVE  agents'[a].chain = agents'[b].chain
    BY DEF OneChain
  <1>1. CASE agents' = agents
    BY <1>1 DEF OneChain, Ids
  <1>2. CASE Prepares
    <2>1. PICK r \in ReviewerType :
             /\ Len(agents') = Len(agents) + 1
             /\ agents'[Len(agents) + 1] = r
             /\ \A c \in Ids : agents'[c] = agents[c]
             /\ ChainsOf(r.subject) \subseteq {r.chain}
      BY <1>2 DEF Prepares
    <2>2. Ids' = Ids \cup {Len(agents) + 1}
      BY <1>2, IdsGrow
    <2>3. \A c \in Ids : agents[c].subject = r.subject /\ agents[c].prep # "cancelled"
                            => agents[c].chain = r.chain
      BY <2>1 DEF ChainsOf
    <2>4. CASE a \in Ids /\ b \in Ids
      BY <2>1, <2>4 DEF OneChain
    <2>5. CASE a \in Ids /\ b \notin Ids
      BY <2>1, <2>2, <2>3, <2>5
    <2>6. CASE a \notin Ids /\ b \in Ids
      BY <2>1, <2>2, <2>3, <2>6
    <2>7. CASE a \notin Ids /\ b \notin Ids
      BY <2>2, <2>7
    <2> QED
      BY <2>4, <2>5, <2>6, <2>7
  <1>3. ASSUME NEW c \in Ids, MayJoin(c) PROVE agents'[a].chain = agents'[b].chain
    <2>1. a \in Ids /\ b \in Ids
      BY <1>3, IdsGrow DEF MayJoin
    <2>2. \A d \in Ids : agents'[d].prep # "cancelled" => agents[d].prep # "cancelled"
      BY <1>3 DEF MayJoin, Joins
    <2>3. \A d \in Ids : agents'[d].subject = agents[d].subject /\ agents'[d].chain = agents[d].chain
      BY <1>3 DEF MayJoin, Joins, Frame
    <2> QED
      BY <2>1, <2>2, <2>3 DEF OneChain
  <1>4. ASSUME NEW c \in Ids, Settles(c) PROVE agents'[a].chain = agents'[b].chain
    <2>1. a \in Ids /\ b \in Ids
      BY <1>4, IdsGrow DEF Settles
    <2>2. \A d \in Ids : agents'[d].prep # "cancelled" => agents[d].prep # "cancelled"
      BY <1>4 DEF Settles, Stays
    <2>3. \A d \in Ids : agents'[d].subject = agents[d].subject /\ agents'[d].chain = agents[d].chain
      BY <1>4 DEF Settles, Stays, Frame
    <2> QED
      BY <2>1, <2>2, <2>3 DEF OneChain
  <1> QED
    BY <1>1, <1>2, <1>3, <1>4, StepIs

\* What the chain says of a member b and a reviewer a that joins it.
LEMMA JoinsAfter ==
  ASSUME TypeOK, VerdictsKept, NEW a \in Ids, MayJoin(a), NEW b \in Members,
         agents[a].chain = agents[b].chain
  PROVE  /\ agents[a].subject = agents[b].subject
         /\ agents[a].role = agents[b].role =>
               /\ agents[a].count # 0 /\ agents[b].count = 0
               /\ agents[b].status \in {"completed", Failed} /\ agents[b].verdict # "PASS"
  <1>1. MayReview(agents[a])
    BY DEF MayJoin
  <1>2. agents[a].subject = agents[b].subject
    BY <1>1 DEF MayReview
  <1>3. ASSUME agents[a].role = agents[b].role
        PROVE  /\ agents[a].count # 0 /\ agents[b].count = 0
               /\ agents[b].status \in {"completed", Failed} /\ agents[b].verdict # "PASS"
    <2>1. b \in Attempts(agents[a].chain, agents[a].role)
      BY <1>3 DEF Attempts
    <2>2. agents[a].count # 0
      BY <1>1, <2>1 DEF MayReview
    <2>3. Retryable(b) /\ agents[b].count = 0
      BY <1>1, <2>1, <2>2 DEF MayReview
    <2>4. agents[b].status = Failed => agents[b].verdict # "PASS"
      BY DEF VerdictsKept, Members, Failed
    <2> QED
      BY <2>2, <2>3, <2>4 DEF Retryable, Committed
  <1> QED
    BY <1>2, <1>3

LEMMA RetriedOnceStep ==
  TypeOK /\ VerdictsKept /\ RetriedOnce /\ [Next]_vars => RetriedOnce'
  <1> SUFFICES ASSUME TypeOK, VerdictsKept, RetriedOnce, [Next]_vars,
                      NEW a \in Members', NEW b \in Members', agents'[a].chain = agents'[b].chain
               PROVE  /\ agents'[a].subject = agents'[b].subject
                      /\ a # b /\ agents'[a].role = agents'[b].role =>
                            /\ agents'[a].count # agents'[b].count
                            /\ agents'[a].count = 0 =>
                                  /\ agents'[a].status \in {"completed", Failed}
                                  /\ agents'[a].verdict # "PASS"
    BY DEF RetriedOnce
  <1>a. a \in Ids /\ Frame(a) /\ (a \in Members \/ MayJoin(a))
    BY MemberWas
  <1>b. b \in Ids /\ Frame(b) /\ (b \in Members \/ MayJoin(b))
    BY MemberWas
  <1>c. /\ agents[a].chain = agents[b].chain
        /\ agents'[a].subject = agents[a].subject /\ agents'[b].subject = agents[b].subject
        /\ agents'[a].role = agents[a].role /\ agents'[b].role = agents[b].role
        /\ agents'[a].count = agents[a].count /\ agents'[b].count = agents[b].count
    BY <1>a, <1>b DEF Frame
  <1>1. CASE a \in Members /\ b \in Members
    <2>1. /\ agents[a].subject = agents[b].subject
          /\ a # b /\ agents[a].role = agents[b].role =>
                /\ agents[a].count # agents[b].count
                /\ agents[a].count = 0 =>
                      agents[a].status \in {"completed", Failed} /\ agents[a].verdict # "PASS"
      BY <1>1, <1>c DEF RetriedOnce
    <2>2. agents[a].status \in {"completed", Failed} =>
             agents'[a].status = agents[a].status /\ agents'[a].verdict = agents[a].verdict
      BY <1>1, QuietKept DEF Failed
    <2> QED
      BY <1>c, <2>1, <2>2
  <1>2. CASE a \in Ids /\ MayJoin(a) /\ b \in Members
    BY <1>2, <1>c, JoinsAfter
  <1>3. CASE a \in Members /\ b \in Ids /\ MayJoin(b)
    <2>1. /\ agents[b].subject = agents[a].subject
          /\ agents[b].role = agents[a].role =>
                /\ agents[b].count # 0 /\ agents[a].count = 0
                /\ agents[a].status \in {"completed", Failed} /\ agents[a].verdict # "PASS"
      BY <1>3, <1>c, JoinsAfter
    <2>2. agents[a].status \in {"completed", Failed} =>
             agents'[a].status = agents[a].status /\ agents'[a].verdict = agents[a].verdict
      BY <1>3, QuietKept DEF Failed
    <2> QED
      BY <1>c, <2>1, <2>2
  <1>4. CASE a \in Ids /\ b \in Ids /\ MayJoin(a) /\ MayJoin(b)
    <2>1. a # b => agents'[b].prep = agents[b].prep
      BY <1>4 DEF MayJoin, Joins
    <2>2. agents'[b].prep = "consumed" /\ agents[b].prep = "pending"
      BY <1>4 DEF MayJoin, Joins
    <2> QED
      BY <2>1, <2>2
  <1> QED
    BY <1>a, <1>b, <1>1, <1>2, <1>3, <1>4

\* The clause of PredecessorPassed about one reviewer, by names that do not change.
LEMMA PassedNow ==
  ASSUME NEW a, NEW chain, NEW role \in {"adversarial", "cross"}, NEW q,
         agents'[a].chain = chain, Predecessor(agents'[a].role) = role,
         q \in Ids', Passes(q, chain, role)'
  PROVE  q \in Passed(agents[a].chain, Predecessor(agents[a].role))'
  <1>1. q \in Passed(chain, role)'
    BY PassedIs
  <1>2. Predecessor(agents[a].role)' = role
    BY DEF Predecessor
  <1> QED
    BY <1>1, <1>2 DEF Passed, Attempts, Members, Committed

LEMMA PredecessorStep ==
  TypeOK /\ VerdictsKept /\ PredecessorPassed /\ [Next]_vars => PredecessorPassed'
  <1> SUFFICES ASSUME TypeOK, VerdictsKept, PredecessorPassed, [Next]_vars,
                      NEW a \in Members', agents'[a].role # "adversarial"
               PROVE  /\ agents'[a].pred \in Passed(agents[a].chain, Predecessor(agents[a].role))'
                      /\ agents'[a].role = "integrator" =>
                            agents'[agents'[a].pred].pred \in Passed(agents[a].chain, "adversarial")'
    BY DEF PredecessorPassed
  <1>a. a \in Ids /\ Frame(a) /\ (a \in Members \/ MayJoin(a))
    BY MemberWas
  <1>c. PICK chain, role, p :
           /\ chain = agents[a].chain /\ role = Predecessor(agents[a].role) /\ p = agents[a].pred
    OBVIOUS
  <1>f. /\ agents'[a].chain = chain /\ agents'[a].role = agents[a].role /\ agents'[a].pred = p
        /\ Predecessor(agents'[a].role) = role
    BY <1>a, <1>c DEF Frame, Predecessor
  <1>r. role \in {"adversarial", "cross"}
    BY <1>c DEF Predecessor
  <1>1. p \in Passed(chain, role)
        /\ (agents[a].role = "integrator" => agents[p].pred \in Passed(chain, "adversarial"))
    <2>1. CASE a \in Members
      BY <1>c, <1>f, <2>1 DEF PredecessorPassed
    <2>2. CASE MayJoin(a)
      <3>1. MayReview(agents[a])
        BY <2>2 DEF MayJoin
      <3>2. Passed(chain, role) = {p}
        BY <1>c, <1>f, <3>1 DEF MayReview
      <3>3. agents[a].role = "integrator" => Passed(chain, "adversarial") = {agents[p].pred}
        BY <1>c, <3>1 DEF MayReview
      <3> QED
        BY <3>2, <3>3
    <2> QED
      BY <1>a, <2>1, <2>2
  <1>2. p \in Ids' /\ Passes(p, chain, role)' /\ agents'[p].pred = agents[p].pred
    <2>1. p \in Ids /\ Passes(p, chain, role)
      BY <1>1, <1>r, PassedIs
    <2> QED
      BY <2>1, PassesOn
  <1>3. p \in Passed(agents[a].chain, Predecessor(agents[a].role))'
    BY <1>f, <1>r, <1>2, PassedNow
  <1>4. ASSUME agents'[a].role = "integrator"
        PROVE  agents'[agents'[a].pred].pred \in Passed(agents[a].chain, "adversarial")'
    <2>1. PICK q : q = agents[p].pred
      OBVIOUS
    <2>2. q \in Ids /\ Passes(q, chain, "adversarial")
      BY <1>1, <1>4, <1>f, <2>1, PassedIs
    <2>3. q \in Ids' /\ Passes(q, chain, "adversarial")'
      BY <2>2, PassesOn
    <2>4. q \in Passed(chain, "adversarial")'
      BY <2>3, PassedIs
    <2>5. agents'[agents'[a].pred].pred = q
      BY <1>2, <1>f, <2>1
    <2> QED
      BY <1>f, <2>4, <2>5 DEF Passed, Attempts, Members, Committed
  <1> QED
    BY <1>3, <1>4, <1>f

(***************************************************************************)
(* The replay.                                                             *)
(***************************************************************************)
LEMMA AbortedInOrder ==
  ASSUME NEW run \in Run, run.status = "prepared", InOrder(run)
  PROVE  InOrder(Aborted(run))
  <1>1. /\ Aborted(run).status = "aborted"
        /\ Aborted(run).cases = run.cases
    BY AbortedIs
  <1> QED
    BY <1>1 DEF InOrder

LEMMA NewInOrder ==
  ASSUME NEW run, run.status = "prepared", run.cases = [i \in 1..Checks |-> "new"]
  PROVE  InOrder(run)
  BY ReviewAssumption DEF InOrder

LEMMA StartedInOrder ==
  ASSUME NEW run \in Run, run.status = "prepared", InOrder(run), ~Orphaned(run),
         NEW i \in New(run), \A j \in New(run) : i <= j
  PROVE  InOrder([run EXCEPT !.cases[i] = "started"])
  <1> DEFINE next == [run EXCEPT !.cases[i] = "started"]
  <1>1. i \in 1..Checks /\ run.cases[i] = "new"
    BY DEF New
  <1>2. next.status = "prepared" /\ next.cases = [run.cases EXCEPT ![i] = "started"]
    BY <1>1, StartedIs
  <1>3. run.cases \in [1..Checks -> {"new", "started", "passed", "failed"}]
    BY DEF Run
  <1>4. \A j \in 1..Checks : next.cases[j] = IF j = i THEN "started" ELSE run.cases[j]
    BY <1>1, <1>2, <1>3
  <1>5. \A j \in 1..Checks : run.cases[j] \notin {"started", "failed"}
    BY <1>3 DEF Orphaned, Started, InOrder
  <1>6. \A j \in 1..Checks : j < i => run.cases[j] = "passed"
    BY <1>1, <1>3, <1>5, ReviewAssumption DEF New
  <1>7. \A j \in 1..Checks : i < j => run.cases[j] = "new"
    BY <1>1 DEF InOrder
  <1> HIDE DEF next
  <1>8. ASSUME NEW j \in 1..Checks, NEW k \in 1..Checks, j < k, next.cases[k] # "new"
        PROVE  next.cases[j] = "passed"
    <2>1. CASE k = i
      BY <1>4, <1>6, <1>8, <2>1
    <2>2. CASE k # i
      <3>1. run.cases[k] # "new"
        BY <1>4, <1>8, <2>2
      <3>2. k < i
        BY <1>1, <1>7, <2>2, <3>1
      <3> QED
        BY <1>1, <1>4, <1>6, <1>8, <3>2
    <2> QED
      BY <2>1, <2>2
  <1>9. next.cases[i] = "started"
    BY <1>1, <1>4
  <1>10. \A j \in 1..Checks : next.cases[j] # "failed"
    BY <1>4, <1>5
  <1> QED
    BY <1>1, <1>2, <1>8, <1>9, <1>10 DEF InOrder, next

LEMMA ClosedInOrder ==
  ASSUME NEW run \in Run, run.status = "prepared", InOrder(run),
         NEW i \in 1..Checks, run.cases[i] = "started", NEW outcome \in {"passed", "failed"}
  PROVE  LET cases == [run.cases EXCEPT ![i] = outcome]
         IN  InOrder([run EXCEPT !.cases = cases, !.status = Closed(cases)])
  <1> DEFINE cases == [run.cases EXCEPT ![i] = outcome]
             next == [run EXCEPT !.cases = cases, !.status = Closed(cases)]
  <1>1. next.cases = cases /\ next.status = Closed(cases)
    BY ClosedIs
  <1>2. run.cases \in [1..Checks -> {"new", "started", "passed", "failed"}]
    BY DEF Run
  <1>3. \A j \in 1..Checks : cases[j] = IF j = i THEN outcome ELSE run.cases[j]
    BY <1>2
  <1>4. \A j \in 1..Checks : run.cases[j] # "failed"
    BY DEF InOrder
  <1> HIDE DEF cases, next
  <1>5. ASSUME NEW j \in 1..Checks, NEW k \in 1..Checks, j < k, cases[k] # "new"
        PROVE  cases[j] = "passed"
    <2>1. run.cases[k] # "new"
      BY <1>3, <1>5
    <2>2. run.cases[j] = "passed"
      BY <1>5, <2>1 DEF InOrder
    <2>3. j # i
      BY <2>2
    <2> QED
      BY <1>3, <2>2, <2>3
  <1>6. Closed(cases) = "failed" <=> \E j \in 1..Checks : cases[j] = "failed"
    BY DEF Closed
  <1>7. Closed(cases) = "completed" <=> \A j \in 1..Checks : cases[j] = "passed"
    BY ReviewAssumption DEF Closed
  <1>8. InOrder(next)
    BY <1>1, <1>5, <1>6, <1>7 DEF InOrder
  <1> QED
    BY <1>8 DEF next, cases

\* Every step but the end of a reviewer leaves the members what they are to a run.
LEMMA OwnerKept ==
  ASSUME TypeOK, [Next]_vars, NEW b \in Members,
         \A a \in Ids, status \in {"completed", "lost", Failed}, verdict \in {"PASS", "FAIL", None} :
            ~Finish(a, status, verdict)
  PROVE  /\ b \in Members'
         /\ agents'[b].role = agents[b].role /\ agents'[b].status = agents[b].status
  <1> DEFINE Goal == /\ b \in Members'
                     /\ agents'[b].role = agents[b].role /\ agents'[b].status = agents[b].status
  <1>b. b \in Ids /\ agents[b].prep = "consumed"
    BY DEF Members
  <1>0. CASE agents' = agents
    BY <1>0 DEF Members, Ids
  <1>2. ASSUME NEW a \in Ids, Register(a) \/ \E old \in Ids : Redispatch(old, a) PROVE Goal
    <2>1. Joins(a) /\ agents[a].prep = "pending"
      BY <1>2, RegisterJoins, RedispatchJoins DEF Register, Redispatch, Pending
    <2> QED
      BY <1>b, <2>1, IdsGrow DEF Joins, Frame, Members
  <1>3. ASSUME NEW a \in Ids, CancelPrepare(a) \/ Overdue(a) PROVE Goal
    <2>1. /\ Stays(a) /\ agents'[a].status = agents[a].status
          /\ agents[a].prep = "consumed" => agents'[a].prep = "consumed"
      BY <1>3, CancelStays, OverdueStays
    <2> QED
      BY <1>b, <2>1, IdsGrow DEF Stays, Frame, Members
  <1>4. ASSUME NEW role \in Roles, NEW chain \in Chains, NEW subject \in 1..node6,
               NEW count \in {0, 1}, NEW pred \in Ids \cup {None},
               Prepare(role, chain, subject, count, pred)
        PROVE  Goal
    <2>1. Len(agents') = Len(agents) + 1 /\ \A c \in Ids : agents'[c] = agents[c]
      BY <1>4, PrepareAppends
    <2>2. Len(agents) \in Nat
      BY DEF TypeOK
    <2> QED
      BY <1>b, <2>1, <2>2 DEF Members, Ids
  <1>5. ASSUME NEW a \in Ids, ReplayPrepare(a) \/ \E e \in Executors : Claim(e, a)
        PROVE  Goal
    BY <1>0, <1>5 DEF ReplayPrepare, Claim
  <1>6. ASSUME NEW e \in Executors,
               \/ \E phase \in {"passed", "failed", "none"} : RunnerEnds(e, phase)
               \/ Commit(e) \/ Abort(e) \/ Crash(e)
        PROVE  Goal
    BY <1>0, <1>6 DEF RunnerEnds, Commit, Abort, Crash
  <1>7. CASE Edit \/ Accept6 \/ UNCHANGED vars
    BY <1>0, <1>7 DEF Edit, Accept6, vars
  <1> QED
    BY <1>2, <1>3, <1>4, <1>5, <1>6, <1>7 DEF Next

\* A run that is aborted or goes on in order, under an active owner who stays.
LEMMA RunGoesOn ==
  ASSUME TypeOK, ReplayOrdered, NEW a \in 1..MaxAgents, NEW run \in Run,
         runs' = [runs EXCEPT ![a] = run], agents' = agents,
         Prepared(a), InOrder(run)
  PROVE  ReplayOrdered'
  <1> SUFFICES ASSUME NEW b \in 1..MaxAgents, runs'[b] # None
               PROVE  InOrder(runs'[b]) /\ Owned(b)'
    BY DEF ReplayOrdered, InOrder
  <1>1. runs'[a] = run /\ \A c \in 1..MaxAgents : c # a => runs'[c] = runs[c]
    BY RunChanges
  <1>2. Members' = Members /\ Active' = Active
    BY DEF Members, Active, Ids
  <1>3. CASE b = a
    <2>1. runs[a] # None /\ runs[a].status = "prepared"
      BY DEF Prepared
    <2>2. Owned(a) /\ a \in Active
      BY <2>1 DEF ReplayOrdered, Owned
    <2>3. agents[a].status # "completed"
      BY <2>2 DEF Active
    <2> QED
      BY <1>1, <1>2, <1>3, <2>2, <2>3 DEF Owned
  <1>4. CASE b # a
    BY <1>1, <1>2, <1>4 DEF ReplayOrdered, Owned
  <1> QED
    BY <1>3, <1>4

LEMMA AbortGoesOn ==
  ASSUME TypeOK, ReplayOrdered, NEW a \in 1..MaxAgents, Prepared(a),
         runs' = [runs EXCEPT ![a] = Aborted(runs[a])], agents' = agents
  PROVE  ReplayOrdered'
  <1>1. runs[a] \in Run /\ runs[a].status = "prepared" /\ runs[a] # None
    BY PreparedIs DEF Prepared
  <1>2. InOrder(runs[a])
    BY <1>1 DEF ReplayOrdered
  <1>3. Aborted(runs[a]) \in Run /\ InOrder(Aborted(runs[a]))
    BY <1>1, <1>2, AbortedIs, AbortedInOrder
  <1> QED
    BY <1>3, RunGoesOn

LEMMA FinishOrdered ==
  ASSUME TypeOK, ReplayOrdered, NEW a \in Ids, NEW status \in {"completed", "lost", Failed},
         NEW verdict \in {"PASS", "FAIL", None}, Finish(a, status, verdict)
  PROVE  ReplayOrdered'
  <1> SUFFICES ASSUME NEW b \in 1..MaxAgents, runs'[b] # None
               PROVE  InOrder(runs'[b]) /\ Owned(b)'
    BY DEF ReplayOrdered, InOrder
  <1>a. a \in 1..MaxAgents /\ a \in Members
    BY IdsInRange DEF Finish, Active
  <1>1. /\ Stays(a) /\ agents'[a].prep = agents[a].prep /\ agents'[a].status = status
        /\ Ids' = Ids
    BY FinishStays, IdsGrow
  <1>2. CASE b # a
    <2>1. runs'[b] = runs[b]
      BY <1>2, <1>a, FinishRuns DEF TypeOK
    <2>2. InOrder(runs[b]) /\ Owned(b)
      BY <2>1 DEF ReplayOrdered
    <2>3. agents'[b] = agents[b] /\ b \in Ids
      BY <1>1, <1>2, <2>2 DEF Stays, Owned, Members
    <2>4. (b \in Members <=> b \in Members') /\ (b \in Active <=> b \in Active')
      BY <1>1, <2>3 DEF Members, Active
    <2> QED
      BY <2>1, <2>2, <2>3, <2>4 DEF Owned
  <1>3. CASE b = a
    <2>1. a \in Members' /\ agents'[a].role = agents[a].role
      BY <1>1, <1>a DEF Stays, Frame, Members
    <2>2. CASE runs' = runs /\ (Prepared(a) => status = "completed")
      <3>1. runs[a] # None /\ InOrder(runs[a]) /\ Owned(a)
        BY <1>3, <2>2 DEF ReplayOrdered
      <3>2. status = "completed" => runs[a].status = "completed"
        BY <3>1 DEF Finish, Owned, Replayed
      <3>3. runs[a].status # "prepared"
        BY <2>2, <3>1, <3>2 DEF Prepared
      <3> QED
        BY <1>1, <1>3, <2>1, <2>2, <3>1, <3>2, <3>3 DEF Owned
    <2>3. CASE /\ status # "completed" /\ Prepared(a)
               /\ runs' = [runs EXCEPT ![a] = Aborted(runs[a])]
      <3>1. runs[a] \in Run /\ runs[a].status = "prepared" /\ runs[a] # None
        BY <1>a, <2>3, PreparedIs DEF Prepared
      <3>2. InOrder(runs[a]) /\ Owned(a)
        BY <1>a, <3>1 DEF ReplayOrdered
      <3>3. Aborted(runs[a]) \in Run /\ InOrder(Aborted(runs[a])) /\ Aborted(runs[a]).status = "aborted"
        BY <3>1, <3>2, AbortedIs, AbortedInOrder
      <3>4. runs'[a] = Aborted(runs[a])
        BY <1>a, <2>3, <3>3, RunChanges
      <3> QED
        BY <1>1, <1>3, <2>1, <2>3, <3>2, <3>3, <3>4 DEF Owned
    <2> QED
      BY <2>2, <2>3, FinishRuns
  <1> QED
    BY <1>2, <1>3

LEMMA ReplayStep == TypeOK /\ ReplayOrdered /\ [Next]_vars => ReplayOrdered'
  <1> SUFFICES ASSUME TypeOK, ReplayOrdered, [Next]_vars PROVE ReplayOrdered'
    OBVIOUS
  <1>1. CASE \E a \in Ids, status \in {"completed", "lost", Failed}, verdict \in {"PASS", "FAIL", None} :
                Finish(a, status, verdict)
    BY <1>1, FinishOrdered
  <1>2. CASE /\ runs' = runs
             /\ \A a \in Ids, status \in {"completed", "lost", Failed}, verdict \in {"PASS", "FAIL", None} :
                  ~Finish(a, status, verdict)
    <2>1. \A b \in Members : /\ b \in Members'
                             /\ agents'[b].role = agents[b].role
                             /\ agents'[b].status = agents[b].status
      BY <1>2, OwnerKept
    <2> SUFFICES ASSUME NEW b \in 1..MaxAgents, runs'[b] # None
                 PROVE  InOrder(runs'[b]) /\ Owned(b)'
      BY DEF ReplayOrdered, InOrder
    <2>2. InOrder(runs[b]) /\ Owned(b)
      BY <1>2 DEF ReplayOrdered
    <2> QED
      BY <1>2, <2>1, <2>2 DEF Owned, Active
  <1>3. ASSUME NEW a \in Ids, ReplayPrepare(a) PROVE ReplayOrdered'
    <2> DEFINE run == [candidate |-> candidate, status |-> "prepared",
                       cases |-> [i \in 1..Checks |-> "new"]]
    <2>1. a \in 1..MaxAgents
      BY IdsInRange
    <2>2. run \in Run /\ runs' = [runs EXCEPT ![a] = run]
      BY <1>3, NewRunIs
    <2>3. run.status = "prepared" /\ InOrder(run)
      BY NewInOrder
    <2> HIDE DEF run
    <2>4. runs'[a] = run /\ \A c \in 1..MaxAgents : c # a => runs'[c] = runs[c]
      BY <2>1, <2>2, RunChanges
    <2>5. agents' = agents /\ a \in Active /\ agents[a].role = "integrator"
      BY <1>3 DEF ReplayPrepare
    <2>6. Members' = Members /\ Active' = Active
      BY <2>5 DEF Members, Active, Ids
    <2>7. agents[a].status = "active" /\ a \in Members
      BY <2>5 DEF Active
    <2> SUFFICES ASSUME NEW b \in 1..MaxAgents, runs'[b] # None
                 PROVE  InOrder(runs'[b]) /\ Owned(b)'
      BY DEF ReplayOrdered, InOrder
    <2>8. CASE b = a
      BY <2>3, <2>4, <2>5, <2>6, <2>7, <2>8 DEF Owned
    <2>9. CASE b # a
      BY <2>4, <2>5, <2>6, <2>9 DEF ReplayOrdered, Owned
    <2> QED
      BY <2>8, <2>9
  <1>4. ASSUME NEW a \in Ids, NEW e \in Executors, Claim(e, a) PROVE ReplayOrdered'
    <2>1. a \in 1..MaxAgents /\ agents' = agents
      BY <1>4, IdsInRange DEF Claim
    <2>2. Prepared(a) /\ runs[a] \in Run /\ runs[a].status = "prepared"
      BY <1>4, <2>1, ClaimRuns, PreparedIs
    <2>3. InOrder(runs[a])
      BY <2>1, <2>2 DEF ReplayOrdered, Prepared
    <2>4. ASSUME ~Orphaned(runs[a]), NEW i \in New(runs[a]), \A j \in New(runs[a]) : i <= j,
                 runs' = [runs EXCEPT ![a] = [runs[a] EXCEPT !.cases[i] = "started"]]
          PROVE  ReplayOrdered'
      <3>1. [runs[a] EXCEPT !.cases[i] = "started"] \in Run
        BY <2>2, StartedIs DEF New
      <3>2. InOrder([runs[a] EXCEPT !.cases[i] = "started"])
        BY <2>2, <2>3, <2>4, StartedInOrder
      <3> QED
        BY <2>1, <2>2, <2>4, <3>1, <3>2, RunGoesOn
    <2> QED
      BY <1>4, <2>1, <2>2, <2>4, ClaimRuns, AbortGoesOn
  <1>5. ASSUME NEW e \in Executors, Commit(e), runs' # runs PROVE ReplayOrdered'
    <2> DEFINE a == exec[e].run
               i == exec[e].index
               cases == [runs[a].cases EXCEPT ![i] = exec[e].phase]
    <2>1. /\ a \in 1..MaxAgents /\ i \in 1..Checks /\ exec[e].phase \in {"passed", "failed"}
          /\ Prepared(a) /\ runs[a] \in Run
      BY <1>5, CommitRuns
    <2>2. agents' = agents
      BY <1>5 DEF Commit
    <2>3. runs[a].status = "prepared" /\ InOrder(runs[a])
      BY <2>1 DEF Prepared, ReplayOrdered
    <2>4. ASSUME runs[a].cases[i] = "started",
                 runs' = [runs EXCEPT ![a] = [runs[a] EXCEPT !.cases = cases, !.status = Closed(cases)]]
          PROVE  ReplayOrdered'
      <3>1. [runs[a] EXCEPT !.cases = cases, !.status = Closed(cases)] \in Run
        BY <2>1, ClosedIs
      <3>2. InOrder([runs[a] EXCEPT !.cases = cases, !.status = Closed(cases)])
        BY <2>1, <2>3, <2>4, ClosedInOrder
      <3> QED
        BY <2>1, <2>2, <2>4, <3>1, <3>2, RunGoesOn
    <2> QED
      BY <1>5, <2>1, <2>2, <2>4, CommitRuns, AbortGoesOn
  <1>6. ASSUME NEW e \in Executors, Abort(e), runs' # runs PROVE ReplayOrdered'
    <2>1. agents' = agents
      BY <1>6 DEF Abort
    <2> QED
      BY <1>6, <2>1, AbortRuns, AbortGoesOn
  <1>7. ASSUME NEW role \in Roles, NEW chain \in Chains, NEW subject \in 1..node6,
               NEW count \in {0, 1}, NEW pred \in Ids \cup {None},
               Prepare(role, chain, subject, count, pred)
        PROVE  runs' = runs
    BY <1>7 DEF Prepare
  <1>8. ASSUME NEW a \in Ids, \/ CancelPrepare(a) \/ Register(a) \/ Overdue(a)
                              \/ \E old \in Ids : Redispatch(old, a)
        PROVE  runs' = runs
    BY <1>8 DEF CancelPrepare, Register, Overdue, Redispatch
  <1>9. ASSUME NEW e \in Executors,
               Crash(e) \/ \E phase \in {"passed", "failed", "none"} : RunnerEnds(e, phase)
        PROVE  runs' = runs
    BY <1>9 DEF RunnerEnds, Crash
  <1>10. CASE Edit \/ Accept6 \/ UNCHANGED vars
    <2>1. runs' = runs
      BY <1>10 DEF Edit, Accept6, vars
    <2> QED
      BY <1>1, <1>2, <2>1
  <1> QED
    BY <1>1, <1>2, <1>3, <1>4, <1>5, <1>6, <1>7, <1>8, <1>9, <1>10 DEF Next

(***************************************************************************)
(* The theorems.                                                           *)
(***************************************************************************)
LEMMA InitHolds == Init => IInv
  <1> SUFFICES ASSUME Init PROVE IInv
    OBVIOUS
  <1>1. TypeOK
    BY TypeInit
  <1>2. Ids = {} /\ Members = {}
    BY DEF Init, Ids, Members
  <1>3. VerdictsKept /\ ChainOrdered
    BY <1>2 DEF VerdictsKept, ChainOrdered, OneChain, RetriedOnce, PredecessorPassed
  <1>4. ReplayOrdered
    BY DEF Init, ReplayOrdered
  <1> QED
    BY <1>1, <1>3, <1>4 DEF IInv

LEMMA StepKeeps == IInv /\ [Next]_vars => IInv'
  BY TypeStep, VerdictsStep, OneChainStep, RetriedOnceStep, PredecessorStep, ReplayStep
  DEF IInv, ChainOrdered

\* Types, verdicts, the review chain and the replays keep their order in every
\* state, whatever reviewers and executors do.
THEOREM Invariance == Spec => []IInv
  BY InitHolds, StepKeeps, PTL DEF Spec

\* The history that prepare, register and redispatch build is one the chain's
\* validator accepts, for any number of chains, reviewers and attempts.
THEOREM ReviewsFollowEachOther == Spec => []ChainOrdered
  <1>1. IInv => ChainOrdered
    BY DEF IInv
  <1> QED
    BY <1>1, Invariance, PTL

\* The registry that any number of executors write is one its validator accepts.
THEOREM ReplaysAreOrdered == Spec => []ReplayOrdered
  <1>1. IInv => ReplayOrdered
    BY DEF IInv
  <1> QED
    BY <1>1, Invariance, PTL

\* No late executor and no end of the integrator rewrites a closed replay.
THEOREM ClosedReplaysStand == Spec => ClosedIsFinal
  <1> DEFINE Stands == \A a \in 1..MaxAgents :
                          runs[a] # None /\ runs[a].status # "prepared" => runs'[a] = runs[a]
  <1>1. IInv /\ [Next]_vars => [Stands]_vars
    <2> SUFFICES ASSUME IInv, Next, NEW b \in 1..MaxAgents,
                        runs[b] # None, runs[b].status # "prepared"
                 PROVE  runs'[b] = runs[b]
      OBVIOUS
    <2>t. TypeOK /\ runs \in [1..MaxAgents -> Run \cup {None}]
      BY DEF IInv, TypeOK
    <2>1. ASSUME NEW a \in 1..MaxAgents, Prepared(a), NEW run, runs' = [runs EXCEPT ![a] = run]
          PROVE  runs'[b] = runs[b]
      <3>1. a # b
        BY <2>1 DEF Prepared
      <3> QED
        BY <2>t, <2>1, <3>1
    <2>2. ASSUME NEW a \in Ids, NEW status \in {"completed", "lost", Failed},
                 NEW verdict \in {"PASS", "FAIL", None}, Finish(a, status, verdict)
          PROVE  runs'[b] = runs[b]
      <3>1. a \in 1..MaxAgents
        BY <2>t, IdsInRange
      <3> QED
        BY <2>t, <2>1, <2>2, <3>1, FinishRuns
    <2>3. ASSUME NEW a \in Ids, ReplayPrepare(a) PROVE runs'[b] = runs[b]
      <3>1. runs[a] = None /\ \E run : runs' = [runs EXCEPT ![a] = run]
        BY <2>3 DEF ReplayPrepare
      <3> QED
        BY <2>t, <3>1
    <2>4. ASSUME NEW a \in Ids, NEW e \in Executors, Claim(e, a) PROVE runs'[b] = runs[b]
      <3>1. a \in 1..MaxAgents
        BY <2>t, IdsInRange
      <3>2. Prepared(a) /\ \E run : runs' = [runs EXCEPT ![a] = run]
        BY <2>t, <2>4, ClaimRuns
      <3> QED
        BY <2>1, <3>1, <3>2
    <2>5. ASSUME NEW e \in Executors, Commit(e) PROVE runs'[b] = runs[b]
      <3>1. \/ runs' = runs
            \/ /\ exec[e].run \in 1..MaxAgents /\ Prepared(exec[e].run)
               /\ \E run : runs' = [runs EXCEPT ![exec[e].run] = run]
        BY <2>t, <2>5, CommitRuns
      <3> QED
        BY <2>1, <3>1
    <2>6. ASSUME NEW e \in Executors, Abort(e) PROVE runs'[b] = runs[b]
      BY <2>t, <2>1, <2>6, AbortRuns
    <2>7. ASSUME NEW role \in Roles, NEW chain \in Chains, NEW subject \in 1..node6,
                 NEW count \in {0, 1}, NEW pred \in Ids \cup {None},
                 Prepare(role, chain, subject, count, pred)
          PROVE  runs'[b] = runs[b]
      BY <2>7 DEF Prepare
    <2>8. ASSUME NEW a \in Ids, \/ CancelPrepare(a) \/ Register(a) \/ Overdue(a)
                                \/ \E old \in Ids : Redispatch(old, a)
          PROVE  runs'[b] = runs[b]
      BY <2>8 DEF CancelPrepare, Register, Overdue, Redispatch
    <2>9. ASSUME NEW e \in Executors,
                 Crash(e) \/ \E phase \in {"passed", "failed", "none"} : RunnerEnds(e, phase)
          PROVE  runs'[b] = runs[b]
      BY <2>9 DEF RunnerEnds, Crash
    <2>10. CASE Edit \/ Accept6
      BY <2>10 DEF Edit, Accept6
    <2> QED
      BY <2>2, <2>3, <2>4, <2>5, <2>6, <2>7, <2>8, <2>9, <2>10 DEF Next
  <1> QED
    BY <1>1, Invariance, PTL DEF ClosedIsFinal, Spec
=============================================================================
