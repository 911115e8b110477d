------------------------------ MODULE Task_proofs ------------------------------
(***************************************************************************)
(* Proofs about TASK.json: how a command publishes its next version        *)
(* (ContextTransition), for any number of commands of each kind and any    *)
(* number of crashes, and what the commands make of it (WorkflowNodes),    *)
(* for any set of root causes and artifact contents and any bound on the   *)
(* strikes.  Each conjunct of an inductive invariant has a lemma that says *)
(* every step keeps it, one case per action.                               *)
(***************************************************************************)
EXTENDS ContextTransition, WorkflowNodes, TLAPS

(***************************************************************************)
(* Every step keeps the types.                                             *)
(***************************************************************************)
LEMMA TypeStep == IInv /\ [Next]_vars => TypeOK'
<1> SUFFICES ASSUME IInv, [Next]_vars PROVE TypeOK'
  OBVIOUS
<1> USE ProcAssumption DEF Proc, Version, IInv, TypeOK, Steps, Ends, ChildSteps, ChildEnds,
             files, locks, Journal, Files, Context
<1>1. CASE \E m \in Mutators : ReadTask(m)
  BY <1>1 DEF ReadTask
<1>2. CASE \E m \in Mutators : EnterTransition(m)
  BY <1>2 DEF EnterTransition
<1>3. CASE \E m \in Mutators : RejectTransition(m)
  BY <1>3 DEF RejectTransition
<1>4. CASE \E m \in Mutators : WriteJournal(m)
  BY <1>4 DEF WriteJournal
<1>5. CASE \E m \in Mutators : WriteSideEffects(m)
  BY <1>5 DEF WriteSideEffects
<1>6. CASE \E m \in Mutators : WriteTask(m)
  BY <1>6 DEF WriteTask
<1>7. CASE \E m \in Mutators : StartChild(m)
  BY <1>7 DEF StartChild
<1>8. CASE \E m \in Mutators : AbortTransition(m)
  BY <1>8 DEF AbortTransition
<1>9. CASE \E m \in Mutators : ReapChild(m)
  BY <1>9 DEF ReapChild
<1>10. CASE \E m \in Mutators : TimeoutChild(m)
  BY <1>10 DEF TimeoutChild
<1>11. CASE \E m \in Mutators : CommitTransition(m)
  BY <1>11 DEF CommitTransition
<1>12. CASE \E m \in Mutators : LockChild(m)
  BY <1>12 DEF LockChild
<1>13. CASE \E m \in Mutators : CheckChild(m)
  BY <1>13 DEF CheckChild
<1>14. CASE \E m \in Mutators : FailChild(m)
  BY <1>14 DEF FailChild
<1>15. CASE \E m \in Mutators : WriteContext(m)
  <2> PICK m \in Mutators : WriteContext(m)
    BY <1>15
  <2>1. context' = [task |-> task, fresh |-> task, est |-> tokens[m],
                    turns |-> context.turns]
    BY DEF WriteContext
  <2>2. context' \in Context
    BY <2>1
  <2> QED
    BY <2>2 DEF WriteContext
<1>16. CASE \E p \in Mutators \cup Restorers : UndoTask(p)
  BY <1>16 DEF UndoTask
<1>17. CASE \E p \in Mutators \cup Restorers : UndoContext(p)
  BY <1>17 DEF UndoContext
<1>18. CASE \E p \in Mutators \cup Restorers : UndoStage(p)
  BY <1>18 DEF UndoStage
<1>19. CASE \E p \in Mutators \cup Restorers : FinishUndo(p)
  BY <1>19 DEF FinishUndo
<1>20. CASE \E r \in Restorers : LockContextForRestore(r)
  BY <1>20 DEF LockContextForRestore
<1>21. CASE \E r \in Restorers : RestoreJournal(r)
  BY <1>21 DEF RestoreJournal
<1>22. CASE \E r \in Restorers : RefuseRestore(r)
  BY <1>22 DEF RefuseRestore
<1>23. CASE \E d \in Discarders : CheckDiscard(d)
  BY <1>23 DEF CheckDiscard
<1>24. CASE \E d \in Discarders : RefuseDiscard(d)
  BY <1>24 DEF RefuseDiscard
<1>25. CASE \E d \in Discarders : DiscardJournal(d)
  BY <1>25 DEF DiscardJournal
<1>26. CASE \E a \in Accountants : ValidateTurn(a)
  BY <1>26 DEF ValidateTurn
<1>27. CASE \E a \in Accountants : TurnAlreadyAccounted(a)
  BY <1>27 DEF TurnAlreadyAccounted
<1>28. CASE \E a \in Accountants : RefuseTurn(a)
  BY <1>28 DEF RefuseTurn
<1>29. CASE \E a \in Accountants : ChargeTurn(a)
  <2> PICK a \in Accountants : ChargeTurn(a)
    BY <1>29
  <2>1. context' = [task |-> context.task, fresh |-> task, est |-> context.est + 1,
                    turns |-> context.turns \cup {TurnOf[a]}]
    BY DEF ChargeTurn
  <2>2. context' \in Context
    BY <2>1
  <2> QED
    BY <2>2 DEF ChargeTurn
<1>30. CASE \E p \in Proc : Crash(p)
  BY <1>30 DEF Crash, Running
<1>31. CASE PowerLoss
  BY <1>31 DEF PowerLoss, Running
<1>32. CASE UNCHANGED vars
  BY <1>32 DEF vars
<1> QED
  BY <1>1, <1>2, <1>3, <1>4, <1>5, <1>6, <1>7, <1>8, <1>9, <1>10, <1>11,
     <1>12, <1>13, <1>14, <1>15, <1>16, <1>17, <1>18, <1>19, <1>20, <1>21,
     <1>22, <1>23, <1>24, <1>25, <1>26, <1>27, <1>28, <1>29, <1>30, <1>31,
     <1>32
     DEF Next, Transition, Child, Undo, Restore, Discard, AccountTurn

(***************************************************************************)
(* Every command keeps to the steps of its kind.                           *)
(***************************************************************************)
LEMMA RolesStep == IInv /\ [Next]_vars => RolesKept'
<1> SUFFICES ASSUME IInv, [Next]_vars PROVE RolesKept'
  OBVIOUS
<1> USE ProcAssumption DEF Proc, Version, IInv, TypeOK, Steps, Ends, ChildSteps, ChildEnds,
             files, locks, Journaled, Critical, Undoing, RolesKept
<1>1. CASE \E m \in Mutators : ReadTask(m)
  BY <1>1 DEF ReadTask
<1>2. CASE \E m \in Mutators : EnterTransition(m)
  BY <1>2 DEF EnterTransition
<1>3. CASE \E m \in Mutators : RejectTransition(m)
  BY <1>3 DEF RejectTransition
<1>4. CASE \E m \in Mutators : WriteJournal(m)
  BY <1>4 DEF WriteJournal
<1>5. CASE \E m \in Mutators : WriteSideEffects(m)
  BY <1>5 DEF WriteSideEffects
<1>6. CASE \E m \in Mutators : WriteTask(m)
  BY <1>6 DEF WriteTask
<1>7. CASE \E m \in Mutators : StartChild(m)
  BY <1>7 DEF StartChild
<1>8. CASE \E m \in Mutators : AbortTransition(m)
  BY <1>8 DEF AbortTransition
<1>9. CASE \E m \in Mutators : ReapChild(m)
  BY <1>9 DEF ReapChild
<1>10. CASE \E m \in Mutators : TimeoutChild(m)
  BY <1>10 DEF TimeoutChild
<1>11. CASE \E m \in Mutators : CommitTransition(m)
  BY <1>11 DEF CommitTransition
<1>12. CASE \E m \in Mutators : LockChild(m)
  BY <1>12 DEF LockChild
<1>13. CASE \E m \in Mutators : CheckChild(m)
  BY <1>13 DEF CheckChild
<1>14. CASE \E m \in Mutators : FailChild(m)
  BY <1>14 DEF FailChild
<1>15. CASE \E m \in Mutators : WriteContext(m)
  BY <1>15 DEF WriteContext
<1>16. CASE \E p \in Mutators \cup Restorers : UndoTask(p)
  BY <1>16 DEF UndoTask
<1>17. CASE \E p \in Mutators \cup Restorers : UndoContext(p)
  BY <1>17 DEF UndoContext
<1>18. CASE \E p \in Mutators \cup Restorers : UndoStage(p)
  BY <1>18 DEF UndoStage
<1>19. CASE \E p \in Mutators \cup Restorers : FinishUndo(p)
  BY <1>19 DEF FinishUndo
<1>20. CASE \E r \in Restorers : LockContextForRestore(r)
  BY <1>20 DEF LockContextForRestore
<1>21. CASE \E r \in Restorers : RestoreJournal(r)
  BY <1>21 DEF RestoreJournal
<1>22. CASE \E r \in Restorers : RefuseRestore(r)
  BY <1>22 DEF RefuseRestore
<1>23. CASE \E d \in Discarders : CheckDiscard(d)
  BY <1>23 DEF CheckDiscard
<1>24. CASE \E d \in Discarders : RefuseDiscard(d)
  BY <1>24 DEF RefuseDiscard
<1>25. CASE \E d \in Discarders : DiscardJournal(d)
  BY <1>25 DEF DiscardJournal
<1>26. CASE \E a \in Accountants : ValidateTurn(a)
  BY <1>26 DEF ValidateTurn
<1>27. CASE \E a \in Accountants : TurnAlreadyAccounted(a)
  BY <1>27 DEF TurnAlreadyAccounted
<1>28. CASE \E a \in Accountants : RefuseTurn(a)
  BY <1>28 DEF RefuseTurn
<1>29. CASE \E a \in Accountants : ChargeTurn(a)
  BY <1>29 DEF ChargeTurn
<1>30. CASE \E p \in Proc : Crash(p)
  BY <1>30 DEF Crash, Running
<1>31. CASE PowerLoss
  BY <1>31 DEF PowerLoss, Running
<1>32. CASE UNCHANGED vars
  BY <1>32 DEF vars
<1> QED
  BY <1>1, <1>2, <1>3, <1>4, <1>5, <1>6, <1>7, <1>8, <1>9, <1>10, <1>11,
     <1>12, <1>13, <1>14, <1>15, <1>16, <1>17, <1>18, <1>19, <1>20, <1>21,
     <1>22, <1>23, <1>24, <1>25, <1>26, <1>27, <1>28, <1>29, <1>30, <1>31,
     <1>32
     DEF Next, Transition, Child, Undo, Restore, Discard, AccountTurn

(***************************************************************************)
(* A command inside its critical section has the lock.                     *)
(***************************************************************************)
LEMMA LocksStep == IInv /\ [Next]_vars => LocksKept'
<1> SUFFICES ASSUME IInv, [Next]_vars PROVE LocksKept'
  OBVIOUS
<1> USE ProcAssumption DEF Proc, Version, IInv, TypeOK, Steps, Ends, ChildSteps, ChildEnds,
             files, locks, Journaled, Critical, Undoing,
             RolesKept, LocksKept
<1>1. CASE \E m \in Mutators : ReadTask(m)
  BY <1>1 DEF ReadTask
<1>2. CASE \E m \in Mutators : EnterTransition(m)
  BY <1>2 DEF EnterTransition
<1>3. CASE \E m \in Mutators : RejectTransition(m)
  BY <1>3 DEF RejectTransition
<1>4. CASE \E m \in Mutators : WriteJournal(m)
  BY <1>4 DEF WriteJournal
<1>5. CASE \E m \in Mutators : WriteSideEffects(m)
  BY <1>5 DEF WriteSideEffects
<1>6. CASE \E m \in Mutators : WriteTask(m)
  BY <1>6 DEF WriteTask
<1>7. CASE \E m \in Mutators : StartChild(m)
  BY <1>7 DEF StartChild
<1>8. CASE \E m \in Mutators : AbortTransition(m)
  BY <1>8 DEF AbortTransition
<1>9. CASE \E m \in Mutators : ReapChild(m)
  BY <1>9 DEF ReapChild
<1>10. CASE \E m \in Mutators : TimeoutChild(m)
  BY <1>10 DEF TimeoutChild
<1>11. CASE \E m \in Mutators : CommitTransition(m)
  BY <1>11 DEF CommitTransition
<1>12. CASE \E m \in Mutators : LockChild(m)
  BY <1>12 DEF LockChild
<1>13. CASE \E m \in Mutators : CheckChild(m)
  BY <1>13 DEF CheckChild
<1>14. CASE \E m \in Mutators : FailChild(m)
  BY <1>14 DEF FailChild
<1>15. CASE \E m \in Mutators : WriteContext(m)
  BY <1>15 DEF WriteContext
<1>16. CASE \E p \in Mutators \cup Restorers : UndoTask(p)
  BY <1>16 DEF UndoTask
<1>17. CASE \E p \in Mutators \cup Restorers : UndoContext(p)
  BY <1>17 DEF UndoContext
<1>18. CASE \E p \in Mutators \cup Restorers : UndoStage(p)
  BY <1>18 DEF UndoStage
<1>19. CASE \E p \in Mutators \cup Restorers : FinishUndo(p)
  BY <1>19 DEF FinishUndo
<1>20. CASE \E r \in Restorers : LockContextForRestore(r)
  BY <1>20 DEF LockContextForRestore
<1>21. CASE \E r \in Restorers : RestoreJournal(r)
  BY <1>21 DEF RestoreJournal
<1>22. CASE \E r \in Restorers : RefuseRestore(r)
  BY <1>22 DEF RefuseRestore
<1>23. CASE \E d \in Discarders : CheckDiscard(d)
  BY <1>23 DEF CheckDiscard
<1>24. CASE \E d \in Discarders : RefuseDiscard(d)
  BY <1>24 DEF RefuseDiscard
<1>25. CASE \E d \in Discarders : DiscardJournal(d)
  BY <1>25 DEF DiscardJournal
<1>26. CASE \E a \in Accountants : ValidateTurn(a)
  BY <1>26 DEF ValidateTurn
<1>27. CASE \E a \in Accountants : TurnAlreadyAccounted(a)
  BY <1>27 DEF TurnAlreadyAccounted
<1>28. CASE \E a \in Accountants : RefuseTurn(a)
  BY <1>28 DEF RefuseTurn
<1>29. CASE \E a \in Accountants : ChargeTurn(a)
  BY <1>29 DEF ChargeTurn
<1>30. CASE \E p \in Proc : Crash(p)
  BY <1>30 DEF Crash, Running
<1>31. CASE PowerLoss
  BY <1>31 DEF PowerLoss, Running
<1>32. CASE UNCHANGED vars
  BY <1>32 DEF vars
<1> QED
  BY <1>1, <1>2, <1>3, <1>4, <1>5, <1>6, <1>7, <1>8, <1>9, <1>10, <1>11,
     <1>12, <1>13, <1>14, <1>15, <1>16, <1>17, <1>18, <1>19, <1>20, <1>21,
     <1>22, <1>23, <1>24, <1>25, <1>26, <1>27, <1>28, <1>29, <1>30, <1>31,
     <1>32
     DEF Next, Transition, Child, Undo, Restore, Discard, AccountTurn

(***************************************************************************)
(* TASK is where the mutator inside TASK_LOCK left it.                     *)
(***************************************************************************)
LEMMA TaskStep == IInv /\ [Next]_vars => TaskTracked'
<1> SUFFICES ASSUME IInv, [Next]_vars PROVE TaskTracked'
  OBVIOUS
<1> USE ProcAssumption DEF Proc, Version, IInv, TypeOK, Steps, Ends, ChildSteps, ChildEnds,
             files, locks, Journaled, Critical, Undoing,
             RolesKept, LocksKept, TaskTracked, HeldTracked, OwnBackup
<1>1. CASE \E m \in Mutators : ReadTask(m)
  BY <1>1 DEF ReadTask
<1>2. CASE \E m \in Mutators : EnterTransition(m)
  BY <1>2 DEF EnterTransition
<1>3. CASE \E m \in Mutators : RejectTransition(m)
  BY <1>3 DEF RejectTransition
<1>4. CASE \E m \in Mutators : WriteJournal(m)
  BY <1>4 DEF WriteJournal
<1>5. CASE \E m \in Mutators : WriteSideEffects(m)
  BY <1>5 DEF WriteSideEffects
<1>6. CASE \E m \in Mutators : WriteTask(m)
  BY <1>6 DEF WriteTask
<1>7. CASE \E m \in Mutators : StartChild(m)
  BY <1>7 DEF StartChild
<1>8. CASE \E m \in Mutators : AbortTransition(m)
  BY <1>8 DEF AbortTransition
<1>9. CASE \E m \in Mutators : ReapChild(m)
  BY <1>9 DEF ReapChild
<1>10. CASE \E m \in Mutators : TimeoutChild(m)
  BY <1>10 DEF TimeoutChild
<1>11. CASE \E m \in Mutators : CommitTransition(m)
  BY <1>11 DEF CommitTransition
<1>12. CASE \E m \in Mutators : LockChild(m)
  BY <1>12 DEF LockChild
<1>13. CASE \E m \in Mutators : CheckChild(m)
  BY <1>13 DEF CheckChild
<1>14. CASE \E m \in Mutators : FailChild(m)
  BY <1>14 DEF FailChild
<1>15. CASE \E m \in Mutators : WriteContext(m)
  BY <1>15 DEF WriteContext
<1>16. CASE \E p \in Mutators \cup Restorers : UndoTask(p)
  BY <1>16 DEF UndoTask
<1>17. CASE \E p \in Mutators \cup Restorers : UndoContext(p)
  BY <1>17 DEF UndoContext
<1>18. CASE \E p \in Mutators \cup Restorers : UndoStage(p)
  BY <1>18 DEF UndoStage
<1>19. CASE \E p \in Mutators \cup Restorers : FinishUndo(p)
  BY <1>19 DEF FinishUndo
<1>20. CASE \E r \in Restorers : LockContextForRestore(r)
  BY <1>20 DEF LockContextForRestore
<1>21. CASE \E r \in Restorers : RestoreJournal(r)
  BY <1>21 DEF RestoreJournal
<1>22. CASE \E r \in Restorers : RefuseRestore(r)
  BY <1>22 DEF RefuseRestore
<1>23. CASE \E d \in Discarders : CheckDiscard(d)
  BY <1>23 DEF CheckDiscard
<1>24. CASE \E d \in Discarders : RefuseDiscard(d)
  BY <1>24 DEF RefuseDiscard
<1>25. CASE \E d \in Discarders : DiscardJournal(d)
  BY <1>25 DEF DiscardJournal
<1>26. CASE \E a \in Accountants : ValidateTurn(a)
  BY <1>26 DEF ValidateTurn
<1>27. CASE \E a \in Accountants : TurnAlreadyAccounted(a)
  BY <1>27 DEF TurnAlreadyAccounted
<1>28. CASE \E a \in Accountants : RefuseTurn(a)
  BY <1>28 DEF RefuseTurn
<1>29. CASE \E a \in Accountants : ChargeTurn(a)
  BY <1>29 DEF ChargeTurn
<1>30. CASE \E p \in Proc : Crash(p)
  BY <1>30 DEF Crash, Running
<1>31. CASE PowerLoss
  BY <1>31 DEF PowerLoss, Running
<1>32. CASE UNCHANGED vars
  BY <1>32 DEF vars
<1> QED
  BY <1>1, <1>2, <1>3, <1>4, <1>5, <1>6, <1>7, <1>8, <1>9, <1>10, <1>11,
     <1>12, <1>13, <1>14, <1>15, <1>16, <1>17, <1>18, <1>19, <1>20, <1>21,
     <1>22, <1>23, <1>24, <1>25, <1>26, <1>27, <1>28, <1>29, <1>30, <1>31,
     <1>32
     DEF Next, Transition, Child, Undo, Restore, Discard, AccountTurn

(***************************************************************************)
(* A mutator works from its own backups, and no other journal is there.    *)
(***************************************************************************)
LEMMA HeldStep == IInv /\ [Next]_vars => HeldTracked'
<1> SUFFICES ASSUME IInv, [Next]_vars PROVE HeldTracked'
  OBVIOUS
<1> USE ProcAssumption DEF Proc, Version, IInv, TypeOK, Steps, Ends, ChildSteps, ChildEnds,
             files, locks, Journaled, Critical, Undoing,
             RolesKept, LocksKept, TaskTracked, HeldTracked, OwnBackup
<1>1. CASE \E m \in Mutators : ReadTask(m)
  BY <1>1 DEF ReadTask
<1>2. CASE \E m \in Mutators : EnterTransition(m)
  BY <1>2 DEF EnterTransition
<1>3. CASE \E m \in Mutators : RejectTransition(m)
  BY <1>3 DEF RejectTransition
<1>4. CASE \E m \in Mutators : WriteJournal(m)
  <2> PICK m \in Mutators : WriteJournal(m)
    BY <1>4
  <2> USE DEF WriteJournal
  <2>1. taskLock = m /\ task = before[m]
    OBVIOUS
  <2>2. \A n \in Mutators : n # m => pc'[n] = pc[n] /\ pc[n] \notin Journaled
    BY <2>1
  <2> DEFINE j == [after |-> m,
                   before |-> [task |-> task, stage |-> stage, context |-> context]]
  <2>3. journal' = {j} /\ held'[m] = {j} /\ before' = before
    OBVIOUS
  <2>4. j.after = m /\ j.before.task = before[m]
    BY <2>1
  <2> HIDE DEF j
  <2> QED
    BY <2>2, <2>3, <2>4
<1>5. CASE \E m \in Mutators : WriteSideEffects(m)
  BY <1>5 DEF WriteSideEffects
<1>6. CASE \E m \in Mutators : WriteTask(m)
  BY <1>6 DEF WriteTask
<1>7. CASE \E m \in Mutators : StartChild(m)
  BY <1>7 DEF StartChild
<1>8. CASE \E m \in Mutators : AbortTransition(m)
  BY <1>8 DEF AbortTransition
<1>9. CASE \E m \in Mutators : ReapChild(m)
  BY <1>9 DEF ReapChild
<1>10. CASE \E m \in Mutators : TimeoutChild(m)
  BY <1>10 DEF TimeoutChild
<1>11. CASE \E m \in Mutators : CommitTransition(m)
  BY <1>11 DEF CommitTransition
<1>12. CASE \E m \in Mutators : LockChild(m)
  BY <1>12 DEF LockChild
<1>13. CASE \E m \in Mutators : CheckChild(m)
  BY <1>13 DEF CheckChild
<1>14. CASE \E m \in Mutators : FailChild(m)
  BY <1>14 DEF FailChild
<1>15. CASE \E m \in Mutators : WriteContext(m)
  BY <1>15 DEF WriteContext
<1>16. CASE \E p \in Mutators \cup Restorers : UndoTask(p)
  BY <1>16 DEF UndoTask
<1>17. CASE \E p \in Mutators \cup Restorers : UndoContext(p)
  BY <1>17 DEF UndoContext
<1>18. CASE \E p \in Mutators \cup Restorers : UndoStage(p)
  BY <1>18 DEF UndoStage
<1>19. CASE \E p \in Mutators \cup Restorers : FinishUndo(p)
  BY <1>19 DEF FinishUndo
<1>20. CASE \E r \in Restorers : LockContextForRestore(r)
  BY <1>20 DEF LockContextForRestore
<1>21. CASE \E r \in Restorers : RestoreJournal(r)
  BY <1>21 DEF RestoreJournal
<1>22. CASE \E r \in Restorers : RefuseRestore(r)
  BY <1>22 DEF RefuseRestore
<1>23. CASE \E d \in Discarders : CheckDiscard(d)
  BY <1>23 DEF CheckDiscard
<1>24. CASE \E d \in Discarders : RefuseDiscard(d)
  BY <1>24 DEF RefuseDiscard
<1>25. CASE \E d \in Discarders : DiscardJournal(d)
  BY <1>25 DEF DiscardJournal
<1>26. CASE \E a \in Accountants : ValidateTurn(a)
  BY <1>26 DEF ValidateTurn
<1>27. CASE \E a \in Accountants : TurnAlreadyAccounted(a)
  BY <1>27 DEF TurnAlreadyAccounted
<1>28. CASE \E a \in Accountants : RefuseTurn(a)
  BY <1>28 DEF RefuseTurn
<1>29. CASE \E a \in Accountants : ChargeTurn(a)
  BY <1>29 DEF ChargeTurn
<1>30. CASE \E p \in Proc : Crash(p)
  BY <1>30 DEF Crash, Running
<1>31. CASE PowerLoss
  BY <1>31 DEF PowerLoss, Running
<1>32. CASE UNCHANGED vars
  BY <1>32 DEF vars
<1> QED
  BY <1>1, <1>2, <1>3, <1>4, <1>5, <1>6, <1>7, <1>8, <1>9, <1>10, <1>11,
     <1>12, <1>13, <1>14, <1>15, <1>16, <1>17, <1>18, <1>19, <1>20, <1>21,
     <1>22, <1>23, <1>24, <1>25, <1>26, <1>27, <1>28, <1>29, <1>30, <1>31,
     <1>32
     DEF Next, Transition, Child, Undo, Restore, Discard, AccountTurn

(***************************************************************************)
(* A journal brackets TASK and belongs to a live or a killed transition.   *)
(***************************************************************************)
LEMMA JournalStep == IInv /\ [Next]_vars => JournalTracked'
<1> SUFFICES ASSUME IInv, [Next]_vars PROVE JournalTracked'
  OBVIOUS
<1> USE ProcAssumption DEF Proc, Version, IInv, TypeOK, Steps, Ends, ChildSteps, ChildEnds,
             files, locks, Journaled, Critical, Undoing,
             RolesKept, LocksKept, TaskTracked, HeldTracked, JournalTracked,
             RestoreTracked, OwnBackup
<1>1. CASE \E m \in Mutators : ReadTask(m)
  BY <1>1 DEF ReadTask
<1>2. CASE \E m \in Mutators : EnterTransition(m)
  BY <1>2 DEF EnterTransition
<1>3. CASE \E m \in Mutators : RejectTransition(m)
  BY <1>3 DEF RejectTransition
<1>4. CASE \E m \in Mutators : WriteJournal(m)
  BY <1>4 DEF WriteJournal
<1>5. CASE \E m \in Mutators : WriteSideEffects(m)
  BY <1>5 DEF WriteSideEffects
<1>6. CASE \E m \in Mutators : WriteTask(m)
  BY <1>6 DEF WriteTask
<1>7. CASE \E m \in Mutators : StartChild(m)
  BY <1>7 DEF StartChild
<1>8. CASE \E m \in Mutators : AbortTransition(m)
  BY <1>8 DEF AbortTransition
<1>9. CASE \E m \in Mutators : ReapChild(m)
  BY <1>9 DEF ReapChild
<1>10. CASE \E m \in Mutators : TimeoutChild(m)
  BY <1>10 DEF TimeoutChild
<1>11. CASE \E m \in Mutators : CommitTransition(m)
  BY <1>11 DEF CommitTransition
<1>12. CASE \E m \in Mutators : LockChild(m)
  BY <1>12 DEF LockChild
<1>13. CASE \E m \in Mutators : CheckChild(m)
  BY <1>13 DEF CheckChild
<1>14. CASE \E m \in Mutators : FailChild(m)
  BY <1>14 DEF FailChild
<1>15. CASE \E m \in Mutators : WriteContext(m)
  BY <1>15 DEF WriteContext
<1>16. CASE \E p \in Mutators \cup Restorers : UndoTask(p)
  BY <1>16 DEF UndoTask
<1>17. CASE \E p \in Mutators \cup Restorers : UndoContext(p)
  BY <1>17 DEF UndoContext
<1>18. CASE \E p \in Mutators \cup Restorers : UndoStage(p)
  BY <1>18 DEF UndoStage
<1>19. CASE \E p \in Mutators \cup Restorers : FinishUndo(p)
  BY <1>19 DEF FinishUndo
<1>20. CASE \E r \in Restorers : LockContextForRestore(r)
  BY <1>20 DEF LockContextForRestore
<1>21. CASE \E r \in Restorers : RestoreJournal(r)
  BY <1>21 DEF RestoreJournal
<1>22. CASE \E r \in Restorers : RefuseRestore(r)
  BY <1>22 DEF RefuseRestore
<1>23. CASE \E d \in Discarders : CheckDiscard(d)
  BY <1>23 DEF CheckDiscard
<1>24. CASE \E d \in Discarders : RefuseDiscard(d)
  BY <1>24 DEF RefuseDiscard
<1>25. CASE \E d \in Discarders : DiscardJournal(d)
  BY <1>25 DEF DiscardJournal
<1>26. CASE \E a \in Accountants : ValidateTurn(a)
  BY <1>26 DEF ValidateTurn
<1>27. CASE \E a \in Accountants : TurnAlreadyAccounted(a)
  BY <1>27 DEF TurnAlreadyAccounted
<1>28. CASE \E a \in Accountants : RefuseTurn(a)
  BY <1>28 DEF RefuseTurn
<1>29. CASE \E a \in Accountants : ChargeTurn(a)
  BY <1>29 DEF ChargeTurn
<1>30. CASE \E p \in Proc : Crash(p)
  BY <1>30 DEF Crash, Running
<1>31. CASE PowerLoss
  <2> USE DEF PowerLoss, Running
  <2>1. \A m \in Mutators :
           pc[m] \in Journaled \cup {"crashed"} => pc'[m] = "crashed"
    BY <1>31
  <2>2. \A j \in journal : j.after \in Mutators
    BY DEF Journal
  <2> QED
    BY <1>31, <2>1, <2>2
<1>32. CASE UNCHANGED vars
  BY <1>32 DEF vars
<1> QED
  BY <1>1, <1>2, <1>3, <1>4, <1>5, <1>6, <1>7, <1>8, <1>9, <1>10, <1>11,
     <1>12, <1>13, <1>14, <1>15, <1>16, <1>17, <1>18, <1>19, <1>20, <1>21,
     <1>22, <1>23, <1>24, <1>25, <1>26, <1>27, <1>28, <1>29, <1>30, <1>31,
     <1>32
     DEF Next, Transition, Child, Undo, Restore, Discard, AccountTurn

(***************************************************************************)
(* A restorer works from the journal of a killed transition.               *)
(***************************************************************************)
LEMMA RestoreStep == IInv /\ [Next]_vars => RestoreTracked'
<1> SUFFICES ASSUME IInv, [Next]_vars PROVE RestoreTracked'
  OBVIOUS
<1> USE ProcAssumption DEF Proc, Version, IInv, TypeOK, Steps, Ends, ChildSteps, ChildEnds,
             files, locks, Journaled, Critical, Undoing,
             RolesKept, LocksKept, TaskTracked, HeldTracked, JournalTracked,
             RestoreTracked, OwnBackup
<1>1. CASE \E m \in Mutators : ReadTask(m)
  BY <1>1 DEF ReadTask
<1>2. CASE \E m \in Mutators : EnterTransition(m)
  BY <1>2 DEF EnterTransition
<1>3. CASE \E m \in Mutators : RejectTransition(m)
  BY <1>3 DEF RejectTransition
<1>4. CASE \E m \in Mutators : WriteJournal(m)
  BY <1>4 DEF WriteJournal
<1>5. CASE \E m \in Mutators : WriteSideEffects(m)
  BY <1>5 DEF WriteSideEffects
<1>6. CASE \E m \in Mutators : WriteTask(m)
  BY <1>6 DEF WriteTask
<1>7. CASE \E m \in Mutators : StartChild(m)
  BY <1>7 DEF StartChild
<1>8. CASE \E m \in Mutators : AbortTransition(m)
  BY <1>8 DEF AbortTransition
<1>9. CASE \E m \in Mutators : ReapChild(m)
  BY <1>9 DEF ReapChild
<1>10. CASE \E m \in Mutators : TimeoutChild(m)
  BY <1>10 DEF TimeoutChild
<1>11. CASE \E m \in Mutators : CommitTransition(m)
  BY <1>11 DEF CommitTransition
<1>12. CASE \E m \in Mutators : LockChild(m)
  BY <1>12 DEF LockChild
<1>13. CASE \E m \in Mutators : CheckChild(m)
  BY <1>13 DEF CheckChild
<1>14. CASE \E m \in Mutators : FailChild(m)
  BY <1>14 DEF FailChild
<1>15. CASE \E m \in Mutators : WriteContext(m)
  BY <1>15 DEF WriteContext
<1>16. CASE \E p \in Mutators \cup Restorers : UndoTask(p)
  BY <1>16 DEF UndoTask
<1>17. CASE \E p \in Mutators \cup Restorers : UndoContext(p)
  BY <1>17 DEF UndoContext
<1>18. CASE \E p \in Mutators \cup Restorers : UndoStage(p)
  BY <1>18 DEF UndoStage
<1>19. CASE \E p \in Mutators \cup Restorers : FinishUndo(p)
  BY <1>19 DEF FinishUndo
<1>20. CASE \E r \in Restorers : LockContextForRestore(r)
  BY <1>20 DEF LockContextForRestore
<1>21. CASE \E r \in Restorers : RestoreJournal(r)
  <2> PICK r \in Restorers : RestoreJournal(r)
    BY <1>21
  <2> USE DEF RestoreJournal
  <2>1. \A p \in Proc : pc[p] \notin Critical
    OBVIOUS
  <2>2. \A j \in journal : j.after \in Mutators /\ pc[j.after] = "crashed"
    BY <2>1 DEF Journal
  <2>3. \A s \in Restorers : s # r => pc'[s] \notin Undoing
    BY <2>1
  <2>4. held'[r] = journal /\ journal # {}
    BY DEF Interrupted
  <2>5. \A j \in journal : pc'[j.after] = "crashed"
    BY <2>2
  <2> QED
    BY <2>2, <2>3, <2>4, <2>5
<1>22. CASE \E r \in Restorers : RefuseRestore(r)
  BY <1>22 DEF RefuseRestore
<1>23. CASE \E d \in Discarders : CheckDiscard(d)
  BY <1>23 DEF CheckDiscard
<1>24. CASE \E d \in Discarders : RefuseDiscard(d)
  BY <1>24 DEF RefuseDiscard
<1>25. CASE \E d \in Discarders : DiscardJournal(d)
  BY <1>25 DEF DiscardJournal
<1>26. CASE \E a \in Accountants : ValidateTurn(a)
  BY <1>26 DEF ValidateTurn
<1>27. CASE \E a \in Accountants : TurnAlreadyAccounted(a)
  BY <1>27 DEF TurnAlreadyAccounted
<1>28. CASE \E a \in Accountants : RefuseTurn(a)
  BY <1>28 DEF RefuseTurn
<1>29. CASE \E a \in Accountants : ChargeTurn(a)
  BY <1>29 DEF ChargeTurn
<1>30. CASE \E p \in Proc : Crash(p)
  BY <1>30 DEF Crash, Running
<1>31. CASE PowerLoss
  BY <1>31 DEF PowerLoss, Running
<1>32. CASE UNCHANGED vars
  BY <1>32 DEF vars
<1> QED
  BY <1>1, <1>2, <1>3, <1>4, <1>5, <1>6, <1>7, <1>8, <1>9, <1>10, <1>11,
     <1>12, <1>13, <1>14, <1>15, <1>16, <1>17, <1>18, <1>19, <1>20, <1>21,
     <1>22, <1>23, <1>24, <1>25, <1>26, <1>27, <1>28, <1>29, <1>30, <1>31,
     <1>32
     DEF Next, Transition, Child, Undo, Restore, Discard, AccountTurn

(***************************************************************************)
(* The files of a transition on its way to success have its version.       *)
(***************************************************************************)
LEMMA FilesStep == IInv /\ [Next]_vars => FilesTracked'
<1> SUFFICES ASSUME IInv, [Next]_vars PROVE FilesTracked'
  OBVIOUS
<1> USE ProcAssumption DEF Proc, Version, IInv, TypeOK, Steps, Ends, ChildSteps, ChildEnds,
             files, locks, Journaled, Critical, Undoing,
             RolesKept, LocksKept, TaskTracked, HeldTracked, FilesTracked, OwnBackup
<1>1. CASE \E m \in Mutators : ReadTask(m)
  BY <1>1 DEF ReadTask
<1>2. CASE \E m \in Mutators : EnterTransition(m)
  BY <1>2 DEF EnterTransition
<1>3. CASE \E m \in Mutators : RejectTransition(m)
  BY <1>3 DEF RejectTransition
<1>4. CASE \E m \in Mutators : WriteJournal(m)
  BY <1>4 DEF WriteJournal
<1>5. CASE \E m \in Mutators : WriteSideEffects(m)
  BY <1>5 DEF WriteSideEffects
<1>6. CASE \E m \in Mutators : WriteTask(m)
  BY <1>6 DEF WriteTask
<1>7. CASE \E m \in Mutators : StartChild(m)
  BY <1>7 DEF StartChild
<1>8. CASE \E m \in Mutators : AbortTransition(m)
  BY <1>8 DEF AbortTransition
<1>9. CASE \E m \in Mutators : ReapChild(m)
  BY <1>9 DEF ReapChild
<1>10. CASE \E m \in Mutators : TimeoutChild(m)
  BY <1>10 DEF TimeoutChild
<1>11. CASE \E m \in Mutators : CommitTransition(m)
  BY <1>11 DEF CommitTransition
<1>12. CASE \E m \in Mutators : LockChild(m)
  BY <1>12 DEF LockChild
<1>13. CASE \E m \in Mutators : CheckChild(m)
  BY <1>13 DEF CheckChild
<1>14. CASE \E m \in Mutators : FailChild(m)
  BY <1>14 DEF FailChild
<1>15. CASE \E m \in Mutators : WriteContext(m)
  BY <1>15 DEF WriteContext
<1>16. CASE \E p \in Mutators \cup Restorers : UndoTask(p)
  BY <1>16 DEF UndoTask
<1>17. CASE \E p \in Mutators \cup Restorers : UndoContext(p)
  BY <1>17 DEF UndoContext
<1>18. CASE \E p \in Mutators \cup Restorers : UndoStage(p)
  BY <1>18 DEF UndoStage
<1>19. CASE \E p \in Mutators \cup Restorers : FinishUndo(p)
  BY <1>19 DEF FinishUndo
<1>20. CASE \E r \in Restorers : LockContextForRestore(r)
  BY <1>20 DEF LockContextForRestore
<1>21. CASE \E r \in Restorers : RestoreJournal(r)
  BY <1>21 DEF RestoreJournal
<1>22. CASE \E r \in Restorers : RefuseRestore(r)
  BY <1>22 DEF RefuseRestore
<1>23. CASE \E d \in Discarders : CheckDiscard(d)
  BY <1>23 DEF CheckDiscard
<1>24. CASE \E d \in Discarders : RefuseDiscard(d)
  BY <1>24 DEF RefuseDiscard
<1>25. CASE \E d \in Discarders : DiscardJournal(d)
  BY <1>25 DEF DiscardJournal
<1>26. CASE \E a \in Accountants : ValidateTurn(a)
  BY <1>26 DEF ValidateTurn
<1>27. CASE \E a \in Accountants : TurnAlreadyAccounted(a)
  BY <1>27 DEF TurnAlreadyAccounted
<1>28. CASE \E a \in Accountants : RefuseTurn(a)
  BY <1>28 DEF RefuseTurn
<1>29. CASE \E a \in Accountants : ChargeTurn(a)
  BY <1>29 DEF ChargeTurn
<1>30. CASE \E p \in Proc : Crash(p)
  BY <1>30 DEF Crash, Running
<1>31. CASE PowerLoss
  BY <1>31 DEF PowerLoss, Running
<1>32. CASE UNCHANGED vars
  BY <1>32 DEF vars
<1> QED
  BY <1>1, <1>2, <1>3, <1>4, <1>5, <1>6, <1>7, <1>8, <1>9, <1>10, <1>11,
     <1>12, <1>13, <1>14, <1>15, <1>16, <1>17, <1>18, <1>19, <1>20, <1>21,
     <1>22, <1>23, <1>24, <1>25, <1>26, <1>27, <1>28, <1>29, <1>30, <1>31,
     <1>32
     DEF Next, Transition, Child, Undo, Restore, Discard, AccountTurn

(***************************************************************************)
(* IInv holds in every reachable state.                                    *)
(***************************************************************************)
THEOREM Invariance == Spec => []IInv
<1>1. Init => IInv
  BY ProcAssumption
     DEF Init, IInv, TypeOK, RolesKept, LocksKept, TaskTracked, HeldTracked,
         JournalTracked, RestoreTracked, FilesTracked, Proc, Version, Steps, Ends,
         ChildSteps, ChildEnds, Context, Journaled, Critical, Undoing
<1>2. IInv /\ [Next]_vars => IInv'
  BY TypeStep, RolesStep, LocksStep, TaskStep, HeldStep, JournalStep, RestoreStep,
     FilesStep DEF IInv
<1> QED
  BY <1>1, <1>2, PTL DEF Spec

(***************************************************************************)
(* Every reachable state is type-correct.                                  *)
(***************************************************************************)
THEOREM TypeCorrect == Spec => []TypeOK
<1>1. IInv => TypeOK
  BY DEF IInv
<1> QED
  BY <1>1, Invariance, PTL

(***************************************************************************)
(* A transition reports success only when all three files have its         *)
(* version, whatever the other commands do meanwhile.                      *)
(***************************************************************************)
THEOREM CommitsAreWhole == Spec => CommitIsWhole
<1> DEFINE Whole ==
      \A m \in Mutators :
          pc[m] # "committed" /\ pc'[m] = "committed"
            => task' = m /\ stage' = m /\ context'.task = m
<1>1. IInv /\ [Next]_vars => [Whole]_vars
  <2> SUFFICES ASSUME IInv, [Next]_vars,
                      NEW m \in Mutators, pc[m] # "committed", pc'[m] = "committed"
               PROVE  task' = m /\ stage' = m /\ context'.task = m
    OBVIOUS
  <2>1. CommitTransition(m)
    BY ProcAssumption
       DEF Next, Transition, Child, Undo, Restore, Discard, AccountTurn, ReadTask,
           EnterTransition, RejectTransition, WriteJournal, WriteSideEffects,
           WriteTask, StartChild, AbortTransition, ReapChild, TimeoutChild,
           CommitTransition, LockChild, CheckChild, FailChild, WriteContext,
           UndoTask, UndoContext, UndoStage, FinishUndo, LockContextForRestore,
           RestoreJournal, RefuseRestore, CheckDiscard, RefuseDiscard,
           DiscardJournal, ValidateTurn, TurnAlreadyAccounted, RefuseTurn,
           ChargeTurn, Crash, PowerLoss, vars, IInv, TypeOK, Proc
  <2> QED
    BY <2>1 DEF CommitTransition, IInv, TaskTracked, FilesTracked, files
<1> QED
  BY <1>1, Invariance, PTL DEF Spec, CommitIsWhole

(***************************************************************************)
(* A transition that reports "rolled back" leaves TASK and the side effect *)
(* as it found them.                                                       *)
(***************************************************************************)
THEOREM RollbacksAreExact == Spec => RollbackIsExact
<1> DEFINE Exact ==
      \A m \in Mutators :
          pc[m] # "rolledBack" /\ pc'[m] = "rolledBack"
            => /\ task' = before[m]
               /\ \A j \in held[m] : stage' = j.before.stage
<1>1. IInv /\ [Next]_vars => [Exact]_vars
  <2> SUFFICES ASSUME IInv, [Next]_vars,
                      NEW m \in Mutators, pc[m] # "rolledBack", pc'[m] = "rolledBack"
               PROVE  /\ task' = before[m]
                      /\ \A j \in held[m] : stage' = j.before.stage
    OBVIOUS
  <2>1. FinishUndo(m)
    BY ProcAssumption
       DEF Next, Transition, Child, Undo, Restore, Discard, AccountTurn, ReadTask,
           EnterTransition, RejectTransition, WriteJournal, WriteSideEffects,
           WriteTask, StartChild, AbortTransition, ReapChild, TimeoutChild,
           CommitTransition, LockChild, CheckChild, FailChild, WriteContext,
           UndoTask, UndoContext, UndoStage, FinishUndo, LockContextForRestore,
           RestoreJournal, RefuseRestore, CheckDiscard, RefuseDiscard,
           DiscardJournal, ValidateTurn, TurnAlreadyAccounted, RefuseTurn,
           ChargeTurn, Crash, PowerLoss, vars, IInv, TypeOK, Proc
  <2> QED
    BY <2>1 DEF FinishUndo, IInv, TaskTracked, FilesTracked, files
<1> QED
  BY <1>1, Invariance, PTL DEF Spec, RollbackIsExact

(***************************************************************************)
(* Every step is a step of the compare-and-set register, or leaves it alone. *)
(***************************************************************************)
LEMMA RegisterStep == IInv /\ [Next]_vars => [Register!Step]_<<task, before, Acknowledged>>
<1> SUFFICES ASSUME IInv, [Next]_vars PROVE [Register!Step]_<<task, before, Acknowledged>>
  OBVIOUS
<1> USE ProcAssumption DEF Proc, Version, IInv, TypeOK, Steps, Ends, ChildSteps, ChildEnds,
             files, locks, Journaled, Critical, Undoing,
             Acknowledged, RolesKept, TaskTracked
<1>1. CASE \E m \in Mutators : ReadTask(m)
  <2> PICK m \in Mutators : ReadTask(m)
    BY <1>1
  <2>1. Register!Read(m)
    BY DEF ReadTask, Register!Read
  <2> QED
    BY <2>1 DEF Register!Step
<1>2. CASE \E m \in Mutators : EnterTransition(m)
  BY <1>2 DEF EnterTransition
<1>3. CASE \E m \in Mutators : RejectTransition(m)
  BY <1>3 DEF RejectTransition
<1>4. CASE \E m \in Mutators : WriteJournal(m)
  BY <1>4 DEF WriteJournal
<1>5. CASE \E m \in Mutators : WriteSideEffects(m)
  BY <1>5 DEF WriteSideEffects
<1>6. CASE \E m \in Mutators : WriteTask(m)
  <2> PICK m \in Mutators : WriteTask(m)
    BY <1>6
  <2>1. Register!Install(m)
    BY DEF WriteTask, Register!Install
  <2> QED
    BY <2>1 DEF Register!Step
<1>7. CASE \E m \in Mutators : StartChild(m)
  BY <1>7 DEF StartChild
<1>8. CASE \E m \in Mutators : AbortTransition(m)
  BY <1>8 DEF AbortTransition
<1>9. CASE \E m \in Mutators : ReapChild(m)
  BY <1>9 DEF ReapChild
<1>10. CASE \E m \in Mutators : TimeoutChild(m)
  BY <1>10 DEF TimeoutChild
<1>11. CASE \E m \in Mutators : CommitTransition(m)
  <2> PICK m \in Mutators : CommitTransition(m)
    BY <1>11
  <2>1. Register!Acknowledge(m)
    BY DEF CommitTransition, Register!Acknowledge
  <2> QED
    BY <2>1 DEF Register!Step
<1>12. CASE \E m \in Mutators : LockChild(m)
  BY <1>12 DEF LockChild
<1>13. CASE \E m \in Mutators : CheckChild(m)
  BY <1>13 DEF CheckChild
<1>14. CASE \E m \in Mutators : FailChild(m)
  BY <1>14 DEF FailChild
<1>15. CASE \E m \in Mutators : WriteContext(m)
  BY <1>15 DEF WriteContext
<1>16. CASE \E p \in Mutators \cup Restorers : UndoTask(p)
  <2> PICK p \in Mutators \cup Restorers : UndoTask(p)
    BY <1>16
  <2> USE DEF UndoTask
  <2>1. PICK j \in held[p] : task' = j.before.task
    OBVIOUS
  <2>2. j.after \in Mutators /\ j.before.task = before[j.after]
    BY DEF Journal, HeldTracked, RestoreTracked, OwnBackup
  <2>3. task \in {j.after, before[j.after]} /\ j.after \notin Acknowledged
    BY <2>2 DEF HeldTracked, RestoreTracked, OwnBackup
  <2>4. UNCHANGED <<before, Acknowledged>>
    OBVIOUS
  <2>5. CASE task = before[j.after]
    BY <2>1, <2>2, <2>4, <2>5
  <2>6. CASE task = j.after
    <3>1. Register!Undo(j.after)
      BY <2>1, <2>2, <2>3, <2>4, <2>6 DEF Register!Undo
    <3> QED
      BY <2>2, <3>1 DEF Register!Step
  <2> QED
    BY <2>3, <2>5, <2>6
<1>17. CASE \E p \in Mutators \cup Restorers : UndoContext(p)
  BY <1>17 DEF UndoContext
<1>18. CASE \E p \in Mutators \cup Restorers : UndoStage(p)
  BY <1>18 DEF UndoStage
<1>19. CASE \E p \in Mutators \cup Restorers : FinishUndo(p)
  BY <1>19 DEF FinishUndo
<1>20. CASE \E r \in Restorers : LockContextForRestore(r)
  BY <1>20 DEF LockContextForRestore
<1>21. CASE \E r \in Restorers : RestoreJournal(r)
  BY <1>21 DEF RestoreJournal
<1>22. CASE \E r \in Restorers : RefuseRestore(r)
  BY <1>22 DEF RefuseRestore
<1>23. CASE \E d \in Discarders : CheckDiscard(d)
  BY <1>23 DEF CheckDiscard
<1>24. CASE \E d \in Discarders : RefuseDiscard(d)
  BY <1>24 DEF RefuseDiscard
<1>25. CASE \E d \in Discarders : DiscardJournal(d)
  BY <1>25 DEF DiscardJournal
<1>26. CASE \E a \in Accountants : ValidateTurn(a)
  BY <1>26 DEF ValidateTurn
<1>27. CASE \E a \in Accountants : TurnAlreadyAccounted(a)
  BY <1>27 DEF TurnAlreadyAccounted
<1>28. CASE \E a \in Accountants : RefuseTurn(a)
  BY <1>28 DEF RefuseTurn
<1>29. CASE \E a \in Accountants : ChargeTurn(a)
  BY <1>29 DEF ChargeTurn
<1>30. CASE \E p \in Proc : Crash(p)
  BY <1>30 DEF Crash, Running
<1>31. CASE PowerLoss
  BY <1>31 DEF PowerLoss, Running
<1>32. CASE UNCHANGED vars
  BY <1>32 DEF vars
<1> QED
  BY <1>1, <1>2, <1>3, <1>4, <1>5, <1>6, <1>7, <1>8, <1>9, <1>10, <1>11,
     <1>12, <1>13, <1>14, <1>15, <1>16, <1>17, <1>18, <1>19, <1>20, <1>21,
     <1>22, <1>23, <1>24, <1>25, <1>26, <1>27, <1>28, <1>29, <1>30, <1>31,
     <1>32
     DEF Next, Transition, Child, Undo, Restore, Discard, AccountTurn

(***************************************************************************)
(* TASK implements the compare-and-set register: an update is installed    *)
(* over the version it was computed from, and once acknowledged it is      *)
(* never undone.                                                           *)
(***************************************************************************)
THEOREM Refinement == Spec => RegisterSpec
<1>1. Init => Register!Init
  BY DEF Init, Register!Init, Acknowledged, Proc
<1> QED
  BY <1>1, Invariance, RegisterStep, PTL DEF Spec, RegisterSpec, Register!Spec

(***************************************************************************)
(* With one transition and no discard or account-turn, every step keeps the *)
(* journal in line with the files.                                         *)
(***************************************************************************)
LEMMA SoloStep == IInv /\ Solo /\ SoloInv /\ [Next]_vars => SoloInv'
<1> SUFFICES ASSUME IInv, Solo, SoloInv, [Next]_vars PROVE SoloInv'
  OBVIOUS
<1> USE ProcAssumption DEF Proc, Version, IInv, TypeOK, Steps, Ends, ChildSteps, ChildEnds,
             files, locks, Journaled, Critical, Undoing,
             RolesKept, LocksKept, TaskTracked, HeldTracked, OwnBackup, JournalTracked,
             FilesTracked, Solo, SoloInv, Torn
<1>1. CASE \E m \in Mutators : ReadTask(m)
  BY <1>1 DEF ReadTask
<1>2. CASE \E m \in Mutators : EnterTransition(m)
  BY <1>2 DEF EnterTransition
<1>3. CASE \E m \in Mutators : RejectTransition(m)
  BY <1>3 DEF RejectTransition
<1>4. CASE \E m \in Mutators : WriteJournal(m)
  BY <1>4 DEF WriteJournal
<1>5. CASE \E m \in Mutators : WriteSideEffects(m)
  BY <1>5 DEF WriteSideEffects
<1>6. CASE \E m \in Mutators : WriteTask(m)
  BY <1>6 DEF WriteTask
<1>7. CASE \E m \in Mutators : StartChild(m)
  BY <1>7 DEF StartChild
<1>8. CASE \E m \in Mutators : AbortTransition(m)
  BY <1>8 DEF AbortTransition
<1>9. CASE \E m \in Mutators : ReapChild(m)
  BY <1>9 DEF ReapChild
<1>10. CASE \E m \in Mutators : TimeoutChild(m)
  BY <1>10 DEF TimeoutChild
<1>11. CASE \E m \in Mutators : CommitTransition(m)
  BY <1>11 DEF CommitTransition
<1>12. CASE \E m \in Mutators : LockChild(m)
  BY <1>12 DEF LockChild
<1>13. CASE \E m \in Mutators : CheckChild(m)
  BY <1>13 DEF CheckChild, TransitionAllowed
<1>14. CASE \E m \in Mutators : FailChild(m)
  BY <1>14 DEF FailChild
<1>15. CASE \E m \in Mutators : WriteContext(m)
  <2> PICK m \in Mutators : WriteContext(m)
    BY <1>15
  <2> USE DEF WriteContext
  <2>1. task = m /\ contextLock = m /\ pc[m] \notin Undoing
    OBVIOUS
  <2>2. context'.task = m
    BY <2>1
  <2>3. \A r \in Restorers : pc[r] \notin Undoing
    BY <2>1
  <2>4. \A j \in journal : j.after = m
    BY DEF Journal
  <2>5. child'[m] # "checked" /\ child'[m] \notin ChildSteps
    OBVIOUS
  <2>6. journal = {} => ~Torn'
    BY <2>1, <2>2
  <2>7. UNCHANGED <<task, stage, journal, pc, held>>
    OBVIOUS
  <2> HIDE DEF WriteContext
  <2> QED
    BY <2>1, <2>2, <2>3, <2>4, <2>5, <2>6, <2>7
<1>16. CASE \E p \in Mutators \cup Restorers : UndoTask(p)
  BY <1>16 DEF UndoTask
<1>17. CASE \E p \in Mutators \cup Restorers : UndoContext(p)
  BY <1>17 DEF UndoContext
<1>18. CASE \E p \in Mutators \cup Restorers : UndoStage(p)
  BY <1>18 DEF UndoStage
<1>19. CASE \E p \in Mutators \cup Restorers : FinishUndo(p)
  BY <1>19 DEF FinishUndo
<1>20. CASE \E r \in Restorers : LockContextForRestore(r)
  BY <1>20 DEF LockContextForRestore
<1>21. CASE \E r \in Restorers : RestoreJournal(r)
  BY <1>21 DEF RestoreJournal
<1>22. CASE \E r \in Restorers : RefuseRestore(r)
  BY <1>22 DEF RefuseRestore
<1>23. CASE \E d \in Discarders : CheckDiscard(d)
  BY <1>23 DEF CheckDiscard
<1>24. CASE \E d \in Discarders : RefuseDiscard(d)
  BY <1>24 DEF RefuseDiscard
<1>25. CASE \E d \in Discarders : DiscardJournal(d)
  BY <1>25 DEF DiscardJournal
<1>26. CASE \E a \in Accountants : ValidateTurn(a)
  BY <1>26 DEF ValidateTurn
<1>27. CASE \E a \in Accountants : TurnAlreadyAccounted(a)
  BY <1>27 DEF TurnAlreadyAccounted
<1>28. CASE \E a \in Accountants : RefuseTurn(a)
  BY <1>28 DEF RefuseTurn
<1>29. CASE \E a \in Accountants : ChargeTurn(a)
  BY <1>29 DEF ChargeTurn
<1>30. CASE \E p \in Proc : Crash(p)
  BY <1>30 DEF Crash, Running
<1>31. CASE PowerLoss
  BY <1>31 DEF PowerLoss, Running
<1>32. CASE UNCHANGED vars
  BY <1>32 DEF vars
<1> QED
  BY <1>1, <1>2, <1>3, <1>4, <1>5, <1>6, <1>7, <1>8, <1>9, <1>10, <1>11,
     <1>12, <1>13, <1>14, <1>15, <1>16, <1>17, <1>18, <1>19, <1>20, <1>21,
     <1>22, <1>23, <1>24, <1>25, <1>26, <1>27, <1>28, <1>29, <1>30, <1>31,
     <1>32
     DEF Next, Transition, Child, Undo, Restore, Discard, AccountTurn

(***************************************************************************)
(* A version is read only by mutators that start after it was written.     *)
(***************************************************************************)
LEMMA OlderStep == IInv /\ OlderRead /\ [Next]_vars => OlderRead'
<1> SUFFICES ASSUME IInv, OlderRead, [Next]_vars PROVE OlderRead'
  OBVIOUS
<1> USE ProcAssumption DEF Proc, Version, IInv, TypeOK, files, locks, Journaled,
             Critical, Undoing, RolesKept, HeldTracked, RestoreTracked, OwnBackup, OlderRead
<1>1. CASE \E m \in Mutators : ReadTask(m)
  BY <1>1 DEF ReadTask
<1>2. CASE \E m \in Mutators : EnterTransition(m)
  BY <1>2 DEF EnterTransition
<1>3. CASE \E m \in Mutators : RejectTransition(m)
  BY <1>3 DEF RejectTransition
<1>4. CASE \E m \in Mutators : WriteJournal(m)
  BY <1>4 DEF WriteJournal
<1>5. CASE \E m \in Mutators : WriteSideEffects(m)
  BY <1>5 DEF WriteSideEffects
<1>6. CASE \E m \in Mutators : WriteTask(m)
  BY <1>6 DEF WriteTask
<1>7. CASE \E m \in Mutators : StartChild(m)
  BY <1>7 DEF StartChild
<1>8. CASE \E m \in Mutators : AbortTransition(m)
  BY <1>8 DEF AbortTransition
<1>9. CASE \E m \in Mutators : ReapChild(m)
  BY <1>9 DEF ReapChild
<1>10. CASE \E m \in Mutators : TimeoutChild(m)
  BY <1>10 DEF TimeoutChild
<1>11. CASE \E m \in Mutators : CommitTransition(m)
  BY <1>11 DEF CommitTransition
<1>12. CASE \E m \in Mutators : LockChild(m)
  BY <1>12 DEF LockChild
<1>13. CASE \E m \in Mutators : CheckChild(m)
  BY <1>13 DEF CheckChild
<1>14. CASE \E m \in Mutators : FailChild(m)
  BY <1>14 DEF FailChild
<1>15. CASE \E m \in Mutators : WriteContext(m)
  BY <1>15 DEF WriteContext
<1>16. CASE \E p \in Mutators \cup Restorers : UndoTask(p)
  <2> PICK p \in Mutators \cup Restorers : UndoTask(p)
    BY <1>16
  <2>1. PICK j \in held[p] : task' = j.before.task
    BY DEF UndoTask
  <2>2. j.after \in Mutators /\ j.before.task = before[j.after]
    <3>1. pc[p] \in Undoing /\ j \in Journal
      BY DEF UndoTask
    <3>2. OwnBackup(j.after, j) \/ (p \in Mutators /\ j.after = p /\ j.before.task = before[p])
      BY <3>1
    <3> QED
      BY <3>1, <3>2 DEF Journal
  <2>3. before' = before /\ \A m \in Mutators : pc'[m] = "start" => pc[m] = "start"
    BY DEF UndoTask
  <2> QED
    BY <2>1, <2>2, <2>3
<1>17. CASE \E p \in Mutators \cup Restorers : UndoContext(p)
  BY <1>17 DEF UndoContext
<1>18. CASE \E p \in Mutators \cup Restorers : UndoStage(p)
  BY <1>18 DEF UndoStage
<1>19. CASE \E p \in Mutators \cup Restorers : FinishUndo(p)
  BY <1>19 DEF FinishUndo
<1>20. CASE \E r \in Restorers : LockContextForRestore(r)
  BY <1>20 DEF LockContextForRestore
<1>21. CASE \E r \in Restorers : RestoreJournal(r)
  BY <1>21 DEF RestoreJournal
<1>22. CASE \E r \in Restorers : RefuseRestore(r)
  BY <1>22 DEF RefuseRestore
<1>23. CASE \E d \in Discarders : CheckDiscard(d)
  BY <1>23 DEF CheckDiscard
<1>24. CASE \E d \in Discarders : RefuseDiscard(d)
  BY <1>24 DEF RefuseDiscard
<1>25. CASE \E d \in Discarders : DiscardJournal(d)
  BY <1>25 DEF DiscardJournal
<1>26. CASE \E a \in Accountants : ValidateTurn(a)
  BY <1>26 DEF ValidateTurn
<1>27. CASE \E a \in Accountants : TurnAlreadyAccounted(a)
  BY <1>27 DEF TurnAlreadyAccounted
<1>28. CASE \E a \in Accountants : RefuseTurn(a)
  BY <1>28 DEF RefuseTurn
<1>29. CASE \E a \in Accountants : ChargeTurn(a)
  BY <1>29 DEF ChargeTurn
<1>30. CASE \E p \in Proc : Crash(p)
  BY <1>30 DEF Crash, Running
<1>31. CASE PowerLoss
  BY <1>31 DEF PowerLoss, Running
<1>32. CASE UNCHANGED vars
  BY <1>32 DEF vars
<1> QED
  BY <1>1, <1>2, <1>3, <1>4, <1>5, <1>6, <1>7, <1>8, <1>9, <1>10, <1>11,
     <1>12, <1>13, <1>14, <1>15, <1>16, <1>17, <1>18, <1>19, <1>20, <1>21,
     <1>22, <1>23, <1>24, <1>25, <1>26, <1>27, <1>28, <1>29, <1>30, <1>31,
     <1>32
     DEF Next, Transition, Child, Undo, Restore, Discard, AccountTurn

(***************************************************************************)
(* SoloInv holds in every state of such a system.                          *)
(***************************************************************************)
LEMMA SoloInvariance == Solo /\ Spec => []SoloInv
<1>1. Init => SoloInv
  BY ProcAssumption
     DEF Init, SoloInv, Torn, Proc, Journaled, Undoing, ChildSteps
<1>2. Solo => Solo'
  BY DEF Solo
<1> QED
  BY <1>1, <1>2, SoloStep, Invariance, PTL DEF Spec

(***************************************************************************)
(* The crash journal does its work for any number of crashes and of        *)
(* restores, as long as one transition runs with no discard and no         *)
(* account-turn beside it: torn files always have a journal that restore   *)
(* accepts.  None of the three conditions can be dropped: the README shows *)
(* how each of the three, let in, leaves a tear nothing heals.             *)
(***************************************************************************)
THEOREM SoloRecovery == Solo /\ Spec => []JournalCoversTear
<1>1. IInv /\ SoloInv => JournalCoversTear
  BY DEF IInv, JournalTracked, SoloInv, JournalCoversTear, Interrupted, JournalState,
         FileState, Torn, OwnBackup
<1> QED
  BY <1>1, Invariance, SoloInvariance, PTL

(***************************************************************************)
(* Under the same conditions a restore that reports success has brought    *)
(* all three files back to one version, and forgotten the journal.         *)
(***************************************************************************)
THEOREM RestoresHeal == Solo /\ Spec => RestoreHeals
<1> DEFINE Heals ==
      \A r \in Restorers :
          pc[r] # "restored" /\ pc'[r] = "restored" => ~Torn' /\ journal' = {}
<1>1. IInv /\ SoloInv /\ [Next]_vars => [Heals]_vars
  <2> SUFFICES ASSUME IInv, SoloInv, [Next]_vars,
                      NEW r \in Restorers, pc[r] # "restored", pc'[r] = "restored"
               PROVE  ~Torn' /\ journal' = {}
    OBVIOUS
  <2>1. FinishUndo(r)
    BY ProcAssumption
       DEF Next, Transition, Child, Undo, Restore, Discard, AccountTurn, ReadTask,
           EnterTransition, RejectTransition, WriteJournal, WriteSideEffects,
           WriteTask, StartChild, AbortTransition, ReapChild, TimeoutChild,
           CommitTransition, LockChild, CheckChild, FailChild, WriteContext,
           UndoTask, UndoContext, UndoStage, FinishUndo, LockContextForRestore,
           RestoreJournal, RefuseRestore, CheckDiscard, RefuseDiscard,
           DiscardJournal, ValidateTurn, TurnAlreadyAccounted, RefuseTurn,
           ChargeTurn, Crash, PowerLoss, vars, IInv, TypeOK, Proc
  <2>2. PICK j \in held[r] : j \in journal
    BY <2>1 DEF FinishUndo, IInv, RestoreTracked, SoloInv, Undoing
  <2>3. ~Torn
    BY <2>1, <2>2 DEF FinishUndo, SoloInv, Torn
  <2> QED
    BY <2>1, <2>3 DEF FinishUndo, files, Torn
<1> QED
  BY <1>1, Invariance, SoloInvariance, PTL DEF Spec, RestoreHeals

(***************************************************************************)
(* Nor does a restore ever begin on files that agree: the journal of a     *)
(* transition all of whose files are in place, or none, is not interrupted. *)
(***************************************************************************)
THEOREM RestoresSpareComplete == Solo /\ Spec => RestoreSparesComplete
<1> DEFINE Spares ==
      \A r \in Restorers :
          pc[r] = "lockTask" /\ pc'[r] = "undoTask" => Torn
<1>1. IInv /\ SoloInv /\ OlderRead /\ Interrupted => Torn
  <2> SUFFICES ASSUME IInv, SoloInv, OlderRead, Interrupted, ~Torn PROVE FALSE
    OBVIOUS
  <2>1. PICK j \in journal : JournalState(j) = "interrupted"
    BY DEF Interrupted
  <2>2. /\ j.after \in Mutators
        /\ j.before.task = before[j.after]
        /\ task \in {j.after, before[j.after]}
    BY DEF IInv, TypeOK, Journal, JournalTracked, OwnBackup
  <2>3. /\ j.before.task = j.before.stage
        /\ j.before.task = j.before.context.task
        /\ context = j.before.context \/ context.task = j.after
    BY DEF SoloInv
  <2>4. before[j.after] # j.after
    BY <2>2 DEF OlderRead
  <2> QED
    BY <2>1, <2>2, <2>3, <2>4 DEF JournalState, FileState, Torn
<1>2. IInv /\ SoloInv /\ OlderRead /\ [Next]_vars => [Spares]_vars
  <2> SUFFICES ASSUME IInv, SoloInv, OlderRead, [Next]_vars,
                      NEW r \in Restorers, pc[r] = "lockTask", pc'[r] = "undoTask"
               PROVE  Torn
    OBVIOUS
  <2>1. RestoreJournal(r)
    BY ProcAssumption
       DEF Next, Transition, Child, Undo, Restore, Discard, AccountTurn, ReadTask,
           EnterTransition, RejectTransition, WriteJournal, WriteSideEffects,
           WriteTask, StartChild, AbortTransition, ReapChild, TimeoutChild,
           CommitTransition, LockChild, CheckChild, FailChild, WriteContext,
           UndoTask, UndoContext, UndoStage, FinishUndo, LockContextForRestore,
           RestoreJournal, RefuseRestore, CheckDiscard, RefuseDiscard,
           DiscardJournal, ValidateTurn, TurnAlreadyAccounted, RefuseTurn,
           ChargeTurn, Crash, PowerLoss, vars, IInv, TypeOK, Proc
  <2> QED
    BY <2>1, <1>1 DEF RestoreJournal
<1>3. Init => OlderRead
  BY ProcAssumption DEF Init, OlderRead, Proc
<1> QED
  BY <1>2, <1>3, Invariance, SoloInvariance, OlderStep, PTL DEF Spec, RestoreSparesComplete


(***************************************************************************)
(* WorkflowNodes.                                                          *)
(***************************************************************************)

\* A return never moves forward: the node it repairs is before the current one.
LEMMA RepairIsBackward ==
  ASSUME NodesTyped, NEW count \in Nat, NEW target \in 2..8, target < node
  PROVE  /\ RepairNode(count, target) \in 2..8
         /\ RepairNode(count, target) < node
  BY DEF NodesTyped, PositionType, RepairNode

\* An advance accepts the current node, or nodes 2 to 6 from node 2.
LEMMA AdvanceFromNode ==
  ASSUME NodesTyped, NEW n \in 2..8, NEW v, Advance(n, v)
  PROVE  /\ node = n \/ (node = 2 /\ n = 6)
         /\ accepted = 0..(node - 1)
         /\ accepted' = 0..n
         /\ node' \in {n, n + 1}
         /\ node' \in 2..8
         /\ node' = n => status' = "ready_to_complete"
  <1>1. node = n \/ (node = 2 /\ n = 6)
    BY DEF Advance, Projected
  <1>2. accepted = 0..(node - 1)
    BY <1>1 DEF Advance, ExecutionGate, NodesTyped, PositionType
  <1>3. accepted' = accepted \cup (IF Projected(n) THEN 2..6 ELSE {n})
    BY DEF Advance
  <1>4. Projected(n) => accepted' = 0..n
    BY <1>2, <1>3 DEF Projected
  <1>5. ~Projected(n) => accepted' = 0..n
    <2> HAVE ~Projected(n)
    <2>1. node = n
      BY DEF Advance
    <2> QED
      BY <2>1, <1>2, <1>3
  <1>6. node' \in {n, n + 1} /\ node' \in 2..8
    BY DEF Advance, Finishes
  <1>7. node' = n => status' = "ready_to_complete"
    BY DEF Advance
  <1> QED
    BY <1>1, <1>2, <1>4, <1>5, <1>6, <1>7

(***************************************************************************)
(* Types.                                                                  *)
(***************************************************************************)
LEMMA PositionTypeStep == NodesTyped /\ [NodesNext]_nodeVars => PositionType'
<1> SUFFICES ASSUME NodesTyped, [NodesNext]_nodeVars PROVE PositionType'
  OBVIOUS
<1> USE DEF Mode, Idle, route, position, NodesTyped, PositionType
<1>1. CASE \E m \in Mode, l, p \in BOOLEAN : Start(m, l, p)
  BY <1>1 DEF Start
<1>2. CASE ApproveRequirements
  BY <1>2 DEF ApproveRequirements
<1>3. CASE \E m \in Mode : EscalateMode(m)
  BY <1>3 DEF EscalateMode
<1>4. CASE ReopenClarification
  BY <1>4 DEF ReopenClarification
<1>5. CASE \E g \in Gates, v \in Versions : SubmitGate(g, v)
  BY <1>5 DEF SubmitGate
<1>6. CASE \E g \in Gates : ApproveGate(g)
  BY <1>6 DEF ApproveGate
<1>7. ASSUME NEW n \in 2..8, NEW v \in VersionsOf(n), Advance(n, v) PROVE PositionType'
  <2>1. status' \in {"ready_to_complete", "in_progress"}
    BY <1>7 DEF Advance
  <2>2. node' \in 2..8
    BY <1>7, AdvanceFromNode
  <2>3. phase' = "other" /\ mode' = mode
    BY <1>7 DEF Advance
  <2> QED
    BY <2>1, <2>2, <2>3
<1>8. ASSUME NEW s \in Signatures, NEW t \in 2..8, ReturnNode(s, t) PROVE PositionType'
  <2>1. RepairNode(strikes[s] + 1, t) \in 2..8
    BY <1>8, RepairIsBackward DEF ReturnNode, StrikeCount, FailureType
  <2> QED
    BY <1>8, <2>1 DEF ReturnNode, StrikeCount
<1>9. CASE ResolveFailure
  BY <1>9 DEF ResolveFailure, ResolveAllowed
<1>10. CASE CompleteTask
  BY <1>10 DEF CompleteTask
<1>11. CASE UNCHANGED nodeVars
  BY <1>11 DEF nodeVars
<1>12. CASE RouteTemplates
  BY <1>12 DEF RouteTemplates, route, position
<1> QED
  BY <1>1, <1>2, <1>3, <1>4, <1>5, <1>6, <1>7, <1>8, <1>9, <1>10, <1>11, <1>12
     DEF NodesNext

LEMMA FlagTypeStep == NodesTyped /\ [NodesNext]_nodeVars => FlagType'
<1> SUFFICES ASSUME NodesTyped, [NodesNext]_nodeVars PROVE FlagType'
  OBVIOUS
<1> USE DEF route, position, NodesTyped, FlagType
<1>1. CASE \E m \in Mode, l, p \in BOOLEAN : Start(m, l, p)
  BY <1>1 DEF Start
<1>2. CASE ApproveRequirements
  BY <1>2 DEF ApproveRequirements
<1>3. CASE \E m \in Mode : EscalateMode(m)
  BY <1>3 DEF EscalateMode
<1>4. CASE ReopenClarification
  BY <1>4 DEF ReopenClarification
<1>5. CASE \E g \in Gates, v \in Versions : SubmitGate(g, v)
  BY <1>5 DEF SubmitGate
<1>6. CASE \E g \in Gates : ApproveGate(g)
  BY <1>6 DEF ApproveGate
<1>7. ASSUME NEW n \in 2..8, NEW v \in VersionsOf(n), Advance(n, v) PROVE FlagType'
  BY <1>7 DEF Advance
<1>8. ASSUME NEW s \in Signatures, NEW t \in 2..8, ReturnNode(s, t) PROVE FlagType'
  BY <1>8 DEF ReturnNode, StrikeCount
<1>9. CASE ResolveFailure
  BY <1>9 DEF ResolveFailure, ResolveAllowed
<1>10. CASE CompleteTask
  BY <1>10 DEF CompleteTask
<1>11. CASE UNCHANGED nodeVars
  BY <1>11 DEF nodeVars
<1>12. CASE RouteTemplates
  BY <1>12 DEF RouteTemplates, route, position
<1> QED
  BY <1>1, <1>2, <1>3, <1>4, <1>5, <1>6, <1>7, <1>8, <1>9, <1>10, <1>11, <1>12
     DEF NodesNext

LEMMA EvidenceTypeStep == NodesTyped /\ [NodesNext]_nodeVars => EvidenceType'
<1> SUFFICES ASSUME NodesTyped, [NodesNext]_nodeVars PROVE EvidenceType'
  OBVIOUS
<1> USE DEF evidence, gates, None, NoArtifacts, NodesTyped, EvidenceType
<1>1. CASE \E m \in Mode, l, p \in BOOLEAN : Start(m, l, p)
  BY <1>1 DEF Start
<1>2. CASE ApproveRequirements
  BY <1>2 DEF ApproveRequirements
<1>3. CASE \E m \in Mode : EscalateMode(m)
  BY <1>3 DEF EscalateMode
<1>4. CASE ReopenClarification
  BY <1>4 DEF ReopenClarification
<1>5. CASE \E g \in Gates, v \in Versions : SubmitGate(g, v)
  BY <1>5 DEF SubmitGate
<1>6. CASE \E g \in Gates : ApproveGate(g)
  BY <1>6 DEF ApproveGate
<1>7. ASSUME NEW n \in 2..8, NEW v \in VersionsOf(n), Advance(n, v) PROVE EvidenceType'
  <2>1. accepted' = 0..n
    BY <1>7, AdvanceFromNode
  <2>2. v \in Versions \cup {Unbound}
    BY DEF VersionsOf
  <2> QED
    BY <1>7, <2>1, <2>2 DEF Advance
<1>8. ASSUME NEW s \in Signatures, NEW t \in 2..8, ReturnNode(s, t) PROVE EvidenceType'
  BY <1>8 DEF ReturnNode, StrikeCount
<1>9. CASE ResolveFailure
  BY <1>9 DEF ResolveFailure, ResolveAllowed
<1>10. CASE CompleteTask
  BY <1>10 DEF CompleteTask
<1>11. CASE UNCHANGED nodeVars
  BY <1>11 DEF nodeVars
<1>12. CASE RouteTemplates
  BY <1>12 DEF RouteTemplates, evidence, gates
<1> QED
  BY <1>1, <1>2, <1>3, <1>4, <1>5, <1>6, <1>7, <1>8, <1>9, <1>10, <1>11, <1>12
     DEF NodesNext

LEMMA FailureTypeStep == NodesTyped /\ [NodesNext]_nodeVars => FailureType'
<1> SUFFICES ASSUME NodesTyped, [NodesNext]_nodeVars PROVE FailureType'
  OBVIOUS
<1> USE DEF failures, NoEscalation, Entry, NodesTyped, FailureType
<1>1. CASE \E m \in Mode, l, p \in BOOLEAN : Start(m, l, p)
  BY <1>1 DEF Start
<1>2. CASE ApproveRequirements
  BY <1>2 DEF ApproveRequirements
<1>3. CASE \E m \in Mode : EscalateMode(m)
  BY <1>3 DEF EscalateMode
<1>4. CASE ReopenClarification
  BY <1>4 DEF ReopenClarification
<1>5. CASE \E g \in Gates, v \in Versions : SubmitGate(g, v)
  BY <1>5 DEF SubmitGate
<1>6. CASE \E g \in Gates : ApproveGate(g)
  BY <1>6 DEF ApproveGate
<1>7. ASSUME NEW n \in 2..8, NEW v \in VersionsOf(n), Advance(n, v) PROVE FailureType'
  BY <1>7 DEF Advance
<1>8. ASSUME NEW s \in Signatures, NEW t \in 2..8, ReturnNode(s, t) PROVE FailureType'
  BY <1>8 DEF ReturnNode, StrikeCount
<1>9. CASE ResolveFailure
  BY <1>9 DEF ResolveFailure, ResolveAllowed
<1>10. CASE CompleteTask
  BY <1>10 DEF CompleteTask
<1>11. CASE UNCHANGED nodeVars
  BY <1>11 DEF nodeVars
<1>12. CASE RouteTemplates
  BY <1>12 DEF RouteTemplates, failures
<1> QED
  BY <1>1, <1>2, <1>3, <1>4, <1>5, <1>6, <1>7, <1>8, <1>9, <1>10, <1>11, <1>12
     DEF NodesNext

LEMMA NodesTypeStep == NodesTyped /\ [NodesNext]_nodeVars => NodesTyped'
  BY PositionTypeStep, FlagTypeStep, EvidenceTypeStep, FailureTypeStep DEF NodesTyped

(***************************************************************************)
(* The chain of accepted nodes.                                            *)
(***************************************************************************)
LEMMA PrefixStep == NodesTyped /\ AcceptedPrefix /\ [NodesNext]_nodeVars => AcceptedPrefix'
<1> SUFFICES ASSUME NodesTyped, AcceptedPrefix, [NodesNext]_nodeVars PROVE AcceptedPrefix'
  OBVIOUS
<1> USE DEF AcceptedPrefix, Idle
<1>1. CASE \E m \in Mode, l, p \in BOOLEAN : Start(m, l, p)
  BY <1>1 DEF Start
<1>2. CASE ApproveRequirements
  BY <1>2 DEF ApproveRequirements
<1>3. CASE \E m \in Mode : EscalateMode(m)
  BY <1>3 DEF EscalateMode
<1>4. CASE ReopenClarification
  BY <1>4 DEF ReopenClarification
<1>5. CASE \E g \in Gates, v \in Versions : SubmitGate(g, v)
  BY <1>5 DEF SubmitGate, evidence
<1>6. CASE \E g \in Gates : ApproveGate(g)
  BY <1>6 DEF ApproveGate, evidence
<1>7. ASSUME NEW n \in 2..8, NEW v \in VersionsOf(n), Advance(n, v)
      PROVE AcceptedPrefix'
  <2>1. accepted' = 0..n /\ node' \in {n, n + 1}
    BY <1>7, AdvanceFromNode
  <2> QED
    BY <2>1
<1>8. ASSUME NEW s \in Signatures, NEW t \in 2..8, ReturnNode(s, t)
      PROVE AcceptedPrefix'
  <2> DEFINE target == RepairNode(strikes[s] + 1, t)
  <2>1. target \in 2..8 /\ target < node
    BY <1>8, RepairIsBackward DEF ReturnNode, StrikeCount, NodesTyped, PositionType, FailureType
  <2>2. accepted = 0..node \/ accepted = 0..(node - 1)
    BY <1>8, <2>1 DEF ReturnNode, StrikeCount, ExecutionGate, NodesTyped, PositionType
  <2>3. {n \in accepted : n < target} = 0..(target - 1)
    BY <2>1, <2>2 DEF NodesTyped, PositionType
  <2> QED
    BY <1>8, <2>3 DEF ReturnNode, StrikeCount
<1>9. CASE ResolveFailure
  BY <1>9 DEF ResolveFailure, evidence
<1>10. CASE CompleteTask
  BY <1>10 DEF CompleteTask
<1>11. CASE UNCHANGED nodeVars
  BY <1>11 DEF nodeVars, position, evidence
<1>12. CASE RouteTemplates
  BY <1>12 DEF RouteTemplates, position, evidence
<1> QED
  BY <1>1, <1>2, <1>3, <1>4, <1>5, <1>6, <1>7, <1>8, <1>9, <1>10, <1>11, <1>12
     DEF NodesNext

(***************************************************************************)
(* The third strike.                                                       *)
(***************************************************************************)

\* While an unruled third strike is held, the failure gate is shut.
LEMMA HeldShutsGate == NodesTyped /\ StrikeHeld => ThirdStrikeNeedsHuman
  BY DEF StrikeHeld, ThirdStrikeNeedsHuman, FailureGate

LEMMA StrikeStep == NodesTyped /\ StrikeHeld /\ [NodesNext]_nodeVars => StrikeHeld'
<1> SUFFICES ASSUME NodesTyped, StrikeHeld, [NodesNext]_nodeVars PROVE StrikeHeld'
  OBVIOUS
<1>0. ASSUME UNCHANGED <<escalation, strikes, last, ruled>> PROVE StrikeHeld'
  BY <1>0 DEF StrikeHeld
<1>1. CASE \E m \in Mode, l, p \in BOOLEAN : Start(m, l, p)
  BY <1>1 DEF Start, StrikeHeld
<1>2. CASE ApproveRequirements
  BY <1>0, <1>2 DEF ApproveRequirements, failures
<1>3. CASE \E m \in Mode : EscalateMode(m)
  BY <1>0, <1>3 DEF EscalateMode, failures
<1>4. CASE ReopenClarification
  BY <1>0, <1>4 DEF ReopenClarification, failures
<1>5. CASE \E g \in Gates, v \in Versions : SubmitGate(g, v)
  BY <1>0, <1>5 DEF SubmitGate, failures
<1>6. CASE \E g \in Gates : ApproveGate(g)
  BY <1>0, <1>6 DEF ApproveGate, failures
<1>7. ASSUME NEW n \in 2..8, NEW v, Advance(n, v) PROVE StrikeHeld'
  <2>1. \A s \in Signatures : ~(strikes[s] >= 3 /\ <<s, strikes[s]>> \notin ruled)
    BY <1>7, HeldShutsGate DEF Advance, ThirdStrikeNeedsHuman
  <2>2. UNCHANGED <<strikes, ruled>>
    BY <1>7 DEF Advance, failures
  <2> QED
    BY <2>1, <2>2 DEF StrikeHeld
<1>8. ASSUME NEW s \in Signatures, NEW t \in 2..8, ReturnNode(s, t)
      PROVE StrikeHeld'
  <2> SUFFICES ASSUME NEW r \in Signatures, strikes'[r] >= 3,
                      <<r, strikes'[r]>> \notin ruled'
               PROVE  escalation'.state = "pending" /\ last' = <<r, strikes'[r]>>
    BY DEF StrikeHeld
  <2>1. strikes' = [strikes EXCEPT ![s] = strikes[s] + 1] /\ ruled' = ruled
    BY <1>8 DEF ReturnNode, StrikeCount
  <2>2. r = s
    <3> SUFFICES ASSUME r # s PROVE FALSE
      OBVIOUS
    <3>1. strikes'[r] = strikes[r]
      BY <2>1 DEF NodesTyped, FailureType
    <3>2. ~FailureGate
      BY <2>1, <3>1, HeldShutsGate DEF ThirdStrikeNeedsHuman
    <3> QED
      BY <1>8, <3>2 DEF ReturnNode, StrikeCount
  <2>3. strikes'[s] = strikes[s] + 1
    BY <2>1 DEF NodesTyped, FailureType
  <2> QED
    BY <1>8, <2>2, <2>3 DEF ReturnNode, StrikeCount
<1>9. CASE ResolveFailure
  <2>1. ruled' = ruled \cup {last} /\ UNCHANGED <<strikes, last>>
    BY <1>9 DEF ResolveFailure
  <2> QED
    BY <2>1 DEF StrikeHeld
<1>10. CASE CompleteTask
  BY <1>0, <1>10 DEF CompleteTask, failures
<1>11. CASE UNCHANGED nodeVars
  BY <1>0, <1>11 DEF nodeVars, failures
<1>12. CASE RouteTemplates
  BY <1>0, <1>12 DEF RouteTemplates, failures
<1> QED
  BY <1>1, <1>2, <1>3, <1>4, <1>5, <1>6, <1>7, <1>8, <1>9, <1>10, <1>11, <1>12
     DEF NodesNext

(***************************************************************************)
(* The gates.                                                              *)
(***************************************************************************)

\* What GateHeld says of one gate, as a rule: the part of TASK it reads.
LEMMA GateKept ==
  ASSUME NodesInv, NEW g \in Gates,
         node > GateNode[g] \/ status \in {"ready_to_complete", "accepted"},
         Demanded(g)', UNCHANGED route,
         GateNode[g] \in accepted' => GateNode[g] \in accepted,
         GateNode[g] \in accepted' /\ GateNode[g] \in DOMAIN artifacts \cap DOMAIN artifacts'
            => artifacts'[GateNode[g]] = artifacts[GateNode[g]],
         GateNode[g] \in accepted' /\ GateNode[g] \in DOMAIN artifacts
            => GateNode[g] \in DOMAIN artifacts',
         approvals'[g] = approvals[g]
  PROVE  GateHolds(g)'
  <1>1. Demanded(g)
    BY DEF Demanded, route, LightweightStandard, Lightweight
  <1>2. GateHolds(g)
    BY <1>1 DEF NodesInv, GateHeld
  <1> QED
    BY <1>2 DEF GateHolds

LEMMA GateStep == NodesInv /\ [NodesNext]_nodeVars => GateHeld'
<1> SUFFICES ASSUME NodesInv, [NodesNext]_nodeVars, NEW g \in Gates,
                    (Demanded(g))',
                    node' > GateNode[g] \/ status' \in {"ready_to_complete", "accepted"}
             PROVE  GateHolds(g)'
  BY DEF GateHeld
<1>0. /\ node \in 0..8 /\ GateNode[g] \in {4, 7, 8}
      /\ approvals \in [Gates -> Versions \cup {NoVersion}]
  BY DEF NodesInv, NodesTyped, PositionType, EvidenceType, Gates, GateNode
<1>1. CASE \E m \in Mode, l, p \in BOOLEAN : Start(m, l, p)
  BY <1>0, <1>1 DEF Start
<1>2. CASE ApproveRequirements
  BY <1>0, <1>2 DEF ApproveRequirements
<1>3. CASE \E m \in Mode : EscalateMode(m)
  BY <1>0, <1>3 DEF EscalateMode
<1>4. CASE ReopenClarification
  BY <1>0, <1>4 DEF ReopenClarification
<1>5. ASSUME NEW h \in Gates, NEW v \in Versions, SubmitGate(h, v) PROVE GateHolds(g)'
  <2>1. node = GateNode[h] /\ node > GateNode[g]
    BY <1>5 DEF SubmitGate
  <2>2. UNCHANGED <<route, evidence>> /\ approvals'[g] = approvals[g]
    BY <1>0, <1>5, <2>1 DEF SubmitGate
  <2> QED
    BY <2>1, <2>2, GateKept DEF evidence
<1>6. ASSUME NEW h \in Gates, ApproveGate(h) PROVE GateHolds(g)'
  <2>1. node > GateNode[g]
    BY <1>6 DEF ApproveGate
  <2>2. h # g
    BY <1>0, <1>6, <2>1 DEF ApproveGate, GateNode
  <2>3. UNCHANGED <<route, evidence>> /\ approvals'[g] = approvals[g]
    BY <1>0, <1>6, <2>2 DEF ApproveGate
  <2> QED
    BY <2>1, <2>3, GateKept DEF evidence
<1>7. ASSUME NEW n \in 2..8, NEW v \in VersionsOf(n), Advance(n, v) PROVE GateHolds(g)'
  <2>0. NodesTyped
    BY DEF NodesInv
  <2>1. /\ node = n \/ (node = 2 /\ n = 6)
        /\ accepted = 0..(node - 1)
        /\ accepted' = 0..n
    BY <1>7, <2>0, AdvanceFromNode
  <2>2. UNCHANGED <<route, approvals>>
    BY <1>7 DEF Advance, gates
  <2>3. artifacts' = [k \in DOMAIN artifacts \cup {n} |-> IF k = n THEN v ELSE artifacts[k]]
    BY <1>7 DEF Advance
  <2>4. CASE GateNode[g] = n
    <3>1. g \in RequiredGate(n)
      BY <1>0, <2>2, <2>4 DEF RequiredGate, Demanded, route, Gates, GateNode,
         LightweightStandard, Lightweight
    <3>2. approvals[g] = v
      BY <1>7, <3>1 DEF Advance
    <3> QED
      BY <2>2, <2>3, <2>4, <3>2 DEF GateHolds
  <2>5. CASE GateNode[g] # n /\ GateNode[g] \in accepted'
    <3>1. GateNode[g] < n
      BY <1>0, <2>1, <2>5
    <3>2. node = n
      <4> SUFFICES ASSUME node # n PROVE FALSE
        OBVIOUS
      <4>1. Projected(n)
        BY <1>7 DEF Advance
      <4>2. mode = "fast" \/ LightweightStandard
        BY <4>1, <2>0 DEF Projected, Lightweight, LightweightStandard, Mode, NodesTyped,
           PositionType
      <4>3. g = "solution"
        BY <2>1, <3>1, <1>0 DEF Gates, GateNode
      <4> QED
        BY <4>2, <4>3, <2>2 DEF Demanded, LightweightStandard, Lightweight, route
    <3>3. node > GateNode[g] /\ GateNode[g] \in accepted
      BY <1>0, <2>1, <3>1, <3>2
    <3> QED
      BY <2>2, <2>3, <2>5, <3>3, GateKept
  <2>6. CASE GateNode[g] \notin accepted'
    BY <2>6 DEF GateHolds
  <2> QED
    BY <2>4, <2>5, <2>6
<1>8. ASSUME NEW s \in Signatures, NEW t \in 2..8, ReturnNode(s, t) PROVE GateHolds(g)'
  <2> DEFINE target == RepairNode(strikes[s] + 1, t)
  <2>1. target \in 2..8 /\ target < node
    BY <1>8, RepairIsBackward DEF ReturnNode, StrikeCount, NodesInv, NodesTyped, FailureType
  <2>2. /\ node' = target
        /\ status' \in {"waiting_human", "in_progress"}
        /\ accepted' = {n \in accepted : n < target}
        /\ artifacts' = [n \in {k \in DOMAIN artifacts : k < target} |-> artifacts[n]]
        /\ UNCHANGED <<route, approvals>>
    BY <1>8 DEF ReturnNode, StrikeCount, gates
  <2>3. node > GateNode[g] /\ target > GateNode[g]
    BY <1>0, <2>1, <2>2
  <2> QED
    BY <1>0, <2>1, <2>2, <2>3, GateKept
<1>9. CASE ResolveFailure
  <2>1. node > GateNode[g]
    BY <1>9 DEF ResolveFailure
  <2>2. UNCHANGED <<route, evidence, approvals>>
    BY <1>9 DEF ResolveFailure, gates
  <2> QED
    BY <2>1, <2>2, GateKept DEF evidence
<1>10. CASE CompleteTask
  <2>1. status = "ready_to_complete" /\ UNCHANGED <<route, evidence, approvals>>
    BY <1>10 DEF CompleteTask, gates
  <2> QED
    BY <2>1, GateKept DEF evidence
<1>11. CASE UNCHANGED nodeVars
  <2>1. UNCHANGED <<route, position, evidence, approvals>>
    BY <1>11 DEF nodeVars, gates
  <2> QED
    BY <2>1, GateKept DEF evidence, position
<1>12. CASE RouteTemplates
  <2>1. UNCHANGED <<route, position, evidence, approvals>>
    BY <1>12 DEF RouteTemplates, gates
  <2> QED
    BY <2>1, GateKept DEF evidence, position
<1> QED
  BY <1>1, <1>2, <1>3, <1>4, <1>5, <1>6, <1>7, <1>8, <1>9, <1>10, <1>11, <1>12
     DEF NodesNext

(***************************************************************************)
(* The records of the nodes.                                               *)
(***************************************************************************)

\* While requirements are open, no node after the first has a record: only an advance
\* makes one, and it asks for clarified requirements.
EvidenceKept ==
    /\ EvidenceMatchesNodes
    /\ ~clarified => DOMAIN artifacts \subseteq {1}

LEMMA EvidenceStep == NodesTyped /\ EvidenceKept /\ [NodesNext]_nodeVars => EvidenceKept'
<1> SUFFICES ASSUME NodesTyped, EvidenceKept, [NodesNext]_nodeVars PROVE EvidenceKept'
  OBVIOUS
<1> USE DEF EvidenceKept, EvidenceMatchesNodes, Lightweight, NoArtifacts
<1>0. ASSUME UNCHANGED <<route, clarified, evidence>> PROVE EvidenceKept'
  BY <1>0 DEF route, evidence
<1>1. CASE \E m \in Mode, l, p \in BOOLEAN : Start(m, l, p)
  BY <1>1 DEF Start
<1>2. CASE ApproveRequirements
  <2>1. DOMAIN artifacts \subseteq {1}
    BY <1>2 DEF ApproveRequirements
  <2>2. DOMAIN artifacts' = {1} /\ accepted' = {0, 1}
    BY <1>2, <2>1 DEF ApproveRequirements
  <2> QED
    BY <2>2
<1>3. CASE \E m \in Mode : EscalateMode(m)
  <2>1. DOMAIN artifacts' \subseteq {1} /\ accepted' = {0, 1}
    BY <1>3 DEF EscalateMode
  <2> QED
    BY <2>1
<1>4. CASE ReopenClarification
  <2>1. DOMAIN artifacts' = {} /\ accepted' = {0}
    BY <1>4 DEF ReopenClarification
  <2> QED
    BY <2>1
<1>5. CASE \E g \in Gates, v \in Versions : SubmitGate(g, v)
  BY <1>0, <1>5 DEF SubmitGate
<1>6. CASE \E g \in Gates : ApproveGate(g)
  BY <1>0, <1>6 DEF ApproveGate
<1>7. ASSUME NEW n \in 2..8, NEW v \in VersionsOf(n), Advance(n, v) PROVE EvidenceKept'
  <2>1. clarified /\ clarified' = clarified /\ UNCHANGED route
    BY <1>7 DEF Advance, ExecutionGate
  <2>2. DOMAIN artifacts' = DOMAIN artifacts \cup {n}
    BY <1>7 DEF Advance
  <2>3. mode # "fast" /\ ~Lightweight => accepted' = accepted \cup {n}
    BY <1>7 DEF Advance, Projected
  <2> QED
    BY <2>1, <2>2, <2>3 DEF route
<1>8. ASSUME NEW s \in Signatures, NEW t \in 2..8, ReturnNode(s, t) PROVE EvidenceKept'
  <2> DEFINE target == RepairNode(strikes[s] + 1, t)
  <2>1. target \in 2..8
    BY <1>8, RepairIsBackward DEF ReturnNode, StrikeCount, NodesTyped, FailureType
  <2>2. clarified /\ clarified' = clarified /\ UNCHANGED route
    BY <1>8 DEF ReturnNode, ExecutionGate
  <2>3. /\ accepted' = {n \in accepted : n < target}
        /\ DOMAIN artifacts' = {n \in DOMAIN artifacts : n < target}
    BY <1>8 DEF ReturnNode, StrikeCount
  <2> HIDE DEF target
  <2> QED
    BY <2>1, <2>2, <2>3 DEF route
<1>9. CASE ResolveFailure
  BY <1>0, <1>9 DEF ResolveFailure
<1>10. CASE CompleteTask
  BY <1>0, <1>10 DEF CompleteTask
<1>11. CASE UNCHANGED nodeVars
  BY <1>0, <1>11 DEF nodeVars, position
<1>12. CASE RouteTemplates
  BY <1>0, <1>12 DEF RouteTemplates, position
<1> QED
  BY <1>1, <1>2, <1>3, <1>4, <1>5, <1>6, <1>7, <1>8, <1>9, <1>10, <1>11, <1>12
     DEF NodesNext

(***************************************************************************)
(* The theorems.                                                           *)
(***************************************************************************)
LEMMA InitInv == NodesInit => NodesInv
<1> SUFFICES ASSUME NodesInit PROVE NodesInv
  OBVIOUS
<1>1. PositionType
  BY DEF NodesInit, PositionType, Idle, Mode
<1>2. FlagType
  BY DEF NodesInit, FlagType
<1>3. EvidenceType
  BY DEF NodesInit, EvidenceType, None, NoArtifacts
<1>4. FailureType
  BY DEF NodesInit, FailureType, NoEscalation, Entry
<1>5. AcceptedPrefix /\ StrikeHeld
  BY DEF NodesInit, AcceptedPrefix, StrikeHeld, Idle
<1>6. GateHeld
  BY DEF NodesInit, GateHeld, GateNode, Gates, Idle
<1> QED
  BY <1>1, <1>2, <1>3, <1>4, <1>5, <1>6 DEF NodesInv, NodesTyped

\* The inductive invariant holds in every reachable state, for any set of root
\* causes and artifact contents.
THEOREM NodesInvariance == NodesSpec => []NodesInv
<1>1. NodesInv /\ [NodesNext]_nodeVars => NodesInv'
  BY NodesTypeStep, PrefixStep, StrikeStep, GateStep DEF NodesInv
<1> QED
  BY InitInv, <1>1, PTL DEF NodesSpec

\* Every field of TASK keeps its type (command_advance, command_return and the
\* agentctl commands never leave node 0-8 or an unknown status).
THEOREM NodesTypeCorrect == NodesSpec => []NodesTyped
<1>1. NodesInv => NodesTyped
  BY DEF NodesInv
<1> QED
  BY NodesInvariance, <1>1, PTL

\* The accepted nodes are always the nodes up to the current one: no path of
\* advance, return-node, escalate-mode and reopen-clarification leaves a hole.
THEOREM NoHoles == NodesSpec => []AcceptedPrefix
<1>1. NodesInv => AcceptedPrefix
  BY DEF NodesInv
<1> QED
  BY NodesInvariance, <1>1, PTL

\* On the full routes a node from 2 on is accepted exactly as long as its artifact is on
\* record (EvidenceMatchesNodes): command_advance writes both, command_return, escalate-mode
\* and reopen-clarification forget both.
THEOREM RecordsFollowNodes == NodesSpec => []EvidenceMatchesNodes
<1>1. NodesInit => EvidenceKept
  BY DEF NodesInit, EvidenceKept, EvidenceMatchesNodes, NoArtifacts
<1>2. NodesTyped /\ EvidenceKept /\ [NodesNext]_nodeVars => EvidenceKept'
  BY EvidenceStep
<1>3. EvidenceKept => EvidenceMatchesNodes
  BY DEF EvidenceKept
<1> QED
  BY <1>1, <1>2, <1>3, NodesTypeCorrect, PTL DEF NodesSpec

\* The third recurrence of a root cause shuts the failure gate until a human has
\* ruled on that recurrence (failure_escalation_gate).
THEOREM StrikesStopTheTask == NodesSpec => []ThirdStrikeNeedsHuman
<1>1. NodesInv => ThirdStrikeNeedsHuman
  BY HeldShutsGate DEF NodesInv
<1> QED
  BY NodesInvariance, <1>1, PTL

\* A ready or completed task has a human approval of exactly the artifact each
\* demanded node was accepted with (command_advance, workflow_validation_errors).
THEOREM CompletionIsApproved == NodesSpec => []GatesHonoured
<1>1. NodesInv => GatesHonoured
  BY DEF NodesInv, GateHeld, Demanded, GatesHonoured, GateApprovalsValid, Gates
<1> QED
  BY NodesInvariance, <1>1, PTL
=============================================================================
