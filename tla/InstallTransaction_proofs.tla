------------------------ MODULE InstallTransaction_proofs ------------------------
(***************************************************************************)
(* Proofs about InstallTransaction, for any number of targets, commands,   *)
(* transactions and edits.  IInv is inductive: one lemma for each of its   *)
(* parts, one case per action.                                             *)
(***************************************************************************)
EXTENDS InstallTransaction, TLAPS

\* A file is not None, and changing a field of it makes a file.
LEMMA FileIsFile ==
  ASSUME NEW f \in File
  PROVE  /\ f # None
         /\ f.id \in Int /\ f.data \in Int \cup {Torn} /\ f.private \in Nat
BY InstallAssumption DEF File

LEMMA EditedFile ==
  ASSUME NEW f \in File, NEW d \in Int \cup {Torn}
  PROVE  /\ [f EXCEPT !.data = d] \in File
         /\ [f EXCEPT !.data = d].id = f.id
         /\ [f EXCEPT !.data = d].data = d
BY DEF File

LEMMA WrittenFile ==
  ASSUME NEW f \in File, NEW p \in Nat
  PROVE  /\ [f EXCEPT !.private = p] \in File
         /\ [f EXCEPT !.private = p].id = f.id
         /\ [f EXCEPT !.private = p].data = f.data
<1>1. [f EXCEPT !.private = p] \in File
  BY DEF File
<1>2. [f EXCEPT !.private = p].id = f.id
  BY DEF File
<1>3. [f EXCEPT !.private = p].data = f.data
  BY DEF File
<1> QED
  BY <1>1, <1>2, <1>3

LEMMA MadeFile ==
  ASSUME NEW i \in Int, NEW d \in Int \cup {Torn}, NEW p \in Nat
  PROVE  /\ [id |-> i, data |-> d, private |-> p] \in File
         /\ [id |-> i, data |-> d, private |-> p] # None
BY InstallAssumption DEF File

LEMMA FirstIsLabel == 1 \in Label /\ Label \subseteq Nat
BY InstallAssumption DEF Label

(***************************************************************************)
(* Types, in five parts.                                                   *)
(***************************************************************************)
Files == [Label -> File \cup {None}]

FileTypes ==
    /\ target \in Files
    /\ candidate \in Files
    /\ backup \in Files
    /\ installed \in Files

StepTypes ==
    /\ staging \in {"none", "bare", "marked"}
    /\ journal \in {"none", "partial", "initializing", "staging", "committing", "committed"}
    /\ pc \in Steps
    /\ cmd \in [Commands -> {"idle", "locked", "running"}]

NumberTypes == tx \in Nat /\ next \in 0..(Last + 1) /\ edits \in Nat /\ writes \in Nat

FlagTypes == root \in BOOLEAN /\ recovering \in BOOLEAN /\ retried \in BOOLEAN

LEMMA TypesTogether ==
  TypeOK <=> FileTypes /\ StepTypes /\ NumberTypes /\ FlagTypes /\ plan \in Plan
BY DEF TypeOK, Files, FileTypes, StepTypes, NumberTypes, FlagTypes

LEMMA FileTypesStep ==
  ASSUME plan \in Plan, FileTypes, StepTypes, NumberTypes, NextFollows,
         [Next]_vars
  PROVE  FileTypes'
<1> USE InstallAssumption DEF Goto, GotoAt, disk, context, history,
        FileTypes, Files, Nothing
<1>1. CASE Acquire
  BY <1>1 DEF Acquire
<1>2. CASE Recover
  BY <1>2 DEF Recover
<1>3. CASE Release
  BY <1>3 DEF Release
<1>4. CASE \E targets, removes \in SUBSET Label : MakePlan(targets, removes)
  BY <1>4 DEF MakePlan
<1>5. CASE CreateJournal
  BY <1>5 DEF CreateJournal
<1>6. CASE WriteJournal
  BY <1>6 DEF WriteJournal
<1>7. CASE MakeStaging
  BY <1>7 DEF MakeStaging
<1>8. CASE MarkStaging
  BY <1>8 DEF MarkStaging
<1>9. CASE BeginStaging
  BY <1>9 DEF BeginStaging
<1>10. CASE Stage
  <2>1. \A l \in Label : target[l] # None => target[l].private \in Nat
    BY FileIsFile
  <2>2. \A p \in Nat : [id |-> tx, data |-> tx, private |-> p] \in File
    BY MadeFile DEF NumberTypes
  <2> QED
    BY <1>10, <2>1, <2>2 DEF Stage
<1>11. CASE AbortStaging
  BY <1>11 DEF AbortStaging
<1>12. CASE StartCommit
  BY <1>12 DEF StartCommit
<1>13. CASE CreateDirectory
  BY <1>13 DEF CreateDirectory
<1>14. CASE CheckOriginal
  BY <1>14 DEF CheckOriginal
<1>15. CASE BackUp
  BY <1>15 DEF BackUp
<1>16. CASE Observe
  BY <1>16 DEF Observe
<1>17. CASE Rebind
  BY <1>17 DEF Rebind
<1>18. CASE PutBack
  BY <1>18 DEF PutBack
<1>19. CASE Redigest
  BY <1>19 DEF Redigest
<1>20. CASE Install
  BY <1>20 DEF Install
<1>21. CASE Verify
  BY <1>21 DEF Verify
<1>22. CASE Commit
  <2>1. [id |-> tx, data |-> tx, private |-> 0] \in File
    BY MadeFile DEF NumberTypes
  <2> QED
    BY <1>22, <2>1 DEF Commit
<1>23. CASE FailCommit
  BY <1>23 DEF FailCommit
<1>24. CASE Validate
  BY <1>24 DEF Validate
<1>25. CASE Undo
  BY <1>25 DEF Undo
<1>26. CASE UndoRemove
  <2>1. target[next] # None => [target[next] EXCEPT !.data = Torn] \in File
    BY <1>26, EditedFile DEF UndoRemove, NextFollows, UndoSteps, Plan
  <2> QED
    BY <1>26, <2>1 DEF UndoRemove
<1>27. CASE UndoRestore
  BY <1>27 DEF UndoRestore
<1>28. CASE UndoRestored
  BY <1>28 DEF UndoRestored
<1>29. CASE UndoRefused
  BY <1>29 DEF UndoRefused
<1>30. CASE UndoDirectory
  BY <1>30 DEF UndoDirectory
<1>31. CASE EmptyStaging
  BY <1>31 DEF EmptyStaging
<1>32. CASE RemoveStaging
  BY <1>32 DEF RemoveStaging
<1>33. CASE RemoveJournal
  BY <1>33 DEF RemoveJournal
<1>34. CASE Crash
  BY <1>34 DEF Crash
<1>35. CASE \E c \in Commands : Lock(c)
  BY <1>35 DEF Lock
<1>36. CASE \E c \in Commands : Enter(c)
  BY <1>36 DEF Enter
<1>37. CASE \E c \in Commands : WritePrivate(c)
  <2>1. target[1] # None => target[1] \in File
    BY FirstIsLabel
  <2>2. target[1] # None => target[1].private + 1 \in Nat
    BY <2>1, FileIsFile
  <2>3. target[1] # None => [target[1] EXCEPT !.private = target[1].private + 1] \in File
    BY <2>1, <2>2, WrittenFile
  <2> QED
    BY <1>37, <2>3 DEF WritePrivate
<1>38. CASE \E c \in Commands : Leave(c)
  BY <1>38 DEF Leave
<1>39. CASE \E l \in Label : EditInPlace(l)
  <2> PICK l \in Label : EditInPlace(l)
    BY <1>39
  <2>1. Edited \in Int
    BY DEF Edited, NumberTypes
  <2>2. [target[l] EXCEPT !.data = Edited] \in File
    BY <2>1, EditedFile DEF EditInPlace
  <2> QED
    BY <2>2 DEF EditInPlace
<1>40. CASE \E l \in Label : EditMoved(l)
  <2> PICK l \in Label : EditMoved(l)
    BY <1>40
  <2>1. Edited \in Int
    BY DEF Edited, NumberTypes
  <2>2. [backup[l] EXCEPT !.data = Edited] \in File
    BY <2>1, EditedFile DEF EditMoved
  <2> QED
    BY <2>2 DEF EditMoved
<1>41. CASE \E l \in Label : EditAnew(l)
  <2> PICK l \in Label : EditAnew(l)
    BY <1>41
  <2>1. Edited \in Int
    BY DEF Edited, NumberTypes
  <2>2. target[l] # None => target[l].private \in Nat
    BY FileIsFile
  <2>3. [id |-> Edited, data |-> Edited,
         private |-> IF target[l] = None THEN 0 ELSE target[l].private] \in File
    BY <2>1, <2>2, MadeFile
  <2> QED
    BY <2>3 DEF EditAnew
<1>42. CASE UNCHANGED vars
  BY <1>42 DEF vars
<1> QED
  BY <1>1, <1>2, <1>3, <1>4, <1>5, <1>6, <1>7, <1>8, <1>9, <1>10, <1>11,
     <1>12, <1>13, <1>14, <1>15, <1>16, <1>17, <1>18, <1>19, <1>20, <1>21,
     <1>22, <1>23, <1>24, <1>25, <1>26, <1>27, <1>28, <1>29, <1>30, <1>31,
     <1>32, <1>33, <1>34, <1>35, <1>36, <1>37, <1>38, <1>39, <1>40, <1>41,
     <1>42
     DEF Next, Installer, Begins, Commits, RollsBack, CleansUp, Command

LEMMA StepTypesStep ==
  ASSUME StepTypes, NumberTypes, [Next]_vars
  PROVE  StepTypes'
<1> USE InstallAssumption DEF Goto, GotoAt, disk, context, history,
        StepTypes, Steps, CommitSteps, UndoSteps, PreSteps, CleanSteps
<1>1. CASE Acquire
  BY <1>1 DEF Acquire
<1>2. CASE Recover
  BY <1>2 DEF Recover, RecoveryStep
<1>3. CASE Release
  BY <1>3 DEF Release
<1>4. CASE \E targets, removes \in SUBSET Label : MakePlan(targets, removes)
  <2> PICK targets, removes \in SUBSET Label : MakePlan(targets, removes)
    BY <1>4
  <2> QED
    BY DEF MakePlan
<1>5. CASE CreateJournal
  BY <1>5 DEF CreateJournal
<1>6. CASE WriteJournal
  BY <1>6 DEF WriteJournal
<1>7. CASE MakeStaging
  BY <1>7 DEF MakeStaging
<1>8. CASE MarkStaging
  BY <1>8 DEF MarkStaging
<1>9. CASE BeginStaging
  BY <1>9 DEF BeginStaging
<1>10. CASE Stage
  BY <1>10 DEF Stage
<1>11. CASE AbortStaging
  BY <1>11 DEF AbortStaging
<1>12. CASE StartCommit
  BY <1>12 DEF StartCommit
<1>13. CASE CreateDirectory
  BY <1>13 DEF CreateDirectory, GotoNext, Begin
<1>14. CASE CheckOriginal
  BY <1>14 DEF CheckOriginal
<1>15. CASE BackUp
  BY <1>15 DEF BackUp
<1>16. CASE Observe
  BY <1>16 DEF Observe
<1>17. CASE Rebind
  BY <1>17 DEF Rebind
<1>18. CASE PutBack
  BY <1>18 DEF PutBack
<1>19. CASE Redigest
  BY <1>19 DEF Redigest
<1>20. CASE Install
  BY <1>20 DEF Install
<1>21. CASE Verify
  BY <1>21 DEF Verify, GotoNext, Begin
<1>22. CASE Commit
  BY <1>22 DEF Commit
<1>23. CASE FailCommit
  BY <1>23 DEF FailCommit
<1>24. CASE Validate
  BY <1>24 DEF Validate
<1>25. CASE Undo
  BY <1>25 DEF Undo
<1>26. CASE UndoRemove
  BY <1>26 DEF UndoRemove
<1>27. CASE UndoRestore
  <2>1. pc' = "restored" /\ UNCHANGED <<staging, journal, cmd>>
    BY <1>27 DEF UndoRestore
  <2> QED
    BY <2>1
<1>28. CASE UndoRestored
  BY <1>28 DEF UndoRestored
<1>29. CASE UndoRefused
  BY <1>29 DEF UndoRefused
<1>30. CASE UndoDirectory
  BY <1>30 DEF UndoDirectory
<1>31. CASE EmptyStaging
  BY <1>31 DEF EmptyStaging
<1>32. CASE RemoveStaging
  BY <1>32 DEF RemoveStaging
<1>33. CASE RemoveJournal
  BY <1>33 DEF RemoveJournal
<1>34. CASE Crash
  BY <1>34 DEF Crash
<1>35. CASE \E c \in Commands : Lock(c)
  BY <1>35 DEF Lock
<1>36. CASE \E c \in Commands : Enter(c)
  BY <1>36 DEF Enter
<1>37. CASE \E c \in Commands : WritePrivate(c)
  BY <1>37 DEF WritePrivate
<1>38. CASE \E c \in Commands : Leave(c)
  BY <1>38 DEF Leave
<1>39. CASE \E l \in Label : EditInPlace(l)
  BY <1>39 DEF EditInPlace
<1>40. CASE \E l \in Label : EditMoved(l)
  BY <1>40 DEF EditMoved
<1>41. CASE \E l \in Label : EditAnew(l)
  BY <1>41 DEF EditAnew
<1>42. CASE UNCHANGED vars
  BY <1>42 DEF vars
<1> QED
  BY <1>1, <1>2, <1>3, <1>4, <1>5, <1>6, <1>7, <1>8, <1>9, <1>10, <1>11,
     <1>12, <1>13, <1>14, <1>15, <1>16, <1>17, <1>18, <1>19, <1>20, <1>21,
     <1>22, <1>23, <1>24, <1>25, <1>26, <1>27, <1>28, <1>29, <1>30, <1>31,
     <1>32, <1>33, <1>34, <1>35, <1>36, <1>37, <1>38, <1>39, <1>40, <1>41,
     <1>42
     DEF Next, Installer, Begins, Commits, RollsBack, CleansUp, Command

LEMMA NumberTypesStep ==
  ASSUME plan \in Plan, NumberTypes, NextFollows, [Next]_vars
  PROVE  NumberTypes'
<1> USE InstallAssumption DEF Goto, GotoAt, disk, context, history,
        NumberTypes, Label
<1>1. CASE Acquire
  BY <1>1 DEF Acquire
<1>2. CASE Recover
  BY <1>2 DEF Recover
<1>3. CASE Release
  BY <1>3 DEF Release
<1>4. CASE \E targets, removes \in SUBSET Label : MakePlan(targets, removes)
  BY <1>4 DEF MakePlan
<1>5. CASE CreateJournal
  BY <1>5 DEF CreateJournal
<1>6. CASE WriteJournal
  BY <1>6 DEF WriteJournal
<1>7. CASE MakeStaging
  BY <1>7 DEF MakeStaging
<1>8. CASE MarkStaging
  BY <1>8 DEF MarkStaging
<1>9. CASE BeginStaging
  BY <1>9 DEF BeginStaging
<1>10. CASE Stage
  BY <1>10 DEF Stage
<1>11. CASE AbortStaging
  BY <1>11 DEF AbortStaging
<1>12. CASE StartCommit
  BY <1>12 DEF StartCommit
<1>13. CASE CreateDirectory
  <2>1. next' \in Label \cup {Last + 1}
    BY <1>13 DEF CreateDirectory, GotoNext, Rest, Plan
  <2>2. UNCHANGED <<tx, edits, writes>>
    BY <1>13 DEF CreateDirectory
  <2> QED
    BY <2>1, <2>2
<1>14. CASE CheckOriginal
  BY <1>14 DEF CheckOriginal
<1>15. CASE BackUp
  <2>1. UNCHANGED <<tx, next, edits, writes>>
    BY <1>15 DEF BackUp
  <2> QED
    BY <2>1
<1>16. CASE Observe
  BY <1>16 DEF Observe
<1>17. CASE Rebind
  <2>1. UNCHANGED <<tx, next, edits, writes>>
    BY <1>17 DEF Rebind
  <2> QED
    BY <2>1
<1>18. CASE PutBack
  BY <1>18 DEF PutBack
<1>19. CASE Redigest
  BY <1>19 DEF Redigest
<1>20. CASE Install
  BY <1>20 DEF Install
<1>21. CASE Verify
  <2>1. next' \in Label \cup {Last + 1}
    BY <1>21 DEF Verify, GotoNext, Rest, Plan
  <2>2. UNCHANGED <<tx, edits, writes>>
    BY <1>21 DEF Verify
  <2> QED
    BY <2>1, <2>2
<1>22. CASE Commit
  BY <1>22 DEF Commit
<1>23. CASE FailCommit
  BY <1>23 DEF FailCommit
<1>24. CASE Validate
  BY <1>24 DEF Validate
<1>25. CASE Undo
  BY <1>25 DEF Undo, UndoMore
<1>26. CASE UndoRemove
  BY <1>26 DEF UndoRemove
<1>27. CASE UndoRestore
  BY <1>27 DEF UndoRestore
<1>28. CASE UndoRestored
  <2>1. next \in Label /\ next' = next - 1
    BY <1>28 DEF UndoRestored, NextFollows, UndoSteps, Plan
  <2>2. UNCHANGED <<tx, edits, writes>>
    BY <1>28 DEF UndoRestored
  <2> QED
    BY <2>1, <2>2
<1>29. CASE UndoRefused
  BY <1>29 DEF UndoRefused
<1>30. CASE UndoDirectory
  BY <1>30 DEF UndoDirectory
<1>31. CASE EmptyStaging
  BY <1>31 DEF EmptyStaging
<1>32. CASE RemoveStaging
  BY <1>32 DEF RemoveStaging
<1>33. CASE RemoveJournal
  BY <1>33 DEF RemoveJournal
<1>34. CASE Crash
  BY <1>34 DEF Crash
<1>35. CASE \E c \in Commands : Lock(c)
  BY <1>35 DEF Lock
<1>36. CASE \E c \in Commands : Enter(c)
  BY <1>36 DEF Enter
<1>37. CASE \E c \in Commands : WritePrivate(c)
  BY <1>37 DEF WritePrivate
<1>38. CASE \E c \in Commands : Leave(c)
  BY <1>38 DEF Leave
<1>39. CASE \E l \in Label : EditInPlace(l)
  BY <1>39 DEF EditInPlace
<1>40. CASE \E l \in Label : EditMoved(l)
  BY <1>40 DEF EditMoved
<1>41. CASE \E l \in Label : EditAnew(l)
  BY <1>41 DEF EditAnew
<1>42. CASE UNCHANGED vars
  BY <1>42 DEF vars
<1> QED
  BY <1>1, <1>2, <1>3, <1>4, <1>5, <1>6, <1>7, <1>8, <1>9, <1>10, <1>11,
     <1>12, <1>13, <1>14, <1>15, <1>16, <1>17, <1>18, <1>19, <1>20, <1>21,
     <1>22, <1>23, <1>24, <1>25, <1>26, <1>27, <1>28, <1>29, <1>30, <1>31,
     <1>32, <1>33, <1>34, <1>35, <1>36, <1>37, <1>38, <1>39, <1>40, <1>41,
     <1>42
     DEF Next, Installer, Begins, Commits, RollsBack, CleansUp, Command

LEMMA PlanTypeStep ==
  ASSUME plan \in Plan, FileTypes, NextFollows, [Next]_vars
  PROVE  plan' \in Plan
<1> USE InstallAssumption DEF Goto, GotoAt, disk, context, history, Plan
<1>1. CASE Acquire
  BY <1>1 DEF Acquire
<1>2. CASE Recover
  BY <1>2 DEF Recover
<1>3. CASE Release
  BY <1>3 DEF Release
<1>4. CASE \E targets, removes \in SUBSET Label : MakePlan(targets, removes)
  <2> PICK targets, removes \in SUBSET Label : MakePlan(targets, removes)
    BY <1>4
  <2>1. [l \in Label |-> IF l \in targets THEN target[l] ELSE None] \in Files
    BY DEF FileTypes, Files
  <2>2. (~root) \in BOOLEAN
    OBVIOUS
  <2> QED
    BY <2>1, <2>2 DEF MakePlan, Files
<1>5. CASE CreateJournal
  BY <1>5 DEF CreateJournal
<1>6. CASE WriteJournal
  BY <1>6 DEF WriteJournal
<1>7. CASE MakeStaging
  BY <1>7 DEF MakeStaging
<1>8. CASE MarkStaging
  BY <1>8 DEF MarkStaging
<1>9. CASE BeginStaging
  BY <1>9 DEF BeginStaging
<1>10. CASE Stage
  BY <1>10 DEF Stage
<1>11. CASE AbortStaging
  BY <1>11 DEF AbortStaging
<1>12. CASE StartCommit
  BY <1>12 DEF StartCommit
<1>13. CASE CreateDirectory
  BY <1>13 DEF CreateDirectory
<1>14. CASE CheckOriginal
  BY <1>14 DEF CheckOriginal
<1>15. CASE BackUp
  BY <1>15 DEF BackUp
<1>16. CASE Observe
  BY <1>16 DEF Observe
<1>17. CASE Rebind
  <2>1. next \in Label /\ plan.original[next] \in File
    BY <1>17 DEF Rebind, NextFollows, CommitSteps, Original
  <2>2. backup[next] \in File
    BY <1>17, <2>1 DEF Rebind, FileTypes, Files, NextFollows
  <2>3. [plan.original[next] EXCEPT !.data = backup[next].data] \in File
    BY <2>1, <2>2, FileIsFile, EditedFile
  <2>4. plan' = [plan EXCEPT !.original[next].data = backup[next].data]
    BY <1>17 DEF Rebind
  <2> QED
    BY <2>1, <2>3, <2>4
<1>18. CASE PutBack
  BY <1>18 DEF PutBack
<1>19. CASE Redigest
  <2>1. next \in Label /\ plan.original[next] \in File
    BY <1>19 DEF Redigest, NextFollows, CommitSteps, Original
  <2>2. target[next] \in File
    BY <1>19, <2>1 DEF Redigest, FileTypes, Files, NextFollows
  <2>3. [plan.original[next] EXCEPT !.data = target[next].data] \in File
    BY <2>1, <2>2, FileIsFile, EditedFile
  <2>4. plan' = [plan EXCEPT !.original[next].data = target[next].data]
    BY <1>19 DEF Redigest
  <2> QED
    BY <2>1, <2>3, <2>4
<1>20. CASE Install
  BY <1>20 DEF Install
<1>21. CASE Verify
  BY <1>21 DEF Verify
<1>22. CASE Commit
  BY <1>22 DEF Commit
<1>23. CASE FailCommit
  BY <1>23 DEF FailCommit
<1>24. CASE Validate
  BY <1>24 DEF Validate
<1>25. CASE Undo
  BY <1>25 DEF Undo
<1>26. CASE UndoRemove
  BY <1>26 DEF UndoRemove
<1>27. CASE UndoRestore
  BY <1>27 DEF UndoRestore
<1>28. CASE UndoRestored
  BY <1>28 DEF UndoRestored
<1>29. CASE UndoRefused
  BY <1>29 DEF UndoRefused
<1>30. CASE UndoDirectory
  BY <1>30 DEF UndoDirectory
<1>31. CASE EmptyStaging
  BY <1>31 DEF EmptyStaging
<1>32. CASE RemoveStaging
  BY <1>32 DEF RemoveStaging
<1>33. CASE RemoveJournal
  BY <1>33 DEF RemoveJournal
<1>34. CASE Crash
  BY <1>34 DEF Crash
<1>35. CASE \E c \in Commands : Lock(c)
  BY <1>35 DEF Lock
<1>36. CASE \E c \in Commands : Enter(c)
  BY <1>36 DEF Enter
<1>37. CASE \E c \in Commands : WritePrivate(c)
  BY <1>37 DEF WritePrivate
<1>38. CASE \E c \in Commands : Leave(c)
  BY <1>38 DEF Leave
<1>39. CASE \E l \in Label : EditInPlace(l)
  BY <1>39 DEF EditInPlace
<1>40. CASE \E l \in Label : EditMoved(l)
  BY <1>40 DEF EditMoved
<1>41. CASE \E l \in Label : EditAnew(l)
  BY <1>41 DEF EditAnew
<1>42. CASE UNCHANGED vars
  BY <1>42 DEF vars
<1> QED
  BY <1>1, <1>2, <1>3, <1>4, <1>5, <1>6, <1>7, <1>8, <1>9, <1>10, <1>11,
     <1>12, <1>13, <1>14, <1>15, <1>16, <1>17, <1>18, <1>19, <1>20, <1>21,
     <1>22, <1>23, <1>24, <1>25, <1>26, <1>27, <1>28, <1>29, <1>30, <1>31,
     <1>32, <1>33, <1>34, <1>35, <1>36, <1>37, <1>38, <1>39, <1>40, <1>41,
     <1>42
     DEF Next, Installer, Begins, Commits, RollsBack, CleansUp, Command

(***************************************************************************)
(* The lock, the journal and the steps follow each other.                  *)
(***************************************************************************)
LEMMA BarrierStep ==
  ASSUME Barrier, JournalFollows, StepTypes, [Next]_vars
  PROVE  Barrier'
<1> USE InstallAssumption DEF Goto, GotoAt, disk, context, history, Barrier,
        CommandsAreBarred, Free, JournalFollows, StepTypes
<1>1. CASE Acquire
  BY <1>1 DEF Acquire
<1>2. CASE Recover
  BY <1>2 DEF Recover
<1>3. CASE Release
  BY <1>3 DEF Release
<1>4. CASE \E targets, removes \in SUBSET Label : MakePlan(targets, removes)
  BY <1>4 DEF MakePlan
<1>5. CASE CreateJournal
  BY <1>5 DEF CreateJournal
<1>6. CASE WriteJournal
  BY <1>6 DEF WriteJournal
<1>7. CASE MakeStaging
  BY <1>7 DEF MakeStaging
<1>8. CASE MarkStaging
  BY <1>8 DEF MarkStaging
<1>9. CASE BeginStaging
  BY <1>9 DEF BeginStaging
<1>10. CASE Stage
  BY <1>10 DEF Stage
<1>11. CASE AbortStaging
  BY <1>11 DEF AbortStaging, PreSteps
<1>12. CASE StartCommit
  BY <1>12 DEF StartCommit
<1>13. CASE CreateDirectory
  BY <1>13 DEF CreateDirectory
<1>14. CASE CheckOriginal
  BY <1>14 DEF CheckOriginal
<1>15. CASE BackUp
  BY <1>15 DEF BackUp
<1>16. CASE Observe
  BY <1>16 DEF Observe
<1>17. CASE Rebind
  BY <1>17 DEF Rebind
<1>18. CASE PutBack
  BY <1>18 DEF PutBack
<1>19. CASE Redigest
  BY <1>19 DEF Redigest
<1>20. CASE Install
  BY <1>20 DEF Install
<1>21. CASE Verify
  BY <1>21 DEF Verify
<1>22. CASE Commit
  BY <1>22 DEF Commit
<1>23. CASE FailCommit
  BY <1>23 DEF FailCommit, CommitSteps
<1>24. CASE Validate
  BY <1>24 DEF Validate
<1>25. CASE Undo
  BY <1>25 DEF Undo
<1>26. CASE UndoRemove
  BY <1>26 DEF UndoRemove
<1>27. CASE UndoRestore
  BY <1>27 DEF UndoRestore
<1>28. CASE UndoRestored
  BY <1>28 DEF UndoRestored
<1>29. CASE UndoRefused
  BY <1>29 DEF UndoRefused
<1>30. CASE UndoDirectory
  BY <1>30 DEF UndoDirectory
<1>31. CASE EmptyStaging
  BY <1>31 DEF EmptyStaging
<1>32. CASE RemoveStaging
  BY <1>32 DEF RemoveStaging
<1>33. CASE RemoveJournal
  BY <1>33 DEF RemoveJournal
<1>34. CASE Crash
  BY <1>34 DEF Crash
<1>35. CASE \E c \in Commands : Lock(c)
  BY <1>35 DEF Lock
<1>36. CASE \E c \in Commands : Enter(c)
  <2> PICK c \in Commands : Enter(c)
    BY <1>36
  <2>1. pc = "idle" /\ UNCHANGED <<pc, journal>>
    BY DEF Enter
  <2>2. (\E d \in Commands : cmd'[d] = "running") => journal = "none"
    BY DEF Enter, MayRun
  <2> QED
    BY <2>1, <2>2
<1>37. CASE \E c \in Commands : WritePrivate(c)
  BY <1>37 DEF WritePrivate
<1>38. CASE \E c \in Commands : Leave(c)
  BY <1>38 DEF Leave
<1>39. CASE \E l \in Label : EditInPlace(l)
  BY <1>39 DEF EditInPlace
<1>40. CASE \E l \in Label : EditMoved(l)
  BY <1>40 DEF EditMoved
<1>41. CASE \E l \in Label : EditAnew(l)
  BY <1>41 DEF EditAnew
<1>42. CASE UNCHANGED vars
  BY <1>42 DEF vars
<1> QED
  BY <1>1, <1>2, <1>3, <1>4, <1>5, <1>6, <1>7, <1>8, <1>9, <1>10, <1>11,
     <1>12, <1>13, <1>14, <1>15, <1>16, <1>17, <1>18, <1>19, <1>20, <1>21,
     <1>22, <1>23, <1>24, <1>25, <1>26, <1>27, <1>28, <1>29, <1>30, <1>31,
     <1>32, <1>33, <1>34, <1>35, <1>36, <1>37, <1>38, <1>39, <1>40, <1>41,
     <1>42
     DEF Next, Installer, Begins, Commits, RollsBack, CleansUp, Command

LEMMA JournalFollowsStep ==
  ASSUME JournalFollows, Barrier, StepTypes, NumberTypes, [Next]_vars
  PROVE  JournalFollows'
<1> USE InstallAssumption DEF Goto, GotoAt, disk, context, history,
        JournalFollows, StepTypes, Steps, CommitSteps, UndoSteps, PreSteps,
        CleanSteps
<1>1. CASE Acquire
  BY <1>1 DEF Acquire
<1>2. CASE Recover
  BY <1>2 DEF Recover, RecoveryStep
<1>3. CASE Release
  BY <1>3 DEF Release
<1>4. CASE \E targets, removes \in SUBSET Label : MakePlan(targets, removes)
  BY <1>4 DEF MakePlan
<1>5. CASE CreateJournal
  BY <1>5 DEF CreateJournal
<1>6. CASE WriteJournal
  BY <1>6 DEF WriteJournal
<1>7. CASE MakeStaging
  BY <1>7 DEF MakeStaging
<1>8. CASE MarkStaging
  BY <1>8 DEF MarkStaging
<1>9. CASE BeginStaging
  BY <1>9 DEF BeginStaging
<1>10. CASE Stage
  BY <1>10 DEF Stage
<1>11. CASE AbortStaging
  BY <1>11 DEF AbortStaging
<1>12. CASE StartCommit
  BY <1>12 DEF StartCommit
<1>13. CASE CreateDirectory
  BY <1>13 DEF CreateDirectory, GotoNext, Begin
<1>14. CASE CheckOriginal
  BY <1>14 DEF CheckOriginal
<1>15. CASE BackUp
  BY <1>15 DEF BackUp
<1>16. CASE Observe
  BY <1>16 DEF Observe
<1>17. CASE Rebind
  BY <1>17 DEF Rebind
<1>18. CASE PutBack
  BY <1>18 DEF PutBack
<1>19. CASE Redigest
  BY <1>19 DEF Redigest
<1>20. CASE Install
  BY <1>20 DEF Install
<1>21. CASE Verify
  BY <1>21 DEF Verify, GotoNext, Begin
<1>22. CASE Commit
  BY <1>22 DEF Commit
<1>23. CASE FailCommit
  BY <1>23 DEF FailCommit
<1>24. CASE Validate
  BY <1>24 DEF Validate
<1>25. CASE Undo
  BY <1>25 DEF Undo
<1>26. CASE UndoRemove
  BY <1>26 DEF UndoRemove
<1>27. CASE UndoRestore
  BY <1>27 DEF UndoRestore
<1>28. CASE UndoRestored
  BY <1>28 DEF UndoRestored
<1>29. CASE UndoRefused
  BY <1>29 DEF UndoRefused
<1>30. CASE UndoDirectory
  BY <1>30 DEF UndoDirectory
<1>31. CASE EmptyStaging
  BY <1>31 DEF EmptyStaging
<1>32. CASE RemoveStaging
  BY <1>32 DEF RemoveStaging
<1>33. CASE RemoveJournal
  BY <1>33 DEF RemoveJournal
<1>34. CASE Crash
  BY <1>34 DEF Crash
<1>35. CASE \E c \in Commands : Lock(c)
  BY <1>35 DEF Lock
<1>36. CASE \E c \in Commands : Enter(c)
  BY <1>36 DEF Enter
<1>37. CASE \E c \in Commands : WritePrivate(c)
  BY <1>37 DEF WritePrivate
<1>38. CASE \E c \in Commands : Leave(c)
  BY <1>38 DEF Leave
<1>39. CASE \E l \in Label : EditInPlace(l)
  BY <1>39 DEF EditInPlace
<1>40. CASE \E l \in Label : EditMoved(l)
  BY <1>40 DEF EditMoved
<1>41. CASE \E l \in Label : EditAnew(l)
  BY <1>41 DEF EditAnew
<1>42. CASE UNCHANGED vars
  BY <1>42 DEF vars
<1> QED
  BY <1>1, <1>2, <1>3, <1>4, <1>5, <1>6, <1>7, <1>8, <1>9, <1>10, <1>11,
     <1>12, <1>13, <1>14, <1>15, <1>16, <1>17, <1>18, <1>19, <1>20, <1>21,
     <1>22, <1>23, <1>24, <1>25, <1>26, <1>27, <1>28, <1>29, <1>30, <1>31,
     <1>32, <1>33, <1>34, <1>35, <1>36, <1>37, <1>38, <1>39, <1>40, <1>41,
     <1>42
     DEF Next, Installer, Begins, Commits, RollsBack, CleansUp, Command

LEMMA NextFollowsStep ==
  ASSUME plan \in Plan, FileTypes, StepTypes, NumberTypes, JournalFollows,
         NextFollows, [Next]_vars
  PROVE  NextFollows'
<1> USE InstallAssumption DEF Goto, GotoAt, disk, context, history,
        NextFollows, CommitSteps, UndoSteps, Original
<1>1. CASE Acquire
  BY <1>1 DEF Acquire
<1>2. CASE Recover
  BY <1>2 DEF Recover, RecoveryStep, StepTypes
<1>3. CASE Release
  BY <1>3 DEF Release
<1>4. CASE \E targets, removes \in SUBSET Label : MakePlan(targets, removes)
  <2> PICK targets, removes \in SUBSET Label : MakePlan(targets, removes)
    BY <1>4
  <2> QED
    BY DEF MakePlan
<1>5. CASE CreateJournal
  BY <1>5 DEF CreateJournal
<1>6. CASE WriteJournal
  BY <1>6 DEF WriteJournal
<1>7. CASE MakeStaging
  BY <1>7 DEF MakeStaging
<1>8. CASE MarkStaging
  BY <1>8 DEF MarkStaging
<1>9. CASE BeginStaging
  BY <1>9 DEF BeginStaging
<1>10. CASE Stage
  BY <1>10 DEF Stage
<1>11. CASE AbortStaging
  BY <1>11 DEF AbortStaging, PreSteps
<1>12. CASE StartCommit
  BY <1>12 DEF StartCommit
<1>13. CASE CreateDirectory
  BY <1>13 DEF CreateDirectory, GotoNext, Begin, Rest, Plan
<1>14. CASE CheckOriginal
  BY <1>14 DEF CheckOriginal
<1>15. CASE BackUp
  <2>1. next \in Label /\ target[next] # None
    BY <1>15 DEF BackUp, SameIdentity, Plan
  <2>2. backup'[next] # None
    BY <1>15, <2>1 DEF BackUp, FileTypes, Files
  <2>3. pc' = "observe" /\ UNCHANGED <<next, plan>>
    BY <1>15 DEF BackUp
  <2> QED
    BY <1>15, <2>2, <2>3 DEF BackUp
<1>16. CASE Observe
  BY <1>16 DEF Observe
<1>17. CASE Rebind
  <2>1. next \in Label /\ plan.original[next] \in File
    BY <1>17 DEF Rebind, Plan
  <2>2. backup[next] \in File
    BY <1>17, <2>1 DEF Rebind, FileTypes, Files
  <2> DEFINE f == [plan.original[next] EXCEPT !.data = backup[next].data]
  <2>3. f \in File /\ f # None
    BY <2>1, <2>2, FileIsFile, EditedFile
  <2>4. plan' = [plan EXCEPT !.original[next] = f]
    BY <1>17 DEF Rebind
  <2>5. /\ plan'.removes = plan.removes /\ plan'.targets = plan.targets
        /\ \A l \in Label : plan.original[l] # None => plan'.original[l] # None
    BY <2>1, <2>3, <2>4 DEF Plan
  <2>6. pc' = "rebound" /\ UNCHANGED <<next, backup>>
    BY <1>17 DEF Rebind
  <2> QED
    BY <1>17, <2>1, <2>5, <2>6 DEF Rebind, Plan
<1>18. CASE PutBack
  BY <1>18 DEF PutBack
<1>19. CASE Redigest
  <2>1. next \in Label /\ plan.original[next] \in File
    BY <1>19 DEF Redigest, Plan
  <2>2. target[next] \in File
    BY <1>19, <2>1 DEF Redigest, FileTypes, Files
  <2> DEFINE f == [plan.original[next] EXCEPT !.data = target[next].data]
  <2>3. f \in File /\ f # None
    BY <2>1, <2>2, FileIsFile, EditedFile
  <2>4. plan' = [plan EXCEPT !.original[next] = f]
    BY <1>19 DEF Redigest
  <2>5. /\ plan'.removes = plan.removes /\ plan'.targets = plan.targets
        /\ \A l \in Label : plan.original[l] # None => plan'.original[l] # None
    BY <2>1, <2>3, <2>4 DEF Plan
  <2>6. pc' = "validate" /\ UNCHANGED <<next, backup>>
    BY <1>19 DEF Redigest
  <2> QED
    BY <1>19, <2>1, <2>5, <2>6 DEF Redigest, Plan
<1>20. CASE Install
  BY <1>20 DEF Install
<1>21. CASE Verify
  BY <1>21 DEF Verify, GotoNext, Begin, Rest, Plan
<1>22. CASE Commit
  BY <1>22 DEF Commit
<1>23. CASE FailCommit
  BY <1>23 DEF FailCommit
<1>24. CASE Validate
  BY <1>24 DEF Validate, Label
<1>25. CASE Undo
  BY <1>25 DEF Undo, UndoMore, Label
<1>26. CASE UndoRemove
  BY <1>26 DEF UndoRemove
<1>27. CASE UndoRestore
  BY <1>27 DEF UndoRestore
<1>28. CASE UndoRestored
  <2>1. next \in Label /\ next' = next - 1
    BY <1>28 DEF UndoRestored, Plan
  <2>2. pc' = "undo" /\ UNCHANGED plan
    BY <1>28 DEF UndoRestored
  <2> QED
    BY <2>1, <2>2 DEF Label
<1>29. CASE UndoRefused
  BY <1>29 DEF UndoRefused
<1>30. CASE UndoDirectory
  BY <1>30 DEF UndoDirectory
<1>31. CASE EmptyStaging
  BY <1>31 DEF EmptyStaging
<1>32. CASE RemoveStaging
  BY <1>32 DEF RemoveStaging
<1>33. CASE RemoveJournal
  BY <1>33 DEF RemoveJournal, CleanSteps
<1>34. CASE Crash
  BY <1>34 DEF Crash
<1>35. CASE \E c \in Commands : Lock(c)
  BY <1>35 DEF Lock
<1>36. CASE \E c \in Commands : Enter(c)
  BY <1>36 DEF Enter
<1>37. CASE \E c \in Commands : WritePrivate(c)
  BY <1>37 DEF WritePrivate
<1>38. CASE \E c \in Commands : Leave(c)
  BY <1>38 DEF Leave
<1>39. CASE \E l \in Label : EditInPlace(l)
  BY <1>39 DEF EditInPlace
<1>40. CASE \E l \in Label : EditMoved(l)
  <2> PICK l \in Label : EditMoved(l)
    BY <1>40
  <2>1. backup[l] \in File /\ Edited \in Int
    BY DEF EditMoved, FileTypes, Files, Edited, NumberTypes
  <2>2. backup' = [backup EXCEPT ![l] = [backup[l] EXCEPT !.data = Edited]]
    BY DEF EditMoved
  <2>3. \A k \in Label : backup[k] # None => backup'[k] # None
    BY <2>1, <2>2, EditedFile, FileIsFile DEF FileTypes, Files
  <2>4. UNCHANGED <<pc, next, plan>>
    BY DEF EditMoved
  <2> QED
    BY <2>3, <2>4 DEF Plan
<1>41. CASE \E l \in Label : EditAnew(l)
  BY <1>41 DEF EditAnew
<1>42. CASE UNCHANGED vars
  BY <1>42 DEF vars
<1> QED
  BY <1>1, <1>2, <1>3, <1>4, <1>5, <1>6, <1>7, <1>8, <1>9, <1>10, <1>11,
     <1>12, <1>13, <1>14, <1>15, <1>16, <1>17, <1>18, <1>19, <1>20, <1>21,
     <1>22, <1>23, <1>24, <1>25, <1>26, <1>27, <1>28, <1>29, <1>30, <1>31,
     <1>32, <1>33, <1>34, <1>35, <1>36, <1>37, <1>38, <1>39, <1>40, <1>41,
     <1>42
     DEF Next, Installer, Begins, Commits, RollsBack, CleansUp, Command

(***************************************************************************)
(* What the checks of identity and content see is an equivalence.          *)
(***************************************************************************)
LEMMA SameFileTransitive ==
  ASSUME NEW f, NEW g, NEW h, SameFile(f, g), SameFile(g, h)
  PROVE  SameFile(f, h)
BY DEF SameFile, Matches, SameIdentity, SameContent

LEMMA SameFileSymmetric ==
  ASSUME NEW f, NEW g, SameFile(f, g)
  PROVE  SameFile(g, f)
BY DEF SameFile, Matches, SameIdentity, SameContent

LEMMA SamePrivately ==
  ASSUME NEW f \in File, NEW p \in Nat, NEW g
  PROVE  SameFile([f EXCEPT !.private = p], g) <=> SameFile(f, g)
BY WrittenFile, FileIsFile DEF SameFile, Matches, SameIdentity, SameContent

\* A write of private state changes neither the identity nor the content of a target.
LEMMA WriteIsPrivate ==
  ASSUME FileTypes, NEW c \in Commands, WritePrivate(c), NEW l \in Label
  PROVE  /\ \A g : SameFile(target'[l], g) <=> SameFile(target[l], g)
         /\ target'[l] = None <=> target[l] = None
<1>1. target[1] \in File /\ target \in [Label -> File \cup {None}]
  BY FirstIsLabel DEF WritePrivate, FileTypes, Files
<1>2. target[1].private + 1 \in Nat
  BY <1>1, FileIsFile
<1>3. DEFINE f == [target[1] EXCEPT !.private = target[1].private + 1]
<1>4. f \in File /\ f # None
  BY <1>1, <1>2, WrittenFile, FileIsFile
<1>5. target' = [target EXCEPT ![1] = f]
  BY DEF WritePrivate
<1>6. CASE l = 1
  BY <1>1, <1>2, <1>4, <1>5, <1>6, SamePrivately, FileIsFile
<1>7. CASE l # 1
  BY <1>1, <1>5, <1>7
<1> QED
  BY <1>6, <1>7

(***************************************************************************)
(* The parts that hold as long as no user edits.                           *)
(***************************************************************************)
LEMMA InstalledStandsStep ==
  ASSUME edits = 0, edits' = 0, FileTypes, StepTypes, NumberTypes,
         plan \in Plan, Barrier, JournalFollows, NextFollows,
         InstalledStands, TargetsArePlaced, Settled, [Next]_vars
  PROVE  InstalledStands'
<1> USE InstallAssumption DEF Goto, GotoAt, disk, context, history,
        StepTypes, Steps, CommitSteps, UndoSteps, PreSteps, CleanSteps,
        JournalFollows, NumberTypes, InstalledStands, Uncommitted, Stands
<1>1. CASE Acquire
  BY <1>1 DEF Acquire
<1>2. CASE Recover
  BY <1>2 DEF Recover
<1>3. CASE Release
  BY <1>3 DEF Release
<1>4. CASE \E targets, removes \in SUBSET Label : MakePlan(targets, removes)
  BY <1>4 DEF MakePlan
<1>5. CASE CreateJournal
  BY <1>5 DEF CreateJournal
<1>6. CASE WriteJournal
  BY <1>6 DEF WriteJournal
<1>7. CASE MakeStaging
  BY <1>7 DEF MakeStaging
<1>8. CASE MarkStaging
  BY <1>8 DEF MarkStaging
<1>9. CASE BeginStaging
  BY <1>9 DEF BeginStaging
<1>10. CASE Stage
  BY <1>10 DEF Stage
<1>11. CASE AbortStaging
  BY <1>11 DEF AbortStaging
<1>12. CASE StartCommit
  BY <1>12 DEF StartCommit
<1>13. CASE CreateDirectory
  BY <1>13 DEF CreateDirectory
<1>14. CASE CheckOriginal
  BY <1>14 DEF CheckOriginal
<1>15. CASE BackUp
  BY <1>15 DEF BackUp
<1>16. CASE Observe
  BY <1>16 DEF Observe
<1>17. CASE Rebind
  BY <1>17 DEF Rebind
<1>18. CASE PutBack
  BY <1>18 DEF PutBack
<1>19. CASE Redigest
  BY <1>19 DEF Redigest
<1>20. CASE Install
  BY <1>20 DEF Install
<1>21. CASE Verify
  BY <1>21 DEF Verify
<1>22. CASE Commit
  BY <1>22 DEF Commit
<1>23. CASE FailCommit
  BY <1>23 DEF FailCommit
<1>24. CASE Validate
  BY <1>24 DEF Validate
<1>25. CASE Undo
  BY <1>25 DEF Undo
<1>26. CASE UndoRemove
  BY <1>26 DEF UndoRemove
<1>27. CASE UndoRestore
  BY <1>27 DEF UndoRestore
<1>28. CASE UndoRestored
  BY <1>28 DEF UndoRestored
<1>29. CASE UndoRefused
  BY <1>29 DEF UndoRefused
<1>30. CASE UndoDirectory
  BY <1>30 DEF UndoDirectory
<1>31. CASE EmptyStaging
  BY <1>31 DEF EmptyStaging
<1>32. CASE RemoveStaging
  BY <1>32 DEF RemoveStaging
<1>33. CASE RemoveJournal
  <2>1. UNCHANGED <<target, installed>>
    BY <1>33 DEF RemoveJournal
  <2>2. \A l \in Label : Stands(l)
    <3>1. CASE journal = "committing"
      <4> TAKE l \in Label
      <4>1. CASE l \in plan.targets
        <5>1. SameFile(target[l], Original(l)) /\ SameFile(Original(l), installed[l])
          BY <1>33, <3>1, <4>1 DEF RemoveJournal, TargetsArePlaced, Settled, AsPlanned
        <5> QED
          BY <5>1, SameFileTransitive
      <4>2. CASE l \notin plan.targets
        BY <3>1, <4>2 DEF TargetsArePlaced
      <4> QED
        BY <4>1, <4>2
    <3>2. CASE journal = "committed"
      BY <3>2 DEF Settled
    <3>3. CASE journal \in {"none", "partial", "initializing", "staging"}
      BY <3>3
    <3> QED
      BY <3>1, <3>2, <3>3
  <2> QED
    BY <2>1, <2>2
<1>34. CASE Crash
  BY <1>34 DEF Crash
<1>35. CASE \E c \in Commands : Lock(c)
  BY <1>35 DEF Lock
<1>36. CASE \E c \in Commands : Enter(c)
  BY <1>36 DEF Enter
<1>37. CASE \E c \in Commands : WritePrivate(c)
  <2> PICK c \in Commands : WritePrivate(c)
    BY <1>37
  <2>1. UNCHANGED <<journal, installed>>
    BY DEF WritePrivate
  <2>2. \A l \in Label : Stands(l) => Stands(l)'
    BY <2>1, WriteIsPrivate
  <2> QED
    BY <2>1, <2>2
<1>38. CASE \E c \in Commands : Leave(c)
  BY <1>38 DEF Leave
<1>39. CASE \E l \in Label : EditInPlace(l)
  BY <1>39 DEF EditInPlace
<1>40. CASE \E l \in Label : EditMoved(l)
  BY <1>40 DEF EditMoved
<1>41. CASE \E l \in Label : EditAnew(l)
  BY <1>41 DEF EditAnew
<1>42. CASE UNCHANGED vars
  BY <1>42 DEF vars
<1> QED
  BY <1>1, <1>2, <1>3, <1>4, <1>5, <1>6, <1>7, <1>8, <1>9, <1>10, <1>11,
     <1>12, <1>13, <1>14, <1>15, <1>16, <1>17, <1>18, <1>19, <1>20, <1>21,
     <1>22, <1>23, <1>24, <1>25, <1>26, <1>27, <1>28, <1>29, <1>30, <1>31,
     <1>32, <1>33, <1>34, <1>35, <1>36, <1>37, <1>38, <1>39, <1>40, <1>41,
     <1>42
     DEF Next, Installer, Begins, Commits, RollsBack, CleansUp, Command

LEMMA CandidatesAreNewStep ==
  ASSUME edits = 0, edits' = 0, FileTypes, StepTypes, NumberTypes,
         plan \in Plan, Barrier, JournalFollows, NextFollows,
         CandidatesAreNew, [Next]_vars
  PROVE  CandidatesAreNew'
<1> USE InstallAssumption DEF Goto, GotoAt, disk, context, history,
        StepTypes, Steps, CommitSteps, UndoSteps, PreSteps, CleanSteps,
        JournalFollows, NumberTypes, CandidatesAreNew
<1>1. CASE Acquire
  BY <1>1 DEF Acquire
<1>2. CASE Recover
  BY <1>2 DEF Recover, RecoveryStep
<1>3. CASE Release
  BY <1>3 DEF Release
<1>4. CASE \E targets, removes \in SUBSET Label : MakePlan(targets, removes)
  <2> PICK targets, removes \in SUBSET Label : MakePlan(targets, removes)
    BY <1>4
  <2>1. \A l \in Label : installed[l] # None => installed[l].id \in Int
    BY FileIsFile DEF FileTypes, Files
  <2>2. tx' = tx + 1 /\ journal' = journal /\ journal = "none" /\ installed' = installed
    BY DEF MakePlan
  <2> QED
    BY <2>1, <2>2
<1>5. CASE CreateJournal
  BY <1>5 DEF CreateJournal
<1>6. CASE WriteJournal
  BY <1>6 DEF WriteJournal
<1>7. CASE MakeStaging
  BY <1>7 DEF MakeStaging
<1>8. CASE MarkStaging
  BY <1>8 DEF MarkStaging
<1>9. CASE BeginStaging
  BY <1>9 DEF BeginStaging
<1>10. CASE Stage
  BY <1>10 DEF Stage
<1>11. CASE AbortStaging
  BY <1>11 DEF AbortStaging
<1>12. CASE StartCommit
  BY <1>12 DEF StartCommit
<1>13. CASE CreateDirectory
  BY <1>13 DEF CreateDirectory, GotoNext, Begin
<1>14. CASE CheckOriginal
  BY <1>14 DEF CheckOriginal
<1>15. CASE BackUp
  BY <1>15 DEF BackUp
<1>16. CASE Observe
  BY <1>16 DEF Observe
<1>17. CASE Rebind
  BY <1>17 DEF Rebind
<1>18. CASE PutBack
  BY <1>18 DEF PutBack
<1>19. CASE Redigest
  BY <1>19 DEF Redigest
<1>20. CASE Install
  BY <1>20 DEF Install
<1>21. CASE Verify
  BY <1>21 DEF Verify, GotoNext, Begin
<1>22. CASE Commit
  <2>1. \A l \in Label : installed[l] # None => installed[l].id \in Int
    BY FileIsFile DEF FileTypes, Files
  <2>2. pc' = "cleanup" /\ journal' = "committed" /\ tx' = tx
    BY <1>22 DEF Commit
  <2>3. \A l \in Label : \/ installed'[l] \in {None, installed[l]}
                          \/ installed'[l].id = tx
    BY <1>22 DEF Commit
  <2> QED
    BY <2>1, <2>2, <2>3
<1>23. CASE FailCommit
  BY <1>23 DEF FailCommit
<1>24. CASE Validate
  BY <1>24 DEF Validate
<1>25. CASE Undo
  BY <1>25 DEF Undo
<1>26. CASE UndoRemove
  BY <1>26 DEF UndoRemove
<1>27. CASE UndoRestore
  BY <1>27 DEF UndoRestore
<1>28. CASE UndoRestored
  BY <1>28 DEF UndoRestored
<1>29. CASE UndoRefused
  BY <1>29 DEF UndoRefused
<1>30. CASE UndoDirectory
  BY <1>30 DEF UndoDirectory
<1>31. CASE EmptyStaging
  BY <1>31 DEF EmptyStaging
<1>32. CASE RemoveStaging
  BY <1>32 DEF RemoveStaging
<1>33. CASE RemoveJournal
  BY <1>33 DEF RemoveJournal
<1>34. CASE Crash
  BY <1>34 DEF Crash
<1>35. CASE \E c \in Commands : Lock(c)
  BY <1>35 DEF Lock
<1>36. CASE \E c \in Commands : Enter(c)
  BY <1>36 DEF Enter
<1>37. CASE \E c \in Commands : WritePrivate(c)
  BY <1>37 DEF WritePrivate
<1>38. CASE \E c \in Commands : Leave(c)
  BY <1>38 DEF Leave
<1>39. CASE \E l \in Label : EditInPlace(l)
  BY <1>39 DEF EditInPlace
<1>40. CASE \E l \in Label : EditMoved(l)
  BY <1>40 DEF EditMoved
<1>41. CASE \E l \in Label : EditAnew(l)
  BY <1>41 DEF EditAnew
<1>42. CASE UNCHANGED vars
  BY <1>42 DEF vars
<1> QED
  BY <1>1, <1>2, <1>3, <1>4, <1>5, <1>6, <1>7, <1>8, <1>9, <1>10, <1>11,
     <1>12, <1>13, <1>14, <1>15, <1>16, <1>17, <1>18, <1>19, <1>20, <1>21,
     <1>22, <1>23, <1>24, <1>25, <1>26, <1>27, <1>28, <1>29, <1>30, <1>31,
     <1>32, <1>33, <1>34, <1>35, <1>36, <1>37, <1>38, <1>39, <1>40, <1>41,
     <1>42
     DEF Next, Installer, Begins, Commits, RollsBack, CleansUp, Command

LEMMA BackupsAreStagedStep ==
  ASSUME FileTypes, StepTypes, NumberTypes, plan \in Plan, Barrier, JournalFollows, NextFollows,
         BackupsAreStaged, [Next]_vars
  PROVE  BackupsAreStaged'
<1> USE InstallAssumption DEF Goto, GotoAt, disk, context, history,
        StepTypes, Steps, CommitSteps, UndoSteps, PreSteps, CleanSteps,
        JournalFollows, NumberTypes, BackupsAreStaged, Uncommitted
<1>1. CASE Acquire
  BY <1>1 DEF Acquire
<1>2. CASE Recover
  BY <1>2 DEF Recover, RecoveryStep
<1>3. CASE Release
  BY <1>3 DEF Release
<1>4. CASE \E targets, removes \in SUBSET Label : MakePlan(targets, removes)
  BY <1>4 DEF MakePlan
<1>5. CASE CreateJournal
  BY <1>5 DEF CreateJournal
<1>6. CASE WriteJournal
  BY <1>6 DEF WriteJournal
<1>7. CASE MakeStaging
  BY <1>7 DEF MakeStaging
<1>8. CASE MarkStaging
  BY <1>8 DEF MarkStaging
<1>9. CASE BeginStaging
  BY <1>9 DEF BeginStaging
<1>10. CASE Stage
  BY <1>10 DEF Stage
<1>11. CASE AbortStaging
  BY <1>11 DEF AbortStaging
<1>12. CASE StartCommit
  BY <1>12 DEF StartCommit
<1>13. CASE CreateDirectory
  BY <1>13 DEF CreateDirectory, GotoNext, Begin
<1>14. CASE CheckOriginal
  BY <1>14 DEF CheckOriginal
<1>15. CASE BackUp
  BY <1>15 DEF BackUp
<1>16. CASE Observe
  BY <1>16 DEF Observe
<1>17. CASE Rebind
  BY <1>17 DEF Rebind
<1>18. CASE PutBack
  BY <1>18 DEF PutBack
<1>19. CASE Redigest
  BY <1>19 DEF Redigest
<1>20. CASE Install
  BY <1>20 DEF Install
<1>21. CASE Verify
  BY <1>21 DEF Verify, GotoNext, Begin
<1>22. CASE Commit
  BY <1>22 DEF Commit
<1>23. CASE FailCommit
  BY <1>23 DEF FailCommit
<1>24. CASE Validate
  BY <1>24 DEF Validate
<1>25. CASE Undo
  BY <1>25 DEF Undo
<1>26. CASE UndoRemove
  BY <1>26 DEF UndoRemove
<1>27. CASE UndoRestore
  BY <1>27 DEF UndoRestore
<1>28. CASE UndoRestored
  BY <1>28 DEF UndoRestored
<1>29. CASE UndoRefused
  BY <1>29 DEF UndoRefused
<1>30. CASE UndoDirectory
  BY <1>30 DEF UndoDirectory
<1>31. CASE EmptyStaging
  BY <1>31 DEF EmptyStaging
<1>32. CASE RemoveStaging
  BY <1>32 DEF RemoveStaging
<1>33. CASE RemoveJournal
  BY <1>33 DEF RemoveJournal
<1>34. CASE Crash
  BY <1>34 DEF Crash
<1>35. CASE \E c \in Commands : Lock(c)
  BY <1>35 DEF Lock
<1>36. CASE \E c \in Commands : Enter(c)
  BY <1>36 DEF Enter
<1>37. CASE \E c \in Commands : WritePrivate(c)
  BY <1>37 DEF WritePrivate
<1>38. CASE \E c \in Commands : Leave(c)
  BY <1>38 DEF Leave
<1>39. CASE \E l \in Label : EditInPlace(l)
  BY <1>39 DEF EditInPlace
<1>40. CASE \E l \in Label : EditMoved(l)
  BY <1>40 DEF EditMoved, Nothing
<1>41. CASE \E l \in Label : EditAnew(l)
  BY <1>41 DEF EditAnew
<1>42. CASE UNCHANGED vars
  BY <1>42 DEF vars
<1> QED
  BY <1>1, <1>2, <1>3, <1>4, <1>5, <1>6, <1>7, <1>8, <1>9, <1>10, <1>11,
     <1>12, <1>13, <1>14, <1>15, <1>16, <1>17, <1>18, <1>19, <1>20, <1>21,
     <1>22, <1>23, <1>24, <1>25, <1>26, <1>27, <1>28, <1>29, <1>30, <1>31,
     <1>32, <1>33, <1>34, <1>35, <1>36, <1>37, <1>38, <1>39, <1>40, <1>41,
     <1>42
     DEF Next, Installer, Begins, Commits, RollsBack, CleansUp, Command

\* A predecessor is an inode of an earlier transaction.
LEMMA OriginalIsOlder ==
  ASSUME FileTypes, NumberTypes, plan \in Plan, CandidatesAreNew, TargetsArePlaced,
         journal = "committing", NEW l \in plan.targets, Original(l) # None
  PROVE  Original(l).id # tx
<1>1. l \in Label /\ SameFile(Original(l), installed[l])
  BY DEF TargetsArePlaced, Plan
<1>2. installed[l] # None /\ installed[l].id = Original(l).id
  BY <1>1 DEF SameFile, Matches, SameIdentity
<1>3. installed[l].id \in Int
  BY <1>1, <1>2, FileIsFile DEF FileTypes, Files
<1> QED
  BY <1>1, <1>2, <1>3 DEF CandidatesAreNew, NumberTypes

\* A predecessor that is in its place was not moved, one that is not is the backup.
LEMMA OriginalInPlace ==
  ASSUME FileTypes, NumberTypes, plan \in Plan, CandidatesAreNew, TargetsArePlaced,
         journal = "committing", NEW l \in plan.targets
  PROVE  /\ Original(l) # None /\ target[l] # None /\ target[l].id # tx
              => AsPlanned(l) /\ backup[l] = None
         /\ Original(l) # None /\ SameIdentity(target[l], Original(l))
              => AsPlanned(l) /\ backup[l] = None
         /\ Original(l) # None /\ target[l] = None => Matches(backup[l], Original(l))
         /\ target[l] # None /\ target[l].id = tx => ~AsPlanned(l)
<1>1. Placed(l)
  BY DEF TargetsArePlaced, Plan
<1>2. Original(l) # None => Original(l).id # tx
  BY OriginalIsOlder
<1> QED
  BY <1>1, <1>2 DEF Placed, AsPlanned, SameFile, Matches, SameIdentity

\* A step that moves the target it is at leaves the others in their places.
LEMMA PlacedElsewhere ==
  ASSUME plan \in Plan, TargetsArePlaced, journal = "committing", next \in plan.targets,
         \A l \in Label : l # next => target'[l] = target[l] /\ backup'[l] = backup[l],
         UNCHANGED <<next, plan, tx, installed>>, Placed(next)'
  PROVE  TargetsArePlaced'
<1>1. \A l \in plan.targets : Placed(l)' /\ SameFile(Original(l), installed[l])
  <2> TAKE l \in plan.targets
  <2>1. l \in Label
    BY DEF Plan
  <2>2. Placed(l) /\ SameFile(Original(l), installed[l])
    BY <2>1 DEF TargetsArePlaced
  <2>3. CASE l = next
    BY <2>2, <2>3
  <2>4. CASE l # next
    BY <2>1, <2>2, <2>4 DEF Placed, AsPlanned, Original
  <2> QED
    BY <2>2, <2>3, <2>4
<1>2. \A l \in Label \ plan.targets : Stands(l)' /\ backup'[l] = None
  BY DEF TargetsArePlaced, Stands
<1> QED
  BY <1>1, <1>2 DEF TargetsArePlaced, Original

LEMMA TargetsArePlacedStep ==
  ASSUME edits = 0, edits' = 0, FileTypes, StepTypes, NumberTypes,
         plan \in Plan, Barrier, JournalFollows, NextFollows,
         InstalledStands, CandidatesAreNew, BackupsAreStaged,
         TargetsArePlaced, CommitReached, Settled, [Next]_vars
  PROVE  TargetsArePlaced'
<1> USE InstallAssumption DEF Goto, GotoAt, disk, context, history,
        StepTypes, Steps, CommitSteps, UndoSteps, PreSteps, CleanSteps,
        JournalFollows, NumberTypes
<1>1. CASE Acquire
  BY <1>1 DEF Acquire, TargetsArePlaced, Placed, AsPlanned, Stands, Original
<1>2. CASE Recover
  BY <1>2 DEF Recover, TargetsArePlaced, Placed, AsPlanned, Stands, Original, RecoveryStep
<1>3. CASE Release
  BY <1>3 DEF Release, TargetsArePlaced, Placed, AsPlanned, Stands, Original
<1>4. CASE \E targets, removes \in SUBSET Label : MakePlan(targets, removes)
  <2>1. journal' = "none"
    BY <1>4 DEF MakePlan
  <2> QED
    BY <2>1 DEF TargetsArePlaced
<1>5. CASE CreateJournal
  BY <1>5 DEF CreateJournal, TargetsArePlaced, Placed, AsPlanned, Stands, Original
<1>6. CASE WriteJournal
  BY <1>6 DEF WriteJournal, TargetsArePlaced, Placed, AsPlanned, Stands, Original
<1>7. CASE MakeStaging
  BY <1>7 DEF MakeStaging, TargetsArePlaced, Placed, AsPlanned, Stands, Original
<1>8. CASE MarkStaging
  BY <1>8 DEF MarkStaging, TargetsArePlaced, Placed, AsPlanned, Stands, Original
<1>9. CASE BeginStaging
  BY <1>9 DEF BeginStaging, TargetsArePlaced, Placed, AsPlanned, Stands, Original
<1>10. CASE Stage
  <2>1. journal' = "staging"
    BY <1>10 DEF Stage
  <2> QED
    BY <2>1 DEF TargetsArePlaced
<1>11. CASE AbortStaging
  BY <1>11 DEF AbortStaging, TargetsArePlaced, Placed, AsPlanned, Stands, Original
<1>12. CASE StartCommit
  <2>1. UNCHANGED <<target, backup, plan, tx, installed>> /\ journal = "staging"
    BY <1>12 DEF StartCommit
  <2>2. backup = Nothing /\ \A l \in Label : Stands(l)
    BY <2>1 DEF BackupsAreStaged, InstalledStands, Uncommitted
  <2>3. \A l \in plan.targets : AsPlanned(l)
    BY <1>12 DEF StartCommit, PlanStands
  <2>4. \A l \in plan.targets : l \in Label /\ SameFile(Original(l), installed[l])
    BY <2>2, <2>3, SameFileTransitive, SameFileSymmetric DEF AsPlanned, Stands, Plan
  <2> QED
    BY <2>1, <2>2, <2>3, <2>4 DEF TargetsArePlaced, Placed, AsPlanned, Stands, Original, Nothing
<1>13. CASE CreateDirectory
  BY <1>13 DEF CreateDirectory, TargetsArePlaced, Placed, AsPlanned, Stands, Original, GotoNext, Begin
<1>14. CASE CheckOriginal
  BY <1>14 DEF CheckOriginal, TargetsArePlaced, Placed, AsPlanned, Stands, Original
<1>15. CASE BackUp
  <2>1. next \in plan.targets /\ next \in Label /\ journal = "committing"
    BY <1>15 DEF BackUp, NextFollows, Plan
  <2>2. \A l \in Label : l # next => target'[l] = target[l] /\ backup'[l] = backup[l]
    BY <1>15, <2>1 DEF BackUp, FileTypes, Files
  <2>3. UNCHANGED <<next, plan, tx, installed>>
    BY <1>15 DEF BackUp
  <2>4. Original(next) # None /\ SameIdentity(target[next], Original(next))
    BY <1>15 DEF BackUp, SameIdentity
  <2>5. AsPlanned(next) /\ target[next] # None
    BY <2>1, <2>4, OriginalInPlace DEF SameIdentity
  <2>6. Matches(target[next], Original(next))
    BY <2>4, <2>5 DEF AsPlanned, SameFile
  <2>7. target'[next] = None /\ backup'[next] = target[next]
    BY <1>15, <2>1 DEF BackUp, FileTypes, Files
  <2>9. Placed(next)'
    BY <2>3, <2>6, <2>7 DEF Placed, Original
  <2> QED
    BY <2>1, <2>2, <2>3, <2>9, PlacedElsewhere
<1>16. CASE Observe
  BY <1>16 DEF Observe, TargetsArePlaced, Placed, AsPlanned, Stands, Original
<1>17. CASE Rebind
  BY <1>17 DEF Rebind, CommitReached
<1>18. CASE PutBack
  BY <1>18 DEF PutBack, CommitReached
<1>19. CASE Redigest
  BY <1>19 DEF Redigest, CommitReached
<1>20. CASE Install
  <2>1. next \in plan.targets /\ next \in Label /\ journal = "committing"
    BY <1>20 DEF Install, NextFollows, Plan
  <2>2. \A l \in Label : l # next => target'[l] = target[l] /\ backup'[l] = backup[l]
    BY <1>20, <2>1 DEF Install, FileTypes, Files
  <2>3. UNCHANGED <<next, plan, tx, installed>>
    BY <1>20 DEF Install
  <2>4. Placed(next) /\ target[next] = None
    BY <1>20, <2>1 DEF Install, TargetsArePlaced
  <2>5. \/ Original(next) = None /\ backup[next] = None
        \/ Matches(backup[next], Original(next))
    BY <2>4 DEF Placed, AsPlanned, SameFile, Matches, SameIdentity
  <2>6. target'[next].id = tx /\ backup'[next] = backup[next]
    BY <1>20, <2>1 DEF Install, IsCandidate, FileTypes, Files
  <2>9. Placed(next)'
    BY <2>3, <2>5, <2>6 DEF Placed, Original
  <2> QED
    BY <2>1, <2>2, <2>3, <2>9, PlacedElsewhere
<1>21. CASE Verify
  BY <1>21 DEF Verify, TargetsArePlaced, Placed, AsPlanned, Stands, Original, GotoNext, Begin
<1>22. CASE Commit
  <2>1. journal' = "committed"
    BY <1>22 DEF Commit
  <2> QED
    BY <2>1 DEF TargetsArePlaced
<1>23. CASE FailCommit
  BY <1>23 DEF FailCommit, TargetsArePlaced, Placed, AsPlanned, Stands, Original
<1>24. CASE Validate
  BY <1>24 DEF Validate, TargetsArePlaced, Placed, AsPlanned, Stands, Original
<1>25. CASE Undo
  BY <1>25 DEF Undo, TargetsArePlaced, Placed, AsPlanned, Stands, Original
<1>26. CASE UndoRemove
  <2>1. next \in plan.targets /\ next \in Label /\ journal = "committing"
    BY <1>26 DEF UndoRemove, NextFollows, Plan
  <2>2. \A l \in Label : l # next => target'[l] = target[l] /\ backup'[l] = backup[l]
    BY <1>26, <2>1 DEF UndoRemove, FileTypes, Files
  <2>3. UNCHANGED <<next, plan, tx, installed>>
    BY <1>26 DEF UndoRemove
  <2>4. target[next] # None /\ target[next].id = tx
    BY <1>26 DEF UndoRemove
  <2>5. Placed(next) /\ ~AsPlanned(next)
    BY <2>1, <2>4, OriginalInPlace DEF TargetsArePlaced
  <2>6. target'[next] = None \/ target'[next] = [target[next] EXCEPT !.data = Torn]
    BY <1>26, <2>1 DEF UndoRemove, FileTypes, Files
  <2>7. target[next] \in File
    BY <2>1, <2>4 DEF FileTypes, Files
  <2>11. [target[next] EXCEPT !.data = Torn].id = tx
    BY <2>4, <2>7, EditedFile
  <2>8. target'[next] # None => target'[next].id = tx
    BY <2>6, <2>11
  <2>10. backup' = backup
    BY <1>26 DEF UndoRemove
  <2>9. Placed(next)'
    BY <2>3, <2>5, <2>8, <2>10 DEF Placed, Original
  <2> QED
    BY <2>1, <2>2, <2>3, <2>9, PlacedElsewhere
<1>27. CASE UndoRestore
  <2>1. next \in plan.targets /\ next \in Label /\ journal = "committing"
    BY <1>27 DEF UndoRestore, NextFollows, Plan
  <2>2. \A l \in Label : l # next => target'[l] = target[l] /\ backup'[l] = backup[l]
    BY <1>27, <2>1 DEF UndoRestore, FileTypes, Files
  <2>3. UNCHANGED <<next, plan, tx, installed>>
    BY <1>27 DEF UndoRestore
  <2>4. Placed(next) /\ target[next] = None
    BY <1>27, <2>1 DEF UndoRestore, TargetsArePlaced
  <2>5. SameFile(backup[next], Original(next))
    BY <2>4 DEF Placed, AsPlanned, SameFile, Matches, SameIdentity
  <2>6. target'[next] = backup[next] /\ backup'[next] = None
    BY <1>27, <2>1 DEF UndoRestore, FileTypes, Files
  <2>9. Placed(next)'
    BY <2>3, <2>5, <2>6 DEF Placed, AsPlanned, Original
  <2> QED
    BY <2>1, <2>2, <2>3, <2>9, PlacedElsewhere
<1>28. CASE UndoRestored
  BY <1>28 DEF UndoRestored, TargetsArePlaced, Placed, AsPlanned, Stands, Original
<1>29. CASE UndoRefused
  BY <1>29 DEF UndoRefused, TargetsArePlaced, Placed, AsPlanned, Stands, Original
<1>30. CASE UndoDirectory
  BY <1>30 DEF UndoDirectory, TargetsArePlaced, Placed, AsPlanned, Stands, Original
<1>31. CASE EmptyStaging
  <2>1. UNCHANGED <<target, plan, tx, installed, journal>> /\ backup' = Nothing
    BY <1>31 DEF EmptyStaging
  <2>2. journal = "committing" => \A l \in plan.targets : AsPlanned(l)
    BY <1>31 DEF EmptyStaging, Settled
  <2> QED
    BY <2>1, <2>2 DEF TargetsArePlaced, Placed, AsPlanned, Stands, Original, Nothing, Plan
<1>32. CASE RemoveStaging
  BY <1>32 DEF RemoveStaging, TargetsArePlaced, Placed, AsPlanned, Stands, Original
<1>33. CASE RemoveJournal
  BY <1>33 DEF RemoveJournal, TargetsArePlaced, Placed, AsPlanned, Stands, Original
<1>34. CASE Crash
  BY <1>34 DEF Crash, TargetsArePlaced, Placed, AsPlanned, Stands, Original
<1>35. CASE \E c \in Commands : Lock(c)
  BY <1>35 DEF Lock, TargetsArePlaced, Placed, AsPlanned, Stands, Original
<1>36. CASE \E c \in Commands : Enter(c)
  BY <1>36 DEF Enter, TargetsArePlaced, Placed, AsPlanned, Stands, Original
<1>37. CASE \E c \in Commands : WritePrivate(c)
  <2>1. journal = "none" /\ journal' = journal
    BY <1>37 DEF WritePrivate, Barrier, CommandsAreBarred
  <2> QED
    BY <2>1 DEF TargetsArePlaced
<1>38. CASE \E c \in Commands : Leave(c)
  BY <1>38 DEF Leave, TargetsArePlaced, Placed, AsPlanned, Stands, Original
<1>39. CASE \E l \in Label : EditInPlace(l)
  BY <1>39 DEF EditInPlace, TargetsArePlaced, Placed, AsPlanned, Stands, Original
<1>40. CASE \E l \in Label : EditMoved(l)
  BY <1>40 DEF EditMoved, TargetsArePlaced, Placed, AsPlanned, Stands, Original
<1>41. CASE \E l \in Label : EditAnew(l)
  BY <1>41 DEF EditAnew, TargetsArePlaced, Placed, AsPlanned, Stands, Original
<1>42. CASE UNCHANGED vars
  BY <1>42 DEF vars, TargetsArePlaced, Placed, AsPlanned, Stands, Original
<1> QED
  BY <1>1, <1>2, <1>3, <1>4, <1>5, <1>6, <1>7, <1>8, <1>9, <1>10, <1>11,
     <1>12, <1>13, <1>14, <1>15, <1>16, <1>17, <1>18, <1>19, <1>20, <1>21,
     <1>22, <1>23, <1>24, <1>25, <1>26, <1>27, <1>28, <1>29, <1>30, <1>31,
     <1>32, <1>33, <1>34, <1>35, <1>36, <1>37, <1>38, <1>39, <1>40, <1>41,
     <1>42
     DEF Next, Installer, Begins, Commits, RollsBack, CleansUp, Command

LEMMA CommitReachedStep ==
  ASSUME edits = 0, edits' = 0, FileTypes, StepTypes, NumberTypes,
         plan \in Plan, Barrier, JournalFollows, NextFollows,
         CandidatesAreNew, TargetsArePlaced, CommitReached, [Next]_vars
  PROVE  CommitReached'
<1> USE InstallAssumption DEF Goto, GotoAt, disk, context, history,
        StepTypes, Steps, CommitSteps, UndoSteps, PreSteps, CleanSteps,
        JournalFollows, NumberTypes, NextFollows
<1>1. CASE Acquire
  BY <1>1 DEF Acquire, CommitReached, Done, IsCandidate
<1>2. CASE Recover
  BY <1>2 DEF Recover, CommitReached, Done, IsCandidate, RecoveryStep
<1>3. CASE Release
  BY <1>3 DEF Release, CommitReached, Done, IsCandidate
<1>4. CASE \E targets, removes \in SUBSET Label : MakePlan(targets, removes)
  <2>1. pc' = "create"
    BY <1>4 DEF MakePlan
  <2> QED
    BY <2>1 DEF CommitReached
<1>5. CASE CreateJournal
  BY <1>5 DEF CreateJournal, CommitReached, Done, IsCandidate
<1>6. CASE WriteJournal
  BY <1>6 DEF WriteJournal, CommitReached, Done, IsCandidate
<1>7. CASE MakeStaging
  BY <1>7 DEF MakeStaging, CommitReached, Done, IsCandidate
<1>8. CASE MarkStaging
  BY <1>8 DEF MarkStaging, CommitReached, Done, IsCandidate
<1>9. CASE BeginStaging
  BY <1>9 DEF BeginStaging, CommitReached, Done, IsCandidate
<1>10. CASE Stage
  BY <1>10 DEF Stage, CommitReached, Done, IsCandidate
<1>11. CASE AbortStaging
  BY <1>11 DEF AbortStaging, CommitReached, Done, IsCandidate
<1>12. CASE StartCommit
  BY <1>12 DEF StartCommit, CommitReached, Done, IsCandidate
<1>13. CASE CreateDirectory
  <2>1. UNCHANGED <<target, plan, tx>> /\ pc' \in {"verify", "check", "install"}
    BY <1>13 DEF CreateDirectory, GotoNext, Begin
  <2>2. \A l \in plan.targets : ~(l < next')
    BY <1>13 DEF CreateDirectory, GotoNext, Rest, Plan, Label
  <2>3. pc' = "verify" => next' = Last + 1
    BY <1>13 DEF CreateDirectory, GotoNext, Begin
  <2> QED
    BY <2>1, <2>2, <2>3 DEF CommitReached
<1>14. CASE CheckOriginal
  BY <1>14 DEF CheckOriginal, CommitReached, Done, IsCandidate
<1>15. CASE BackUp
  <2>1. next \in plan.targets /\ next \in Label /\ pc = "backup"
    BY <1>15 DEF BackUp, Plan
  <2>2. target'[next] = None /\ \A l \in Label : l # next => target'[l] = target[l]
    BY <1>15, <2>1 DEF BackUp, FileTypes, Files
  <2>3. pc' = "observe" /\ UNCHANGED <<next, plan, tx>>
    BY <1>15 DEF BackUp
  <2>4. \A l \in plan.targets : l < next => l # next /\ l \in Label
    BY <2>1 DEF Plan, Label
  <2> QED
    BY <2>1, <2>2, <2>3, <2>4 DEF CommitReached, Done, IsCandidate
<1>16. CASE Observe
  <2>1. pc = "observe" /\ next \in plan.targets /\ target[next] = None /\ Original(next) # None
    BY <1>16 DEF Observe, CommitReached
  <2>2. Matches(backup[next], Original(next))
    BY <2>1, OriginalInPlace
  <2>3. /\ UNCHANGED <<target, next, plan, tx>>
        /\ pc' = IF next \in plan.removes THEN "verify" ELSE "install"
    BY <1>16, <2>2 DEF Observe, Matches
  <2> QED
    BY <2>1, <2>3 DEF CommitReached, Done, IsCandidate
<1>17. CASE Rebind
  BY <1>17 DEF Rebind, CommitReached
<1>18. CASE PutBack
  BY <1>18 DEF PutBack, CommitReached
<1>19. CASE Redigest
  BY <1>19 DEF Redigest, CommitReached
<1>20. CASE Install
  <2>1. next \in plan.targets /\ next \in Label /\ pc = "install" /\ next \notin plan.removes
    BY <1>20 DEF Install, Plan
  <2>2. target'[next] = candidate[next] /\ \A l \in Label : l # next => target'[l] = target[l]
    BY <1>20, <2>1 DEF Install, FileTypes, Files
  <2>3. pc' = "verify" /\ UNCHANGED <<next, plan, tx>> /\ IsCandidate(candidate[next])
    BY <1>20 DEF Install
  <2>4. \A l \in plan.targets : l < next => l # next /\ l \in Label
    BY <2>1 DEF Plan, Label
  <2> QED
    BY <2>1, <2>2, <2>3, <2>4 DEF CommitReached, Done, IsCandidate
<1>21. CASE Verify
  <2>1. UNCHANGED <<target, plan, tx>> /\ pc' \in {"verify", "check", "install"}
    BY <1>21 DEF Verify, GotoNext, Begin
  <2>2. \A l \in plan.targets : l < next' => l <= next
    BY <1>21 DEF Verify, GotoNext, Rest, Plan, Label
  <2>3. pc' = "verify" => next' = Last + 1
    BY <1>21 DEF Verify, GotoNext, Begin
  <2>4. pc = "verify" /\ next \in plan.targets /\ next # Last + 1
    BY <1>21 DEF Verify, Plan, Label
  <2>5. Done(next) /\ \A l \in plan.targets : l < next => Done(l)
    BY <2>4 DEF CommitReached
  <2>6. \A l \in plan.targets : l \in Int /\ (l < next' => Done(l))
    BY <2>2, <2>4, <2>5 DEF Plan, Label
  <2> QED
    BY <2>1, <2>3, <2>6 DEF CommitReached, Done, IsCandidate
<1>22. CASE Commit
  BY <1>22 DEF Commit, CommitReached, Done, IsCandidate
<1>23. CASE FailCommit
  BY <1>23 DEF FailCommit, CommitReached, Done, IsCandidate
<1>24. CASE Validate
  BY <1>24 DEF Validate, CommitReached, Done, IsCandidate
<1>25. CASE Undo
  BY <1>25 DEF Undo, CommitReached, Done, IsCandidate
<1>26. CASE UndoRemove
  <2>1. pc' \in UndoSteps
    BY <1>26 DEF UndoRemove
  <2> QED
    BY <2>1 DEF CommitReached
<1>27. CASE UndoRestore
  <2>1. pc' \in UndoSteps
    BY <1>27 DEF UndoRestore
  <2> QED
    BY <2>1 DEF CommitReached
<1>28. CASE UndoRestored
  BY <1>28 DEF UndoRestored, CommitReached, Done, IsCandidate
<1>29. CASE UndoRefused
  BY <1>29 DEF UndoRefused, CommitReached, Done, IsCandidate
<1>30. CASE UndoDirectory
  BY <1>30 DEF UndoDirectory, CommitReached, Done, IsCandidate
<1>31. CASE EmptyStaging
  BY <1>31 DEF EmptyStaging, CommitReached, Done, IsCandidate
<1>32. CASE RemoveStaging
  BY <1>32 DEF RemoveStaging, CommitReached, Done, IsCandidate
<1>33. CASE RemoveJournal
  BY <1>33 DEF RemoveJournal, CommitReached, Done, IsCandidate
<1>34. CASE Crash
  BY <1>34 DEF Crash, CommitReached, Done, IsCandidate
<1>35. CASE \E c \in Commands : Lock(c)
  BY <1>35 DEF Lock, CommitReached, Done, IsCandidate
<1>36. CASE \E c \in Commands : Enter(c)
  BY <1>36 DEF Enter, CommitReached, Done, IsCandidate
<1>37. CASE \E c \in Commands : WritePrivate(c)
  <2>1. journal = "none" /\ UNCHANGED pc
    BY <1>37 DEF WritePrivate, Barrier, CommandsAreBarred
  <2> QED
    BY <2>1 DEF CommitReached
<1>38. CASE \E c \in Commands : Leave(c)
  BY <1>38 DEF Leave, CommitReached, Done, IsCandidate
<1>39. CASE \E l \in Label : EditInPlace(l)
  BY <1>39 DEF EditInPlace, CommitReached, Done, IsCandidate
<1>40. CASE \E l \in Label : EditMoved(l)
  BY <1>40 DEF EditMoved, CommitReached, Done, IsCandidate
<1>41. CASE \E l \in Label : EditAnew(l)
  BY <1>41 DEF EditAnew, CommitReached, Done, IsCandidate
<1>42. CASE UNCHANGED vars
  BY <1>42 DEF vars, CommitReached, Done, IsCandidate
<1> QED
  BY <1>1, <1>2, <1>3, <1>4, <1>5, <1>6, <1>7, <1>8, <1>9, <1>10, <1>11,
     <1>12, <1>13, <1>14, <1>15, <1>16, <1>17, <1>18, <1>19, <1>20, <1>21,
     <1>22, <1>23, <1>24, <1>25, <1>26, <1>27, <1>28, <1>29, <1>30, <1>31,
     <1>32, <1>33, <1>34, <1>35, <1>36, <1>37, <1>38, <1>39, <1>40, <1>41,
     <1>42
     DEF Next, Installer, Begins, Commits, RollsBack, CleansUp, Command

LEMMA UndoReachedStep ==
  ASSUME edits = 0, edits' = 0, FileTypes, StepTypes, NumberTypes,
         plan \in Plan, Barrier, JournalFollows, NextFollows,
         CandidatesAreNew, TargetsArePlaced, UndoReached, [Next]_vars
  PROVE  UndoReached'
<1> USE InstallAssumption DEF Goto, GotoAt, disk, context, history,
        StepTypes, Steps, CommitSteps, UndoSteps, PreSteps, CleanSteps,
        JournalFollows, NumberTypes, NextFollows
<1>1. CASE Acquire
  BY <1>1 DEF Acquire, UndoReached, AsPlanned, Original
<1>2. CASE Recover
  BY <1>2 DEF Recover, UndoReached, AsPlanned, Original, RecoveryStep
<1>3. CASE Release
  BY <1>3 DEF Release, UndoReached, AsPlanned, Original
<1>4. CASE \E targets, removes \in SUBSET Label : MakePlan(targets, removes)
  <2>1. pc' \notin UndoSteps
    BY <1>4 DEF MakePlan
  <2> QED
    BY <2>1 DEF UndoReached
<1>5. CASE CreateJournal
  BY <1>5 DEF CreateJournal, UndoReached, AsPlanned, Original
<1>6. CASE WriteJournal
  BY <1>6 DEF WriteJournal, UndoReached, AsPlanned, Original
<1>7. CASE MakeStaging
  BY <1>7 DEF MakeStaging, UndoReached, AsPlanned, Original
<1>8. CASE MarkStaging
  BY <1>8 DEF MarkStaging, UndoReached, AsPlanned, Original
<1>9. CASE BeginStaging
  BY <1>9 DEF BeginStaging, UndoReached, AsPlanned, Original
<1>10. CASE Stage
  <2>1. pc' \notin UndoSteps
    BY <1>10 DEF Stage
  <2> QED
    BY <2>1 DEF UndoReached
<1>11. CASE AbortStaging
  BY <1>11 DEF AbortStaging, UndoReached, AsPlanned, Original
<1>12. CASE StartCommit
  BY <1>12 DEF StartCommit, UndoReached, AsPlanned, Original
<1>13. CASE CreateDirectory
  <2>1. pc' \notin UndoSteps
    BY <1>13 DEF CreateDirectory, GotoNext, Begin
  <2> QED
    BY <2>1 DEF UndoReached
<1>14. CASE CheckOriginal
  BY <1>14 DEF CheckOriginal, UndoReached, AsPlanned, Original
<1>15. CASE BackUp
  <2>1. pc' \notin UndoSteps
    BY <1>15 DEF BackUp
  <2> QED
    BY <2>1 DEF UndoReached
<1>16. CASE Observe
  BY <1>16 DEF Observe, UndoReached, AsPlanned, Original, CommitSteps
<1>17. CASE Rebind
  <2>1. pc' \notin UndoSteps
    BY <1>17 DEF Rebind
  <2> QED
    BY <2>1 DEF UndoReached
<1>18. CASE PutBack
  <2>1. pc' \notin UndoSteps
    BY <1>18 DEF PutBack
  <2> QED
    BY <2>1 DEF UndoReached
<1>19. CASE Redigest
  <2>1. pc' \notin UndoSteps
    BY <1>19 DEF Redigest
  <2> QED
    BY <2>1 DEF UndoReached
<1>20. CASE Install
  <2>1. pc' \notin UndoSteps
    BY <1>20 DEF Install
  <2> QED
    BY <2>1 DEF UndoReached
<1>21. CASE Verify
  <2>1. pc' \notin UndoSteps
    BY <1>21 DEF Verify, GotoNext, Begin
  <2> QED
    BY <2>1 DEF UndoReached
<1>22. CASE Commit
  <2>1. pc' \notin UndoSteps
    BY <1>22 DEF Commit
  <2> QED
    BY <2>1 DEF UndoReached
<1>23. CASE FailCommit
  BY <1>23 DEF FailCommit, UndoReached, AsPlanned, Original
<1>24. CASE Validate
  <2>1. \A l \in plan.targets : ~(l > Last)
    BY DEF Plan, Label
  <2> QED
    BY <1>24, <2>1 DEF Validate, UndoReached
<1>25. CASE Undo
  <2>1. pc = "undo" /\ UNCHANGED <<target, backup, plan, tx>> /\ next \in 1..Last
    BY <1>25 DEF Undo, UndoMore
  <2>2. \A l \in plan.targets : l > next => AsPlanned(l) /\ backup[l] = None
    BY <2>1 DEF UndoReached
  <2>3. CASE next \notin plan.targets
    <3>1. pc' = "undo" /\ next' = next - 1
      BY <1>25, <2>3 DEF Undo
    <3>2. \A l \in plan.targets : l > next' => l > next
      BY <2>1, <2>3, <3>1 DEF Plan, Label
    <3> QED
      BY <2>1, <2>2, <3>1, <3>2 DEF UndoReached, AsPlanned, Original
  <2>4. CASE next \in plan.targets
    <3>1. /\ next' = next /\ pc' \in {"refused", "removing", "restoring", "restored"}
          /\ pc' = "removing" => IsCandidate(target[next])
          /\ pc' = "restored" => backup[next] = None
      BY <1>25, <2>4 DEF Undo
    <3> QED
      BY <2>1, <2>2, <3>1 DEF UndoReached, AsPlanned, Original, IsCandidate
  <2> QED
    BY <2>3, <2>4
<1>26. CASE UndoRemove
  <2>1. next \in plan.targets /\ next \in Label /\ pc = "removing"
    BY <1>26 DEF UndoRemove, Plan
  <2>2. target[next] \in File /\ target[next].id = tx
    BY <1>26, <2>1 DEF UndoRemove, FileTypes, Files
  <2> DEFINE f == [target[next] EXCEPT !.data = Torn]
  <2>3. f # None /\ f.id = tx
    BY <2>2, EditedFile, FileIsFile
  <2>4. /\ \A l \in Label : l # next => target'[l] = target[l]
        /\ pc' = "removing" => target'[next] = f
        /\ pc' \in {"removing", "restoring", "restored"}
        /\ pc' = "restored" => backup[next] = None
    BY <1>26, <2>1 DEF UndoRemove, FileTypes, Files
  <2>5. UNCHANGED <<next, backup, plan, tx>>
    BY <1>26 DEF UndoRemove
  <2>6. \A l \in plan.targets : l > next => l # next /\ l \in Label
    BY <2>1 DEF Plan, Label
  <2>7. \A l \in plan.targets : l > next => AsPlanned(l)' /\ backup'[l] = None
    BY <2>1, <2>4, <2>5, <2>6 DEF UndoReached, AsPlanned, Original
  <2> QED
    BY <2>3, <2>4, <2>5, <2>7 DEF UndoReached
<1>27. CASE UndoRestore
  <2>1. next \in plan.targets /\ next \in Label /\ pc = "restoring"
    BY <1>27 DEF UndoRestore, Plan
  <2>2. backup'[next] = None /\ \A l \in Label : l # next => target'[l] = target[l] /\ backup'[l] = backup[l]
    BY <1>27, <2>1 DEF UndoRestore, FileTypes, Files
  <2>3. pc' = "restored" /\ UNCHANGED <<next, plan, tx>>
    BY <1>27 DEF UndoRestore
  <2>4. \A l \in plan.targets : l > next => l # next /\ l \in Label
    BY <2>1 DEF Plan, Label
  <2>5. \A l \in plan.targets : l > next => AsPlanned(l)' /\ backup'[l] = None
    BY <2>1, <2>2, <2>3, <2>4 DEF UndoReached, AsPlanned, Original
  <2> QED
    BY <2>2, <2>3, <2>5 DEF UndoReached
<1>28. CASE UndoRestored
  <2>1. next \in plan.targets /\ next \in Label /\ pc = "restored" /\ next' = next - 1 /\ pc' = "undo"
    BY <1>28 DEF UndoRestored, Plan
  <2>2. UNCHANGED <<target, backup, plan, tx>> /\ AsPlanned(next) /\ backup[next] = None
    BY <1>28, <2>1 DEF UndoRestored, UndoReached
  <2>3. \A l \in plan.targets : l > next' => l = next \/ l > next
    BY <2>1 DEF Plan, Label
  <2>4. \A l \in plan.targets : l > next' => AsPlanned(l) /\ backup[l] = None
    BY <2>1, <2>2, <2>3 DEF UndoReached
  <2> QED
    BY <2>1, <2>2, <2>4 DEF UndoReached, AsPlanned, Original
<1>29. CASE UndoRefused
  BY <1>29 DEF UndoRefused, UndoReached, AsPlanned, Original
<1>30. CASE UndoDirectory
  BY <1>30 DEF UndoDirectory, UndoReached, AsPlanned, Original
<1>31. CASE EmptyStaging
  <2>1. pc' \notin UndoSteps
    BY <1>31 DEF EmptyStaging
  <2> QED
    BY <2>1 DEF UndoReached
<1>32. CASE RemoveStaging
  BY <1>32 DEF RemoveStaging, UndoReached, AsPlanned, Original
<1>33. CASE RemoveJournal
  BY <1>33 DEF RemoveJournal, UndoReached, AsPlanned, Original
<1>34. CASE Crash
  BY <1>34 DEF Crash, UndoReached, AsPlanned, Original
<1>35. CASE \E c \in Commands : Lock(c)
  BY <1>35 DEF Lock, UndoReached, AsPlanned, Original
<1>36. CASE \E c \in Commands : Enter(c)
  BY <1>36 DEF Enter, UndoReached, AsPlanned, Original
<1>37. CASE \E c \in Commands : WritePrivate(c)
  <2>1. journal = "none" /\ UNCHANGED pc
    BY <1>37 DEF WritePrivate, Barrier, CommandsAreBarred
  <2> QED
    BY <2>1 DEF UndoReached
<1>38. CASE \E c \in Commands : Leave(c)
  BY <1>38 DEF Leave, UndoReached, AsPlanned, Original
<1>39. CASE \E l \in Label : EditInPlace(l)
  BY <1>39 DEF EditInPlace, UndoReached, AsPlanned, Original
<1>40. CASE \E l \in Label : EditMoved(l)
  BY <1>40 DEF EditMoved, UndoReached, AsPlanned, Original
<1>41. CASE \E l \in Label : EditAnew(l)
  BY <1>41 DEF EditAnew, UndoReached, AsPlanned, Original
<1>42. CASE UNCHANGED vars
  BY <1>42 DEF vars, UndoReached, AsPlanned, Original
<1> QED
  BY <1>1, <1>2, <1>3, <1>4, <1>5, <1>6, <1>7, <1>8, <1>9, <1>10, <1>11,
     <1>12, <1>13, <1>14, <1>15, <1>16, <1>17, <1>18, <1>19, <1>20, <1>21,
     <1>22, <1>23, <1>24, <1>25, <1>26, <1>27, <1>28, <1>29, <1>30, <1>31,
     <1>32, <1>33, <1>34, <1>35, <1>36, <1>37, <1>38, <1>39, <1>40, <1>41,
     <1>42
     DEF Next, Installer, Begins, Commits, RollsBack, CleansUp, Command

LEMMA SettledStep ==
  ASSUME edits = 0, edits' = 0, FileTypes, StepTypes, NumberTypes,
         plan \in Plan, Barrier, JournalFollows, NextFollows,
         InstalledStands, TargetsArePlaced, CommitReached, UndoReached,
         Settled, [Next]_vars
  PROVE  Settled'
<1> USE InstallAssumption DEF Goto, GotoAt, disk, context, history,
        StepTypes, Steps, CommitSteps, UndoSteps, PreSteps, CleanSteps,
        JournalFollows, NumberTypes
<1>1. CASE Acquire
  BY <1>1 DEF Acquire, Settled, AsPlanned, Stands, Original
<1>2. CASE Recover
  BY <1>2 DEF Recover, Settled, AsPlanned, Stands, Original, RecoveryStep
<1>3. CASE Release
  BY <1>3 DEF Release, Settled, AsPlanned, Stands, Original
<1>4. CASE \E targets, removes \in SUBSET Label : MakePlan(targets, removes)
  <2>1. pc' \notin CleanSteps /\ journal' # "committed"
    BY <1>4 DEF MakePlan
  <2> QED
    BY <2>1 DEF Settled
<1>5. CASE CreateJournal
  BY <1>5 DEF CreateJournal, Settled, AsPlanned, Stands, Original
<1>6. CASE WriteJournal
  BY <1>6 DEF WriteJournal, Settled, AsPlanned, Stands, Original
<1>7. CASE MakeStaging
  BY <1>7 DEF MakeStaging, Settled, AsPlanned, Stands, Original
<1>8. CASE MarkStaging
  BY <1>8 DEF MarkStaging, Settled, AsPlanned, Stands, Original
<1>9. CASE BeginStaging
  BY <1>9 DEF BeginStaging, Settled, AsPlanned, Stands, Original
<1>10. CASE Stage
  <2>1. pc' \notin CleanSteps /\ journal' # "committed"
    BY <1>10 DEF Stage
  <2> QED
    BY <2>1 DEF Settled
<1>11. CASE AbortStaging
  BY <1>11 DEF AbortStaging, Settled, AsPlanned, Stands, Original
<1>12. CASE StartCommit
  BY <1>12 DEF StartCommit, Settled, AsPlanned, Stands, Original
<1>13. CASE CreateDirectory
  <2>1. pc' \notin CleanSteps /\ journal' # "committed"
    BY <1>13 DEF CreateDirectory, GotoNext, Begin
  <2> QED
    BY <2>1 DEF Settled
<1>14. CASE CheckOriginal
  BY <1>14 DEF CheckOriginal, Settled, AsPlanned, Stands, Original
<1>15. CASE BackUp
  <2>1. pc' \notin CleanSteps /\ journal' # "committed"
    BY <1>15 DEF BackUp
  <2> QED
    BY <2>1 DEF Settled
<1>16. CASE Observe
  BY <1>16 DEF Observe, Settled, AsPlanned, Stands, Original
<1>17. CASE Rebind
  BY <1>17 DEF Rebind, CommitReached
<1>18. CASE PutBack
  BY <1>18 DEF PutBack, CommitReached
<1>19. CASE Redigest
  BY <1>19 DEF Redigest, CommitReached
<1>20. CASE Install
  <2>1. pc' \notin CleanSteps /\ journal' # "committed"
    BY <1>20 DEF Install
  <2> QED
    BY <2>1 DEF Settled
<1>21. CASE Verify
  <2>1. pc' \notin CleanSteps /\ journal' # "committed"
    BY <1>21 DEF Verify, GotoNext, Begin
  <2> QED
    BY <2>1 DEF Settled
<1>22. CASE Commit
  <2>1. pc = "verify" /\ next = Last + 1 /\ journal = "committing"
    BY <1>22 DEF Commit
  <2>2. journal' = "committed" /\ UNCHANGED <<target, plan, tx>>
    BY <1>22 DEF Commit
  <2>3. \A l \in plan.targets : l \in Label /\ Done(l)
    BY <2>1 DEF CommitReached, Plan, Label
  <2>4. ASSUME NEW l \in Label PROVE SameFile(target[l], installed'[l])
    <3>1. CASE l \notin plan.targets
      <4>1. installed'[l] = installed[l]
        BY <1>22, <3>1 DEF Commit
      <4> QED
        BY <2>1, <3>1, <4>1 DEF TargetsArePlaced, Stands
    <3>2. CASE l \in plan.removes /\ l \in plan.targets
      <4>1. installed'[l] = None /\ target[l] = None
        BY <1>22, <2>3, <3>2 DEF Commit, Done
      <4> QED
        BY <4>1 DEF SameFile
    <3>3. CASE l \in plan.targets /\ l \notin plan.removes
      <4> DEFINE f == [id |-> tx, data |-> tx, private |-> 0]
      <4>1. installed'[l] = f /\ IsCandidate(target[l])
        BY <1>22, <2>3, <3>3 DEF Commit, Done
      <4>2. f # None /\ f.id = tx /\ f.data = tx
        BY MadeFile
      <4> QED
        BY <4>1, <4>2 DEF SameFile, Matches, SameIdentity, SameContent, IsCandidate
    <3> QED
      BY <3>1, <3>2, <3>3
  <2> QED
    BY <2>2, <2>4 DEF Settled, Stands
<1>23. CASE FailCommit
  BY <1>23 DEF FailCommit, Settled, AsPlanned, Stands, Original
<1>24. CASE Validate
  BY <1>24 DEF Validate, Settled, AsPlanned, Stands, Original
<1>25. CASE Undo
  BY <1>25 DEF Undo, Settled, AsPlanned, Stands, Original
<1>26. CASE UndoRemove
  <2>1. pc' \notin CleanSteps /\ journal' # "committed"
    BY <1>26 DEF UndoRemove
  <2> QED
    BY <2>1 DEF Settled
<1>27. CASE UndoRestore
  <2>1. pc' \notin CleanSteps /\ journal' # "committed"
    BY <1>27 DEF UndoRestore
  <2> QED
    BY <2>1 DEF Settled
<1>28. CASE UndoRestored
  BY <1>28 DEF UndoRestored, Settled, AsPlanned, Stands, Original
<1>29. CASE UndoRefused
  BY <1>29 DEF UndoRefused, Settled, AsPlanned, Stands, Original
<1>30. CASE UndoDirectory
  <2>1. pc = "undo" /\ next = 0 /\ journal = "committing" /\ UNCHANGED <<target, plan, journal>>
    BY <1>30 DEF UndoDirectory
  <2>2. \A l \in plan.targets : l > next
    BY <2>1 DEF Plan, Label
  <2>3. \A l \in plan.targets : AsPlanned(l)
    BY <2>1, <2>2 DEF UndoReached
  <2> QED
    BY <2>1, <2>3 DEF Settled, AsPlanned, Original
<1>31. CASE EmptyStaging
  BY <1>31 DEF EmptyStaging, Settled, AsPlanned, Stands, Original
<1>32. CASE RemoveStaging
  BY <1>32 DEF RemoveStaging, Settled, AsPlanned, Stands, Original
<1>33. CASE RemoveJournal
  BY <1>33 DEF RemoveJournal, Settled, AsPlanned, Stands, Original
<1>34. CASE Crash
  BY <1>34 DEF Crash, Settled, AsPlanned, Stands, Original
<1>35. CASE \E c \in Commands : Lock(c)
  BY <1>35 DEF Lock, Settled, AsPlanned, Stands, Original
<1>36. CASE \E c \in Commands : Enter(c)
  BY <1>36 DEF Enter, Settled, AsPlanned, Stands, Original
<1>37. CASE \E c \in Commands : WritePrivate(c)
  <2>1. journal = "none" /\ UNCHANGED journal
    BY <1>37 DEF WritePrivate, Barrier, CommandsAreBarred
  <2> QED
    BY <2>1 DEF Settled
<1>38. CASE \E c \in Commands : Leave(c)
  BY <1>38 DEF Leave, Settled, AsPlanned, Stands, Original
<1>39. CASE \E l \in Label : EditInPlace(l)
  BY <1>39 DEF EditInPlace, Settled, AsPlanned, Stands, Original
<1>40. CASE \E l \in Label : EditMoved(l)
  BY <1>40 DEF EditMoved, Settled, AsPlanned, Stands, Original
<1>41. CASE \E l \in Label : EditAnew(l)
  BY <1>41 DEF EditAnew, Settled, AsPlanned, Stands, Original
<1>42. CASE UNCHANGED vars
  BY <1>42 DEF vars, Settled, AsPlanned, Stands, Original
<1> QED
  BY <1>1, <1>2, <1>3, <1>4, <1>5, <1>6, <1>7, <1>8, <1>9, <1>10, <1>11,
     <1>12, <1>13, <1>14, <1>15, <1>16, <1>17, <1>18, <1>19, <1>20, <1>21,
     <1>22, <1>23, <1>24, <1>25, <1>26, <1>27, <1>28, <1>29, <1>30, <1>31,
     <1>32, <1>33, <1>34, <1>35, <1>36, <1>37, <1>38, <1>39, <1>40, <1>41,
     <1>42
     DEF Next, Installer, Begins, Commits, RollsBack, CleansUp, Command

LEMMA FlagTypesStep ==
  ASSUME FlagTypes, plan \in Plan, StepTypes, [Next]_vars
  PROVE  FlagTypes'
<1> USE InstallAssumption DEF Goto, GotoAt, disk, context, history,
        FlagTypes
<1>1. CASE Acquire
  BY <1>1 DEF Acquire
<1>2. CASE Recover
  BY <1>2 DEF Recover
<1>3. CASE Release
  BY <1>3 DEF Release
<1>4. CASE \E targets, removes \in SUBSET Label : MakePlan(targets, removes)
  BY <1>4 DEF MakePlan
<1>5. CASE CreateJournal
  BY <1>5 DEF CreateJournal
<1>6. CASE WriteJournal
  BY <1>6 DEF WriteJournal
<1>7. CASE MakeStaging
  BY <1>7 DEF MakeStaging
<1>8. CASE MarkStaging
  BY <1>8 DEF MarkStaging
<1>9. CASE BeginStaging
  BY <1>9 DEF BeginStaging
<1>10. CASE Stage
  BY <1>10 DEF Stage
<1>11. CASE AbortStaging
  BY <1>11 DEF AbortStaging
<1>12. CASE StartCommit
  BY <1>12 DEF StartCommit
<1>13. CASE CreateDirectory
  BY <1>13 DEF CreateDirectory
<1>14. CASE CheckOriginal
  BY <1>14 DEF CheckOriginal
<1>15. CASE BackUp
  BY <1>15 DEF BackUp
<1>16. CASE Observe
  BY <1>16 DEF Observe
<1>17. CASE Rebind
  BY <1>17 DEF Rebind
<1>18. CASE PutBack
  BY <1>18 DEF PutBack
<1>19. CASE Redigest
  BY <1>19 DEF Redigest
<1>20. CASE Install
  BY <1>20 DEF Install
<1>21. CASE Verify
  BY <1>21 DEF Verify
<1>22. CASE Commit
  BY <1>22 DEF Commit
<1>23. CASE FailCommit
  BY <1>23 DEF FailCommit
<1>24. CASE Validate
  BY <1>24 DEF Validate
<1>25. CASE Undo
  BY <1>25 DEF Undo
<1>26. CASE UndoRemove
  BY <1>26 DEF UndoRemove
<1>27. CASE UndoRestore
  BY <1>27 DEF UndoRestore
<1>28. CASE UndoRestored
  BY <1>28 DEF UndoRestored
<1>29. CASE UndoRefused
  BY <1>29 DEF UndoRefused
<1>30. CASE UndoDirectory
  BY <1>30 DEF UndoDirectory
<1>31. CASE EmptyStaging
  BY <1>31 DEF EmptyStaging
<1>32. CASE RemoveStaging
  BY <1>32 DEF RemoveStaging
<1>33. CASE RemoveJournal
  BY <1>33 DEF RemoveJournal
<1>34. CASE Crash
  BY <1>34 DEF Crash
<1>35. CASE \E c \in Commands : Lock(c)
  BY <1>35 DEF Lock
<1>36. CASE \E c \in Commands : Enter(c)
  BY <1>36 DEF Enter
<1>37. CASE \E c \in Commands : WritePrivate(c)
  BY <1>37 DEF WritePrivate
<1>38. CASE \E c \in Commands : Leave(c)
  BY <1>38 DEF Leave
<1>39. CASE \E l \in Label : EditInPlace(l)
  BY <1>39 DEF EditInPlace
<1>40. CASE \E l \in Label : EditMoved(l)
  BY <1>40 DEF EditMoved
<1>41. CASE \E l \in Label : EditAnew(l)
  BY <1>41 DEF EditAnew
<1>42. CASE UNCHANGED vars
  BY <1>42 DEF vars
<1> QED
  BY <1>1, <1>2, <1>3, <1>4, <1>5, <1>6, <1>7, <1>8, <1>9, <1>10, <1>11,
     <1>12, <1>13, <1>14, <1>15, <1>16, <1>17, <1>18, <1>19, <1>20, <1>21,
     <1>22, <1>23, <1>24, <1>25, <1>26, <1>27, <1>28, <1>29, <1>30, <1>31,
     <1>32, <1>33, <1>34, <1>35, <1>36, <1>37, <1>38, <1>39, <1>40, <1>41,
     <1>42
     DEF Next, Installer, Begins, Commits, RollsBack, CleansUp, Command

\* An edit is never taken back.
LEMMA EditsAreKept ==
  ASSUME NumberTypes, edits' = 0, [Next]_vars
  PROVE  edits = 0
<1> USE InstallAssumption DEF Goto, GotoAt, disk, context, history,
        NumberTypes
<1>1. CASE Acquire
  BY <1>1 DEF Acquire
<1>2. CASE Recover
  BY <1>2 DEF Recover
<1>3. CASE Release
  BY <1>3 DEF Release
<1>4. CASE \E targets, removes \in SUBSET Label : MakePlan(targets, removes)
  BY <1>4 DEF MakePlan
<1>5. CASE CreateJournal
  BY <1>5 DEF CreateJournal
<1>6. CASE WriteJournal
  BY <1>6 DEF WriteJournal
<1>7. CASE MakeStaging
  BY <1>7 DEF MakeStaging
<1>8. CASE MarkStaging
  BY <1>8 DEF MarkStaging
<1>9. CASE BeginStaging
  BY <1>9 DEF BeginStaging
<1>10. CASE Stage
  BY <1>10 DEF Stage
<1>11. CASE AbortStaging
  BY <1>11 DEF AbortStaging
<1>12. CASE StartCommit
  BY <1>12 DEF StartCommit
<1>13. CASE CreateDirectory
  BY <1>13 DEF CreateDirectory
<1>14. CASE CheckOriginal
  BY <1>14 DEF CheckOriginal
<1>15. CASE BackUp
  BY <1>15 DEF BackUp
<1>16. CASE Observe
  BY <1>16 DEF Observe
<1>17. CASE Rebind
  BY <1>17 DEF Rebind
<1>18. CASE PutBack
  BY <1>18 DEF PutBack
<1>19. CASE Redigest
  BY <1>19 DEF Redigest
<1>20. CASE Install
  BY <1>20 DEF Install
<1>21. CASE Verify
  BY <1>21 DEF Verify
<1>22. CASE Commit
  BY <1>22 DEF Commit
<1>23. CASE FailCommit
  BY <1>23 DEF FailCommit
<1>24. CASE Validate
  BY <1>24 DEF Validate
<1>25. CASE Undo
  BY <1>25 DEF Undo
<1>26. CASE UndoRemove
  BY <1>26 DEF UndoRemove
<1>27. CASE UndoRestore
  BY <1>27 DEF UndoRestore
<1>28. CASE UndoRestored
  BY <1>28 DEF UndoRestored
<1>29. CASE UndoRefused
  BY <1>29 DEF UndoRefused
<1>30. CASE UndoDirectory
  BY <1>30 DEF UndoDirectory
<1>31. CASE EmptyStaging
  BY <1>31 DEF EmptyStaging
<1>32. CASE RemoveStaging
  BY <1>32 DEF RemoveStaging
<1>33. CASE RemoveJournal
  BY <1>33 DEF RemoveJournal
<1>34. CASE Crash
  BY <1>34 DEF Crash
<1>35. CASE \E c \in Commands : Lock(c)
  BY <1>35 DEF Lock
<1>36. CASE \E c \in Commands : Enter(c)
  BY <1>36 DEF Enter
<1>37. CASE \E c \in Commands : WritePrivate(c)
  BY <1>37 DEF WritePrivate
<1>38. CASE \E c \in Commands : Leave(c)
  BY <1>38 DEF Leave
<1>39. CASE \E l \in Label : EditInPlace(l)
  BY <1>39 DEF EditInPlace
<1>40. CASE \E l \in Label : EditMoved(l)
  BY <1>40 DEF EditMoved
<1>41. CASE \E l \in Label : EditAnew(l)
  BY <1>41 DEF EditAnew
<1>42. CASE UNCHANGED vars
  BY <1>42 DEF vars
<1> QED
  BY <1>1, <1>2, <1>3, <1>4, <1>5, <1>6, <1>7, <1>8, <1>9, <1>10, <1>11,
     <1>12, <1>13, <1>14, <1>15, <1>16, <1>17, <1>18, <1>19, <1>20, <1>21,
     <1>22, <1>23, <1>24, <1>25, <1>26, <1>27, <1>28, <1>29, <1>30, <1>31,
     <1>32, <1>33, <1>34, <1>35, <1>36, <1>37, <1>38, <1>39, <1>40, <1>41,
     <1>42
     DEF Next, Installer, Begins, Commits, RollsBack, CleansUp, Command

(***************************************************************************)
(* IInv is an invariant.                                                   *)
(***************************************************************************)
LEMMA InitiallyIInv == Init => IInv
<1> SUFFICES ASSUME Init PROVE IInv
  OBVIOUS
<1> USE InstallAssumption
<1> DEFINE f == [id |-> 0, data |-> 0, private |-> 0]
<1>1. f \in File /\ f # None
  BY MadeFile
<1>2. FileTypes
  BY <1>1 DEF Init, FileTypes, Files, Nothing
<1>3. StepTypes /\ NumberTypes
  BY DEF Init, StepTypes, NumberTypes, Steps
<1>4. FlagTypes
  BY DEF Init, FlagTypes
<1>5. plan \in Plan
  BY DEF Init, Plan, Nothing
<1>6. Barrier /\ JournalFollows /\ NextFollows
  BY DEF Init, Barrier, Free, CommandsAreBarred, JournalFollows, NextFollows,
         CommitSteps, UndoSteps, CleanSteps
<1>7. InstalledStands
  BY DEF Init, InstalledStands, Stands, SameFile, Matches, SameIdentity, SameContent
<1>8. CandidatesAreNew
  <2>1. \A l \in Label : installed[l] # None => installed[l].id = 0
    BY DEF Init
  <2> QED
    BY <2>1 DEF Init, CandidatesAreNew, PreSteps
<1>9. BackupsAreStaged /\ TargetsArePlaced
  BY DEF Init, BackupsAreStaged, TargetsArePlaced
<1>10. CommitReached /\ UndoReached /\ Settled
  BY DEF Init, CommitReached, UndoReached, Settled, CommitSteps, UndoSteps, CleanSteps
<1> QED
  BY <1>2, <1>3, <1>4, <1>5, <1>6, <1>7, <1>8, <1>9, <1>10, TypesTogether
     DEF IInv, Undisturbed

LEMMA IInvStep == IInv /\ [Next]_vars => IInv'
<1> SUFFICES ASSUME IInv, [Next]_vars PROVE IInv'
  OBVIOUS
<1>1. /\ FileTypes /\ StepTypes /\ NumberTypes /\ FlagTypes /\ plan \in Plan
      /\ Barrier /\ JournalFollows /\ NextFollows
  BY TypesTogether DEF IInv
<1>2. FileTypes' /\ StepTypes' /\ NumberTypes'
  BY <1>1, FileTypesStep, StepTypesStep, NumberTypesStep
<1>3. FlagTypes'
  BY <1>1, FlagTypesStep
<1>4. plan' \in Plan
  BY <1>1, PlanTypeStep
<1>5. TypeOK'
  <2>1. TypeOK' <=> FileTypes' /\ StepTypes' /\ NumberTypes' /\ FlagTypes' /\ plan' \in Plan'
    BY DEF TypeOK, Files, FileTypes, StepTypes, NumberTypes, FlagTypes
  <2>2. Plan' = Plan
    OBVIOUS
  <2> QED
    BY <1>2, <1>3, <1>4, <2>1, <2>2
<1>6. Barrier' /\ JournalFollows' /\ NextFollows'
  BY <1>1, BarrierStep, JournalFollowsStep, NextFollowsStep
<1>7. ASSUME edits' = 0 PROVE Undisturbed'
  <2>1. edits = 0
    BY <1>1, <1>7, EditsAreKept
  <2>2. /\ InstalledStands /\ CandidatesAreNew /\ BackupsAreStaged /\ TargetsArePlaced
        /\ CommitReached /\ UndoReached /\ Settled
    BY <2>1 DEF IInv, Undisturbed
  <2>3. InstalledStands'
    BY <1>1, <1>7, <2>1, <2>2, InstalledStandsStep
  <2>4. CandidatesAreNew'
    BY <1>1, <1>7, <2>1, <2>2, CandidatesAreNewStep
  <2>5. BackupsAreStaged'
    BY <1>1, <1>7, <2>1, <2>2, BackupsAreStagedStep
  <2>6. TargetsArePlaced'
    BY <1>1, <1>7, <2>1, <2>2, TargetsArePlacedStep
  <2>7. CommitReached'
    BY <1>1, <1>7, <2>1, <2>2, CommitReachedStep
  <2>8. UndoReached'
    BY <1>1, <1>7, <2>1, <2>2, UndoReachedStep
  <2>9. Settled'
    BY <1>1, <1>7, <2>1, <2>2, SettledStep
  <2> QED
    BY <2>3, <2>4, <2>5, <2>6, <2>7, <2>8, <2>9 DEF Undisturbed
<1> QED
  BY <1>5, <1>6, <1>7 DEF IInv

\* The inductive invariant, for any number of targets, commands and transactions.
THEOREM Invariance == Spec => []IInv
BY InitiallyIInv, IInvStep, PTL DEF Spec

\* Every variable keeps its type.
THEOREM TypeCorrect == Spec => []TypeOK
<1>1. IInv => TypeOK
  BY DEF IInv
<1> QED
  BY <1>1, Invariance, PTL

\* Install, update and uninstall are atomic under any crash, failure and rollback.
THEOREM TargetsAreAtomic == Spec => []InstalledStands
<1>1. IInv => InstalledStands
  BY DEF IInv, Undisturbed, InstalledStands
<1> QED
  BY <1>1, Invariance, PTL

\* No command runs between the first and the last replacement of a target.
THEOREM BarrierHolds == Spec => []CommandsAreBarred
<1>1. IInv => CommandsAreBarred
  BY DEF IInv, Barrier
<1> QED
  BY <1>1, Invariance, PTL

(***************************************************************************)
(* The strengthening of the other three properties.                        *)
(***************************************************************************)
\* Inodes are numbered by the transaction that made them, edits by negative numbers.
IdsFollow ==
    \A l \in Label :
        /\ target[l] # None => target[l].id <= tx
        /\ backup[l] # None => backup[l].id <= tx
        /\ Original(l) # None => Original(l).id < tx

\* Backups come from the plan, and the rollback leaves none behind.
BackupsFollow ==
    /\ BackupsAreStaged
    /\ journal = "committing" => \A l \in Label \ plan.targets : backup[l] = None
    /\ pc \in UndoSteps => \A l \in plan.targets : l > next => backup[l] = None
    /\ pc = "restored" => backup[next] = None
    /\ pc \in CleanSteps /\ journal = "committing" => backup = Nothing

\* There are files only in an existing project.
RootFollows ==
    /\ ~root => target = Nothing /\ backup = Nothing
    /\ pc \in CommitSteps \ {"directory"} => root

\* A directory the plan creates holds nothing the plan did not put there.
NewDirectory ==
    plan.creates /\ (pc = "create" \/ journal # "none") =>
        \A l \in Label : Original(l) = None /\ (l \notin plan.targets => target[l] = None)

\* The staging directory stands while the journal is committing, and a target in
\* place of its predecessor is a whole candidate, taken from the staging directory.
Installed(l) ==
    /\ l \notin plan.removes
    /\ candidate[l] = None
    /\ target[l].data = tx \/ (pc = "removing" /\ next = l)

Reversible ==
    /\ pc \in {"marked", "staged", "ready"} => staging = "marked"
    /\ journal = "committing" /\ ~retried =>
          /\ pc # "unstaged" => staging = "marked"
          /\ \A l \in plan.targets : target[l] # None /\ target[l].id = tx => Installed(l)

\* What the rollback is about to do can be done.
UndoReady ==
    /\ pc = "restoring" => target[next] = None
    /\ pc = "restored" => AsPlanned(next)

\* A committed transaction is in place.
CommitHolds == journal = "committed" => \A l \in plan.targets : Done(l)

\* Nothing is staged where there is no journal, and .agent is never removed.
CandidatesFollow ==
    /\ 1 \notin plan.removes
    /\ journal = "none" \/ pc \in {"emptied", "unstaged"} => candidate = Nothing

\* Every copy of the private state is up to date, wherever .agent is.
PrivateFollows ==
    /\ target[1] # None => target[1].private = writes
    /\ backup[1] # None => backup[1].private = writes
    /\ candidate[1] # None => candidate[1].private = writes
    /\ installed[1] = None => writes = 0

SInv ==
    /\ IdsFollow
    /\ BackupsFollow
    /\ RootFollows
    /\ CandidatesFollow
    /\ edits = 0 => /\ PrivateFollows /\ NewDirectory /\ Reversible
                    /\ UndoReady /\ CommitHolds /\ RefusalHasCause

\* The steps that move a file, change one, or change what is planned for it.
still == <<target, backup, candidate, plan, tx, installed, writes>>

Moves ==
    \/ \E targets, removes \in SUBSET Label : MakePlan(targets, removes)
    \/ Stage \/ BackUp \/ Rebind \/ PutBack \/ Redigest \/ Install \/ Commit
    \/ UndoRemove \/ UndoRestore \/ EmptyStaging
    \/ \E c \in Commands : WritePrivate(c)
    \/ \E l \in Label : EditInPlace(l) \/ EditMoved(l) \/ EditAnew(l)

LEMMA MovesOrNot ==
  [Next]_vars => Moves \/ UNCHANGED still
<1> SUFFICES ASSUME [Next]_vars PROVE Moves \/ UNCHANGED still
  OBVIOUS
<1> USE DEF disk, context, history, still
<1>1. CASE Acquire
  BY <1>1 DEF Acquire
<1>2. CASE Recover
  BY <1>2 DEF Recover, RecoveryStep
<1>3. CASE Release
  BY <1>3 DEF Release
<1>4. CASE \E targets, removes \in SUBSET Label : MakePlan(targets, removes)
  BY <1>4 DEF Moves
<1>5. CASE CreateJournal
  BY <1>5 DEF CreateJournal
<1>6. CASE WriteJournal
  BY <1>6 DEF WriteJournal
<1>7. CASE MakeStaging
  BY <1>7 DEF MakeStaging
<1>8. CASE MarkStaging
  BY <1>8 DEF MarkStaging
<1>9. CASE BeginStaging
  BY <1>9 DEF BeginStaging
<1>10. CASE Stage
  BY <1>10 DEF Moves
<1>11. CASE AbortStaging
  BY <1>11 DEF AbortStaging
<1>12. CASE StartCommit
  BY <1>12 DEF StartCommit
<1>13. CASE CreateDirectory
  BY <1>13 DEF CreateDirectory, GotoNext, Begin
<1>14. CASE CheckOriginal
  BY <1>14 DEF CheckOriginal
<1>15. CASE BackUp
  BY <1>15 DEF Moves
<1>16. CASE Observe
  BY <1>16 DEF Observe
<1>17. CASE Rebind
  BY <1>17 DEF Moves
<1>18. CASE PutBack
  BY <1>18 DEF Moves
<1>19. CASE Redigest
  BY <1>19 DEF Moves
<1>20. CASE Install
  BY <1>20 DEF Moves
<1>21. CASE Verify
  BY <1>21 DEF Verify, GotoNext, Begin
<1>22. CASE Commit
  BY <1>22 DEF Moves
<1>23. CASE FailCommit
  BY <1>23 DEF FailCommit
<1>24. CASE Validate
  BY <1>24 DEF Validate
<1>25. CASE Undo
  BY <1>25 DEF Undo
<1>26. CASE UndoRemove
  BY <1>26 DEF Moves
<1>27. CASE UndoRestore
  BY <1>27 DEF Moves
<1>28. CASE UndoRestored
  BY <1>28 DEF UndoRestored
<1>29. CASE UndoRefused
  BY <1>29 DEF UndoRefused
<1>30. CASE UndoDirectory
  BY <1>30 DEF UndoDirectory
<1>31. CASE EmptyStaging
  BY <1>31 DEF Moves
<1>32. CASE RemoveStaging
  BY <1>32 DEF RemoveStaging
<1>33. CASE RemoveJournal
  BY <1>33 DEF RemoveJournal
<1>34. CASE Crash
  BY <1>34 DEF Crash
<1>35. CASE \E c \in Commands : Lock(c)
  BY <1>35 DEF Lock
<1>36. CASE \E c \in Commands : Enter(c)
  BY <1>36 DEF Enter
<1>37. CASE \E c \in Commands : WritePrivate(c)
  BY <1>37 DEF Moves
<1>38. CASE \E c \in Commands : Leave(c)
  BY <1>38 DEF Leave
<1>39. CASE \E l \in Label : EditInPlace(l)
  BY <1>39 DEF Moves
<1>40. CASE \E l \in Label : EditMoved(l)
  BY <1>40 DEF Moves
<1>41. CASE \E l \in Label : EditAnew(l)
  BY <1>41 DEF Moves
<1>42. CASE UNCHANGED vars
  BY <1>42 DEF vars
<1> QED
  BY <1>1, <1>2, <1>3, <1>4, <1>5, <1>6, <1>7, <1>8, <1>9, <1>10, <1>11,
     <1>12, <1>13, <1>14, <1>15, <1>16, <1>17, <1>18, <1>19, <1>20, <1>21,
     <1>22, <1>23, <1>24, <1>25, <1>26, <1>27, <1>28, <1>29, <1>30, <1>31,
     <1>32, <1>33, <1>34, <1>35, <1>36, <1>37, <1>38, <1>39, <1>40, <1>41,
     <1>42
     DEF Next, Installer, Begins, Commits, RollsBack, CleansUp, Command

LEMMA IdsFollowStep ==
  ASSUME FileTypes, StepTypes, NumberTypes,
         plan \in Plan, Barrier, JournalFollows, NextFollows,
         IdsFollow, [Next]_vars
  PROVE  IdsFollow'
<1> USE DEF Goto, GotoAt, disk, context, history, Original, FileTypes, Files, NumberTypes
<1>1. CASE \E targets, removes \in SUBSET Label : MakePlan(targets, removes)
  <2> PICK targets, removes \in SUBSET Label : MakePlan(targets, removes)
    BY <1>1
  <2>1. tx' = tx + 1 /\ UNCHANGED <<target, backup>>
    BY DEF MakePlan
  <2>2. \A l \in Label : plan'.original[l] = IF l \in targets THEN target[l] ELSE None
    BY DEF MakePlan
  <2>3. \A l \in Label : /\ target[l] # None => target[l].id \in Int
                         /\ backup[l] # None => backup[l].id \in Int
    BY FileIsFile
  <2> QED
    BY <2>1, <2>2, <2>3 DEF IdsFollow
<1>2. CASE Stage
  BY <1>2 DEF Stage, IdsFollow
<1>3. CASE BackUp
  <2>1. next \in Label
    BY <1>3 DEF BackUp, NextFollows, CommitSteps, UndoSteps, Plan
  <2>2. target' = [target EXCEPT ![next] = None] /\ backup' = [backup EXCEPT ![next] = target[next]]
    BY <1>3 DEF BackUp
  <2>3. UNCHANGED <<plan, tx>>
    BY <1>3 DEF BackUp
  <2> QED
    BY <2>1, <2>2, <2>3 DEF IdsFollow
<1>4. CASE Rebind
  <2>1. next \in Label /\ plan.original[next] \in File
    BY <1>4 DEF Rebind, Plan, NextFollows, CommitSteps, Original
  <2>2. backup[next] \in File
    BY <1>4, <2>1 DEF Rebind, FileTypes, Files, NextFollows
  <2> DEFINE f == [plan.original[next] EXCEPT !.data = backup[next].data]
  <2>3. f \in File /\ f # None /\ f.id = plan.original[next].id
    BY <2>1, <2>2, FileIsFile, EditedFile
  <2>4. plan' = [plan EXCEPT !.original[next] = f]
    BY <1>4 DEF Rebind
  <2>5. \A l \in Label : /\ plan'.original[l] = None <=> plan.original[l] = None
                         /\ plan.original[l] # None => plan'.original[l].id = plan.original[l].id
    BY <2>1, <2>3, <2>4, FileIsFile DEF Plan
  <2>6. UNCHANGED <<target, backup, tx, edits>>
    BY <1>4 DEF Rebind
  <2> QED
    BY <2>5, <2>6 DEF IdsFollow
<1>5. CASE PutBack
  <2>1. next \in Label
    BY <1>5 DEF PutBack, NextFollows, CommitSteps, UndoSteps, Plan
  <2>2. target' = [target EXCEPT ![next] = backup[next]] /\ backup' = [backup EXCEPT ![next] = None]
    BY <1>5 DEF PutBack
  <2>3. UNCHANGED <<plan, tx>>
    BY <1>5 DEF PutBack
  <2> QED
    BY <2>1, <2>2, <2>3 DEF IdsFollow
<1>6. CASE Redigest
  <2>1. next \in Label /\ plan.original[next] \in File
    BY <1>6 DEF Redigest, Plan, NextFollows, CommitSteps, Original
  <2>2. target[next] \in File
    BY <1>6, <2>1 DEF Redigest, FileTypes, Files, NextFollows
  <2> DEFINE f == [plan.original[next] EXCEPT !.data = target[next].data]
  <2>3. f \in File /\ f # None /\ f.id = plan.original[next].id
    BY <2>1, <2>2, FileIsFile, EditedFile
  <2>4. plan' = [plan EXCEPT !.original[next] = f]
    BY <1>6 DEF Redigest
  <2>5. \A l \in Label : /\ plan'.original[l] = None <=> plan.original[l] = None
                         /\ plan.original[l] # None => plan'.original[l].id = plan.original[l].id
    BY <2>1, <2>3, <2>4, FileIsFile DEF Plan
  <2>6. UNCHANGED <<target, backup, tx, edits>>
    BY <1>6 DEF Redigest
  <2> QED
    BY <2>5, <2>6 DEF IdsFollow
<1>7. CASE Install
  <2>1. next \in Label
    BY <1>7 DEF Install, NextFollows, CommitSteps, UndoSteps, Plan
  <2>2. target' = [target EXCEPT ![next] = candidate[next]] /\ candidate[next].id = tx
    BY <1>7 DEF Install, IsCandidate
  <2>3. UNCHANGED <<backup, plan, tx>>
    BY <1>7 DEF Install
  <2> QED
    BY <2>1, <2>2, <2>3 DEF IdsFollow
<1>8. CASE Commit
  BY <1>8 DEF Commit, IdsFollow
<1>9. CASE UndoRemove
  <2>1. next \in Label /\ target[next] \in File
    BY <1>9 DEF UndoRemove, NextFollows, UndoSteps, Plan, FileTypes, Files
  <2> DEFINE f == [target[next] EXCEPT !.data = Torn]
  <2>3. f \in File /\ f # None /\ f.id = target[next].id
    BY <2>1, EditedFile, FileIsFile
  <2>4. \/ target' = [target EXCEPT ![next] = f]
        \/ target' = [target EXCEPT ![next] = None]
    BY <1>9 DEF UndoRemove
  <2>5. UNCHANGED <<backup, plan, tx>>
    BY <1>9 DEF UndoRemove
  <2> HIDE DEF f
  <2> QED
    BY <2>1, <2>3, <2>4, <2>5, FileIsFile DEF IdsFollow
<1>10. CASE UndoRestore
  <2>1. next \in Label
    BY <1>10 DEF UndoRestore, NextFollows, CommitSteps, UndoSteps, Plan
  <2>2. target' = [target EXCEPT ![next] = backup[next]] /\ backup' = [backup EXCEPT ![next] = None]
    BY <1>10 DEF UndoRestore
  <2>3. UNCHANGED <<plan, tx>>
    BY <1>10 DEF UndoRestore
  <2> QED
    BY <2>1, <2>2, <2>3 DEF IdsFollow
<1>11. CASE EmptyStaging
  BY <1>11 DEF EmptyStaging, Nothing, IdsFollow
<1>12. CASE \E c \in Commands : WritePrivate(c)
  <2>1. target[1] \in File
    BY <1>12, FirstIsLabel DEF WritePrivate, FileTypes, Files
  <2>2. target[1].private + 1 \in Nat
    BY <2>1, FileIsFile
  <2> DEFINE f == [target[1] EXCEPT !.private = target[1].private + 1]
  <2>3. f \in File /\ f # None /\ f.id = target[1].id /\ f.private = target[1].private + 1
    BY <2>1, <2>2, WrittenFile, FileIsFile DEF File
  <2>4. target' = [target EXCEPT ![1] = f] /\ UNCHANGED <<backup, plan, tx>>
    BY <1>12 DEF WritePrivate
  <2> HIDE DEF f
  <2> QED
    BY <2>1, <2>3, <2>4, FirstIsLabel, FileIsFile DEF IdsFollow
<1>13. CASE \E l \in Label : EditInPlace(l)
  <2> PICK k \in Label : EditInPlace(k)
    BY <1>13
  <2>1. target[k] \in File /\ Edited \in Int
    BY DEF EditInPlace, FileTypes, Files, Edited, NumberTypes
  <2> DEFINE f == [target[k] EXCEPT !.data = Edited]
  <2>3. f \in File /\ f # None /\ f.id = target[k].id
    BY <2>1, EditedFile, FileIsFile
  <2>4. target' = [target EXCEPT ![k] = f] /\ UNCHANGED <<backup, plan, tx>>
    BY DEF EditInPlace
  <2> HIDE DEF f
  <2> QED
    BY <2>1, <2>3, <2>4, FileIsFile DEF IdsFollow
<1>14. CASE \E l \in Label : EditMoved(l)
  <2> PICK k \in Label : EditMoved(k)
    BY <1>14
  <2>1. backup[k] \in File /\ Edited \in Int
    BY DEF EditMoved, FileTypes, Files, Edited, NumberTypes
  <2> DEFINE f == [backup[k] EXCEPT !.data = Edited]
  <2>3. f \in File /\ f # None /\ f.id = backup[k].id
    BY <2>1, EditedFile, FileIsFile
  <2>4. backup' = [backup EXCEPT ![k] = f] /\ UNCHANGED <<target, plan, tx>>
    BY DEF EditMoved
  <2> HIDE DEF f
  <2> QED
    BY <2>1, <2>3, <2>4, FileIsFile DEF IdsFollow
<1>15. CASE \E l \in Label : EditAnew(l)
  <2> PICK k \in Label : EditAnew(k)
    BY <1>15
  <2>1. Edited \in Int /\ Edited <= tx /\ Edited # 0
    BY DEF Edited, NumberTypes
  <2> DEFINE f == [id |-> Edited, data |-> Edited,
                   private |-> IF target[k] = None THEN 0 ELSE target[k].private]
  <2>2. target[k] # None => target[k].private \in Nat
    BY FileIsFile DEF FileTypes, Files
  <2>3. f \in File /\ f # None /\ f.id = Edited
    BY <2>1, <2>2, MadeFile
  <2>4. target' = [target EXCEPT ![k] = f] /\ UNCHANGED <<backup, plan, tx>>
    BY DEF EditAnew
  <2> HIDE DEF f
  <2> QED
    BY <2>1, <2>3, <2>4 DEF IdsFollow
<1>16. CASE UNCHANGED still
  BY <1>16 DEF still, IdsFollow
<1> QED
  BY <1>1, <1>2, <1>3, <1>4, <1>5, <1>6, <1>7, <1>8, <1>9, <1>10, <1>11,
     <1>12, <1>13, <1>14, <1>15, <1>16, MovesOrNot
     DEF Moves

LEMMA BackupsFollowStep ==
  ASSUME FileTypes, StepTypes, NumberTypes,
         plan \in Plan, Barrier, JournalFollows, NextFollows,
         BackupsFollow, [Next]_vars
  PROVE  BackupsFollow'
<1> USE InstallAssumption DEF Goto, GotoAt, disk, context, history,
        StepTypes, Steps, CommitSteps, UndoSteps, PreSteps, CleanSteps,
        JournalFollows, Uncommitted
<1>0. BackupsAreStaged'
  BY BackupsAreStagedStep DEF BackupsFollow
<1>1. CASE Acquire
  BY <1>1, <1>0 DEF Acquire, BackupsFollow
<1>2. CASE Recover
  BY <1>2, <1>0 DEF Recover, RecoveryStep, BackupsFollow
<1>3. CASE Release
  BY <1>3, <1>0 DEF Release, BackupsFollow
<1>4. CASE \E targets, removes \in SUBSET Label : MakePlan(targets, removes)
  <2>1. pc' = "create" /\ journal' = "none"
    BY <1>4 DEF MakePlan
  <2> QED
    BY <2>1, <1>0 DEF BackupsFollow
<1>5. CASE CreateJournal
  BY <1>5, <1>0 DEF CreateJournal, BackupsFollow
<1>6. CASE WriteJournal
  BY <1>6, <1>0 DEF WriteJournal, BackupsFollow
<1>7. CASE MakeStaging
  BY <1>7, <1>0 DEF MakeStaging, BackupsFollow
<1>8. CASE MarkStaging
  BY <1>8, <1>0 DEF MarkStaging, BackupsFollow
<1>9. CASE BeginStaging
  BY <1>9, <1>0 DEF BeginStaging, BackupsFollow
<1>10. CASE Stage
  BY <1>10, <1>0 DEF Stage, BackupsFollow
<1>11. CASE AbortStaging
  BY <1>11, <1>0 DEF AbortStaging, BackupsFollow
<1>12. CASE StartCommit
  <2>1. backup = Nothing /\ UNCHANGED <<backup, plan>> /\ pc' = "directory"
    BY <1>12 DEF StartCommit, BackupsFollow, BackupsAreStaged
  <2> QED
    BY <2>1, <1>0 DEF BackupsFollow, Nothing
<1>13. CASE CreateDirectory
  BY <1>13, <1>0 DEF CreateDirectory, BackupsFollow, GotoNext, Begin
<1>14. CASE CheckOriginal
  BY <1>14, <1>0 DEF CheckOriginal, BackupsFollow
<1>15. CASE BackUp
  <2>1. next \in Label
    BY <1>15 DEF BackUp, NextFollows, CommitSteps, UndoSteps, Plan
  <2>2. next \in plan.targets /\ UNCHANGED plan /\ pc' = "observe"
    BY <1>15 DEF BackUp, NextFollows
  <2>3. \A l \in Label : l # next => backup'[l] = backup[l]
    BY <1>15 DEF BackUp, FileTypes, Files
  <2> QED
    BY <1>15, <2>1, <2>2, <2>3, <1>0 DEF BackUp, BackupsFollow
<1>16. CASE Observe
  BY <1>16, <1>0 DEF Observe, BackupsFollow
<1>17. CASE Rebind
  <2>5. plan'.targets = plan.targets /\ UNCHANGED backup
    BY <1>17 DEF Rebind, Plan
  <2>6. pc' = "rebound" /\ journal' = journal
    BY <1>17 DEF Rebind
  <2> QED
    BY <2>5, <2>6, <1>0 DEF BackupsFollow
<1>18. CASE PutBack
  <2>1. \A l \in Label : backup[l] = None => backup'[l] = None
    BY <1>18 DEF PutBack, FileTypes, Files
  <2>2. pc' \in {"validate", "redigest"} /\ UNCHANGED <<plan, journal>>
    BY <1>18 DEF PutBack
  <2> QED
    BY <2>1, <2>2, <1>0 DEF BackupsFollow
<1>19. CASE Redigest
  <2>5. plan'.targets = plan.targets /\ UNCHANGED backup
    BY <1>19 DEF Redigest, Plan
  <2>6. pc' = "validate" /\ journal' = journal
    BY <1>19 DEF Redigest
  <2> QED
    BY <2>5, <2>6, <1>0 DEF BackupsFollow
<1>20. CASE Install
  BY <1>20, <1>0 DEF Install, BackupsFollow
<1>21. CASE Verify
  BY <1>21, <1>0 DEF Verify, BackupsFollow, GotoNext, Begin
<1>22. CASE Commit
  BY <1>22, <1>0 DEF Commit, BackupsFollow
<1>23. CASE FailCommit
  BY <1>23, <1>0 DEF FailCommit, BackupsFollow
<1>24. CASE Validate
  <2>1. \A l \in plan.targets : ~(l > Last)
    BY DEF Plan, Label
  <2> QED
    BY <1>24, <2>1, <1>0 DEF Validate, BackupsFollow
<1>25. CASE Undo
  <2>1. \A l \in plan.targets : l \in Nat
    BY DEF Plan, Label
  <2> QED
    BY <1>25, <2>1, <1>0 DEF Undo, UndoMore, NextFollows, NumberTypes, BackupsFollow
<1>26. CASE UndoRemove
  BY <1>26, <1>0 DEF UndoRemove, BackupsFollow
<1>27. CASE UndoRestore
  <2>1. next \in Label
    BY <1>27 DEF UndoRestore, NextFollows, CommitSteps, UndoSteps, Plan
  <2>2. backup'[next] = None /\ \A l \in Label : backup[l] = None => backup'[l] = None
    BY <1>27, <2>1 DEF UndoRestore, FileTypes, Files
  <2>3. pc' = "restored" /\ UNCHANGED <<plan, journal, next>>
    BY <1>27 DEF UndoRestore
  <2>4. \A l \in plan.targets : l \in Label
    BY DEF Plan
  <2> QED
    BY <1>27, <2>2, <2>3, <2>4, <1>0 DEF UndoRestore, BackupsFollow
<1>28. CASE UndoRestored
  <2>1. next \in Label
    BY <1>28 DEF UndoRestored, NextFollows, CommitSteps, UndoSteps, Plan
  <2>2. \A l \in plan.targets : l \in Nat
    BY DEF Plan, Label
  <2>3. next' = next - 1 /\ pc' = "undo" /\ UNCHANGED <<plan, backup, journal>>
    BY <1>28 DEF UndoRestored
  <2>4. backup[next] = None /\ next \in Nat
    BY <1>28, <2>1 DEF UndoRestored, BackupsFollow, Label
  <2> QED
    BY <1>28, <2>2, <2>3, <2>4, <1>0 DEF UndoRestored, BackupsFollow
<1>29. CASE UndoRefused
  BY <1>29, <1>0 DEF UndoRefused, BackupsFollow
<1>30. CASE UndoDirectory
  <2>1. pc = "undo" /\ next = 0 /\ journal = "committing"
    BY <1>30 DEF UndoDirectory
  <2>2. \A l \in plan.targets : l > next
    BY <2>1 DEF Plan, Label
  <2>3. \A l \in Label : backup[l] = None
    BY <2>1, <2>2 DEF BackupsFollow
  <2>4. backup = Nothing
    BY <2>3 DEF FileTypes, Files, Nothing
  <2> QED
    BY <1>30, <2>3, <2>4, <1>0 DEF UndoDirectory, BackupsFollow
<1>31. CASE EmptyStaging
  <2>1. backup' = Nothing /\ pc' = "emptied" /\ UNCHANGED plan
    BY <1>31 DEF EmptyStaging
  <2> QED
    BY <2>1, <1>0 DEF BackupsFollow, Nothing
<1>32. CASE RemoveStaging
  BY <1>32, <1>0 DEF RemoveStaging, BackupsFollow
<1>33. CASE RemoveJournal
  BY <1>33, <1>0 DEF RemoveJournal, BackupsFollow
<1>34. CASE Crash
  BY <1>34, <1>0 DEF Crash, BackupsFollow
<1>35. CASE \E c \in Commands : Lock(c)
  BY <1>35, <1>0 DEF Lock, BackupsFollow
<1>36. CASE \E c \in Commands : Enter(c)
  BY <1>36, <1>0 DEF Enter, BackupsFollow
<1>37. CASE \E c \in Commands : WritePrivate(c)
  BY <1>37, <1>0 DEF WritePrivate, BackupsFollow
<1>38. CASE \E c \in Commands : Leave(c)
  BY <1>38, <1>0 DEF Leave, BackupsFollow
<1>39. CASE \E l \in Label : EditInPlace(l)
  BY <1>39, <1>0 DEF EditInPlace, BackupsFollow
<1>40. CASE \E l \in Label : EditMoved(l)
  <2>1. \A l \in Label : backup[l] = None => backup'[l] = None
    BY <1>40 DEF EditMoved, FileTypes, Files
  <2>2. backup # Nothing
    BY <1>40 DEF EditMoved, Nothing
  <2>3. UNCHANGED <<pc, next, journal, plan>>
    BY <1>40 DEF EditMoved
  <2>4. \A l \in plan.targets : l \in Label
    BY DEF Plan
  <2>5. pc = "restored" => next \in Label
    BY <2>4 DEF NextFollows
  <2> QED
    BY <2>1, <2>2, <2>3, <2>4, <2>5, <1>0 DEF BackupsFollow
<1>41. CASE \E l \in Label : EditAnew(l)
  BY <1>41, <1>0 DEF EditAnew, BackupsFollow
<1>42. CASE UNCHANGED vars
  BY <1>42, <1>0 DEF vars, BackupsFollow
<1> QED
  BY <1>1, <1>2, <1>3, <1>4, <1>5, <1>6, <1>7, <1>8, <1>9, <1>10, <1>11,
     <1>12, <1>13, <1>14, <1>15, <1>16, <1>17, <1>18, <1>19, <1>20, <1>21,
     <1>22, <1>23, <1>24, <1>25, <1>26, <1>27, <1>28, <1>29, <1>30, <1>31,
     <1>32, <1>33, <1>34, <1>35, <1>36, <1>37, <1>38, <1>39, <1>40, <1>41,
     <1>42
     DEF Next, Installer, Begins, Commits, RollsBack, CleansUp, Command

\* A step that is no edit leaves an original where it was, or moves it.
LEMMA OriginalStep ==
  ASSUME FileTypes, StepTypes, NumberTypes,
         plan \in Plan, Barrier, JournalFollows, NextFollows,
         IdsFollow, BackupsFollow, [Next]_vars, NEW t \in Label, journal = "committing",
         edits' = edits, HasOriginal(t)
  PROVE  HasOriginal(t)'
<1> USE DEF Goto, GotoAt, disk, context, history, FileTypes, Files, NumberTypes,
        HasOriginal, SameIdentity, Original
<1>1. CASE \E targets, removes \in SUBSET Label : MakePlan(targets, removes)
  BY <1>1 DEF MakePlan, JournalFollows
<1>2. CASE Stage
  BY <1>2 DEF Stage, JournalFollows
<1>3. CASE BackUp
  BY <1>3 DEF BackUp
<1>4. CASE Rebind
  <2>1. next \in Label /\ plan.original[next] \in File
    BY <1>4 DEF Rebind, Plan, NextFollows, CommitSteps, Original
  <2>2. backup[next] \in File
    BY <1>4, <2>1 DEF Rebind, FileTypes, Files, NextFollows
  <2> DEFINE f == [plan.original[next] EXCEPT !.data = backup[next].data]
  <2>3. f \in File /\ f # None /\ f.id = plan.original[next].id
    BY <2>1, <2>2, FileIsFile, EditedFile
  <2>4. plan' = [plan EXCEPT !.original[next] = f]
    BY <1>4 DEF Rebind
  <2>5. \A l \in Label : /\ plan'.original[l] = None <=> plan.original[l] = None
                         /\ plan.original[l] # None => plan'.original[l].id = plan.original[l].id
    BY <2>1, <2>3, <2>4, FileIsFile DEF Plan
  <2>6. UNCHANGED <<target, backup, tx, edits>>
    BY <1>4 DEF Rebind
  <2> QED
    BY <2>5, <2>6, FileIsFile DEF Plan
<1>5. CASE PutBack
  <2>1. next \in Label
    BY <1>5 DEF PutBack, NextFollows, CommitSteps, UndoSteps, Plan
  <2> QED
    BY <1>5, <2>1 DEF PutBack
<1>6. CASE Redigest
  <2>1. next \in Label /\ plan.original[next] \in File
    BY <1>6 DEF Redigest, Plan, NextFollows, CommitSteps, Original
  <2>2. target[next] \in File
    BY <1>6, <2>1 DEF Redigest, FileTypes, Files, NextFollows
  <2> DEFINE f == [plan.original[next] EXCEPT !.data = target[next].data]
  <2>3. f \in File /\ f # None /\ f.id = plan.original[next].id
    BY <2>1, <2>2, FileIsFile, EditedFile
  <2>4. plan' = [plan EXCEPT !.original[next] = f]
    BY <1>6 DEF Redigest
  <2>5. \A l \in Label : /\ plan'.original[l] = None <=> plan.original[l] = None
                         /\ plan.original[l] # None => plan'.original[l].id = plan.original[l].id
    BY <2>1, <2>3, <2>4, FileIsFile DEF Plan
  <2>6. UNCHANGED <<target, backup, tx, edits>>
    BY <1>6 DEF Redigest
  <2> QED
    BY <2>5, <2>6, FileIsFile DEF Plan
<1>7. CASE Install
  <2>1. next \in Label
    BY <1>7 DEF Install, NextFollows, CommitSteps, UndoSteps, Plan
  <2> QED
    BY <1>7, <2>1 DEF Install
<1>8. CASE Commit
  BY <1>8 DEF Commit
<1>9. CASE UndoRemove
  <2>1. next \in Label /\ target[next] \in File
    BY <1>9 DEF UndoRemove, NextFollows, UndoSteps, Plan, FileTypes, Files
  <2> DEFINE f == [target[next] EXCEPT !.data = Torn]
  <2>3. f \in File /\ f # None /\ f.id = target[next].id
    BY <2>1, EditedFile, FileIsFile
  <2>4. \/ target' = [target EXCEPT ![next] = f]
        \/ target' = [target EXCEPT ![next] = None]
    BY <1>9 DEF UndoRemove
  <2>5. UNCHANGED <<backup, plan, tx>>
    BY <1>9 DEF UndoRemove
  <2>6. target[next].id = tx
    BY <1>9 DEF UndoRemove
  <2>7. Original(t) # None => Original(t).id # tx
    BY FileIsFile DEF IdsFollow, Plan
  <2> HIDE DEF f
  <2> QED
    BY <2>1, <2>3, <2>4, <2>5, <2>6, <2>7
<1>10. CASE UndoRestore
  <2>1. next \in Label
    BY <1>10 DEF UndoRestore, NextFollows, CommitSteps, UndoSteps, Plan
  <2> QED
    BY <1>10, <2>1 DEF UndoRestore
<1>11. CASE EmptyStaging
  <2>1. backup[t] = None
    BY <1>11 DEF EmptyStaging, BackupsFollow, CleanSteps, Nothing
  <2> QED
    BY <1>11, <2>1 DEF EmptyStaging
<1>12. CASE \E c \in Commands : WritePrivate(c)
  <2>1. target[1] \in File
    BY <1>12, FirstIsLabel DEF WritePrivate, FileTypes, Files
  <2>2. target[1].private + 1 \in Nat
    BY <2>1, FileIsFile
  <2> DEFINE f == [target[1] EXCEPT !.private = target[1].private + 1]
  <2>3. f \in File /\ f # None /\ f.id = target[1].id /\ f.private = target[1].private + 1
    BY <2>1, <2>2, WrittenFile, FileIsFile DEF File
  <2>4. target' = [target EXCEPT ![1] = f] /\ UNCHANGED <<backup, plan, tx>>
    BY <1>12 DEF WritePrivate
  <2> HIDE DEF f
  <2> QED
    BY <2>1, <2>3, <2>4, FirstIsLabel, FileIsFile
<1>13. CASE \E l \in Label : EditInPlace(l)
  BY <1>13 DEF EditInPlace
<1>14. CASE \E l \in Label : EditMoved(l)
  BY <1>14 DEF EditMoved
<1>15. CASE \E l \in Label : EditAnew(l)
  BY <1>15 DEF EditAnew
<1>16. CASE UNCHANGED still
  BY <1>16 DEF still
<1> QED
  BY <1>1, <1>2, <1>3, <1>4, <1>5, <1>6, <1>7, <1>8, <1>9, <1>10, <1>11,
     <1>12, <1>13, <1>14, <1>15, <1>16, MovesOrNot
     DEF Moves

LEMMA RootFollowsStep ==
  ASSUME FileTypes, StepTypes, NumberTypes,
         plan \in Plan, Barrier, JournalFollows, NextFollows,
         BackupsFollow, RootFollows, [Next]_vars
  PROVE  RootFollows'
<1> USE InstallAssumption DEF Goto, GotoAt, disk, context, history,
        CommitSteps, UndoSteps, PreSteps, CleanSteps, FileTypes, Files
<1>1. CASE Acquire
  BY <1>1 DEF Acquire, RootFollows
<1>2. CASE Recover
  BY <1>2 DEF Recover, RootFollows, RecoveryStep, StepTypes
<1>3. CASE Release
  BY <1>3 DEF Release, RootFollows
<1>4. CASE \E targets, removes \in SUBSET Label : MakePlan(targets, removes)
  BY <1>4 DEF MakePlan, RootFollows
<1>5. CASE CreateJournal
  BY <1>5 DEF CreateJournal, RootFollows
<1>6. CASE WriteJournal
  BY <1>6 DEF WriteJournal, RootFollows
<1>7. CASE MakeStaging
  BY <1>7 DEF MakeStaging, RootFollows
<1>8. CASE MarkStaging
  BY <1>8 DEF MarkStaging, RootFollows
<1>9. CASE BeginStaging
  BY <1>9 DEF BeginStaging, RootFollows
<1>10. CASE Stage
  BY <1>10 DEF Stage, RootFollows
<1>11. CASE AbortStaging
  BY <1>11 DEF AbortStaging, RootFollows
<1>12. CASE StartCommit
  BY <1>12 DEF StartCommit, RootFollows
<1>13. CASE CreateDirectory
  <2>1. root' = TRUE
    BY <1>13 DEF CreateDirectory
  <2> QED
    BY <2>1 DEF RootFollows
<1>14. CASE CheckOriginal
  BY <1>14 DEF CheckOriginal, RootFollows
<1>15. CASE BackUp
  <2>1. root /\ UNCHANGED root
    BY <1>15 DEF BackUp, RootFollows
  <2> QED
    BY <2>1 DEF RootFollows
<1>16. CASE Observe
  BY <1>16 DEF Observe, RootFollows
<1>17. CASE Rebind
  BY <1>17 DEF Rebind, RootFollows
<1>18. CASE PutBack
  <2>1. root /\ UNCHANGED root
    BY <1>18 DEF PutBack, RootFollows
  <2> QED
    BY <2>1 DEF RootFollows
<1>19. CASE Redigest
  BY <1>19 DEF Redigest, RootFollows
<1>20. CASE Install
  <2>1. root /\ UNCHANGED root
    BY <1>20 DEF Install, RootFollows
  <2> QED
    BY <2>1 DEF RootFollows
<1>21. CASE Verify
  BY <1>21 DEF Verify, RootFollows, GotoNext, Begin
<1>22. CASE Commit
  BY <1>22 DEF Commit, RootFollows
<1>23. CASE FailCommit
  BY <1>23 DEF FailCommit, RootFollows
<1>24. CASE Validate
  BY <1>24 DEF Validate, RootFollows
<1>25. CASE Undo
  BY <1>25 DEF Undo, RootFollows
<1>26. CASE UndoRemove
  <2>1. next \in Label
    BY <1>26 DEF UndoRemove, NextFollows, CommitSteps, UndoSteps, Plan
  <2>2. root /\ UNCHANGED root
    BY <1>26, <2>1 DEF UndoRemove, RootFollows, Nothing
  <2> QED
    BY <2>2, <1>26 DEF RootFollows, UndoRemove
<1>27. CASE UndoRestore
  <2>1. next \in Label
    BY <1>27 DEF UndoRestore, NextFollows, CommitSteps, UndoSteps, Plan
  <2>2. backup[next] = None => target' = target /\ backup' = backup
    BY <1>27, <2>1 DEF UndoRestore
  <2>3. backup[next] # None => root
    BY <2>1 DEF RootFollows, Nothing
  <2>4. pc' = "restored" /\ UNCHANGED root
    BY <1>27 DEF UndoRestore
  <2> QED
    BY <2>2, <2>3, <2>4 DEF RootFollows
<1>28. CASE UndoRestored
  BY <1>28 DEF UndoRestored, RootFollows
<1>29. CASE UndoRefused
  BY <1>29 DEF UndoRefused, RootFollows
<1>30. CASE UndoDirectory
  <2>1. pc = "undo" /\ next = 0 /\ journal = "committing" /\ pc' = "cleanup"
    BY <1>30 DEF UndoDirectory, JournalFollows
  <2>2. \A l \in plan.targets : l > next
    BY <2>1 DEF Plan, Label
  <2>3. \A l \in Label : backup[l] = None
    BY <2>1, <2>2 DEF BackupsFollow
  <2>4. backup = Nothing
    BY <2>3 DEF Nothing
  <2>5. UNCHANGED <<target, backup>> /\ (~root' => target = Nothing)
    BY <1>30 DEF UndoDirectory, RootFollows
  <2> QED
    BY <2>1, <2>4, <2>5 DEF RootFollows, Nothing
<1>31. CASE EmptyStaging
  BY <1>31 DEF EmptyStaging, RootFollows, Nothing
<1>32. CASE RemoveStaging
  BY <1>32 DEF RemoveStaging, RootFollows
<1>33. CASE RemoveJournal
  BY <1>33 DEF RemoveJournal, RootFollows
<1>34. CASE Crash
  BY <1>34 DEF Crash, RootFollows
<1>35. CASE \E c \in Commands : Lock(c)
  BY <1>35 DEF Lock, RootFollows
<1>36. CASE \E c \in Commands : Enter(c)
  BY <1>36 DEF Enter, RootFollows
<1>37. CASE \E c \in Commands : WritePrivate(c)
  <2>1. target # Nothing
    BY <1>37, FirstIsLabel DEF WritePrivate, Nothing
  <2>2. root /\ UNCHANGED <<root, pc>>
    BY <2>1, <1>37 DEF WritePrivate, RootFollows
  <2> QED
    BY <2>2 DEF RootFollows
<1>38. CASE \E c \in Commands : Leave(c)
  BY <1>38 DEF Leave, RootFollows
<1>39. CASE \E l \in Label : EditInPlace(l)
  <2>1. target # Nothing
    BY <1>39 DEF EditInPlace, Nothing
  <2>2. root /\ UNCHANGED <<root, pc>>
    BY <2>1, <1>39 DEF EditInPlace, RootFollows
  <2> QED
    BY <2>2 DEF RootFollows
<1>40. CASE \E l \in Label : EditMoved(l)
  <2>1. backup # Nothing
    BY <1>40 DEF EditMoved, Nothing
  <2>2. root /\ UNCHANGED <<root, pc>>
    BY <2>1, <1>40 DEF EditMoved, RootFollows
  <2> QED
    BY <2>2 DEF RootFollows
<1>41. CASE \E l \in Label : EditAnew(l)
  <2>1. root /\ UNCHANGED <<root, pc>>
    BY <1>41 DEF EditAnew
  <2> QED
    BY <2>1 DEF RootFollows
<1>42. CASE UNCHANGED vars
  BY <1>42 DEF vars, RootFollows
<1> QED
  BY <1>1, <1>2, <1>3, <1>4, <1>5, <1>6, <1>7, <1>8, <1>9, <1>10, <1>11,
     <1>12, <1>13, <1>14, <1>15, <1>16, <1>17, <1>18, <1>19, <1>20, <1>21,
     <1>22, <1>23, <1>24, <1>25, <1>26, <1>27, <1>28, <1>29, <1>30, <1>31,
     <1>32, <1>33, <1>34, <1>35, <1>36, <1>37, <1>38, <1>39, <1>40, <1>41,
     <1>42
     DEF Next, Installer, Begins, Commits, RollsBack, CleansUp, Command

LEMMA CandidatesFollowStep ==
  ASSUME FileTypes, StepTypes, NumberTypes,
         plan \in Plan, Barrier, JournalFollows, NextFollows,
         CandidatesFollow, [Next]_vars
  PROVE  CandidatesFollow'
<1> USE InstallAssumption DEF Goto, GotoAt, disk, context, history,
        StepTypes, Steps, CommitSteps, UndoSteps, PreSteps, CleanSteps, JournalFollows
<1>1. CASE Acquire
  BY <1>1 DEF Acquire, CandidatesFollow
<1>2. CASE Recover
  BY <1>2 DEF Recover, CandidatesFollow, RecoveryStep
<1>3. CASE Release
  BY <1>3 DEF Release, CandidatesFollow
<1>4. CASE \E targets, removes \in SUBSET Label : MakePlan(targets, removes)
  BY <1>4 DEF MakePlan, CandidatesFollow
<1>5. CASE CreateJournal
  BY <1>5 DEF CreateJournal, CandidatesFollow
<1>6. CASE WriteJournal
  BY <1>6 DEF WriteJournal, CandidatesFollow
<1>7. CASE MakeStaging
  BY <1>7 DEF MakeStaging, CandidatesFollow
<1>8. CASE MarkStaging
  BY <1>8 DEF MarkStaging, CandidatesFollow
<1>9. CASE BeginStaging
  BY <1>9 DEF BeginStaging, CandidatesFollow
<1>10. CASE Stage
  BY <1>10 DEF Stage, CandidatesFollow
<1>11. CASE AbortStaging
  BY <1>11 DEF AbortStaging, CandidatesFollow
<1>12. CASE StartCommit
  BY <1>12 DEF StartCommit, CandidatesFollow
<1>13. CASE CreateDirectory
  BY <1>13 DEF CreateDirectory, CandidatesFollow, GotoNext, Begin
<1>14. CASE CheckOriginal
  BY <1>14 DEF CheckOriginal, CandidatesFollow
<1>15. CASE BackUp
  BY <1>15 DEF BackUp, CandidatesFollow
<1>16. CASE Observe
  BY <1>16 DEF Observe, CandidatesFollow
<1>17. CASE Rebind
  <2>1. plan'.removes = plan.removes /\ journal = "committing"
    BY <1>17 DEF Rebind, Plan
  <2> QED
    BY <1>17, <2>1 DEF Rebind, CandidatesFollow
<1>18. CASE PutBack
  BY <1>18 DEF PutBack, CandidatesFollow
<1>19. CASE Redigest
  <2>1. plan'.removes = plan.removes /\ journal = "committing"
    BY <1>19 DEF Redigest, Plan
  <2> QED
    BY <1>19, <2>1 DEF Redigest, CandidatesFollow
<1>20. CASE Install
  BY <1>20 DEF Install, CandidatesFollow
<1>21. CASE Verify
  BY <1>21 DEF Verify, CandidatesFollow, GotoNext, Begin
<1>22. CASE Commit
  BY <1>22 DEF Commit, CandidatesFollow
<1>23. CASE FailCommit
  BY <1>23 DEF FailCommit, CandidatesFollow
<1>24. CASE Validate
  BY <1>24 DEF Validate, CandidatesFollow
<1>25. CASE Undo
  BY <1>25 DEF Undo, CandidatesFollow
<1>26. CASE UndoRemove
  BY <1>26 DEF UndoRemove, CandidatesFollow
<1>27. CASE UndoRestore
  BY <1>27 DEF UndoRestore, CandidatesFollow
<1>28. CASE UndoRestored
  BY <1>28 DEF UndoRestored, CandidatesFollow
<1>29. CASE UndoRefused
  BY <1>29 DEF UndoRefused, CandidatesFollow
<1>30. CASE UndoDirectory
  BY <1>30 DEF UndoDirectory, CandidatesFollow
<1>31. CASE EmptyStaging
  BY <1>31 DEF EmptyStaging, CandidatesFollow
<1>32. CASE RemoveStaging
  BY <1>32 DEF RemoveStaging, CandidatesFollow
<1>33. CASE RemoveJournal
  BY <1>33 DEF RemoveJournal, CandidatesFollow
<1>34. CASE Crash
  BY <1>34 DEF Crash, CandidatesFollow
<1>35. CASE \E c \in Commands : Lock(c)
  BY <1>35 DEF Lock, CandidatesFollow
<1>36. CASE \E c \in Commands : Enter(c)
  BY <1>36 DEF Enter, CandidatesFollow
<1>37. CASE \E c \in Commands : WritePrivate(c)
  <2>1. UNCHANGED <<plan, candidate, journal, pc>>
    BY <1>37 DEF WritePrivate
  <2> QED
    BY <2>1 DEF CandidatesFollow
<1>38. CASE \E c \in Commands : Leave(c)
  BY <1>38 DEF Leave, CandidatesFollow
<1>39. CASE \E l \in Label : EditInPlace(l)
  BY <1>39 DEF EditInPlace, CandidatesFollow
<1>40. CASE \E l \in Label : EditMoved(l)
  BY <1>40 DEF EditMoved, CandidatesFollow
<1>41. CASE \E l \in Label : EditAnew(l)
  BY <1>41 DEF EditAnew, CandidatesFollow
<1>42. CASE UNCHANGED vars
  BY <1>42 DEF vars, CandidatesFollow
<1> QED
  BY <1>1, <1>2, <1>3, <1>4, <1>5, <1>6, <1>7, <1>8, <1>9, <1>10, <1>11,
     <1>12, <1>13, <1>14, <1>15, <1>16, <1>17, <1>18, <1>19, <1>20, <1>21,
     <1>22, <1>23, <1>24, <1>25, <1>26, <1>27, <1>28, <1>29, <1>30, <1>31,
     <1>32, <1>33, <1>34, <1>35, <1>36, <1>37, <1>38, <1>39, <1>40, <1>41,
     <1>42
     DEF Next, Installer, Begins, Commits, RollsBack, CleansUp, Command

LEMMA PrivateFollowsStep ==
  ASSUME edits = 0, edits' = 0, FileTypes, StepTypes, NumberTypes,
         plan \in Plan, Barrier, JournalFollows, NextFollows,
         BackupsFollow, CandidatesFollow, InstalledStands, PrivateFollows, [Next]_vars
  PROVE  PrivateFollows'
<1> USE FirstIsLabel DEF Goto, GotoAt, disk, context, history, FileTypes, Files, NumberTypes
<1>1. CASE \E targets, removes \in SUBSET Label : MakePlan(targets, removes)
  BY <1>1 DEF MakePlan, PrivateFollows
<1>2. CASE Stage
  <2>1. target[1] = None => writes = 0
    BY <1>2 DEF Stage, JournalFollows, PreSteps, InstalledStands, Uncommitted, Stands,
            SameFile, Matches, SameIdentity, PrivateFollows
  <2>2. 1 \in plan.targets \ plan.removes => candidate'[1] =
           [id |-> tx, data |-> tx, private |-> IF target[1] = None THEN 0 ELSE target[1].private]
    BY <1>2 DEF Stage
  <2>3. 1 \notin plan.targets \ plan.removes => candidate'[1] = None
    BY <1>2 DEF Stage
  <2>4. UNCHANGED <<target, backup, installed, writes>>
    BY <1>2 DEF Stage
  <2> QED
    BY <2>1, <2>2, <2>3, <2>4 DEF PrivateFollows
<1>3. CASE BackUp
  <2>1. next \in Label
    BY <1>3 DEF BackUp, NextFollows, CommitSteps, UndoSteps, Plan
  <2> QED
    BY <1>3, <2>1 DEF BackUp, PrivateFollows
<1>4. CASE Rebind
  BY <1>4 DEF Rebind, PrivateFollows
<1>5. CASE PutBack
  <2>1. next \in Label
    BY <1>5 DEF PutBack, NextFollows, CommitSteps, UndoSteps, Plan
  <2> QED
    BY <1>5, <2>1 DEF PutBack, PrivateFollows
<1>6. CASE Redigest
  BY <1>6 DEF Redigest, PrivateFollows
<1>7. CASE Install
  <2>1. next \in Label
    BY <1>7 DEF Install, NextFollows, CommitSteps, UndoSteps, Plan
  <2> QED
    BY <1>7, <2>1 DEF Install, PrivateFollows
<1>8. CASE Commit
  <2>1. UNCHANGED <<target, backup, candidate, writes>>
    BY <1>8 DEF Commit
  <2>2. 1 \in plan.targets => installed'[1] = [id |-> tx, data |-> tx, private |-> 0]
    BY <1>8 DEF Commit, CandidatesFollow
  <2>3. 1 \notin plan.targets => installed'[1] = installed[1]
    BY <1>8 DEF Commit
  <2>4. [id |-> tx, data |-> tx, private |-> 0] # None
    BY MadeFile
  <2> QED
    BY <2>1, <2>2, <2>3, <2>4 DEF PrivateFollows
<1>9. CASE UndoRemove
  <2>1. next \in Label /\ target[next] \in File
    BY <1>9 DEF UndoRemove, NextFollows, UndoSteps, Plan
  <2> DEFINE f == [target[next] EXCEPT !.data = Torn]
  <2>2. f.private = target[next].private
    BY <2>1 DEF File
  <2>3. \/ target' = [target EXCEPT ![next] = f]
        \/ target' = [target EXCEPT ![next] = None]
    BY <1>9 DEF UndoRemove
  <2>4. UNCHANGED <<backup, candidate, installed, writes>>
    BY <1>9 DEF UndoRemove
  <2> HIDE DEF f
  <2> QED
    BY <2>1, <2>2, <2>3, <2>4, FileIsFile DEF PrivateFollows
<1>10. CASE UndoRestore
  <2>1. next \in Label
    BY <1>10 DEF UndoRestore, NextFollows, CommitSteps, UndoSteps, Plan
  <2> QED
    BY <1>10, <2>1 DEF UndoRestore, PrivateFollows
<1>11. CASE EmptyStaging
  BY <1>11 DEF EmptyStaging, Nothing, PrivateFollows
<1>12. CASE \E c \in Commands : WritePrivate(c)
  <2>1. target[1] \in File
    BY <1>12, FirstIsLabel DEF WritePrivate, FileTypes, Files
  <2>2. target[1].private + 1 \in Nat
    BY <2>1, FileIsFile
  <2> DEFINE f == [target[1] EXCEPT !.private = target[1].private + 1]
  <2>3. f \in File /\ f # None /\ f.id = target[1].id /\ f.private = target[1].private + 1
    BY <2>1, <2>2, WrittenFile, FileIsFile DEF File
  <2>4. target' = [target EXCEPT ![1] = f] /\ UNCHANGED <<backup, plan, tx>>
    BY <1>12 DEF WritePrivate
  <2> HIDE DEF f
  <2>5. journal = "none" /\ target[1] # None
    BY <1>12 DEF WritePrivate, Barrier, CommandsAreBarred
  <2>6. candidate[1] = None /\ backup[1] = None /\ installed[1] # None
    BY <2>5 DEF CandidatesFollow, BackupsFollow, BackupsAreStaged, Nothing, InstalledStands,
                Uncommitted, Stands, SameFile, Matches, SameIdentity
  <2>7. writes' = writes + 1 /\ UNCHANGED <<candidate, installed>>
    BY <1>12 DEF WritePrivate
  <2> QED
    BY <2>3, <2>4, <2>5, <2>6, <2>7 DEF PrivateFollows
<1>13. CASE \E l \in Label : EditInPlace(l)
  BY <1>13 DEF EditInPlace
<1>14. CASE \E l \in Label : EditMoved(l)
  BY <1>14 DEF EditMoved
<1>15. CASE \E l \in Label : EditAnew(l)
  BY <1>15 DEF EditAnew
<1>16. CASE UNCHANGED still
  BY <1>16 DEF still, PrivateFollows
<1> QED
  BY <1>1, <1>2, <1>3, <1>4, <1>5, <1>6, <1>7, <1>8, <1>9, <1>10, <1>11,
     <1>12, <1>13, <1>14, <1>15, <1>16, MovesOrNot
     DEF Moves

LEMMA NewDirectoryStep ==
  ASSUME edits = 0, edits' = 0, FileTypes, StepTypes, NumberTypes,
         plan \in Plan, Barrier, JournalFollows, NextFollows,
         CommitReached, RootFollows, NewDirectory, [Next]_vars
  PROVE  NewDirectory'
<1> USE InstallAssumption DEF Goto, GotoAt, disk, context, history,
        CommitSteps, UndoSteps, PreSteps, CleanSteps, JournalFollows, FileTypes, Files,
        NumberTypes, Original
<1>1. CASE Acquire
  BY <1>1 DEF Acquire, NewDirectory
<1>2. CASE Recover
  BY <1>2 DEF Recover, RecoveryStep, NewDirectory
<1>3. CASE Release
  BY <1>3 DEF Release, NewDirectory
<1>4. CASE \E targets, removes \in SUBSET Label : MakePlan(targets, removes)
  <2> PICK targets, removes \in SUBSET Label : MakePlan(targets, removes)
    BY <1>4
  <2>1. plan' = [targets |-> targets, removes |-> removes,
                 original |-> [l \in Label |-> IF l \in targets THEN target[l] ELSE None],
                 creates |-> ~root]
    BY DEF MakePlan
  <2>2. plan'.creates => target = Nothing
    BY <2>1 DEF RootFollows
  <2>3. target' = target
    BY DEF MakePlan
  <2> QED
    BY <2>1, <2>2, <2>3 DEF NewDirectory, Nothing
<1>5. CASE CreateJournal
  BY <1>5 DEF CreateJournal, NewDirectory
<1>6. CASE WriteJournal
  BY <1>6 DEF WriteJournal, NewDirectory
<1>7. CASE MakeStaging
  BY <1>7 DEF MakeStaging, NewDirectory
<1>8. CASE MarkStaging
  BY <1>8 DEF MarkStaging, NewDirectory
<1>9. CASE BeginStaging
  BY <1>9 DEF BeginStaging, NewDirectory
<1>10. CASE Stage
  BY <1>10 DEF Stage, NewDirectory
<1>11. CASE AbortStaging
  BY <1>11 DEF AbortStaging, NewDirectory
<1>12. CASE StartCommit
  BY <1>12 DEF StartCommit, NewDirectory
<1>13. CASE CreateDirectory
  BY <1>13 DEF CreateDirectory, NewDirectory, GotoNext, Begin
<1>14. CASE CheckOriginal
  BY <1>14 DEF CheckOriginal, NewDirectory
<1>15. CASE BackUp
  <2>1. next \in Label
    BY <1>15 DEF BackUp, NextFollows, CommitSteps, UndoSteps, Plan
  <2>2. next \in plan.targets /\ UNCHANGED <<plan, journal>>
    BY <1>15 DEF BackUp, NextFollows
  <2>3. \A l \in Label : l # next => target'[l] = target[l]
    BY <1>15 DEF BackUp
  <2>4. journal = "committing"
    BY <1>15 DEF BackUp
  <2> QED
    BY <2>2, <2>3, <2>4 DEF NewDirectory
<1>16. CASE Observe
  BY <1>16 DEF Observe, NewDirectory
<1>17. CASE Rebind
  BY <1>17 DEF Rebind, CommitReached
<1>18. CASE PutBack
  BY <1>18 DEF PutBack, CommitReached
<1>19. CASE Redigest
  BY <1>19 DEF Redigest, CommitReached
<1>20. CASE Install
  <2>1. next \in Label
    BY <1>20 DEF Install, NextFollows, CommitSteps, UndoSteps, Plan
  <2>2. next \in plan.targets /\ UNCHANGED <<plan, journal>>
    BY <1>20 DEF Install, NextFollows
  <2>3. \A l \in Label : l # next => target'[l] = target[l]
    BY <1>20 DEF Install
  <2>4. journal = "committing"
    BY <1>20 DEF Install
  <2> QED
    BY <2>2, <2>3, <2>4 DEF NewDirectory
<1>21. CASE Verify
  BY <1>21 DEF Verify, NewDirectory, GotoNext, Begin
<1>22. CASE Commit
  BY <1>22 DEF Commit, NewDirectory
<1>23. CASE FailCommit
  BY <1>23 DEF FailCommit, NewDirectory
<1>24. CASE Validate
  BY <1>24 DEF Validate, NewDirectory
<1>25. CASE Undo
  BY <1>25 DEF Undo, NewDirectory
<1>26. CASE UndoRemove
  <2>1. next \in Label
    BY <1>26 DEF UndoRemove, NextFollows, CommitSteps, UndoSteps, Plan
  <2>2. next \in plan.targets /\ UNCHANGED <<plan, journal>>
    BY <1>26 DEF UndoRemove, NextFollows
  <2>3. \A l \in Label : l # next => target'[l] = target[l]
    BY <1>26 DEF UndoRemove
  <2>4. journal = "committing"
    BY <1>26 DEF UndoRemove
  <2> QED
    BY <2>2, <2>3, <2>4 DEF NewDirectory
<1>27. CASE UndoRestore
  <2>1. next \in Label
    BY <1>27 DEF UndoRestore, NextFollows, CommitSteps, UndoSteps, Plan
  <2>2. next \in plan.targets /\ UNCHANGED <<plan, journal>>
    BY <1>27 DEF UndoRestore, NextFollows
  <2>3. \A l \in Label : l # next => target'[l] = target[l]
    BY <1>27 DEF UndoRestore
  <2>4. journal = "committing"
    BY <1>27 DEF UndoRestore
  <2> QED
    BY <2>2, <2>3, <2>4 DEF NewDirectory
<1>28. CASE UndoRestored
  BY <1>28 DEF UndoRestored, NewDirectory
<1>29. CASE UndoRefused
  BY <1>29 DEF UndoRefused, NewDirectory
<1>30. CASE UndoDirectory
  BY <1>30 DEF UndoDirectory, NewDirectory
<1>31. CASE EmptyStaging
  BY <1>31 DEF EmptyStaging, NewDirectory
<1>32. CASE RemoveStaging
  BY <1>32 DEF RemoveStaging, NewDirectory
<1>33. CASE RemoveJournal
  BY <1>33 DEF RemoveJournal, NewDirectory
<1>34. CASE Crash
  BY <1>34 DEF Crash, NewDirectory
<1>35. CASE \E c \in Commands : Lock(c)
  BY <1>35 DEF Lock, NewDirectory
<1>36. CASE \E c \in Commands : Enter(c)
  BY <1>36 DEF Enter, NewDirectory
<1>37. CASE \E c \in Commands : WritePrivate(c)
  <2>1. journal = "none" /\ pc = "idle"
    BY <1>37 DEF WritePrivate, Barrier, CommandsAreBarred, Free
  <2>2. UNCHANGED <<journal, pc>>
    BY <1>37 DEF WritePrivate
  <2> QED
    BY <2>1, <2>2 DEF NewDirectory
<1>38. CASE \E c \in Commands : Leave(c)
  BY <1>38 DEF Leave, NewDirectory
<1>39. CASE \E l \in Label : EditInPlace(l)
  BY <1>39 DEF EditInPlace, NewDirectory
<1>40. CASE \E l \in Label : EditMoved(l)
  BY <1>40 DEF EditMoved, NewDirectory
<1>41. CASE \E l \in Label : EditAnew(l)
  BY <1>41 DEF EditAnew, NewDirectory
<1>42. CASE UNCHANGED vars
  BY <1>42 DEF vars, NewDirectory
<1> QED
  BY <1>1, <1>2, <1>3, <1>4, <1>5, <1>6, <1>7, <1>8, <1>9, <1>10, <1>11,
     <1>12, <1>13, <1>14, <1>15, <1>16, <1>17, <1>18, <1>19, <1>20, <1>21,
     <1>22, <1>23, <1>24, <1>25, <1>26, <1>27, <1>28, <1>29, <1>30, <1>31,
     <1>32, <1>33, <1>34, <1>35, <1>36, <1>37, <1>38, <1>39, <1>40, <1>41,
     <1>42
     DEF Next, Installer, Begins, Commits, RollsBack, CleansUp, Command

\* A target that is in its place is not a candidate.
LEMMA PlannedIsOlder ==
  ASSUME FileTypes, NumberTypes, plan \in Plan, IdsFollow, NEW l \in Label, AsPlanned(l),
         target[l] # None
  PROVE  target[l].id # tx
<1>1. Original(l) # None /\ target[l].id = Original(l).id /\ Original(l).id < tx
  BY DEF AsPlanned, SameFile, Matches, SameIdentity, IdsFollow
<1>2. Original(l).id \in Int
  BY <1>1, FileIsFile DEF Original, Plan
<1> QED
  BY <1>1, <1>2 DEF NumberTypes

\* A backup that is to be put back is what was planned to be there.
LEMMA BackupIsOriginal ==
  ASSUME TargetsArePlaced, journal = "committing", NEW l \in plan.targets, plan \in Plan,
         target[l] = None
  PROVE  SameFile(backup[l], Original(l))
<1>1. Placed(l)
  BY DEF TargetsArePlaced, Plan
<1> QED
  BY <1>1 DEF Placed, AsPlanned, SameFile, Matches, SameIdentity

\* What the commit did so far can be undone.
LEMMA CommitIsUndoable ==
  ASSUME TargetsArePlaced, Reversible, journal = "committing", ~retried, pc # "removing",
         NEW l \in plan.targets, plan \in Plan
  PROVE  Undoable(l)
<1>1. Placed(l)
  BY DEF TargetsArePlaced, Plan
<1>2. target[l] # None /\ target[l].id = tx =>
        l \notin plan.removes /\ candidate[l] = None /\ IsCandidate(target[l])
  BY DEF Reversible, Installed, IsCandidate
<1>3. CASE backup[l] # None
  <2>1. Matches(backup[l], Original(l)) /\ (target[l] # None => target[l].id = tx)
    BY <1>1, <1>3 DEF Placed
  <2> QED
    BY <1>2, <1>3, <2>1 DEF Undoable
<1>4. CASE backup[l] = None /\ Original(l) # None
  <2>1. AsPlanned(l)
    BY <1>1, <1>4 DEF Placed, Matches, SameIdentity
  <2> QED
    BY <1>4, <2>1 DEF Undoable, AsPlanned, SameFile
<1>5. CASE backup[l] = None /\ Original(l) = None
  <2>1. target[l] # None => target[l].id = tx
    BY <1>1, <1>5 DEF Placed, AsPlanned, SameFile, Matches, SameIdentity
  <2> QED
    BY <1>2, <1>5, <2>1 DEF Undoable
<1> QED
  BY <1>3, <1>4, <1>5

LEMMA UndoReadyStep ==
  ASSUME edits = 0, edits' = 0, FileTypes, StepTypes, NumberTypes,
         plan \in Plan, Barrier, JournalFollows, NextFollows,
         IdsFollow, TargetsArePlaced, UndoReached, UndoReady, [Next]_vars
  PROVE  UndoReady'
<1> USE InstallAssumption DEF Goto, GotoAt, disk, context, history,
        StepTypes, Steps, CommitSteps, UndoSteps, PreSteps, CleanSteps,
        JournalFollows, NumberTypes
<1>1. CASE Acquire
  BY <1>1 DEF Acquire, UndoReady, AsPlanned, Original
<1>2. CASE Recover
  BY <1>2 DEF Recover, UndoReady, AsPlanned, Original, RecoveryStep
<1>3. CASE Release
  BY <1>3 DEF Release, UndoReady, AsPlanned, Original
<1>4. CASE \E targets, removes \in SUBSET Label : MakePlan(targets, removes)
  BY <1>4 DEF MakePlan, UndoReady, AsPlanned, Original
<1>5. CASE CreateJournal
  BY <1>5 DEF CreateJournal, UndoReady, AsPlanned, Original
<1>6. CASE WriteJournal
  BY <1>6 DEF WriteJournal, UndoReady, AsPlanned, Original
<1>7. CASE MakeStaging
  BY <1>7 DEF MakeStaging, UndoReady, AsPlanned, Original
<1>8. CASE MarkStaging
  BY <1>8 DEF MarkStaging, UndoReady, AsPlanned, Original
<1>9. CASE BeginStaging
  BY <1>9 DEF BeginStaging, UndoReady, AsPlanned, Original
<1>10. CASE Stage
  BY <1>10 DEF Stage, UndoReady, AsPlanned, Original
<1>11. CASE AbortStaging
  BY <1>11 DEF AbortStaging, UndoReady, AsPlanned, Original
<1>12. CASE StartCommit
  BY <1>12 DEF StartCommit, UndoReady, AsPlanned, Original
<1>13. CASE CreateDirectory
  BY <1>13 DEF CreateDirectory, UndoReady, AsPlanned, Original, GotoNext, Begin
<1>14. CASE CheckOriginal
  BY <1>14 DEF CheckOriginal, UndoReady, AsPlanned, Original
<1>15. CASE BackUp
  BY <1>15 DEF BackUp, UndoReady, AsPlanned, Original
<1>16. CASE Observe
  BY <1>16 DEF Observe, UndoReady, AsPlanned, Original
<1>17. CASE Rebind
  BY <1>17 DEF Rebind, UndoReady, AsPlanned, Original
<1>18. CASE PutBack
  BY <1>18 DEF PutBack, UndoReady, AsPlanned, Original
<1>19. CASE Redigest
  BY <1>19 DEF Redigest, UndoReady, AsPlanned, Original
<1>20. CASE Install
  BY <1>20 DEF Install, UndoReady, AsPlanned, Original
<1>21. CASE Verify
  BY <1>21 DEF Verify, UndoReady, AsPlanned, Original, GotoNext, Begin
<1>22. CASE Commit
  BY <1>22 DEF Commit, UndoReady, AsPlanned, Original
<1>23. CASE FailCommit
  BY <1>23 DEF FailCommit, UndoReady, AsPlanned, Original
<1>24. CASE Validate
  BY <1>24 DEF Validate, UndoReady, AsPlanned, Original
<1>25. CASE Undo
  <2>1. UNCHANGED <<target, plan>> /\ pc = "undo" /\ journal = "committing"
    BY <1>25 DEF Undo
  <2>2. CASE pc' = "restoring"
    <3>1. next' = next /\ Undoable(next) /\ ~IsCandidate(target[next]) /\ backup[next] # None
      BY <1>25, <2>2 DEF Undo
    <3> QED
      BY <2>1, <2>2, <3>1 DEF Undoable, UndoReady
  <2>3. CASE pc' = "restored"
    <3>1. next' = next /\ Undoable(next) /\ ~IsCandidate(target[next]) /\ backup[next] = None
      BY <1>25, <2>3 DEF Undo
    <3>2. AsPlanned(next)
      BY <3>1 DEF Undoable, AsPlanned, SameFile
    <3> QED
      BY <2>1, <2>3, <3>1, <3>2 DEF UndoReady, AsPlanned, Original
  <2> QED
    BY <2>2, <2>3 DEF UndoReady
<1>26. CASE UndoRemove
  <2>1. next \in Label
    BY <1>26 DEF UndoRemove, NextFollows, CommitSteps, UndoSteps, Plan
  <2>2. UNCHANGED <<next, plan, backup>> /\ next \in plan.targets /\ journal = "committing"
    BY <1>26 DEF UndoRemove, NextFollows
  <2>3. pc' \in {"restoring", "restored"} => target'[next] = None
    BY <1>26, <2>1 DEF UndoRemove, FileTypes, Files
  <2>4. pc' = "restored" => backup[next] = None
    BY <1>26 DEF UndoRemove
  <2>5. target[next] # None /\ target[next].id = tx
    BY <1>26 DEF UndoRemove
  <2>6. ~AsPlanned(next)
    BY <2>1, <2>5, PlannedIsOlder
  <2>7. backup[next] = None => Original(next) = None
    BY <2>1, <2>2, <2>6 DEF TargetsArePlaced, Placed, Matches, SameIdentity
  <2> QED
    BY <2>2, <2>3, <2>4, <2>7 DEF UndoReady, AsPlanned, Original, SameFile
<1>27. CASE UndoRestore
  <2>1. next \in Label
    BY <1>27 DEF UndoRestore, NextFollows, CommitSteps, UndoSteps, Plan
  <2>2. next \in plan.targets /\ journal = "committing" /\ target[next] = None
    BY <1>27 DEF UndoRestore, NextFollows
  <2>3. SameFile(backup[next], Original(next))
    BY <2>2, BackupIsOriginal
  <2>4. target'[next] = backup[next] /\ UNCHANGED <<next, plan>> /\ pc' = "restored"
    BY <1>27, <2>1 DEF UndoRestore, FileTypes, Files
  <2> QED
    BY <2>3, <2>4 DEF UndoReady, AsPlanned, Original
<1>28. CASE UndoRestored
  BY <1>28 DEF UndoRestored, UndoReady, AsPlanned, Original
<1>29. CASE UndoRefused
  BY <1>29 DEF UndoRefused, UndoReady, AsPlanned, Original
<1>30. CASE UndoDirectory
  BY <1>30 DEF UndoDirectory, UndoReady, AsPlanned, Original
<1>31. CASE EmptyStaging
  BY <1>31 DEF EmptyStaging, UndoReady, AsPlanned, Original
<1>32. CASE RemoveStaging
  BY <1>32 DEF RemoveStaging, UndoReady, AsPlanned, Original
<1>33. CASE RemoveJournal
  BY <1>33 DEF RemoveJournal, UndoReady, AsPlanned, Original
<1>34. CASE Crash
  BY <1>34 DEF Crash, UndoReady, AsPlanned, Original
<1>35. CASE \E c \in Commands : Lock(c)
  BY <1>35 DEF Lock, UndoReady, AsPlanned, Original
<1>36. CASE \E c \in Commands : Enter(c)
  BY <1>36 DEF Enter, UndoReady, AsPlanned, Original
<1>37. CASE \E c \in Commands : WritePrivate(c)
  <2>1. pc = "idle" /\ journal = "none" /\ UNCHANGED <<pc, journal>>
    BY <1>37 DEF WritePrivate, Barrier, CommandsAreBarred, Free
  <2> QED
    BY <2>1 DEF UndoReady
<1>38. CASE \E c \in Commands : Leave(c)
  BY <1>38 DEF Leave, UndoReady, AsPlanned, Original
<1>39. CASE \E l \in Label : EditInPlace(l)
  BY <1>39 DEF EditInPlace, UndoReady, AsPlanned, Original
<1>40. CASE \E l \in Label : EditMoved(l)
  BY <1>40 DEF EditMoved, UndoReady, AsPlanned, Original
<1>41. CASE \E l \in Label : EditAnew(l)
  BY <1>41 DEF EditAnew, UndoReady, AsPlanned, Original
<1>42. CASE UNCHANGED vars
  BY <1>42 DEF vars, UndoReady, AsPlanned, Original
<1> QED
  BY <1>1, <1>2, <1>3, <1>4, <1>5, <1>6, <1>7, <1>8, <1>9, <1>10, <1>11,
     <1>12, <1>13, <1>14, <1>15, <1>16, <1>17, <1>18, <1>19, <1>20, <1>21,
     <1>22, <1>23, <1>24, <1>25, <1>26, <1>27, <1>28, <1>29, <1>30, <1>31,
     <1>32, <1>33, <1>34, <1>35, <1>36, <1>37, <1>38, <1>39, <1>40, <1>41,
     <1>42
     DEF Next, Installer, Begins, Commits, RollsBack, CleansUp, Command

LEMMA CommitHoldsStep ==
  ASSUME edits = 0, edits' = 0, FileTypes, StepTypes, NumberTypes,
         plan \in Plan, Barrier, JournalFollows, NextFollows,
         CommitReached, CommitHolds, [Next]_vars
  PROVE  CommitHolds'
<1> USE InstallAssumption DEF Goto, GotoAt, disk, context, history,
        StepTypes, Steps, CommitSteps, UndoSteps, PreSteps, CleanSteps,
        JournalFollows, NumberTypes
<1>1. CASE Acquire
  BY <1>1 DEF Acquire, CommitHolds, Done, IsCandidate
<1>2. CASE Recover
  BY <1>2 DEF Recover, CommitHolds, Done, IsCandidate, RecoveryStep
<1>3. CASE Release
  BY <1>3 DEF Release, CommitHolds, Done, IsCandidate
<1>4. CASE \E targets, removes \in SUBSET Label : MakePlan(targets, removes)
  <2>1. journal' # "committed"
    BY <1>4 DEF MakePlan
  <2> QED
    BY <2>1 DEF CommitHolds
<1>5. CASE CreateJournal
  BY <1>5 DEF CreateJournal, CommitHolds, Done, IsCandidate
<1>6. CASE WriteJournal
  BY <1>6 DEF WriteJournal, CommitHolds, Done, IsCandidate
<1>7. CASE MakeStaging
  BY <1>7 DEF MakeStaging, CommitHolds, Done, IsCandidate
<1>8. CASE MarkStaging
  BY <1>8 DEF MarkStaging, CommitHolds, Done, IsCandidate
<1>9. CASE BeginStaging
  BY <1>9 DEF BeginStaging, CommitHolds, Done, IsCandidate
<1>10. CASE Stage
  <2>1. journal' # "committed"
    BY <1>10 DEF Stage
  <2> QED
    BY <2>1 DEF CommitHolds
<1>11. CASE AbortStaging
  BY <1>11 DEF AbortStaging, CommitHolds, Done, IsCandidate
<1>12. CASE StartCommit
  BY <1>12 DEF StartCommit, CommitHolds, Done, IsCandidate
<1>13. CASE CreateDirectory
  BY <1>13 DEF CreateDirectory, CommitHolds, Done, IsCandidate, GotoNext, Begin
<1>14. CASE CheckOriginal
  BY <1>14 DEF CheckOriginal, CommitHolds, Done, IsCandidate
<1>15. CASE BackUp
  <2>1. journal' # "committed"
    BY <1>15 DEF BackUp
  <2> QED
    BY <2>1 DEF CommitHolds
<1>16. CASE Observe
  BY <1>16 DEF Observe, CommitHolds, Done, IsCandidate
<1>17. CASE Rebind
  <2>1. journal' # "committed"
    BY <1>17 DEF Rebind
  <2> QED
    BY <2>1 DEF CommitHolds
<1>18. CASE PutBack
  <2>1. journal' # "committed"
    BY <1>18 DEF PutBack
  <2> QED
    BY <2>1 DEF CommitHolds
<1>19. CASE Redigest
  <2>1. journal' # "committed"
    BY <1>19 DEF Redigest
  <2> QED
    BY <2>1 DEF CommitHolds
<1>20. CASE Install
  <2>1. journal' # "committed"
    BY <1>20 DEF Install
  <2> QED
    BY <2>1 DEF CommitHolds
<1>21. CASE Verify
  BY <1>21 DEF Verify, CommitHolds, Done, IsCandidate, GotoNext, Begin
<1>22. CASE Commit
  <2>1. pc = "verify" /\ next = Last + 1 /\ UNCHANGED <<target, plan, tx>>
    BY <1>22 DEF Commit
  <2>2. \A l \in plan.targets : l < next
    BY <2>1 DEF Plan, Label
  <2>3. \A l \in plan.targets : Done(l)
    BY <2>1, <2>2 DEF CommitReached
  <2> QED
    BY <2>1, <2>3 DEF CommitHolds, Done, IsCandidate
<1>23. CASE FailCommit
  BY <1>23 DEF FailCommit, CommitHolds, Done, IsCandidate
<1>24. CASE Validate
  BY <1>24 DEF Validate, CommitHolds, Done, IsCandidate
<1>25. CASE Undo
  BY <1>25 DEF Undo, CommitHolds, Done, IsCandidate
<1>26. CASE UndoRemove
  <2>1. journal' # "committed"
    BY <1>26 DEF UndoRemove
  <2> QED
    BY <2>1 DEF CommitHolds
<1>27. CASE UndoRestore
  <2>1. journal' # "committed"
    BY <1>27 DEF UndoRestore
  <2> QED
    BY <2>1 DEF CommitHolds
<1>28. CASE UndoRestored
  BY <1>28 DEF UndoRestored, CommitHolds, Done, IsCandidate
<1>29. CASE UndoRefused
  BY <1>29 DEF UndoRefused, CommitHolds, Done, IsCandidate
<1>30. CASE UndoDirectory
  BY <1>30 DEF UndoDirectory, CommitHolds, Done, IsCandidate
<1>31. CASE EmptyStaging
  BY <1>31 DEF EmptyStaging, CommitHolds, Done, IsCandidate
<1>32. CASE RemoveStaging
  BY <1>32 DEF RemoveStaging, CommitHolds, Done, IsCandidate
<1>33. CASE RemoveJournal
  BY <1>33 DEF RemoveJournal, CommitHolds, Done, IsCandidate
<1>34. CASE Crash
  BY <1>34 DEF Crash, CommitHolds, Done, IsCandidate
<1>35. CASE \E c \in Commands : Lock(c)
  BY <1>35 DEF Lock, CommitHolds, Done, IsCandidate
<1>36. CASE \E c \in Commands : Enter(c)
  BY <1>36 DEF Enter, CommitHolds, Done, IsCandidate
<1>37. CASE \E c \in Commands : WritePrivate(c)
  <2>1. pc = "idle" /\ journal = "none" /\ UNCHANGED <<pc, journal>>
    BY <1>37 DEF WritePrivate, Barrier, CommandsAreBarred, Free
  <2> QED
    BY <2>1 DEF CommitHolds
<1>38. CASE \E c \in Commands : Leave(c)
  BY <1>38 DEF Leave, CommitHolds, Done, IsCandidate
<1>39. CASE \E l \in Label : EditInPlace(l)
  BY <1>39 DEF EditInPlace, CommitHolds, Done, IsCandidate
<1>40. CASE \E l \in Label : EditMoved(l)
  BY <1>40 DEF EditMoved, CommitHolds, Done, IsCandidate
<1>41. CASE \E l \in Label : EditAnew(l)
  BY <1>41 DEF EditAnew, CommitHolds, Done, IsCandidate
<1>42. CASE UNCHANGED vars
  BY <1>42 DEF vars, CommitHolds, Done, IsCandidate
<1> QED
  BY <1>1, <1>2, <1>3, <1>4, <1>5, <1>6, <1>7, <1>8, <1>9, <1>10, <1>11,
     <1>12, <1>13, <1>14, <1>15, <1>16, <1>17, <1>18, <1>19, <1>20, <1>21,
     <1>22, <1>23, <1>24, <1>25, <1>26, <1>27, <1>28, <1>29, <1>30, <1>31,
     <1>32, <1>33, <1>34, <1>35, <1>36, <1>37, <1>38, <1>39, <1>40, <1>41,
     <1>42
     DEF Next, Installer, Begins, Commits, RollsBack, CleansUp, Command

LEMMA ReversibleStep ==
  ASSUME edits = 0, edits' = 0, FileTypes, StepTypes, NumberTypes,
         plan \in Plan, Barrier, JournalFollows, NextFollows,
         IdsFollow, TargetsArePlaced, CommitReached, UndoReached, Reversible, [Next]_vars
  PROVE  Reversible'
<1> USE InstallAssumption DEF Goto, GotoAt, disk, context, history,
        StepTypes, Steps, CommitSteps, UndoSteps, PreSteps, CleanSteps,
        JournalFollows, NumberTypes
<1>1. CASE Acquire
  BY <1>1 DEF Acquire, Reversible, Installed
<1>2. CASE Recover
  BY <1>2 DEF Recover, RecoveryStep, Reversible, Installed
<1>3. CASE Release
  BY <1>3 DEF Release, Reversible, Installed
<1>4. CASE \E targets, removes \in SUBSET Label : MakePlan(targets, removes)
  <2>1. journal' = "none" /\ pc' = "create"
    BY <1>4 DEF MakePlan
  <2> QED
    BY <2>1 DEF Reversible
<1>5. CASE CreateJournal
  BY <1>5 DEF CreateJournal, Reversible, Installed
<1>6. CASE WriteJournal
  BY <1>6 DEF WriteJournal, Reversible, Installed
<1>7. CASE MakeStaging
  BY <1>7 DEF MakeStaging, Reversible, Installed
<1>8. CASE MarkStaging
  BY <1>8 DEF MarkStaging, Reversible, Installed
<1>9. CASE BeginStaging
  BY <1>9 DEF BeginStaging, Reversible, Installed
<1>10. CASE Stage
  <2>1. journal' = "staging" /\ staging = "marked" /\ staging' = staging
    BY <1>10 DEF Stage, Reversible
  <2> QED
    BY <2>1 DEF Reversible
<1>11. CASE AbortStaging
  BY <1>11 DEF AbortStaging, Reversible, Installed
<1>12. CASE StartCommit
  <2>1. staging = "marked" /\ UNCHANGED <<staging, target, plan, tx>> /\ pc' = "directory"
    BY <1>12 DEF StartCommit, Reversible
  <2>2. \A l \in plan.targets : l \in Label /\ AsPlanned(l)
    BY <1>12 DEF StartCommit, PlanStands, Plan
  <2>3. \A l \in plan.targets : target[l] # None => target[l].id # tx
    BY <2>2, PlannedIsOlder
  <2> QED
    BY <2>1, <2>3 DEF Reversible
<1>13. CASE CreateDirectory
  BY <1>13 DEF CreateDirectory, Reversible, Installed, GotoNext, Begin
<1>14. CASE CheckOriginal
  BY <1>14 DEF CheckOriginal, Reversible, Installed
<1>15. CASE BackUp
  <2>1. next \in Label
    BY <1>15 DEF BackUp, NextFollows, CommitSteps, UndoSteps, Plan
  <2>2. next \in plan.targets /\ UNCHANGED <<plan, journal, tx, staging, retried, next>>
    BY <1>15 DEF BackUp, NextFollows
  <2>3. \A l \in Label : l # next => /\ target'[l] = target[l]
                                     /\ candidate[l] = None => candidate'[l] = None
    BY <1>15, <2>1 DEF BackUp, FileTypes, Files
  <2>4. target'[next] = None /\ pc = "backup" /\ pc' = "observe"
    BY <1>15, <2>1 DEF BackUp, FileTypes, Files
  <2>5. plan.targets \subseteq Label
    BY DEF Plan
  <2> QED
    BY <2>2, <2>3, <2>4, <2>5 DEF Reversible, Installed
<1>16. CASE Observe
  BY <1>16 DEF Observe, Reversible, Installed
<1>17. CASE Rebind
  BY <1>17 DEF Rebind, CommitReached
<1>18. CASE PutBack
  BY <1>18 DEF PutBack, CommitReached
<1>19. CASE Redigest
  BY <1>19 DEF Redigest, CommitReached
<1>20. CASE Install
  <2>1. next \in Label
    BY <1>20 DEF Install, NextFollows, CommitSteps, UndoSteps, Plan
  <2>2. next \in plan.targets /\ UNCHANGED <<plan, journal, tx, staging, retried, next>>
    BY <1>20 DEF Install, NextFollows
  <2>3. \A l \in Label : l # next => /\ target'[l] = target[l]
                                     /\ candidate[l] = None => candidate'[l] = None
    BY <1>20, <2>1 DEF Install, FileTypes, Files
  <2>4. /\ target'[next].data = tx /\ candidate'[next] = None
        /\ next \notin plan.removes /\ pc = "install" /\ pc' = "verify"
    BY <1>20, <2>1 DEF Install, IsCandidate, NextFollows, FileTypes, Files
  <2>5. plan.targets \subseteq Label
    BY DEF Plan
  <2> QED
    BY <2>2, <2>3, <2>4, <2>5 DEF Reversible, Installed
<1>21. CASE Verify
  BY <1>21 DEF Verify, Reversible, Installed, GotoNext, Begin
<1>22. CASE Commit
  <2>1. journal' = "committed" /\ pc' = "cleanup"
    BY <1>22 DEF Commit
  <2> QED
    BY <2>1 DEF Reversible
<1>23. CASE FailCommit
  BY <1>23 DEF FailCommit, Reversible, Installed
<1>24. CASE Validate
  BY <1>24 DEF Validate, Reversible, Installed
<1>25. CASE Undo
  BY <1>25 DEF Undo, Reversible, Installed
<1>26. CASE UndoRemove
  <2>1. next \in Label
    BY <1>26 DEF UndoRemove, NextFollows, CommitSteps, UndoSteps, Plan
  <2>2. next \in plan.targets /\ UNCHANGED <<plan, journal, tx, staging, retried, next>>
    BY <1>26 DEF UndoRemove, NextFollows
  <2>3. \A l \in Label : l # next => /\ target'[l] = target[l]
                                     /\ candidate[l] = None => candidate'[l] = None
    BY <1>26, <2>1 DEF UndoRemove, FileTypes, Files
  <2>4. candidate' = candidate /\ pc = "removing" /\ pc' # "unstaged"
    BY <1>26 DEF UndoRemove
  <2>5. plan.targets \subseteq Label
    BY DEF Plan
  <2>6. target'[next] # None => pc' = "removing"
    BY <1>26, <2>1 DEF UndoRemove, FileTypes, Files
  <2>7. target[next] # None /\ target[next].id = tx
    BY <1>26 DEF UndoRemove
  <2>8. pc' \notin {"marked", "staged", "ready"}
    BY <1>26 DEF UndoRemove
  <2> QED
    BY <2>2, <2>3, <2>4, <2>5, <2>6, <2>7, <2>8 DEF Reversible, Installed
<1>27. CASE UndoRestore
  <2>1. next \in Label
    BY <1>27 DEF UndoRestore, NextFollows, CommitSteps, UndoSteps, Plan
  <2>2. next \in plan.targets /\ UNCHANGED <<plan, journal, tx, staging, retried, next>>
    BY <1>27 DEF UndoRestore, NextFollows
  <2>3. \A l \in Label : l # next => /\ target'[l] = target[l]
                                     /\ candidate[l] = None => candidate'[l] = None
    BY <1>27, <2>1 DEF UndoRestore, FileTypes, Files
  <2>4. pc = "restoring" /\ pc' = "restored" /\ journal = "committing" /\ target[next] = None
    BY <1>27 DEF UndoRestore
  <2>5. plan.targets \subseteq Label
    BY DEF Plan
  <2>6. target'[next] = backup[next]
    BY <1>27, <2>1 DEF UndoRestore, FileTypes, Files
  <2>7. SameFile(backup[next], Original(next))
    BY <2>2, <2>4, BackupIsOriginal
  <2>8. backup[next] # None => backup[next].id = Original(next).id /\ Original(next) # None
    BY <2>7 DEF SameFile, Matches, SameIdentity
  <2>9. Original(next) # None => Original(next).id < tx /\ Original(next).id \in Int
    BY <2>1, FileIsFile DEF IdsFollow, Original, Plan
  <2>10. target'[next] # None => target'[next].id # tx
    BY <2>6, <2>8, <2>9
  <2> QED
    BY <2>2, <2>3, <2>4, <2>5, <2>10 DEF Reversible, Installed
<1>28. CASE UndoRestored
  BY <1>28 DEF UndoRestored, Reversible, Installed
<1>29. CASE UndoRefused
  BY <1>29 DEF UndoRefused, UndoReached, Reversible, Installed
<1>30. CASE UndoDirectory
  BY <1>30 DEF UndoDirectory, Reversible, Installed
<1>31. CASE EmptyStaging
  <2>1. plan.targets \subseteq Label
    BY DEF Plan
  <2> QED
    BY <1>31, <2>1 DEF EmptyStaging, Reversible, Installed, Nothing
<1>32. CASE RemoveStaging
  BY <1>32 DEF RemoveStaging, Reversible, Installed
<1>33. CASE RemoveJournal
  BY <1>33 DEF RemoveJournal, Reversible, Installed
<1>34. CASE Crash
  BY <1>34 DEF Crash, Reversible, Installed
<1>35. CASE \E c \in Commands : Lock(c)
  BY <1>35 DEF Lock, Reversible, Installed
<1>36. CASE \E c \in Commands : Enter(c)
  BY <1>36 DEF Enter, Reversible, Installed
<1>37. CASE \E c \in Commands : WritePrivate(c)
  <2>1. pc = "idle" /\ journal = "none" /\ UNCHANGED <<pc, journal>>
    BY <1>37 DEF WritePrivate, Barrier, CommandsAreBarred, Free
  <2> QED
    BY <2>1 DEF Reversible
<1>38. CASE \E c \in Commands : Leave(c)
  BY <1>38 DEF Leave, Reversible, Installed
<1>39. CASE \E l \in Label : EditInPlace(l)
  BY <1>39 DEF EditInPlace, Reversible, Installed
<1>40. CASE \E l \in Label : EditMoved(l)
  BY <1>40 DEF EditMoved, Reversible, Installed
<1>41. CASE \E l \in Label : EditAnew(l)
  BY <1>41 DEF EditAnew, Reversible, Installed
<1>42. CASE UNCHANGED vars
  BY <1>42 DEF vars, Reversible, Installed
<1> QED
  BY <1>1, <1>2, <1>3, <1>4, <1>5, <1>6, <1>7, <1>8, <1>9, <1>10, <1>11,
     <1>12, <1>13, <1>14, <1>15, <1>16, <1>17, <1>18, <1>19, <1>20, <1>21,
     <1>22, <1>23, <1>24, <1>25, <1>26, <1>27, <1>28, <1>29, <1>30, <1>31,
     <1>32, <1>33, <1>34, <1>35, <1>36, <1>37, <1>38, <1>39, <1>40, <1>41,
     <1>42
     DEF Next, Installer, Begins, Commits, RollsBack, CleansUp, Command

LEMMA RefusalHasCauseStep ==
  ASSUME edits = 0, edits' = 0, FileTypes, StepTypes, NumberTypes,
         plan \in Plan, Barrier, JournalFollows, NextFollows,
         IdsFollow, TargetsArePlaced, UndoReached, NewDirectory, Reversible, UndoReady,
         CommitHolds, RefusalHasCause, [Next]_vars
  PROVE  RefusalHasCause'
<1> USE InstallAssumption DEF Goto, GotoAt, disk, context, history,
        StepTypes, Steps, CommitSteps, UndoSteps, PreSteps, CleanSteps,
        JournalFollows, NumberTypes
<1>1. CASE Acquire
  BY <1>1 DEF Acquire, RefusalHasCause
<1>2. CASE Recover
  <2>1. journal = "committed" => CommitStands
    BY DEF CommitHolds, Done, CommitStands
  <2> QED
    BY <1>2, <2>1 DEF Recover, RecoveryStep, RefusalHasCause
<1>3. CASE Release
  BY <1>3 DEF Release, RefusalHasCause
<1>4. CASE \E targets, removes \in SUBSET Label : MakePlan(targets, removes)
  BY <1>4 DEF MakePlan, RefusalHasCause
<1>5. CASE CreateJournal
  BY <1>5 DEF CreateJournal, RefusalHasCause
<1>6. CASE WriteJournal
  BY <1>6 DEF WriteJournal, RefusalHasCause
<1>7. CASE MakeStaging
  BY <1>7 DEF MakeStaging, RefusalHasCause
<1>8. CASE MarkStaging
  BY <1>8 DEF MarkStaging, RefusalHasCause
<1>9. CASE BeginStaging
  BY <1>9 DEF BeginStaging, RefusalHasCause
<1>10. CASE Stage
  BY <1>10 DEF Stage, RefusalHasCause
<1>11. CASE AbortStaging
  BY <1>11 DEF AbortStaging, RefusalHasCause
<1>12. CASE StartCommit
  BY <1>12 DEF StartCommit, RefusalHasCause
<1>13. CASE CreateDirectory
  BY <1>13 DEF CreateDirectory, RefusalHasCause, GotoNext, Begin
<1>14. CASE CheckOriginal
  BY <1>14 DEF CheckOriginal, RefusalHasCause
<1>15. CASE BackUp
  BY <1>15 DEF BackUp, RefusalHasCause
<1>16. CASE Observe
  BY <1>16 DEF Observe, RefusalHasCause
<1>17. CASE Rebind
  BY <1>17 DEF Rebind, RefusalHasCause
<1>18. CASE PutBack
  BY <1>18 DEF PutBack, RefusalHasCause
<1>19. CASE Redigest
  BY <1>19 DEF Redigest, RefusalHasCause
<1>20. CASE Install
  BY <1>20 DEF Install, RefusalHasCause
<1>21. CASE Verify
  BY <1>21 DEF Verify, RefusalHasCause, GotoNext, Begin
<1>22. CASE Commit
  BY <1>22 DEF Commit, RefusalHasCause
<1>23. CASE FailCommit
  BY <1>23 DEF FailCommit, RefusalHasCause
<1>24. CASE Validate
  <2>1. pc = "validate" /\ journal = "committing" /\ UNCHANGED <<journal, retried>>
    BY <1>24 DEF Validate
  <2>2. ~retried => staging = "marked" /\ \A l \in plan.targets : Undoable(l)
    BY <2>1, CommitIsUndoable DEF Reversible
  <2> QED
    BY <1>24, <2>1, <2>2 DEF Validate, RefusalHasCause
<1>25. CASE Undo
  <2>1. pc = "undo" /\ journal = "committing" /\ UNCHANGED <<journal, retried>>
    BY <1>25 DEF Undo
  <2>2. ~retried /\ next \in plan.targets => Undoable(next)
    BY <2>1, CommitIsUndoable
  <2> QED
    BY <1>25, <2>1, <2>2 DEF Undo, RefusalHasCause
<1>26. CASE UndoRemove
  BY <1>26 DEF UndoRemove, RefusalHasCause
<1>27. CASE UndoRestore
  BY <1>27 DEF UndoRestore, RefusalHasCause
<1>28. CASE UndoRestored
  BY <1>28 DEF UndoRestored, RefusalHasCause
<1>29. CASE UndoRefused
  <2>1. pc = "undo" /\ next = 0 /\ plan.creates /\ root /\ target # Nothing
    BY <1>29 DEF UndoRefused, UndoReached, UndoReady
  <2>2. journal = "committing"
    BY <2>1
  <2>3. \A l \in plan.targets : l > next
    BY <2>1 DEF Plan, Label
  <2>4. \A l \in Label : target[l] = None
    BY <2>1, <2>2, <2>3 DEF NewDirectory, UndoReached, AsPlanned, SameFile, Matches, SameIdentity
  <2>5. target = Nothing
    BY <2>4 DEF FileTypes, Files, Nothing
  <2> QED
    BY <2>1, <2>5
<1>30. CASE UndoDirectory
  BY <1>30 DEF UndoDirectory, RefusalHasCause
<1>31. CASE EmptyStaging
  BY <1>31 DEF EmptyStaging, RefusalHasCause
<1>32. CASE RemoveStaging
  BY <1>32 DEF RemoveStaging, RefusalHasCause
<1>33. CASE RemoveJournal
  BY <1>33 DEF RemoveJournal, RefusalHasCause
<1>34. CASE Crash
  BY <1>34 DEF Crash, RefusalHasCause
<1>35. CASE \E c \in Commands : Lock(c)
  BY <1>35 DEF Lock, RefusalHasCause
<1>36. CASE \E c \in Commands : Enter(c)
  BY <1>36 DEF Enter, RefusalHasCause
<1>37. CASE \E c \in Commands : WritePrivate(c)
  <2>1. pc = "idle" /\ journal = "none" /\ UNCHANGED <<pc, journal>>
    BY <1>37 DEF WritePrivate, Barrier, CommandsAreBarred, Free
  <2> QED
    BY <2>1 DEF RefusalHasCause
<1>38. CASE \E c \in Commands : Leave(c)
  BY <1>38 DEF Leave, RefusalHasCause
<1>39. CASE \E l \in Label : EditInPlace(l)
  BY <1>39 DEF EditInPlace, RefusalHasCause
<1>40. CASE \E l \in Label : EditMoved(l)
  BY <1>40 DEF EditMoved, RefusalHasCause
<1>41. CASE \E l \in Label : EditAnew(l)
  BY <1>41 DEF EditAnew, RefusalHasCause
<1>42. CASE UNCHANGED vars
  BY <1>42 DEF vars, RefusalHasCause
<1> QED
  BY <1>1, <1>2, <1>3, <1>4, <1>5, <1>6, <1>7, <1>8, <1>9, <1>10, <1>11,
     <1>12, <1>13, <1>14, <1>15, <1>16, <1>17, <1>18, <1>19, <1>20, <1>21,
     <1>22, <1>23, <1>24, <1>25, <1>26, <1>27, <1>28, <1>29, <1>30, <1>31,
     <1>32, <1>33, <1>34, <1>35, <1>36, <1>37, <1>38, <1>39, <1>40, <1>41,
     <1>42
     DEF Next, Installer, Begins, Commits, RollsBack, CleansUp, Command

LEMMA InitiallySInv == Init => SInv
<1> SUFFICES ASSUME Init PROVE SInv
  OBVIOUS
<1> USE DEF Init
<1>1. Nothing \in [Label -> {None}] /\ \A l \in Label : Original(l) = None
  BY DEF Nothing, Original
<1>2. \A l \in Label : target[l] # None => target[l].id = 0 /\ target[l].private = 0
  BY DEF Init
<1>3. IdsFollow
  BY <1>1, <1>2 DEF IdsFollow
<1>4. BackupsFollow
  BY DEF BackupsFollow, BackupsAreStaged, UndoSteps, CleanSteps
<1>5. RootFollows /\ CandidatesFollow
  BY DEF RootFollows, CandidatesFollow, CommitSteps
<1>6. PrivateFollows
  BY <1>1, <1>2, FirstIsLabel DEF PrivateFollows
<1>7. NewDirectory /\ Reversible /\ UndoReady /\ CommitHolds /\ RefusalHasCause
  BY DEF NewDirectory, Reversible, UndoReady, CommitHolds, RefusalHasCause
<1> QED
  BY <1>3, <1>4, <1>5, <1>6, <1>7 DEF SInv

LEMMA SInvStep == IInv /\ SInv /\ [Next]_vars => SInv'
<1> SUFFICES ASSUME IInv, SInv, [Next]_vars PROVE SInv'
  OBVIOUS
<1>1. /\ FileTypes /\ StepTypes /\ NumberTypes /\ plan \in Plan
      /\ Barrier /\ JournalFollows /\ NextFollows
  BY TypesTogether DEF IInv
<1>2. IdsFollow /\ BackupsFollow /\ RootFollows /\ CandidatesFollow
  BY DEF SInv
<1>3. IdsFollow' /\ BackupsFollow' /\ RootFollows' /\ CandidatesFollow'
  BY <1>1, <1>2, IdsFollowStep, BackupsFollowStep, RootFollowsStep, CandidatesFollowStep
<1>4. ASSUME edits' = 0
      PROVE  PrivateFollows' /\ NewDirectory' /\ Reversible' /\ UndoReady' /\ CommitHolds'
                /\ RefusalHasCause'
  <2>1. edits = 0
    BY <1>1, <1>4, EditsAreKept
  <2>2. InstalledStands /\ TargetsArePlaced /\ CommitReached /\ UndoReached
    BY <2>1 DEF IInv, Undisturbed
  <2>3. PrivateFollows /\ NewDirectory /\ Reversible /\ UndoReady /\ CommitHolds /\ RefusalHasCause
    BY <2>1 DEF SInv
  <2>4. PrivateFollows'
    BY <1>1, <1>2, <1>4, <2>1, <2>2, <2>3, PrivateFollowsStep
  <2>5. NewDirectory'
    BY <1>1, <1>2, <1>4, <2>1, <2>2, <2>3, NewDirectoryStep
  <2>6. Reversible'
    BY <1>1, <1>2, <1>4, <2>1, <2>2, <2>3, ReversibleStep
  <2>7. UndoReady'
    BY <1>1, <1>2, <1>4, <2>1, <2>2, <2>3, UndoReadyStep
  <2>8. CommitHolds'
    BY <1>1, <1>2, <1>4, <2>1, <2>2, <2>3, CommitHoldsStep
  <2>9. RefusalHasCause'
    BY <1>1, <1>2, <1>4, <2>1, <2>2, <2>3, RefusalHasCauseStep
  <2> QED
    BY <2>4, <2>5, <2>6, <2>7, <2>8, <2>9
<1> QED
  BY <1>3, <1>4 DEF SInv

\* The second inductive invariant, which rests on the first.
THEOREM Strengthened == Spec => [](IInv /\ SInv)
<1>1. Init => IInv /\ SInv
  BY InitiallyIInv, InitiallySInv
<1>2. IInv /\ SInv /\ [Next]_vars => (IInv /\ SInv)'
  BY IInvStep, SInvStep
<1> QED
  BY <1>1, <1>2, PTL DEF Spec

\* No private write of a command is lost by an update, a failure or a rollback.
THEOREM PrivateStateSurvives == Spec => []PrivateKept
<1>1. IInv /\ SInv => PrivateKept
  BY DEF SInv, PrivateFollows, PrivateKept
<1> QED
  BY <1>1, Strengthened, PTL

\* What a first commit leaves behind is never refused unless a user edited it.
THEOREM RefusalsAreCaused == Spec => []RefusalHasCause
<1>1. IInv /\ SInv => RefusalHasCause
  BY DEF IInv, TypeOK, SInv, RefusalHasCause
<1> QED
  BY <1>1, Strengthened, PTL

\* No step of the installer destroys the predecessor of a target before it commits.
THEOREM PredecessorsSurvive == Spec => PredecessorKept
<1> DEFINE Keeps == \A l \in Label :
       journal = "committing" /\ HasOriginal(l) /\ edits' = edits => HasOriginal(l)'
<1>1. IInv /\ SInv /\ [Next]_vars => [Keeps]_vars
  <2> SUFFICES ASSUME IInv, SInv, [Next]_vars PROVE Keeps
    OBVIOUS
  <2>1. /\ FileTypes /\ StepTypes /\ NumberTypes /\ plan \in Plan
        /\ Barrier /\ JournalFollows /\ NextFollows
    BY TypesTogether DEF IInv
  <2>2. IdsFollow /\ BackupsFollow
    BY DEF SInv
  <2> QED
    BY <2>1, <2>2, OriginalStep
<1> QED
  BY <1>1, Strengthened, PTL DEF Spec, PredecessorKept
=============================================================================
