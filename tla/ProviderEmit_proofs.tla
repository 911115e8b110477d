--------------------------- MODULE ProviderEmit_proofs ---------------------------
(***************************************************************************)
(* Proofs about ProviderEmit, for any number of files, saves, deaths and   *)
(* rounds of the contest: the last word on a path is never lost, and what  *)
(* an emission leaves without a journal is settled.                        *)
(***************************************************************************)
EXTENDS ProviderEmit, TLAPS

(***************************************************************************)
(* The invariant.                                                          *)
(***************************************************************************)
\* What there may be under a name by now.
Body == (0..saves) \cup {Generated, None}

Stored ==
    /\ saves \in 0..MaxSaves /\ crashes \in 0..MaxCrashes
    /\ target \in [Items -> Body] /\ stage \in [Items -> Body] /\ latest \in [Items -> Body]
    /\ aside \in [Items -> SUBSET (Body \ {None})]
    /\ journal \in Journals \cup {None}
    /\ journal # None => journal.expected \in [Items -> Body]

Remembered ==
    /\ DOMAIN local = {"at", "undoing", "expected", "candidate", "tries", "held", "next", "plan"}
    /\ local.at \in Int
    /\ local.expected \in Body /\ local.candidate \in Body /\ local.held \in Body
    /\ local.plan \in [Items -> Body]

\* Past the point where all files are proved, and before it.
AllFinal == journal # None /\ \A i \in Items : journal.state[i] \in {"finalizing", "cleaned"}
Open == journal # None /\ ~AllFinal

\* Each path.  What a user wrote stands in one place.
Alone(i) ==
    \A n \in 0..saves :
        /\ ~(target[i] = n /\ stage[i] = n)
        /\ n \in aside[i] => target[i] # n /\ stage[i] # n

Kept(i) == latest[i] # None => latest[i] \in {target[i], stage[i]} \cup aside[i]

\* Where the generated bytes are the last word, they are in place, and were before.
Emitted(i) ==
    latest[i] = Generated =>
        /\ target[i] = Generated
        /\ Open => journal.expected[i] = Generated /\ stage[i] \in {Generated, None}

\* Generated bytes that are not the last word stand in one place.
Single(i) == Open /\ target[i] = Generated /\ stage[i] = Generated => latest[i] = Generated

\* Nothing is displaced where nothing was.
New(i) == journal # None /\ journal.expected[i] = None => stage[i] \in {Generated, None}

\* The last word is not in the stage, or only behind the generated file.
Unstaged(i) == stage[i] \in Nat => stage[i] # latest[i]
Behind(i) == stage[i] \in Nat /\ stage[i] = latest[i] => target[i] = Generated

Plain(i) == target[i] = Generated => latest[i] = Generated
Clear(i) == stage[i] = None /\ Plain(i)

PathKept(i) ==
    /\ Alone(i) /\ Kept(i) /\ Emitted(i) /\ Single(i) /\ New(i)
    /\ journal = None => Clear(i)
    /\ AllFinal => Unstaged(i) /\ Plain(i)

\* The contest with a writer: where the last word is, before an exchange and after it.
Elsewhere == latest[t] \notin {target[t], stage[t]}

ToSwap ==
    /\ stage[t] = local.candidate
    /\ \/ target[t] = local.expected /\ latest[t] = stage[t]
       \/ target[t] # local.expected /\ latest[t] = target[t]
       \/ /\ Elsewhere
          /\ stage[t] = Generated => target[t] # local.expected
          /\ target[t] = Generated => local.expected = Generated

ToJudge ==
    /\ local.candidate # None
    /\ \/ target[t] = local.candidate /\ stage[t] = local.expected /\ latest[t] = target[t]
       \/ target[t] = local.candidate /\ stage[t] # local.expected /\ latest[t] = stage[t]
       \/ target[t] # local.candidate /\ target[t] # Generated /\ latest[t] = target[t]
       \/ /\ Elsewhere
          /\ target[t] = Generated => target[t] = local.candidate /\ stage[t] # local.expected
          /\ stage[t] = Generated => stage[t] = local.expected

\* The command, by what it does next.
Committing == {"commit", "compare", "confirm", "final", "finalize"}
Contending == {"back", "restored", "swap", "judge"}
Removing == {"drop", "unlink"}

Undoing == \/ pc \in {"undo", "take", "taken", "leftover"}
           \/ pc \in {"swap", "judge"} \cup Removing /\ local.next \in {"undo", "leftover"}
Finishing == pc \in {"finish", "clean"} \/ (pc \in Removing /\ local.next = "clean")

Placed ==
    /\ pc \notin {"idle", "prepare"} => journal # None
    /\ pc \notin {"idle", "prepare", "recover", "final", "finalize", "undo", "finish"} => t \in Items

CommitKept ==
    /\ pc = "prepare" => journal = None
    /\ pc = "prepare" => \A i \in Items : latest[i] = Generated => local.plan[i] = Generated
    /\ pc \in Committing => Open /\ \A i \in Items : Behind(i)
    /\ pc = "commit" => \A i \in t..Size : stage[i] = Generated
    /\ pc \in {"compare", "confirm"} => \A i \in (t + 1)..Size : stage[i] = Generated

ContestKept ==
    /\ pc \in Contending \cup {"compare"} => Open /\ stage[t] # None /\ journal.expected[t] # None
    /\ pc \in Contending => local.expected # None
    /\ pc = "back" => stage[t] = local.expected /\ (latest[t] = local.expected => target[t] = Generated)
    /\ pc = "restored" /\ target[t] = local.expected /\ stage[t] # Generated => latest[t] # target[t]
    /\ pc = "swap" => ToSwap
    /\ pc = "judge" => ToJudge
    /\ pc \in {"swap", "judge"} => local.next \in {"undo", "recover"}

RemovalKept ==
    /\ pc \in Removing => local.next \in {"undo", "recover", "clean", "leftover"}
    /\ pc = "drop" => stage[t] # None /\ Unstaged(t) /\ local.next # "leftover"
    /\ pc = "unlink" /\ local.held \in Nat => local.held # latest[t]
    /\ pc = "unlink" /\ local.next # "leftover" => stage[t] = None

UndoKept ==
    /\ Undoing => Open /\ t \in 0..Size /\ \A i \in (t + 1)..Size : Clear(i)
    /\ pc \in Removing /\ local.next \in {"undo", "leftover"} => Plain(t)
    /\ pc \in {"take", "taken", "leftover"} => journal.expected[t] = None
    /\ pc \in Removing /\ local.next = "leftover" => journal.expected[t] = None
    /\ pc = "leftover" => Plain(t)
    /\ pc = "taken" => local.held \in aside[t] /\ local.held # None /\ target[t] # Generated

FinishKept ==
    /\ Finishing => AllFinal /\ t \in 1..(Size + 1) /\ \A i \in 1..(t - 1) : stage[i] = None
    /\ pc = "clean" => stage[t] = None

CommandKept == Placed /\ CommitKept /\ ContestKept /\ RemovalKept /\ UndoKept /\ FinishKept

IInv == Stored /\ Remembered /\ (\A i \in Items : PathKept(i)) /\ CommandKept

(***************************************************************************)
(* What all steps have in common.                                          *)
(***************************************************************************)
\* User bytes are numbers, the generated ones and a missing file are not.
LEMMA Distinct ==
    /\ None # Generated /\ Generated \notin Nat /\ None \notin Nat
    /\ Size \in Nat /\ Size # 0 /\ MaxSaves \in Nat /\ MaxTries \in Nat /\ MaxCrashes \in Nat
    /\ None \notin Journals
  BY ProviderAssumption

LEMMA NobodyIs ==
    /\ DOMAIN Nobody = {"at", "undoing", "expected", "candidate", "tries", "held", "next", "plan"}
    /\ Nobody.at = 0 /\ Nobody.next = "idle"
    /\ Nobody.expected = None /\ Nobody.candidate = None /\ Nobody.held = None
    /\ Nobody.plan = [i \in Items |-> None]
  BY DEF Nobody

\* A step that touches no file and no journal leaves every path as it was.
LEMMA PathsStand ==
    ASSUME \A i \in Items : PathKept(i),
           UNCHANGED <<journal, target, stage, aside, latest, saves>>
    PROVE  \A i \in Items : PathKept(i)'
  BY DEF PathKept, Alone, Kept, Emitted, Single, New, Unstaged, Plain, Clear, AllFinal, Open

LEMMA StoredStands ==
    ASSUME Stored, UNCHANGED <<journal, target, stage, aside, latest, saves, crashes>>
    PROVE  Stored'
  BY DEF Stored, Body

\* A command that stops, or starts to recover, has nothing to keep.
LEMMA StopKeeps ==
    ASSUME Stored, saves' = saves, pc' \in {"idle", "recover"}, local' = Nobody,
           pc' = "recover" => journal' # None
    PROVE  Remembered' /\ CommandKept'
  <1>1. Remembered'
    BY NobodyIs, Distinct DEF Remembered, Stored, Body
  <1>2. CommandKept'
    BY DEF CommandKept, Placed, CommitKept, Committing, ContestKept, Contending, RemovalKept,
           Removing, UndoKept, Undoing, FinishKept, Finishing
  <1> QED
    BY <1>1, <1>2

\* Most steps touch the path at hand alone.
LEMMA OthersStand ==
    ASSUME NEW i \in Items, PathKept(i), UNCHANGED <<journal, saves>>,
           target'[i] = target[i], stage'[i] = stage[i], aside'[i] = aside[i], latest'[i] = latest[i]
    PROVE  PathKept(i)'
  BY DEF PathKept, Alone, Kept, Emitted, Single, New, Unstaged, Plain, Clear, AllFinal, Open

\* An exchange of two files of a path keeps what the path is kept by.
LEMMA ExchangeKeeps ==
    ASSUME Stored, \A i \in Items : PathKept(i), t \in Items, Open, stage[t] # None, Exchange,
           journal.expected[t] = None => target[t] = None /\ stage[t] = Generated,
           UNCHANGED <<journal, aside, latest, saves, crashes>>
    PROVE  /\ Stored'
           /\ \A i \in Items : PathKept(i)'
           /\ target'[t] = stage[t] /\ stage'[t] = target[t]
           /\ \A i \in Items : i # t => target'[i] = target[i] /\ stage'[i] = stage[i]
           /\ Open' /\ ~AllFinal'
  <1> USE Distinct
  <1>1. /\ target'[t] = stage[t] /\ stage'[t] = target[t]
        /\ \A i \in Items : i # t => target'[i] = target[i] /\ stage'[i] = stage[i]
    BY DEF Exchange, Stored, t
  <1>2. Stored'
    BY DEF Exchange, Stored, Body, t
  <1>3. Open' /\ ~AllFinal' /\ ~AllFinal /\ journal # None /\ journal' = journal
    BY DEF Open, AllFinal
  <1>4. ASSUME NEW i \in Items, i = t PROVE PathKept(i)'
    <2>1. PathKept(i) /\ target'[i] = stage[i] /\ stage'[i] = target[i] /\ stage[i] # None
      BY <1>1, <1>4
    <2>2. Alone(i)' /\ Kept(i)'
      BY <2>1 DEF PathKept, Alone, Kept
    <2>3. Emitted(i)' /\ Single(i)' /\ New(i)'
      BY <2>1, <1>3, <1>4 DEF PathKept, Emitted, Single, New
    <2> QED
      BY <2>2, <2>3, <1>3 DEF PathKept
  <1>5. ASSUME NEW i \in Items, i # t PROVE PathKept(i)'
    BY <1>1, <1>5, OthersStand
  <1> QED
    BY <1>1, <1>2, <1>3, <1>4, <1>5

(***************************************************************************)
(* The steps.  First those that touch no file and no journal.              *)
(***************************************************************************)
LEMMA PlanKeeps ==
    ASSUME IInv, Plan
    PROVE  IInv'
  <1> USE Distinct DEF t, Items
  <1>1. Stored /\ Remembered /\ CommandKept /\ \A i \in Items : PathKept(i)
    BY DEF IInv
  <1>2. /\ pc = "idle" /\ journal = None /\ \A i \in Items : latest[i] = Generated => target[i] = Generated
    BY <1>1
       DEF CommandKept, Placed, CommitKept, Committing, ContestKept, Contending,
           RemovalKept, Removing, UndoKept, Undoing, FinishKept, Finishing, Plan, PathKept,
           Emitted
  <1>3. Stored' /\ \A i \in Items : PathKept(i)'
    BY <1>1, PathsStand, StoredStands DEF Plan
  <1>4. Open' = Open /\ AllFinal' = AllFinal
    BY DEF Open, AllFinal, Plan
  <1>5. Remembered' /\ CommandKept'
    <2>1. Remembered'
      BY <1>1, <1>2, NobodyIs DEF Remembered, Stored, Body, Plan
    <2>2. CommandKept'
      BY <1>1, <1>2, <1>3, <1>4, NobodyIs
         DEF CommandKept, Placed, CommitKept, Committing, ContestKept, Contending,
             RemovalKept, Removing, UndoKept, Undoing, FinishKept, Finishing, Plan
    <2> QED
      BY <2>1, <2>2
  <1> QED
    BY <1>3, <1>5 DEF IInv

LEMMA CompareKeeps ==
    ASSUME IInv, Compare
    PROVE  IInv'
  <1> USE Distinct DEF t, Items
  <1>1. Stored /\ Remembered /\ CommandKept /\ \A i \in Items : PathKept(i)
    BY DEF IInv
  <1>2. /\ pc = "compare" /\ Open /\ t \in Items /\ stage[t] # None
        /\ journal.expected[t] # None
        /\ (\A i \in Items : Behind(i)) /\ \A i \in (t + 1)..Size : stage[i] = Generated
    BY <1>1
       DEF CommandKept, Placed, CommitKept, Committing, ContestKept, Contending,
           RemovalKept, Removing, UndoKept, Undoing, FinishKept, Finishing, Compare
  <1>3. Stored' /\ \A i \in Items : PathKept(i)'
    BY <1>1, PathsStand, StoredStands DEF Compare, Goto, Done, Failed
  <1>4. Open' = Open /\ AllFinal' = AllFinal
    BY DEF Open, AllFinal, Compare
  <1>5. Remembered' /\ CommandKept'
    <2>1. CASE pc' \in {"idle", "recover"} /\ local' = Nobody
      BY <1>1, <1>2, <2>1, StopKeeps DEF Compare, Open, AllFinal, Goto, Done, Failed
    <2>2. CASE pc' = "confirm" /\ local' = local
      <3>1. Remembered'
        BY <1>1, <1>2, <2>2, NobodyIs DEF Remembered, Stored, Body, Compare, Goto, Done, Failed
      <3>2. CommandKept'
        BY <1>1, <1>2, <1>3, <1>4, <2>2, NobodyIs
           DEF CommandKept, Placed, CommitKept, Committing, ContestKept, Contending,
               RemovalKept, Removing, UndoKept, Undoing, FinishKept, Finishing, Compare,
               Behind
      <3> QED
        BY <3>1, <3>2
    <2>3. CASE /\ target[t] = Generated /\ pc' = "back"
               /\ local' = [local EXCEPT !.expected = stage[t]]
      <3>1. Remembered'
        BY <1>1, <1>2, <2>3, NobodyIs DEF Remembered, Stored, Body, Compare, Goto, Done, Failed
      <3>2. CommandKept'
        BY <1>1, <1>2, <1>3, <1>4, <2>3, NobodyIs
           DEF CommandKept, Placed, CommitKept, Committing, ContestKept, Contending,
               RemovalKept, Removing, UndoKept, Undoing, FinishKept, Finishing, Compare,
               Remembered
      <3> QED
        BY <3>1, <3>2
    <2> QED
      BY <1>2, <2>1, <2>2, <2>3 DEF Compare, Goto, Done, Failed
  <1> QED
    BY <1>3, <1>5 DEF IInv

\* The way back caught a later save: it is in the stage, and the contest is for it.
LEMMA RestoredKeeps ==
    ASSUME IInv, Restored
    PROVE  IInv'
  <1> USE Distinct DEF t, Items
  <1>1. Stored /\ Remembered /\ CommandKept /\ \A i \in Items : PathKept(i)
    BY DEF IInv
  <1>2. /\ pc = "restored" /\ Open /\ t \in Items /\ stage[t] # None
        /\ journal.expected[t] # None
        /\ local.expected # None
        /\ (target[t] = local.expected /\ stage[t] # Generated => latest[t] # target[t])
    BY <1>1
       DEF CommandKept, Placed, CommitKept, Committing, ContestKept, Contending,
           RemovalKept, Removing, UndoKept, Undoing, FinishKept, Finishing, Restored
  <1>3. Stored' /\ \A i \in Items : PathKept(i)'
    BY <1>1, PathsStand, StoredStands DEF Restored, Done, Failed
  <1>4. Open' = Open /\ AllFinal' = AllFinal
    BY DEF Open, AllFinal, Restored
  <1>5. Remembered' /\ CommandKept'
    <2>1. CASE pc' \in {"idle", "recover"} /\ local' = Nobody
      BY <1>1, <1>2, <2>1, StopKeeps DEF Restored, Open, AllFinal, Done, Failed
    <2>2. CASE target[t] = local.expected /\ stage[t] # Generated /\ pc' = "swap"
                 /\ local' = [local EXCEPT !.candidate = stage[t], !.next = "recover"]
      <3>1. Remembered'
        BY <1>1, <1>2, <2>2, NobodyIs DEF Remembered, Stored, Body, Restored, Done, Failed
      <3>2. CommandKept'
        BY <1>1, <1>2, <1>3, <1>4, <2>2, NobodyIs
           DEF CommandKept, Placed, CommitKept, Committing, ContestKept, Contending,
               RemovalKept, Removing, UndoKept, Undoing, FinishKept, Finishing, Restored,
               Remembered, ToSwap, Elsewhere
      <3> QED
        BY <3>1, <3>2
    <2> QED
      BY <1>2, <2>1, <2>2 DEF Restored, Done, Failed
  <1> QED
    BY <1>3, <1>5 DEF IInv

LEMMA FinalKeeps ==
    ASSUME IInv, Final
    PROVE  IInv'
  <1> USE Distinct DEF t, Items
  <1>1. Stored /\ Remembered /\ CommandKept /\ \A i \in Items : PathKept(i)
    BY DEF IInv
  <1>2. /\ pc = "final" /\ Open /\ \A i \in Items : Behind(i)
    BY <1>1
       DEF CommandKept, Placed, CommitKept, Committing, ContestKept, Contending,
           RemovalKept, Removing, UndoKept, Undoing, FinishKept, Finishing, Final
  <1>3. Stored' /\ \A i \in Items : PathKept(i)'
    BY <1>1, PathsStand, StoredStands DEF Final, Goto, Done, Failed
  <1>4. Open' = Open /\ AllFinal' = AllFinal
    BY DEF Open, AllFinal, Final
  <1>5. Remembered' /\ CommandKept'
    <2>1. CASE pc' \in {"idle", "recover"} /\ local' = Nobody
      BY <1>1, <1>2, <2>1, StopKeeps DEF Final, Open, AllFinal, Goto, Done, Failed
    <2>2. CASE pc' = "finalize" /\ local' = local
      <3>1. Remembered'
        BY <1>1, <1>2, <2>2, NobodyIs DEF Remembered, Stored, Body, Final, Goto, Done, Failed
      <3>2. CommandKept'
        BY <1>1, <1>2, <1>3, <1>4, <2>2, NobodyIs
           DEF CommandKept, Placed, CommitKept, Committing, ContestKept, Contending,
               RemovalKept, Removing, UndoKept, Undoing, FinishKept, Finishing, Final,
               Behind
      <3> QED
        BY <3>1, <3>2
    <2> QED
      BY <1>2, <2>1, <2>2 DEF Final, Goto, Done, Failed
  <1> QED
    BY <1>3, <1>5 DEF IInv

\* What the exchange displaced is the transaction's own, or the last word: then it is
\* swapped in once more, and what stands there now is expected.
LEMMA JudgeKeeps ==
    ASSUME IInv, Judge
    PROVE  IInv'
  <1> USE Distinct DEF t, Items
  <1>1. Stored /\ Remembered /\ CommandKept /\ \A i \in Items : PathKept(i)
    BY DEF IInv
  <1>2. /\ pc = "judge" /\ Open /\ t \in Items /\ stage[t] # None /\ journal.expected[t] # None
        /\ ToJudge /\ local.next \in {"undo", "recover"} /\ (local.next = "undo" => \A i \in (t + 1)..Size : Clear(i)) /\ Alone(t)
    BY <1>1
       DEF CommandKept, Placed, CommitKept, Committing, ContestKept, Contending,
           RemovalKept, Removing, UndoKept, Undoing, FinishKept, Finishing, Judge, PathKept
  <1>3. Stored' /\ \A i \in Items : PathKept(i)'
    BY <1>1, PathsStand, StoredStands DEF Judge, Goto
  <1>4. Open' = Open /\ AllFinal' = AllFinal
    BY DEF Open, AllFinal, Judge
  <1>5. Remembered' /\ CommandKept'
    <2>1. CASE /\ (target[t] # local.candidate \/ stage[t] = local.expected) /\ pc' = "drop"
               /\ local' = local
      <3>1. Remembered'
        BY <1>1, <1>2, <2>1, NobodyIs DEF Remembered, Stored, Body, Judge, Goto
      <3>2. CommandKept'
        BY <1>1, <1>2, <1>3, <1>4, <2>1, NobodyIs
           DEF CommandKept, Placed, CommitKept, Committing, ContestKept, Contending,
               RemovalKept, Removing, UndoKept, Undoing, FinishKept, Finishing, Judge,
               Stored, Body, ToJudge, Elsewhere, Unstaged, Plain, Clear, Alone
      <3> QED
        BY <3>1, <3>2
    <2>2. CASE target[t] = local.candidate /\ stage[t] # local.expected /\ pc' = "swap"
                 /\ local' = [local EXCEPT !.expected = target[t], !.candidate = stage[t]]
      <3>1. Remembered'
        BY <1>1, <1>2, <2>2, NobodyIs DEF Remembered, Stored, Body, Judge, Goto
      <3>2. CommandKept'
        BY <1>1, <1>2, <1>3, <1>4, <2>2, NobodyIs
           DEF CommandKept, Placed, CommitKept, Committing, ContestKept, Contending,
               RemovalKept, Removing, UndoKept, Undoing, FinishKept, Finishing, Judge,
               Remembered, ToJudge, ToSwap, Elsewhere, Clear, Plain
      <3> QED
        BY <3>1, <3>2
    <2> QED
      BY <1>2, <2>1, <2>2 DEF Judge, Goto
  <1> QED
    BY <1>3, <1>5 DEF IInv

LEMMA RecoverKeeps ==
    ASSUME IInv, Recover
    PROVE  IInv'
  <1> USE Distinct DEF t, Items
  <1>1. Stored /\ Remembered /\ CommandKept /\ \A i \in Items : PathKept(i)
    BY DEF IInv
  <1>2. /\ pc = "idle" /\ journal # None
    BY <1>1
       DEF CommandKept, Placed, CommitKept, Committing, ContestKept, Contending,
           RemovalKept, Removing, UndoKept, Undoing, FinishKept, Finishing, Recover
  <1>3. Stored' /\ \A i \in Items : PathKept(i)'
    BY <1>1, PathsStand, StoredStands DEF Recover
  <1>4. Open' = Open /\ AllFinal' = AllFinal
    BY DEF Open, AllFinal, Recover
  <1>5. Remembered' /\ CommandKept'
    BY <1>1, <1>2, StopKeeps DEF Recover, Open, AllFinal
  <1> QED
    BY <1>3, <1>5 DEF IInv

LEMMA DirectionKeeps ==
    ASSUME IInv, Direction
    PROVE  IInv'
  <1> USE Distinct DEF t, Items
  <1>1. Stored /\ Remembered /\ CommandKept /\ \A i \in Items : PathKept(i)
    BY DEF IInv
  <1>2. /\ pc = "recover" /\ journal # None
    BY <1>1
       DEF CommandKept, Placed, CommitKept, Committing, ContestKept, Contending,
           RemovalKept, Removing, UndoKept, Undoing, FinishKept, Finishing, Direction
  <1>3. Stored' /\ \A i \in Items : PathKept(i)'
    BY <1>1, PathsStand, StoredStands DEF Direction
  <1>4. Open' = Open /\ AllFinal' = AllFinal
    BY DEF Open, AllFinal, Direction
  <1>5. Remembered' /\ CommandKept'
    <2>1. CASE AllFinal /\ pc' = "finish" /\ local' = [Nobody EXCEPT !.at = 1, !.undoing = TRUE]
      <3>1. Remembered'
        BY <1>1, <1>2, <2>1, NobodyIs DEF Remembered, Stored, Body, Direction
      <3>2. CommandKept'
        BY <1>1, <1>2, <1>3, <1>4, <2>1, NobodyIs
           DEF CommandKept, Placed, CommitKept, Committing, ContestKept, Contending,
               RemovalKept, Removing, UndoKept, Undoing, FinishKept, Finishing, Direction
      <3> QED
        BY <3>1, <3>2
    <2>2. CASE Open /\ pc' = "undo" /\ local' = [Nobody EXCEPT !.at = Size, !.undoing = TRUE]
      <3>1. Remembered'
        BY <1>1, <1>2, <2>2, NobodyIs DEF Remembered, Stored, Body, Direction
      <3>2. CommandKept'
        BY <1>1, <1>2, <1>3, <1>4, <2>2, NobodyIs
           DEF CommandKept, Placed, CommitKept, Committing, ContestKept, Contending,
               RemovalKept, Removing, UndoKept, Undoing, FinishKept, Finishing, Direction
      <3> QED
        BY <3>1, <3>2
    <2> QED
      BY <1>2, <2>1, <2>2 DEF Direction, AllFinal, Open
  <1> QED
    BY <1>3, <1>5 DEF IInv

\* Of the two files of a path the generated one goes, unless they are both the same.
LEMMA UndoExistingKeeps ==
    ASSUME IInv, UndoExisting
    PROVE  IInv'
  <1> USE Distinct DEF t, Items
  <1>1. Stored /\ Remembered /\ CommandKept /\ \A i \in Items : PathKept(i)
    BY DEF IInv
  <1>2. /\ pc = "undo" /\ Open /\ t \in Items /\ journal.expected[t] # None
        /\ (\A i \in (t + 1)..Size : Clear(i)) /\ Emitted(t) /\ Single(t)
    BY <1>1
       DEF CommandKept, Placed, CommitKept, Committing, ContestKept, Contending,
           RemovalKept, Removing, UndoKept, Undoing, FinishKept, Finishing, UndoExisting,
           PathKept
  <1>3. Stored' /\ \A i \in Items : PathKept(i)'
    BY <1>1, PathsStand, StoredStands DEF UndoExisting, GotoItem, Done, NextUndo
  <1>4. Open' = Open /\ AllFinal' = AllFinal
    BY DEF Open, AllFinal, UndoExisting
  <1>5. Remembered' /\ CommandKept'
    <2>1. CASE target[t] = Generated /\ stage[t] # None /\ pc' = "swap"
                 /\ local' = [local EXCEPT !.expected = Generated, !.candidate = stage[t],
                                          !.tries = 0, !.next = "undo"]
      <3>1. Remembered'
        BY <1>1, <1>2, <2>1, NobodyIs
           DEF Remembered, Stored, Body, UndoExisting, GotoItem, Done, NextUndo
      <3>2. CommandKept'
        BY <1>1, <1>2, <1>3, <1>4, <2>1, NobodyIs
           DEF CommandKept, Placed, CommitKept, Committing, ContestKept, Contending,
               RemovalKept, Removing, UndoKept, Undoing, FinishKept, Finishing,
               UndoExisting, Remembered, ToSwap, Elsewhere, Clear, Plain, Emitted, Single
      <3> QED
        BY <3>1, <3>2
    <2>2. CASE /\ target[t] # Generated /\ stage[t] = Generated /\ pc' = "drop"
               /\ local' = [local EXCEPT !.next = "undo"]
      <3>1. Remembered'
        BY <1>1, <1>2, <2>2, NobodyIs
           DEF Remembered, Stored, Body, UndoExisting, GotoItem, Done, NextUndo
      <3>2. CommandKept'
        BY <1>1, <1>2, <1>3, <1>4, <2>2, NobodyIs
           DEF CommandKept, Placed, CommitKept, Committing, ContestKept, Contending,
               RemovalKept, Removing, UndoKept, Undoing, FinishKept, Finishing,
               UndoExisting, Remembered, Unstaged, Clear, Plain
      <3> QED
        BY <3>1, <3>2
    <2>3. CASE /\ target[t] # Generated /\ stage[t] = None /\ pc' = "undo"
               /\ local' = [local EXCEPT !.at = t - 1]
      <3>1. Remembered'
        BY <1>1, <1>2, <2>3, NobodyIs
           DEF Remembered, Stored, Body, UndoExisting, GotoItem, Done, NextUndo
      <3>2. CommandKept'
        BY <1>1, <1>2, <1>3, <1>4, <2>3, NobodyIs
           DEF CommandKept, Placed, CommitKept, Committing, ContestKept, Contending,
               RemovalKept, Removing, UndoKept, Undoing, FinishKept, Finishing,
               UndoExisting, Remembered, Clear, Plain
      <3> QED
        BY <3>1, <3>2
    <2>4. CASE pc' \in {"idle", "recover"} /\ local' = Nobody
      BY <1>1, <1>2, <2>4, StopKeeps DEF UndoExisting, Open, AllFinal, GotoItem, Done, NextUndo
    <2> QED
      BY <1>2, <2>1, <2>2, <2>3, <2>4 DEF UndoExisting, GotoItem, Done, NextUndo
  <1> QED
    BY <1>3, <1>5 DEF IInv

LEMMA UndoAbsentKeeps ==
    ASSUME IInv, UndoAbsent
    PROVE  IInv'
  <1> USE Distinct DEF t, Items
  <1>1. Stored /\ Remembered /\ CommandKept /\ \A i \in Items : PathKept(i)
    BY DEF IInv
  <1>2. /\ pc = "undo" /\ Open /\ t \in Items /\ journal.expected[t] = None
        /\ (\A i \in (t + 1)..Size : Clear(i))
    BY <1>1
       DEF CommandKept, Placed, CommitKept, Committing, ContestKept, Contending,
           RemovalKept, Removing, UndoKept, Undoing, FinishKept, Finishing, UndoAbsent
  <1>3. Stored' /\ \A i \in Items : PathKept(i)'
    BY <1>1, PathsStand, StoredStands DEF UndoAbsent, Goto
  <1>4. Open' = Open /\ AllFinal' = AllFinal
    BY DEF Open, AllFinal, UndoAbsent
  <1>5. Remembered' /\ CommandKept'
    <2>1. CASE pc' = "take" /\ local' = local
      <3>1. Remembered'
        BY <1>1, <1>2, <2>1, NobodyIs DEF Remembered, Stored, Body, UndoAbsent, Goto
      <3>2. CommandKept'
        BY <1>1, <1>2, <1>3, <1>4, <2>1, NobodyIs
           DEF CommandKept, Placed, CommitKept, Committing, ContestKept, Contending,
               RemovalKept, Removing, UndoKept, Undoing, FinishKept, Finishing, UndoAbsent,
               Clear, Plain
      <3> QED
        BY <3>1, <3>2
    <2>2. CASE target[t] # Generated /\ pc' = "leftover" /\ local' = local
      <3>1. Remembered'
        BY <1>1, <1>2, <2>2, NobodyIs DEF Remembered, Stored, Body, UndoAbsent, Goto
      <3>2. CommandKept'
        BY <1>1, <1>2, <1>3, <1>4, <2>2, NobodyIs
           DEF CommandKept, Placed, CommitKept, Committing, ContestKept, Contending,
               RemovalKept, Removing, UndoKept, Undoing, FinishKept, Finishing, UndoAbsent,
               Clear, Plain
      <3> QED
        BY <3>1, <3>2
    <2> QED
      BY <1>2, <2>1, <2>2 DEF UndoAbsent, Goto
  <1> QED
    BY <1>3, <1>5 DEF IInv

LEMMA LeftoverKeeps ==
    ASSUME IInv, Leftover
    PROVE  IInv'
  <1> USE Distinct DEF t, Items
  <1>1. Stored /\ Remembered /\ CommandKept /\ \A i \in Items : PathKept(i)
    BY DEF IInv
  <1>2. /\ pc = "leftover" /\ Open /\ t \in Items /\ journal.expected[t] = None
        /\ (\A i \in (t + 1)..Size : Clear(i)) /\ Plain(t) /\ New(t)
    BY <1>1
       DEF CommandKept, Placed, CommitKept, Committing, ContestKept, Contending,
           RemovalKept, Removing, UndoKept, Undoing, FinishKept, Finishing, Leftover,
           PathKept
  <1>3. Stored' /\ \A i \in Items : PathKept(i)'
    BY <1>1, PathsStand, StoredStands DEF Leftover, GotoItem, NextUndo
  <1>4. Open' = Open /\ AllFinal' = AllFinal
    BY DEF Open, AllFinal, Leftover
  <1>5. Remembered' /\ CommandKept'
    <2>1. CASE stage[t] = Generated /\ pc' = "drop" /\ local' = [local EXCEPT !.next = "undo"]
      <3>1. Remembered'
        BY <1>1, <1>2, <2>1, NobodyIs DEF Remembered, Stored, Body, Leftover, GotoItem, NextUndo
      <3>2. CommandKept'
        BY <1>1, <1>2, <1>3, <1>4, <2>1, NobodyIs
           DEF CommandKept, Placed, CommitKept, Committing, ContestKept, Contending,
               RemovalKept, Removing, UndoKept, Undoing, FinishKept, Finishing, Leftover,
               Remembered, Unstaged, Clear, Plain
      <3> QED
        BY <3>1, <3>2
    <2>2. CASE stage[t] # Generated /\ pc' = "undo" /\ local' = [local EXCEPT !.at = t - 1]
      <3>1. Remembered'
        BY <1>1, <1>2, <2>2, NobodyIs DEF Remembered, Stored, Body, Leftover, GotoItem, NextUndo
      <3>2. CommandKept'
        BY <1>1, <1>2, <1>3, <1>4, <2>2, NobodyIs
           DEF CommandKept, Placed, CommitKept, Committing, ContestKept, Contending,
               RemovalKept, Removing, UndoKept, Undoing, FinishKept, Finishing, Leftover,
               Remembered, New, Open, Clear, Plain
      <3> QED
        BY <3>1, <3>2
    <2> QED
      BY <1>2, <2>1, <2>2 DEF Leftover, GotoItem, NextUndo
  <1> QED
    BY <1>3, <1>5 DEF IInv

LEMMA FinishKeeps ==
    ASSUME IInv, Finish
    PROVE  IInv'
  <1> USE Distinct DEF t, Items
  <1>1. Stored /\ Remembered /\ CommandKept /\ \A i \in Items : PathKept(i)
    BY DEF IInv
  <1>2. /\ pc = "finish" /\ AllFinal /\ t \in Items
        /\ (\A i \in 1..(t - 1) : stage[i] = None) /\ Unstaged(t)
    BY <1>1
       DEF CommandKept, Placed, CommitKept, Committing, ContestKept, Contending,
           RemovalKept, Removing, UndoKept, Undoing, FinishKept, Finishing, Finish, PathKept
  <1>3. Stored' /\ \A i \in Items : PathKept(i)'
    BY <1>1, PathsStand, StoredStands DEF Finish, Goto, Done
  <1>4. Open' = Open /\ AllFinal' = AllFinal
    BY DEF Open, AllFinal, Finish
  <1>5. Remembered' /\ CommandKept'
    <2>1. CASE pc' \in {"idle", "recover"} /\ local' = Nobody
      BY <1>1, <1>2, <2>1, StopKeeps DEF Finish, Open, AllFinal, Goto, Done
    <2>2. CASE stage[t] # None /\ pc' = "drop" /\ local' = [local EXCEPT !.next = "clean"]
      <3>1. Remembered'
        BY <1>1, <1>2, <2>2, NobodyIs DEF Remembered, Stored, Body, Finish, Goto, Done
      <3>2. CommandKept'
        BY <1>1, <1>2, <1>3, <1>4, <2>2, NobodyIs
           DEF CommandKept, Placed, CommitKept, Committing, ContestKept, Contending,
               RemovalKept, Removing, UndoKept, Undoing, FinishKept, Finishing, Finish,
               Remembered, Unstaged
      <3> QED
        BY <3>1, <3>2
    <2>3. CASE stage[t] = None /\ pc' = "clean" /\ local' = local
      <3>1. Remembered'
        BY <1>1, <1>2, <2>3, NobodyIs DEF Remembered, Stored, Body, Finish, Goto, Done
      <3>2. CommandKept'
        BY <1>1, <1>2, <1>3, <1>4, <2>3, NobodyIs
           DEF CommandKept, Placed, CommitKept, Committing, ContestKept, Contending,
               RemovalKept, Removing, UndoKept, Undoing, FinishKept, Finishing, Finish
      <3> QED
        BY <3>1, <3>2
    <2> QED
      BY <1>2, <2>1, <2>2, <2>3 DEF Finish, Goto, Done
  <1> QED
    BY <1>3, <1>5 DEF IInv

(***************************************************************************)
(* The exchanges.                                                          *)
(***************************************************************************)
LEMMA CommitKeeps ==
    ASSUME IInv, Commit
    PROVE  IInv'
  <1> USE Distinct DEF Items
  <1>1. Stored /\ Remembered /\ CommandKept /\ \A i \in Items : PathKept(i)
    BY DEF IInv
  <1>2. /\ pc = "commit" /\ Open /\ t \in Items /\ (\A i \in Items : Behind(i))
        /\ \A i \in t..Size : stage[i] = Generated
    BY <1>1
       DEF CommandKept, Placed, CommitKept, Committing, ContestKept, Contending,
           RemovalKept, Removing, UndoKept, Undoing, FinishKept, Finishing, Commit, t
  <1>3. CASE journal.expected[t] # None /\ target[t] # None /\ Exchange /\ Goto("compare")
    <2>1. /\ Stored'
          /\ \A i \in Items : PathKept(i)'
          /\ target'[t] = stage[t] /\ stage'[t] = target[t]
          /\ \A i \in Items : i # t => target'[i] = target[i] /\ stage'[i] = stage[i]
          /\ Open' /\ ~AllFinal'
      BY <1>1, <1>2, <1>3, ExchangeKeeps DEF Commit
    <2>2. Remembered'
      BY <1>1, <1>3 DEF Remembered, Stored, Body, Commit, Goto
    <2>3. local'.at = t /\ journal' = journal /\ latest' = latest
      BY <1>1, <1>3 DEF Remembered, Commit, Goto, t
    <2>4. CommandKept'
      BY <1>1, <1>2, <1>3, <2>1, <2>3
         DEF CommandKept, Placed, CommitKept, Committing, ContestKept, Contending,
             RemovalKept, Removing, UndoKept, Undoing, FinishKept, Finishing, Behind, Goto,
             t
    <2> QED
      BY <2>1, <2>2, <2>4 DEF IInv
  <1>4. CASE journal.expected[t] = None /\ target[t] = None /\ Exchange /\ Goto("confirm")
    <2>1. /\ Stored'
          /\ \A i \in Items : PathKept(i)'
          /\ target'[t] = stage[t] /\ stage'[t] = target[t]
          /\ \A i \in Items : i # t => target'[i] = target[i] /\ stage'[i] = stage[i]
          /\ Open' /\ ~AllFinal'
      BY <1>1, <1>2, <1>4, ExchangeKeeps DEF Commit
    <2>2. Remembered'
      BY <1>1, <1>4 DEF Remembered, Stored, Body, Commit, Goto
    <2>3. local'.at = t /\ journal' = journal /\ latest' = latest
      BY <1>1, <1>4 DEF Remembered, Commit, Goto, t
    <2>4. CommandKept'
      BY <1>1, <1>2, <1>4, <2>1, <2>3
         DEF CommandKept, Placed, CommitKept, Committing, ContestKept, Contending,
             RemovalKept, Removing, UndoKept, Undoing, FinishKept, Finishing, Behind, Goto,
             t
    <2> QED
      BY <2>1, <2>2, <2>4 DEF IInv
  <1>5. CASE pc' \in {"idle", "recover"} /\ local' = Nobody /\ UNCHANGED <<target, stage>>
    BY <1>1, <1>2, <1>5, PathsStand, StoredStands, StopKeeps DEF Commit, IInv, Open
  <1> QED
    BY <1>2, <1>3, <1>4, <1>5 DEF Commit, Done, Failed

LEMMA BackKeeps ==
    ASSUME IInv, Back
    PROVE  IInv'
  <1> USE Distinct DEF Items
  <1>1. Stored /\ Remembered /\ CommandKept /\ \A i \in Items : PathKept(i)
    BY DEF IInv
  <1>2. /\ pc = "back" /\ Open /\ t \in Items /\ stage[t] # None /\ journal.expected[t] # None
        /\ local.expected # None /\ stage[t] = local.expected
        /\ (latest[t] = local.expected => target[t] = Generated)
    BY <1>1
       DEF CommandKept, Placed, CommitKept, Committing, ContestKept, Contending,
           RemovalKept, Removing, UndoKept, Undoing, FinishKept, Finishing, Back, t
  <1>3. CASE target[t] # None /\ Exchange /\ Goto("restored")
    <2>1. /\ Stored'
          /\ \A i \in Items : PathKept(i)'
          /\ target'[t] = stage[t] /\ stage'[t] = target[t]
          /\ \A i \in Items : i # t => target'[i] = target[i] /\ stage'[i] = stage[i]
          /\ Open' /\ ~AllFinal'
      BY <1>1, <1>2, <1>3, ExchangeKeeps DEF Back
    <2>2. Remembered'
      BY <1>1, <1>3 DEF Remembered, Stored, Body, Back, Goto
    <2>3. local'.at = t /\ journal' = journal /\ latest' = latest
      BY <1>1, <1>3 DEF Remembered, Back, Goto, t
    <2>4. CommandKept'
      BY <1>1, <1>2, <1>3, <2>1, <2>3
         DEF CommandKept, Placed, CommitKept, Committing, ContestKept, Contending,
             RemovalKept, Removing, UndoKept, Undoing, FinishKept, Finishing, Goto, t
    <2> QED
      BY <2>1, <2>2, <2>4 DEF IInv
  <1>4. CASE pc' \in {"idle", "recover"} /\ local' = Nobody /\ UNCHANGED <<target, stage>>
    BY <1>1, <1>2, <1>4, PathsStand, StoredStands, StopKeeps DEF Back, IInv, Open
  <1> QED
    BY <1>2, <1>3, <1>4 DEF Back, Done, Failed

\* After an exchange of the contest, one look tells whose the displaced file is.
LEMMA SwapKeeps ==
    ASSUME IInv, Swap
    PROVE  IInv'
  <1> USE Distinct DEF Items
  <1>1. Stored /\ Remembered /\ CommandKept /\ \A i \in Items : PathKept(i)
    BY DEF IInv
  <1>2. /\ pc = "swap" /\ Open /\ t \in Items /\ stage[t] # None /\ journal.expected[t] # None
        /\ local.expected # None /\ ToSwap /\ local.next \in {"undo", "recover"}
        /\ (local.next = "undo" => \A i \in (t + 1)..Size : Clear(i))
    BY <1>1
       DEF CommandKept, Placed, CommitKept, Committing, ContestKept, Contending,
           RemovalKept, Removing, UndoKept, Undoing, FinishKept, Finishing, Swap, t
  <1>3. CASE /\ target[t] # None /\ Exchange /\ pc' = "judge"
             /\ local' = [local EXCEPT !.tries = @ + 1]
    <2>1. /\ Stored'
          /\ \A i \in Items : PathKept(i)'
          /\ target'[t] = stage[t] /\ stage'[t] = target[t]
          /\ \A i \in Items : i # t => target'[i] = target[i] /\ stage'[i] = stage[i]
          /\ Open' /\ ~AllFinal'
      BY <1>1, <1>2, <1>3, ExchangeKeeps DEF Swap
    <2>2. Remembered'
      BY <1>1, <1>3 DEF Remembered, Stored, Body, Swap, Goto
    <2>3. local'.at = t /\ journal' = journal /\ latest' = latest
      BY <1>1, <1>3 DEF Remembered, Swap, Goto, t
    <2>4. CommandKept'
      BY <1>1, <1>2, <1>3, <2>1, <2>3
         DEF CommandKept, Placed, CommitKept, Committing, ContestKept, Contending,
             RemovalKept, Removing, UndoKept, Undoing, FinishKept, Finishing, Remembered,
             ToSwap, ToJudge, Elsewhere, Clear, Plain, t
    <2> QED
      BY <2>1, <2>2, <2>4 DEF IInv
  <1>4. CASE pc' \in {"idle", "recover"} /\ local' = Nobody /\ UNCHANGED <<target, stage>>
    BY <1>1, <1>2, <1>4, PathsStand, StoredStands, StopKeeps DEF Swap, IInv, Open
  <1> QED
    BY <1>2, <1>3, <1>4 DEF Swap, Done, Failed

(***************************************************************************)
(* Removals, by way of the quarantine.                                     *)
(***************************************************************************)
LEMMA DropKeeps ==
    ASSUME IInv, Drop
    PROVE  IInv'
  <1> USE Distinct DEF t, Items
  <1>1. Stored /\ Remembered /\ CommandKept /\ \A i \in Items : PathKept(i)
    BY DEF IInv
  <1>2. /\ pc = "drop" /\ journal # None /\ t \in Items /\ stage[t] # None /\ Unstaged(t)
        /\ local.next \in {"undo", "recover", "clean"}
        /\ (local.next = "undo" => Open /\ Plain(t) /\ \A i \in (t + 1)..Size : Clear(i))
        /\ (local.next = "clean" => AllFinal /\ \A i \in 1..(t - 1) : stage[i] = None)
    BY <1>1
       DEF CommandKept, Placed, CommitKept, Committing, ContestKept, Contending,
           RemovalKept, Removing, UndoKept, Undoing, FinishKept, Finishing, Drop
  <1>3. journal' = journal /\ saves' = saves /\ latest' = latest
        /\ Open' = Open /\ AllFinal' = AllFinal
        /\ target' = target /\ stage'[t] = None
        /\ \A i \in Items : i # t => stage'[i] = stage[i] /\ aside'[i] = aside[i]
    BY <1>1, <1>2 DEF Drop, Stored, Open, AllFinal
  <1>4. Stored'
    BY <1>1, <1>2 DEF Stored, Body, Drop
  <1>5. ASSUME NEW i \in Items, i = t PROVE PathKept(i)'
    <2>1. /\ PathKept(i) /\ target'[i] = target[i] /\ stage'[i] = None
          /\ aside'[i] = aside[i] \cup {stage[i]} /\ stage[i] \in Body
      BY <1>1, <1>2, <1>5 DEF Drop, Stored
    <2>2. Alone(i)' /\ Kept(i)'
      BY <2>1, <1>3 DEF PathKept, Alone, Kept
    <2>3. Emitted(i)' /\ Single(i)' /\ New(i)'
      BY <2>1, <1>3 DEF PathKept, Emitted, Single, New
    <2> QED
      BY <2>1, <2>2, <2>3, <1>2, <1>3 DEF PathKept, Unstaged, Plain
  <1>6. ASSUME NEW i \in Items, i # t PROVE PathKept(i)'
    BY <1>1, <1>3, <1>6, OthersStand
  <1>7. Stored' /\ \A i \in Items : PathKept(i)'
    BY <1>4, <1>5, <1>6
  <1>8. Remembered' /\ CommandKept'
    <2>1. Remembered'
      BY <1>1, <1>2, NobodyIs DEF Remembered, Stored, Body, Drop
    <2>2. CommandKept'
      BY <1>1, <1>2, <1>7, <1>3, NobodyIs
         DEF CommandKept, Placed, CommitKept, Committing, ContestKept, Contending,
             RemovalKept, Removing, UndoKept, Undoing, FinishKept, Finishing, Drop,
             Remembered, Stored, Unstaged, Clear, Plain
    <2> QED
      BY <2>1, <2>2
  <1> QED
    BY <1>7, <1>8 DEF IInv

LEMMA UnlinkKeeps ==
    ASSUME IInv, Unlink
    PROVE  IInv'
  <1> USE Distinct DEF t, Items
  <1>1. Stored /\ Remembered /\ CommandKept /\ \A i \in Items : PathKept(i)
    BY DEF IInv
  <1>2. /\ pc = "unlink" /\ journal # None /\ t \in Items
        /\ (local.held \in Nat => local.held # latest[t])
        /\ local.next \in {"undo", "recover", "clean", "leftover"}
        /\ (local.next # "leftover" => stage[t] = None)
        /\ (local.next \in {"undo", "leftover"} => Open /\ Plain(t) /\ \A i \in (t + 1)..Size : Clear(i))
        /\ (local.next = "leftover" => journal.expected[t] = None)
        /\ (local.next = "clean" => AllFinal /\ \A i \in 1..(t - 1) : stage[i] = None)
    BY <1>1
       DEF CommandKept, Placed, CommitKept, Committing, ContestKept, Contending,
           RemovalKept, Removing, UndoKept, Undoing, FinishKept, Finishing, Unlink
  <1>3. journal' = journal /\ saves' = saves /\ latest' = latest
        /\ Open' = Open /\ AllFinal' = AllFinal
        /\ target' = target /\ stage' = stage
        /\ \A i \in Items : i # t => aside'[i] = aside[i]
    BY <1>1, <1>2 DEF Unlink, Stored, Open, AllFinal
  <1>4. Stored'
    BY <1>1, <1>2 DEF Stored, Body, Unlink
  <1>5. ASSUME NEW i \in Items, i = t PROVE PathKept(i)'
    <2>1. /\ PathKept(i) /\ target'[i] = target[i] /\ stage'[i] = stage[i]
          /\ aside'[i] = aside[i] \ {local.held} /\ latest[i] \in Body /\ local.held \in Body
      BY <1>1, <1>2, <1>5 DEF Unlink, Stored, Remembered
    <2>2. Alone(i)'
      BY <2>1, <1>3 DEF PathKept, Alone
    <2>3. Kept(i)'
      BY <2>1, <1>2, <1>3, <1>5 DEF PathKept, Kept, Emitted, Body, Stored
    <2>4. Emitted(i)' /\ Single(i)' /\ New(i)'
      BY <2>1, <1>3 DEF PathKept, Emitted, Single, New
    <2> QED
      BY <2>1, <2>2, <2>3, <2>4, <1>2, <1>3 DEF PathKept, Unstaged, Plain, Clear
  <1>6. ASSUME NEW i \in Items, i # t PROVE PathKept(i)'
    BY <1>1, <1>3, <1>6, OthersStand
  <1>7. Stored' /\ \A i \in Items : PathKept(i)'
    BY <1>4, <1>5, <1>6
  <1>8. Remembered' /\ CommandKept'
    <2>1. CASE local.next = "undo" /\ pc' = "undo" /\ local' = [local EXCEPT !.at = t - 1]
      <3>1. Remembered'
        BY <1>1, <1>2, <2>1, NobodyIs
           DEF Remembered, Stored, Body, Unlink, Goto, GotoItem, Done, Failed, NextUndo
      <3>2. CommandKept'
        BY <1>1, <1>2, <1>7, <1>3, <2>1, NobodyIs
           DEF CommandKept, Placed, CommitKept, Committing, ContestKept, Contending,
               RemovalKept, Removing, UndoKept, Undoing, FinishKept, Finishing, Unlink,
               Remembered, Clear, Plain
      <3> QED
        BY <3>1, <3>2
    <2>2. CASE pc' \in {"idle", "recover"} /\ local' = Nobody
      BY <1>1, <1>2, <2>2, StopKeeps
         DEF Unlink, Open, AllFinal, Goto, GotoItem, Done, Failed, NextUndo
    <2>3. CASE local.next \in {"clean", "leftover"} /\ pc' = local.next /\ local' = local
      <3>1. Remembered'
        BY <1>1, <1>2, <2>3, NobodyIs
           DEF Remembered, Stored, Body, Unlink, Goto, GotoItem, Done, Failed, NextUndo
      <3>2. CommandKept'
        BY <1>1, <1>2, <1>7, <1>3, <2>3, NobodyIs
           DEF CommandKept, Placed, CommitKept, Committing, ContestKept, Contending,
               RemovalKept, Removing, UndoKept, Undoing, FinishKept, Finishing, Unlink,
               Clear, Plain
      <3> QED
        BY <3>1, <3>2
    <2> QED
      BY <1>1, <1>2, <2>1, <2>2, <2>3 DEF Unlink, Goto, GotoItem, Done, Failed, NextUndo, Stored
  <1> QED
    BY <1>7, <1>8 DEF IInv

LEMMA TakeKeeps ==
    ASSUME IInv, Take
    PROVE  IInv'
  <1> USE Distinct DEF t, Items
  <1>1. Stored /\ Remembered /\ CommandKept /\ \A i \in Items : PathKept(i)
    BY DEF IInv
  <1>2. /\ pc = "take" /\ Open /\ t \in Items /\ journal.expected[t] = None
        /\ \A i \in (t + 1)..Size : Clear(i)
    BY <1>1
       DEF CommandKept, Placed, CommitKept, Committing, ContestKept, Contending,
           RemovalKept, Removing, UndoKept, Undoing, FinishKept, Finishing, Take
  <1>3. journal' = journal /\ saves' = saves /\ latest' = latest
        /\ Open' = Open /\ AllFinal' = AllFinal
        /\ stage' = stage
        /\ \A i \in Items : i # t => target'[i] = target[i] /\ aside'[i] = aside[i]
    BY <1>1, <1>2 DEF Take, Stored, Open, AllFinal
  <1>4. Stored'
    <2>1. target' \in [Items -> Body] /\ aside' \in [Items -> SUBSET (Body \ {None})]
      <3>1. CASE /\ target[t] # None /\ target' = [target EXCEPT ![t] = None]
                 /\ aside' = [aside EXCEPT ![t] = @ \cup {target[t]}]
        <4>1. aside[t] \cup {target[t]} \in SUBSET (Body \ {None}) /\ None \in Body
          BY <1>1, <1>2, <3>1 DEF Stored, Body
        <4> QED
          BY <1>1, <3>1, <4>1 DEF Stored
      <3>2. CASE target' = target /\ aside' = aside
        BY <1>1, <3>2 DEF Stored
      <3> QED
        BY <1>2, <3>1, <3>2 DEF Take
    <2> QED
      BY <1>1, <1>2, <2>1 DEF Stored, Body, Take
  <1>5. ASSUME NEW i \in Items, i = t PROVE PathKept(i)'
    <2>1. PathKept(i) /\ stage'[i] = stage[i] /\ target[i] \in Body
      BY <1>1, <1>5 DEF Take, Stored
    <2>2. CASE target'[i] = None /\ aside'[i] = aside[i] \cup {target[i]} /\ target[i] # None
      <3>1. Alone(i)' /\ Kept(i)'
        BY <2>1, <2>2, <1>3 DEF PathKept, Alone, Kept
      <3>2. latest[i] # Generated
        BY <2>1, <1>2, <1>5 DEF PathKept, Emitted
      <3>3. Emitted(i)' /\ Single(i)' /\ New(i)'
        BY <2>1, <2>2, <3>2, <1>3 DEF PathKept, Emitted, Single, New
      <3> QED
        BY <3>1, <3>3, <1>2, <1>3 DEF PathKept, Open
    <2>3. CASE target' = target /\ aside' = aside
      BY <2>1, <2>3, <1>3, OthersStand
    <2> QED
      BY <1>1, <1>2, <1>5, <2>2, <2>3 DEF Take, Stored
  <1>6. ASSUME NEW i \in Items, i # t PROVE PathKept(i)'
    BY <1>1, <1>3, <1>6, OthersStand
  <1>7. Stored' /\ \A i \in Items : PathKept(i)'
    BY <1>4, <1>5, <1>6
  <1>8. Remembered' /\ CommandKept'
    <2>1. CASE pc' \in {"idle", "recover"} /\ local' = Nobody
      BY <1>1, <1>2, <2>1, StopKeeps DEF Take, Open, AllFinal, Done
    <2>2. CASE target[t] # None /\ pc' = "taken" /\ local' = [local EXCEPT !.held = target[t]]
                 /\ target'[t] = None /\ aside'[t] = aside[t] \cup {target[t]}
      <3>1. Remembered'
        BY <1>1, <1>2, <2>2, NobodyIs DEF Remembered, Stored, Body, Take, Done
      <3>2. CommandKept'
        BY <1>1, <1>2, <1>7, <1>3, <2>2, NobodyIs
           DEF CommandKept, Placed, CommitKept, Committing, ContestKept, Contending,
               RemovalKept, Removing, UndoKept, Undoing, FinishKept, Finishing, Take,
               Remembered, Clear, Plain
      <3> QED
        BY <3>1, <3>2
    <2> QED
      BY <1>1, <1>2, <2>1, <2>2 DEF Take, Done, Stored
  <1> QED
    BY <1>7, <1>8 DEF IInv

LEMMA TakenKeeps ==
    ASSUME IInv, Taken
    PROVE  IInv'
  <1> USE Distinct DEF t, Items
  <1>1. Stored /\ Remembered /\ CommandKept /\ \A i \in Items : PathKept(i)
    BY DEF IInv
  <1>2. /\ pc = "taken" /\ Open /\ t \in Items /\ journal.expected[t] = None
        /\ (\A i \in (t + 1)..Size : Clear(i))
        /\ local.held \in aside[t] /\ local.held # None /\ target[t] # Generated
    BY <1>1
       DEF CommandKept, Placed, CommitKept, Committing, ContestKept, Contending,
           RemovalKept, Removing, UndoKept, Undoing, FinishKept, Finishing, Taken
  <1>3. journal' = journal /\ saves' = saves /\ latest' = latest
        /\ Open' = Open /\ AllFinal' = AllFinal
        /\ stage' = stage
        /\ \A i \in Items : i # t => target'[i] = target[i] /\ aside'[i] = aside[i]
    BY <1>1, <1>2 DEF Taken, Stored, Open, AllFinal
  <1>4. Stored'
    <2>1. target' \in [Items -> Body] /\ aside' \in [Items -> SUBSET (Body \ {None})]
      <3>1. CASE /\ target' = [target EXCEPT ![t] = local.held]
                 /\ aside' = [aside EXCEPT ![t] = @ \ {local.held}]
        <4>1. aside[t] \ {local.held} \in SUBSET (Body \ {None}) /\ local.held \in Body
          BY <1>1, <1>2 DEF Stored, Remembered
        <4> QED
          BY <1>1, <3>1, <4>1 DEF Stored
      <3>2. CASE target' = target /\ aside' = aside
        BY <1>1, <3>2 DEF Stored
      <3> QED
        BY <1>2, <3>1, <3>2 DEF Taken
    <2> QED
      BY <1>1, <1>2, <2>1 DEF Stored, Body, Taken
  <1>5. ASSUME NEW i \in Items, i = t PROVE PathKept(i)'
    <2>1. /\ PathKept(i) /\ stage'[i] = stage[i] /\ local.held \in aside[i]
          /\ target[i] # Generated
      BY <1>1, <1>2, <1>5 DEF Taken
    <2>2. CASE /\ target'[i] = local.held /\ aside'[i] = aside[i] \ {local.held}
               /\ target[i] = None /\ local.held # Generated
      <3>1. Alone(i)' /\ Kept(i)'
        BY <2>1, <2>2, <1>3 DEF PathKept, Alone, Kept
      <3>2. Emitted(i)' /\ Single(i)' /\ New(i)'
        BY <2>1, <2>2, <1>3 DEF PathKept, Emitted, Single, New
      <3> QED
        BY <3>1, <3>2, <1>2, <1>3 DEF PathKept, Open
    <2>3. CASE target' = target /\ aside' = aside
      BY <2>1, <2>3, <1>3, OthersStand
    <2> QED
      BY <1>1, <1>2, <1>5, <2>2, <2>3 DEF Taken, Stored
  <1>6. ASSUME NEW i \in Items, i # t PROVE PathKept(i)'
    BY <1>1, <1>3, <1>6, OthersStand
  <1>7. Stored' /\ \A i \in Items : PathKept(i)'
    BY <1>4, <1>5, <1>6
  <1>8. Remembered' /\ CommandKept'
    <2>1. CASE pc' \in {"idle", "recover"} /\ local' = Nobody
      BY <1>1, <1>2, <2>1, StopKeeps DEF Taken, Open, AllFinal, Done
    <2>2. CASE /\ local.held = Generated /\ pc' = "unlink"
               /\ local' = [local EXCEPT !.next = "leftover"]
                 /\ target' = target
      <3>1. Remembered'
        BY <1>1, <1>2, <2>2, NobodyIs DEF Remembered, Stored, Body, Taken, Done
      <3>2. CommandKept'
        BY <1>1, <1>2, <1>7, <1>3, <2>2, NobodyIs
           DEF CommandKept, Placed, CommitKept, Committing, ContestKept, Contending,
               RemovalKept, Removing, UndoKept, Undoing, FinishKept, Finishing, Taken,
               Remembered, Clear, Plain
      <3> QED
        BY <3>1, <3>2
    <2> QED
      BY <1>1, <1>2, <2>1, <2>2 DEF Taken, Done, Stored
  <1> QED
    BY <1>7, <1>8 DEF IInv

(***************************************************************************)
(* The journal, the user and the machine.                                  *)
(***************************************************************************)
LEMMA PrepareKeeps ==
    ASSUME IInv, Prepare
    PROVE  IInv'
  <1> USE Distinct DEF Items
  <1>1. Stored /\ Remembered /\ CommandKept /\ \A i \in Items : PathKept(i)
    BY DEF IInv
  <1>2. /\ pc = "prepare" /\ journal = None
        /\ \A i \in Items : latest[i] = Generated => local.plan[i] = Generated
    BY <1>1 DEF CommandKept, CommitKept, Prepare
  <1>3. /\ journal' \in Journals /\ journal'.expected = local.plan
        /\ local.plan \in [Items -> Body] /\ \A i \in Items : journal'.state[i] = "prepared"
    BY <1>1, <1>2 DEF Prepare, Journals, Remembered, Body, Bodies, Saved, Stored
  <1>4. Stored'
    BY <1>1, <1>2, <1>3 DEF Stored, Body, Prepare
  <1>5. Remembered'
    BY <1>1, <1>2, NobodyIs DEF Remembered, Stored, Body, Prepare
  <1>6. Open' /\ ~AllFinal'
    BY <1>3 DEF Open, AllFinal
  <1>7. ASSUME NEW i \in Items PROVE PathKept(i)' /\ stage'[i] = Generated
    <2>1. /\ PathKept(i) /\ Clear(i) /\ target' = target /\ stage'[i] = Generated
          /\ aside' = aside /\ latest' = latest /\ saves' = saves
      BY <1>1, <1>2, <1>7 DEF Prepare, PathKept
    <2>2. Alone(i)' /\ Kept(i)'
      BY <2>1, <1>1 DEF PathKept, Alone, Kept, Clear, Stored
    <2>3. Emitted(i)' /\ Single(i)' /\ New(i)'
      BY <2>1, <1>2, <1>3 DEF PathKept, Emitted, Single, New, Clear, Plain
    <2> QED
      BY <2>1, <2>2, <2>3, <1>6 DEF PathKept, Open
  <1>8. pc' = "commit" /\ local'.at = 1 /\ local'.next = "idle" /\ Open'
    BY <1>2, <1>6, NobodyIs DEF Prepare
  <1>9. CommandKept'
    BY <1>7, <1>8 DEF CommandKept, Placed, CommitKept, Committing, ContestKept, Contending,
           RemovalKept, Removing, UndoKept, Undoing, FinishKept, Finishing, Behind, t, Open
  <1> QED
    BY <1>4, <1>5, <1>7, <1>9 DEF IInv

\* A record of progress, made before all files are proved or after it.
LEMMA RecordKeeps ==
    ASSUME Stored, \A i \in Items : PathKept(i), t \in Items,
           NEW state \in {"committed", "cleaned"},
           journal # None, journal' = [journal EXCEPT !.state[t] = state],
           Open => state = "committed", AllFinal => state = "cleaned",
           UNCHANGED <<target, stage, aside, latest, saves, crashes>>
    PROVE  /\ Stored' /\ \A i \in Items : PathKept(i)'
           /\ (Open' <=> Open) /\ (AllFinal' <=> AllFinal) /\ journal'.expected = journal.expected
           /\ journal' # None
  <1> USE Distinct DEF Items
  <1>1. journal \in Journals
    BY DEF Stored
  <1>2. /\ journal' \in Journals /\ journal'.expected = journal.expected /\ journal' # None
        /\ journal'.state = [journal.state EXCEPT ![t] = state]
    <2>1. journal' = [expected |-> journal.expected, state |-> [journal.state EXCEPT ![t] = state]]
      BY <1>1 DEF Journals
    <2>2. [journal.state EXCEPT ![t] = state]
             \in [Items -> {"prepared", "committed", "finalizing", "cleaned"}]
      BY <1>1 DEF Journals
    <2> QED
      BY <1>1, <2>1, <2>2 DEF Journals
  <1>3. (Open' <=> Open) /\ (AllFinal' <=> AllFinal)
    <2>1. CASE Open
      BY <1>1, <1>2, <2>1 DEF Open, AllFinal, Journals
    <2>2. CASE AllFinal
      BY <1>1, <1>2, <2>2 DEF Open, AllFinal, Journals
    <2> QED
      BY <2>1, <2>2 DEF Open
  <1>4. Stored'
    BY <1>2 DEF Stored, Body
  <1>5. \A i \in Items : PathKept(i)'
    BY <1>2, <1>3 DEF PathKept, Alone, Kept, Emitted, Single, New, Unstaged, Plain, Clear
  <1> QED
    BY <1>2, <1>3, <1>4, <1>5

LEMMA ConfirmKeeps ==
    ASSUME IInv, Confirm
    PROVE  IInv'
  <1> USE Distinct DEF Items
  <1>1. Stored /\ Remembered /\ CommandKept /\ \A i \in Items : PathKept(i)
    BY DEF IInv
  <1>2. /\ pc = "confirm" /\ Open /\ t \in Items /\ \A i \in Items : Behind(i)
        /\ \A i \in (t + 1)..Size : stage[i] = Generated
    BY <1>1 DEF CommandKept, Placed, CommitKept, Committing, Confirm
  <1>3. CASE target[t] = Generated
    <2>1. /\ Stored' /\ \A i \in Items : PathKept(i)'
          /\ Open' /\ journal' # None
      BY <1>1, <1>2, <1>3, RecordKeeps DEF Confirm, Open
    <2>2. \/ pc' = "final" /\ local' = local
          \/ pc' = "commit" /\ t + 1 \in Items /\ local' = [local EXCEPT !.at = t + 1]
      <3>1. CASE t = Size
        BY <1>2, <1>3, <3>1 DEF Confirm, Goto
      <3>2. CASE t # Size
        <4>1. t + 1 \in Items
          BY <1>2, <3>2
        <4> QED
          BY <1>2, <1>3, <3>2, <4>1 DEF Confirm, GotoItem
      <3> QED
        BY <3>1, <3>2
    <2>3. Remembered'
      BY <1>1, <1>2, <2>2 DEF Remembered, Stored, Body, Confirm
    <2>4. pc' = "commit" => local'.at = t + 1
      BY <1>1, <2>2 DEF Remembered
    <2>5. CommandKept'
      BY <1>1, <1>2, <2>1, <2>2, <2>4
         DEF CommandKept, Placed, CommitKept, Committing, ContestKept,
         Contending, RemovalKept, Removing, UndoKept, Undoing, FinishKept, Finishing, Behind, Confirm, t
    <2> QED
      BY <2>1, <2>3, <2>5 DEF IInv
  <1>4. CASE target[t] # Generated
    BY <1>1, <1>2, <1>4, PathsStand, StoredStands, StopKeeps
       DEF Confirm, Failed, Done, IInv, Open
  <1> QED
    BY <1>3, <1>4

LEMMA CleanKeeps ==
    ASSUME IInv, Clean
    PROVE  IInv'
  <1> USE Distinct DEF Items
  <1>1. Stored /\ Remembered /\ CommandKept /\ \A i \in Items : PathKept(i)
    BY DEF IInv
  <1>2. /\ pc = "clean" /\ AllFinal /\ ~Open /\ t \in Items /\ journal # None
        /\ stage[t] = None /\ \A i \in 1..(t - 1) : stage[i] = None
    BY <1>1 DEF CommandKept, Placed, FinishKept, Finishing, Clean, Open
  <1>3. /\ Stored' /\ \A i \in Items : PathKept(i)'
        /\ AllFinal' /\ journal' # None
    BY <1>1, <1>2, RecordKeeps DEF Clean
  <1>4. pc' = "finish" /\ local' = [local EXCEPT !.at = t + 1] /\ local'.at = t + 1
    BY <1>1 DEF Clean, GotoItem, Remembered
  <1>5. Remembered'
    BY <1>1, <1>2, <1>4 DEF Remembered, Stored, Body, Clean, t
  <1>6. stage' = stage /\ \A i \in 1..t : stage[i] = None
    BY <1>1, <1>2 DEF Clean, Remembered, t
  <1>7. CommandKept'
    BY <1>2, <1>3, <1>4, <1>6 DEF CommandKept, Placed, CommitKept, Committing, ContestKept,
       Contending, RemovalKept, Removing, UndoKept, Undoing, FinishKept, Finishing, t
  <1> QED
    BY <1>3, <1>5, <1>7 DEF IInv

\* What an exchange displaced is behind the generated file, or has been written over.
LEMMA FinalizeKeeps ==
    ASSUME IInv, Finalize
    PROVE  IInv'
  <1> USE Distinct DEF Items
  <1>1. Stored /\ Remembered /\ CommandKept /\ \A i \in Items : PathKept(i)
    BY DEF IInv
  <1>2. pc = "finalize" /\ Open /\ \A i \in Items : Behind(i)
    BY <1>1 DEF CommandKept, CommitKept, Committing, Finalize
  <1>3. journal \in Journals
    BY <1>1, <1>2 DEF Stored, Open
  <1>4. /\ journal' \in Journals /\ journal'.expected = journal.expected
        /\ \A i \in Items : journal'.state[i] = "finalizing"
    BY <1>3 DEF Finalize, Journals
  <1>5. AllFinal' /\ ~Open' /\ journal' # None
    BY <1>4 DEF AllFinal, Open
  <1>6. Stored'
    BY <1>1, <1>2, <1>3, <1>4 DEF Stored, Body, Finalize, Open
  <1>7. ASSUME NEW i \in Items PROVE PathKept(i)'
    <2>1. /\ PathKept(i) /\ Behind(i) /\ target' = target /\ stage' = stage /\ aside' = aside
          /\ saves' = saves
          /\ latest'[i] = IF target[i] = Generated THEN Generated ELSE latest[i]
      BY <1>1, <1>2, <1>7 DEF Finalize
    <2>2. Alone(i)' /\ Kept(i)'
      BY <2>1 DEF PathKept, Alone, Kept
    <2>3. Emitted(i)' /\ Single(i)' /\ New(i)'
      BY <2>1, <1>2, <1>4, <1>5 DEF PathKept, Emitted, Single, New, Open
    <2>4. Unstaged(i)' /\ Plain(i)'
      BY <2>1 DEF Unstaged, Plain, Behind
    <2> QED
      BY <2>2, <2>3, <2>4, <1>5 DEF PathKept
  <1>8. pc' = "finish" /\ local' = [local EXCEPT !.at = 1] /\ local'.at = 1
    BY <1>1 DEF Finalize, GotoItem, Remembered
  <1>9. Remembered'
    BY <1>1, <1>8 DEF Remembered, Stored, Body, Finalize
  <1>10. CommandKept'
    BY <1>5, <1>8 DEF CommandKept, Placed, CommitKept, Committing, ContestKept,
       Contending, RemovalKept, Removing, UndoKept, Undoing, FinishKept, Finishing, t
  <1> QED
    BY <1>6, <1>7, <1>9, <1>10 DEF IInv

\* The journal goes when every path is clear.
LEMMA ForgetKeeps ==
    ASSUME Stored, \A i \in Items : PathKept(i) /\ Clear(i), journal' = None, pc' = "idle",
           local' = Nobody, UNCHANGED <<target, stage, aside, latest, saves, crashes>>
    PROVE  IInv'
  <1>1. Stored'
    BY DEF Stored, Body
  <1>2. \A i \in Items : PathKept(i)'
    BY DEF PathKept, Alone, Kept, Emitted, Single, New, Unstaged, Plain, Clear, AllFinal, Open
  <1> QED
    BY <1>1, <1>2, StopKeeps DEF IInv

LEMMA UndoneKeeps ==
    ASSUME IInv, Undone
    PROVE  IInv'
  <1>1. Stored /\ CommandKept /\ pc = "undo" /\ t = 0 /\ \A i \in Items : PathKept(i)
    BY DEF IInv, Undone
  <1>2. \A i \in Items : Clear(i)
    BY <1>1, Distinct DEF CommandKept, UndoKept, Undoing, Items
  <1> QED
    BY <1>1, <1>2, ForgetKeeps DEF Undone, Done

LEMMA FinishedKeeps ==
    ASSUME IInv, Finished
    PROVE  IInv'
  <1>1. Stored /\ CommandKept /\ pc = "finish" /\ t > Size /\ \A i \in Items : PathKept(i)
    BY DEF IInv, Finished
  <1>2. AllFinal /\ \A i \in Items : stage[i] = None
    BY <1>1, Distinct DEF CommandKept, FinishKept, Finishing, Items
  <1>3. \A i \in Items : Clear(i)
    BY <1>1, <1>2 DEF PathKept, Clear
  <1> QED
    BY <1>1, <1>3, ForgetKeeps DEF Finished, Done

\* A saved file is new: nothing the transaction holds can be mistaken for it.
LEMMA SaveKeeps ==
    ASSUME IInv, NEW k \in Items, Save(k)
    PROVE  IInv'
  <1> USE Distinct
  <1>1. Stored /\ Remembered /\ CommandKept /\ \A i \in Items : PathKept(i)
    BY DEF IInv
  <1>2. PICK body \in {saves + 1, None} :
            /\ target' = [target EXCEPT ![k] = body] /\ latest' = [latest EXCEPT ![k] = body]
    BY DEF Save
  <1>3. /\ saves \in Nat /\ saves' = saves + 1 /\ saves' \in 0..MaxSaves
        /\ UNCHANGED <<pc, journal, stage, aside, local, crashes>>
        /\ Open' = Open /\ AllFinal' = AllFinal
    BY <1>1 DEF Save, Stored, Open, AllFinal
  <1>4. /\ Body \subseteq Body' /\ body \in Body' /\ body # Generated
        /\ (body # None => body \notin Body)
    BY <1>3 DEF Body
  <1>5. Stored' /\ Remembered'
    <2>1. target' \in [Items -> Body'] /\ latest' \in [Items -> Body']
      BY <1>1, <1>2, <1>4 DEF Stored
    <2>2. aside' \in [Items -> SUBSET (Body' \ {None})]
      BY <1>1, <1>3, <1>4 DEF Stored
    <2>3. /\ stage' \in [Items -> Body']
          /\ (journal' # None => journal'.expected \in [Items -> Body'])
      BY <1>1, <1>3, <1>4 DEF Stored
    <2>4. Remembered'
      BY <1>1, <1>3, <1>4 DEF Remembered
    <2> QED
      BY <1>1, <1>3, <2>1, <2>2, <2>3, <2>4 DEF Stored
  <1>6. /\ target'[k] = body /\ latest'[k] = body
        /\ \A i \in Items : i # k => target'[i] = target[i] /\ latest'[i] = latest[i]
        /\ stage[k] \in Body /\ aside[k] \subseteq Body /\ stage \in [Items -> Body]
        /\ local.expected \in Body /\ local.candidate \in Body /\ local.held \in Body
    BY <1>1, <1>2 DEF Stored, Remembered
  <1>7. ASSUME NEW i \in Items, i = k PROVE PathKept(i)'
    <2>1. /\ PathKept(i) /\ target'[i] = body /\ latest'[i] = body /\ stage' = stage
          /\ aside' = aside
          /\ stage[i] \in Body /\ aside[i] \subseteq Body
      BY <1>1, <1>3, <1>6, <1>7
    <2>2. Alone(i)'
      BY <2>1, <1>3, <1>4 DEF PathKept, Alone, Body
    <2>3. Kept(i)' /\ Plain(i)'
      BY <2>1, <1>4 DEF Kept, Plain
    <2>4. Unstaged(i)'
      BY <2>1, <1>4 DEF Unstaged
    <2>5. Emitted(i)' /\ Single(i)' /\ New(i)'
      BY <2>1, <1>3, <1>4 DEF PathKept, Emitted, Single, New
    <2> QED
      BY <2>1, <2>2, <2>3, <2>4, <2>5, <1>3 DEF PathKept, Clear
  <1>8. ASSUME NEW i \in Items, i # k PROVE PathKept(i)'
    <2>1. /\ PathKept(i) /\ target'[i] = target[i] /\ latest'[i] = latest[i]
          /\ stage' = stage /\ aside' = aside /\ journal' = journal
          /\ target[i] \in Body /\ stage[i] \in Body /\ aside[i] \subseteq Body
      BY <1>1, <1>3, <1>6, <1>8 DEF Stored
    <2>2. Alone(i)'
      BY <2>1, <1>3 DEF PathKept, Alone, Body
    <2> QED
      BY <2>1, <2>2, <1>3 DEF PathKept, Kept, Emitted, Single, New, Unstaged, Plain, Clear
  <1>9. \A i \in Items : (Behind(i) => Behind(i)') /\ (Clear(i) => Clear(i)') /\ (Plain(i) => Plain(i)')
                         /\ (Unstaged(i) => Unstaged(i)')
    BY <1>3, <1>4, <1>6 DEF Behind, Clear, Plain, Unstaged
  <1>10. t' = t
    BY <1>3 DEF t
  <1>11. Placed' /\ CommitKept' /\ FinishKept'
    <2>1. Placed /\ CommitKept /\ FinishKept
      BY <1>1 DEF CommandKept
    <2>2. Placed' /\ FinishKept'
      BY <2>1, <1>3, <1>10 DEF Placed, FinishKept, Finishing, Removing
    <2>3. CommitKept'
      BY <2>1, <1>3, <1>4, <1>6, <1>9, <1>10 DEF CommitKept, Committing
    <2> QED
      BY <2>2, <2>3
  <1>12. ContestKept'
    <2>1. CASE t = k
      BY <1>1, <1>3, <1>4, <1>6, <1>10, <2>1
         DEF CommandKept, Placed, ContestKept, Contending, ToSwap, ToJudge, Elsewhere
    <2>2. CASE t # k
      BY <1>1, <1>3, <1>6, <1>10, <2>2
         DEF CommandKept, Placed, ContestKept, Contending, ToSwap, ToJudge, Elsewhere
    <2> QED
      BY <2>1, <2>2
  <1>13. RemovalKept'
    <2>1. pc \in Removing => t \in Items
      BY <1>1 DEF CommandKept, Placed, Removing
    <2>2. pc = "unlink" /\ local.held \in Nat => local.held # latest'[t]
      BY <1>1, <1>4, <1>6, <2>1 DEF CommandKept, RemovalKept, Removing
    <2>3. pc = "drop" => Unstaged(t)'
      BY <1>1, <1>9, <1>10, <2>1 DEF CommandKept, RemovalKept, Removing
    <2> QED
      BY <1>1, <1>3, <1>10, <2>2, <2>3 DEF CommandKept, RemovalKept, Removing
  <1>14. UndoKept'
    <2>1. pc = "taken" => target'[t] # Generated
      BY <1>1, <1>4, <1>6 DEF CommandKept, Placed, UndoKept
    <2>2. t \in Items /\ Plain(t) => Plain(t)'
      BY <1>9, <1>10
    <2>3. t \in 0..Size /\ (\A i \in (t + 1)..Size : Clear(i)) => \A i \in (t + 1)..Size : Clear(i)'
      BY <1>9 DEF Items
    <2> QED
      BY <1>1, <1>3, <1>10, <2>1, <2>2, <2>3
         DEF CommandKept, Placed, UndoKept, Undoing, Removing
  <1> QED
    BY <1>5, <1>7, <1>8, <1>11, <1>12, <1>13, <1>14 DEF IInv, CommandKept

LEMMA CrashKeeps ==
    ASSUME IInv, Crash
    PROVE  IInv'
  <1>1. Stored /\ \A i \in Items : PathKept(i)
    BY DEF IInv
  <1>2. Stored'
    BY <1>1, Distinct DEF Stored, Body, Crash
  <1> QED
    BY <1>1, <1>2, PathsStand, StopKeeps DEF Crash, Done, IInv

(***************************************************************************)
(* The theorems.                                                           *)
(***************************************************************************)
LEMMA InitKept ==
    ASSUME Init
    PROVE  IInv
  <1> USE Distinct
  <1>1. Stored
    BY DEF Init, Stored, Body, Journals
  <1>2. Remembered
    BY NobodyIs DEF Init, Remembered, Body
  <1>3. \A i \in Items : PathKept(i)
    BY
       DEF Init, PathKept, Alone, Kept, Emitted, Single, New, Unstaged, Plain, Clear,
           AllFinal, Open
  <1>4. CommandKept
    BY DEF Init, CommandKept, Placed, CommitKept, Committing, ContestKept, Contending,
           RemovalKept, Removing, UndoKept, Undoing, FinishKept, Finishing
  <1> QED
    BY <1>1, <1>2, <1>3, <1>4 DEF IInv

LEMMA StutterKeeps ==
    ASSUME IInv, UNCHANGED vars
    PROVE  IInv'
  <1>1. Stored' /\ Remembered' /\ CommandKept'
    BY DEF IInv, vars, Stored, Remembered, Body, CommandKept, Placed, CommitKept, Committing,
           ContestKept, Contending, ToSwap, ToJudge, Elsewhere, RemovalKept, Removing, UndoKept,
           Undoing, FinishKept, Finishing, Behind, Unstaged, Plain, Clear, AllFinal, Open, t
  <1> QED
    BY <1>1, PathsStand DEF IInv, vars

LEMMA NextKeeps ==
    ASSUME IInv, [Next]_vars
    PROVE  IInv'
  <1>1. CASE Continue
    <2>1. CASE Prepare \/ Commit \/ Compare \/ Back \/ Restored \/ Confirm \/ Final \/ Finalize
      BY <2>1, PrepareKeeps, CommitKeeps, CompareKeeps, BackKeeps, RestoredKeeps, ConfirmKeeps,
         FinalKeeps, FinalizeKeeps
    <2>2. CASE Swap \/ Judge \/ Drop \/ Unlink
      BY <2>2, SwapKeeps, JudgeKeeps, DropKeeps, UnlinkKeeps
    <2>3. CASE Direction \/ UndoExisting \/ UndoAbsent \/ Take \/ Taken \/ Leftover \/ Undone
      BY <2>3, DirectionKeeps, UndoExistingKeeps, UndoAbsentKeeps, TakeKeeps, TakenKeeps,
         LeftoverKeeps, UndoneKeeps
    <2>4. CASE Finish \/ Clean \/ Finished
      BY <2>4, FinishKeeps, CleanKeeps, FinishedKeeps
    <2> QED
      BY <1>1, <2>1, <2>2, <2>3, <2>4 DEF Continue
  <1>2. CASE Plan \/ Recover \/ Crash
    BY <1>2, PlanKeeps, RecoverKeeps, CrashKeeps
  <1>3. CASE \E i \in Items : Save(i)
    BY <1>3, SaveKeeps
  <1>4. CASE UNCHANGED vars
    BY <1>4, StutterKeeps
  <1> QED
    BY <1>1, <1>2, <1>3, <1>4 DEF Next

\* IInv holds throughout: of an emission of any number of files, whoever saves them
\* meanwhile and whichever command dies.
THEOREM Invariance == Spec => []IInv
  <1>1. Init => IInv
    BY InitKept
  <1>2. IInv /\ [Next]_vars => IInv'
    BY NextKeeps
  <1> QED
    BY <1>1, <1>2, PTL DEF Spec

\* The state has its types throughout (TypeOK): there is nothing in a file but what a
\* user saved or the emission generated.
THEOREM TypeCorrect == Spec => []TypeOK
  <1>1. IInv => TypeOK
    <2> SUFFICES ASSUME IInv PROVE TypeOK
      OBVIOUS
    <2>1. Stored /\ Body \subseteq Bodies \cup {None} /\ Body \ {None} \subseteq Bodies
      BY Distinct DEF IInv, Stored, Body, Bodies, Saved
    <2> QED
      BY <2>1 DEF Stored, TypeOK
  <1> QED
    BY <1>1, Invariance, PTL

\* What the user saved last under a path exists in a file at every moment (NothingLost):
\* no exchange, removal or recovery takes the last copy.
THEOREM NothingIsLost == Spec => []NothingLost
  <1>1. IInv => NothingLost
    BY DEF IInv, PathKept, Kept, NothingLost
  <1> QED
    BY <1>1, Invariance, PTL

\* Between emissions, none is done by halves (Settled): every path holds its last word,
\* or it is in quarantine, and no stage is left beside it.
THEOREM EmissionsSettle == Spec => []Settled
  <1>1. IInv => Settled
    BY DEF IInv, PathKept, Kept, Clear, Plain, Settled
  <1> QED
    BY <1>1, Invariance, PTL
=============================================================================
