------------------------------ MODULE ProviderEmit ------------------------------
(***************************************************************************)
(* The emission of provider files (providerctl.py emit and recover):       *)
(* several files of the user's project are replaced by generated ones.     *)
(* Every file is staged under a hidden name beside its target and swapped  *)
(* in by an atomic exchange, or moved in if there was none; a journal      *)
(* records which, until the last predecessor is removed.  A failure, or    *)
(* the next recover after a death, rolls the swaps back, and past the      *)
(* point where all of them are proved it finishes them.                    *)
(*                                                                         *)
(* One command runs at a time, under the mutation lock.  The user's        *)
(* editors take no lock: they save and delete targets between any two      *)
(* system calls.  Hidden names are random, so nobody else uses them.       *)
(* A file is the bytes it holds: mode and inode are left out, and so are   *)
(* directories that change identity.                                       *)
(***************************************************************************)
EXTENDS Integers, FiniteSets

CONSTANTS
    Size,         \* number of the files of an emission, the trace among them, by their paths
    Generated,    \* the bytes generated for a file
    None,         \* no file
    MaxTries,     \* rounds of the contest with a writer, range(8) in the code
    MaxSaves,     \* bound: files saved and deleted by the user
    MaxCrashes    \* bound: deaths of a command

Items == 1..Size
Saved == 0..MaxSaves                       \* what a user's editor wrote, 0 at first
Bodies == Saved \cup {Generated}
Journals ==
    [expected : [Items -> Bodies \cup {None}],
     state : [Items -> {"prepared", "committed", "finalizing", "cleaned"}]]

ASSUME ProviderAssumption ==
    /\ {Size, MaxTries, MaxSaves, MaxCrashes} \subseteq Nat
    /\ Size # 0
    /\ None # Generated
    /\ {None, Generated} \cap Nat = {}
    /\ None \notin Journals

VARIABLES
    pc,           \* what the running command does next
    journal,      \* provider mutation journal: predecessors and state of each file
    target,       \* the files, by their number
    stage,        \* the hidden file of the transaction beside each
    aside,        \* quarantined files beside each
    local,        \* variables of the running command
    latest,       \* history: what each path held by the user's or an emission's last word
    saves,        \* number of saves and deletions
    crashes       \* number of deaths

vars == <<pc, journal, target, stage, aside, local, latest, saves, crashes>>

Nobody == [at |-> 0, undoing |-> FALSE, expected |-> None, candidate |-> None, tries |-> 0,
           held |-> None, next |-> "idle", plan |-> [t \in Items |-> None]]

t == local.at

Init ==
    /\ pc = "idle" /\ journal = None
    /\ target \in [Items -> {None, Generated, 0}]
    /\ stage = [i \in Items |-> None]
    /\ aside = [i \in Items |-> {}]
    /\ local = Nobody
    /\ latest = target
    /\ saves = 0 /\ crashes = 0

Goto(next) == pc' = next /\ UNCHANGED local
GotoItem(next, i) == pc' = next /\ local' = [local EXCEPT !.at = i]
Exchange ==
    /\ target' = [target EXCEPT ![t] = stage[t]]
    /\ stage' = [stage EXCEPT ![t] = target[t]]
Done == pc' = "idle" /\ local' = Nobody

\* What follows the file at hand in a rollback, which goes backwards.
NextUndo == GotoItem("undo", t - 1)

\* An error of the commit starts the recovery, one of the recovery ends the command.
Failed == IF local.undoing THEN Done ELSE pc' = "recover" /\ local' = Nobody

(***************************************************************************)
(* emit                                                                    *)
(***************************************************************************)
\* The predecessors are read for the decision to overwrite them.
Plan ==
    /\ pc = "idle" /\ journal = None
    /\ pc' = "prepare" /\ local' = [Nobody EXCEPT !.plan = target]
    /\ UNCHANGED <<journal, target, stage, aside, latest, saves, crashes>>

\* _prepare_transaction: the generated files, then the journal; a death in between
\* leaves stages under names that nobody looks for.
Prepare ==
    /\ pc = "prepare"
    /\ stage' = [i \in Items |-> Generated]
    /\ journal' = [expected |-> local.plan, state |-> [i \in Items |-> "prepared"]]
    /\ pc' = "commit" /\ local' = [Nobody EXCEPT !.at = 1]
    /\ UNCHANGED <<target, aside, latest, saves, crashes>>

\* _apply_transaction, the swap of one file: exchange, or rename without replacement.
Commit ==
    /\ pc = "commit"
    /\ \/ /\ journal.expected[t] # None /\ target[t] # None
          /\ Exchange /\ Goto("compare")
       \/ /\ journal.expected[t] = None /\ target[t] = None
          /\ Exchange /\ Goto("confirm")
       \/ /\ (journal.expected[t] = None) # (target[t] = None)
          /\ Failed /\ UNCHANGED <<target, stage>>
    /\ UNCHANGED <<journal, aside, latest, saves, crashes>>

\* _commit_existing: what the exchange displaced is the approved predecessor, or goes
\* back if the target is still the generated file.
Compare ==
    /\ pc = "compare"
    /\ \/ target[t] = Generated /\ stage[t] = journal.expected[t] /\ Goto("confirm")
       \/ /\ target[t] = Generated /\ stage[t] # journal.expected[t]
          /\ pc' = "back" /\ local' = [local EXCEPT !.expected = stage[t]]
       \/ target[t] # Generated /\ Failed
    /\ UNCHANGED <<journal, target, stage, aside, latest, saves, crashes>>

Back ==
    /\ pc = "back"
    /\ IF target[t] = None THEN Failed /\ UNCHANGED <<target, stage>>
                           ELSE Exchange /\ Goto("restored")
    /\ UNCHANGED <<journal, aside, latest, saves, crashes>>

\* If the way back caught a later save, the contest goes on for it.
Restored ==
    /\ pc = "restored"
    /\ IF target[t] = local.expected /\ stage[t] # Generated
       THEN pc' = "swap" /\ local' = [local EXCEPT !.candidate = stage[t], !.next = "recover"]
       ELSE Failed
    /\ UNCHANGED <<journal, target, stage, aside, latest, saves, crashes>>

Confirm ==
    /\ pc = "confirm"
    /\ IF target[t] = Generated
       THEN /\ journal' = [journal EXCEPT !.state[t] = "committed"]
            /\ IF t = Size THEN Goto("final") ELSE GotoItem("commit", t + 1)
       ELSE Failed /\ UNCHANGED journal
    /\ UNCHANGED <<target, stage, aside, latest, saves, crashes>>

Final ==
    /\ pc = "final"
    /\ IF \A i \in Items : target[i] = Generated THEN Goto("finalize") ELSE Failed
    /\ UNCHANGED <<journal, target, stage, aside, latest, saves, crashes>>

\* From here on the generated files are the user's.
Finalize ==
    /\ pc = "finalize"
    /\ journal' = [journal EXCEPT !.state = [i \in Items |-> "finalizing"]]
    /\ latest' = [i \in Items |-> IF target[i] = Generated THEN Generated ELSE latest[i]]
    /\ GotoItem("finish", 1)
    /\ UNCHANGED <<target, stage, aside, saves, crashes>>

(***************************************************************************)
(* The contest with a writer: the transaction swaps the file it took last  *)
(* back into place until what it displaces is a file it has seen there.    *)
(***************************************************************************)
Swap ==
    /\ pc = "swap"
    /\ IF local.tries = MaxTries \/ target[t] = None
       THEN Failed /\ UNCHANGED <<target, stage>>
       ELSE Exchange /\ pc' = "judge" /\ local' = [local EXCEPT !.tries = @ + 1]
    /\ UNCHANGED <<journal, aside, latest, saves, crashes>>

\* Mutant: whatever the exchange displaced is taken for the transaction's own.
JudgeFirst ==
    /\ pc = "judge" /\ Goto("drop")
    /\ UNCHANGED <<journal, target, stage, aside, latest, saves, crashes>>

Judge ==
    /\ pc = "judge"
    /\ IF target[t] # local.candidate \/ stage[t] = local.expected
       THEN Goto("drop")
       ELSE /\ pc' = "swap"
            /\ local' = [local EXCEPT !.expected = target[t], !.candidate = stage[t]]
    /\ UNCHANGED <<journal, target, stage, aside, latest, saves, crashes>>

\* _remove_name_if_record, of a stage: into quarantine, and away.
Drop ==
    /\ pc = "drop"
    /\ aside' = [aside EXCEPT ![t] = @ \cup {stage[t]}]
    /\ stage' = [stage EXCEPT ![t] = None]
    /\ pc' = "unlink" /\ local' = [local EXCEPT !.held = stage[t]]
    /\ UNCHANGED <<journal, target, latest, saves, crashes>>

Unlink ==
    /\ pc = "unlink"
    /\ aside' = [aside EXCEPT ![t] = @ \ {local.held}]
    /\ CASE local.next = "undo" -> NextUndo
         [] local.next = "recover" -> Failed
         [] OTHER -> Goto(local.next)
    /\ UNCHANGED <<journal, target, stage, latest, saves, crashes>>

(***************************************************************************)
(* _recover_provider_transaction_locked                                    *)
(***************************************************************************)
Recover ==
    /\ pc = "idle" /\ journal # None
    /\ pc' = "recover" /\ local' = Nobody
    /\ UNCHANGED <<journal, target, stage, aside, latest, saves, crashes>>

Direction ==
    /\ pc = "recover"
    /\ IF \A i \in Items : journal.state[i] \in {"finalizing", "cleaned"}
       THEN pc' = "finish" /\ local' = [Nobody EXCEPT !.at = 1, !.undoing = TRUE]
       ELSE pc' = "undo" /\ local' = [Nobody EXCEPT !.at = Size, !.undoing = TRUE]
    /\ UNCHANGED <<journal, target, stage, aside, latest, saves, crashes>>

\* _recover_existing_item: of two files one is the transaction's own.
UndoExisting ==
    /\ pc = "undo" /\ t > 0 /\ journal.expected[t] # None
    /\ \/ /\ target[t] = Generated /\ stage[t] # None
          /\ pc' = "swap"
          /\ local' = [local EXCEPT !.expected = Generated, !.candidate = stage[t],
                                    !.tries = 0, !.next = "undo"]
       \/ /\ target[t] # Generated /\ stage[t] = Generated
          /\ pc' = "drop" /\ local' = [local EXCEPT !.next = "undo"]
       \/ target[t] # Generated /\ stage[t] = None /\ NextUndo
       \/ target[t] # Generated /\ stage[t] \notin {None, Generated} /\ Done
       \/ target[t] = Generated /\ stage[t] = None /\ Done
    /\ UNCHANGED <<journal, target, stage, aside, latest, saves, crashes>>

\* _recover_absent_item: a target that is the generated file goes, any other stays.
UndoAbsent ==
    /\ pc = "undo" /\ t > 0 /\ journal.expected[t] = None
    /\ Goto(IF target[t] = Generated THEN "take" ELSE "leftover")
    /\ UNCHANGED <<journal, target, stage, aside, latest, saves, crashes>>

\* The target may have changed since: before the second look, or after it.
Take ==
    /\ pc = "take"
    /\ \/ /\ target[t] # None
          /\ aside' = [aside EXCEPT ![t] = @ \cup {target[t]}]
          /\ target' = [target EXCEPT ![t] = None]
          /\ pc' = "taken" /\ local' = [local EXCEPT !.held = target[t]]
       \/ target[t] # Generated /\ Done /\ UNCHANGED <<target, aside>>
    /\ UNCHANGED <<journal, stage, latest, saves, crashes>>

Taken ==
    /\ pc = "taken"
    /\ IF local.held = Generated
       THEN pc' = "unlink" /\ local' = [local EXCEPT !.next = "leftover"]
            /\ UNCHANGED <<target, aside>>
       ELSE /\ Done
            /\ IF target[t] = None
               THEN /\ target' = [target EXCEPT ![t] = local.held]
                    /\ aside' = [aside EXCEPT ![t] = @ \ {local.held}]
               ELSE UNCHANGED <<target, aside>>
    /\ UNCHANGED <<journal, stage, latest, saves, crashes>>

Leftover ==
    /\ pc = "leftover"
    /\ IF stage[t] = Generated
       THEN pc' = "drop" /\ local' = [local EXCEPT !.next = "undo"]
       ELSE NextUndo
    /\ UNCHANGED <<journal, target, stage, aside, latest, saves, crashes>>

\* Mutant: a file whose commit was not recorded is taken for untouched.
UndoneEarly ==
    /\ pc = "undo" /\ \A i \in 1..t : journal.state[i] = "prepared"
    /\ journal' = None /\ Done
    /\ UNCHANGED <<target, stage, aside, latest, saves, crashes>>

Undone ==
    /\ pc = "undo" /\ t = 0
    /\ journal' = None /\ Done
    /\ UNCHANGED <<target, stage, aside, latest, saves, crashes>>

(***************************************************************************)
(* _finish_provider_transaction_locked: each predecessor is removed, and   *)
(* then recorded as removed.                                               *)
(***************************************************************************)
\* Mutant: a predecessor that is gone already is not accepted.
FinishOnce ==
    /\ pc = "finish" /\ t <= Size
    /\ \/ target[t] # Generated /\ Done
       \/ target[t] = Generated /\ stage[t] # None
          /\ pc' = "drop" /\ local' = [local EXCEPT !.next = "clean"]
       \/ target[t] = Generated /\ stage[t] = None
          /\ IF journal.expected[t] # None /\ journal.state[t] = "finalizing" THEN Done
             ELSE Goto("clean")
    /\ UNCHANGED <<journal, target, stage, aside, latest, saves, crashes>>

Finish ==
    /\ pc = "finish" /\ t <= Size
    /\ \/ target[t] # Generated /\ Done
       \/ target[t] = Generated /\ stage[t] # None
          /\ pc' = "drop" /\ local' = [local EXCEPT !.next = "clean"]
       \/ target[t] = Generated /\ stage[t] = None /\ Goto("clean")
    /\ UNCHANGED <<journal, target, stage, aside, latest, saves, crashes>>

Clean ==
    /\ pc = "clean"
    /\ journal' = [journal EXCEPT !.state[t] = "cleaned"]
    /\ GotoItem("finish", t + 1)
    /\ UNCHANGED <<target, stage, aside, latest, saves, crashes>>

Finished ==
    /\ pc = "finish" /\ t > Size
    /\ journal' = None /\ Done
    /\ UNCHANGED <<target, stage, aside, latest, saves, crashes>>

(***************************************************************************)
(* The user and the machine.                                               *)
(***************************************************************************)
\* An editor saves a file, under the path and whatever it holds now, or deletes it.
Save(i) ==
    /\ saves < MaxSaves
    /\ saves' = saves + 1
    /\ \E body \in {saves + 1} \cup (IF target[i] = None THEN {} ELSE {None}) :
          /\ target' = [target EXCEPT ![i] = body]
          /\ latest' = [latest EXCEPT ![i] = body]
    /\ UNCHANGED <<pc, journal, stage, aside, local, crashes>>

Crash ==
    /\ pc # "idle" /\ crashes < MaxCrashes
    /\ crashes' = crashes + 1
    /\ Done
    /\ UNCHANGED <<journal, target, stage, aside, latest, saves>>

Continue ==
    \/ Prepare \/ Commit \/ Compare \/ Back \/ Restored \/ Confirm \/ Final \/ Finalize
    \/ Swap \/ Judge \/ Drop \/ Unlink
    \/ Direction \/ UndoExisting \/ UndoAbsent \/ Take \/ Taken \/ Leftover \/ Undone
    \/ Finish \/ Clean \/ Finished

Next ==
    \/ Plan \/ Recover \/ Continue
    \/ \E i \in Items : Save(i)
    \/ Crash

\* A command runs on until it ends, and somebody calls recover after an interruption.
Spec ==
    /\ Init /\ [][Next]_vars
    /\ WF_vars(Continue) /\ WF_vars(Recover)

(***************************************************************************)
(* Properties                                                              *)
(***************************************************************************)
TypeOK ==
    /\ journal \in Journals \cup {None}
    /\ target \in [Items -> Bodies \cup {None}]
    /\ stage \in [Items -> Bodies \cup {None}]
    /\ aside \in [Items -> SUBSET Bodies]
    /\ latest \in [Items -> Bodies \cup {None}]
    /\ saves \in 0..MaxSaves /\ crashes \in 0..MaxCrashes

\* "Only bytes that still belong to the transaction are restored, and concurrent
\* third-party content is kept" (README.md:212, in Chinese): what the user saved last
\* under a path, the approved predecessor until all files are in place included, exists
\* in a file at every moment, whoever raced and whatever died.
NothingLost ==
    \A i \in Items : latest[i] # None => latest[i] \in {target[i], stage[i]} \cup aside[i]

\* Once the journal is gone the emission has happened for all files, or for none: every
\* path holds its last word, in quarantine at worst (a deleted file may come back as the
\* user's own, never as a generated one), and no stage is left.
Settled ==
    pc = "idle" /\ journal = None =>
        \A i \in Items :
            /\ stage[i] = None
            /\ \/ target[i] = latest[i]
               \/ latest[i] \in aside[i]
               \/ (latest[i] = None /\ target[i] # Generated)

\* The cases in which a recovery stands still until somebody clears them by hand: the
\* user wrote over a generated file, or a file was its own predecessor and is back.
Contested ==
    \E i \in Items :
        IF journal.state[i] \in {"finalizing", "cleaned"} THEN target[i] # Generated
        ELSE /\ journal.expected[i] # None
             /\ \/ target[i] # Generated /\ stage[i] \notin {None, Generated}
                \/ target[i] = Generated /\ stage[i] = None

\* In all other cases an interrupted emission is undone or finished, "and never stuck
\* for good" (README.md:212).
RecoveryEnds == journal # None ~> (journal = None \/ (pc = "idle" /\ Contested))
=============================================================================
