------------------------------ MODULE SkillMutation -----------------------------
(***************************************************************************)
(* The mutations of the dynamic Skills (skillctl.py install, update,       *)
(* deprecate, retire, rollback and recover).  A mutation writes its whole  *)
(* intent to a journal, puts the reviewed bundle into the content store,   *)
(* has the provider consume the human decision, and then publishes: the    *)
(* active directory, the archive of locks, the lock, the lifecycle, and    *)
(* the chained history with its head.  Every mutation starts with the      *)
(* recovery of what the one before left: a decision that was not consumed  *)
(* is undone, a consumed one is published.                                 *)
(*                                                                         *)
(* All of it runs under one lock, so one command runs at a time; it may    *)
(* die or fail at every step.  A command that the checks before the        *)
(* journal refuse changes nothing and is one step here.  Coverage of       *)
(* capabilities, scores, reviews and digests are left out; so are the      *)
(* journals of version 1, which this code only reads.                      *)
(***************************************************************************)
EXTENDS Integers, Sequences, FiniteSets

CONSTANTS
    Skills,      \* ids of the dynamic Skills
    Bundles,     \* reviewed bundles of SKILL.md and LICENSE.txt
    Part,        \* a directory that holds some bytes of a bundle, not all
    None,        \* nothing there
    MaxChain,    \* bound: published mutations
    MaxFaults    \* bound: crashes, exceptions, answers owed, tasks that move on, revocations

Entries == [bundle : Bundles, status : {"active", "deprecated"}]

Locks == [Skills -> Entries \cup {None}]
Journals ==
    [skill : Skills, bundle : Bundles, fresh : BOOLEAN,
     phase : {"prepared", "consumed", "published"},
     seq : Nat, pre : Locks, preLife : Nat, post : Locks, postLife : Nat]

ASSUME SkillAssumption ==
    /\ None \notin Bundles \cup Entries \cup Journals
    /\ Part \notin Bundles
    /\ None # Part
    /\ MaxChain \in Nat
    /\ MaxFaults \in Nat

VARIABLES
    pc,          \* what the running command does next
    call,        \* the command: "mutate" or "recover"
    mode,        \* "handle" inside a mutation, "recover" inside recover_state_journal
    journal,     \* skill-mutation-journal.json
    consumed,    \* the provider's record of the journal's decision
    spent,       \* decisions the provider has consumed in all
    lock,        \* skills.lock: the entry of each Skill
    life,        \* skill-lifecycle.json: how many events it holds
    archive,     \* skill-lock-history
    active,      \* project/skills/<id>
    remnants,    \* hidden directories beside it: a predecessor, a copy being made
    cas,         \* skill-cas
    private,     \* skill-cas/.mutation-staging-<journal>
    tomb,        \* the tombstone of a directory being removed: manifest and tree
    chain,       \* skill-mutation-history, in order: the state each left
    head,        \* skill-mutation-head.json: its sequence number
    standing,    \* whether its request is still good: TASK and adapter the same, no revocation
    faults       \* crashes, exceptions, refusals and changes of standing so far

disk == <<lock, life, archive, active, remnants, cas, private, tomb, chain, head>>
vars == <<pc, call, mode, journal, consumed, spent, lock, life, archive, active,
          remnants, cas, private, tomb, chain, head, standing, faults>>

\* _active_state: what the active directory of a Skill holds under a lock.
ActiveUnder(l, s) == IF l[s] = None THEN None ELSE l[s].bundle

Pre(s) == ActiveUnder(journal.pre, s)
Post(s) == ActiveUnder(journal.post, s)
Empty == [s \in Skills |-> None]
NoTomb == [manifest |-> FALSE, tree |-> "none"]

Init ==
    /\ pc = "idle" /\ call = "recover" /\ mode = "recover"
    /\ journal = None /\ consumed = FALSE /\ spent = 0
    /\ lock = Empty /\ life = 0 /\ archive = {} /\ active = Empty
    /\ remnants = {} /\ cas = {} /\ private = "none" /\ tomb = NoTomb
    /\ chain = <<>> /\ head = 0
    /\ standing = "bound"
    /\ faults = 0

Goto(next) == pc' = next

\* main: an exception of the handler has the journal recovered before the command
\* fails, one of the recovery ends the command.
Refused ==
    IF mode = "handle" /\ journal # None
    THEN pc' = "recover" /\ call' = "recover" /\ mode' = "recover"
    ELSE pc' = "idle" /\ UNCHANGED <<call, mode>>

Start(c) ==
    /\ pc = "idle"
    /\ pc' = "recover" /\ call' = c /\ mode' = "recover"
    /\ UNCHANGED <<journal, consumed, spent, disk, standing, faults>>

(***************************************************************************)
(* recover_state_journal.  While the journal is not published it asks the  *)
(* provider for the status of the request, which _validate_prepared_request*)
(* first has to find bound to the present TASK (title, mode, generation,   *)
(* routing profile) and adapter.                                           *)
(***************************************************************************)
RecoverNothing ==
    /\ pc = "recover" /\ journal = None
    /\ IF call = "recover" THEN pc' = "idle" /\ UNCHANGED mode
                           ELSE pc' = "handle" /\ mode' = "handle"
    /\ UNCHANGED <<call, journal, consumed, spent, disk, standing, faults>>

\* Mutant: a prepared mutation is published without asking the provider.
RecoverPreparedUnasked ==
    /\ pc = "recover" /\ journal # None /\ journal.phase = "prepared"
    /\ journal' = [journal EXCEPT !.phase = "consumed"] /\ Goto("publish")
    /\ UNCHANGED <<call, mode, consumed, spent, disk, standing, faults>>

RecoverPrepared ==
    /\ pc = "recover" /\ journal # None /\ journal.phase = "prepared"
    /\ standing = "bound"
    /\ IF consumed THEN journal' = [journal EXCEPT !.phase = "consumed"] /\ Goto("publish")
                   ELSE Goto("discard") /\ UNCHANGED journal
    /\ UNCHANGED <<call, mode, consumed, spent, disk, standing, faults>>

RecoverAuthorized ==
    /\ pc = "recover" /\ journal # None
    /\ journal.phase = "published" \/ (journal.phase = "consumed" /\ standing = "bound")
    /\ Goto("publish")
    /\ UNCHANGED <<call, mode, journal, consumed, spent, disk, standing, faults>>

\* The provider does not say whether it consumed the decision.
RecoverUnanswered ==
    /\ pc = "recover" /\ journal # None /\ journal.phase # "published"
    /\ faults < MaxFaults
    /\ pc' = "idle" /\ faults' = faults + 1
    /\ UNCHANGED <<call, mode, journal, consumed, spent, disk, standing>>

\* The request binds another TASK or adapter, or its decision is revoked.
RecoverRefused ==
    /\ pc = "recover" /\ journal # None /\ journal.phase # "published"
    /\ standing # "bound"
    /\ pc' = "idle"
    /\ UNCHANGED <<call, mode, journal, consumed, spent, disk, standing, faults>>

(***************************************************************************)
(* The commands, up to the decision.                                       *)
(***************************************************************************)
\* require_published_mutation_authority
Authoritative ==
    /\ head = Len(chain)
    /\ (\E s \in Skills : lock[s] # None) \/ life > 0 =>
          chain # <<>> /\ chain[head] = [lock |-> lock, life |-> life]

Replaced(s) == \E r \in Skills \ {s} : lock[r] # None /\ lock[r].status = "active"

\* What each command makes of the entry of a Skill.
Installed(s) == {[bundle |-> b, status |-> "active"] : b \in Bundles \ {ActiveUnder(lock, s)}}
Deprecated(s) ==
    {e \in {[lock[s] EXCEPT !.status = "deprecated"]} : lock[s].status = "active" /\ Replaced(s)}
Restored(s) ==
    {[l[s] EXCEPT !.status = "active"] : l \in {h \in archive : h[s] # None /\ h[s].bundle \in cas}}

\* Mutant: the journal takes every bundle for one it brought into the store.
PrepareAsFresh(s, e, b, event) ==
    /\ pc = "handle" /\ Len(chain) < MaxChain
    /\ Authoritative
    /\ journal' = [skill |-> s, bundle |-> b, fresh |-> TRUE, phase |-> "prepared",
                   seq |-> Len(chain) + 1, pre |-> lock, preLife |-> life,
                   post |-> [lock EXCEPT ![s] = e], postLife |-> life + event]
    /\ consumed' = FALSE /\ standing' = "bound"
    /\ Goto(IF b \in cas THEN "authorize" ELSE "copy")
    /\ UNCHANGED <<call, mode, spent, disk, faults>>

\* prepare_mutation_journal, with the intent command_install and the others derive:
\* the journal is on disk before any byte of the bundle is.
Prepare(s, e, b, event) ==
    /\ pc = "handle" /\ Len(chain) < MaxChain
    /\ Authoritative
    /\ journal' = [skill |-> s, bundle |-> b, fresh |-> b \notin cas, phase |-> "prepared",
                   seq |-> Len(chain) + 1, pre |-> lock, preLife |-> life,
                   post |-> [lock EXCEPT ![s] = e], postLife |-> life + event]
    /\ consumed' = FALSE /\ standing' = "bound"
    /\ Goto(IF b \in cas THEN "authorize" ELSE "copy")
    /\ UNCHANGED <<call, mode, spent, disk, faults>>

Install(s) == \E e \in Installed(s) : Prepare(s, e, e.bundle, 0)
Deprecate(s) == lock[s] # None /\ \E e \in Deprecated(s) : Prepare(s, e, e.bundle, 1)
Retire(s) ==
    /\ lock[s] # None
    /\ lock[s].status = "deprecated" /\ Replaced(s)
    /\ Prepare(s, None, lock[s].bundle, 1)
Quarantine(s) == lock[s] # None /\ Prepare(s, None, lock[s].bundle, 1)
Rollback(s) == \E e \in Restored(s) : Prepare(s, e, e.bundle, 1)

\* A check before the journal, or the provider asked for the request, says no.
Decline ==
    /\ pc = "handle"
    /\ Refused
    /\ UNCHANGED <<journal, consumed, spent, disk, standing, faults>>

\* write_bundle into the journal's private directory, and publish_new_bundle.
Copy ==
    /\ pc = "copy"
    /\ CASE private = "none"  -> private' = "part" /\ UNCHANGED <<pc, cas>>
         [] private = "part"  -> private' = "whole" /\ UNCHANGED <<pc, cas>>
         [] private = "whole" -> private' = "none" /\ cas' = cas \cup {journal.bundle}
                                 /\ Goto("authorize")
    /\ UNCHANGED <<call, mode, journal, consumed, spent, lock, life, archive, active,
                   remnants, tomb, chain, head, standing, faults>>

\* _state_documents_match and _active_matches, of the state before or after.
Documents(l, n) == lock = l /\ life = n
VerifiedPre == Documents(journal.pre, journal.preLife) /\ active[journal.skill] = Pre(journal.skill)
VerifiedPost == Documents(journal.post, journal.postLife) /\ active[journal.skill] = Post(journal.skill)

\* authorize_prepared_mutation: the provider consumes the request, if it is still bound
\* to TASK and adapter; then the journal records it.
Consume ==
    /\ pc = "authorize"
    /\ IF VerifiedPre /\ standing = "bound"
       THEN consumed' = TRUE /\ spent' = spent + 1 /\ Goto("record") /\ UNCHANGED <<call, mode>>
       ELSE Refused /\ UNCHANGED <<consumed, spent>>
    /\ UNCHANGED <<journal, disk, standing, faults>>

Record ==
    /\ pc = "record"
    /\ journal' = [journal EXCEPT !.phase = "consumed"]
    /\ Goto("publish")
    /\ UNCHANGED <<call, mode, consumed, spent, disk, standing, faults>>

(***************************************************************************)
(* publish_intended_state                                                  *)
(***************************************************************************)
Bodies(kind) == {r.body : r \in {q \in remnants : q.kind = kind}}
Aside(kind, body) == [kind |-> kind, body |-> body]
Foreign == \E r \in remnants : r.body \notin {Pre(journal.skill), Post(journal.skill)}

\* Mutant: a predecessor that was moved away is swept like any other remnant.
InspectOnly ==
    /\ pc = "publish"
    /\ IF journal.bundle \notin cas \/ Foreign THEN Refused
       ELSE Goto("sweep") /\ UNCHANGED <<call, mode>>
    /\ UNCHANGED <<journal, consumed, spent, disk, standing, faults>>

\* _recover_hidden_active: what an earlier try left is one of the two bundles, whole;
\* a predecessor that was moved away comes back.
Inspect ==
    /\ pc = "publish"
    /\ IF journal.bundle \notin cas \/ Foreign
       THEN Refused /\ UNCHANGED <<active, remnants>>
       ELSE /\ Goto("sweep") /\ UNCHANGED <<call, mode>>
            /\ IF active[journal.skill] = None /\ Bodies("old") # {}
               THEN \E b \in Bodies("old") :
                       /\ active' = [active EXCEPT ![journal.skill] = b]
                       /\ remnants' = remnants \ {Aside("old", b)}
               ELSE UNCHANGED <<active, remnants>>
    /\ UNCHANGED <<journal, consumed, spent, lock, life, archive, cas, private, tomb,
                   chain, head, standing, faults>>

\* shutil.rmtree of one remnant, file by file.
Removed(r) ==
    remnants' = (remnants \ {r}) \cup IF r.body = Part THEN {} ELSE {Aside(r.kind, Part)}

Sweep ==
    /\ pc = "sweep"
    /\ IF remnants = {} THEN Goto("target") /\ UNCHANGED remnants
                        ELSE (\E r \in remnants : Removed(r)) /\ UNCHANGED pc
    /\ UNCHANGED <<call, mode, journal, consumed, spent, lock, life, archive, active, cas,
                   private, tomb, chain, head, standing, faults>>

\* The directory is as it was or as it shall be; what is left to do with it.
Choose ==
    LET s == journal.skill
    IN  /\ pc = "target"
        /\ IF active[s] \notin {Pre(s), Post(s)} THEN Refused
           ELSE /\ UNCHANGED <<call, mode>>
                /\ Goto(IF Post(s) = None THEN "bury"
                        ELSE IF active[s] = Post(s) THEN "archive" ELSE "write")
        /\ UNCHANGED <<journal, consumed, spent, disk, standing, faults>>

\* activate_from_bundle: a copy beside the target, file by file; the target moves
\* away, the copy takes its place, and the predecessor is removed.
Write ==
    /\ pc = "write"
    /\ IF Bodies("copy") = {}
       THEN remnants' = remnants \cup {Aside("copy", Part)} /\ UNCHANGED pc
       ELSE remnants' = (remnants \ {Aside("copy", Part)}) \cup {Aside("copy", journal.bundle)}
            /\ Goto("swap")
    /\ UNCHANGED <<call, mode, journal, consumed, spent, lock, life, archive, active, cas,
                   private, tomb, chain, head, standing, faults>>

Swap ==
    LET s == journal.skill
    IN  /\ pc = "swap"
        /\ IF active[s] # None
           THEN /\ remnants' = remnants \cup {Aside("old", active[s])}
                /\ active' = [active EXCEPT ![s] = None]
                /\ UNCHANGED pc
           ELSE /\ remnants' = remnants \ {Aside("copy", journal.bundle)}
                /\ active' = [active EXCEPT ![s] = journal.bundle]
                /\ Goto("drop")
        /\ UNCHANGED <<call, mode, journal, consumed, spent, lock, life, archive, cas,
                       private, tomb, chain, head, standing, faults>>

Drop ==
    /\ pc = "drop"
    /\ IF remnants = {} THEN Goto("archive") /\ UNCHANGED remnants
                        ELSE (\E r \in remnants : Removed(r)) /\ UNCHANGED pc
    /\ UNCHANGED <<call, mode, journal, consumed, spent, lock, life, archive, active, cas,
                   private, tomb, chain, head, standing, faults>>

(***************************************************************************)
(* tombstone_remove_exact_tree, of a retired Skill's directory and of a    *)
(* bundle whose decision was not consumed: a manifest, a rename, the files *)
(* one by one, the directory, the manifest.                                *)
(***************************************************************************)
Discarding == journal.phase = "prepared"
Standing == IF Discarding THEN journal.bundle \in cas ELSE active[journal.skill] # None
Moved ==
    IF Discarding THEN cas' = cas \ {journal.bundle} /\ UNCHANGED active
                  ELSE active' = [active EXCEPT ![journal.skill] = None] /\ UNCHANGED cas

Bury ==
    /\ pc = "bury"
    /\ CASE ~tomb.manifest ->
              tomb' = [tomb EXCEPT !.manifest = TRUE] /\ UNCHANGED <<pc, active, cas>>
         [] tomb.manifest /\ Standing ->
              tomb' = [tomb EXCEPT !.tree = "whole"] /\ Moved /\ UNCHANGED pc
         [] tomb.manifest /\ ~Standing /\ tomb.tree = "whole" ->
              tomb' = [tomb EXCEPT !.tree = "part"] /\ UNCHANGED <<pc, active, cas>>
         [] tomb.manifest /\ ~Standing /\ tomb.tree = "part" ->
              tomb' = [tomb EXCEPT !.tree = "none"] /\ UNCHANGED <<pc, active, cas>>
         [] OTHER ->
              tomb' = NoTomb /\ Goto(IF Discarding THEN "forget" ELSE "archive")
              /\ UNCHANGED <<active, cas>>
    /\ UNCHANGED <<call, mode, journal, consumed, spent, lock, life, archive, remnants,
                   private, chain, head, standing, faults>>

(***************************************************************************)
(* _discard_unconsumed_mutation                                            *)
(***************************************************************************)
Discard ==
    /\ pc = "discard"
    /\ IF ~VerifiedPre THEN Refused /\ UNCHANGED private
       ELSE /\ UNCHANGED <<call, mode>>
            /\ CASE private = "whole" -> private' = "part" /\ UNCHANGED pc
                 [] private = "part"  -> private' = "none" /\ UNCHANGED pc
                 [] private = "none"  -> Goto(IF journal.fresh THEN "bury" ELSE "forget")
                                         /\ UNCHANGED private
    /\ UNCHANGED <<journal, consumed, spent, lock, life, archive, active, remnants, cas,
                   tomb, chain, head, standing, faults>>

\* The documents, one write each.
Archive ==
    /\ pc = "archive"
    /\ archive' = archive \cup ({journal.pre} \ {Empty})
    /\ Goto("lock")
    /\ UNCHANGED <<call, mode, journal, consumed, spent, lock, life, active, remnants, cas,
                   private, tomb, chain, head, standing, faults>>

WriteLock ==
    /\ pc = "lock"
    /\ IF lock \notin {journal.pre, journal.post} THEN Refused /\ UNCHANGED lock
       ELSE lock' = journal.post /\ Goto("life") /\ UNCHANGED <<call, mode>>
    /\ UNCHANGED <<journal, consumed, spent, life, archive, active, remnants, cas, private,
                   tomb, chain, head, standing, faults>>

WriteLife ==
    /\ pc = "life"
    /\ IF life \notin {journal.preLife, journal.postLife} THEN Refused /\ UNCHANGED life
       ELSE life' = journal.postLife /\ Goto("verify") /\ UNCHANGED <<call, mode>>
    /\ UNCHANGED <<journal, consumed, spent, lock, archive, active, remnants, cas, private,
                   tomb, chain, head, standing, faults>>

Verify ==
    /\ pc = "verify"
    /\ IF ~VerifiedPost THEN Refused /\ UNCHANGED journal
       ELSE /\ journal' = [journal EXCEPT !.phase = "published"]
            /\ Goto("history") /\ UNCHANGED <<call, mode>>
    /\ UNCHANGED <<consumed, spent, disk, standing, faults>>

WriteHistory ==
    /\ pc = "history"
    /\ chain' = IF Len(chain) < journal.seq
                THEN Append(chain, [lock |-> journal.post, life |-> journal.postLife]) ELSE chain
    /\ Goto("head")
    /\ UNCHANGED <<call, mode, journal, consumed, spent, lock, life, archive, active,
                   remnants, cas, private, tomb, head, standing, faults>>

\* The head moves on by one, or has moved already.
WriteHead ==
    /\ pc = "head"
    /\ IF head \notin {journal.seq - 1, journal.seq} THEN Refused /\ UNCHANGED head
       ELSE head' = journal.seq /\ Goto("forget") /\ UNCHANGED <<call, mode>>
    /\ UNCHANGED <<journal, consumed, spent, lock, life, archive, active, remnants, cas,
                   private, tomb, chain, standing, faults>>

\* The journal goes last; the handler is done, the recovery goes on with its command.
Forget ==
    /\ pc = "forget"
    /\ journal' = None /\ consumed' = FALSE /\ standing' = "bound"
    /\ Goto(IF mode = "handle" THEN "idle" ELSE "recover")
    /\ UNCHANGED <<call, mode, spent, disk, faults>>

(***************************************************************************)
(* Faults                                                                  *)
(***************************************************************************)
Busy == pc \notin {"idle", "recover", "handle"}

\* The process dies.
Crash ==
    /\ Busy /\ faults < MaxFaults
    /\ pc' = "idle" /\ faults' = faults + 1
    /\ UNCHANGED <<call, mode, journal, consumed, spent, disk, standing>>

\* A write or the provider raises an exception; the copy being written is removed.
Raise ==
    /\ Busy /\ faults < MaxFaults
    /\ faults' = faults + 1
    /\ Refused
    /\ private' = IF pc = "copy" THEN "none" ELSE private
    /\ remnants' = IF pc = "write" THEN remnants \ {Aside("copy", Part)} ELSE remnants
    /\ UNCHANGED <<journal, consumed, spent, lock, life, archive, active, cas, tomb, chain,
                   head, standing>>

(***************************************************************************)
(* The standing of the request in the journal, which nothing here keeps.   *)
(***************************************************************************)
\* agentctl start or escalate-mode, or an update of the adapter; a transition may be
\* rolled back or restored.
TaskMoves ==
    /\ journal # None /\ standing = "bound" /\ faults < MaxFaults
    /\ standing' = "unbound" /\ faults' = faults + 1
    /\ UNCHANGED <<pc, call, mode, journal, consumed, spent, disk>>

TaskReturns ==
    /\ standing = "unbound"
    /\ standing' = "bound"
    /\ UNCHANGED <<pc, call, mode, journal, consumed, spent, disk, faults>>

\* The user revokes the consumed decision at the provider.
Revoke ==
    /\ consumed /\ standing # "revoked" /\ faults < MaxFaults
    /\ standing' = "revoked" /\ faults' = faults + 1
    /\ UNCHANGED <<pc, call, mode, journal, consumed, spent, disk>>

Elsewhere == TaskMoves \/ TaskReturns \/ Revoke

Continue ==
    \/ RecoverNothing \/ RecoverPrepared \/ RecoverAuthorized \/ RecoverRefused
    \/ Copy \/ Consume \/ Record
    \/ Inspect \/ Sweep \/ Choose \/ Write \/ Swap \/ Drop \/ Bury \/ Discard
    \/ Archive \/ WriteLock \/ WriteLife \/ Verify \/ WriteHistory \/ WriteHead \/ Forget

Mutate ==
    \/ \E s \in Skills :
          Install(s) \/ Deprecate(s) \/ Retire(s) \/ Quarantine(s) \/ Rollback(s)
    \/ Decline

Next ==
    \/ \E c \in {"mutate", "recover"} : Start(c)
    \/ Continue \/ Mutate
    \/ RecoverUnanswered \/ Crash \/ Raise \/ Elsewhere

\* A command runs on until it ends, and somebody calls recover as README.md:165 says.
Spec ==
    /\ Init /\ [][Next]_vars
    /\ WF_vars(Continue) /\ WF_vars(Start("recover"))

(***************************************************************************)
(* Properties                                                              *)
(***************************************************************************)
TypeOK ==
    /\ pc \in {"idle", "recover", "handle", "copy", "authorize", "record", "publish", "sweep",
               "target", "write", "swap", "drop", "bury", "discard", "archive", "lock", "life",
               "verify", "history", "head", "forget"}
    /\ call \in {"mutate", "recover"} /\ mode \in {"handle", "recover"}
    /\ journal \in Journals \cup {None}
    /\ consumed \in BOOLEAN /\ standing \in {"bound", "unbound", "revoked"}
    /\ {spent, life, head, faults} \subseteq Nat
    /\ lock \in Locks /\ archive \subseteq Locks
    /\ active \in [Skills -> Bundles \cup {None}]
    /\ remnants \subseteq [kind : {"old", "copy"}, body : Bundles \cup {Part}]
    /\ cas \subseteq Bundles /\ private \in {"none", "part", "whole"}
    /\ tomb \in [manifest : BOOLEAN, tree : {"none", "whole", "part"}]
    /\ chain \in Seq([lock : Locks, life : Nat])

\* Between mutations nothing is left over, the head binds a chain whose last record is
\* the present lock and lifecycle (or the next mutation would be refused for good), and
\* the content store holds what is registered and nothing that never was: "a kill leaves
\* an unaudited orphan" (skillctl.py:1659) if the journal does not come first.
Audited ==
    journal = None =>
        /\ Authoritative
        /\ remnants = {} /\ private = "none" /\ tomb = NoTomb
        /\ cas = {ActiveUnder(chain[i].lock, s) : i \in 1..Len(chain), s \in Skills} \ {None}

\* Whatever dies or fails where, the lock, the lifecycle and the active directories of
\* the Skills change as one, when the decision is consumed and not otherwise, each time
\* with a decision of its own: what a mutation left half done is undone or finished.
InForce ==
    IF journal = None
    THEN [lock |-> lock, life |-> life, active |-> active]
    ELSE IF consumed
    THEN [lock |-> journal.post, life |-> journal.postLife,
          active |-> [s \in Skills |-> Post(s)]]
    ELSE [lock |-> journal.pre, life |-> journal.preLife,
          active |-> [s \in Skills |-> Pre(s)]]

Register == INSTANCE SkillRegister WITH
    register <- InForce.lock, events <- InForce.life, present <- InForce.active

RegisterSpec == Register!Spec

\* The status of the request is refused: another task, another adapter or a revocation
\* came before the journal was published.
Unanswerable == journal.phase # "published" /\ standing # "bound"

\* Recovery comes to an end but for two cases in which the journal stays and every
\* further mutation is refused: a death in the middle of a copy or of a removal left a
\* directory that is neither bundle, which no command will touch (skillctl.py:2759), and
\* the request is no longer one the provider answers for (skillctl.py:2935-2947).
RecoveryEnds == journal # None ~> (journal = None \/ Foreign \/ Unanswerable)
=============================================================================
