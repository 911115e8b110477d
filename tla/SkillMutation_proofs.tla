--------------------------- MODULE SkillMutation_proofs --------------------------
(***************************************************************************)
(* Proofs that the mutations of the dynamic Skills implement SkillRegister *)
(* and leave nothing behind, for any Skills, bundles, numbers of mutations *)
(* and of faults.                                                          *)
(***************************************************************************)
EXTENDS SkillMutation, TLAPS, SequenceTheorems

Types ==
    /\ lock \in Locks /\ archive \subseteq Locks
    /\ life \in Nat /\ chain \in Seq([lock : Locks, life : Nat])
    /\ active \in [Skills -> Bundles \cup {None}]

Fields == {"skill", "bundle", "fresh", "phase", "seq", "pre", "preLife", "post", "postLife"}

\* A journal, and the one entry it is about.
Intends(j) ==
    /\ j \in Journals /\ DOMAIN j = Fields
    /\ j.skill \in Skills /\ j.bundle \in Bundles
    /\ j.pre \in Locks /\ j.preLife \in Nat
    /\ \E e \in Entries \cup {None} : j.post = [j.pre EXCEPT ![j.skill] = e]
    /\ j.post[j.skill] # None => j.post[j.skill].bundle = j.bundle
    /\ \/ j.postLife = j.preLife + 1
       \/ j.postLife = j.preLife /\ j.post[j.skill] # None

JournalKept ==
    /\ journal # None => Intends(journal)
    /\ journal # None /\ journal.phase # "prepared" => consumed

\* The documents and the directories are as before or as after; while the decision is
\* not consumed they are as before, and so they are of every other Skill.
StatePlaced ==
    /\ journal = None => \A s \in Skills : active[s] = ActiveUnder(lock, s)
    /\ journal # None =>
          /\ lock \in {journal.pre, journal.post}
          /\ life \in {journal.preLife, journal.postLife}
          /\ \A s \in Skills \ {journal.skill} : active[s] = Pre(s)
          /\ ~consumed => VerifiedPre

Publishes ==
    {"publish", "sweep", "target", "write", "swap", "drop", "archive", "lock", "life",
     "verify", "history", "head"}

ControlKept ==
    /\ pc = "handle" => journal = None
    /\ pc \in {"copy", "authorize", "discard"} => journal # None /\ ~consumed
    /\ pc = "record" => journal # None /\ consumed
    /\ pc \in Publishes => journal # None /\ consumed /\ journal.phase # "prepared"
    /\ pc = "bury" => journal # None /\ (Discarding => ~consumed)
    /\ pc \in {"history", "head"} => VerifiedPost
    /\ pc = "forget" => journal # None /\ (consumed => VerifiedPost)

PrivateTyped == private \in {"none", "part", "whole"}

Kept == Types /\ JournalKept /\ StatePlaced /\ ControlKept

(***************************************************************************)
(* A step only moves the journal's phase, or not even that.                *)
(***************************************************************************)
SameJournal ==
    \/ journal' = journal
    \/ \E p \in {"consumed", "published"} : journal' = [journal EXCEPT !.phase = p]

\* The journal but for its phase.
SameIntent ==
    /\ journal # None /\ journal' # None
    /\ journal'.skill = journal.skill /\ journal'.bundle = journal.bundle
    /\ journal'.fresh = journal.fresh /\ journal'.seq = journal.seq
    /\ journal'.pre = journal.pre /\ journal'.preLife = journal.preLife
    /\ journal'.post = journal.post /\ journal'.postLife = journal.postLife

LEMMA IntentStays ==
  ASSUME JournalKept, journal # None, SameJournal
  PROVE  /\ SameIntent /\ Intends(journal')
         /\ journal'.phase = journal.phase \/ journal'.phase \in {"consumed", "published"}
  <1>1. DOMAIN journal = Fields
    BY DEF JournalKept, Intends
  <1>2. CASE journal' = journal
    BY <1>2 DEF JournalKept, SameIntent
  <1>3. CASE \E p \in {"consumed", "published"} : journal' = [journal EXCEPT !.phase = p]
    <2>1. PICK p \in {"consumed", "published"} : journal' = [journal EXCEPT !.phase = p]
      BY <1>3
    <2>2. /\ DOMAIN journal' = Fields /\ journal'.phase = p
          /\ journal'.skill = journal.skill /\ journal'.bundle = journal.bundle
          /\ journal'.fresh = journal.fresh /\ journal'.seq = journal.seq
          /\ journal'.pre = journal.pre /\ journal'.preLife = journal.preLife
          /\ journal'.post = journal.post /\ journal'.postLife = journal.postLife
      BY <1>1, <2>1 DEF Fields
    <2>3. journal' \in Journals /\ journal' # None
      BY <2>1, SkillAssumption DEF JournalKept, Intends, Journals
    <2>4. Intends(journal')
      BY <2>2, <2>3 DEF JournalKept, Intends
    <2> QED
      BY <2>1, <2>2, <2>3, <2>4 DEF SameIntent
  <1> QED
    BY <1>2, <1>3 DEF SameJournal

(***************************************************************************)
(* What the commands intend.                                               *)
(***************************************************************************)
\* The entry e a command gives Skill s, of bundle b, with so many events.
Change(s, e, b, event) ==
    /\ e \in Entries \cup {None} /\ b \in Bundles
    /\ e # None => e.bundle = b
    /\ e = None => lock[s] # None /\ b = lock[s].bundle
    /\ event = 1 \/ (event = 0 /\ e # None)
    /\ Prepare(s, e, b, event)

LEMMA EntryTypes ==
  ASSUME NEW l \in Locks, NEW s \in Skills
  PROVE  /\ l[s] # None => l[s] \in Entries /\ l[s].bundle \in Bundles
         /\ ActiveUnder(l, s) \in Bundles \cup {None}
  BY DEF Locks, Entries, ActiveUnder

LEMMA Changes ==
  ASSUME Types, NEW s \in Skills,
         Install(s) \/ Deprecate(s) \/ Retire(s) \/ Quarantine(s) \/ Rollback(s)
  PROVE  \E e, b, event : Change(s, e, b, event)
  <1>1. lock \in Locks /\ archive \subseteq Locks
    BY DEF Types
  <1>2. CASE Install(s)
    <2>1. PICK e \in Installed(s) : Prepare(s, e, e.bundle, 0)
      BY <1>2 DEF Install
    <2>2. e \in Entries /\ e.bundle \in Bundles
      BY <2>1 DEF Installed, Entries
    <2>3. e # None
      BY <2>2, SkillAssumption
    <2>4. Change(s, e, e.bundle, 0)
      BY <2>1, <2>2, <2>3 DEF Change
    <2> QED
      BY <2>4
  <1>3. CASE Deprecate(s)
    <2>1. PICK e \in Deprecated(s) : lock[s] # None /\ Prepare(s, e, e.bundle, 1)
      BY <1>3 DEF Deprecate
    <2>2. lock[s] \in Entries
      BY <1>1, <2>1, EntryTypes
    <2>3. e = [lock[s] EXCEPT !.status = "deprecated"]
      BY <2>1 DEF Deprecated
    <2>4. e \in Entries /\ e.bundle \in Bundles /\ e # None
      BY <2>2, <2>3, SkillAssumption DEF Entries
    <2>5. Change(s, e, e.bundle, 1)
      BY <2>1, <2>4 DEF Change
    <2> QED
      BY <2>5
  <1>4. CASE Retire(s) \/ Quarantine(s)
    <2>1. lock[s] # None /\ Prepare(s, None, lock[s].bundle, 1)
      BY <1>4 DEF Retire, Quarantine
    <2>2. lock[s].bundle \in Bundles
      BY <1>1, <2>1, EntryTypes
    <2>3. Change(s, None, lock[s].bundle, 1)
      BY <2>1, <2>2 DEF Change
    <2> QED
      BY <2>3
  <1>5. CASE Rollback(s)
    <2>1. PICK e \in Restored(s) : Prepare(s, e, e.bundle, 1)
      BY <1>5 DEF Rollback
    <2>2. PICK l \in archive : l[s] # None /\ e = [l[s] EXCEPT !.status = "active"]
      BY <2>1 DEF Restored
    <2>3. l[s] \in Entries
      BY <1>1, <2>2, EntryTypes
    <2>4. e \in Entries /\ e.bundle \in Bundles /\ e # None
      BY <2>2, <2>3, SkillAssumption DEF Entries
    <2>5. Change(s, e, e.bundle, 1)
      BY <2>1, <2>4 DEF Change
    <2> QED
      BY <2>5
  <1> QED
    BY <1>2, <1>3, <1>4, <1>5

LEMMA Intention ==
  ASSUME Types, NEW s \in Skills, NEW e, NEW b, NEW event, Change(s, e, b, event)
  PROVE  /\ journal' # None /\ Intends(journal')
         /\ journal'.skill = s /\ journal'.bundle = b /\ journal'.phase = "prepared"
         /\ journal'.fresh = (b \notin cas) /\ journal'.seq = Len(chain) + 1
         /\ journal'.pre = lock /\ journal'.preLife = life
         /\ journal'.post = [lock EXCEPT ![s] = e] /\ journal'.postLife = life + event
  <1> DEFINE post == [lock EXCEPT ![s] = e]
             fresh == b \notin cas
  <1>1. journal' = [skill |-> s, bundle |-> b, fresh |-> fresh, phase |-> "prepared",
                    seq |-> Len(chain) + 1, pre |-> lock, preLife |-> life,
                    post |-> post, postLife |-> life + event]
    BY DEF Change, Prepare
  <1>2. e \in Entries \cup {None} /\ b \in Bundles /\ lock \in Locks /\ life \in Nat
    BY DEF Change, Types
  <1>3. (e # None => e.bundle = b) /\ (event = 1 \/ (event = 0 /\ e # None))
    BY DEF Change
  <1>4. post[s] = e /\ post \in Locks
    BY <1>2 DEF Locks
  <1>5. life + event \in Nat /\ Len(chain) + 1 \in Nat
    BY <1>2, <1>3, LenProperties DEF Types
  <1>6. fresh \in BOOLEAN
    OBVIOUS
  <1>7. \E x \in Entries \cup {None} : post = [lock EXCEPT ![s] = x]
    BY <1>2
  <1> HIDE DEF post, fresh
  <1>8. journal' \in Journals
    BY <1>1, <1>2, <1>4, <1>5, <1>6, Zenon DEF Journals
  <1>9. journal' # None
    BY <1>8, SkillAssumption
  <1>10. DOMAIN journal' = Fields
    BY <1>1 DEF Fields
  <1>11. /\ journal'.skill = s /\ journal'.bundle = b /\ journal'.phase = "prepared"
         /\ journal'.seq = Len(chain) + 1
         /\ journal'.pre = lock /\ journal'.preLife = life
         /\ journal'.post = post /\ journal'.postLife = life + event
    BY <1>1
  <1>12. journal'.fresh = fresh
    BY <1>1
  <1>13. Intends(journal')
    <2> HIDE DEF Fields
    <2>1. \/ journal'.postLife = journal'.preLife + 1
          \/ (journal'.postLife = journal'.preLife /\ e # None)
      BY <1>2, <1>3, <1>11
    <2>2. \E x \in Entries \cup {None} : journal'.post = [journal'.pre EXCEPT ![journal'.skill] = x]
      BY <1>7, <1>11
    <2>3. journal'.post[journal'.skill] = e
      BY <1>4, <1>11
    <2> QED
      BY <1>2, <1>3, <1>8, <1>10, <1>11, <2>1, <2>2, <2>3 DEF Intends
  <1> QED
    BY <1>9, <1>11, <1>12, <1>13 DEF post, fresh

LEMMA PrepareStep ==
  ASSUME Kept, NEW s \in Skills, NEW e, NEW b, NEW event, Change(s, e, b, event)
  PROVE  Kept'
  <1>1. pc = "handle" /\ journal = None /\ consumed' = FALSE /\ pc' \in {"authorize", "copy"}
        /\ UNCHANGED disk
    BY DEF Change, Prepare, Goto, Kept, ControlKept
  <1>2. /\ journal' # None /\ Intends(journal') /\ journal'.phase = "prepared"
        /\ journal'.skill = s /\ journal'.pre = lock /\ journal'.preLife = life
    BY Intention DEF Kept
  <1>3. /\ lock' = lock /\ life' = life /\ active' = active /\ archive' = archive
    BY <1>1 DEF disk
  <1>4. Types' /\ JournalKept'
    BY <1>1, <1>2, <1>3 DEF Kept, Types, JournalKept, disk
  <1>5. VerifiedPre' /\ \A t \in Skills : active'[t] = ActiveUnder(lock, t)
    BY <1>1, <1>2, <1>3 DEF Kept, StatePlaced, VerifiedPre, Documents, Pre
  <1>6. StatePlaced'
    BY <1>2, <1>3, <1>5 DEF StatePlaced, Pre
  <1>7. ControlKept'
    BY <1>1, <1>2 DEF ControlKept, Publishes
  <1> QED
    BY <1>4, <1>6, <1>7 DEF Kept

(***************************************************************************)
(* The steps of recovery and publication.                                  *)
(***************************************************************************)
\* The state before and after, which a change of phase leaves.
LEMMA SameSides ==
  ASSUME JournalKept, journal # None, SameJournal
  PROVE  /\ journal'.skill = journal.skill
         /\ \A s : Pre(s)' = Pre(s) /\ Post(s)' = Post(s)
  BY IntentStays DEF SameIntent, Pre, Post, ActiveUnder

LEMMA SideTypes ==
  ASSUME JournalKept, journal # None
  PROVE  /\ journal.skill \in Skills
         /\ journal.pre \in Locks /\ journal.post \in Locks
         /\ journal.preLife \in Nat /\ journal.postLife \in Nat
         /\ \A s \in Skills : Pre(s) \in Bundles \cup {None} /\ Post(s) \in Bundles \cup {None}
         /\ \A s \in Skills \ {journal.skill} : Pre(s) = Post(s)
         /\ Post(journal.skill) # None => Post(journal.skill) = journal.bundle
  <1>1. Intends(journal)
    BY DEF JournalKept
  <1>2. PICK e \in Entries \cup {None} : journal.post = [journal.pre EXCEPT ![journal.skill] = e]
    BY <1>1 DEF Intends
  <1>3. journal.post \in Locks /\ \A s \in Skills \ {journal.skill} : journal.post[s] = journal.pre[s]
    BY <1>1, <1>2 DEF Intends, Locks
  <1>4. \A s \in Skills : Pre(s) \in Bundles \cup {None} /\ Post(s) \in Bundles \cup {None}
    BY <1>1, <1>3, EntryTypes DEF Intends, Pre, Post
  <1> QED
    BY <1>1, <1>3, <1>4 DEF Intends, Pre, Post, ActiveUnder

\* Any step with the journal in place that moves documents and directories only from
\* before to after, and only once the decision is consumed.
LEMMA Moves ==
  ASSUME Kept, journal # None, SameJournal,
         lock' \in {lock, journal.post}, life' \in {life, journal.postLife},
         archive' \subseteq archive \cup {journal.pre}, chain' \in Seq([lock : Locks, life : Nat]),
         active' \in [Skills -> Bundles \cup {None}],
         \A s \in Skills \ {journal.skill} : active'[s] = active[s],
         consumed => consumed',
         ~consumed => UNCHANGED <<lock, life, active>>,
         journal' # journal => consumed'
  PROVE  Types' /\ JournalKept' /\ StatePlaced'
  <1>1. Types'
    BY SideTypes DEF Kept, Types
  <1>2. SameIntent /\ Intends(journal')
        /\ (journal'.phase = journal.phase \/ journal'.phase \in {"consumed", "published"})
    BY IntentStays DEF Kept
  <1>3. JournalKept'
    BY <1>2 DEF Kept, JournalKept, SameJournal
  <1>4. StatePlaced'
    BY <1>2, SameSides DEF Kept, StatePlaced, SameIntent, VerifiedPre, Documents
  <1> QED
    BY <1>1, <1>3, <1>4

kept == <<journal, consumed, lock, life, archive, active, chain>>

\* What happens to the standing of the request leaves all else as it is.
still == <<pc, call, mode, journal, consumed, spent, disk>>
StandsBy == Elsewhere \/ UNCHANGED vars

LEMMA Standby == StandsBy => UNCHANGED still
  BY DEF StandsBy, Elsewhere, TaskMoves, TaskReturns, Revoke, vars, disk, still

LEMMA Stays ==
  ASSUME Kept, UNCHANGED kept
  PROVE  Types' /\ JournalKept' /\ StatePlaced'
  BY DEF Kept, kept, Types, JournalKept, StatePlaced, VerifiedPre, Documents, Pre

LEMMA Loose ==
  ASSUME pc' \in {"idle", "recover"}
  PROVE  ControlKept'
  BY DEF ControlKept, Publishes

LEMMA Refusal == Refused => pc' \in {"idle", "recover"}
  BY DEF Refused

\* Steps that only go on, give up or look.
LEMMA ControlStep ==
  ASSUME Kept,
         \/ \E c \in {"mutate", "recover"} : Start(c)
         \/ RecoverNothing \/ RecoverAuthorized \/ RecoverUnanswered \/ RecoverRefused
         \/ Decline \/ Choose \/ Crash \/ Raise
  PROVE  Kept'
  <1>1. UNCHANGED kept
    BY DEF Start, RecoverNothing, RecoverAuthorized, RecoverUnanswered, RecoverRefused,
           Decline, Choose, Crash, Raise, disk, kept
  <1>2. ControlKept'
    <2>1. CASE RecoverNothing
      BY <2>1 DEF RecoverNothing, ControlKept, Publishes
    <2>2. CASE RecoverAuthorized
      BY <2>2 DEF RecoverAuthorized, Goto, ControlKept, Kept, JournalKept
    <2>3. CASE Choose
      <3>1. pc' \in {"idle", "recover"} \/ pc' \in {"bury", "archive", "write"}
        BY <2>3, Refusal DEF Choose, Goto
      <3>2. UNCHANGED <<journal, consumed>>
        BY <1>1 DEF kept
      <3>3. consumed /\ journal # None /\ journal.phase # "prepared"
        BY <2>3 DEF Choose, Kept, ControlKept, Publishes
      <3> QED
        BY <3>1, <3>2, <3>3, Loose DEF ControlKept, Discarding
    <2>4. CASE Decline \/ Raise
      BY <2>4, Refusal, Loose DEF Decline, Raise
    <2>5. CASE \/ RecoverUnanswered \/ RecoverRefused \/ Crash
               \/ \E c \in {"mutate", "recover"} : Start(c)
      BY <2>5, Loose DEF RecoverUnanswered, RecoverRefused, Crash, Start
    <2> QED
      BY <2>1, <2>2, <2>3, <2>4, <2>5
  <1> QED
    BY <1>1, <1>2, Stays DEF Kept

\* The decision is on record, and publication begins.
LEMMA PhaseMoves ==
  ASSUME Kept, journal # None, consumed, consumed' = consumed,
         UNCHANGED <<lock, life, archive, active, chain>>, pc' = "publish",
         journal' = [journal EXCEPT !.phase = "consumed"]
  PROVE  Kept'
  <1>1. SameJournal
    BY DEF SameJournal
  <1>2. Types' /\ JournalKept' /\ StatePlaced'
    BY <1>1, Moves DEF Kept, Types
  <1>3. DOMAIN journal = Fields
    BY DEF Kept, JournalKept, Intends
  <1>4. journal'.phase = "consumed"
    BY <1>3 DEF Fields
  <1>5. journal' # None
    BY <1>1, IntentStays DEF Kept, SameIntent
  <1>6. ControlKept'
    BY <1>4, <1>5 DEF ControlKept, Publishes
  <1> QED
    BY <1>2, <1>6 DEF Kept

\* Before the decision is consumed.
LEMMA BeforeStep ==
  ASSUME Kept, PrivateTyped, RecoverPrepared \/ Copy \/ Consume \/ Record \/ Discard
  PROVE  Kept'
  <1>1. CASE RecoverPrepared
    <2>1. journal # None /\ consumed' = consumed /\ UNCHANGED disk
      BY <1>1 DEF RecoverPrepared
    <2>2. CASE consumed
      <3>1. journal' = [journal EXCEPT !.phase = "consumed"] /\ pc' = "publish"
        BY <1>1, <2>2 DEF RecoverPrepared, Goto
      <3> QED
        BY <2>1, <2>2, <3>1, PhaseMoves DEF disk
    <2>3. CASE ~consumed
      <3>1. journal' = journal /\ pc' = "discard"
        BY <1>1, <2>3 DEF RecoverPrepared, Goto
      <3>2. UNCHANGED kept
        BY <2>1, <3>1 DEF kept, disk
      <3>3. ControlKept'
        BY <2>1, <2>3, <3>1 DEF ControlKept, Publishes
      <3> QED
        BY <3>2, <3>3, Stays DEF Kept
    <2> QED
      BY <2>2, <2>3
  <1>2. CASE Record
    <2>1. /\ journal # None /\ consumed /\ consumed' = consumed /\ UNCHANGED disk
          /\ journal' = [journal EXCEPT !.phase = "consumed"] /\ pc' = "publish"
      BY <1>2 DEF Record, Goto, Kept, ControlKept
    <2> QED
      BY <2>1, PhaseMoves DEF disk
  <1>3. CASE Copy
    <2>1. UNCHANGED kept /\ pc = "copy"
      BY <1>3 DEF Copy, kept
    <2>2. pc' = pc \/ pc' = "authorize"
      BY <1>3 DEF Copy, Goto, PrivateTyped
    <2>3. ControlKept'
      BY <2>1, <2>2 DEF Kept, ControlKept, kept, Publishes
    <2> QED
      BY <2>1, <2>3, Stays DEF Kept
  <1>4. CASE Consume
    <2>1. journal # None /\ ~consumed /\ journal' = journal /\ UNCHANGED disk
      BY <1>4 DEF Consume, Kept, ControlKept
    <2>2. CASE VerifiedPre /\ standing = "bound"
      <3>1. consumed' = TRUE /\ pc' = "record"
        BY <1>4, <2>2 DEF Consume, Goto
      <3>2. ControlKept'
        BY <2>1, <3>1 DEF ControlKept, Publishes
      <3> QED
        BY <2>1, <3>1, <3>2 DEF Kept, Types, JournalKept, StatePlaced, Pre, disk
    <2>3. CASE ~(VerifiedPre /\ standing = "bound")
      <3>1. UNCHANGED kept /\ pc' \in {"idle", "recover"}
        BY <1>4, <2>1, <2>3, Refusal DEF Consume, kept, disk
      <3> QED
        BY <3>1, Stays, Loose DEF Kept
    <2> QED
      BY <2>2, <2>3
  <1>5. CASE Discard
    <2>1. journal # None /\ ~consumed /\ UNCHANGED kept
      BY <1>5 DEF Discard, kept, Kept, ControlKept
    <2>2. pc' \in {"idle", "recover"} \/ pc' \in {"discard", "bury", "forget"}
      BY <1>5, Refusal DEF Discard, Goto, PrivateTyped
    <2>3. ControlKept'
      <3>1. journal' = journal /\ consumed' = consumed
        BY <2>1 DEF kept
      <3> QED
        BY <2>1, <2>2, <3>1, Loose DEF ControlKept, Publishes
    <2> QED
      BY <2>1, <2>3, Stays DEF Kept
  <1> QED
    BY <1>1, <1>2, <1>3, <1>4, <1>5

\* While the state is being published.
LEMMA PublishStep ==
  ASSUME Kept, \/ Inspect \/ Sweep \/ Write \/ Swap \/ Drop
               \/ Archive \/ WriteLock \/ WriteLife \/ Verify \/ WriteHistory \/ WriteHead
  PROVE  Kept'
  <1>1. journal # None /\ consumed /\ journal.phase # "prepared" /\ pc \in Publishes
    BY DEF Kept, ControlKept, Publishes, Inspect, Sweep, Write, Swap, Drop, Archive, WriteLock,
           WriteLife, Verify, WriteHistory, WriteHead
  <1>2. consumed' = consumed
    BY DEF Inspect, Sweep, Write, Swap, Drop, Archive, WriteLock, WriteLife, Verify,
           WriteHistory, WriteHead, disk
  <1>3. ASSUME SameJournal, Types' /\ JournalKept' /\ StatePlaced',
               \/ pc' \in {"idle", "recover"}
               \/ pc' \in Publishes \ {"history", "head"}
               \/ pc' \in {"history", "head", "forget"} /\ VerifiedPost'
        PROVE  Kept'
    <2>1. journal' # None /\ journal'.phase # "prepared"
      BY <1>1, <1>3, IntentStays DEF SameIntent, Kept
    <2>2. ControlKept'
      BY <1>1, <1>2, <1>3, <2>1, Loose DEF ControlKept, Publishes
    <2> QED
      BY <1>3, <2>2 DEF Kept
  <1>4. UNCHANGED journal => SameJournal
    BY DEF SameJournal
  <1>5. CASE Sweep \/ Drop \/ Write
    <2>1. UNCHANGED kept /\ pc' \in Publishes \ {"history", "head"}
      BY <1>5 DEF Sweep, Drop, Write, Goto, Publishes, kept
    <2> QED
      BY <1>3, <1>4, <2>1, Stays DEF kept
  <1>6. CASE Inspect
    <2>1. UNCHANGED <<journal, lock, life, archive, chain>>
      BY <1>6 DEF Inspect
    <2>2. pc' \in {"idle", "recover"} \/ pc' = "sweep"
      BY <1>6, Refusal DEF Inspect, Goto
    <2>3. active' = active \/ \E b \in {Pre(journal.skill), Post(journal.skill)} :
                                 active' = [active EXCEPT ![journal.skill] = b]
      BY <1>6 DEF Inspect, Foreign, Bodies
    <2>4. /\ active' \in [Skills -> Bundles \cup {None}]
          /\ \A s \in Skills \ {journal.skill} : active'[s] = active[s]
      BY <1>1, <2>3, SideTypes DEF Kept, Types
    <2>5. Types' /\ JournalKept' /\ StatePlaced'
      BY <1>1, <1>2, <1>4, <2>1, <2>4, Moves DEF Kept, Types
    <2> QED
      BY <1>3, <1>4, <2>1, <2>2, <2>5 DEF Publishes
  <1>7. CASE Swap
    <2>1. UNCHANGED <<journal, lock, life, archive, chain>> /\ pc' \in {"swap", "drop"}
      BY <1>7 DEF Swap, Goto
    <2>2. \E b \in {None, journal.bundle} : active' = [active EXCEPT ![journal.skill] = b]
      BY <1>7 DEF Swap
    <2>3. journal.skill \in Skills /\ journal.bundle \in Bundles
      BY <1>1 DEF Kept, JournalKept, Intends
    <2>4. /\ active' \in [Skills -> Bundles \cup {None}]
          /\ \A s \in Skills \ {journal.skill} : active'[s] = active[s]
      BY <2>2, <2>3 DEF Kept, Types
    <2>5. Types' /\ JournalKept' /\ StatePlaced'
      BY <1>1, <1>2, <1>4, <2>1, <2>4, Moves DEF Kept, Types
    <2> QED
      BY <1>3, <1>4, <2>1, <2>5 DEF Publishes
  <1>8. CASE Archive
    <2>1. UNCHANGED <<journal, lock, life, active, chain>> /\ pc' = "lock"
          /\ archive' \subseteq archive \cup {journal.pre}
      BY <1>8 DEF Archive, Goto
    <2>2. Types' /\ JournalKept' /\ StatePlaced'
      BY <1>1, <1>2, <1>4, <2>1, Moves DEF Kept, Types
    <2> QED
      BY <1>3, <1>4, <2>1, <2>2 DEF Publishes
  <1>9. CASE WriteLock \/ WriteLife
    <2>1. UNCHANGED <<journal, archive, active, chain>>
          /\ lock' \in {lock, journal.post} /\ life' \in {life, journal.postLife}
      BY <1>9 DEF WriteLock, WriteLife
    <2>2. pc' \in {"idle", "recover"} \/ pc' \in {"life", "verify"}
      BY <1>9, Refusal DEF WriteLock, WriteLife, Goto
    <2>3. Types' /\ JournalKept' /\ StatePlaced'
      BY <1>1, <1>2, <1>4, <2>1, Moves DEF Kept, Types
    <2> QED
      BY <1>3, <1>4, <2>1, <2>2, <2>3 DEF Publishes
  <1>10. CASE Verify
    <2>1. CASE ~VerifiedPost
      <3>1. UNCHANGED kept /\ pc' \in {"idle", "recover"}
        BY <1>10, <2>1, Refusal DEF Verify, kept, disk
      <3> QED
        BY <3>1, Stays, Loose DEF Kept
    <2>2. CASE VerifiedPost
      <3>1. /\ journal' = [journal EXCEPT !.phase = "published"] /\ pc' = "history"
            /\ UNCHANGED <<lock, life, archive, active, chain>>
        BY <1>10, <2>2 DEF Verify, Goto, disk
      <3>2. SameJournal
        BY <3>1 DEF SameJournal
      <3>3. Types' /\ JournalKept' /\ StatePlaced'
        BY <1>1, <1>2, <3>1, <3>2, Moves DEF Kept, Types
      <3>4. VerifiedPost'
        BY <1>1, <2>2, <3>1, <3>2, SameSides, IntentStays
        DEF VerifiedPost, Documents, SameIntent, Kept
      <3> QED
        BY <1>3, <3>1, <3>2, <3>3, <3>4
    <2> QED
      BY <2>1, <2>2
  <1>11. CASE WriteHistory
    <2>1. VerifiedPost /\ pc' = "head" /\ UNCHANGED <<journal, lock, life, archive, active>>
      BY <1>11 DEF WriteHistory, Goto, Kept, ControlKept
    <2>2. chain' \in Seq([lock : Locks, life : Nat])
      <3> DEFINE x == [lock |-> journal.post, life |-> journal.postLife]
                 S == [lock : Locks, life : Nat]
      <3>1. x \in S
        BY <1>1, SideTypes DEF Kept
      <3>2. chain' \in {chain, Append(chain, x)}
        BY <1>11 DEF WriteHistory
      <3>3. chain \in Seq(S)
        BY DEF Kept, Types
      <3> HIDE DEF x, S
      <3>4. chain' \in Seq(S)
        BY <3>1, <3>2, <3>3, AppendProperties
      <3> QED
        BY <3>4 DEF S
    <2>3. Types' /\ JournalKept' /\ StatePlaced'
      BY <1>1, <1>2, <1>4, <2>1, <2>2, Moves DEF Kept, Types
    <2>4. VerifiedPost'
      BY <2>1 DEF VerifiedPost, Documents, Post
    <2> QED
      BY <1>3, <1>4, <2>1, <2>3, <2>4
  <1>12. CASE WriteHead
    <2>1. VerifiedPost /\ UNCHANGED kept
      BY <1>12 DEF WriteHead, kept, Kept, ControlKept
    <2>2. VerifiedPost'
      BY <2>1 DEF VerifiedPost, Documents, Post, kept
    <2>3. pc' \in {"idle", "recover"} \/ pc' = "forget"
      BY <1>12, Refusal DEF WriteHead, Goto
    <2> QED
      BY <1>3, <1>4, <2>1, <2>2, <2>3, Stays DEF kept
  <1> QED
    BY <1>5, <1>6, <1>7, <1>8, <1>9, <1>10, <1>11, <1>12

\* A removal through the tombstone, and the end.
LEMMA BuryStep ==
  ASSUME Kept, Bury
  PROVE  Kept'
  <1>1. pc = "bury" /\ journal # None /\ (Discarding => ~consumed)
    BY DEF Bury, Kept, ControlKept
  <1>2. UNCHANGED <<journal, consumed, lock, life, archive, chain>>
    BY DEF Bury
  <1>3. active' = active \/ (~Discarding /\ active' = [active EXCEPT ![journal.skill] = None])
    BY DEF Bury, Moved
  <1>4. SameJournal /\ (~consumed => Discarding)
    BY <1>1, <1>2 DEF SameJournal, Kept, JournalKept, Discarding
  <1>5. /\ active' \in [Skills -> Bundles \cup {None}]
        /\ \A s \in Skills \ {journal.skill} : active'[s] = active[s]
    BY <1>1, <1>3, SideTypes DEF Kept, Types
  <1>6. Types' /\ JournalKept' /\ StatePlaced'
    BY <1>1, <1>2, <1>3, <1>4, <1>5, Moves DEF Kept, Types
  <1>7. pc' \in {"bury"} \/ (pc' = "forget" /\ Discarding) \/ (pc' = "archive" /\ ~Discarding)
    BY <1>1 DEF Bury, Goto
  <1>8. ControlKept'
    BY <1>1, <1>2, <1>4, <1>7 DEF ControlKept, Publishes, Discarding
  <1> QED
    BY <1>6, <1>8 DEF Kept

LEMMA ForgetStep ==
  ASSUME Kept, Forget
  PROVE  Kept'
  <1>1. journal # None /\ (consumed => VerifiedPost)
    BY DEF Forget, Kept, ControlKept
  <1>2. /\ journal' = None /\ pc' \in {"idle", "recover"}
        /\ UNCHANGED <<lock, life, archive, active, chain>>
    BY DEF Forget, Goto, disk
  <1>3. \A s \in Skills : active[s] = ActiveUnder(lock, s)
    <2>1. CASE consumed
      BY <1>1, <2>1, SideTypes DEF VerifiedPost, Documents, Kept, StatePlaced, Post
    <2>2. CASE ~consumed
      BY <1>1, <2>2 DEF VerifiedPre, Documents, Kept, StatePlaced, Pre
    <2> QED
      BY <2>1, <2>2
  <1> QED
    BY <1>2, <1>3, Loose DEF Kept, Types, JournalKept, StatePlaced

LEMMA PrivateStep ==
  ASSUME PrivateTyped, [Next]_vars
  PROVE  PrivateTyped'
  <1> USE DEF PrivateTyped
  <1>1. CASE Copy
    BY <1>1 DEF Copy
  <1>2. CASE Discard
    BY <1>2 DEF Discard
  <1>3. CASE Raise
    BY <1>3 DEF Raise
  <1>4. CASE \E s \in Skills : Install(s) \/ Deprecate(s) \/ Retire(s) \/ Quarantine(s) \/ Rollback(s)
    <2>1. \E s, e, b, event : Prepare(s, e, b, event)
      BY <1>4 DEF Install, Deprecate, Retire, Quarantine, Rollback
    <2> QED
      BY <2>1 DEF Prepare, disk
  <1>5. CASE \E c \in {"mutate", "recover"} : Start(c)
    BY <1>5 DEF Start, disk
  <1>6. CASE \/ RecoverNothing \/ RecoverPrepared \/ RecoverAuthorized \/ RecoverUnanswered
             \/ RecoverRefused \/ Consume \/ Record \/ Decline \/ Choose \/ Forget \/ Crash \/ Verify
    BY <1>6 DEF RecoverNothing, RecoverPrepared, RecoverAuthorized, RecoverUnanswered,
                RecoverRefused, Consume, Record, Decline, Choose, Forget, Crash, Verify, disk
  <1>7. CASE \/ Inspect \/ Sweep \/ Write \/ Swap \/ Drop \/ Bury
             \/ Archive \/ WriteLock \/ WriteLife \/ WriteHistory \/ WriteHead
    BY <1>7 DEF Inspect, Sweep, Write, Swap, Drop, Bury, Archive, WriteLock, WriteLife,
                WriteHistory, WriteHead
  <1>8. CASE StandsBy
    BY <1>8, Standby DEF still, disk
  <1> QED
    BY <1>1, <1>2, <1>3, <1>4, <1>5, <1>6, <1>7, <1>8 DEF Next, Continue, Mutate, StandsBy

LEMMA KeptInit == Init => Kept /\ PrivateTyped
  <1> SUFFICES ASSUME Init
               PROVE  Kept /\ PrivateTyped
    OBVIOUS
  <1> USE DEF Init
  <1>1. Empty \in Locks /\ \A s \in Skills : Empty[s] = None
    BY DEF Empty, Locks
  <1>2. Types
    <2>1. <<>> \in Seq([lock : Locks, life : Nat])
      BY EmptySeq
    <2>2. active \in [Skills -> Bundles \cup {None}]
      BY DEF Empty
    <2> QED
      BY <1>1, <2>1, <2>2 DEF Types
  <1>3. StatePlaced
    BY <1>1 DEF StatePlaced, ActiveUnder
  <1> QED
    BY <1>2, <1>3 DEF Kept, JournalKept, ControlKept, Publishes, PrivateTyped

LEMMA KeptStep ==
  ASSUME Kept, PrivateTyped, [Next]_vars
  PROVE  Kept'
  <1>1. CASE \E s \in Skills : Install(s) \/ Deprecate(s) \/ Retire(s) \/ Quarantine(s) \/ Rollback(s)
    <2>1. PICK s \in Skills : Install(s) \/ Deprecate(s) \/ Retire(s) \/ Quarantine(s) \/ Rollback(s)
      BY <1>1
    <2>2. \E e, b, event : Change(s, e, b, event)
      BY <2>1, Changes DEF Kept
    <2> QED
      BY <2>2, PrepareStep
  <1>2. CASE StandsBy
    <2>1. UNCHANGED kept /\ pc' = pc
      BY <1>2, Standby DEF still, disk, kept
    <2>2. ControlKept'
      BY <2>1 DEF Kept, ControlKept, kept, Publishes, Discarding, VerifiedPost, Documents, Post
    <2> QED
      BY <2>1, <2>2, Stays DEF Kept
  <1> QED
    BY <1>1, <1>2, ControlStep, BeforeStep, PublishStep, BuryStep, ForgetStep
    DEF Next, Continue, Mutate, StandsBy

(***************************************************************************)
(* The register.                                                           *)
(***************************************************************************)
LEMMA InForceIs ==
  ASSUME Kept
  PROVE  /\ journal = None => InForce = [lock |-> lock, life |-> life,
                                         active |-> [s \in Skills |-> ActiveUnder(lock, s)]]
         /\ journal # None /\ consumed =>
               InForce = [lock |-> journal.post, life |-> journal.postLife,
                          active |-> [s \in Skills |-> Post(s)]]
         /\ journal # None /\ ~consumed =>
               InForce = [lock |-> journal.pre, life |-> journal.preLife,
                          active |-> [s \in Skills |-> Pre(s)]]
  <1>1. journal = None => active = [s \in Skills |-> ActiveUnder(lock, s)]
    BY DEF Kept, Types, StatePlaced
  <1> QED
    BY <1>1 DEF InForce

LEMMA Quiet ==
  ASSUME Kept, Kept', journal # None, SameJournal, consumed' = consumed
  PROVE  InForce' = InForce
  <1>1. SameIntent /\ journal' # None
    BY IntentStays DEF Kept, SameIntent
  <1>2. /\ \A s : Pre(s)' = Pre(s) /\ Post(s)' = Post(s)
        /\ journal'.pre = journal.pre /\ journal'.preLife = journal.preLife
        /\ journal'.post = journal.post /\ journal'.postLife = journal.postLife
    BY <1>1, SameSides DEF Kept, SameIntent
  <1> QED
    BY <1>1, <1>2 DEF InForce

LEMMA ConsumeRegisters ==
  ASSUME Kept, Consume
  PROVE  Register!Next \/ UNCHANGED Register!vars
  <1>1. /\ journal # None /\ ~consumed /\ journal' = journal
        /\ Intends(journal)
    BY DEF Consume, Kept, ControlKept, JournalKept
  <1>2. CASE ~(VerifiedPre /\ standing = "bound")
    BY <1>2 DEF Consume, InForce, disk, Register!vars, Pre, Post
  <1>3. CASE VerifiedPre /\ standing = "bound"
    <2> DEFINE k == journal.skill
    <2>1. consumed' = TRUE /\ spent' = spent + 1
      BY <1>3 DEF Consume
    <2>2. PICK e \in Entries \cup {None} : journal.post = [journal.pre EXCEPT ![k] = e]
      BY <1>1 DEF Intends
    <2>3. k \in Skills /\ journal.post[k] = e
      BY <1>1, <2>2 DEF Intends, Locks
    <2>4. /\ InForce.lock = journal.pre /\ InForce.life = journal.preLife
          /\ InForce.active = [s \in Skills |-> Pre(s)]
      BY <1>1 DEF InForce
    <2>5. /\ InForce'.lock = journal.post /\ InForce'.life = journal.postLife
          /\ InForce'.active = [s \in Skills |-> Post(s)]
      BY <1>1, <2>1 DEF InForce, Post
    <2>6. InForce'.active = [InForce.active EXCEPT ![k] = IF e = None THEN None ELSE e.bundle]
      <3>1. \A s \in Skills \ {k} : Post(s) = Pre(s)
        BY <1>1, SideTypes DEF Kept
      <3>2. Post(k) = IF e = None THEN None ELSE e.bundle
        BY <2>3 DEF Post, ActiveUnder
      <3> QED
        BY <2>3, <2>4, <2>5, <3>1, <3>2
    <2>7. /\ InForce'.life \in {InForce.life, InForce.life + 1}
          /\ InForce'.life = InForce.life => InForce'.lock[k] # None
      BY <1>1, <2>4, <2>5 DEF Intends
    <2>8. Register!Change(k, e)
      BY <2>1, <2>2, <2>4, <2>5, <2>6, <2>7 DEF Register!Change
    <2> QED
      BY <2>3, <2>8 DEF Register!Next
  <1> QED
    BY <1>2, <1>3

LEMMA RegisterStep ==
  ASSUME Kept, Kept', [Next]_vars
  PROVE  Register!Next \/ UNCHANGED Register!vars
  <1> USE DEF Register!vars
  <1>1. ASSUME InForce' = InForce, spent' = spent
        PROVE  UNCHANGED Register!vars
    BY <1>1
  <1>2. ASSUME NEW s \in Skills, NEW e, NEW b, NEW event, Change(s, e, b, event)
        PROVE  UNCHANGED Register!vars
    <2>1. /\ journal = None /\ consumed' = FALSE /\ spent' = spent
      BY <1>2 DEF Change, Prepare, Kept, ControlKept
    <2>2. journal' # None /\ journal'.pre = lock /\ journal'.preLife = life
      BY <1>2, Intention DEF Kept
    <2>3. InForce' = InForce
      <3>1. [t \in Skills |-> Pre(t)]' = [t \in Skills |-> ActiveUnder(lock, t)]
        BY <2>2 DEF Pre
      <3>2. InForce' = [lock |-> journal'.pre, life |-> journal'.preLife,
                        active |-> [t \in Skills |-> Pre(t)]']
        BY <2>1, <2>2 DEF InForce
      <3> QED
        BY <2>1, <2>2, <3>1, <3>2, InForceIs
    <2> QED
      BY <1>1, <2>1, <2>3
  <1>3. CASE Forget
    <2>1. /\ journal # None /\ (consumed => VerifiedPost) /\ journal' = None /\ spent' = spent
          /\ UNCHANGED <<lock, life, active>>
      BY <1>3 DEF Forget, Kept, ControlKept, disk
    <2>2. InForce' = [lock |-> lock, life |-> life, active |-> active]
      BY <2>1 DEF InForce
    <2>3. active \in [Skills -> Bundles \cup {None}]
      BY DEF Kept, Types
    <2>4. CASE consumed
      <3>1. lock = journal.post /\ life = journal.postLife /\ \A s \in Skills : active[s] = Post(s)
        BY <2>1, <2>4, SideTypes DEF VerifiedPost, Documents, Kept, StatePlaced
      <3>2. active = [s \in Skills |-> Post(s)]
        BY <2>3, <3>1
      <3> QED
        BY <1>1, <2>1, <2>2, <2>4, <3>1, <3>2, InForceIs
    <2>5. CASE ~consumed
      <3>1. lock = journal.pre /\ life = journal.preLife /\ \A s \in Skills : active[s] = Pre(s)
        BY <2>1, <2>5 DEF VerifiedPre, Documents, Kept, StatePlaced
      <3>2. active = [s \in Skills |-> Pre(s)]
        BY <2>3, <3>1
      <3> QED
        BY <1>1, <2>1, <2>2, <2>5, <3>1, <3>2, InForceIs
    <2> QED
      BY <2>4, <2>5
  <1>4. ASSUME journal # None, SameJournal, consumed' = consumed, spent' = spent
        PROVE  UNCHANGED Register!vars
    BY <1>1, <1>4, Quiet
  <1>5. ASSUME UNCHANGED <<journal, consumed, lock, life, active>>, spent' = spent
        PROVE  UNCHANGED Register!vars
    <2>1. InForce' = InForce
      BY <1>5 DEF InForce, Pre, Post
    <2> QED
      BY <1>1, <1>5, <2>1
  <1>6. CASE \/ \E c \in {"mutate", "recover"} : Start(c)
             \/ RecoverNothing \/ RecoverAuthorized \/ RecoverUnanswered \/ RecoverRefused
             \/ Decline \/ Choose \/ Crash \/ StandsBy
    BY <1>5, <1>6, Standby DEF Start, RecoverNothing, RecoverAuthorized, RecoverUnanswered,
                               RecoverRefused, Decline, Choose, Crash, disk, still
  <1>7. CASE Raise \/ Copy \/ Discard \/ Sweep \/ Write \/ Drop \/ Archive \/ WriteHistory \/ WriteHead
    BY <1>5, <1>7 DEF Raise, Copy, Discard, Sweep, Write, Drop, Archive, WriteHistory, WriteHead
  <1>8. CASE RecoverPrepared \/ Record \/ Verify
    <2>1. SameJournal /\ consumed' = consumed /\ spent' = spent
      BY <1>8 DEF RecoverPrepared, Record, Verify, SameJournal
    <2>2. journal # None
      BY <1>8 DEF RecoverPrepared, Record, Verify, Kept, ControlKept, Publishes
    <2> QED
      BY <1>4, <2>1, <2>2
  <1>9. CASE Inspect \/ Swap \/ WriteLock \/ WriteLife \/ Bury
    <2>1. SameJournal /\ consumed' = consumed /\ spent' = spent
      BY <1>9 DEF Inspect, Swap, WriteLock, WriteLife, Bury, SameJournal
    <2>2. journal # None
      BY <1>9 DEF Inspect, Swap, WriteLock, WriteLife, Bury, Kept, ControlKept, Publishes
    <2> QED
      BY <1>4, <2>1, <2>2
  <1>10. CASE \E s \in Skills : Install(s) \/ Deprecate(s) \/ Retire(s) \/ Quarantine(s) \/ Rollback(s)
    BY <1>2, <1>10, Changes DEF Kept
  <1> QED
    BY <1>3, <1>6, <1>7, <1>8, <1>9, <1>10, ConsumeRegisters DEF Next, Continue, Mutate, StandsBy

LEMMA RegisterInit == Init => Register!Init
  <1>1. ASSUME Init PROVE Register!Init
    BY <1>1 DEF Init, Register!Init, InForce, Empty
  <1> QED
    BY <1>1

(***************************************************************************)
(* What mutations leave behind: the kinds of steps.                        *)
(***************************************************************************)
Quietly == journal = None /\ journal' = None /\ UNCHANGED disk

Under == journal # None /\ SameJournal /\ (consumed => consumed')

LEMMA Kinds ==
  ASSUME Kept, [Next]_vars
  PROVE  \/ \E s \in Skills : \E e, b, event : Change(s, e, b, event)
         \/ Forget \/ Quietly \/ Under
  <1> USE DEF Quietly, Under
  <1>1. CASE \E s \in Skills : Install(s) \/ Deprecate(s) \/ Retire(s) \/ Quarantine(s) \/ Rollback(s)
    BY <1>1, Changes DEF Kept
  <1>2. ASSUME UNCHANGED <<journal, consumed, disk>> PROVE Quietly \/ Under
    BY <1>2 DEF SameJournal
  <1>3. CASE \/ \E c \in {"mutate", "recover"} : Start(c)
             \/ RecoverNothing \/ RecoverAuthorized \/ RecoverUnanswered \/ RecoverRefused
             \/ Decline \/ Choose \/ Crash
    BY <1>2, <1>3 DEF Start, RecoverNothing, RecoverAuthorized, RecoverUnanswered,
                      RecoverRefused, Decline, Choose, Crash
  <1>4. CASE StandsBy
    BY <1>2, <1>4, Standby DEF still, disk
  <1>5. CASE RecoverPrepared \/ Record \/ Verify
    BY <1>5 DEF RecoverPrepared, Record, Verify, SameJournal, Kept, ControlKept, Publishes
  <1>6. CASE Copy \/ Consume \/ Discard
    BY <1>6 DEF Copy, Consume, Discard, SameJournal, Kept, ControlKept
  <1>7. CASE Inspect \/ Sweep \/ Write \/ Swap \/ Drop
    BY <1>7 DEF Inspect, Sweep, Write, Swap, Drop, SameJournal, Kept, ControlKept, Publishes
  <1>8. CASE Bury \/ Archive \/ WriteLock \/ WriteLife \/ WriteHistory \/ WriteHead
    BY <1>8 DEF Bury, Archive, WriteLock, WriteLife, WriteHistory, WriteHead, SameJournal, Kept,
                ControlKept, Publishes
  <1>9. CASE Raise
    <2>1. UNCHANGED <<journal, consumed>>
      BY <1>9 DEF Raise
    <2>2. CASE journal # None
      BY <2>1, <2>2 DEF SameJournal
    <2>3. CASE journal = None
      <3>1. pc # "copy" /\ pc # "write"
        BY <2>3 DEF Kept, ControlKept, Publishes
      <3> QED
        BY <1>9, <1>2, <3>1 DEF Raise, disk
    <2> QED
      BY <2>2, <2>3
  <1> QED
    BY <1>1, <1>3, <1>4, <1>5, <1>6, <1>7, <1>8, <1>9 DEF Next, Continue, Mutate, StandsBy

(***************************************************************************)
(* The chain ends in the state before or after, and the head follows it.   *)
(***************************************************************************)
Recorded(l, n, k) ==
    IF k = 0 THEN l = Empty /\ n = 0 ELSE chain[k] = [lock |-> l, life |-> n]

ChainKept ==
    /\ journal = None => head = Len(chain) /\ Recorded(lock, life, head)
    /\ journal # None =>
          /\ journal.seq \in Nat \ {0}
          /\ Recorded(journal.pre, journal.preLife, journal.seq - 1)
          /\ \/ Len(chain) = journal.seq - 1
             \/ /\ Len(chain) = journal.seq /\ consumed
                /\ Recorded(journal.post, journal.postLife, journal.seq)
          /\ head \in {journal.seq - 1, Len(chain)}
    /\ pc = "head" => Len(chain) = journal.seq
    /\ pc = "forget" /\ consumed => head = journal.seq

LEMMA ChainStep ==
  ASSUME Kept, Kept', PrivateTyped, ChainKept, [Next]_vars
  PROVE  ChainKept'
  <1>1. Len(chain) \in Nat
    BY LenProperties DEF Kept, Types
  <1>2. ASSUME NEW s \in Skills, NEW e, NEW b, NEW event, Change(s, e, b, event)
        PROVE  ChainKept'
    <2>1. /\ journal = None /\ pc' \in {"authorize", "copy"} /\ UNCHANGED disk
      BY <1>2 DEF Change, Prepare, Goto, Kept, ControlKept
    <2>2. /\ journal' # None /\ journal'.pre = lock /\ journal'.preLife = life
          /\ journal'.seq = Len(chain) + 1
      BY <1>2, Intention DEF Kept
    <2> QED
      BY <1>1, <2>1, <2>2 DEF ChainKept, disk, Recorded
  <1>3. CASE Forget
    <2>1. /\ journal # None /\ (consumed => VerifiedPost) /\ (~consumed => VerifiedPre)
          /\ pc = "forget" /\ pc' \in {"idle", "recover"} /\ journal' = None /\ UNCHANGED disk
      BY <1>3 DEF Forget, Goto, Kept, ControlKept, StatePlaced
    <2>2. CASE consumed
      <3>1. lock = journal.post /\ life = journal.postLife
        BY <2>1, <2>2 DEF VerifiedPost, Documents
      <3>2. head = Len(chain) /\ Recorded(journal.post, journal.postLife, head)
        BY <1>1, <2>1, <2>2 DEF ChainKept
      <3> QED
        BY <2>1, <3>1, <3>2 DEF ChainKept, disk, Recorded
    <2>3. CASE ~consumed
      <3>1. lock = journal.pre /\ life = journal.preLife
        BY <2>1, <2>3 DEF VerifiedPre, Documents
      <3>2. head = Len(chain) /\ Recorded(journal.pre, journal.preLife, head)
        BY <1>1, <2>1, <2>3 DEF ChainKept
      <3> QED
        BY <2>1, <3>1, <3>2 DEF ChainKept, disk, Recorded
    <2> QED
      BY <2>2, <2>3
  <1>4. CASE Quietly
    <2>1. pc' # "head" /\ pc' # "forget"
      BY <1>4 DEF Quietly, Kept, ControlKept, Publishes
    <2> QED
      BY <1>4, <2>1 DEF Quietly, ChainKept, disk, Recorded
  <1>5. CASE Under
    <2>1. SameIntent /\ journal # None
      BY <1>5, IntentStays DEF Under, Kept
    <2>2. ASSUME UNCHANGED <<chain, head>>, pc' # "head" \/ pc' = pc,
                 pc' = "forget" /\ consumed' => pc = "forget" /\ consumed
          PROVE  ChainKept'
      BY <1>5, <2>1, <2>2 DEF Under, ChainKept, SameIntent, Recorded
    <2>3. CASE WriteHistory
      <3>1. pc' = "head" /\ head' = head /\ consumed' = consumed /\ journal' = journal /\ consumed
        BY <2>3 DEF WriteHistory, Goto, Kept, ControlKept, Publishes
      <3>2. CASE Len(chain) < journal.seq
        <4> DEFINE x == [lock |-> journal.post, life |-> journal.postLife]
                   S == [lock : Locks, life : Nat]
        <4>1. chain' = Append(chain, x) /\ Len(chain) = journal.seq - 1
          BY <1>1, <2>1, <2>3, <3>2 DEF WriteHistory, ChainKept
        <4>2. x \in S /\ chain \in Seq(S)
          BY <2>1, SideTypes DEF Kept, Types
        <4> HIDE DEF S
        <4>3. /\ Len(chain') = Len(chain) + 1 /\ chain'[Len(chain) + 1] = x
              /\ \A i \in 1..Len(chain) : chain'[i] = chain[i]
          BY <4>1, <4>2, AppendProperties
        <4>4. Len(chain') = journal.seq
          BY <1>1, <2>1, <4>1, <4>3 DEF ChainKept
        <4>5. Recorded(journal.post, journal.postLife, journal.seq)'
          BY <1>1, <2>1, <3>1, <4>1, <4>3 DEF Recorded, ChainKept
        <4>6. Recorded(journal.pre, journal.preLife, journal.seq - 1)'
          BY <1>1, <2>1, <3>1, <4>1, <4>3 DEF Recorded, ChainKept
        <4>7. head = journal.seq - 1
          BY <2>1, <4>1 DEF ChainKept
        <4> QED
          BY <2>1, <3>1, <4>4, <4>5, <4>6, <4>7 DEF ChainKept
      <3>3. CASE ~(Len(chain) < journal.seq)
        <4>1. chain' = chain
          BY <2>3, <3>3 DEF WriteHistory
        <4>2. Len(chain) = journal.seq
          BY <1>1, <2>1, <3>3 DEF ChainKept
        <4> QED
          BY <2>1, <3>1, <4>1, <4>2 DEF ChainKept, Recorded
      <3> QED
        BY <3>2, <3>3
    <2>4. CASE WriteHead
      <3>1. /\ UNCHANGED <<journal, chain, consumed>> /\ Len(chain) = journal.seq /\ pc' # "head"
            /\ \/ head' = journal.seq
               \/ head' = head /\ pc' # "forget"
        BY <2>4, Refusal DEF WriteHead, Goto, ChainKept
      <3> QED
        BY <2>1, <3>1 DEF ChainKept, Recorded
    <2>5. CASE Bury \/ Discard
      <3>1. UNCHANGED <<chain, head, consumed, journal>> /\ pc' # "head"
        BY <2>5, Refusal DEF Bury, Discard, Goto, PrivateTyped
      <3>2. pc' = "forget" => ~consumed
        BY <2>5, Refusal DEF Bury, Discard, Goto, Kept, ControlKept
      <3> QED
        BY <2>2, <3>1, <3>2
    <2>6. CASE \/ \E c \in {"mutate", "recover"} : Start(c)
               \/ RecoverAuthorized \/ RecoverUnanswered
               \/ RecoverRefused \/ Decline \/ Choose \/ Crash \/ Raise
      BY <2>2, <2>6, Refusal DEF Start, RecoverAuthorized, RecoverUnanswered, RecoverRefused,
                                 Decline, Choose, Crash, Raise, disk, Goto
    <2>7. CASE RecoverPrepared \/ Record \/ Verify \/ Consume \/ Copy
      <3>1. UNCHANGED <<chain, head>> /\ pc' # "head" /\ pc' # "forget"
        BY <2>7, Refusal DEF RecoverPrepared, Record, Verify, Consume, Copy, disk, Goto, PrivateTyped
      <3> QED
        BY <2>2, <3>1
    <2>8. CASE \/ Inspect \/ Sweep \/ Write \/ Swap \/ Drop \/ Archive \/ WriteLock \/ WriteLife
      <3>1. UNCHANGED <<chain, head>> /\ pc' # "head" /\ pc' # "forget"
        BY <2>8, Refusal DEF Inspect, Sweep, Write, Swap, Drop, Archive, WriteLock, WriteLife, Goto
      <3> QED
        BY <2>2, <3>1
    <2>9. CASE StandsBy
      BY <2>2, <2>9, Standby DEF still, disk
    <2>10. CASE RecoverNothing \/ Forget
      BY <2>1, <2>10, SkillAssumption DEF RecoverNothing, Forget, SameIntent
    <2>11. CASE \E s \in Skills : Install(s) \/ Deprecate(s) \/ Retire(s) \/ Quarantine(s) \/ Rollback(s)
      BY <1>2, <2>11, Changes DEF Kept
    <2> QED
      BY <2>3, <2>4, <2>5, <2>6, <2>7, <2>8, <2>9, <2>10, <2>11 DEF Next, Continue, Mutate, StandsBy
  <1> QED
    BY <1>2, <1>3, <1>4, <1>5, Kinds

(***************************************************************************)
(* What is put aside: remnants, the private copy, the tombstone.           *)
(***************************************************************************)
Placing == {"write", "swap", "drop"}
Settling == {"archive", "lock", "life", "verify", "history", "head", "forget"}

AsideKept ==
    /\ journal = None => remnants = {} /\ private = "none" /\ tomb = NoTomb
    /\ journal # None =>
          /\ ~consumed => remnants = {}
          /\ consumed => private = "none"
          /\ ~consumed /\ ~journal.fresh => tomb = NoTomb
          /\ consumed /\ Post(journal.skill) # None => tomb = NoTomb
    /\ pc = "authorize" => private = "none"
    /\ pc \in {"copy", "authorize"} => tomb = NoTomb
    /\ pc \in {"target", "bury"} \cup Settling => remnants = {}
    /\ pc \in {"bury", "forget"} => private = "none"
    /\ pc \in Placing => Post(journal.skill) # None
    /\ pc = "bury" /\ ~Discarding => Post(journal.skill) = None
    /\ pc = "bury" /\ Discarding => journal.fresh
    /\ pc \in Settling => tomb = NoTomb

LEMMA AsideStep ==
  ASSUME Kept, Kept', PrivateTyped, AsideKept, [Next]_vars
  PROVE  AsideKept'
  <1> USE DEF Placing, Settling
  <1>1. ASSUME NEW s \in Skills, NEW e, NEW b, NEW event, Change(s, e, b, event)
        PROVE  AsideKept'
    <2>1. /\ journal = None /\ pc' \in {"authorize", "copy"} /\ UNCHANGED disk /\ consumed' = FALSE
      BY <1>1 DEF Change, Prepare, Goto, Kept, ControlKept
    <2>2. journal' # None
      BY <1>1, Intention DEF Kept
    <2> QED
      BY <2>1, <2>2 DEF AsideKept, disk
  <1>2. CASE Forget
    <2>1. journal' = None /\ pc' \in {"idle", "recover"} /\ UNCHANGED disk /\ pc = "forget"
      BY <1>2 DEF Forget, Goto
    <2> QED
      BY <2>1 DEF AsideKept, disk
  <1>3. CASE Quietly
    <2>1. pc' \notin {"copy", "authorize", "target", "bury"} \cup Settling \cup Placing
      BY <1>3 DEF Quietly, Kept, ControlKept, Publishes
    <2> QED
      BY <1>3, <2>1 DEF Quietly, AsideKept, disk
  <1>4. CASE Under
    <2>1. /\ SameIntent /\ journal # None
          /\ \A s : Post(s)' = Post(s)
      BY <1>4, IntentStays, SameSides DEF Under, Kept
    <2>2. journal'.skill = journal.skill /\ journal'.fresh = journal.fresh /\ journal' # None
      BY <2>1 DEF SameIntent
    \* A step that leaves all this alone and goes to a place that asks for nothing.
    <2>3. ASSUME UNCHANGED <<remnants, private, tomb, consumed>>,
                 pc' \in {"idle", "recover", "handle", "record", "publish", "sweep", "discard"}
          PROVE  AsideKept'
      BY <2>1, <2>2, <2>3 DEF AsideKept
    <2>4. ASSUME UNCHANGED <<remnants, private, tomb, consumed>>, Refused
          PROVE  AsideKept'
      BY <2>3, <2>4, Refusal
    <2>5. CASE \/ \E c \in {"mutate", "recover"} : Start(c)
               \/ RecoverPrepared \/ RecoverAuthorized \/ RecoverUnanswered
               \/ RecoverRefused \/ Decline \/ Crash \/ Record
      BY <2>3, <2>4, <2>5 DEF Start, RecoverPrepared, RecoverAuthorized, RecoverUnanswered,
                              RecoverRefused, Decline, Crash, Record, disk, Goto
    <2>6. CASE Raise
      <3>1. /\ UNCHANGED <<tomb, consumed>> /\ private' \in {private, "none"} /\ remnants' \subseteq remnants
            /\ pc' \in {"idle", "recover"}
        BY <2>6, Refusal DEF Raise
      <3> QED
        BY <2>1, <2>2, <3>1 DEF AsideKept
    <2>7. CASE Copy
      <3>1. UNCHANGED <<remnants, tomb, consumed>> /\ ~consumed /\ pc = "copy"
        BY <2>7 DEF Copy, Kept, ControlKept
      <3>2. pc' = "copy" \/ (pc' = "authorize" /\ private' = "none")
        BY <2>7 DEF Copy, Goto, PrivateTyped
      <3> QED
        BY <2>1, <2>2, <3>1, <3>2 DEF AsideKept
    <2>8. CASE Consume
      <3>1. CASE VerifiedPre /\ standing = "bound"
        BY <2>1, <2>2, <2>8, <3>1 DEF Consume, Goto, AsideKept, disk, Kept, ControlKept
      <3>2. CASE ~(VerifiedPre /\ standing = "bound")
        BY <2>4, <2>8, <3>2 DEF Consume, disk
      <3> QED
        BY <3>1, <3>2
    <2>9. CASE Discard
      <3>1. ~consumed /\ consumed' = consumed /\ journal' = journal /\ UNCHANGED <<remnants, tomb>>
        BY <2>9 DEF Discard, Kept, ControlKept
      <3>2. Discarding' /\ Discarding
        BY <2>1, <3>1 DEF Discarding, Kept, JournalKept
      <3>3. \/ pc' \in {"idle", "recover", "discard"}
            \/ private' = "none" /\ pc' = "bury" /\ journal.fresh
            \/ private' = "none" /\ pc' = "forget" /\ ~journal.fresh
        BY <2>9, Refusal DEF Discard, Goto, PrivateTyped
      <3> QED
        BY <2>1, <2>2, <3>1, <3>2, <3>3 DEF AsideKept
    <2>10. CASE \/ Inspect \/ Sweep \/ Choose \/ Write \/ Swap \/ Drop
                \/ Archive \/ WriteLock \/ WriteLife \/ Verify \/ WriteHistory \/ WriteHead
      <3>1. /\ UNCHANGED <<private, tomb, consumed>> /\ consumed /\ journal.phase # "prepared"
        BY <2>10 DEF Inspect, Sweep, Choose, Write, Swap, Drop, Archive, WriteLock, WriteLife,
                     Verify, WriteHistory, WriteHead, disk, Kept, ControlKept, Publishes
      <3>2. ~Discarding'
        <4>1. journal'.phase # "prepared"
          BY <1>4, <3>1, IntentStays DEF Under, Kept
        <4> QED
          BY <4>1 DEF Discarding
      <3>3. ASSUME remnants' \subseteq remnants, pc' \in Settling \ {"forget"}, pc \in Settling
            PROVE  AsideKept'
        BY <2>1, <2>2, <3>1, <3>3 DEF AsideKept
      <3>4. CASE Inspect
        BY <2>1, <2>2, <2>10, <3>1, <3>4, Refusal DEF Inspect, Goto, AsideKept
      <3>5. CASE Sweep
        BY <2>1, <2>2, <3>1, <3>5 DEF Sweep, Goto, AsideKept
      <3>6. CASE Choose
        <4>1. UNCHANGED <<remnants, journal>> /\ pc = "target"
          BY <3>6 DEF Choose, disk
        <4>2. \/ pc' \in {"idle", "recover"}
              \/ Post(journal.skill) = None /\ pc' = "bury"
              \/ Post(journal.skill) # None /\ pc' \in {"archive", "write"}
          BY <3>6, Refusal DEF Choose, Goto
        <4> QED
          BY <2>1, <2>2, <3>1, <3>2, <4>1, <4>2 DEF AsideKept
      <3>7. CASE Write \/ Swap
        <4>1. pc \in Placing /\ pc' \in Placing
          BY <3>7 DEF Write, Swap, Goto
        <4> QED
          BY <2>1, <2>2, <3>1, <4>1 DEF AsideKept
      <3>8. CASE Drop
        <4>1. pc = "drop" /\ (pc' = "drop" \/ (pc' = "archive" /\ remnants' = {}))
          BY <3>8 DEF Drop, Goto
        <4> QED
          BY <2>1, <2>2, <3>1, <4>1 DEF AsideKept
      <3>9. CASE Archive \/ WriteHistory
        BY <3>3, <3>9 DEF Archive, WriteHistory, Goto
      <3>10. CASE WriteLock \/ WriteLife \/ Verify
        <4>1. UNCHANGED remnants /\ pc \in Settling
          BY <3>10 DEF WriteLock, WriteLife, Verify, disk
        <4>2. Refused \/ pc' \in {"life", "verify", "history"}
          BY <3>10 DEF WriteLock, WriteLife, Verify, Goto
        <4> QED
          BY <2>4, <3>1, <3>3, <4>1, <4>2
      <3>11. CASE WriteHead
        <4>1. UNCHANGED remnants /\ pc \in Settling
          BY <3>11 DEF WriteHead
        <4>2. Refused \/ pc' = "forget"
          BY <3>11 DEF WriteHead, Goto
        <4> QED
          BY <2>1, <2>2, <2>4, <3>1, <4>1, <4>2 DEF AsideKept
      <3> QED
        BY <2>10, <3>4, <3>5, <3>6, <3>7, <3>8, <3>9, <3>10, <3>11
    <2>11. CASE Bury
      <3>1. UNCHANGED <<journal, consumed, remnants, private>> /\ pc = "bury"
        BY <2>11 DEF Bury
      <3>2. \/ pc' = "bury"
            \/ tomb' = NoTomb /\ pc' \in {"forget", "archive"}
        BY <2>11 DEF Bury, Goto
      <3>3. Discarding' = Discarding /\ (Discarding => ~consumed) /\ (~Discarding => consumed)
        BY <2>1, <3>1 DEF Discarding, Kept, ControlKept, JournalKept
      <3> QED
        BY <2>1, <2>2, <3>1, <3>2, <3>3 DEF AsideKept
    <2>12. CASE StandsBy
      BY <2>1, <2>2, <2>12, Standby DEF AsideKept, still, disk, Discarding
    <2>13. CASE RecoverNothing \/ Forget
      BY <2>2, <2>13 DEF RecoverNothing, Forget, Kept
    <2>14. CASE \E s \in Skills : Install(s) \/ Deprecate(s) \/ Retire(s) \/ Quarantine(s) \/ Rollback(s)
      BY <1>1, <2>14, Changes DEF Kept
    <2> QED
      BY <2>5, <2>6, <2>7, <2>8, <2>9, <2>10, <2>11, <2>12, <2>13, <2>14 DEF Next, Continue, Mutate, StandsBy
  <1> QED
    BY <1>1, <1>2, <1>3, <1>4, Kinds

(***************************************************************************)
(* The content store: what the chain registered, and the one bundle that   *)
(* the mutation under way may have brought.                                *)
(***************************************************************************)
Used(k) == {ActiveUnder(chain[i].lock, s) : i \in 1..k, s \in Skills} \ {None}

StoreKept ==
    /\ journal = None => cas = Used(Len(chain))
    /\ journal # None =>
          /\ ~journal.fresh => journal.bundle \in Used(journal.seq - 1) /\ cas = Used(journal.seq - 1)
          /\ journal.fresh =>
                /\ journal.bundle \notin Used(journal.seq - 1)
                /\ Post(journal.skill) # None
                /\ cas \in {Used(journal.seq - 1), Used(journal.seq - 1) \cup {journal.bundle}}
          /\ consumed => journal.bundle \in cas
    /\ pc = "authorize" => journal.bundle \in cas
    /\ pc = "copy" => journal.fresh
    /\ pc = "forget" /\ ~consumed => cas = Used(journal.seq - 1)

\* What a command that removes or deprecates a Skill, or brings one back, has in the store.
LEMMA KnownBundles ==
  ASSUME Kept, ChainKept, StoreKept, journal = None, NEW s \in Skills, lock[s] # None
  PROVE  lock[s].bundle \in cas
  <1>1. Len(chain) \in Nat /\ head = Len(chain) /\ Recorded(lock, life, head) /\ cas = Used(Len(chain))
    BY LenProperties DEF ChainKept, StoreKept, Kept, Types
  <1>2. Len(chain) # 0
    BY <1>1 DEF Recorded, Empty
  <1>3. chain[Len(chain)].lock = lock /\ Len(chain) \in 1..Len(chain)
    BY <1>1, <1>2 DEF Recorded
  <1>4. lock[s].bundle \in Bundles
    BY EntryTypes DEF Kept, Types
  <1>5. ActiveUnder(chain[Len(chain)].lock, s) = lock[s].bundle /\ lock[s].bundle # None
    BY <1>3, <1>4, SkillAssumption DEF ActiveUnder
  <1> QED
    BY <1>1, <1>3, <1>5 DEF Used

\* Used looks at the records up to k.
LEMMA SameUsed ==
  ASSUME NEW k, \A i \in 1..k : chain'[i] = chain[i]
  PROVE  Used(k)' = Used(k)
  BY DEF Used, ActiveUnder

\* The chain as it will be: no record up to the mutation's own changes.
LEMMA ChainStays ==
  ASSUME Kept, ChainKept, [Next]_vars, Under
  PROVE  \A i \in 1..(journal.seq - 1) : chain'[i] = chain[i]
  <1>1. Len(chain) \in Nat /\ journal.seq \in Nat
    BY LenProperties DEF Kept, Types, ChainKept, Under
  <1>2. CASE WriteHistory
    <2> DEFINE x == [lock |-> journal.post, life |-> journal.postLife]
               S == [lock : Locks, life : Nat]
    <2>1. chain' \in {chain, Append(chain, x)} /\ Len(chain) \in {journal.seq - 1, journal.seq}
      BY <1>2 DEF WriteHistory, ChainKept, Under
    <2>2. x \in S /\ chain \in Seq(S)
      BY SideTypes DEF Kept, Types, Under
    <2> HIDE DEF S, x
    <2>3. \A i \in 1..Len(chain) : Append(chain, x)[i] = chain[i]
      BY <2>2, AppendProperties
    <2> QED
      BY <1>1, <2>1, <2>3
  <1>3. CASE chain' = chain
    BY <1>3
  <1>4. WriteHistory \/ chain' = chain
    BY DEF Next, Continue, Mutate, Start, RecoverNothing, RecoverPrepared, RecoverAuthorized,
           RecoverUnanswered, RecoverRefused, Elsewhere, TaskMoves, TaskReturns, Revoke,
           Decline, Copy, Consume, Record, Inspect, Sweep, Choose, Write, Swap, Drop, Bury,
           Discard, Archive, WriteLock, WriteLife, Verify, WriteHead, Forget, Crash, Raise,
           Install, Deprecate, Retire, Quarantine, Rollback, Prepare, disk, vars
  <1> QED
    BY <1>2, <1>3, <1>4

\* What has been registered up to and with the mutation.
LEMMA UsedAfter ==
  ASSUME Kept, ChainKept, StoreKept, journal # None, consumed,
         Recorded(journal.post, journal.postLife, journal.seq)
  PROVE  cas = Used(journal.seq)
  <1> DEFINE k == journal.skill
             n == journal.seq
             before == {ActiveUnder(chain[i].lock, s) : i \in 1..(n - 1), s \in Skills}
  <1>1. n \in Nat \ {0} /\ n - 1 \in Nat /\ Used(n - 1) = before \ {None}
    BY DEF ChainKept, Used
  <1>2. chain[n] = [lock |-> journal.post, life |-> journal.postLife]
    BY <1>1 DEF Recorded
  <1>3. \A s \in Skills : ActiveUnder(chain[n].lock, s) = Post(s)
    BY <1>2 DEF Post
  <1>4. 1..n = 1..(n - 1) \cup {n}
    BY <1>1
  <1>5. Used(n) = (before \cup {Post(s) : s \in Skills}) \ {None}
    BY <1>3, <1>4 DEF Used
  <1>6. \A s \in Skills \ {k} : Post(s) \in before \cup {None}
    <2> SUFFICES ASSUME NEW s \in Skills \ {k}
                 PROVE  Pre(s) \in before \cup {None}
      BY SideTypes DEF Kept
    <2>1. Recorded(journal.pre, journal.preLife, n - 1)
      BY DEF ChainKept
    <2>2. CASE n - 1 = 0
      BY <2>1, <2>2 DEF Recorded, Pre, ActiveUnder, Empty
    <2>3. CASE n - 1 # 0
      <3>1. chain[n - 1].lock = journal.pre /\ n - 1 \in 1..(n - 1)
        BY <1>1, <2>1, <2>3 DEF Recorded
      <3>2. Pre(s) = ActiveUnder(chain[n - 1].lock, s)
        BY <3>1 DEF Pre
      <3> QED
        BY <3>1, <3>2
    <2> QED
      BY <2>2, <2>3
  <1>7. k \in Skills /\ Post(k) \in {journal.bundle, None}
    BY SideTypes DEF Kept
  <1>8. journal.bundle \in cas /\ journal.bundle # None
    BY SkillAssumption DEF StoreKept, Kept, JournalKept, Intends
  <1> HIDE DEF before
  <1>9. Used(n) = Used(n - 1) \cup ({Post(k)} \ {None})
    BY <1>1, <1>5, <1>6, <1>7
  <1>10. CASE journal.fresh
    BY <1>7, <1>8, <1>9, <1>10 DEF StoreKept
  <1>11. CASE ~journal.fresh
    BY <1>7, <1>8, <1>9, <1>11 DEF StoreKept
  <1> QED
    BY <1>10, <1>11

LEMMA StoreStep ==
  ASSUME Kept, Kept', PrivateTyped, ChainKept, AsideKept, StoreKept, [Next]_vars
  PROVE  StoreKept'
  <1>1. Len(chain) \in Nat
    BY LenProperties DEF Kept, Types
  <1>2. ASSUME NEW s \in Skills, NEW e, NEW b, NEW event, Change(s, e, b, event)
        PROVE  StoreKept'
    <2>1. /\ journal = None /\ UNCHANGED disk /\ consumed' = FALSE
          /\ pc' = IF b \in cas THEN "authorize" ELSE "copy"
      BY <1>2 DEF Change, Prepare, Goto, Kept, ControlKept
    <2>2. /\ journal' # None /\ journal'.skill = s /\ journal'.bundle = b
          /\ journal'.fresh = (b \notin cas) /\ journal'.seq - 1 = Len(chain)
          /\ journal'.post = [lock EXCEPT ![s] = e]
      BY <1>1, <1>2, Intention DEF Kept
    <2>3. cas' = cas /\ chain' = chain /\ cas = Used(Len(chain))
      BY <2>1 DEF disk, StoreKept
    <2>4. Used(journal.seq - 1)' = Used(Len(chain))
      BY <2>2, <2>3 DEF Used, ActiveUnder
    <2>5. b \notin cas => Post(journal.skill)' # None
      <3> SUFFICES ASSUME b \notin cas
                   PROVE  Post(journal.skill)' # None
        OBVIOUS
      <3>1. e # None /\ e.bundle = b /\ b \in Bundles
        BY <1>2, <2>1, KnownBundles DEF Change
      <3>2. journal'.post[s] = e
        BY <2>2 DEF Kept, Types, Locks
      <3> QED
        BY <2>2, <3>1, <3>2, SkillAssumption DEF Post, ActiveUnder
    <2> QED
      BY <2>1, <2>2, <2>3, <2>4, <2>5 DEF StoreKept
  <1>3. CASE Forget
    <2>1. journal # None /\ journal' = None /\ pc = "forget" /\ pc' \in {"idle", "recover"} /\ UNCHANGED disk
      BY <1>3 DEF Forget, Goto, Kept, ControlKept
    <2>2. CASE consumed
      <3>1. /\ Len(chain) = journal.seq
            /\ Recorded(journal.post, journal.postLife, journal.seq)
        BY <1>1, <2>1, <2>2 DEF ChainKept
      <3>2. cas = Used(Len(chain))
        BY <2>1, <2>2, <3>1, UsedAfter
      <3> QED
        BY <2>1, <3>2 DEF StoreKept, disk, Used
    <2>3. CASE ~consumed
      <3>1. Len(chain) = journal.seq - 1 /\ cas = Used(journal.seq - 1)
        BY <2>1, <2>3 DEF ChainKept, StoreKept
      <3> QED
        BY <2>1, <3>1 DEF StoreKept, disk, Used
    <2> QED
      BY <2>2, <2>3
  <1>4. CASE Quietly
    <2>1. pc' \notin {"copy", "authorize", "forget"}
      BY <1>4 DEF Quietly, Kept, ControlKept
    <2> QED
      BY <1>4, <2>1 DEF Quietly, StoreKept, disk, Used
  <1>5. CASE Under
    <2>1. SameIntent /\ \A s : Post(s)' = Post(s)
      BY <1>5, IntentStays, SameSides DEF Under, Kept
    <2>2. Used(journal.seq - 1)' = Used(journal.seq - 1)
      <3>1. journal'.seq = journal.seq /\ \A i \in 1..(journal.seq - 1) : chain'[i] = chain[i]
        BY <1>5, <2>1, ChainStays DEF SameIntent
      <3> QED
        BY <3>1 DEF Used, ActiveUnder
    <2>3. journal # None
      BY <2>1 DEF SameIntent
    <2>4. ASSUME UNCHANGED <<cas, consumed>>,
                 pc' \notin {"authorize", "copy", "forget"} \/ pc' = pc
          PROVE  StoreKept'
      BY <2>1, <2>2, <2>4 DEF StoreKept, SameIntent
    <2>5. ASSUME UNCHANGED <<cas, consumed>>, pc' = "forget", consumed
          PROVE  StoreKept'
      BY <2>1, <2>2, <2>5 DEF StoreKept, SameIntent
    <2>6. CASE \/ \E c \in {"mutate", "recover"} : Start(c)
               \/ RecoverPrepared \/ RecoverAuthorized \/ RecoverUnanswered
               \/ RecoverRefused \/ Decline \/ Crash
               \/ Record \/ Choose \/ Verify \/ Raise
      BY <2>4, <2>6, Refusal DEF Start, RecoverPrepared, RecoverAuthorized, RecoverUnanswered,
                                 RecoverRefused, Decline, Crash, Record, Choose, Verify, Raise,
                                 disk, Goto
    <2>7. CASE \/ Inspect \/ Sweep \/ Write \/ Swap \/ Drop
               \/ Archive \/ WriteLock \/ WriteLife \/ WriteHistory
      BY <2>4, <2>7, Refusal DEF Inspect, Sweep, Write, Swap, Drop, Archive, WriteLock, WriteLife,
                                 WriteHistory, Goto
    <2>8. CASE WriteHead
      <3>1. UNCHANGED <<cas, consumed>> /\ consumed
        BY <2>8 DEF WriteHead, Kept, ControlKept, Publishes
      <3>2. Refused \/ pc' = "forget"
        BY <2>8 DEF WriteHead, Goto
      <3> QED
        BY <2>4, <2>5, <3>1, <3>2, Refusal
    <2>9. CASE Copy
      <3>1. /\ pc = "copy" /\ ~consumed /\ consumed' = consumed /\ journal.fresh
            /\ \/ cas' = cas /\ pc' = pc
               \/ cas' = cas \cup {journal.bundle} /\ pc' = "authorize"
        BY <2>9 DEF Copy, Goto, PrivateTyped, Kept, ControlKept, StoreKept
      <3> QED
        BY <2>1, <2>2, <2>3, <3>1 DEF StoreKept, SameIntent
    <2>10. CASE Consume
      <3>1. pc = "authorize" /\ cas' = cas
        BY <2>10 DEF Consume, disk
      <3>2. \/ pc' \in {"idle", "recover"} /\ consumed' = consumed
            \/ pc' = "record"
        BY <2>10, Refusal DEF Consume, Goto
      <3> QED
        BY <2>1, <2>2, <2>3, <3>1, <3>2 DEF StoreKept, SameIntent
    <2>11. CASE Discard
      <3>1. UNCHANGED <<cas, consumed>> /\ ~consumed
        BY <2>11 DEF Discard, Kept, ControlKept
      <3>2. \/ pc' \in {"idle", "recover", "discard", "bury"}
            \/ pc' = "forget" /\ ~journal.fresh
        BY <2>11, Refusal DEF Discard, Goto, PrivateTyped
      <3> QED
        BY <2>1, <2>2, <2>3, <3>1, <3>2 DEF StoreKept, SameIntent
    <2>12. CASE Bury
      <3>1. consumed' = consumed /\ pc = "bury"
        BY <2>12 DEF Bury
      <3>2. CASE Discarding
        <4>1. journal.fresh /\ ~consumed
          BY <3>1, <3>2 DEF AsideKept, Kept, ControlKept
        <4>2. \/ cas' \in {cas, cas \ {journal.bundle}} /\ pc' = "bury"
              \/ cas' = cas /\ pc' = "forget" /\ journal.bundle \notin cas
          BY <2>12, <3>2 DEF Bury, Goto, Moved, Standing
        <4>3. cas \ {journal.bundle} = Used(journal.seq - 1)
          BY <2>3, <4>1 DEF StoreKept
        <4> QED
          BY <2>1, <2>2, <2>3, <3>1, <4>1, <4>2, <4>3 DEF StoreKept, SameIntent
      <3>3. CASE ~Discarding
        <4>1. cas' = cas /\ pc' \in {"bury", "archive"}
          BY <2>12, <3>3 DEF Bury, Goto, Moved
        <4> QED
          BY <2>4, <3>1, <4>1
      <3> QED
        BY <3>2, <3>3
    <2>13. CASE StandsBy
      BY <2>4, <2>13, Standby DEF still, disk
    <2>14. CASE RecoverNothing \/ Forget
      BY <2>1, <2>14 DEF RecoverNothing, Forget, SameIntent
    <2>15. CASE \E s \in Skills : Install(s) \/ Deprecate(s) \/ Retire(s) \/ Quarantine(s) \/ Rollback(s)
      BY <1>2, <2>15, Changes DEF Kept
    <2> QED
      BY <2>6, <2>7, <2>8, <2>9, <2>10, <2>11, <2>12, <2>13, <2>14, <2>15 DEF Next, Continue, Mutate, StandsBy
  <1> QED
    BY <1>2, <1>3, <1>4, <1>5, Kinds

(***************************************************************************)
(* The theorems.                                                           *)
(***************************************************************************)
IInv == Kept /\ PrivateTyped /\ ChainKept /\ AsideKept /\ StoreKept

LEMMA InitKept == Init => IInv
  <1> SUFFICES ASSUME Init
               PROVE  IInv
    OBVIOUS
  <1>1. Kept /\ PrivateTyped
    BY KeptInit
  <1>2. Len(chain) = 0 /\ Used(0) = {}
    BY EmptySeq DEF Init, Used
  <1>3. StoreKept
    BY <1>2 DEF Init, StoreKept
  <1>4. ChainKept
    BY <1>2 DEF Init, ChainKept, Recorded
  <1>5. AsideKept
    BY DEF Init, AsideKept, Placing, Settling
  <1> QED
    BY <1>1, <1>3, <1>4, <1>5 DEF IInv

\* In every state of a mutation (skillctl.py): documents and directories are as before or
\* as after, the chain's next record is the mutation's, and what it has put aside, copied
\* or brought into the store is told by how far it is and whether its bundle is new.
THEOREM Invariance == Spec => []IInv
  <1>1. IInv /\ [Next]_vars => IInv'
    <2> SUFFICES ASSUME IInv, [Next]_vars
                 PROVE  IInv'
      OBVIOUS
    <2>1. Kept' /\ PrivateTyped'
      BY KeptStep, PrivateStep DEF IInv
    <2> QED
      BY <2>1, ChainStep, AsideStep, StoreStep DEF IInv
  <1> QED
    BY <1>1, InitKept, PTL DEF Spec

\* Between the mutations of skillctl.py nothing is left over, the head binds a chain that
\* ends in the present state, and the store holds what was ever registered.
THEOREM MutationsAreAudited == Spec => []Audited
  <1>1. IInv => Audited
    <2> SUFFICES ASSUME IInv, journal = None
                 PROVE  /\ Authoritative
                        /\ remnants = {} /\ private = "none" /\ tomb = NoTomb
                        /\ cas = Used(Len(chain))
      BY DEF Audited, Used
    <2>1. remnants = {} /\ private = "none" /\ tomb = NoTomb /\ cas = Used(Len(chain))
      BY DEF IInv, AsideKept, StoreKept
    <2>2. Len(chain) \in Nat /\ head = Len(chain) /\ Recorded(lock, life, head)
      BY LenProperties DEF IInv, ChainKept, Kept, Types
    <2>3. ASSUME (\E s \in Skills : lock[s] # None) \/ life > 0
          PROVE  chain # <<>> /\ chain[head] = [lock |-> lock, life |-> life]
      <3>1. Len(chain) # 0
        BY <2>2, <2>3 DEF Recorded, Empty
      <3> QED
        BY <2>2, <3>1, EmptySeq DEF Recorded
    <2> QED
      BY <2>1, <2>2, <2>3 DEF Authoritative
  <1> QED
    BY <1>1, Invariance, PTL

\* The mutations of skillctl.py implement SkillRegister: each Skill's entry, directory
\* and event change as one, with a decision of their own, whatever dies or fails where.
THEOREM Refinement == Spec => RegisterSpec
  <1>1. Init => Kept /\ PrivateTyped
    BY KeptInit
  <1>2. (Kept /\ PrivateTyped) /\ [Next]_vars => (Kept /\ PrivateTyped)'
    BY KeptStep, PrivateStep
  <1>3. Kept /\ Kept' /\ [Next]_vars => [Register!Next]_Register!vars
    BY RegisterStep
  <1> QED
    BY <1>1, <1>2, <1>3, RegisterInit, PTL DEF Spec, RegisterSpec, Register!Spec
=============================================================================
