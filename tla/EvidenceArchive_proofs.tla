-------------------------- MODULE EvidenceArchive_proofs -------------------------
(***************************************************************************)
(* Proofs that evidence is never lost between its archive and its removal, *)
(* and that the chain of task archives behind TASK.json stands, for any    *)
(* papers, contents, chains of an older release, limits, numbers of calls  *)
(* and of deaths.                                                          *)
(***************************************************************************)
EXTENDS EvidenceArchive, TLAPS, SequenceTheorems, NaturalsInduction, WellFoundedInduction

(***************************************************************************)
(* Chains and the tasks in them.  A task has its number from the calls     *)
(* before it, so the archive of a start that may yet fail is not in any    *)
(* chain that has been committed.                                          *)
(***************************************************************************)
Tasks(h) == {h[i].task : i \in DOMAIN h}

Linked(h) ==
    /\ h \in Seq(ToSet(h))
    /\ \A i \in DOMAIN h : "task" \in DOMAIN h[i]

Old(h) ==
    \A t \in Tasks(h) : t \in Int /\ t < calls /\ (start # None => t # start.task)

StartKept ==
    /\ calls \in Nat
    /\ start # None =>
          /\ DOMAIN start = {"head", "phase", "task"}
          /\ start.task \in Nat /\ start.task < calls
    /\ TaskLocked => start.head = head

ChainsKept ==
    /\ Linked(head) /\ Old(head)
    /\ op # None /\ op.phase \in {"install", "installed"} => DOMAIN op = {"phase", "left"}
    /\ op # None /\ op.phase \in {"rewrite", "rewritten"} =>
          /\ DOMAIN op = {"phase", "from", "to", "left"}
          /\ Linked(op.to) /\ Old(op.to)
    /\ \A r \in saved : r.data = None => Old(r.name)

(***************************************************************************)
(* The index, and the compaction that is about to extend it.               *)
(***************************************************************************)
IndexStands ==
    /\ DOMAIN twice = {"files", "zips", "pages"}
    /\ index.pages \in Seq(ToSet(index.pages))
    /\ index.archives \in Seq(ToSet(index.archives))
    /\ Indexed \subseteq zips \ twice.zips

Busy(phases) == op # None /\ op.phase \in phases

Fields == {"phase", "chosen", "left", "looking", "base", "pages", "zip", "seen"}

CompactionKept ==
    /\ Busy({"page", "page linked", "zip", "zip linked", "index", "clear", "clearing",
             "remove"}) =>
          DOMAIN op = Fields
    /\ Busy({"page", "page linked", "zip", "zip linked", "index"}) =>
          op.chosen # {} /\ op.looking = None
    /\ Busy({"page"}) => op.base = <<>>
    /\ Busy({"page linked", "zip", "zip linked", "index"}) =>
          \/ op.base = index.archives /\ op.pages = index.pages
          \/ op.base = <<>> /\ op.pages = Append(index.pages, index.archives)
    /\ Busy({"zip linked", "index"}) => op.zip # {} /\ op.zip \in zips
    /\ Busy({"index"}) => op.zip \notin twice.zips
    /\ Busy({"clear", "clearing", "remove"}) =>
          /\ op.left # {} /\ op.left \subseteq Archived
          /\ op.zip = {} => op.base = <<>>
          /\ op.looking # None => op.looking \in op.left

(***************************************************************************)
(* What must not be lost: also the task archive of a start not committed.  *)
(***************************************************************************)
Held == saved \cup (IF TaskLocked THEN {TaskArchive(Replacement)} ELSE {})

HeldKept == Held \subseteq active \cup torn \cup Archived

\* The journal of a start that died has an archive that was never committed.
JournalKept ==
    /\ TaskLocked => journal = {}
    /\ \A c \in journal : TaskArchive(c) \notin saved /\ c \notin Chain(head)

IInv ==
    StartKept /\ ChainsKept /\ IndexStands /\ CompactionKept /\ HeldKept /\ JournalKept

Starts ==
    \/ StartLoad \/ StartPublish \/ StartCommit \/ StartFails
    \/ StartDies \/ JournalRestored \/ JournalOverwritten

(***************************************************************************)
(* Sequences one longer.                                                   *)
(***************************************************************************)
LEMMA OneMore ==
  ASSUME NEW s, s \in Seq(ToSet(s)), NEW x
  PROVE  /\ Append(s, x) \in Seq(ToSet(Append(s, x)))
         /\ DOMAIN Append(s, x) = DOMAIN s \cup {Len(s) + 1}
         /\ \A i \in DOMAIN s : Append(s, x)[i] = s[i]
         /\ Append(s, x)[Len(s) + 1] = x
         /\ ToSet(Append(s, x)) = ToSet(s) \cup {x}
  <1> DEFINE S == ToSet(s) \cup {x}
             t == Append(s, x)
  <1>1. s \in Seq(S)
    BY SeqMonotonic
  <1>2. Len(s) \in Nat /\ DOMAIN s = 1..Len(s)
    BY LenProperties
  <1>3. t \in Seq(S) /\ Len(t) = Len(s) + 1
    BY <1>1, AppendProperties
  <1>4. (\A i \in 1..Len(s) : t[i] = s[i]) /\ t[Len(s) + 1] = x
    BY <1>1, <1>2, AppendProperties
  <1>5. DOMAIN t = DOMAIN s \cup {Len(s) + 1}
    BY <1>2, <1>3, LenProperties
  <1>6. ToSet(t) = S
    BY <1>2, <1>4, <1>5 DEF ToSet
  <1> QED
    BY <1>2, <1>3, <1>4, <1>5, <1>6

LEMMA PrefixTasks ==
  ASSUME NEW h, Linked(h), NEW c \in Chain(h)
  PROVE  Tasks(c) \subseteq Tasks(h)
  <1>1. Len(h) \in Nat /\ DOMAIN h = 1..Len(h)
    BY LenProperties DEF Linked
  <1>2. PICK n \in 1..Len(h) : c = SubSeq(h, 1, n)
    BY DEF Chain
  <1>3. \A i \in 1..n : h[i] \in ToSet(h)
    BY <1>1 DEF ToSet
  <1>4. /\ c \in Seq(ToSet(h)) /\ Len(c) = n
        /\ \A i \in 1..n : c[i] = h[i]
    BY <1>1, <1>2, <1>3, SubSeqProperties, Z3
  <1>5. DOMAIN c = 1..n
    BY <1>4, LenProperties
  <1> QED
    BY <1>1, <1>4, <1>5 DEF Tasks

\* What is listed in pages and in the index proper.
Listed(p, a) == UNION {ToSet(Append(p, a)[i]) : i \in DOMAIN Append(p, a)}

LEMMA ListedIs ==
  ASSUME NEW p, p \in Seq(ToSet(p)), NEW a
  PROVE  Listed(p, a) = (UNION {ToSet(p[i]) : i \in DOMAIN p}) \cup ToSet(a)
  BY OneMore DEF Listed

LEMMA EmptyList ==
  /\ <<>> \in Seq(ToSet(<<>>))
  /\ ToSet(<<>>) = {}
  BY EmptySeq DEF ToSet

(***************************************************************************)
(* The initial state.                                                      *)
(***************************************************************************)
LEMMA Initially == Init => IInv
  <1> SUFFICES ASSUME Init
               PROVE  IInv
    OBVIOUS
  <1> USE DEF Init
  <1>1. Linked(head) /\ Len(head) \in Nat
    BY EvidenceAssumption, LenProperties DEF Linked
  <1>2. \A t \in Tasks(head) : t \in Int /\ t < 0
    BY EvidenceAssumption DEF Tasks
  <1>3. Old(head)
    BY <1>1, <1>2 DEF Old
  <1>4. \A r \in saved : Old(r.name)
    <2> SUFFICES ASSUME NEW c \in Chain(head)
                 PROVE  Old(c)
      BY DEF TaskArchive
    <2>1. Tasks(c) \subseteq Tasks(head)
      BY <1>1, PrefixTasks
    <2> QED
      BY <2>1, <1>3 DEF Old
  <1>5. StartKept
    BY <1>1 DEF StartKept, TaskLocked
  <1>6. ChainsKept
    BY <1>1, <1>3, <1>4 DEF ChainsKept
  <1>7. Indexed = {}
    <2>1. Indexed = Listed(<<>>, <<>>)
      BY DEF Indexed, Lists, Listed
    <2>2. (UNION {ToSet(<<>>[i]) : i \in DOMAIN <<>>}) = {}
      OBVIOUS
    <2>3. Listed(<<>>, <<>>) = (UNION {ToSet(<<>>[i]) : i \in DOMAIN <<>>}) \cup ToSet(<<>>)
      BY ListedIs, EmptyList
    <2> QED
      BY <2>1, <2>2, <2>3, EmptyList
  <1>8. IndexStands
    BY <1>7, EmptyList DEF IndexStands
  <1>9. CompactionKept
    BY DEF CompactionKept, Busy
  <1>10. HeldKept
    BY DEF HeldKept, Held, TaskLocked
  <1>11. JournalKept
    BY DEF JournalKept
  <1> QED
    BY <1>5, <1>6, <1>8, <1>9, <1>10, <1>11 DEF IInv

(***************************************************************************)
(* A start, and what it may lose.                                          *)
(***************************************************************************)
LEMMA StartStep ==
  ASSUME StartKept, [Next]_vars
  PROVE  StartKept'
  <1> USE DEF StartKept, TaskLocked
  <1>1. ASSUME StartLoad PROVE StartKept'
    BY <1>1 DEF StartLoad, Call
  <1>2. ASSUME StartPublish PROVE StartKept'
    BY <1>2 DEF StartPublish
  <1>3. ASSUME StartCommit PROVE StartKept'
    BY <1>3 DEF StartCommit
  <1>4. ASSUME StartFails \/ StartDies PROVE StartKept'
    BY <1>4 DEF StartFails, StartDies
  <1>5. ASSUME start' = start, head' = head, calls' \in {calls, calls + 1} PROVE StartKept'
    BY <1>5
  <1>6. ASSUME LoadHead \/ ClearHead \/ Anchor PROVE StartKept'
    BY <1>6 DEF LoadHead, ClearHead, Anchor
  <1>7. ASSUME NEW p \in Papers, NEW v \in Contents, Save(p, v) PROVE StartKept'
    BY <1>5, <1>7 DEF Save, Call
  <1>8. ASSUME NEW withHistory \in BOOLEAN, NEW kept \in SUBSET Papers, Plan(withHistory, kept)
        PROVE  StartKept'
    BY <1>5, <1>8 DEF Plan
  <1>9. ASSUME NEW gone \in SUBSET zips, CollectOrphans(gone) PROVE StartKept'
    BY <1>5, <1>9 DEF CollectOrphans
  <1>10. ASSUME NEW zip \in Indexed, Restore(zip) PROVE StartKept'
    BY <1>5, <1>10 DEF Restore, Call
  <1>11. ASSUME Migrate PROVE StartKept'
    BY <1>5, <1>11 DEF Migrate, Call
  <1>12. ASSUME Look \/ Install \/ Unlink \/ LinkPage \/ PageDone \/ LinkZip PROVE StartKept'
    BY <1>5, <1>12 DEF Look, Install, Unlink, LinkPage, PageDone, LinkZip
  <1>13. ASSUME ZipDone \/ WriteIndex \/ Installed \/ Rewrite \/ Rewritten \/ Crash PROVE StartKept'
    BY <1>5, <1>13 DEF ZipDone, WriteIndex, Installed, Rewrite, Rewritten, Crash
  <1>14. ASSUME JournalRestored \/ JournalOverwritten \/ UNCHANGED vars PROVE StartKept'
    BY <1>5, <1>14 DEF JournalRestored, JournalOverwritten, vars
  <1> QED
    BY <1>1, <1>2, <1>3, <1>4, <1>6, <1>7, <1>8, <1>9, <1>10, <1>11, <1>12, <1>13, <1>14
    DEF Next, Others, Begin, Work, Starts

(***************************************************************************)
(* The index only grows, and all it names is there.                        *)
(***************************************************************************)
LEMMA IndexedIs ==
  ASSUME IndexStands
  PROVE  Indexed = (UNION {ToSet(index.pages[i]) : i \in DOMAIN index.pages})
                       \cup ToSet(index.archives)
  <1>1. Indexed = Listed(index.pages, index.archives)
    BY DEF Indexed, Lists, Listed
  <1>2. Listed(index.pages, index.archives)
          = (UNION {ToSet(index.pages[i]) : i \in DOMAIN index.pages}) \cup ToSet(index.archives)
    BY ListedIs DEF IndexStands
  <1> QED
    BY <1>1, <1>2

\* The index gets one archive, whether or not its list becomes a page before.
LEMMA WriteStep ==
  ASSUME IndexStands, CompactionKept, WriteIndex
  PROVE  /\ index'.pages \in Seq(ToSet(index'.pages))
         /\ index'.archives \in Seq(ToSet(index'.archives))
         /\ Indexed' = Indexed \cup {op.zip}
  <1> DEFINE P == index.pages
             A == index.archives
             All(p) == UNION {ToSet(p[i]) : i \in DOMAIN p}
  <1>1. index'.pages = op.pages /\ index'.archives = Append(op.base, op.zip)
    BY DEF WriteIndex
  <1>2. P \in Seq(ToSet(P)) /\ A \in Seq(ToSet(A))
    BY DEF IndexStands
  <1>3. \/ op.base = A /\ op.pages = P
        \/ op.base = <<>> /\ op.pages = Append(P, A)
    BY DEF WriteIndex, At, CompactionKept, Busy
  <1>4. op.base \in Seq(ToSet(op.base)) /\ op.pages \in Seq(ToSet(op.pages))
    <2>1. Append(P, A) \in Seq(ToSet(Append(P, A)))
      BY <1>2, OneMore
    <2>2. CASE op.base = A /\ op.pages = P
      BY <1>2, <2>2
    <2>3. CASE op.base = <<>> /\ op.pages = Append(P, A)
      BY <2>1, <2>3, EmptyList
    <2> QED
      BY <1>3, <2>2, <2>3
  <1>5. /\ index'.archives \in Seq(ToSet(index'.archives))
        /\ ToSet(index'.archives) = ToSet(op.base) \cup {op.zip}
    BY <1>1, <1>4, OneMore
  <1>6. All(op.pages) \cup ToSet(op.base) = All(P) \cup ToSet(A)
    <2>1. CASE op.base = A /\ op.pages = P
      BY <2>1
    <2>2. CASE op.base = <<>> /\ op.pages = Append(P, A)
      <3>1. All(Append(P, A)) = All(P) \cup ToSet(A)
        BY <1>2, ListedIs DEF Listed
      <3> QED
        BY <2>2, <3>1, EmptyList
    <2> QED
      BY <1>3, <2>1, <2>2
  <1>7. Indexed = All(P) \cup ToSet(A)
    BY IndexedIs
  <1>8. Indexed' = Listed(op.pages, index'.archives)
    BY <1>1 DEF Indexed, Lists, Listed
  <1>9. Listed(op.pages, index'.archives) = All(op.pages) \cup ToSet(index'.archives)
    BY <1>4, ListedIs
  <1>10. Indexed' = (All(op.pages) \cup ToSet(op.base)) \cup {op.zip}
    BY <1>8, <1>9, <1>5
  <1> HIDE DEF All
  <1> QED
    BY <1>1, <1>4, <1>5, <1>6, <1>7, <1>10

LEMMA IndexStep ==
  ASSUME IndexStands, CompactionKept, [Next]_vars
  PROVE  /\ IndexStands'
         /\ index' = index \/ (WriteIndex /\ Indexed' = Indexed \cup {op.zip})
         /\ DOMAIN twice' = DOMAIN twice
  <1> DEFINE Goal == /\ IndexStands'
                     /\ index' = index \/ (WriteIndex /\ Indexed' = Indexed \cup {op.zip})
                     /\ DOMAIN twice' = DOMAIN twice
  <1>1. ASSUME index' = index, zips \subseteq zips', twice'.zips \subseteq twice.zips,
               DOMAIN twice' = DOMAIN twice
        PROVE  Goal
    <2>1. Indexed' = Indexed
      BY <1>1 DEF Indexed, Lists
    <2> QED
      BY <1>1, <2>1 DEF IndexStands
  <1> USE DEF IndexStands
  <1>2. ASSUME WriteIndex PROVE Goal
    <2>1. op.zip \in zips \ twice.zips
      BY <1>2 DEF WriteIndex, At, CompactionKept, Busy
    <2>2. zips' = zips /\ twice' = twice
      BY <1>2 DEF WriteIndex
    <2> QED
      BY <1>2, <2>1, <2>2, WriteStep
  <1>3. ASSUME LinkZip PROVE Goal
    <2>1. index' = index /\ Indexed' = Indexed
      BY <1>3 DEF LinkZip, Indexed, Lists
    <2>2. CASE zips' = zips /\ twice' = twice
      BY <1>1, <2>1, <2>2
    <2>3. CASE \E zip : /\ zip \notin zips
                        /\ zips' = zips \cup {zip}
                        /\ twice' = [twice EXCEPT !.zips = @ \cup {zip}]
      BY <2>1, <2>3
    <2> QED
      BY <1>3, <2>2, <2>3 DEF LinkZip
  <1>4. ASSUME NEW gone \in SUBSET zips, CollectOrphans(gone) PROVE Goal
    <2>1. index' = index /\ Indexed' = Indexed
      BY <1>4 DEF CollectOrphans, Indexed, Lists
    <2> QED
      BY <1>4, <2>1 DEF CollectOrphans
  <1>5. ASSUME ZipDone PROVE Goal
    BY <1>1, <1>5 DEF ZipDone
  <1>6. ASSUME NEW p \in Papers, NEW v \in Contents, Save(p, v) PROVE Goal
    BY <1>1, <1>6 DEF Save
  <1>7. ASSUME Starts PROVE Goal
    BY <1>1, <1>7 DEF Starts, StartLoad, StartPublish, StartCommit, StartFails,
           StartDies, JournalRestored, JournalOverwritten, evidence
  <1>8. ASSUME NEW withHistory \in BOOLEAN, NEW kept \in SUBSET Papers, Plan(withHistory, kept)
        PROVE  Goal
    BY <1>1, <1>8 DEF Plan, evidence
  <1>9. ASSUME NEW zip \in Indexed, Restore(zip) PROVE Goal
    BY <1>1, <1>9 DEF Restore, evidence
  <1>10. ASSUME Migrate \/ LoadHead \/ ClearHead \/ Look \/ Anchor \/ Crash PROVE Goal
    BY <1>1, <1>10 DEF Migrate, LoadHead, ClearHead, Look, Anchor, Crash, evidence
  <1>11. ASSUME Install \/ Unlink \/ LinkPage PROVE Goal
    BY <1>1, <1>11 DEF Install, Unlink, LinkPage
  <1>12. ASSUME PageDone \/ Installed \/ Rewrite \/ Rewritten PROVE Goal
    BY <1>1, <1>12 DEF PageDone, Installed, Rewrite, Rewritten
  <1>13. ASSUME UNCHANGED vars PROVE Goal
    BY <1>1, <1>13 DEF vars, evidence
  <1> QED
    BY <1>2, <1>3, <1>4, <1>5, <1>6, <1>7, <1>8, <1>9, <1>10, <1>11, <1>12, <1>13
    DEF Next, Others, Begin, Work, Starts

(***************************************************************************)
(* The compaction under way.                                               *)
(***************************************************************************)
Compacting == {"page", "page linked", "zip", "zip linked", "index", "clear", "clearing",
               "remove"}

\* What CompactionKept says of a command o.
Sound(o) ==
    /\ o.phase \in Compacting => DOMAIN o = Fields
    /\ o.phase \in {"page", "page linked", "zip", "zip linked", "index"} =>
          o.chosen # {} /\ o.looking = None
    /\ o.phase = "page" => o.base = <<>>
    /\ o.phase \in {"page linked", "zip", "zip linked", "index"} =>
          \/ o.base = index.archives /\ o.pages = index.pages
          \/ o.base = <<>> /\ o.pages = Append(index.pages, index.archives)
    /\ o.phase \in {"zip linked", "index"} => o.zip # {} /\ o.zip \in zips
    /\ o.phase = "index" => o.zip \notin twice.zips
    /\ o.phase \in {"clear", "clearing", "remove"} =>
          /\ o.left # {} /\ o.left \subseteq Archived
          /\ o.zip = {} => o.base = <<>>
          /\ o.looking # None => o.looking \in o.left

LEMMA CompactionIs == CompactionKept <=> (op # None => Sound(op))
  BY DEF CompactionKept, Sound, Busy, Compacting

LEMMA RemovingIs ==
  ASSUME NEW o, DOMAIN o = Fields, NEW left, left # {}, left \subseteq Archived,
         o.looking = None, o.zip = {} => o.base = <<>>
  PROVE  Sound(Removing(o, left))
  <1> DEFINE n == Removing(o, left)
  <1>1. n.phase \in {"clear", "clearing", "remove"} /\ DOMAIN n = Fields
    BY DEF Removing, Fields
  <1>2. n.left = left /\ n.zip = o.zip /\ n.base = o.base /\ n.looking = o.looking
    BY DEF Removing, Fields
  <1> HIDE DEF n
  <1>3. Sound(n)
    BY <1>1, <1>2 DEF Sound, Compacting
  <1> QED
    BY <1>3 DEF n

LEMMA PublishingIs ==
  ASSUME NEW o, DOMAIN o = Fields, o.chosen # {}, o.looking = None, o.base = <<>>
  PROVE  Sound(Publishing(o))
  <1>1. CASE Len(index.archives) >= MaxArchives
    <2> DEFINE n == [o EXCEPT !.phase = "page"]
    <2>1. /\ n.phase = "page" /\ DOMAIN n = Fields /\ n.chosen = o.chosen /\ n.base = o.base
          /\ n.looking = o.looking
      BY DEF Fields
    <2>2. Publishing(o) = n
      BY <1>1 DEF Publishing
    <2> HIDE DEF n
    <2> QED
      BY <2>1, <2>2 DEF Sound, Compacting
  <1>2. CASE ~(Len(index.archives) >= MaxArchives)
    <2> DEFINE n == [o EXCEPT !.phase = "zip", !.base = index.archives, !.pages = index.pages]
    <2>1. /\ n.phase = "zip" /\ DOMAIN n = Fields /\ n.chosen = o.chosen /\ n.looking = o.looking
          /\ n.base = index.archives /\ n.pages = index.pages
      BY DEF Fields
    <2>2. Publishing(o) = n
      BY <1>2 DEF Publishing
    <2> HIDE DEF n
    <2> QED
      BY <2>1, <2>2 DEF Sound, Compacting
  <1> QED
    BY <1>1, <1>2

\* Sound speaks of the index, the archives and their second links besides.
LEMMA SoundNext ==
  ASSUME index' = index, zips' = zips, twice'.zips = twice.zips, op' # None => Sound(op')
  PROVE  CompactionKept'
  <1>1. Archived' = Archived
    BY DEF Archived, Indexed, Lists
  <1> QED
    BY <1>1 DEF CompactionKept, Sound, Busy, Compacting

\* Steps that go on with a compaction in another phase, and change nothing it rests on.
LEMMA RemovalSteps ==
  ASSUME CompactionKept, IndexStands, LoadHead \/ ClearHead \/ Look \/ Unlink
  PROVE  CompactionKept'
  <1>1. op # None /\ op.phase \in {"clear", "clearing", "remove"} /\ Sound(op)
    BY CompactionIs DEF LoadHead, ClearHead, Look, Unlink, At
  <1>2. /\ DOMAIN op = Fields /\ op.left # {} /\ op.left \subseteq Archived
        /\ op.zip = {} => op.base = <<>>
        /\ op.looking # None => op.looking \in op.left
    BY <1>1 DEF Sound, Compacting
  <1>3. index' = index /\ zips' = zips /\ twice'.zips = twice.zips
    BY DEF LoadHead, ClearHead, Look, Unlink, evidence, IndexStands
  <1>4. ASSUME LoadHead \/ ClearHead PROVE op' # None => Sound(op')
    <2>1. ASSUME NEW phase \in {"clearing", "remove"}, NEW seen
          PROVE  Sound([op EXCEPT !.phase = phase, !.seen = seen])
      <3> DEFINE n == [op EXCEPT !.phase = phase, !.seen = seen]
      <3>1. /\ n.phase = phase /\ DOMAIN n = Fields /\ n.left = op.left /\ n.zip = op.zip
            /\ n.base = op.base /\ n.looking = op.looking
        BY <1>2 DEF Fields
      <3> HIDE DEF n
      <3>2. Sound(n)
        BY <1>2, <2>1, <3>1 DEF Sound, Compacting
      <3> QED
        BY <3>2 DEF n
    <2> QED
      BY <1>4, <2>1 DEF LoadHead, ClearHead, Done
  <1>5. ASSUME Look PROVE op' # None => Sound(op')
    <2> DEFINE r == First(op.left)
               found == {file \in Named(r.name) : AsReceived(file, r)}
               n == [op EXCEPT !.looking = CHOOSE file \in found : TRUE]
    <2>1. r \in op.left
      BY <1>2 DEF First
    <2>2. CASE found = {}
      BY <1>5, <2>2 DEF Look
    <2>3. CASE found # {}
      <3>1. (CHOOSE file \in found : TRUE) = r
        BY <2>3 DEF AsReceived
      <3>2. /\ n.phase = "remove" /\ DOMAIN n = Fields /\ n.left = op.left /\ n.zip = op.zip
            /\ n.base = op.base /\ n.looking = r
        BY <1>2, <1>5, <3>1 DEF Fields, Look, At
      <3>3. op' = n
        BY <1>5, <2>3 DEF Look
      <3> HIDE DEF n, r
      <3>4. Sound(n)
        BY <1>2, <2>1, <3>2 DEF Sound, Compacting
      <3> QED
        BY <3>3, <3>4
    <2> QED
      BY <2>2, <2>3
  <1>6. ASSUME Unlink PROVE op' # None => Sound(op')
    <2> DEFINE left == {r \in op.left : r.name # op.looking.name}
    <2>1. op' = None \/ op' = AfterRemoval(left)
      BY <1>6 DEF Unlink
    <2>2. CASE left # {}
      <3> DEFINE n == [op EXCEPT !.left = left, !.looking = None]
      <3>1. /\ n.phase = "remove" /\ DOMAIN n = Fields /\ n.left = left /\ n.zip = op.zip
            /\ n.base = op.base /\ n.looking = None
        BY <1>2, <1>6 DEF Fields, Unlink, At
      <3>2. left \subseteq Archived
        BY <1>2
      <3>3. op' = None \/ op' = n
        BY <2>1, <2>2 DEF AfterRemoval
      <3> HIDE DEF n, left
      <3>4. Sound(n)
        BY <1>2, <2>2, <3>1, <3>2 DEF Sound, Compacting
      <3> QED
        BY <3>3, <3>4
    <2>3. CASE left = {} /\ op.chosen # {} /\ op.zip = {}
      <3> DEFINE n == [op EXCEPT !.left = {}, !.looking = None]
      <3>1. DOMAIN n = Fields /\ n.chosen = op.chosen /\ n.base = op.base /\ n.looking = None
        BY <1>2 DEF Fields
      <3>2. op' = None \/ op' = Publishing(n)
        BY <2>1, <2>3 DEF AfterRemoval
      <3> HIDE DEF n
      <3>3. Sound(Publishing(n))
        BY <1>2, <2>3, <3>1, PublishingIs
      <3> QED
        BY <3>2, <3>3
    <2>4. CASE left = {} /\ ~(op.chosen # {} /\ op.zip = {})
      BY <2>1, <2>4 DEF AfterRemoval
    <2> QED
      BY <2>2, <2>3, <2>4
  <1> QED
    BY <1>3, <1>4, <1>5, <1>6, SoundNext

\* Plan begins one, with what is already archived or with an archive of its own.
LEMMA PlanStep ==
  ASSUME NEW withHistory \in BOOLEAN, NEW kept \in SUBSET Papers, Plan(withHistory, kept)
  PROVE  Sound(op') /\ op'.phase \in Compacting
  <1> DEFINE reachable == kept \cup (IF withHistory THEN {} ELSE Chain(head))
             free == {r \in active : r.name \notin reachable}
             duplicates == Duplicates(free)
             chosen == {r \in free \ duplicates : withHistory \/ ~IsTaskArchive(r)}
             names == {r.name : r \in chosen}
             o == [phase |-> "plan", chosen |-> names, left |-> {},
                   looking |-> None, base |-> <<>>, pages |-> <<>>, zip |-> {},
                 seen |-> <<>>]
  <1>1. /\ chosen \cup duplicates # {}
        /\ op' = IF duplicates # {} THEN Removing(o, duplicates) ELSE Publishing(o)
    BY DEF Plan
  <1>2. DOMAIN o = Fields /\ o.looking = None /\ o.base = <<>> /\ o.chosen = names
    BY DEF Fields
  <1>3. duplicates \subseteq Archived
    BY DEF Duplicates
  <1>4. duplicates = {} => names # {}
    BY <1>1
  <1> HIDE DEF o, duplicates, names
  <1>5. CASE duplicates # {}
    <2>1. Sound(Removing(o, duplicates))
      BY <1>2, <1>3, <1>5, RemovingIs
    <2>2. Removing(o, duplicates).phase \in Compacting
      BY <1>2 DEF Removing, Compacting, Fields
    <2> QED
      BY <1>1, <1>5, <2>1, <2>2
  <1>6. CASE duplicates = {}
    <2>1. Sound(Publishing(o))
      BY <1>2, <1>4, <1>6, PublishingIs
    <2>2. Publishing(o).phase \in Compacting
      BY <1>2 DEF Publishing, Compacting, Fields
    <2> QED
      BY <1>1, <1>6, <2>1, <2>2
  <1> QED
    BY <1>5, <1>6

\* The steps up to the index: page, archive, index.
LEMMA PageSteps ==
  ASSUME CompactionKept, IndexStands, LinkPage \/ PageDone
  PROVE  CompactionKept'
  <1>1. op # None /\ op.phase \in {"page", "page linked"} /\ Sound(op)
    BY CompactionIs DEF LinkPage, PageDone, At
  <1>2. DOMAIN op = Fields /\ op.chosen # {} /\ op.looking = None
    BY <1>1 DEF Sound, Compacting
  <1>3. index' = index /\ zips' = zips /\ twice'.zips = twice.zips
    BY DEF LinkPage, PageDone, IndexStands
  <1>4. ASSUME LinkPage PROVE op' # None => Sound(op')
    <2> DEFINE page == Append(index.pages, index.archives)
               n(phase) == [[op EXCEPT !.pages = page] EXCEPT !.phase = phase]
    <2>1. op.base = <<>>
      BY <1>1, <1>4 DEF Sound, LinkPage, At
    <2>2. op' \in {n("zip"), n("page linked"), None}
      BY <1>4 DEF LinkPage
    <2>3. ASSUME NEW phase \in {"zip", "page linked"} PROVE Sound(n(phase))
      <3> DEFINE m == n(phase)
      <3>1. /\ m.phase = phase /\ DOMAIN m = Fields /\ m.chosen = op.chosen /\ m.looking = op.looking
            /\ m.base = op.base /\ m.pages = page
        BY <1>2 DEF Fields
      <3> HIDE DEF m
      <3>2. Sound(m)
        BY <1>2, <2>1, <3>1, <2>3 DEF Sound, Compacting
      <3> QED
        BY <3>2 DEF m
    <2> HIDE DEF n
    <2> QED
      BY <2>2, <2>3
  <1>5. ASSUME PageDone PROVE op' # None => Sound(op')
    <2> DEFINE m == [op EXCEPT !.phase = "zip"]
    <2>1. \/ op.base = index.archives /\ op.pages = index.pages
          \/ op.base = <<>> /\ op.pages = Append(index.pages, index.archives)
      BY <1>1, <1>5 DEF Sound, PageDone, At
    <2>2. /\ m.phase = "zip" /\ DOMAIN m = Fields /\ m.chosen = op.chosen /\ m.looking = op.looking
          /\ m.base = op.base /\ m.pages = op.pages
      BY <1>2 DEF Fields
    <2>3. op' = m
      BY <1>5 DEF PageDone, Goto
    <2> HIDE DEF m
    <2>4. Sound(m)
      BY <1>2, <2>1, <2>2 DEF Sound, Compacting
    <2> QED
      BY <2>3, <2>4
  <1> QED
    BY <1>3, <1>4, <1>5, SoundNext

LEMMA ZipSteps ==
  ASSUME CompactionKept, IndexStands, LinkZip \/ ZipDone
  PROVE  CompactionKept'
  <1>1. op # None /\ op.phase \in {"zip", "zip linked"} /\ Sound(op)
    BY CompactionIs DEF LinkZip, ZipDone, At
  <1>2. /\ DOMAIN op = Fields /\ op.chosen # {} /\ op.looking = None
        /\ \/ op.base = index.archives /\ op.pages = index.pages
           \/ op.base = <<>> /\ op.pages = Append(index.pages, index.archives)
    BY <1>1 DEF Sound, Compacting
  <1>3. index' = index
    BY DEF LinkZip, ZipDone
  <1>4. ASSUME NEW m, op' = m, m.phase \in {"zip linked", "index"}, DOMAIN m = Fields,
               m.chosen = op.chosen, m.looking = op.looking, m.base = op.base, m.pages = op.pages, m.zip # {},
               m.zip \in zips', m.phase = "index" => m.zip \notin twice'.zips
        PROVE  CompactionKept'
    BY <1>2, <1>3, <1>4 DEF CompactionKept, Busy
  <1>5. CASE LinkZip
    <2> DEFINE zip == {r \in active : r.name \in op.chosen}
               n(phase) == [[op EXCEPT !.zip = zip] EXCEPT !.phase = phase]
    <2>1. CASE op' = None
      BY <2>1 DEF CompactionKept, Busy
    <2>2. ASSUME NEW phase \in {"zip linked", "index"}
          PROVE  /\ n(phase).phase = phase /\ DOMAIN n(phase) = Fields
                 /\ n(phase).chosen = op.chosen /\ n(phase).looking = op.looking
                 /\ n(phase).base = op.base
                 /\ n(phase).pages = op.pages /\ n(phase).zip = zip
      BY <1>2 DEF Fields
    <2>3. ASSUME op' # None
          PROVE  /\ zip # {}
                 /\ \/ /\ op' = n("index") /\ zip \in zips /\ zip \notin twice.zips
                       /\ UNCHANGED <<zips, twice>>
                    \/ op' = n("zip linked") /\ zips' = zips \cup {zip}
      <3>1. {r.name : r \in zip} = op.chosen
        BY <1>5, <2>3 DEF LinkZip, Done
      <3>2. zip # {}
        BY <3>1, <1>2
      <3> QED
        BY <1>5, <2>3, <3>2 DEF LinkZip, Done
    <2> HIDE DEF n, zip
    <2>4. CASE op' # None
      <3>1. CASE /\ op' = n("index") /\ zip \in zips /\ zip \notin twice.zips
                 /\ UNCHANGED <<zips, twice>>
        BY <3>1, <2>2, <2>3, <2>4, <1>4
      <3>2. CASE op' = n("zip linked") /\ zips' = zips \cup {zip}
        BY <3>2, <2>2, <2>3, <2>4, <1>4
      <3> QED
        BY <2>3, <2>4, <3>1, <3>2
    <2> QED
      BY <2>1, <2>4
  <1>6. CASE ZipDone
    <2> DEFINE m == [op EXCEPT !.phase = "index"]
    <2>1. /\ m.phase = "index" /\ DOMAIN m = Fields /\ m.chosen = op.chosen /\ m.looking = op.looking
          /\ m.base = op.base /\ m.pages = op.pages /\ m.zip = op.zip
      BY <1>2 DEF Fields
    <2>2. op' = m /\ zips' = zips
      BY <1>6 DEF ZipDone, Goto
    <2>3. op.zip # {} /\ op.zip \in zips
      BY <1>1, <1>6 DEF ZipDone, At, Sound
    <2>4. op.zip \notin twice'.zips
      BY <1>6 DEF ZipDone, IndexStands
    <2> HIDE DEF m
    <2> QED
      BY <2>1, <2>2, <2>3, <2>4, <1>4
  <1> QED
    BY <1>5, <1>6

\* What is removed after the index is written has been archived by it.
LEMMA IndexWritten ==
  ASSUME CompactionKept, IndexStands, WriteIndex
  PROVE  CompactionKept'
  <1>1. op # None /\ op.phase = "index" /\ Sound(op)
    BY CompactionIs DEF WriteIndex, At
  <1>2. DOMAIN op = Fields /\ op.zip # {} /\ op.looking = None
    BY <1>1 DEF Sound, Compacting
  <1>3. op.zip \subseteq Archived'
    BY WriteStep DEF Archived
  <1>4. op' = Removing(op, op.zip)
    BY DEF WriteIndex
  <1>5. /\ op'.phase \in {"clear", "clearing", "remove"} /\ DOMAIN op' = Fields /\ op'.left = op.zip
        /\ op'.zip = op.zip /\ op'.looking = None
    BY <1>2, <1>4 DEF Removing, Fields
  <1> QED
    BY <1>2, <1>3, <1>5 DEF CompactionKept, Busy

Advances ==
    \/ LoadHead \/ ClearHead \/ Look \/ Unlink \/ LinkPage
    \/ PageDone \/ LinkZip \/ ZipDone \/ WriteIndex

LEMMA StaysCompacting ==
  ASSUME CompactionKept, Advances
  PROVE  op' = None \/ op'.phase \in Compacting
  <1>1. op # None /\ op.phase \in Compacting
    BY DEF Advances, LoadHead, ClearHead, Look, Unlink, LinkPage, PageDone, LinkZip, ZipDone, WriteIndex,
           At, Compacting
  <1>2. DOMAIN op = Fields
    BY <1>1 DEF CompactionKept, Busy, Compacting
  <1> USE <1>1, <1>2 DEF Compacting, Fields
  <1>3. CASE LoadHead \/ ClearHead \/ PageDone \/ ZipDone
    BY <1>3 DEF LoadHead, ClearHead, PageDone, ZipDone, Goto, Done
  <1>4. CASE Look
    BY <1>4 DEF Look
  <1>5. CASE Unlink
    <2>1. \A left : AfterRemoval(left) = None \/ AfterRemoval(left).phase \in Compacting
      BY DEF AfterRemoval, Publishing
    <2> QED
      BY <1>5, <2>1 DEF Unlink
  <1>6. CASE LinkPage
    BY <1>6 DEF LinkPage
  <1>7. CASE LinkZip
    BY <1>7 DEF LinkZip, Done
  <1>8. CASE WriteIndex
    BY <1>8 DEF WriteIndex, Removing
  <1> QED
    BY <1>3, <1>4, <1>5, <1>6, <1>7, <1>8 DEF Advances

LEMMA CompactionStep ==
  ASSUME CompactionKept, IndexStands, ChainsKept, [Next]_vars
  PROVE  CompactionKept'
  <1>1. ASSUME op' = op, UNCHANGED evidence PROVE CompactionKept'
    BY <1>1, CompactionIs, SoundNext DEF evidence
  <1>2. ASSUME index' = index, zips' = zips, twice'.zips = twice.zips,
               op' = None \/ op'.phase \notin Compacting
        PROVE  CompactionKept'
    BY <1>2, SoundNext DEF Sound, Compacting
  <1>3. ASSUME NEW p \in Papers, NEW v \in Contents, Save(p, v) PROVE CompactionKept'
    BY <1>3, CompactionIs, SoundNext DEF Save, IndexStands
  <1>4. ASSUME Starts PROVE CompactionKept'
    <2>1. op' = op /\ index' = index /\ zips' = zips /\ twice'.zips = twice.zips
      BY <1>4 DEF Starts, StartLoad, StartPublish, StartCommit, StartFails, StartDies,
                  JournalRestored, JournalOverwritten, evidence, IndexStands
    <2> QED
      BY <2>1, CompactionIs, SoundNext
  <1>5. ASSUME NEW withHistory \in BOOLEAN, NEW kept \in SUBSET Papers, Plan(withHistory, kept)
        PROVE  CompactionKept'
    <2>1. Sound(op')
      BY <1>5, PlanStep
    <2> QED
      BY <1>5, <2>1, SoundNext DEF Plan, evidence
  <1>6. ASSUME NEW gone \in SUBSET zips, CollectOrphans(gone) PROVE CompactionKept'
    BY <1>6 DEF CollectOrphans, Idle, CompactionKept, Busy
  <1>7. ASSUME NEW zip \in Indexed, Restore(zip) PROVE CompactionKept'
    BY <1>7, <1>2 DEF Restore, evidence, Compacting
  <1>8. ASSUME Migrate PROVE CompactionKept'
    <2>1. op'.phase = "rewrite"
      BY <1>8 DEF Migrate
    <2> QED
      BY <1>8, <1>2, <2>1 DEF Migrate, evidence, Compacting
  <1>9. ASSUME Anchor \/ Crash PROVE CompactionKept'
    BY <1>9, <1>2 DEF Anchor, Crash, Done, evidence
  <1>10. ASSUME Install \/ Installed PROVE CompactionKept'
    <2>1. DOMAIN op = {"phase", "left"}
      BY <1>10 DEF ChainsKept, Install, Installed, At
    <2>2. \A r : AfterInstall(r) = None \/ AfterInstall(r).phase = "install"
      BY DEF AfterInstall
    <2>3. \/ op' = None
          \/ op' = [op EXCEPT !.phase = "installed"]
          \/ \E r : op' = AfterInstall(r)
      BY <1>10 DEF Install, Installed
    <2>4. op' = None \/ op'.phase \notin Compacting
      BY <2>1, <2>2, <2>3 DEF Compacting
    <2> QED
      BY <1>10, <1>2, <2>4 DEF Install, Installed, IndexStands
  <1>11. ASSUME Rewrite \/ Rewritten PROVE CompactionKept'
    <2>1. DOMAIN op = {"phase", "from", "to", "left"}
      BY <1>11 DEF ChainsKept, Rewrite, Rewritten, At
    <2>2. op' = None \/ op'.phase \notin Compacting
      <3>1. CASE Rewrite
        <4>1. op.phase = "rewrite"
          BY <3>1 DEF Rewrite, At
        <4>2. PICK left : \/ op' = [op EXCEPT !.left = left]
                          \/ op' = [op EXCEPT !.phase = "rewritten", !.left = left]
          BY <3>1 DEF Rewrite
        <4> QED
          BY <2>1, <4>1, <4>2 DEF Compacting
      <3>2. CASE Rewritten
        BY <2>1, <3>2 DEF Rewritten, Goto, Compacting
      <3> QED
        BY <1>11, <3>1, <3>2
    <2> QED
      BY <1>11, <1>2, <2>2 DEF Rewrite, Rewritten, IndexStands
  <1>12. ASSUME UNCHANGED vars PROVE CompactionKept'
    BY <1>1, <1>12 DEF vars
  <1> QED
    BY <1>3, <1>4, <1>5, <1>6, <1>7, <1>8, <1>9, <1>10, <1>11, <1>12,
       RemovalSteps, PageSteps, ZipSteps, IndexWritten
    DEF Next, Others, Begin, Work, Starts

(***************************************************************************)
(* Chains: what has been committed is older than the start under way.      *)
(***************************************************************************)
\* Old speaks of the calls and of the task of the start besides.
LEMMA OldStays ==
  ASSUME NEW h, Old(h), calls \in Nat,
         \/ start' = start /\ calls' \in {calls, calls + 1}
         \/ start' = None /\ calls' = calls
         \/ start # None /\ start' # None /\ start'.task = start.task /\ calls' = calls
         \/ start'.task = calls /\ calls' = calls + 1
  PROVE  \A t \in Tasks(h) :
            t \in Int /\ t < calls' /\ (start' # None => t # start'.task)
  BY DEF Old

LEMMA EmptyChain == Linked(<<>>) /\ \A t \in Tasks(<<>>) : FALSE
  BY EmptyList DEF Linked, Tasks

\* A chain one longer: that of a start, when it commits.
LEMMA ReplacementIs ==
  ASSUME StartKept, ChainsKept, start # None, start.head = head
  PROVE  Linked(Replacement) /\ Tasks(Replacement) = Tasks(head) \cup {start.task}
  <1> DEFINE x == [task |-> start.task, schema |-> 2, named |-> start.head]
  <1>1. Replacement = Append(head, x) /\ head \in Seq(ToSet(head))
    BY DEF Replacement, StartKept, ChainsKept, Linked
  <1>2. /\ Replacement \in Seq(ToSet(Replacement))
        /\ DOMAIN Replacement = DOMAIN head \cup {Len(head) + 1}
        /\ \A i \in DOMAIN head : Replacement[i] = head[i]
        /\ Replacement[Len(head) + 1] = x
    BY <1>1, OneMore
  <1>3. x.task = start.task /\ "task" \in DOMAIN x
    OBVIOUS
  <1> HIDE DEF x
  <1> QED
    BY <1>2, <1>3 DEF Linked, Tasks, ChainsKept

\* A migration changes no task of a chain.
LEMMA MigratedIs ==
  ASSUME NEW h, Linked(h),
         NEW to, to = [i \in 1..Len(h) |-> [h[i] EXCEPT !.schema = 2]]
  PROVE  Linked(to) /\ Tasks(to) = Tasks(h)
  <1>1. Len(h) \in Nat /\ DOMAIN h = 1..Len(h)
    BY LenProperties DEF Linked
  <1>2. \A i \in DOMAIN h : to[i].task = h[i].task /\ "task" \in DOMAIN to[i]
    BY <1>1 DEF Linked
  <1>3. DOMAIN to = DOMAIN h
    BY <1>1
  <1>4. to \in [1..Len(h) -> ToSet(to)]
    BY <1>1, <1>3 DEF ToSet
  <1>5. to \in Seq(ToSet(to))
    BY <1>1, <1>4
  <1> QED
    BY <1>2, <1>3, <1>5 DEF Linked, Tasks

\* Who moves the clock, the head, and what has been saved.
Clock ==
    \/ start' = start /\ calls' \in {calls, calls + 1}
    \/ start' = None /\ calls' = calls
    \/ start # None /\ start' # None /\ start'.task = start.task /\ calls' = calls
    \/ start'.task = calls /\ calls' = calls + 1

LEMMA Frames ==
  ASSUME StartKept, [Next]_vars
  PROVE  /\ Clock
         /\ head' = head \/ StartCommit \/ ClearHead \/ Anchor
         /\ \/ saved' = saved \/ StartCommit \/ Anchor
            \/ \E p \in Papers, v \in Contents : Save(p, v)
  <1> DEFINE Goal == /\ Clock
                     /\ head' = head \/ StartCommit \/ ClearHead \/ Anchor
                     /\ \/ saved' = saved \/ StartCommit \/ Anchor
                        \/ \E p \in Papers, v \in Contents : Save(p, v)
  <1> USE DEF Clock
  <1>1. ASSUME StartLoad PROVE Goal
    BY <1>1 DEF StartLoad, Call, history
  <1>2. ASSUME StartPublish PROVE Goal
    BY <1>2 DEF StartPublish, StartKept, history
  <1>3. ASSUME StartCommit \/ StartFails \/ StartDies PROVE Goal
    BY <1>3 DEF StartCommit, StartFails, StartDies, history
  <1>4. ASSUME LoadHead \/ ClearHead \/ Anchor PROVE Goal
    BY <1>4 DEF LoadHead, ClearHead, Anchor, history
  <1>5. ASSUME NEW p \in Papers, NEW v \in Contents, Save(p, v) PROVE Goal
    BY <1>5 DEF Save, Call
  <1>6. ASSUME NEW withHistory \in BOOLEAN, NEW kept \in SUBSET Papers, Plan(withHistory, kept)
        PROVE  Goal
    BY <1>6 DEF Plan
  <1>7. ASSUME NEW gone \in SUBSET zips, CollectOrphans(gone) PROVE Goal
    BY <1>7 DEF CollectOrphans, history
  <1>8. ASSUME NEW zip \in Indexed, Restore(zip) PROVE Goal
    BY <1>8 DEF Restore, Call, history
  <1>9. ASSUME Migrate PROVE Goal
    BY <1>9 DEF Migrate, Call, history
  <1>10. ASSUME Look \/ Install \/ Unlink \/ LinkPage \/ PageDone \/ LinkZip PROVE Goal
    BY <1>10 DEF Look, Install, Unlink, LinkPage, PageDone, LinkZip, history
  <1>11. ASSUME ZipDone \/ WriteIndex \/ Installed \/ Rewrite \/ Rewritten \/ Crash PROVE Goal
    BY <1>11 DEF ZipDone, WriteIndex, Installed, Rewrite, Rewritten, Crash, history
  <1>12. ASSUME JournalRestored \/ JournalOverwritten \/ UNCHANGED vars PROVE Goal
    BY <1>12 DEF JournalRestored, JournalOverwritten, vars, history
  <1> QED
    BY <1>1, <1>2, <1>3, <1>4, <1>5, <1>6, <1>7, <1>8, <1>9, <1>10, <1>11, <1>12
    DEF Next, Others, Begin, Work, Starts

OldNext(h) ==
    \A t \in Tasks(h) : t \in Int /\ t < calls' /\ (start' # None => t # start'.task)

LEMMA HeadStep ==
  ASSUME StartKept, ChainsKept, [Next]_vars
  PROVE  Linked(head') /\ OldNext(head')
  <1>1. \A h : Old(h) => OldNext(h)
    BY Frames, OldStays DEF OldNext, Clock, StartKept
  <1>2. Linked(head) /\ Old(head)
    BY DEF ChainsKept
  <1>3. CASE head' = head
    BY <1>1, <1>2, <1>3
  <1>4. CASE StartCommit
    <2>1. head' = Replacement /\ TaskLocked /\ start' = None /\ calls' = calls
      BY <1>4 DEF StartCommit
    <2>2. Linked(Replacement) /\ Tasks(Replacement) = Tasks(head) \cup {start.task}
      BY <2>1, ReplacementIs DEF StartKept, TaskLocked
    <2>3. start.task \in Int /\ start.task < calls
      BY <2>1 DEF StartKept, TaskLocked
    <2>4. \A t \in Tasks(head) : t \in Int /\ t < calls
      BY <1>2 DEF Old
    <2> QED
      BY <2>1, <2>2, <2>3, <2>4 DEF OldNext
  <1>5. CASE ClearHead
    BY <1>1, <1>2, <1>5, EmptyChain DEF ClearHead, OldNext
  <1>6. CASE Anchor
    <2>1. head' \in {head, op.to}
      BY <1>6 DEF Anchor
    <2>2. Linked(op.to) /\ Old(op.to)
      BY <1>6 DEF Anchor, At, ChainsKept
    <2> QED
      BY <1>1, <1>2, <2>1, <2>2
  <1> QED
    BY <1>3, <1>4, <1>5, <1>6, Frames

LEMMA SavedStep ==
  ASSUME StartKept, ChainsKept, [Next]_vars
  PROVE  \A r \in saved' : r.data = None => OldNext(r.name)
  <1>1. \A h : Old(h) => OldNext(h)
    BY Frames, OldStays DEF OldNext, Clock, StartKept
  <1>2. \A r \in saved : r.data = None => OldNext(r.name)
    BY <1>1 DEF ChainsKept
  <1>3. CASE saved' = saved
    BY <1>2, <1>3
  <1>4. CASE StartCommit
    <2>1. saved' = saved \cup {TaskArchive(Replacement)} /\ head' = Replacement
      BY <1>4 DEF StartCommit
    <2>2. OldNext(Replacement)
      BY <2>1, HeadStep
    <2> QED
      BY <1>2, <2>1, <2>2 DEF TaskArchive
  <1>5. CASE Anchor
    <2>1. \A r \in saved' : r \in saved \/ \E c \in Chain(op.to) : r.name = c
      BY <1>5 DEF Anchor, TaskArchive
    <2>2. Linked(op.to) /\ Old(op.to)
      BY <1>5 DEF Anchor, At, ChainsKept
    <2>3. \A c \in Chain(op.to) : Tasks(c) \subseteq Tasks(op.to)
      BY <2>2, PrefixTasks
    <2>4. \A c \in Chain(op.to) : OldNext(c)
      BY <1>1, <2>2, <2>3 DEF OldNext
    <2> QED
      BY <1>2, <2>1, <2>4
  <1>6. ASSUME NEW p \in Papers, NEW v \in Contents, Save(p, v)
        PROVE  \A r \in saved' : r.data = None => OldNext(r.name)
    BY <1>2, <1>6, EvidenceAssumption DEF Save
  <1> QED
    BY <1>3, <1>4, <1>5, <1>6, Frames

\* What migrations and restorations know of themselves.
LEMMA OthersStep ==
  ASSUME StartKept, ChainsKept, CompactionKept, [Next]_vars
  PROVE  /\ op' # None /\ op'.phase \in {"install", "installed"} => DOMAIN op' = {"phase", "left"}
         /\ op' # None /\ op'.phase \in {"rewrite", "rewritten"} =>
               /\ DOMAIN op' = {"phase", "from", "to", "left"}
               /\ Linked(op'.to) /\ OldNext(op'.to)
  <1> DEFINE Goal ==
         /\ op' # None /\ op'.phase \in {"install", "installed"} => DOMAIN op' = {"phase", "left"}
         /\ op' # None /\ op'.phase \in {"rewrite", "rewritten"} =>
               /\ DOMAIN op' = {"phase", "from", "to", "left"}
               /\ Linked(op'.to) /\ OldNext(op'.to)
  <1>1. \A h : Old(h) => OldNext(h)
    BY Frames, OldStays DEF OldNext, Clock, StartKept
  <1>2. ASSUME op' = op PROVE Goal
    BY <1>1, <1>2 DEF ChainsKept
  <1>3. ASSUME op' = None \/ op'.phase \in Compacting PROVE Goal
    BY <1>3 DEF Compacting
  <1>4. ASSUME Advances PROVE Goal
    BY <1>3, <1>4, StaysCompacting
  <1>5. ASSUME NEW withHistory \in BOOLEAN, NEW kept \in SUBSET Papers, Plan(withHistory, kept)
        PROVE  Goal
    BY <1>3, <1>5, PlanStep
  <1>6. ASSUME NEW zip \in Indexed, Restore(zip) PROVE Goal
    BY <1>6 DEF Restore
  <1>7. ASSUME Install \/ Installed PROVE Goal
    <2>1. DOMAIN op = {"phase", "left"}
      BY <1>7 DEF ChainsKept, Install, Installed, At
    <2>2. \A r : AfterInstall(r) = None \/ /\ AfterInstall(r).phase = "install"
                                           /\ DOMAIN AfterInstall(r) = {"phase", "left"}
      BY DEF AfterInstall
    <2>3. \/ op' = None
          \/ op' = [op EXCEPT !.phase = "installed"]
          \/ \E r : op' = AfterInstall(r)
      BY <1>7 DEF Install, Installed
    <2> QED
      BY <2>1, <2>2, <2>3
  <1>8. ASSUME Migrate PROVE Goal
    <2> DEFINE to == [i \in 1..Len(head) |-> [head[i] EXCEPT !.schema = 2]]
    <2>1. PICK left : op' = [phase |-> "rewrite", from |-> head, to |-> to, left |-> left]
      BY <1>8 DEF Migrate
    <2>2. Linked(to) /\ Tasks(to) = Tasks(head)
      BY MigratedIs DEF ChainsKept
    <2>3. OldNext(to)
      BY <1>1, <2>2 DEF ChainsKept, OldNext
    <2> HIDE DEF to
    <2> QED
      BY <2>1, <2>2, <2>3
  <1>9. ASSUME Rewrite \/ Rewritten PROVE Goal
    <2>1. DOMAIN op = {"phase", "from", "to", "left"} /\ Linked(op.to) /\ OldNext(op.to)
      BY <1>1, <1>9 DEF ChainsKept, Rewrite, Rewritten, At
    <2>2. \/ \E left : \/ op' = [op EXCEPT !.left = left]
                       \/ op' = [op EXCEPT !.phase = "rewritten", !.left = left]
          \/ op' = [op EXCEPT !.phase = "rewrite"]
      BY <1>9 DEF Rewrite, Rewritten, Goto
    <2>3. DOMAIN op' = DOMAIN op /\ op'.to = op.to
      BY <2>1, <2>2
    <2>4. op'.phase \notin {"install", "installed"}
      BY <1>9, <2>1, <2>2 DEF Rewrite, Rewritten, At
    <2> QED
      BY <2>1, <2>3, <2>4
  <1>10. ASSUME Anchor \/ Crash PROVE Goal
    BY <1>10, <1>3 DEF Anchor, Crash, Done
  <1>11. ASSUME NEW p \in Papers, NEW v \in Contents, Save(p, v) PROVE Goal
    BY <1>2, <1>11 DEF Save
  <1>12. ASSUME Starts PROVE Goal
    BY <1>2, <1>12 DEF Starts, StartLoad, StartPublish, StartCommit, StartFails,
           StartDies, JournalRestored, JournalOverwritten
  <1>13. ASSUME NEW gone \in SUBSET zips, CollectOrphans(gone) PROVE Goal
    BY <1>2, <1>13 DEF CollectOrphans
  <1>14. ASSUME UNCHANGED vars PROVE Goal
    BY <1>2, <1>14 DEF vars
  <1> QED
    BY <1>4, <1>5, <1>6, <1>7, <1>8, <1>9, <1>10, <1>11, <1>12, <1>13, <1>14
    DEF Next, Others, Begin, Work, Starts, Advances

LEMMA ChainsStep ==
  ASSUME StartKept, ChainsKept, CompactionKept, [Next]_vars
  PROVE  ChainsKept'
  <1>1. Linked(head') /\ OldNext(head')
    BY HeadStep
  <1>2. \A r \in saved' : r.data = None => OldNext(r.name)
    BY SavedStep
  <1>3. /\ op' # None /\ op'.phase \in {"install", "installed"} => DOMAIN op' = {"phase", "left"}
        /\ op' # None /\ op'.phase \in {"rewrite", "rewritten"} =>
              /\ DOMAIN op' = {"phase", "from", "to", "left"}
              /\ Linked(op'.to) /\ OldNext(op'.to)
    BY OthersStep
  <1> QED
    BY <1>1, <1>2, <1>3 DEF ChainsKept, Old, OldNext, Tasks, Linked

(***************************************************************************)
(* What is held.                                                           *)
(***************************************************************************)
LEMMA ArchivedStep ==
  ASSUME IndexStands, CompactionKept, [Next]_vars
  PROVE  Archived \subseteq Archived'
  <1>1. index' = index \/ Indexed' = Indexed \cup {op.zip}
    BY IndexStep
  <1>2. Indexed \subseteq Indexed'
    BY <1>1 DEF Indexed, Lists
  <1> QED
    BY <1>2 DEF Archived

\* No step but these takes a file away, or adds to what must be held.
LEMMA Holding ==
  ASSUME HeldKept, Archived \subseteq Archived',
         active \subseteq active', torn' = torn, saved' = saved, start' = start
  PROVE  HeldKept'
  BY DEF HeldKept, Held, TaskLocked, Replacement, TaskArchive

LEMMA SaveHolds ==
  ASSUME HeldKept, Archived \subseteq Archived',
         NEW p \in Papers, NEW v \in Contents, Save(p, v)
  PROVE  HeldKept'
  <1> DEFINE new == [name |-> p, data |-> v]
             coming == IF TaskLocked THEN {TaskArchive(Replacement)} ELSE {}
  <1>1. /\ active' = (active \ Versions(p)) \cup {new}
        /\ saved' = (saved \ (Versions(p) \ Archived)) \cup {new}
        /\ torn' = torn /\ start' = start
    BY DEF Save
  <1>2. Held' = saved' \cup coming
    BY <1>1 DEF Held, TaskLocked, Replacement, TaskArchive
  <1>3. \A r \in coming : r \notin Versions(p)
    BY DEF Versions, IsTaskArchive, TaskArchive
  <1>4. saved \cup coming \subseteq active \cup torn \cup Archived
    BY DEF HeldKept, Held
  <1> HIDE DEF new, coming
  <1> QED
    BY <1>1, <1>2, <1>3, <1>4 DEF HeldKept

LEMMA StartHolds ==
  ASSUME HeldKept, StartKept, ChainsKept, JournalKept, Archived \subseteq Archived', Starts
  PROVE  HeldKept'
  <1>1. CASE StartLoad
    <2>1. start = None /\ start'.phase = "built" /\ UNCHANGED <<active, torn, saved>>
      BY <1>1 DEF StartLoad, evidence, history
    <2>2. Held = saved /\ Held' = saved
      BY <2>1 DEF Held, TaskLocked
    <2> QED
      BY <2>1, <2>2 DEF HeldKept
  <1>2. CASE StartPublish
    <2>1. start # None /\ start.phase = "built" /\ UNCHANGED <<torn, saved>>
      BY <1>2 DEF StartPublish, history
    <2>2. Held = saved
      BY <2>1 DEF Held, TaskLocked
    <2>3. CASE head # start.head
      <3>1. start' = None /\ active' = active
        BY <1>2, <2>3 DEF StartPublish
      <3> QED
        BY <2>1, <2>2, <3>1 DEF HeldKept, Held, TaskLocked
    <2>4. CASE head = start.head
      <3>1. /\ active' = active \cup {TaskArchive(Replacement)}
            /\ start' = [start EXCEPT !.phase = "published"]
        BY <1>2, <2>4 DEF StartPublish
      <3>2. start'.head = start.head /\ start'.task = start.task
        BY <3>1, <2>1 DEF StartKept
      <3>3. Replacement' = Replacement
        BY <3>2 DEF Replacement
      <3>4. Held' \subseteq saved \cup {TaskArchive(Replacement)}
        BY <2>1, <3>3 DEF Held, TaskArchive
      <3> QED
        BY <2>1, <2>2, <3>1, <3>4 DEF HeldKept
    <2> QED
      BY <2>3, <2>4
  <1>3. CASE StartCommit
    <2>1. /\ TaskLocked /\ start' = None /\ UNCHANGED <<active, torn>>
          /\ saved' = saved \cup {TaskArchive(Replacement)}
      BY <1>3 DEF StartCommit, evidence
    <2>2. Held' = Held
      BY <2>1 DEF Held, TaskLocked
    <2> QED
      BY <2>1, <2>2 DEF HeldKept
  <1>4. CASE StartFails
    <2>1. /\ TaskLocked /\ start' = None /\ UNCHANGED <<saved, torn>>
          /\ active' = active \ {TaskArchive(Replacement)}
      BY <1>4 DEF StartFails, history
    <2>2. Tasks(Replacement) = Tasks(head) \cup {start.task}
      BY <2>1, ReplacementIs DEF StartKept, TaskLocked
    <2>3. ~Old(Replacement)
      BY <2>1, <2>2 DEF Old, TaskLocked
    <2>4. TaskArchive(Replacement) \notin saved
      BY <2>3 DEF ChainsKept, TaskArchive
    <2>5. Held' = saved /\ saved \subseteq Held
      BY <2>1 DEF Held, TaskLocked
    <2> QED
      BY <2>1, <2>4, <2>5 DEF HeldKept
  <1>5. CASE StartDies
    <2>1. TaskLocked /\ start' = None /\ UNCHANGED <<active, torn, saved>>
      BY <1>5 DEF StartDies, evidence, history
    <2>2. Held' = saved /\ saved \subseteq Held
      BY <2>1 DEF Held, TaskLocked
    <2> QED
      BY <2>1, <2>2 DEF HeldKept
  <1>6. CASE JournalRestored
    <2>1. /\ ~TaskLocked /\ UNCHANGED <<start, torn, saved>>
          /\ active' = active \ {TaskArchive(c) : c \in journal}
      BY <1>6 DEF JournalRestored, history
    <2>2. Held = saved /\ Held' = saved
      BY <2>1 DEF Held, TaskLocked
    <2>3. \A c \in journal : TaskArchive(c) \notin saved
      BY DEF JournalKept
    <2> QED
      BY <2>1, <2>2, <2>3 DEF HeldKept
  <1>7. CASE JournalOverwritten
    BY <1>7, Holding DEF JournalOverwritten, evidence, history
  <1> QED
    BY <1>1, <1>2, <1>3, <1>4, <1>5, <1>6, <1>7 DEF Starts

\* What is unlinked is what was looked at, and that is in an archive of the index.
LEMMA UnlinkHolds ==
  ASSUME HeldKept, CompactionKept, Archived \subseteq Archived', Unlink
  PROVE  HeldKept'
  <1>1. op.looking \in Archived
    BY DEF Unlink, At, CompactionKept, Busy
  <1>2. /\ active' = active \ Named(op.looking.name)
        /\ torn' = torn \cup (Named(op.looking.name) \ {op.looking})
        /\ UNCHANGED <<saved, start>>
    BY DEF Unlink
  <1>3. Held' = Held
    BY <1>2 DEF Held, TaskLocked, Replacement, TaskArchive
  <1> QED
    BY <1>1, <1>2, <1>3 DEF HeldKept, Named

LEMMA AnchorHolds ==
  ASSUME HeldKept, Archived \subseteq Archived', Anchor
  PROVE  HeldKept'
  <1>1. ~TaskLocked /\ UNCHANGED <<active, torn, start>>
    BY DEF Anchor, evidence
  <1>2. saved' = saved \/ (Resolves(op.to) /\ saved' = saved \cup {TaskArchive(c) : c \in Chain(op.to)})
    BY DEF Anchor
  <1>3. Resolves(op.to) => \A c \in Chain(op.to) : TaskArchive(c) \in active
    BY DEF Resolves, Readable
  <1>4. Held = saved /\ Held' = saved'
    BY <1>1 DEF Held, TaskLocked
  <1> QED
    BY <1>1, <1>2, <1>3, <1>4 DEF HeldKept

LEMMA HeldStep ==
  ASSUME IInv, [Next]_vars
  PROVE  HeldKept'
  <1>1. Archived \subseteq Archived'
    BY ArchivedStep DEF IInv
  <1>2. HeldKept /\ StartKept /\ ChainsKept /\ CompactionKept /\ JournalKept
    BY DEF IInv
  <1>3. ASSUME NEW p \in Papers, NEW v \in Contents, Save(p, v) PROVE HeldKept'
    BY <1>1, <1>2, <1>3, SaveHolds
  <1>4. ASSUME Starts PROVE HeldKept'
    BY <1>1, <1>2, <1>4, StartHolds
  <1>5. ASSUME NEW withHistory \in BOOLEAN, NEW kept \in SUBSET Papers, Plan(withHistory, kept)
        PROVE  HeldKept'
    BY <1>1, <1>2, <1>5, Holding DEF Plan, evidence
  <1>6. ASSUME NEW gone \in SUBSET zips, CollectOrphans(gone) PROVE HeldKept'
    BY <1>1, <1>2, <1>6, Holding DEF CollectOrphans, history
  <1>7. ASSUME NEW zip \in Indexed, Restore(zip) PROVE HeldKept'
    BY <1>1, <1>2, <1>7, Holding DEF Restore, evidence, history
  <1>8. ASSUME Migrate \/ LoadHead \/ ClearHead \/ Look \/ Crash PROVE HeldKept'
    BY <1>1, <1>2, <1>8, Holding DEF Migrate, LoadHead, ClearHead, Look, Crash, evidence, history
  <1>9. ASSUME Install \/ Rewrite PROVE HeldKept'
    <2>1. active \subseteq active' /\ torn' = torn /\ saved' = saved /\ start' = start
      BY <1>9 DEF Install, Rewrite, history
    <2> QED
      BY <1>1, <1>2, <2>1, Holding
  <1>10. ASSUME LinkPage \/ PageDone \/ LinkZip \/ ZipDone PROVE HeldKept'
    BY <1>1, <1>2, <1>10, Holding DEF LinkPage, PageDone, LinkZip, ZipDone, history
  <1>11. ASSUME WriteIndex \/ Installed \/ Rewritten PROVE HeldKept'
    BY <1>1, <1>2, <1>11, Holding DEF WriteIndex, Installed, Rewritten, history
  <1>12. ASSUME Unlink PROVE HeldKept'
    BY <1>1, <1>2, <1>12, UnlinkHolds
  <1>13. ASSUME Anchor PROVE HeldKept'
    BY <1>1, <1>2, <1>13, AnchorHolds
  <1>14. ASSUME UNCHANGED vars PROVE HeldKept'
    BY <1>1, <1>2, <1>14, Holding DEF vars, evidence, history
  <1> QED
    BY <1>3, <1>4, <1>5, <1>6, <1>7, <1>8, <1>9, <1>10, <1>11, <1>12, <1>13, <1>14
    DEF Next, Others, Begin, Work, Starts

(***************************************************************************)
(* The journal.  Whatever moves the head writes its own journal over it.   *)
(***************************************************************************)
LEMMA JournalMoves ==
  ASSUME [Next]_vars
  PROVE  \/ journal' = {}
         \/ StartDies
         \/ /\ journal' = journal /\ head' = head
            /\ start' = start \/ StartLoad \/ start' = None
            /\ saved' = saved \/ \E p \in Papers, v \in Contents : Save(p, v)
         \/ StartCommit
  <1> DEFINE Goal == \/ journal' = {}
                     \/ StartDies
                     \/ /\ journal' = journal /\ head' = head
                        /\ start' = start \/ StartLoad \/ start' = None
                        /\ saved' = saved \/ \E p \in Papers, v \in Contents : Save(p, v)
                     \/ StartCommit
  <1>1. ASSUME Starts PROVE Goal
    BY <1>1 DEF Starts, StartLoad, StartPublish, StartFails, JournalRestored, JournalOverwritten,
                history
  <1>2. ASSUME ClearHead \/ Anchor PROVE Goal
    BY <1>2 DEF ClearHead, Anchor, history
  <1>3. ASSUME NEW p \in Papers, NEW v \in Contents, Save(p, v) PROVE Goal
    BY <1>3 DEF Save
  <1>4. ASSUME NEW withHistory \in BOOLEAN, NEW kept \in SUBSET Papers, Plan(withHistory, kept)
        PROVE  Goal
    BY <1>4 DEF Plan
  <1>5. ASSUME NEW gone \in SUBSET zips, CollectOrphans(gone) PROVE Goal
    BY <1>5 DEF CollectOrphans, history
  <1>6. ASSUME NEW zip \in Indexed, Restore(zip) PROVE Goal
    BY <1>6 DEF Restore, history
  <1>7. ASSUME Migrate \/ LoadHead \/ Look \/ Install \/ Unlink \/ LinkPage PROVE Goal
    BY <1>7 DEF Migrate, LoadHead, Look, Install, Unlink, LinkPage, history
  <1>8. ASSUME PageDone \/ LinkZip \/ ZipDone \/ WriteIndex PROVE Goal
    BY <1>8 DEF PageDone, LinkZip, ZipDone, WriteIndex, history
  <1>9. ASSUME Installed \/ Rewrite \/ Rewritten \/ Crash \/ UNCHANGED vars PROVE Goal
    BY <1>9 DEF Installed, Rewrite, Rewritten, Crash, vars, history
  <1> QED
    BY <1>1, <1>2, <1>3, <1>4, <1>5, <1>6, <1>7, <1>8, <1>9
    DEF Next, Others, Begin, Work, Starts

LEMMA JournalStep ==
  ASSUME IInv, [Next]_vars
  PROVE  JournalKept'
  <1>1. StartKept /\ ChainsKept /\ JournalKept
    BY DEF IInv
  <1>2. CASE journal' = {}
    BY <1>2 DEF JournalKept
  <1>3. CASE StartDies
    <2>1. /\ TaskLocked /\ start' = None /\ journal' = {Replacement}
          /\ head' = head /\ saved' = saved
      BY <1>3 DEF StartDies, history
    <2>2. start # None /\ start.head = head
      BY <1>1, <2>1 DEF StartKept, TaskLocked
    <2>3. Tasks(Replacement) = Tasks(head) \cup {start.task}
      BY <1>1, <2>2, ReplacementIs
    <2>4. ~Old(Replacement)
      BY <2>2, <2>3 DEF Old
    <2>5. TaskArchive(Replacement) \notin saved
      BY <1>1, <2>4 DEF ChainsKept, TaskArchive
    <2>6. Replacement \notin Chain(head)
      <3>1. \A c \in Chain(head) : Tasks(c) \subseteq Tasks(head)
        BY <1>1, PrefixTasks DEF ChainsKept
      <3> QED
        BY <1>1, <2>4, <3>1 DEF ChainsKept, Old
    <2> QED
      BY <2>1, <2>5, <2>6 DEF JournalKept, TaskLocked, TaskArchive, Chain
  <1>4. CASE /\ journal' = journal /\ head' = head
             /\ start' = start \/ StartLoad \/ start' = None
             /\ saved' = saved \/ \E p \in Papers, v \in Contents : Save(p, v)
    <2>1. \A r \in saved' : r \in saved \/ r.data # None
      BY <1>4, EvidenceAssumption DEF Save
    <2>2. \A c \in journal : TaskArchive(c) \notin saved'
      BY <1>1, <2>1 DEF JournalKept, TaskArchive
    <2>3. TaskLocked' => TaskLocked
      BY <1>4 DEF TaskLocked, StartLoad
    <2> QED
      BY <1>1, <1>4, <2>2, <2>3 DEF JournalKept, TaskArchive, Chain
  <1>5. CASE StartCommit
    BY <1>1, <1>5 DEF StartCommit, JournalKept
  <1> QED
    BY <1>2, <1>3, <1>4, <1>5, JournalMoves

(***************************************************************************)
(* The theorems.                                                           *)
(***************************************************************************)

\* In every state of evidencectl.py's retention: what the index names is there, what
\* is to be removed is in an archive the index names, the archive of a start that may
\* yet fail is in no committed chain, and what was saved is there or archived.
THEOREM Invariance == Spec => []IInv
  <1>1. Init => IInv
    BY Initially
  <1>2. IInv /\ [Next]_vars => IInv'
    <2> SUFFICES ASSUME IInv, [Next]_vars
                 PROVE  IInv'
      OBVIOUS
    <2>1. StartKept' /\ ChainsKept' /\ IndexStands' /\ CompactionKept'
      BY StartStep, ChainsStep, IndexStep, CompactionStep DEF IInv
    <2> QED
      BY <2>1, HeldStep, JournalStep DEF IInv
  <1> QED
    BY <1>1, <1>2, PTL DEF Spec

\* Compaction, collection, restoration and migration lose no evidence (evidencectl.py),
\* whatever dies where, whoever writes meanwhile and whether or not a start fails.
THEOREM NothingIsLost == Spec => []NothingLost
  <1>1. IInv => NothingLost
    <2> SUFFICES ASSUME IInv
                 PROVE  NothingLost
      OBVIOUS
    <2>1. saved \subseteq active \cup torn \cup Archived
      BY DEF IInv, HeldKept, Held
    <2>2. Indexed \cap (zips \ twice.zips) = Indexed
      BY DEF IInv, IndexStands
    <2> QED
      BY <2>1, <2>2 DEF NothingLost, Archived
  <1> QED
    BY <1>1, Invariance, PTL

(***************************************************************************)
(* The chain behind TASK.  While no excuse is on record, whatever evidence *)
(* and a command know by name is a paper or a task archive older than the  *)
(* start under way; so the archive that start publishes collides with      *)
(* nothing, and what is removed is not in the chain any more.              *)
(***************************************************************************)
NameKnown(n) == n \in Papers \/ (Linked(n) /\ Old(n))
Known(r) == IF r.data = None THEN Linked(r.name) /\ Old(r.name) ELSE r.name \in Papers

EvidenceKnown ==
    /\ \A r \in active : Known(r) \/ (TaskLocked /\ r = TaskArchive(Replacement))
    /\ \A r \in Archived : Known(r)
    /\ \A n \in twice.files : NameKnown(n)

CommandKnown ==
    /\ Busy(Compacting) => \A n \in op.chosen : NameKnown(n)
    /\ Busy({"zip linked", "index"}) => \A r \in op.zip : Known(r)
    /\ Busy({"install", "installed"}) => op.left # {} /\ \A r \in op.left : Known(r)
    /\ Busy({"rewrite", "rewritten"}) => op.left \subseteq Chain(op.to)
    /\ Busy({"remove"}) => \A r \in op.left : r.name \notin Chain(head)

StartStands == TaskLocked => Readable(TaskArchive(Replacement))

Stands ==
    excused = {} => EvidenceKnown /\ CommandKnown /\ StartStands /\ ChainStands(head)

\* The name of a paper is not that of a task archive, and no start is None.
Apart ==
    /\ \A p \in Papers : ~Linked(p)
    /\ \A h, t : None # [head |-> h, phase |-> "published", task |-> t]

Settled ==
    Apart /\ IInv /\ EvidenceKnown /\ CommandKnown /\ StartStands /\ ChainStands(head)

NameKnownNext(n) == n \in Papers \/ (Linked(n) /\ OldNext(n))
KnownNext(r) == IF r.data = None THEN Linked(r.name) /\ OldNext(r.name) ELSE r.name \in Papers

LEMMA KnownLasts ==
  ASSUME Settled, [Next]_vars
  PROVE  /\ \A h : Old(h) => OldNext(h)
         /\ \A r : Known(r) => KnownNext(r)
         /\ \A n : NameKnown(n) => NameKnownNext(n)
<1>1. StartKept
  BY DEF Settled, IInv
<1>2. \A h : Old(h) => OldNext(h)
  BY <1>1, Frames, OldStays DEF OldNext, Clock, StartKept
<1> QED
  BY <1>2 DEF Known, KnownNext, NameKnown, NameKnownNext

\* A prefix of a chain is a chain, and no paper has its name.
LEMMA PrefixLinked ==
  ASSUME NEW h, Linked(h), NEW c \in Chain(h)
  PROVE  Linked(c)
<1>1. Len(h) \in Nat /\ DOMAIN h = 1..Len(h)
  BY LenProperties DEF Linked
<1>2. PICK n \in 1..Len(h) : c = SubSeq(h, 1, n)
  BY DEF Chain
<1>3. \A i \in 1..n : h[i] \in ToSet(h)
  BY <1>1 DEF ToSet
<1>4. /\ c \in Seq(ToSet(h)) /\ Len(c) = n
      /\ \A i \in 1..n : c[i] = h[i]
  BY <1>1, <1>2, <1>3, SubSeqProperties, Z3
<1>5. DOMAIN c = 1..n
  BY <1>4, LenProperties
<1>6. \A i \in DOMAIN c : "task" \in DOMAIN c[i]
  BY <1>1, <1>4, <1>5 DEF Linked
<1>7. c \in Seq(ToSet(c))
  <2>1. \A i \in 1..n : c[i] \in ToSet(c)
    BY <1>5 DEF ToSet
  <2>2. c = [i \in 1..n |-> c[i]]
    BY <1>4, <1>5
  <2> QED
    BY <1>1, <2>1, <2>2
<1> QED
  BY <1>6, <1>7 DEF Linked

\* The archives of a chain that gets one task more.
LEMMA ChainGrows ==
  ASSUME NEW h, Linked(h), NEW x
  PROVE  /\ Chain(Append(h, x)) = Chain(h) \cup {Append(h, x)}
         /\ Len(Append(h, x)) = Len(h) + 1 /\ Len(h) \in Nat
         /\ \A i \in 1..Len(h) : Append(h, x)[i] = h[i]
         /\ Append(h, x)[Len(h) + 1] = x
         /\ \A i \in 1..(Len(h) + 1) :
               SubSeq(Append(h, x), 1, i - 1) = SubSeq(h, 1, i - 1)
<1> DEFINE t == Append(h, x)
           S == ToSet(h) \cup {x}
<1>1. h \in Seq(S) /\ x \in S /\ Len(h) \in Nat
  BY SeqMonotonic, LenProperties DEF Linked
<1>2. /\ t \in Seq(S) /\ Len(t) = Len(h) + 1
      /\ \A i \in 1..Len(h) : t[i] = h[i]
      /\ t[Len(h) + 1] = x
  <2> HIDE DEF S
  <2> QED
    BY <1>1, AppendProperties
<1> HIDE DEF t, S
<1>3. ASSUME NEW i \in 0..Len(h) PROVE SubSeq(t, 1, i) = SubSeq(h, 1, i)
  <2>1. /\ \A k \in 1..i : h[k] \in S /\ t[k] \in S
    BY <1>1, <1>2, ElementOfSeq
  <2>2. /\ SubSeq(h, 1, i) \in Seq(S) /\ Len(SubSeq(h, 1, i)) = i
        /\ \A k \in 1..i : SubSeq(h, 1, i)[k] = h[k]
    BY <1>1, <2>1, SubSeqProperties, Z3
  <2>3. /\ SubSeq(t, 1, i) \in Seq(S) /\ Len(SubSeq(t, 1, i)) = i
        /\ \A k \in 1..i : SubSeq(t, 1, i)[k] = t[k]
    BY <1>1, <1>2, <2>1, SubSeqProperties, Z3
  <2>4. \A k \in 1..i : SubSeq(t, 1, i)[k] = SubSeq(h, 1, i)[k]
    BY <1>1, <1>2, <2>2, <2>3
  <2> QED
    BY <2>2, <2>3, <2>4, SeqEqual
<1>4. SubSeq(t, 1, Len(t)) = t
  BY <1>2, SubSeqFull
<1>5. Chain(t) = Chain(h) \cup {t}
  <2>1. \A i \in 1..Len(t) : i \in 1..Len(h) \/ i = Len(t)
    BY <1>1, <1>2
  <2>2. \A i \in 1..Len(h) : i \in 0..Len(h) /\ i \in 1..Len(t)
    BY <1>1, <1>2
  <2>3. Len(t) \in 1..Len(t)
    BY <1>1, <1>2
  <2> QED
    BY <1>3, <1>4, <2>1, <2>2, <2>3 DEF Chain
<1>6. \A i \in 1..(Len(h) + 1) : i - 1 \in 0..Len(h)
  BY <1>1
<1> QED
  BY <1>1, <1>2, <1>3, <1>5, <1>6 DEF t

\* The archive of the start under way has a name of its own.
LEMMA ReplacementUnknown ==
  ASSUME Settled, start # None, start.head = head
  PROVE  /\ Linked(Replacement) /\ ~Old(Replacement)
         /\ ~NameKnown(Replacement)
         /\ \A r : Known(r) => r.name # Replacement
         /\ Replacement \notin Chain(head)
<1>1. StartKept /\ ChainsKept
  BY DEF Settled, IInv
<1>2. Linked(Replacement) /\ Tasks(Replacement) = Tasks(head) \cup {start.task}
  BY <1>1, ReplacementIs
<1>3. ~Old(Replacement)
  BY <1>2 DEF Old
<1>4. Replacement \notin Chain(head)
  <2> SUFFICES ASSUME Replacement \in Chain(head) PROVE FALSE
    OBVIOUS
  <2>1. Tasks(Replacement) \subseteq Tasks(head)
    BY <1>1, PrefixTasks DEF ChainsKept
  <2> QED
    BY <1>1, <1>3, <2>1 DEF ChainsKept, Old
<1> QED
  BY <1>2, <1>3, <1>4 DEF Settled, Apart, NameKnown, Known

\* A rewriting takes the shortest chain that is left, and there is one.
LEMMA ShortestLeft ==
  ASSUME NEW h, Linked(h), NEW left, left # {}, left \subseteq Chain(h)
  PROVE  (CHOOSE c \in left : \A d \in left : Len(c) <= Len(d)) \in left
<1> DEFINE Lengths == {Len(c) : c \in left}
<1>1. \A c \in left : Len(c) \in Nat
  BY PrefixLinked, LenProperties DEF Linked
<1>2. Lengths \in SUBSET Nat /\ Lengths # {}
  BY <1>1
<1>3. PICK n \in Lengths : \A k \in Lengths : n <= k
  <2> HIDE DEF Lengths
  <2>1. PICK n \in Lengths : \A k \in Lengths : ~ (<<k, n>> \in OpToRel(<, Nat))
    BY <1>2, NatLessThanWellFounded, WFMin
  <2>2. \A k \in Lengths : ~ (k < n)
    BY <1>2, <2>1 DEF OpToRel
  <2> QED
    BY <1>2, <2>2
<1>4. \E c \in left : \A d \in left : Len(c) <= Len(d)
  BY <1>3
<1> QED
  BY <1>4

\* What a rewriting writes next: a chain of its own, and as old.
LEMMA RewrittenKnown ==
  ASSUME Settled, Rewrite,
         NEW c, c = CHOOSE x \in op.left : \A d \in op.left : Len(x) <= Len(d)
  PROVE  c \in op.left /\ Linked(c) /\ Old(c)
<1>1. /\ op # None /\ op.left # {} /\ op.left \subseteq Chain(op.to)
      /\ Linked(op.to) /\ Old(op.to)
  BY DEF Rewrite, At, Settled, CommandKnown, Busy, IInv, ChainsKept
<1>2. c \in op.left
  BY <1>1, ShortestLeft
<1>3. Tasks(c) \subseteq Tasks(op.to)
  BY <1>1, <1>2, PrefixTasks
<1> QED
  BY <1>1, <1>2, <1>3, PrefixLinked DEF Old

LEMMA InstalledKnown ==
  ASSUME Settled, Install \/ Installed
  PROVE  First(op.left) \in op.left /\ Known(First(op.left))
<1>1. op.left # {} /\ \A r \in op.left : Known(r)
  BY DEF Settled, CommandKnown, Busy, Install, Installed, At
<1>2. First(op.left) \in op.left
  BY <1>1 DEF First
<1> QED
  BY <1>1, <1>2

(***************************************************************************)
(* What evidence knows stays known.                                        *)
(***************************************************************************)
LEMMA FilesStep ==
  ASSUME Settled, [Next]_vars
  PROVE  \A r \in active' : KnownNext(r) \/ (TaskLocked' /\ r = TaskArchive(Replacement)')
<1> DEFINE Goal == \A r \in active' :
                       KnownNext(r) \/ (TaskLocked' /\ r = TaskArchive(Replacement)')
<1>1. \A r \in active : Known(r) \/ (TaskLocked /\ r = TaskArchive(Replacement))
  BY DEF Settled, EvidenceKnown
<1>2. \A r : Known(r) => KnownNext(r)
  BY KnownLasts
<1>3. ASSUME start' = start, NEW x, active' \subseteq active \cup {x}, Known(x)
      PROVE  Goal
  BY <1>1, <1>2, <1>3 DEF TaskLocked, Replacement, TaskArchive
<1>4. ASSUME start' = start, active' \subseteq active PROVE Goal
  BY <1>1, <1>2, <1>4 DEF TaskLocked, Replacement, TaskArchive
<1>5. ASSUME NEW p \in Papers, NEW v \in Contents, Save(p, v) PROVE Goal
  <2>1. Known([name |-> p, data |-> v])
    BY EvidenceAssumption DEF Known
  <2>2. active' \subseteq active \cup {[name |-> p, data |-> v]} /\ start' = start
    BY <1>5 DEF Save
  <2> HIDE DEF Goal
  <2> QED
    BY <1>3, <2>1, <2>2
<1>6. ASSUME StartLoad PROVE Goal
  <2>1. ~TaskLocked /\ active' = active
    BY <1>6 DEF StartLoad, evidence, TaskLocked
  <2> QED
    BY <1>1, <1>2, <2>1
<1>7. ASSUME StartPublish PROVE Goal
  <2>1. \A r \in active : KnownNext(r)
    BY <1>1, <1>2, <1>7 DEF StartPublish, TaskLocked
  <2>2. CASE head = start.head
    <3>1. /\ active' = active \cup {TaskArchive(Replacement)}
          /\ start' = [start EXCEPT !.phase = "published"] /\ start # None
      BY <1>7, <2>2 DEF StartPublish
    <3>2. DOMAIN start = {"head", "phase", "task"}
      BY <3>1 DEF Settled, IInv, StartKept
    <3>3. /\ start'.phase = "published"
          /\ start'.head = start.head /\ start'.task = start.task
      BY <3>1, <3>2
    <3>4. start' # None
      <4>1. start' = [head |-> start.head, phase |-> "published", task |-> start.task]
        BY <3>1, <3>2
      <4> QED
        BY <4>1 DEF Settled, Apart
    <3>5. TaskLocked' /\ Replacement' = Replacement
      BY <3>3, <3>4 DEF TaskLocked, Replacement
    <3> QED
      BY <2>1, <3>1, <3>5 DEF TaskArchive
  <2>3. CASE head # start.head
    BY <1>7, <2>1, <2>3 DEF StartPublish
  <2> QED
    BY <2>2, <2>3
<1>8. ASSUME StartCommit PROVE Goal
  <2>1. head' = Replacement /\ active' = active
    BY <1>8 DEF StartCommit, evidence
  <2>2. Linked(head') /\ OldNext(head')
    BY HeadStep DEF Settled, IInv
  <2>3. KnownNext(TaskArchive(Replacement))
    BY <2>1, <2>2 DEF KnownNext, TaskArchive
  <2> QED
    BY <1>1, <1>2, <2>1, <2>3
<1>9. ASSUME StartFails \/ JournalRestored \/ JournalOverwritten PROVE Goal
  <2>1. CASE StartFails
    BY <1>1, <1>2, <2>1 DEF StartFails
  <2>2. CASE JournalRestored \/ JournalOverwritten
    BY <1>4, <2>2 DEF JournalRestored, JournalOverwritten, evidence
  <2> QED
    BY <1>9, <2>1, <2>2
<1>10. ASSUME NEW withHistory \in BOOLEAN, NEW kept \in SUBSET Papers, Plan(withHistory, kept)
       PROVE  Goal
  BY <1>4, <1>10 DEF Plan, evidence
<1>11. ASSUME NEW gone \in SUBSET zips, CollectOrphans(gone) PROVE Goal
  BY <1>4, <1>11 DEF CollectOrphans
<1>12. ASSUME NEW zip \in Indexed, Restore(zip) PROVE Goal
  BY <1>4, <1>12 DEF Restore, evidence
<1>13. ASSUME Migrate \/ LoadHead \/ ClearHead \/ Look \/ Crash \/ Anchor PROVE Goal
  BY <1>4, <1>13 DEF Migrate, LoadHead, ClearHead, Look, Crash, Anchor, evidence
<1>14. ASSUME Install PROVE Goal
  <2>1. active' \subseteq active \cup {First(op.left)} /\ start' = start
    BY <1>14 DEF Install
  <2>2. Known(First(op.left))
    BY <1>14, InstalledKnown
  <2> HIDE DEF Goal
  <2> QED
    BY <1>3, <2>1, <2>2
<1>15. ASSUME Rewrite PROVE Goal
  <2> DEFINE c == CHOOSE c \in op.left : \A d \in op.left : Len(c) <= Len(d)
  <2>1. active' \subseteq active \cup {TaskArchive(c)} /\ start' = start
    BY <1>15 DEF Rewrite
  <2>2. Linked(c) /\ Old(c)
    BY <1>15, RewrittenKnown
  <2> HIDE DEF c
  <2>3. Known(TaskArchive(c))
    BY <2>2 DEF Known, TaskArchive
  <2> HIDE DEF Goal
  <2> QED
    BY <1>3, <2>1, <2>3
<1>16. ASSUME Unlink PROVE Goal
  BY <1>4, <1>16 DEF Unlink
<1>17. ASSUME LinkPage \/ PageDone \/ LinkZip \/ ZipDone PROVE Goal
  BY <1>4, <1>17 DEF LinkPage, PageDone, LinkZip, ZipDone
<1>18. ASSUME WriteIndex \/ Installed \/ Rewritten PROVE Goal
  BY <1>4, <1>18 DEF WriteIndex, Installed, Rewritten
<1>19. ASSUME UNCHANGED vars PROVE Goal
  BY <1>4, <1>19 DEF vars, evidence
<1>20. ASSUME StartDies PROVE Goal
  <2>1. /\ TaskLocked /\ start' = None /\ active' = active /\ calls' = calls
    BY <1>20 DEF StartDies, evidence
  <2>2. StartKept /\ ChainsKept /\ start # None /\ start.head = head
    BY <2>1 DEF Settled, IInv, StartKept, TaskLocked
  <2>3. Linked(Replacement) /\ Tasks(Replacement) = Tasks(head) \cup {start.task}
    BY <2>2, ReplacementIs
  <2>4. OldNext(Replacement)
    BY <2>1, <2>2, <2>3 DEF OldNext, Old, ChainsKept, StartKept
  <2>5. KnownNext(TaskArchive(Replacement))
    BY <2>3, <2>4 DEF KnownNext, TaskArchive
  <2> QED
    BY <1>1, <1>2, <2>1, <2>5
<1> QED
  BY <1>5, <1>6, <1>7, <1>8, <1>9, <1>10, <1>11, <1>12, <1>13, <1>14, <1>15, <1>16, <1>17,
     <1>18, <1>19, <1>20
  DEF Next, Others, Begin, Work, Starts

LEMMA ArchivesStep ==
  ASSUME Settled, [Next]_vars
  PROVE  \A r \in Archived' : KnownNext(r)
<1>1. IndexStands /\ CompactionKept /\ \A r \in Archived : Known(r)
  BY DEF Settled, IInv, EvidenceKnown
<1>2. \A r : Known(r) => KnownNext(r)
  BY KnownLasts
<1>3. CASE index' = index
  <2>1. Archived' = Archived
    BY <1>3 DEF Archived, Indexed, Lists
  <2> QED
    BY <1>1, <1>2, <2>1
<1>4. CASE WriteIndex /\ Indexed' = Indexed \cup {op.zip}
  <2>1. \A r \in op.zip : Known(r)
    BY <1>4 DEF Settled, CommandKnown, Busy, WriteIndex, At
  <2>2. Archived' = Archived \cup op.zip
    BY <1>4 DEF Archived
  <2> QED
    BY <1>1, <1>2, <2>1, <2>2
<1> QED
  BY <1>1, <1>3, <1>4, IndexStep

LEMMA TwiceStep ==
  ASSUME Settled, [Next]_vars
  PROVE  \A n \in twice'.files : NameKnownNext(n)
<1> DEFINE Goal == \A n \in twice'.files : NameKnownNext(n)
<1>1. DOMAIN twice = {"files", "zips", "pages"} /\ \A n \in twice.files : NameKnown(n)
  BY DEF Settled, IInv, IndexStands, EvidenceKnown
<1>2. \A n : NameKnown(n) => NameKnownNext(n)
  BY KnownLasts
<1>3. ASSUME twice'.files \subseteq twice.files PROVE Goal
  BY <1>1, <1>2, <1>3
<1>4. ASSUME NEW p \in Papers, NEW v \in Contents, Save(p, v) PROVE Goal
  BY <1>1, <1>3, <1>4 DEF Save
<1>5. ASSUME Starts PROVE Goal
  BY <1>1, <1>3, <1>5 DEF Starts, StartLoad, StartPublish, StartCommit, StartFails,
           StartDies, JournalRestored, JournalOverwritten, evidence
<1>6. ASSUME NEW withHistory \in BOOLEAN, NEW kept \in SUBSET Papers, Plan(withHistory, kept)
      PROVE  Goal
  BY <1>3, <1>6 DEF Plan, evidence
<1>7. ASSUME NEW gone \in SUBSET zips, CollectOrphans(gone) PROVE Goal
  BY <1>1, <1>3, <1>7 DEF CollectOrphans
<1>8. ASSUME NEW zip \in Indexed, Restore(zip) PROVE Goal
  BY <1>3, <1>8 DEF Restore, evidence
<1>9. ASSUME Migrate \/ LoadHead \/ ClearHead \/ Look \/ Crash \/ Anchor PROVE Goal
  BY <1>3, <1>9 DEF Migrate, LoadHead, ClearHead, Look, Crash, Anchor, evidence
<1>10. ASSUME Install PROVE Goal
  <2>1. twice'.files \subseteq twice.files \cup {First(op.left).name}
    BY <1>1, <1>10 DEF Install
  <2>2. NameKnown(First(op.left).name)
    BY <1>10, InstalledKnown DEF Known, NameKnown
  <2> QED
    BY <1>1, <1>2, <2>1, <2>2
<1>11. ASSUME Rewrite PROVE Goal
  <2> DEFINE c == CHOOSE c \in op.left : \A d \in op.left : Len(c) <= Len(d)
  <2>1. twice'.files \subseteq twice.files \cup {c}
    BY <1>1, <1>11 DEF Rewrite
  <2>2. Linked(c) /\ Old(c)
    BY <1>11, RewrittenKnown
  <2> HIDE DEF c
  <2> QED
    BY <1>1, <1>2, <2>1, <2>2 DEF NameKnown
<1>12. ASSUME Unlink \/ Installed \/ Rewritten PROVE Goal
  BY <1>1, <1>3, <1>12 DEF Unlink, Installed, Rewritten
<1>13. ASSUME LinkPage \/ PageDone \/ LinkZip \/ ZipDone \/ WriteIndex PROVE Goal
  BY <1>1, <1>3, <1>13 DEF LinkPage, PageDone, LinkZip, ZipDone, WriteIndex
<1>14. ASSUME UNCHANGED vars PROVE Goal
  BY <1>3, <1>14 DEF vars, evidence
<1> QED
  BY <1>4, <1>5, <1>6, <1>7, <1>8, <1>9, <1>10, <1>11, <1>12, <1>13, <1>14
  DEF Next, Others, Begin, Work, Starts

(***************************************************************************)
(* A task archive that can be read stays so, but for its removal and the   *)
(* failure of its start.                                                   *)
(***************************************************************************)
LEMMA ReadableStays ==
  ASSUME Settled, [Next]_vars, NEW c, Readable(TaskArchive(c)),
         ~(Unlink /\ op.looking.name = c), ~(StartFails /\ Replacement = c),
         ~(JournalRestored /\ c \in journal)
  PROVE  TaskArchive(c) \in active' /\ c \notin twice'.files
<1> DEFINE Goal == TaskArchive(c) \in active' /\ c \notin twice'.files
<1>1. TaskArchive(c) \in active /\ c \notin twice.files /\ DOMAIN twice = {"files", "zips", "pages"}
  BY DEF Readable, TaskArchive, Settled, IInv, IndexStands
<1>2. TaskArchive(c).name = c /\ IsTaskArchive(TaskArchive(c))
  BY DEF TaskArchive, IsTaskArchive
<1>3. ASSUME active \subseteq active', twice'.files \subseteq twice.files PROVE Goal
  BY <1>1, <1>3
<1>4. ASSUME active \subseteq active', NEW n, twice'.files \subseteq twice.files \cup {n}, n # c
      PROVE  Goal
  BY <1>1, <1>4
<1>5. ASSUME NEW p \in Papers, NEW v \in Contents, Save(p, v) PROVE Goal
  BY <1>1, <1>2, <1>5 DEF Save, Versions
<1>6. ASSUME StartLoad \/ StartCommit \/ StartDies \/ JournalOverwritten PROVE Goal
  BY <1>3, <1>6 DEF StartLoad, StartCommit, StartDies, JournalOverwritten, evidence
<1>7. ASSUME StartPublish PROVE Goal
  BY <1>3, <1>7 DEF StartPublish
<1>8. ASSUME StartFails PROVE Goal
  <2>1. TaskArchive(c) # TaskArchive(Replacement)
    BY <1>8 DEF TaskArchive
  <2> QED
    BY <1>1, <1>8, <2>1 DEF StartFails
<1>9. ASSUME NEW withHistory \in BOOLEAN, NEW kept \in SUBSET Papers, Plan(withHistory, kept)
      PROVE  Goal
  BY <1>3, <1>9 DEF Plan, evidence
<1>10. ASSUME NEW gone \in SUBSET zips, CollectOrphans(gone) PROVE Goal
  BY <1>1, <1>3, <1>10 DEF CollectOrphans
<1>11. ASSUME NEW zip \in Indexed, Restore(zip) PROVE Goal
  BY <1>3, <1>11 DEF Restore, evidence
<1>12. ASSUME Migrate \/ LoadHead \/ ClearHead \/ Look \/ Crash \/ Anchor PROVE Goal
  BY <1>3, <1>12 DEF Migrate, LoadHead, ClearHead, Look, Crash, Anchor, evidence
<1>13. ASSUME Install PROVE Goal
  <2>1. CASE Named(First(op.left).name) = {}
    <3>1. First(op.left).name # c
      BY <1>1, <1>2, <2>1 DEF Named
    <3>2. active \subseteq active' /\ twice'.files \subseteq twice.files \cup {First(op.left).name}
      BY <1>1, <1>13, <2>1 DEF Install
    <3> HIDE DEF Goal
    <3> QED
      BY <1>4, <3>1, <3>2
  <2>2. CASE Named(First(op.left).name) # {}
    BY <1>3, <1>13, <2>2 DEF Install
  <2> QED
    BY <2>1, <2>2
<1>14. ASSUME Rewrite PROVE Goal
  <2> DEFINE d == CHOOSE d \in op.left : \A e \in op.left : Len(d) <= Len(e)
  <2>1. \/ UNCHANGED <<active, twice>>
        \/ /\ TaskArchive(d) \notin active
           /\ active \subseteq active' /\ twice'.files \subseteq twice.files \cup {d}
    BY <1>1, <1>14 DEF Rewrite
  <2> HIDE DEF d, Goal
  <2>2. TaskArchive(d) \notin active => d # c
    BY <1>1
  <2> QED
    BY <1>3, <1>4, <2>1, <2>2
<1>15. ASSUME Unlink PROVE Goal
  <2>1. op.looking.name # c
    BY <1>15
  <2>2. TaskArchive(c) \notin Named(op.looking.name)
    BY <1>2, <2>1 DEF Named
  <2> QED
    BY <1>1, <1>15, <2>2 DEF Unlink
<1>16. ASSUME Installed \/ Rewritten PROVE Goal
  BY <1>1, <1>3, <1>16 DEF Installed, Rewritten
<1>17. ASSUME LinkPage \/ PageDone \/ LinkZip \/ ZipDone \/ WriteIndex PROVE Goal
  BY <1>1, <1>3, <1>17 DEF LinkPage, PageDone, LinkZip, ZipDone, WriteIndex
<1>18. ASSUME UNCHANGED vars PROVE Goal
  BY <1>3, <1>18 DEF vars, evidence
<1>19. ASSUME JournalRestored PROVE Goal
  <2>1. c \notin journal
    BY <1>19
  <2>2. TaskArchive(c) \notin {TaskArchive(d) : d \in journal}
    BY <2>1 DEF TaskArchive
  <2> QED
    BY <1>1, <1>19, <2>2 DEF JournalRestored
<1> QED
  BY <1>5, <1>6, <1>7, <1>8, <1>9, <1>10, <1>11, <1>12, <1>13, <1>14, <1>15, <1>16, <1>17,
     <1>18, <1>19
  DEF Next, Others, Begin, Work, Starts

\* What is removed is no archive of the chain, nor that of a start.
LEMMA RemovedIs ==
  ASSUME Settled, Unlink
  PROVE  /\ op.looking.name \notin Chain(head)
         /\ TaskLocked => op.looking.name # Replacement
<1>1. op.looking \in op.left /\ op.left \subseteq Archived
  BY DEF Settled, IInv, CompactionKept, Busy, Unlink, At
<1>2. \A r \in op.left : r.name \notin Chain(head)
  BY DEF Settled, CommandKnown, Busy, Unlink, At
<1>3. TaskLocked => \A r \in Archived : r.name # Replacement
  BY ReplacementUnknown DEF Settled, EvidenceKnown, IInv, StartKept, TaskLocked
<1> QED
  BY <1>1, <1>2, <1>3

LEMMA StartMoves ==
  ASSUME [Next]_vars
  PROVE  start' = start \/ Starts
<1>1. ASSUME NEW p \in Papers, NEW v \in Contents, Save(p, v) PROVE start' = start
  BY <1>1 DEF Save
<1>2. ASSUME NEW withHistory \in BOOLEAN, NEW kept \in SUBSET Papers, Plan(withHistory, kept)
      PROVE  start' = start
  BY <1>2 DEF Plan
<1>3. ASSUME NEW gone \in SUBSET zips, CollectOrphans(gone) PROVE start' = start
  BY <1>3 DEF CollectOrphans
<1>4. ASSUME NEW zip \in Indexed, Restore(zip) PROVE start' = start
  BY <1>4 DEF Restore
<1>5. ASSUME Migrate \/ LoadHead \/ ClearHead \/ Look \/ Crash \/ Anchor \/ Unlink PROVE start' = start
  BY <1>5 DEF Migrate, LoadHead, ClearHead, Look, Crash, Anchor, Unlink
<1>6. ASSUME Install \/ Installed \/ Rewrite \/ Rewritten PROVE start' = start
  BY <1>6 DEF Install, Installed, Rewrite, Rewritten
<1>7. ASSUME LinkPage \/ PageDone \/ LinkZip \/ ZipDone \/ WriteIndex PROVE start' = start
  BY <1>7 DEF LinkPage, PageDone, LinkZip, ZipDone, WriteIndex
<1>8. ASSUME UNCHANGED vars PROVE start' = start
  BY <1>8 DEF vars
<1> QED
  BY <1>1, <1>2, <1>3, <1>4, <1>5, <1>6, <1>7, <1>8 DEF Next, Others, Begin, Work, Starts

LEMMA StartStandsStep ==
  ASSUME Settled, [Next]_vars
  PROVE  StartStands'
<1>1. SUFFICES ASSUME TaskLocked' PROVE Readable(TaskArchive(Replacement))'
  BY DEF StartStands
<1>2. CASE start' = start
  <2>1. TaskLocked /\ Replacement' = Replacement
    BY <1>1, <1>2 DEF TaskLocked, Replacement
  <2>2. Readable(TaskArchive(Replacement))
    BY <2>1 DEF Settled, StartStands
  <2>3. ~StartFails /\ ~JournalRestored
    BY <1>2, <2>1 DEF StartFails, JournalRestored, TaskLocked
  <2>4. TaskArchive(Replacement) \in active' /\ Replacement \notin twice'.files
    BY <2>1, <2>2, <2>3, RemovedIs, ReadableStays
  <2> QED
    BY <2>1, <2>4 DEF Readable, TaskArchive
<1>3. CASE StartPublish
  <2>1. /\ start # None /\ head = start.head /\ twice' = twice
        /\ active' = active \cup {TaskArchive(Replacement)}
        /\ start' = [start EXCEPT !.phase = "published"]
    BY <1>1, <1>3 DEF StartPublish, TaskLocked
  <2>2. start'.head = start.head /\ start'.task = start.task
    BY <2>1 DEF Settled, IInv, StartKept
  <2>3. Replacement' = Replacement
    BY <2>2 DEF Replacement
  <2>4. Replacement \notin twice.files
    BY <2>1, ReplacementUnknown DEF Settled, EvidenceKnown
  <2> QED
    BY <2>1, <2>3, <2>4 DEF Readable, TaskArchive
<1>4. CASE StartLoad
  BY <1>1, <1>4 DEF StartLoad, TaskLocked
<1>5. CASE StartCommit \/ StartFails \/ StartDies
  BY <1>1, <1>5 DEF StartCommit, StartFails, StartDies, TaskLocked
<1>6. CASE JournalRestored \/ JournalOverwritten
  BY <1>2, <1>6 DEF JournalRestored, JournalOverwritten
<1> QED
  BY <1>2, <1>3, <1>4, <1>5, <1>6, StartMoves DEF Starts

\* The chain of TASK stands after every step that gives no excuse.
LEMMA ChainStep ==
  ASSUME Settled, [Next]_vars, excused' = {}
  PROVE  ChainStands(head)'
<1> DEFINE InPlace(c) == TaskArchive(c) \in active' /\ c \notin twice'.files
           Names(h) == \A i \in 1..Len(h) : h[i].named = SubSeq(h, 1, i - 1)
<1>1. /\ \A c \in Chain(head) : Readable(TaskArchive(c))
      /\ Names(head) /\ Linked(head)
  BY DEF Settled, ChainStands, Resolves, IInv, ChainsKept
<1>2. SUFFICES (\A c \in Chain(head') : InPlace(c)) /\ Names(head')
  BY DEF ChainStands, Resolves, Readable, TaskArchive, Chain
<1>3. \A c \in Chain(head) : InPlace(c)
  <2> SUFFICES ASSUME NEW c \in Chain(head) PROVE InPlace(c)
    OBVIOUS
  <2>1. ~(StartFails /\ Replacement = c) /\ c \notin journal
    BY ReplacementUnknown DEF StartFails, Settled, IInv, StartKept, JournalKept, TaskLocked
  <2> QED
    BY <1>1, <2>1, RemovedIs, ReadableStays
<1>4. CASE head' = head
  BY <1>1, <1>3, <1>4
<1>5. CASE StartCommit
  <2> DEFINE x == [task |-> start.task, schema |-> 2, named |-> start.head]
  <2>1. TaskLocked /\ head' = Replacement /\ active' = active /\ twice' = twice
    BY <1>5 DEF StartCommit, evidence
  <2>2. start.head = head
    BY <2>1 DEF Settled, IInv, StartKept
  <2>3. head' = Append(head, x) /\ x.named = head
    BY <2>1, <2>2 DEF Replacement
  <2> HIDE DEF x
  <2>4. Readable(TaskArchive(Replacement))
    BY <2>1 DEF Settled, StartStands
  <2>5. InPlace(Replacement)
    BY <2>1, <2>4 DEF Readable, TaskArchive
  <2> HIDE DEF InPlace
  <2>6. Chain(head') = Chain(head) \cup {Replacement}
    BY <1>1, <2>1, <2>3, ChainGrows
  <2>7. Names(head')
    <3>1. /\ Len(Append(head, x)) = Len(head) + 1 /\ Len(head) \in Nat
          /\ \A i \in 1..Len(head) : Append(head, x)[i] = head[i]
          /\ Append(head, x)[Len(head) + 1] = x
          /\ \A i \in 1..(Len(head) + 1) :
                SubSeq(Append(head, x), 1, i - 1) = SubSeq(head, 1, i - 1)
      BY <1>1, ChainGrows
    <3>2. SubSeq(head, 1, Len(head)) = head
      BY <1>1, SubSeqFull DEF Linked
    <3> SUFFICES ASSUME NEW i \in 1..Len(head')
                 PROVE  head'[i].named = SubSeq(head', 1, i - 1)
      OBVIOUS
    <3>3. CASE i \in 1..Len(head)
      BY <1>1, <2>3, <3>1, <3>3
    <3>4. CASE i = Len(head) + 1
      <4>1. i - 1 = Len(head) /\ i \in 1..(Len(head) + 1)
        BY <3>1, <3>4
      <4>2. SubSeq(head', 1, i - 1) = head
        BY <2>3, <3>1, <3>2, <4>1
      <4> QED
        BY <2>3, <3>1, <3>4, <4>2
    <3> QED
      BY <2>3, <3>1, <3>3, <3>4
  <2> QED
    BY <1>3, <2>5, <2>6, <2>7
<1>6. CASE ClearHead
  <2>1. CASE head' = head
    BY <1>4, <2>1
  <2>2. CASE head' = <<>>
    BY <2>2 DEF Chain
  <2> QED
    BY <1>6, <2>1, <2>2 DEF ClearHead
<1>7. CASE Anchor
  <2>1. CASE head' = head
    BY <1>4, <2>1
  <2>2. CASE head' # head
    <3>1. head' = op.to /\ active' = active /\ twice' = twice /\ ChainStands(op.to)
      BY <1>7, <2>2 DEF Anchor, evidence
    <3>2. (\A c \in Chain(op.to) : Readable(TaskArchive(c))) /\ Names(op.to)
      BY <3>1 DEF ChainStands, Resolves
    <3>3. \A c \in Chain(op.to) : InPlace(c)
      BY <3>1, <3>2 DEF Readable, TaskArchive
    <3> HIDE DEF InPlace, Names
    <3> QED
      BY <3>1, <3>2, <3>3
  <2> QED
    BY <2>1, <2>2
<1> QED
  BY <1>4, <1>5, <1>6, <1>7, Frames DEF Settled, IInv

(***************************************************************************)
(* What a command knows.                                                   *)
(***************************************************************************)
\* CommandKnown of a command o, after the step.
Knows(o) ==
    /\ o.phase \in Compacting => \A n \in o.chosen : NameKnownNext(n)
    /\ o.phase \in {"zip linked", "index"} => \A r \in o.zip : KnownNext(r)
    /\ o.phase \in {"install", "installed"} => o.left # {} /\ \A r \in o.left : KnownNext(r)
    /\ o.phase \in {"rewrite", "rewritten"} => o.left \subseteq Chain(o.to)
    /\ o.phase = "remove" => \A r \in o.left : r.name \notin Chain(head')

LEMMA KnowsIs ==
  ASSUME op' # None => Knows(op')
  PROVE  CommandKnown'
BY DEF Knows, CommandKnown, Busy, Compacting, Known, KnownNext, NameKnown, NameKnownNext,
       Linked, Old, OldNext, Tasks, Chain

\* A command that a step leaves alone.
LEMMA KnowsStill ==
  ASSUME Settled, [Next]_vars, op # None, head' = head \/ StartCommit
  PROVE  Knows(op)
<1>1. /\ \A r : Known(r) => KnownNext(r)
      /\ \A n : NameKnown(n) => NameKnownNext(n)
  BY KnownLasts
<1>2. /\ op.phase \in Compacting => \A n \in op.chosen : NameKnown(n)
      /\ op.phase \in {"zip linked", "index"} => \A r \in op.zip : Known(r)
      /\ op.phase \in {"install", "installed"} => op.left # {} /\ \A r \in op.left : Known(r)
      /\ op.phase \in {"rewrite", "rewritten"} => op.left \subseteq Chain(op.to)
      /\ op.phase = "remove" => \A r \in op.left : r.name \notin Chain(head)
  BY DEF Settled, CommandKnown, Busy
<1>3. ASSUME op.phase = "remove" PROVE \A r \in op.left : r.name \notin Chain(head')
  <2>1. CASE head' = head
    BY <1>2, <1>3, <2>1
  <2>2. CASE StartCommit
    <3> DEFINE x == [task |-> start.task, schema |-> 2, named |-> start.head]
    <3>1. TaskLocked /\ start # None /\ start.head = head /\ head' = Replacement
      BY <2>2 DEF StartCommit, TaskLocked, Settled, IInv, StartKept
    <3>2. head' = Append(head, x)
      BY <3>1 DEF Replacement
    <3> HIDE DEF x
    <3>3. Chain(head') = Chain(head) \cup {Replacement}
      BY <3>1, <3>2, ChainGrows DEF Settled, IInv, ChainsKept
    <3>4. op.left \subseteq Archived
      BY <1>3 DEF Settled, IInv, CompactionKept, Busy
    <3>5. \A r \in Archived : r.name # Replacement
      BY <3>1, ReplacementUnknown DEF Settled, EvidenceKnown
    <3> QED
      BY <1>2, <1>3, <3>3, <3>4, <3>5
  <2> QED
    BY <2>1, <2>2
<1> QED
  BY <1>1, <1>2, <1>3 DEF Knows

\* No paper is in the chain.
LEMMA PapersUnchained ==
  ASSUME Settled, NEW r, Known(r), ~IsTaskArchive(r)
  PROVE  r.name \notin Chain(head)
<1>1. r.name \in Papers
  BY DEF Known, IsTaskArchive
<1>2. \A c \in Chain(head) : Linked(c)
  BY PrefixLinked DEF Settled, IInv, ChainsKept
<1> QED
  BY <1>1, <1>2 DEF Settled, Apart

\* What Removing and Publishing begin.
LEMMA BeginsRemoval ==
  ASSUME Settled, [Next]_vars, head' = head,
         NEW o, DOMAIN o = Fields, \A n \in o.chosen : NameKnownNext(n),
         NEW left, \A r \in left : Known(r)
  PROVE  Knows(Removing(o, left))
<1> DEFINE n == Removing(o, left)
<1>1. /\ n.phase \in {"clear", "clearing", "remove"} /\ n.left = left /\ n.chosen = o.chosen
      /\ n.phase = "remove" => ~ \E r \in left : IsTaskArchive(r)
  BY DEF Removing, Fields, Clears
<1> HIDE DEF n
<1>2. n.phase = "remove" => \A r \in left : r.name \notin Chain(head)
  BY <1>1, PapersUnchained
<1>3. Knows(n)
  BY <1>1, <1>2 DEF Knows
<1> QED
  BY <1>3 DEF n

LEMMA BeginsPublication ==
  ASSUME NEW o, DOMAIN o = Fields, \A n \in o.chosen : NameKnownNext(n)
  PROVE  Knows(Publishing(o))
<1> DEFINE n == Publishing(o)
<1>1. n.phase \in {"page", "zip"} /\ n.chosen = o.chosen
  BY DEF Publishing, Fields
<1> HIDE DEF n
<1>2. Knows(n)
  BY <1>1 DEF Knows
<1> QED
  BY <1>2 DEF n

\* A plan that gives no excuse selects nothing a start has not committed.
LEMMA PlanKnows ==
  ASSUME Settled, [Next]_vars, excused = {}, excused' = {},
         NEW withHistory \in BOOLEAN, NEW kept \in SUBSET Papers, Plan(withHistory, kept)
  PROVE  Knows(op')
<1> DEFINE reachable == kept \cup (IF withHistory THEN {} ELSE Chain(head))
           free == {r \in active : r.name \notin reachable}
           duplicates == Duplicates(free)
           chosen == {r \in free \ duplicates : withHistory \/ ~IsTaskArchive(r)}
           names == {r.name : r \in chosen}
           o == [phase |-> "plan", chosen |-> names, left |-> {},
                 looking |-> None, base |-> <<>>, pages |-> <<>>, zip |-> {},
                 seen |-> <<>>]
<1>1. /\ op' = IF duplicates # {} THEN Removing(o, duplicates) ELSE Publishing(o)
      /\ head' = head
  BY DEF Plan
<1>2. ~(withHistory /\ TaskLocked)
  BY DEF Plan
<1>3. \A r \in chosen : Known(r)
  <2>1. \A r \in active : Known(r) \/ (TaskLocked /\ r = TaskArchive(Replacement))
    BY DEF Settled, EvidenceKnown
  <2>2. IsTaskArchive(TaskArchive(Replacement))
    BY DEF IsTaskArchive, TaskArchive
  <2> QED
    BY <1>2, <2>1, <2>2
<1>4. \A n \in names : NameKnownNext(n)
  <2>1. \A r \in chosen : NameKnown(r.name)
    BY <1>3 DEF Known, NameKnown
  <2> QED
    BY <2>1, KnownLasts
<1>5. \A r \in duplicates : Known(r)
  BY DEF Duplicates, Settled, EvidenceKnown
<1>6. DOMAIN o = Fields /\ o.chosen = names
  BY DEF Fields
<1> HIDE DEF o, duplicates, names
<1>7. Knows(Removing(o, duplicates))
  BY <1>1, <1>4, <1>5, <1>6, BeginsRemoval
<1>8. Knows(Publishing(o))
  BY <1>4, <1>6, BeginsPublication
<1> QED
  BY <1>1, <1>7, <1>8

\* The steps of a compaction.
LEMMA AdvancesKnow ==
  ASSUME Settled, [Next]_vars, Advances, op' # None
  PROVE  Knows(op')
<1>1. op # None /\ op.phase \in Compacting
  BY DEF Advances, LoadHead, ClearHead, Look, Unlink, LinkPage, PageDone, LinkZip, ZipDone, WriteIndex,
         At, Compacting
<1>2. DOMAIN op = Fields
  BY <1>1 DEF Settled, IInv, CompactionKept, Busy, Compacting
<1>3. \A n \in op.chosen : NameKnownNext(n)
  BY <1>1, KnownLasts DEF Settled, CommandKnown, Busy
<1>4. ASSUME LoadHead \/ ClearHead PROVE Knows(op')
  <2>1. PICK seen : \/ op' = [op EXCEPT !.phase = "clearing", !.seen = seen]
                    \/ op' = [op EXCEPT !.phase = "remove", !.seen = seen] /\ head' = <<>>
    BY <1>4 DEF LoadHead, ClearHead, Done
  <2>2. /\ op'.phase = "clearing" \/ (op'.phase = "remove" /\ head' = <<>>)
        /\ op'.chosen = op.chosen
    BY <1>2, <2>1 DEF Fields
  <2>3. head' = <<>> => Chain(head') = {}
    BY DEF Chain
  <2> QED
    BY <1>3, <2>2, <2>3 DEF Knows
<1>5. ASSUME NEW n, head' = head, n.phase = "remove", n.chosen = op.chosen,
             \A r \in n.left : r \in op.left, op.phase = "remove"
      PROVE  Knows(n)
  <2>1. Knows(op)
    BY <1>1, <1>5, KnowsStill
  <2>2. \A r \in op.left : r.name \notin Chain(head')
    BY <1>5, <2>1 DEF Knows
  <2> QED
    BY <1>3, <1>5, <2>2 DEF Knows
<1>6. ASSUME Look PROVE Knows(op')
  <2>1. op.phase = "remove" /\ head' = head
    BY <1>6 DEF Look, At
  <2>2. PICK file : op' = [op EXCEPT !.looking = file]
    BY <1>6 DEF Look
  <2>3. op'.phase = "remove" /\ op'.chosen = op.chosen /\ op'.left = op.left
    BY <1>2, <2>1, <2>2 DEF Fields
  <2> QED
    BY <1>5, <2>1, <2>3
<1>7. ASSUME Unlink PROVE Knows(op')
  <2> DEFINE left == {r \in op.left : r.name # op.looking.name}
  <2>1. op.phase = "remove" /\ head' = head /\ op' = AfterRemoval(left)
    BY <1>7 DEF Unlink, At
  <2>2. \A r \in left : r \in op.left
    OBVIOUS
  <2> HIDE DEF left
  <2>3. CASE left # {}
    <3>1. op' = [op EXCEPT !.left = left, !.looking = None]
      BY <2>1, <2>3 DEF AfterRemoval
    <3>2. op'.phase = "remove" /\ op'.chosen = op.chosen /\ op'.left = left
      BY <1>2, <2>1, <3>1 DEF Fields
    <3> QED
      BY <1>5, <2>1, <2>2, <3>2
  <2>4. CASE left = {}
    <3> DEFINE n == [op EXCEPT !.left = {}, !.looking = None]
    <3>1. op' = Publishing(n)
      BY <2>1, <2>4 DEF AfterRemoval
    <3>2. DOMAIN n = Fields /\ n.chosen = op.chosen
      BY <1>2 DEF Fields
    <3> HIDE DEF n
    <3> QED
      BY <1>3, <3>1, <3>2, BeginsPublication
  <2> QED
    BY <2>3, <2>4
<1>8. ASSUME LinkPage \/ PageDone PROVE Knows(op')
  <2>1. op'.phase \in {"page linked", "zip"} /\ op'.chosen = op.chosen
    <3>1. CASE LinkPage
      <4>1. PICK page : op' \in {[[op EXCEPT !.pages = page] EXCEPT !.phase = "zip"],
                                 [[op EXCEPT !.pages = page] EXCEPT !.phase = "page linked"]}
        BY <3>1 DEF LinkPage
      <4> QED
        BY <1>2, <4>1 DEF Fields
    <3>2. CASE PageDone
      BY <1>2, <3>2 DEF PageDone, Goto, Fields
    <3> QED
      BY <1>8, <3>1, <3>2
  <2> QED
    BY <1>3, <2>1 DEF Knows
<1>9. ASSUME LinkZip PROVE Knows(op')
  <2> DEFINE zip == {r \in active : r.name \in op.chosen}
  <2>1. op' \in {[[op EXCEPT !.zip = zip] EXCEPT !.phase = "index"],
                 [[op EXCEPT !.zip = zip] EXCEPT !.phase = "zip linked"]}
    BY <1>9 DEF LinkZip, Done
  <2>2. \A r \in zip : Known(r)
    <3>1. \A r \in active : Known(r) \/ (TaskLocked /\ r = TaskArchive(Replacement))
      BY DEF Settled, EvidenceKnown
    <3>2. \A n \in op.chosen : NameKnown(n)
      BY <1>1 DEF Settled, CommandKnown, Busy
    <3>3. TaskLocked => Replacement \notin op.chosen
      BY <3>2, ReplacementUnknown DEF TaskLocked, Settled, IInv, StartKept
    <3>4. TaskArchive(Replacement).name = Replacement
      BY DEF TaskArchive
    <3> QED
      BY <3>1, <3>3, <3>4
  <2>3. \A r \in zip : KnownNext(r)
    BY <2>2, KnownLasts
  <2> HIDE DEF zip
  <2>4. op'.phase \in {"index", "zip linked"} /\ op'.chosen = op.chosen /\ op'.zip = zip
    BY <1>2, <2>1 DEF Fields
  <2> QED
    BY <1>3, <2>3, <2>4 DEF Knows
<1>10. ASSUME ZipDone PROVE Knows(op')
  <2>1. op'.phase = "index" /\ op'.chosen = op.chosen /\ op'.zip = op.zip
    BY <1>2, <1>10 DEF ZipDone, Goto, Fields
  <2>2. \A r \in op.zip : KnownNext(r)
    BY <1>10, KnownLasts DEF ZipDone, At, Settled, CommandKnown, Busy
  <2> QED
    BY <1>3, <2>1, <2>2 DEF Knows
<1>11. ASSUME WriteIndex PROVE Knows(op')
  <2>1. op' = Removing(op, op.zip) /\ head' = head
    BY <1>11 DEF WriteIndex
  <2>2. \A r \in op.zip : Known(r)
    BY <1>11 DEF WriteIndex, At, Settled, CommandKnown, Busy
  <2> QED
    BY <1>2, <1>3, <2>1, <2>2, BeginsRemoval
<1> QED
  BY <1>4, <1>6, <1>7, <1>8, <1>9, <1>10, <1>11 DEF Advances

\* Restorations and migrations.
LEMMA OthersKnow ==
  ASSUME Settled, [Next]_vars, op' # None,
         \/ \E zip \in Indexed : Restore(zip)
         \/ Migrate \/ Install \/ Installed \/ Rewrite \/ Rewritten
  PROVE  Knows(op')
<1>1. ASSUME NEW zip \in Indexed, Restore(zip) PROVE Knows(op')
  <2>1. op'.phase = "install" /\ op'.left = zip /\ zip # {} /\ zip \subseteq Archived
    BY <1>1 DEF Restore, Archived
  <2>2. \A r \in zip : KnownNext(r)
    BY <2>1, KnownLasts DEF Settled, EvidenceKnown
  <2> QED
    BY <2>1, <2>2 DEF Knows, Compacting
<1>2. ASSUME Migrate PROVE Knows(op')
  <2>1. op'.phase = "rewrite" /\ op'.left \subseteq Chain(op'.to)
    BY <1>2 DEF Migrate
  <2> QED
    BY <2>1 DEF Knows, Compacting
<1>3. ASSUME Install \/ Installed PROVE Knows(op')
  <2>1. /\ op # None /\ op.left # {} /\ \A r \in op.left : Known(r)
        /\ DOMAIN op = {"phase", "left"}
    BY <1>3 DEF Install, Installed, At, Settled, CommandKnown, Busy, IInv, ChainsKept
  <2>2. \A r \in op.left : KnownNext(r)
    BY <2>1, KnownLasts
  <2>3. First(op.left) \in op.left
    BY <2>1 DEF First
  <2>4. CASE op' = [op EXCEPT !.phase = "installed"]
    <3>1. op'.phase = "installed" /\ op'.left = op.left
      BY <2>1, <2>4
    <3> QED
      BY <2>1, <2>2, <3>1 DEF Knows, Compacting
  <2>5. CASE op' = AfterInstall(First(op.left))
    <3>1. /\ op'.phase = "install" /\ op'.left = op.left \ {First(op.left)}
          /\ op.left # {First(op.left)}
      BY <2>5 DEF AfterInstall
    <3> QED
      BY <2>2, <2>3, <3>1 DEF Knows, Compacting
  <2> QED
    BY <1>3, <2>4, <2>5 DEF Install, Installed
<1>4. ASSUME Rewrite \/ Rewritten PROVE Knows(op')
  <2>1. /\ op # None /\ op.left \subseteq Chain(op.to)
        /\ DOMAIN op = {"phase", "from", "to", "left"}
        /\ op.phase \in {"rewrite", "rewritten"}
    BY <1>4 DEF Rewrite, Rewritten, At, Settled, CommandKnown, Busy, IInv, ChainsKept
  <2>2. \/ \E c : \/ op' = [op EXCEPT !.left = @ \ {c}]
                  \/ op' = [op EXCEPT !.phase = "rewritten", !.left = @ \ {c}]
        \/ op' = [op EXCEPT !.phase = "rewrite"]
    BY <1>4 DEF Rewrite, Rewritten, Goto
  <2>3. /\ op'.phase \in {"rewrite", "rewritten"} /\ op'.to = op.to
        /\ op'.left \subseteq op.left
    BY <2>1, <2>2
  <2> QED
    BY <2>1, <2>3 DEF Knows, Compacting
<1> QED
  BY <1>1, <1>2, <1>3, <1>4

LEMMA CommandStep ==
  ASSUME Settled, [Next]_vars, excused = {}, excused' = {}
  PROVE  CommandKnown'
<1> SUFFICES ASSUME op' # None PROVE Knows(op')
  BY KnowsIs
<1>1. ASSUME op' = op, head' = head \/ StartCommit PROVE Knows(op')
  BY <1>1, KnowsStill
<1>2. ASSUME NEW p \in Papers, NEW v \in Contents, Save(p, v) PROVE Knows(op')
  BY <1>1, <1>2 DEF Save
<1>3. ASSUME Starts PROVE Knows(op')
  BY <1>1, <1>3 DEF Starts, StartLoad, StartPublish, StartCommit, StartFails,
           StartDies, JournalRestored, JournalOverwritten
<1>4. ASSUME NEW withHistory \in BOOLEAN, NEW kept \in SUBSET Papers, Plan(withHistory, kept)
      PROVE  Knows(op')
  BY <1>4, PlanKnows
<1>5. ASSUME NEW gone \in SUBSET zips, CollectOrphans(gone) PROVE Knows(op')
  BY <1>1, <1>5 DEF CollectOrphans
<1>6. ASSUME Anchor \/ Crash PROVE Knows(op')
  BY <1>6 DEF Anchor, Crash, Done
<1>7. ASSUME UNCHANGED vars PROVE Knows(op')
  BY <1>1, <1>7 DEF vars
<1> QED
  BY <1>2, <1>3, <1>4, <1>5, <1>6, <1>7, AdvancesKnow, OthersKnow
  DEF Next, Others, Begin, Work, Starts, Advances

(***************************************************************************)
(* The chain of TASK stands.                                               *)
(***************************************************************************)
\* No step takes an excuse back.
LEMMA ExcusesStay ==
  ASSUME [Next]_vars
  PROVE  excused \subseteq excused'
<1>1. ASSUME NEW p \in Papers, NEW v \in Contents, Save(p, v) PROVE excused' = excused
  BY <1>1 DEF Save
<1>2. ASSUME Starts PROVE excused' = excused
  BY <1>2 DEF Starts, StartLoad, StartPublish, StartCommit, StartFails,
           StartDies, JournalRestored, JournalOverwritten, history
<1>3. ASSUME NEW withHistory \in BOOLEAN, NEW kept \in SUBSET Papers, Plan(withHistory, kept)
      PROVE  excused \subseteq excused'
  BY <1>3 DEF Plan
<1>4. ASSUME NEW gone \in SUBSET zips, CollectOrphans(gone) PROVE excused' = excused
  BY <1>4 DEF CollectOrphans, history
<1>5. ASSUME NEW zip \in Indexed, Restore(zip) PROVE excused' = excused
  BY <1>5 DEF Restore, history
<1>6. ASSUME Migrate \/ LoadHead \/ ClearHead \/ Look \/ Crash \/ Unlink PROVE excused' = excused
  BY <1>6 DEF Migrate, LoadHead, ClearHead, Look, Crash, Unlink, history
<1>7. ASSUME Anchor PROVE excused \subseteq excused'
  BY <1>7 DEF Anchor
<1>8. ASSUME Install \/ Installed \/ Rewrite \/ Rewritten PROVE excused' = excused
  BY <1>8 DEF Install, Installed, Rewrite, Rewritten, history
<1>9. ASSUME LinkPage \/ PageDone \/ LinkZip \/ ZipDone \/ WriteIndex PROVE excused' = excused
  BY <1>9 DEF LinkPage, PageDone, LinkZip, ZipDone, WriteIndex, history
<1>10. ASSUME UNCHANGED vars PROVE excused' = excused
  BY <1>10 DEF vars, history
<1> QED
  BY <1>1, <1>2, <1>3, <1>4, <1>5, <1>6, <1>7, <1>8, <1>9, <1>10
  DEF Next, Others, Begin, Work, Starts

LEMMA StandsInitially == Init => Stands
<1> SUFFICES ASSUME Init PROVE Stands
  OBVIOUS
<1>1. /\ active = {TaskArchive(c) : c \in Chain(head)} /\ head \in OldChains
      /\ twice = [files |-> {}, zips |-> {}, pages |-> {}]
      /\ op = None /\ start = None
  BY DEF Init
<1>2. Linked(head) /\ Old(head)
  BY Initially DEF IInv, ChainsKept
<1>3. \A c \in Chain(head) : Linked(c) /\ Old(c)
  BY <1>2, PrefixLinked, PrefixTasks DEF Old
<1>4. Archived = {}
  <2>1. IndexStands
    BY Initially DEF IInv
  <2>2. index = [archives |-> <<>>, pages |-> <<>>]
    BY DEF Init
  <2>3. Indexed = {}
    <3>1. Indexed = (UNION {ToSet(<<>>[i]) : i \in DOMAIN <<>>}) \cup ToSet(<<>>)
      BY <2>1, <2>2, IndexedIs
    <3>2. (UNION {ToSet(<<>>[i]) : i \in DOMAIN <<>>}) = {}
      OBVIOUS
    <3> QED
      BY <3>1, <3>2, EmptyList
  <2> QED
    BY <2>3 DEF Archived
<1>5. EvidenceKnown
  BY <1>1, <1>3, <1>4 DEF EvidenceKnown, Known, TaskArchive
<1>6. CommandKnown /\ StartStands
  BY <1>1 DEF CommandKnown, StartStands, Busy, TaskLocked
<1>7. ChainStands(head)
  <2>1. Resolves(head)
    BY <1>1 DEF Resolves, Readable, TaskArchive
  <2>2. \A i \in DOMAIN head : head[i].named = SubSeq(head, 1, i - 1)
    BY <1>1, EvidenceAssumption
  <2>3. DOMAIN head = 1..Len(head)
    BY <1>2, LenProperties DEF Linked
  <2> QED
    BY <2>1, <2>2, <2>3 DEF ChainStands
<1> QED
  BY <1>5, <1>6, <1>7 DEF Stands

LEMMA StandsStep ==
  ASSUME Apart, IInv, Stands, [Next]_vars
  PROVE  Stands'
<1>1. SUFFICES ASSUME excused' = {}
               PROVE  EvidenceKnown' /\ CommandKnown' /\ StartStands' /\ ChainStands(head)'
  BY DEF Stands
<1>2. excused = {}
  BY <1>1, ExcusesStay
<1>3. Settled
  BY <1>2 DEF Settled, Stands
<1>4. EvidenceKnown'
  <2>1. /\ \A r \in active' : KnownNext(r) \/ (TaskLocked' /\ r = TaskArchive(Replacement)')
        /\ \A r \in Archived' : KnownNext(r)
        /\ \A n \in twice'.files : NameKnownNext(n)
    BY <1>3, FilesStep, ArchivesStep, TwiceStep
  <2> QED
    BY <2>1 DEF EvidenceKnown, Known, KnownNext, NameKnown, NameKnownNext, Linked, Old,
                OldNext, Tasks
<1>5. CommandKnown' /\ StartStands' /\ ChainStands(head)'
  BY <1>1, <1>2, <1>3, CommandStep, StartStandsStep, ChainStep
<1> QED
  BY <1>4, <1>5

\* The chain of task archives that TASK.json names is there, and its archives name each
\* other (evidencectl.py, agentctl.py and the validator of workflowctl.py), in every
\* order of starts, migrations, compactions and restorations and wherever they die, but
\* for the two excuses the model records; if no paper is named like a task archive.
THEOREM HeadKeepsStanding ==
  ASSUME Apart
  PROVE  Spec => []HeadStands
<1>1. Init => Stands
  BY StandsInitially
<1>2. IInv /\ Stands /\ [Next]_vars => Stands'
  BY StandsStep
<1>3. Stands => HeadStands
  BY DEF Stands, HeadStands
<1> QED
  BY <1>1, <1>2, <1>3, Invariance, PTL DEF Spec
=============================================================================
