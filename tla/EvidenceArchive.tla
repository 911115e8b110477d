----------------------------- MODULE EvidenceArchive ----------------------------
(***************************************************************************)
(* The retention of evidence (evidencectl.py): compaction into content     *)
(* addressed archives, the index of the archives and its pages, the        *)
(* collection of orphans, restoration, and the migration of the chain of   *)
(* task archives that TASK.json points to.  Its commands exclude each      *)
(* other by .evidence.lock; the writers of evidence and agentctl start,    *)
(* which archives the task it replaces, do not take that lock.             *)
(*                                                                         *)
(* A file that is published appears by a link from a temporary, which is   *)
(* then unlinked.  A death in between leaves two links, and the bounded    *)
(* readers take no file with two links.                                    *)
(*                                                                         *)
(* A task archive contains the head of the archive before it, so it is     *)
(* named here by the chain it ends.  An archive of evidence is the set of  *)
(* its members; a page is named by the pages up to it.  What the           *)
(* reference roots reach and what is too young is an input, but for the    *)
(* chain of TASK; the byte limits of one archive are left out.             *)
(***************************************************************************)
EXTENDS Integers, SequencesExt

CONSTANTS
    Papers,      \* evidence files other than task archives
    Contents,    \* what may be in them
    None,        \* no command, nothing looked at
    OldChains,   \* the chains an older release may have archived its tasks in
    MaxArchives, \* evidence_retention.max_archives
    MaxCalls,    \* bound: files saved, tasks archived, restorations, migrations
    MaxFaults    \* bound: commands that die or fail half way

ASSUME EvidenceAssumption ==
    /\ None \notin Contents
    /\ OldChains # {}
    /\ \A h \in OldChains :
          /\ h \in Seq(ToSet(h))
          /\ \A i \in DOMAIN h :
                /\ DOMAIN h[i] = {"task", "schema", "named"}
                /\ h[i].task \in Int /\ h[i].task < 0
                /\ h[i].schema = 1 /\ h[i].named = SubSeq(h, 1, i - 1)
    /\ MaxArchives \in Nat \ {0}
    /\ MaxCalls \in Nat
    /\ MaxFaults \in Nat

VARIABLES
    active,      \* state/evidence: [name, data] of every file
    zips,        \* evidence-archives
    pages,       \* evidence-archive-pages
    index,       \* EVIDENCE_INDEX.json: archives, and pages behind its page head
    twice,       \* what has two links: files, zips and pages
    head,        \* TASK.json's task_archive
    op,          \* the command that holds the evidence lock
    start,       \* the start under way: the head it loaded, and how far it is
    journal,     \* the archive in the journal of a start that died, if there is one
    calls,       \* files saved, tasks archived, restorations and migrations so far
    faults,      \* commands that died or failed half way
    saved,       \* history: what has been put into evidence and not overwritten
    torn,        \* history: saved between the last look at a file and its unlink
    excused      \* history: of the two ways a chain is known to break

evidence == <<active, zips, pages, index, twice>>
history == <<saved, torn, excused>>
vars == <<evidence, head, op, start, journal, calls, faults, history>>

(***************************************************************************)
(* Task archives.                                                          *)
(***************************************************************************)
Chain(h) == {SubSeq(h, 1, i) : i \in 1..Len(h)}
IsTaskArchive(r) == r.data = None
TaskArchive(h) == [name |-> h, data |-> None]

Readable(r) == r \in active /\ r.name \notin twice.files

\* task_archive_chain
Resolves(h) == \A c \in Chain(h) : Readable(TaskArchive(c))

\* workflowctl's task_archive_errors: besides, every archived TASK names the
\* archive before its own.
ChainStands(h) == Resolves(h) /\ \A i \in 1..Len(h) : h[i].named = SubSeq(h, 1, i - 1)

(***************************************************************************)
(* The index.                                                              *)
(***************************************************************************)
Lists == Append(index.pages, index.archives)
Indexed == UNION {ToSet(Lists[i]) : i \in DOMAIN Lists}
Archived == UNION Indexed

\* verify_index(deep)
Verifies ==
    /\ \A c \in Chain(index.pages) : c \in pages \ twice.pages
    /\ Indexed \subseteq zips \ twice.zips
    /\ \A i, j \in DOMAIN Lists : \A m \in DOMAIN Lists[i], n \in DOMAIN Lists[j] :
          Lists[i][m] = Lists[j][n] => i = j /\ m = n
    /\ Len(index.archives) <= MaxArchives

(***************************************************************************)
(* The others: whoever writes evidence, and start.                         *)
(***************************************************************************)
Call == calls < MaxCalls /\ calls' = calls + 1

Named(n) == {r \in active : r.name = n}

Versions(p) == {r \in Named(p) : ~IsTaskArchive(r)}

Save(p, v) ==
    /\ Call
    /\ active' = (active \ Versions(p)) \cup {[name |-> p, data |-> v]}
    /\ twice' = [twice EXCEPT !.files = @ \ {p}]
    /\ saved' = (saved \ (Versions(p) \ Archived)) \cup {[name |-> p, data |-> v]}
    /\ UNCHANGED <<zips, pages, index, head, op, start, journal, faults, torn, excused>>

\* build_task_archive
StartLoad ==
    /\ start = None
    /\ Call
    /\ Resolves(head)
    /\ start' = [head |-> head, phase |-> "built", task |-> calls]
    /\ UNCHANGED <<evidence, head, op, journal, faults, history>>

TaskLocked == start # None /\ start.phase = "published"
Replacement == Append(start.head, [task |-> start.task, schema |-> 2, named |-> start.head])

\* transition_task: nothing if TASK is not the one that was loaded; else the
\* archive is among the files written before TASK.
StartPublish ==
    /\ start # None /\ start.phase = "built"
    /\ IF head = start.head
       THEN /\ active' = active \cup {TaskArchive(Replacement)}
            /\ start' = [start EXCEPT !.phase = "published"]
            /\ journal' = {}
       ELSE start' = None /\ UNCHANGED <<active, journal>>
    /\ UNCHANGED <<zips, pages, index, twice, head, op, calls, faults, history>>

StartCommit ==
    /\ TaskLocked
    /\ head' = Replacement
    /\ saved' = saved \cup {TaskArchive(Replacement)}
    /\ start' = None
    /\ UNCHANGED <<evidence, op, journal, calls, faults, torn, excused>>

Fault == faults < MaxFaults /\ faults' = faults + 1

\* _restore_all
StartFails ==
    /\ Fault
    /\ TaskLocked
    /\ active' = active \ {TaskArchive(Replacement)}
    /\ start' = None
    /\ UNCHANGED <<zips, pages, index, twice, head, op, journal, calls, history>>

\* The lock is let go, and the journal stays; so does the archive.
StartDies ==
    /\ Fault
    /\ TaskLocked
    /\ start' = None
    /\ journal' = {Replacement}
    /\ UNCHANGED <<evidence, head, op, calls, history>>

\* restore_transition_journal, whoever asks for it.
JournalRestored ==
    /\ ~TaskLocked
    /\ journal # {}
    /\ active' = active \ {TaskArchive(c) : c \in journal}
    /\ twice' = [twice EXCEPT !.files = @ \ journal]
    /\ journal' = {}
    /\ UNCHANGED <<zips, pages, index, head, op, start, calls, faults, history>>

\* Any other transition of TASK writes its own journal over this one.
JournalOverwritten ==
    /\ ~TaskLocked
    /\ journal # {}
    /\ journal' = {}
    /\ UNCHANGED <<evidence, head, op, start, calls, faults, history>>

(***************************************************************************)
(* compact.                                                                *)
(***************************************************************************)
Idle == op = None
At(phase) == op # None /\ op.phase = phase
Goto(phase) == op' = [op EXCEPT !.phase = phase]
Done == op' = None

\* Files are taken in the order of their names, whatever it is.
First(files) == CHOOSE r \in files : TRUE

\* matching_receipt
Duplicates(free) == free \cap Archived

\* Mutant: only what this run archives makes the head dangle.
ClearsChosen(left, chosen) == chosen # {} /\ \E r \in left : IsTaskArchive(r)

\* clear_compacted_task_head goes before the removal of any task archive.
Clears(left, chosen) == \E r \in left : IsTaskArchive(r)

\* Begin to remove what is archived; the index as it will be is in base and pages.
Removing(o, left) ==
    [o EXCEPT !.left = left, !.phase = IF Clears(left, o.chosen) THEN "clear" ELSE "remove"]

Publishing(o) ==
    IF Len(index.archives) >= MaxArchives
    THEN [o EXCEPT !.phase = "page"]
    ELSE [o EXCEPT !.phase = "zip", !.base = index.archives, !.pages = index.pages]

\* plan, and command_compact up to the removal of duplicates: kept is what some root
\* reaches or is too young.  Neither protects task archives with --include-task-history,
\* for which a human decides; without it no task archive may be selected.
Plan(withHistory, kept) ==
    LET reachable == kept \cup (IF withHistory THEN {} ELSE Chain(head))
        free == {r \in active : r.name \notin reachable}
        duplicates == Duplicates(free)
        chosen == {r \in free \ duplicates : withHistory \/ ~IsTaskArchive(r)}
        o == [phase |-> "plan", chosen |-> {r.name : r \in chosen}, left |-> {},
              looking |-> None, base |-> <<>>, pages |-> <<>>, zip |-> {}, seen |-> <<>>]
    IN  /\ Idle
        /\ Verifies
        /\ twice.files = {}
        /\ chosen \cup duplicates # {}
        /\ withHistory \/ \A r \in duplicates : ~IsTaskArchive(r)
        /\ op' = IF duplicates # {} THEN Removing(o, duplicates) ELSE Publishing(o)
        /\ excused' = IF withHistory /\ TaskLocked THEN excused \cup {"overlap"} ELSE excused
        /\ UNCHANGED <<evidence, head, start, journal, calls, faults, saved, torn>>

\* clear_compacted_task_head loads TASK without its lock, and is done if the head is null.
LoadHead ==
    /\ At("clear")
    /\ op' = [op EXCEPT !.phase = IF head = <<>> THEN "remove" ELSE "clearing", !.seen = head]
    /\ UNCHANGED <<evidence, head, start, journal, calls, faults, history>>

\* The transition takes the lock, and is refused if TASK is not what was loaded.
ClearHead ==
    /\ At("clearing")
    /\ ~TaskLocked
    /\ IF head = op.seen
       THEN /\ head' = <<>>
            /\ journal' = {}
            /\ op' = [op EXCEPT !.phase = "remove", !.seen = <<>>]
       ELSE Done /\ UNCHANGED <<head, journal>>
    /\ UNCHANGED <<evidence, start, calls, faults, history>>

\* Mutant: the file is not compared with its receipt.
PresentAsReceived(file, r) == file.name = r.name

AsReceived(file, r) == file = r /\ Readable(r)

\* remove_evidence_target, in the order of the names: the look at the file, and its unlink.
Look ==
    /\ At("remove") /\ op.looking = None
    /\ LET r == First(op.left)
           found == {file \in Named(r.name) : AsReceived(file, r)}
       IN  op' = IF found = {} THEN None ELSE [op EXCEPT !.looking = CHOOSE file \in found : TRUE]
    /\ UNCHANGED <<evidence, head, start, journal, calls, faults, history>>

AfterRemoval(left) ==
    CASE left # {} -> [op EXCEPT !.left = left, !.looking = None]
      [] left = {} /\ op.chosen # {} /\ op.zip = {} ->
             Publishing([op EXCEPT !.left = {}, !.looking = None])
      [] OTHER -> None

Unlink ==
    /\ At("remove") /\ op.looking # None
    /\ LET name == op.looking.name
       IN  /\ active' = active \ Named(name)
           /\ torn' = torn \cup (Named(name) \ {op.looking})
           /\ twice' = [twice EXCEPT !.files = @ \ {name}]
           /\ op' = IF Named(name) = {} THEN None
                    ELSE AfterRemoval({r \in op.left : r.name # name})
    /\ UNCHANGED <<zips, pages, index, head, start, journal, calls, faults, saved, excused>>

\* publish_page, publish_archive: what is there with the same bytes stands for what
\* was to be published, and is refused while it has two links.
\* Mutant: a page that is there is a collision.
PageStandsNever(page) == FALSE

PageStands(page) == page \notin twice.pages

LinkPage ==
    /\ At("page")
    /\ LET page == Append(index.pages, index.archives)
           next == [op EXCEPT !.pages = page]
       IN  IF page \in pages
           THEN /\ op' = IF PageStands(page) THEN [next EXCEPT !.phase = "zip"] ELSE None
                /\ UNCHANGED <<pages, twice>>
           ELSE /\ pages' = pages \cup {page}
                /\ twice' = [twice EXCEPT !.pages = @ \cup {page}]
                /\ op' = [next EXCEPT !.phase = "page linked"]
    /\ UNCHANGED <<active, zips, index, head, start, journal, calls, faults, history>>

PageDone ==
    /\ At("page linked")
    /\ twice' = [twice EXCEPT !.pages = @ \ {op.pages}]
    /\ Goto("zip")
    /\ UNCHANGED <<active, zips, pages, index, head, start, journal, calls, faults, history>>

LinkZip ==
    /\ At("zip")
    /\ LET zip == {r \in active : r.name \in op.chosen}
           next == [op EXCEPT !.zip = zip]
       IN  \/ /\ {r.name : r \in zip} # op.chosen \/ op.chosen \cap twice.files # {}
              /\ Done /\ UNCHANGED <<zips, twice>>
           \/ /\ {r.name : r \in zip} = op.chosen /\ op.chosen \cap twice.files = {}
              /\ IF zip \in zips
                 THEN /\ op' = IF zip \in twice.zips THEN None ELSE [next EXCEPT !.phase = "index"]
                      /\ UNCHANGED <<zips, twice>>
                 ELSE /\ zips' = zips \cup {zip}
                      /\ twice' = [twice EXCEPT !.zips = @ \cup {zip}]
                      /\ op' = [next EXCEPT !.phase = "zip linked"]
    /\ UNCHANGED <<active, pages, index, head, start, journal, calls, faults, history>>

ZipDone ==
    /\ At("zip linked")
    /\ twice' = [twice EXCEPT !.zips = @ \ {op.zip}]
    /\ Goto("index")
    /\ UNCHANGED <<active, zips, pages, index, head, start, journal, calls, faults, history>>

WriteIndex ==
    /\ At("index")
    /\ index' = [archives |-> Append(op.base, op.zip), pages |-> op.pages]
    /\ op' = Removing(op, op.zip)
    /\ UNCHANGED <<active, zips, pages, twice, head, start, journal, calls, faults, history>>

\* compact --gc-orphans: the temporaries come first, and it may die on the way.
CollectOrphans(gone) ==
    /\ Idle
    /\ Verifies
    /\ gone \subseteq zips \ Indexed
    /\ gone # {} \/ twice.zips # {}
    /\ zips' = zips \ gone
    /\ twice' = [twice EXCEPT !.zips = {}]
    /\ UNCHANGED <<active, pages, index, head, op, start, journal, calls, faults, history>>

(***************************************************************************)
(* restore, and migrate-task-archives.                                     *)
(***************************************************************************)
\* The first pass of command_restore looks for collisions.
Restore(zip) ==
    /\ Idle
    /\ Call
    /\ Verifies
    /\ zip \in Indexed /\ ~(zip \subseteq active)
    /\ \A r \in zip : Named(r.name) \subseteq {r} /\ r.name \notin twice.files
    /\ op' = [phase |-> "install", left |-> zip]
    /\ UNCHANGED <<evidence, head, start, journal, faults, history>>

AfterInstall(r) ==
    IF op.left = {r} THEN None ELSE [phase |-> "install", left |-> op.left \ {r}]

\* install_archive_member
Install ==
    /\ At("install")
    /\ LET r == First(op.left)
       IN  IF Named(r.name) = {}
           THEN /\ active' = active \cup {r}
                /\ twice' = [twice EXCEPT !.files = @ \cup {r.name}]
                /\ op' = [op EXCEPT !.phase = "installed"]
           ELSE /\ op' = IF Readable(r) THEN AfterInstall(r) ELSE None
                /\ UNCHANGED <<active, twice>>
    /\ UNCHANGED <<zips, pages, index, head, start, journal, calls, faults, history>>

Installed ==
    /\ At("installed")
    /\ twice' = [twice EXCEPT !.files = @ \ {First(op.left).name}]
    /\ op' = AfterInstall(First(op.left))
    /\ UNCHANGED <<active, zips, pages, index, head, start, journal, calls, faults, history>>

\* command_migrate_task_archives: every archive in the old schema is rewritten, and
\* every archive behind one.
Migrate ==
    /\ Idle
    /\ Call
    /\ Resolves(head)
    /\ twice.files = {}
    /\ \E i \in 1..Len(head) : head[i].schema = 1
    /\ LET to == [i \in 1..Len(head) |-> [head[i] EXCEPT !.schema = 2]]
       IN  op' = [phase |-> "rewrite", from |-> head, to |-> to, left |-> Chain(to) \ Chain(head)]
    /\ UNCHANGED <<evidence, head, start, journal, faults, history>>

Rewrite ==
    /\ At("rewrite") /\ op.left # {}
    /\ LET c == CHOOSE c \in op.left : \A d \in op.left : Len(c) <= Len(d)
       IN  IF TaskArchive(c) \in active
           THEN op' = [op EXCEPT !.left = @ \ {c}] /\ UNCHANGED <<active, twice>>
           ELSE /\ active' = active \cup {TaskArchive(c)}
                /\ twice' = [twice EXCEPT !.files = @ \cup {c}]
                /\ op' = [op EXCEPT !.phase = "rewritten", !.left = @ \ {c}]
    /\ UNCHANGED <<zips, pages, index, head, start, journal, calls, faults, history>>

Rewritten ==
    /\ At("rewritten")
    /\ twice' = [twice EXCEPT !.files = @ \ Chain(op.to)]
    /\ Goto("rewrite")
    /\ UNCHANGED <<active, zips, pages, index, head, start, journal, calls, faults, history>>

\* The rewritten chain is verified, and TASK is as it was loaded.
Anchor ==
    /\ At("rewrite") /\ op.left = {}
    /\ ~TaskLocked
    /\ IF Resolves(op.to) /\ head = op.from
       THEN /\ head' = op.to
            /\ journal' = {}
            /\ saved' = saved \cup {TaskArchive(c) : c \in Chain(op.to)}
            /\ excused' = IF ChainStands(op.to) THEN excused ELSE excused \cup {"migrated"}
       ELSE UNCHANGED <<head, journal, saved, excused>>
    /\ Done
    /\ UNCHANGED <<evidence, start, calls, faults, torn>>

Crash ==
    /\ Fault
    /\ op # None
    /\ Done
    /\ UNCHANGED <<evidence, head, start, journal, calls, history>>

(***************************************************************************)
(* The specification.                                                      *)
(***************************************************************************)
Init ==
    /\ head \in OldChains /\ calls = Len(head)
    /\ active = {TaskArchive(c) : c \in Chain(head)}
    /\ zips = {} /\ pages = {}
    /\ index = [archives |-> <<>>, pages |-> <<>>]
    /\ twice = [files |-> {}, zips |-> {}, pages |-> {}]
    /\ op = None
    /\ start = None /\ journal = {}
    /\ faults = 0
    /\ saved = active /\ torn = {} /\ excused = {}

Others ==
    \/ \E p \in Papers : \E v \in Contents : Save(p, v)
    \/ StartLoad
    \/ StartPublish
    \/ StartCommit
    \/ StartFails
    \/ StartDies
    \/ JournalRestored
    \/ JournalOverwritten

Begin ==
    \/ \E withHistory \in BOOLEAN, kept \in SUBSET Papers : Plan(withHistory, kept)
    \/ \E gone \in SUBSET zips : CollectOrphans(gone)
    \/ \E zip \in Indexed : Restore(zip)
    \/ Migrate

Work ==
    \/ LoadHead
    \/ ClearHead
    \/ Look
    \/ Install
    \/ Unlink
    \/ LinkPage
    \/ PageDone
    \/ LinkZip
    \/ ZipDone
    \/ WriteIndex
    \/ Installed
    \/ Rewrite
    \/ Rewritten
    \/ Anchor

Next == Others \/ Begin \/ Work \/ Crash

\* A command that has begun goes on, and so does a start; compaction of all there is
\* and the collection of orphans are tried again and again.
Spec ==
    /\ Init /\ [][Next]_vars
    /\ WF_vars(Work)
    /\ WF_vars(StartPublish) /\ WF_vars(StartCommit)
    /\ SF_vars(Plan(FALSE, {}))
    /\ SF_vars(CollectOrphans(zips \ Indexed))

(***************************************************************************)
(* Properties.                                                             *)
(***************************************************************************)

\* Whatever dies where, and whoever writes meanwhile: everything that was put into
\* evidence and not overwritten is there, or in an archive the index names, but for
\* a file saved in the instant between the last look at its predecessor and the unlink.
NothingLost == saved \ torn \subseteq active \cup UNION (Indexed \cap (zips \ twice.zips))

\* The chain of task archives TASK names is there and stands before the validator, in
\* every order of start, migration, compaction of the history and restoration, and
\* after every death; but for a start that publishes its archive while a compaction
\* of the history is planned, and for a migrated chain of two or more.
HeadStands == excused = {} => ChainStands(head)

\* What keeps compaction from its work for good or until a human decides: two links of
\* something it reads, an archive indexed twice, task archives TASK no longer names.
Barred ==
    \/ twice.files # {}
    \/ Append(index.pages, index.archives) \in twice.pages
    \/ ~Verifies
    \/ \E r \in active : IsTaskArchive(r) /\ r.name \notin Chain(head)

\* Compaction that is asked for again and again gets done, wherever the attempts before
\* it died: a paper that nothing cites does not stay, unless compaction is barred.
RetriesSettle ==
    \A p \in Papers : []<>(Named(p) = {} \/ Barred)
=============================================================================
