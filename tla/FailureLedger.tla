----------------------------- MODULE FailureLedger -----------------------------
(***************************************************************************)
(* The failure bookkeeping inside TASK.json: failure_ledger and            *)
(* rollback_ledger are bounded hot state; what does not fit is archived in *)
(* content-addressed chains (failure_archive, rollback_archive), which     *)
(* collapse into one snapshot when they reach their depth limit.           *)
(*                                                                         *)
(* A chain is the sequence of its nodes, oldest first: the head in TASK is *)
(* the last one, and "previous" of a node is the one before it.            *)
(*                                                                         *)
(* The usual names of a specification carry a prefix here, so that         *)
(* Ledgers_proofs can extend this module beside TestBudget.                *)
(***************************************************************************)
EXTENDS Naturals, FiniteSets, SequencesExt

CONSTANTS
    Signatures,     \* root causes
    NoEntry,        \* the value of an empty ledger's last entry
    Limits,         \* values a configured hot limit takes
    FailureDepth,   \* context.max_failure_archive_depth
    RollbackDepth,  \* workflow.rollback_archive_depth_limit
    MaxReturns      \* bound: returns of one task

ASSUME LedgerAssumption ==
    /\ Limits \subseteq Nat \ {0}
    /\ FailureDepth \in Nat \ {0}
    /\ RollbackDepth \in Nat \ {0}
    /\ MaxReturns \in Nat

VARIABLES
    hot,         \* failure_ledger in insertion order: <<signature, count>>
    cold,        \* the chain of failure archives
    rollbacks,   \* rollback_ledger, oldest first
    coldRollbacks, \* the chain of rollback archives
    limit,       \* context.max_failure_entries and max_rollback_entries
    ever         \* history: every return of this task

ledgerVars == <<hot, cold, rollbacks, coldRollbacks, limit, ever>>

Entry == Signatures \X (Nat \ {0})
LimitNames == {"failure", "rollback"}

SumOf(f) == FoldFunction(+, 0, f)
LastOf(s) == s[Len(s)]
Depth(chain) == IF chain = <<>> THEN 0 ELSE LastOf(chain).depth
Keys(pairs) == {pairs[i][1] : i \in DOMAIN pairs}
CountIn(pairs, s) == SumOf([i \in DOMAIN pairs |-> IF pairs[i][1] = s THEN pairs[i][2] ELSE 0])

\* Two ledgers of counts added up, key by key.
Plus(f, g) ==
    [s \in DOMAIN f \cup DOMAIN g |->
        (IF s \in DOMAIN f THEN f[s] ELSE 0) + (IF s \in DOMAIN g THEN g[s] ELSE 0)]

\* failure_archive_counts: the counts of the first n nodes of a chain.
CountsUpTo(chain, n) ==
    LET keys == UNION {DOMAIN chain[i].counts : i \in 1..n}
    IN  [s \in keys |-> SumOf([i \in 1..n |->
            IF s \in DOMAIN chain[i].counts THEN chain[i].counts[s] ELSE 0])]

ArchivedCounts(chain) == CountsUpTo(chain, Len(chain))

\* rollback_archive_entries: what the chain holds, oldest first.
ArchivedEntries(chain) ==
    LET upTo[n \in 0..Len(chain)] ==
            IF n = 0 THEN <<>> ELSE upTo[n - 1] \o chain[n].entries
    IN  upTo[Len(chain)]

Once(pairs) == \A i, j \in DOMAIN pairs : pairs[i][1] = pairs[j][1] => i = j

CountsSome(f) == f \in [DOMAIN f -> Nat \ {0}] /\ DOMAIN f \subseteq Signatures
FailureChain(chain) ==
    /\ chain \in Seq(ToSet(chain))
    /\ \A node \in ToSet(chain) : CountsSome(node.counts)
RollbackNode == [entries : Seq(Entry), depth : Nat, total : Nat]

LedgersTyped ==
    /\ hot \in Seq(Entry)
    /\ Once(hot)
    /\ FailureChain(cold)
    /\ coldRollbacks \in Seq(RollbackNode)
    /\ rollbacks \in Seq(Entry)
    /\ ever \in Seq(Entry)
    /\ limit \in [LimitNames -> Limits]

LedgersInit ==
    /\ hot = <<>>
    /\ cold = <<>>
    /\ rollbacks = <<>>
    /\ coldRollbacks = <<>>
    /\ limit \in [LimitNames -> Limits]
    /\ ever = <<>>

(***************************************************************************)
(* compact_failure_state: the oldest hot counts beyond the limit become a  *)
(* node of their own, or, when the chain is as deep as it may get, a       *)
(* snapshot of everything archived.                                        *)
(***************************************************************************)

\* Mutant: a snapshot keeps only what it evicts.
CompactFailuresDelta(pairs, chain) ==
    IF Len(pairs) <= limit["failure"]
    THEN [hot |-> pairs, cold |-> chain]
    ELSE LET cut == Len(pairs) - limit["failure"]
             evicted == SubSeq(pairs, 1, cut)
             delta == [s \in Keys(evicted) |-> CountIn(evicted, s)]
             snapshot == Depth(chain) >= FailureDepth - 1
             all == IF snapshot THEN delta ELSE Plus(ArchivedCounts(chain), delta)
             head == [counts |-> delta,
                      depth |-> IF snapshot THEN 1 ELSE Depth(chain) + 1,
                      signatures |-> Cardinality(DOMAIN all),
                      events |-> SumOf(all)]
         IN  [hot |-> SubSeq(pairs, cut + 1, Len(pairs)),
              cold |-> IF snapshot THEN <<head>> ELSE Append(chain, head)]

CompactFailures(pairs, chain) ==
    IF Len(pairs) <= limit["failure"]
    THEN [hot |-> pairs, cold |-> chain]
    ELSE LET cut == Len(pairs) - limit["failure"]
             evicted == SubSeq(pairs, 1, cut)
             delta == [s \in Keys(evicted) |-> CountIn(evicted, s)]
             all == Plus(ArchivedCounts(chain), delta)
             snapshot == Depth(chain) >= FailureDepth - 1
             head == [counts |-> IF snapshot THEN all ELSE delta,
                      depth |-> IF snapshot THEN 1 ELSE Depth(chain) + 1,
                      signatures |-> Cardinality(DOMAIN all),
                      events |-> SumOf(all)]
         IN  [hot |-> SubSeq(pairs, cut + 1, Len(pairs)),
              cold |-> IF snapshot THEN <<head>> ELSE Append(chain, head)]

(***************************************************************************)
(* compact_rollback_state, likewise for the rollback entries in order.     *)
(***************************************************************************)

\* Mutant: a snapshot puts the evicted entries before the archived ones.
CompactRollbacksReversed(entries, chain) ==
    IF Len(entries) <= limit["rollback"]
    THEN [hot |-> entries, cold |-> chain]
    ELSE LET cut == Len(entries) - limit["rollback"]
             evicted == SubSeq(entries, 1, cut)
             snapshot == Len(chain) >= RollbackDepth - 1
             head == [entries |-> IF snapshot THEN evicted \o ArchivedEntries(chain)
                                  ELSE evicted,
                      depth |-> IF snapshot THEN 1 ELSE Len(chain) + 1,
                      total |-> cut + Len(ArchivedEntries(chain))]
         IN  [hot |-> SubSeq(entries, cut + 1, Len(entries)),
              cold |-> IF snapshot THEN <<head>> ELSE Append(chain, head)]

\* Mutant: a snapshot counts only the entries it evicts.
CompactRollbacksShort(entries, chain) ==
    IF Len(entries) <= limit["rollback"]
    THEN [hot |-> entries, cold |-> chain]
    ELSE LET cut == Len(entries) - limit["rollback"]
             evicted == SubSeq(entries, 1, cut)
             snapshot == Len(chain) >= RollbackDepth - 1
             head == [entries |-> IF snapshot THEN ArchivedEntries(chain) \o evicted
                                  ELSE evicted,
                      depth |-> IF snapshot THEN 1 ELSE Len(chain) + 1,
                      total |-> IF snapshot THEN cut
                                ELSE cut + Len(ArchivedEntries(chain))]
         IN  [hot |-> SubSeq(entries, cut + 1, Len(entries)),
              cold |-> IF snapshot THEN <<head>> ELSE Append(chain, head)]

CompactRollbacks(entries, chain) ==
    IF Len(entries) <= limit["rollback"]
    THEN [hot |-> entries, cold |-> chain]
    ELSE LET cut == Len(entries) - limit["rollback"]
             evicted == SubSeq(entries, 1, cut)
             snapshot == Len(chain) >= RollbackDepth - 1
             previousTotal == IF chain = <<>> THEN 0 ELSE LastOf(chain).total
             head == [entries |-> IF snapshot THEN ArchivedEntries(chain) \o evicted
                                  ELSE evicted,
                      depth |-> IF snapshot THEN 1 ELSE Len(chain) + 1,
                      total |-> cut + previousTotal]
         IN  [hot |-> SubSeq(entries, cut + 1, Len(entries)),
              cold |-> IF snapshot THEN <<head>> ELSE Append(chain, head)]

Compact(pairs, entries) ==
    LET failures == CompactFailures(pairs, cold)
        history == CompactRollbacks(entries, coldRollbacks)
    IN  /\ hot' = failures.hot
        /\ cold' = failures.cold
        /\ rollbacks' = history.hot
        /\ coldRollbacks' = history.cold

(***************************************************************************)
(* failure_archive_errors and rollback_archive_errors: every node is at    *)
(* its place and carries the totals of the nodes up to it.                 *)
(***************************************************************************)
FailureArchiveValid(chain) ==
    \A i \in DOMAIN chain :
        /\ chain[i].depth = i
        /\ i <= FailureDepth
        /\ \A s \in DOMAIN chain[i].counts : chain[i].counts[s] >= 1
        /\ chain[i].signatures = Cardinality(DOMAIN CountsUpTo(chain, i))
        /\ chain[i].events = SumOf(CountsUpTo(chain, i))

RollbackArchiveValid(chain) ==
    \A i \in DOMAIN chain :
        /\ chain[i].depth = i
        /\ i <= RollbackDepth
        /\ chain[i].entries # <<>>
        /\ chain[i].total = Len(ArchivedEntries(SubSeq(chain, 1, i)))

(***************************************************************************)
(* The commands.                                                           *)
(***************************************************************************)

\* failures.pop(signature)
Without(pairs, s) ==
    IF s \in Keys(pairs)
    THEN RemoveAt(pairs, CHOOSE i \in DOMAIN pairs : pairs[i][1] = s)
    ELSE pairs

\* command_return: the hot count of the root cause moves to the end of the
\* ledger, the entry carries the hot and archived count, then both ledgers are
\* compacted.  An invalid archive chain refuses the command.

ReturnNode(s) ==
    LET archived == IF s \in DOMAIN ArchivedCounts(cold) THEN ArchivedCounts(cold)[s] ELSE 0
        hotCount == CountIn(hot, s) + 1
        entry == <<s, archived + hotCount>>
    IN  /\ Len(ever) < MaxReturns
        /\ FailureArchiveValid(cold)
        /\ Len(rollbacks) >= limit["rollback"] => RollbackArchiveValid(coldRollbacks)
        /\ Compact(Append(Without(hot, s), <<s, hotCount>>), Append(rollbacks, entry))
        /\ ever' = Append(ever, entry)
        /\ UNCHANGED limit

\* command_compact_state.
CompactState ==
    /\ Len(hot) > limit["failure"] => FailureArchiveValid(cold)
    /\ Len(rollbacks) > limit["rollback"] => RollbackArchiveValid(coldRollbacks)
    /\ Compact(hot, rollbacks)
    /\ UNCHANGED <<limit, ever>>

\* agentctl start: from a valid state, a new task begins with empty ledgers.
FreshTask ==
    /\ Len(hot) <= limit["failure"]
    /\ Len(rollbacks) <= limit["rollback"]
    /\ FailureArchiveValid(cold)
    /\ RollbackArchiveValid(coldRollbacks)
    /\ hot' = <<>>
    /\ cold' = <<>>
    /\ rollbacks' = <<>>
    /\ coldRollbacks' = <<>>
    /\ ever' = <<>>
    /\ UNCHANGED limit

\* Someone edits a hot limit in config.json.
EditLimit(name, value) ==
    /\ limit' = [limit EXCEPT ![name] = value]
    /\ UNCHANGED <<hot, cold, rollbacks, coldRollbacks, ever>>

LedgersNext ==
    \/ \E s \in Signatures : ReturnNode(s)
    \/ CompactState
    \/ FreshTask
    \/ \E name \in LimitNames, value \in Limits : EditLimit(name, value)

LedgersSpec == LedgersInit /\ [][LedgersNext]_ledgerVars

(***************************************************************************)
(* Properties.                                                             *)
(***************************************************************************)

\* Whatever is evicted, chained and collapsed, the archives pass their own
\* validators: no sequence of returns, compactions and limit edits leads to the
\* "invalid archive chain" that refuses every later return.
ArchivesValid == FailureArchiveValid(cold) /\ RollbackArchiveValid(coldRollbacks)

\* The archived and the hot rollback entries are every return of the task, once
\* and in order.
HistoryKept == ArchivedEntries(coldRollbacks) \o rollbacks = ever

\* The invariant is inductive as it stands: what an archive must add up to, and that
\* the entries are all there, is all a compaction relies on.
LedgersInv == LedgersTyped /\ ArchivesValid /\ HistoryKept

\* The ledger counts as StrikeLedger does: no compaction makes the third
\* recurrence of a root cause look like an earlier one, and the entry that the
\* escalation binds (the last one) is always hot.
Strikes == INSTANCE StrikeLedger WITH
    counts <- [s \in Signatures |->
                  CountIn(hot, s) + (IF s \in DOMAIN ArchivedCounts(cold)
                                     THEN ArchivedCounts(cold)[s] ELSE 0)],
    last <- IF rollbacks = <<>> THEN NoEntry ELSE LastOf(rollbacks)

StrikeSpec == Strikes!Spec
=============================================================================
