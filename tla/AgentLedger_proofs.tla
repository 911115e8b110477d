--------------------------- MODULE AgentLedger_proofs ---------------------------
(***************************************************************************)
(* Proofs about AgentLedger: every version of the ledger that is on disk,  *)
(* under way or kept to be put back is sound.                              *)
(***************************************************************************)
EXTENDS AgentLedger, TLAPS, SequenceTheorems, FiniteSetTheorems

(***************************************************************************)
(* Versions of the ledger.                                                 *)
(***************************************************************************)
\* The running total adds up.
Counted(l) == l.settled = Cost * Cardinality(Holding(l, "settled"))

\* A version with the same settled reservations and the same running total.
LEMMA SameTotal ==
  ASSUME NEW l, NEW k, Consistent(l), k.settled = l.settled,
         \A a \in Agents : k.res[a] = "settled" <=> l.res[a] = "settled"
  PROVE  Counted(k)
<1>1. Holding(k, "settled") = Holding(l, "settled")
  BY DEF Holding
<1> QED
  BY <1>1 DEF Counted, Consistent

\* A version that differs only in its account and its place in the chain.
LEMMA SameChildren ==
  ASSUME NEW l \in LedgerType, NEW k \in LedgerType, NEW files, Sound(l, files),
         k.prep = l.prep, k.res = l.res, k.member = l.member,
         k.epoch = l.epoch \/ \A a \in Agents : l.member[a] = "none",
         k.empty => Active(k) = {}, Counted(k)
  PROVE  Sound(k, files)
<1>1. Consistent(k)
  BY DEF Sound, Consistent, Counted
<1>2. Marked(k, files)
  BY DEF Sound, Marked, Terminal
<1> QED
  BY <1>1, <1>2 DEF Sound

LEMMA MoreMarkers ==
  ASSUME NEW l, NEW files, NEW more, files \subseteq more, Sound(l, files)
  PROVE  Sound(l, more)
BY DEF Sound, Marked

LEMMA NextVersion ==
  ASSUME TypeOK, NEW l \in LedgerType, NEW files, Sound(l, files)
  PROVE  /\ Version(l) \in LedgerType
         /\ Sound(Version(l), files)
         /\ Advance(l) \in LedgerType
         /\ Sound(Advance(l), files)
<1>1. Version(l) \in LedgerType
  <2>1. l.rev \in Nat /\ ids \in Nat
    BY DEF LedgerType, TypeOK
  <2>2. l.rev + 1 \in Nat /\ ids + 1 \in Nat
    BY <2>1
  <2>3. Version(l) = [[l EXCEPT !.id = ids + 1] EXCEPT !.rev = l.rev + 1]
    BY DEF Version, LedgerType
  <2> QED
    BY <2>2, <2>3 DEF LedgerType
<1>2. Advance(l) \in LedgerType
  BY DEF Advance, LedgerType, TypeOK
<1>3. Active(l) = Active(Version(l)) /\ Active(l) = Active(Advance(l))
  BY DEF Active, Version, Advance, LedgerType
<1>4. l.empty => Active(l) = {}
  BY DEF Sound, Consistent
<1>5. Sound(Version(l), files)
  <2>1. /\ Version(l).prep = l.prep /\ Version(l).res = l.res
        /\ Version(l).member = l.member /\ Version(l).epoch = l.epoch
        /\ Version(l).empty = l.empty
    BY DEF Version, LedgerType
  <2>2. Version(l).settled = l.settled
    BY DEF Version, LedgerType
  <2>3. Counted(Version(l))
    BY <2>1, <2>2, SameTotal DEF Sound
  <2> QED
    BY <1>1, <1>3, <1>4, <2>1, <2>3, SameChildren
<1>6. Sound(Advance(l), files)
  <2>1. /\ Advance(l).prep = l.prep /\ Advance(l).res = l.res
        /\ Advance(l).member = l.member /\ Advance(l).epoch = l.epoch
        /\ Advance(l).empty = l.empty
    BY DEF Advance, LedgerType
  <2>2. Advance(l).settled = l.settled
    BY DEF Advance, LedgerType
  <2>3. Counted(Advance(l))
    BY <2>1, <2>2, SameTotal DEF Sound
  <2> QED
    BY <1>2, <1>3, <1>4, <2>1, <2>3, SameChildren
<1> QED
  BY <1>1, <1>2, <1>5, <1>6

\* What becomes of one child, when it agrees with itself and nothing is said of others.
LEMMA OneChild ==
  ASSUME NEW l \in LedgerType, NEW k \in LedgerType, NEW files, Sound(l, files),
         NEW a \in Agents, k.epoch = l.epoch,
         \A b \in Agents \ {a} : /\ k.prep[b] = l.prep[b]
                                 /\ k.res[b] = l.res[b]
                                 /\ k.member[b] = l.member[b],
         \/ k.prep[a] = "pending" /\ k.res[a] = "reserved" /\ k.member[a] = "none"
         \/ k.prep[a] = "cancelled" /\ k.res[a] = "released" /\ k.member[a] = "none"
         \/ k.prep[a] = "consumed" /\ k.res[a] = "reserved" /\ k.member[a] = "active"
         \/ /\ k.prep[a] = "consumed"
            /\ k.member[a] \in Terminal
            /\ k.res[a] = IF k.member[a] = "lost" THEN "released" ELSE "settled"
            /\ \E m \in files : m.epoch = k.epoch /\ m.agent = a /\ m.status = k.member[a],
         k.empty => l.empty /\ k.member[a] # "active",
         Counted(k)
  PROVE  Sound(k, files)
<1>1. ASSUME NEW b \in Agents
      PROVE  CASE k.prep[b] = "none" -> k.res[b] = "none" /\ k.member[b] = "none"
               [] k.prep[b] = "pending" -> k.res[b] = "reserved" /\ k.member[b] = "none"
               [] k.prep[b] = "cancelled" -> k.res[b] = "released" /\ k.member[b] = "none"
               [] OTHER -> /\ k.member[b] # "none"
                           /\ k.res[b] = CASE k.member[b] = "active" -> "reserved"
                                           [] k.member[b] = "lost" -> "released"
                                           [] OTHER -> "settled"
  <2>1. CASE b = a
    BY <2>1 DEF Terminal
  <2>2. CASE b # a
    BY <2>2 DEF Sound, Consistent
  <2> QED
    BY <2>1, <2>2
<1>2. k.empty => Active(k) = {}
  BY DEF Sound, Consistent, Active
<1>3. Consistent(k)
  BY <1>1, <1>2 DEF Consistent, Counted
<1>4. Marked(k, files)
  BY DEF Sound, Marked, Terminal
<1> QED
  BY <1>3, <1>4 DEF Sound

(***************************************************************************)
(* Putting a step together.                                                *)
(***************************************************************************)
LEMMA Assembled ==
  ASSUME IInv, TypeOK', markers' = markers,
         Sound(ledger', markers),
         \A t \in Slots : op'[t] # None => SoundOperation(t, op'[t]),
         journal' # None => Sound(journal'.before.ledger, markers)
  PROVE  IInv'
BY DEF IInv, SoundOperation, MarkersBy

LEMMA OneOperation ==
  ASSUME IInv, NEW s \in Slots, NEW x \in OperationType \cup {None},
         op' = [op EXCEPT ![s] = x],
         x # None => SoundOperation(s, x)
  PROVE  /\ op' \in [Slots -> OperationType \cup {None}]
         /\ \A t \in Slots : op'[t] # None => SoundOperation(t, op'[t])
<1>1. op \in [Slots -> OperationType \cup {None}]
  BY DEF IInv, TypeOK
<1>2. \A t \in Slots : op'[t] = IF t = s THEN x ELSE op[t]
  BY <1>1
<1> QED
  BY <1>1, <1>2 DEF IInv

\* An operation that begins, from the version it is about to save.
LEMMA Began ==
  ASSUME IInv, NEW s \in Slots, NEW o \in OperationType, Begin(s, o), SoundOperation(s, o)
  PROVE  IInv'
<1>1. /\ op' \in [Slots -> OperationType \cup {None}]
      /\ \A t \in Slots : op'[t] # None => SoundOperation(t, op'[t])
  BY OneOperation DEF Begin
<1>2. TypeOK'
  BY <1>1 DEF IInv, TypeOK, Begin
<1> QED
  BY <1>1, <1>2, Assembled DEF Begin, IInv

LEMMA LoadedVersion == IInv => ledger.id \in Nat
BY DEF IInv, TypeOK, LedgerType

LEMMA Saved ==
  ASSUME IInv, NEW l \in LedgerType, Sound(l, markers), Save(l)
  PROVE  IInv'
<1> DEFINE o == Operation("save", "chain", Version(l))
<1>1. Version(l) \in LedgerType /\ Sound(Version(l), markers)
  BY NextVersion DEF IInv
<1>2. o \in OperationType
  BY <1>1, LoadedVersion DEF Operation, OperationType
<1>3. SoundOperation("agents", o)
  BY <1>1 DEF SoundOperation, Operation, InTransition, MarkersBy
<1> HIDE DEF o
<1> QED
  BY <1>2, <1>3, Began DEF Save, Slots, o

(***************************************************************************)
(* Commands of agentledger.py.                                             *)
(***************************************************************************)
LEMMA PrepareStep ==
  ASSUME IInv, NEW a \in Agents, Prepare(a)
  PROVE  IInv'
<1> DEFINE l == [ledger EXCEPT !.prep[a] = "pending", !.res[a] = "reserved"]
<1>1. ledger \in LedgerType /\ Sound(ledger, markers) /\ ledger.prep[a] = "none" /\ Save(l)
  BY DEF IInv, TypeOK, Prepare
<1>2. ledger.member[a] = "none"
  BY <1>1 DEF Sound, Consistent
<1>3. l \in LedgerType
  BY <1>1 DEF LedgerType, Preparation, Reservation
<1>4. /\ l.epoch = ledger.epoch /\ l.empty = ledger.empty /\ l.member = ledger.member
      /\ l.prep[a] = "pending" /\ l.res[a] = "reserved" /\ l.settled = ledger.settled
      /\ \A b \in Agents \ {a} : l.prep[b] = ledger.prep[b] /\ l.res[b] = ledger.res[b]
  BY <1>1 DEF LedgerType
<1> HIDE DEF l
<1>5. Counted(l)
  <2>1. ledger.res[a] # "settled"
    BY <1>1 DEF Sound, Consistent
  <2> QED
    BY <1>1, <1>4, <2>1, SameTotal DEF Sound
<1>6. Sound(l, markers)
  BY <1>1, <1>2, <1>3, <1>4, <1>5, OneChild
<1> QED
  BY <1>1, <1>3, <1>6, Saved

LEMMA CancelStep ==
  ASSUME IInv, NEW a \in Agents, CancelPrepare(a)
  PROVE  IInv'
<1> DEFINE l == [ledger EXCEPT !.prep[a] = "cancelled", !.res[a] = "released"]
<1>1. ledger \in LedgerType /\ Sound(ledger, markers) /\ ledger.prep[a] = "pending" /\ Save(l)
  BY DEF IInv, TypeOK, CancelPrepare
<1>2. ledger.member[a] = "none"
  BY <1>1 DEF Sound, Consistent
<1>3. l \in LedgerType
  BY <1>1 DEF LedgerType, Preparation, Reservation
<1>4. /\ l.epoch = ledger.epoch /\ l.empty = ledger.empty /\ l.member = ledger.member
      /\ l.prep[a] = "cancelled" /\ l.res[a] = "released" /\ l.settled = ledger.settled
      /\ \A b \in Agents \ {a} : l.prep[b] = ledger.prep[b] /\ l.res[b] = ledger.res[b]
  BY <1>1 DEF LedgerType
<1> HIDE DEF l
<1>5. Counted(l)
  <2>1. ledger.res[a] # "settled"
    BY <1>1 DEF Sound, Consistent
  <2> QED
    BY <1>1, <1>4, <2>1, SameTotal DEF Sound
<1>6. Sound(l, markers)
  BY <1>1, <1>2, <1>3, <1>4, <1>5, OneChild
<1> QED
  BY <1>1, <1>3, <1>6, Saved

LEMMA MemberAppended ==
  ASSUME IInv, NEW a \in Agents, ledger.prep[a] = "pending"
  PROVE  Registered(ledger, a) \in LedgerType /\ Sound(Registered(ledger, a), markers)
<1> DEFINE l == Registered(ledger, a)
<1>1. ledger \in LedgerType /\ Sound(ledger, markers)
  BY DEF IInv, TypeOK
<1>2. ledger.res[a] = "reserved"
  BY <1>1 DEF Sound, Consistent
<1>3. l \in LedgerType
  BY <1>1 DEF LedgerType, Preparation, Member, Registered
<1>4. /\ l.epoch = ledger.epoch /\ l.empty = FALSE /\ l.res = ledger.res
      /\ l.settled = ledger.settled
      /\ l.prep[a] = "consumed" /\ l.member[a] = "active"
      /\ \A b \in Agents \ {a} : l.prep[b] = ledger.prep[b] /\ l.member[b] = ledger.member[b]
  BY <1>1 DEF LedgerType, Registered
<1> HIDE DEF l
<1>5. Counted(l)
  BY <1>1, <1>4, SameTotal DEF Sound
<1>6. Sound(l, markers)
  BY <1>1, <1>2, <1>3, <1>4, <1>5, OneChild
<1> QED
  BY <1>3, <1>6 DEF l

\* An operation that publishes its version in a transition, from its beginning.
LEMMA TransitionBegun ==
  ASSUME IInv, NEW s \in Slots, NEW kind \in {"save"} \cup Chained \cup Appended,
         NEW l \in LedgerType, Sound(l, markers),
         NEW g \in GoalType \cup {None}, kind # "register" => g \in GoalType,
         Begin(s, [Operation(kind, "begin", l) EXCEPT !.goal = g])
  PROVE  IInv'
<1> DEFINE o == [Operation(kind, "begin", l) EXCEPT !.goal = g]
<1>1. /\ o.kind = kind /\ o.phase = "begin" /\ o.next = l /\ o.marker = None
      /\ o.goal = g /\ o.before = None
      /\ o \in OperationType
  BY LoadedVersion DEF Operation, OperationType
<1> HIDE DEF o
<1>2. SoundOperation(s, o)
  BY <1>1 DEF SoundOperation, InTransition, MarkersBy
<1> QED
  BY <1>1, <1>2, Began DEF o

LEMMA RegisterStep ==
  ASSUME IInv, NEW a \in Agents, Register(a)
  PROVE  IInv'
<1> DEFINE l == Version(Registered(ledger, a))
<1>1. Registered(ledger, a) \in LedgerType /\ Sound(Registered(ledger, a), markers)
  BY MemberAppended DEF Register, Registers
<1>2. l \in LedgerType /\ Sound(l, markers)
  BY <1>1, NextVersion DEF IInv
<1>3. Begin("agents", Operation("register", "begin", l))
  BY DEF Register
<1>4. Operation("register", "begin", l) = [Operation("register", "begin", l) EXCEPT !.goal = None]
  BY DEF Operation
<1> HIDE DEF l
<1> QED
  BY <1>2, <1>3, <1>4, TransitionBegun DEF Slots, Chained

LEMMA RedispatchStep ==
  ASSUME IInv, NEW a \in Agents, NEW old \in Agents, Redispatch(old, a)
  PROVE  IInv'
<1> DEFINE r == Registered(ledger, a)
           k == [r EXCEPT !.to[old] = a]
           l == Version(k)
<1>1. r \in LedgerType /\ Sound(r, markers)
  BY MemberAppended DEF Redispatch, Registers
<1>2. /\ k \in LedgerType
      /\ k.prep = r.prep /\ k.res = r.res /\ k.member = r.member
      /\ k.epoch = r.epoch /\ k.empty = r.empty /\ k.settled = r.settled
  <2> HIDE DEF r
  <2> QED
    BY <1>1 DEF LedgerType
<1>3. Sound(k, markers)
  <2>1. k.empty => Active(k) = {}
    BY <1>1, <1>2 DEF Sound, Consistent, Active
  <2> HIDE DEF r, k
  <2>2. Counted(k)
    BY <1>1, <1>2, SameTotal DEF Sound
  <2> QED
    BY <1>1, <1>2, <2>1, <2>2, SameChildren
<1>4. l \in LedgerType /\ Sound(l, markers)
  <2> HIDE DEF r, k
  <2> QED
    BY <1>2, <1>3, NextVersion DEF IInv
<1>5. Begin("agents", Operation("register", "begin", l))
  BY DEF Redispatch
<1>6. Operation("register", "begin", l) = [Operation("register", "begin", l) EXCEPT !.goal = None]
  BY DEF Operation
<1> HIDE DEF l
<1> QED
  BY <1>4, <1>5, <1>6, TransitionBegun DEF Slots, Chained

LEMMA CheckStep ==
  ASSUME IInv, Check
  PROVE  IInv'
<1> DEFINE agree == Running(snap.view) = Active(ledger)
           k == [ledger EXCEPT !.empty = (Active(ledger) = {})]
           l == IF agree THEN k ELSE ledger
<1>1. ledger \in LedgerType /\ Sound(ledger, markers) /\ Save(l)
  BY DEF IInv, TypeOK, Check
<1>2. /\ k \in LedgerType /\ k.prep = ledger.prep /\ k.res = ledger.res
      /\ k.member = ledger.member /\ k.epoch = ledger.epoch /\ k.settled = ledger.settled
      /\ k.empty = (Active(ledger) = {})
  BY <1>1 DEF LedgerType
<1>3. k.empty => Active(k) = {}
  BY <1>2 DEF Active
<1> HIDE DEF k, agree
<1>4. Counted(k)
  BY <1>1, <1>2, SameTotal DEF Sound
<1>5. Sound(k, markers)
  BY <1>1, <1>2, <1>3, <1>4, SameChildren
<1> QED
  BY <1>1, <1>2, <1>5, Saved

LEMMA FinishStep ==
  ASSUME IInv, NEW a \in Agents, NEW status \in Terminal, Finish(a, status)
  PROVE  IInv'
<1> DEFINE marker == Marker(ledger, a, status)
           k == Outcome(ledger, a, status)
           l == Version(k)
           o == [Operation("save", "marker", l) EXCEPT !.marker = marker]
           more == markers \cup {marker}
<1>1. /\ ledger \in LedgerType /\ Sound(ledger, markers) /\ ledger.member[a] = "active"
      /\ MarkersOf(ledger, a) \subseteq {marker} /\ Begin("agents", o)
  BY DEF IInv, TypeOK, Finish
<1>2. marker \in MarkerType /\ marker.epoch = ledger.epoch /\ marker.agent = a /\ marker.status = status
  BY <1>1 DEF IInv, TypeOK, Marker, MarkerType, LedgerType
<1>3. ledger.prep[a] = "consumed"
  BY <1>1 DEF Sound, Consistent, LedgerType, Preparation
<1>4. ledger.settled + Cost \in Nat
  BY <1>1, LedgerAssumption DEF LedgerType
<1>5. /\ k \in LedgerType /\ k.prep = ledger.prep /\ k.epoch = ledger.epoch /\ k.empty = FALSE
      /\ k.member[a] = status
      /\ k.res[a] = IF status = "lost" THEN "released" ELSE "settled"
      /\ \A b \in Agents \ {a} : k.member[b] = ledger.member[b] /\ k.res[b] = ledger.res[b]
      /\ k.settled = IF status = "lost" THEN ledger.settled ELSE ledger.settled + Cost
  BY <1>1, <1>4 DEF Outcome, LedgerType, Reservation, Member
<1> HIDE DEF k, marker
<1>6. Sound(k, more)
  <2>1. Sound(ledger, more)
    BY <1>1, MoreMarkers
  <2>2. \E m \in more : m.epoch = k.epoch /\ m.agent = a /\ m.status = k.member[a]
    BY <1>2, <1>5
  <2>3. Counted(k)
    <3>1. ledger.res[a] = "reserved" /\ Consistent(ledger)
      BY <1>1, <1>3 DEF Sound, Consistent
    <3>2. CASE status = "lost"
      BY <1>5, <3>1, <3>2, SameTotal
    <3>3. CASE status # "lost"
      <4>1. Holding(k, "settled") = Holding(ledger, "settled") \cup {a} /\ a \notin Holding(ledger, "settled")
        BY <1>5, <3>1, <3>3 DEF Holding
      <4>2. IsFiniteSet(Holding(ledger, "settled"))
        BY LedgerAssumption, FS_Subset DEF Holding
      <4>3. /\ Cardinality(Holding(k, "settled")) = Cardinality(Holding(ledger, "settled")) + 1
            /\ Cardinality(Holding(ledger, "settled")) \in Nat
        BY <4>1, <4>2, FS_AddElement, FS_CardinalityType
      <4>4. \A c \in Nat : Cost * (c + 1) = Cost * c + Cost
        BY LedgerAssumption
      <4> QED
        BY <1>5, <3>1, <3>3, <4>3, <4>4 DEF Counted, Consistent
    <3> QED
      BY <3>2, <3>3
  <2> HIDE DEF more
  <2> QED
    BY <1>1, <1>3, <1>5, <2>1, <2>2, <2>3, OneChild
<1>7. l \in LedgerType /\ Sound(l, more)
  <2> HIDE DEF more
  <2> QED
    BY <1>5, <1>6, NextVersion DEF IInv
<1> HIDE DEF l
<1>8. /\ o.kind = "save" /\ o.phase = "marker" /\ o.next = l /\ o.marker = marker
      /\ o \in OperationType
  BY <1>2, <1>7, LoadedVersion DEF Operation, OperationType
<1> HIDE DEF o
<1>9. \A m \in markers : m.epoch = marker.epoch /\ m.agent = marker.agent => m = marker
  BY <1>1, <1>2 DEF MarkersOf
<1>10. SoundOperation("agents", o)
  BY <1>2, <1>7, <1>8, <1>9 DEF SoundOperation, MarkersBy, InTransition
<1> QED
  BY <1>1, <1>8, <1>10, Began DEF Slots

LEMMA BudgetsAreNaturals == \A mode \in Modes : Budget[mode] \in Nat
BY LedgerAssumption, ElementOfSeq, LenProperties DEF Modes

LEMMA NothingSettled ==
  ASSUME NEW l, l.settled = 0, \A a \in Agents : l.res[a] # "settled"
  PROVE  Counted(l)
<1>1. Holding(l, "settled") = {}
  BY DEF Holding
<1>2. Cardinality({}) = 0 /\ Cost * 0 = 0
  BY FS_EmptySet, LedgerAssumption
<1> QED
  BY <1>1, <1>2 DEF Counted

LEMMA FreshVersion ==
  ASSUME NEW mode \in Modes, NEW empty \in BOOLEAN, NEW n \in Nat, NEW files
  PROVE  LET l == [Fresh(mode, empty) EXCEPT !.id = n, !.epoch = n]
         IN  /\ l \in LedgerType
             /\ Sound(l, files)
             /\ Fresh(mode, empty) \in LedgerType
             /\ Sound(Fresh(mode, empty), files)
<1> DEFINE f == Fresh(mode, empty)
           l == [f EXCEPT !.id = n, !.epoch = n]
<1>1. f \in LedgerType
  BY BudgetsAreNaturals DEF Fresh, LedgerType, Preparation, Reservation, Member
<1>2. /\ \A a \in Agents : f.prep[a] = "none" /\ f.res[a] = "none" /\ f.member[a] = "none"
      /\ Active(f) = {} /\ f.settled = 0
  BY DEF Fresh, Active
<1>3. Sound(f, files)
  <2>1. Counted(f)
    BY <1>2, NothingSettled
  <2> QED
    BY <1>2, <2>1 DEF Sound, Consistent, Marked, Terminal, Counted
<1> HIDE DEF f
<1>4. /\ l \in LedgerType /\ l.prep = f.prep /\ l.res = f.res /\ l.member = f.member
      /\ Active(l) = {} /\ l.settled = f.settled
  BY <1>1, <1>2 DEF LedgerType, Active
<1> HIDE DEF l
<1>5. Sound(l, files)
  <2>1. Counted(l)
    BY <1>3, <1>4, SameTotal DEF Sound
  <2> QED
    BY <1>1, <1>2, <1>3, <1>4, <2>1, SameChildren
<1> QED
  BY <1>1, <1>3, <1>4, <1>5 DEF f, l

LEMMA InitLedgerStep ==
  ASSUME IInv, InitLedger
  PROVE  IInv'
<1> DEFINE l == [Fresh(task.mode, TRUE) EXCEPT !.id = ids + 1, !.epoch = ids + 1]
           o == Operation("save", "chain", l)
<1>1. task.mode \in Modes /\ ids + 1 \in Nat /\ Begin("agents", o)
  BY DEF IInv, TypeOK, TaskType, InitLedger
<1>2. l \in LedgerType /\ Sound(l, markers)
  BY <1>1, FreshVersion
<1> HIDE DEF l
<1>3. o \in OperationType
  BY <1>2, LoadedVersion DEF Operation, OperationType
<1>4. SoundOperation("agents", o)
  BY <1>2 DEF SoundOperation, Operation, InTransition, MarkersBy
<1> HIDE DEF o
<1> QED
  BY <1>1, <1>3, <1>4, Began DEF Slots

LEMMA StartStep ==
  ASSUME IInv, NEW mode \in Modes, StartTask(mode)
  PROVE  IInv'
<1> DEFINE v == Version(ledger)
           k == [v EXCEPT !.epoch = ids + 1, !.budget = Budget[mode], !.settled = 0, !.empty = FALSE]
           l == Advance(k)
           to == [gen |-> task.gen + 1, mode |-> mode, used |-> 0, open |-> TRUE]
           g == [from |-> task, to |-> to]
<1>1. /\ ledger \in LedgerType /\ Sound(ledger, markers) /\ TypeOK
      /\ \A a \in Agents : ledger.prep[a] = "none"
      /\ Begin("agents", [Operation("start", "begin", l) EXCEPT !.goal = g])
  BY DEF IInv, TypeOK, StartTask, Untouched
<1>2. \A a \in Agents : ledger.member[a] = "none" /\ ledger.res[a] = "none"
  BY <1>1 DEF Sound, Consistent
<1>3. v \in LedgerType /\ Sound(v, markers) /\ v.member = ledger.member /\ v.res = ledger.res
  <2>1. v.member = ledger.member /\ v.res = ledger.res
    BY <1>1 DEF Version, LedgerType
  <2> QED
    BY <1>1, <2>1, NextVersion
<1> HIDE DEF v
<1>4. Budget[mode] \in Nat /\ ids + 1 \in Nat
  BY <1>1, BudgetsAreNaturals DEF TypeOK
<1>5. /\ k \in LedgerType /\ k.prep = v.prep /\ k.res = v.res /\ k.member = v.member
      /\ k.empty = FALSE /\ k.settled = 0
  BY <1>3, <1>4 DEF LedgerType
<1> HIDE DEF k
<1>6. Sound(k, markers)
  <2>1. Counted(k)
    BY <1>2, <1>3, <1>5, NothingSettled
  <2> QED
    BY <1>2, <1>3, <1>5, <2>1, SameChildren
<1>7. l \in LedgerType /\ Sound(l, markers)
  BY <1>1, <1>5, <1>6, NextVersion
<1>8. g \in GoalType
  BY <1>1 DEF TypeOK, TaskType, GoalType
<1> HIDE DEF l, g
<1> QED
  BY <1>1, <1>7, <1>8, TransitionBegun DEF Slots, Appended

LEMMA CompleteStep ==
  ASSUME IInv, CompleteTask
  PROVE  IInv'
<1> DEFINE l == Version(ledger)
           g == [from |-> task, to |-> [task EXCEPT !.open = FALSE]]
<1>1. ledger \in LedgerType /\ Sound(ledger, markers) /\ TypeOK
      /\ Begin("agents", [Operation("complete", "begin", l) EXCEPT !.goal = g])
  BY DEF IInv, TypeOK, CompleteTask
<1>2. l \in LedgerType /\ Sound(l, markers)
  BY <1>1, NextVersion
<1>3. g \in GoalType
  BY <1>1 DEF TypeOK, TaskType, GoalType
<1> HIDE DEF l, g
<1> QED
  BY <1>1, <1>2, <1>3, TransitionBegun DEF Slots, Chained

LEMMA EscalateStep ==
  ASSUME IInv, NEW mode \in Modes, Escalate(mode)
  PROVE  IInv'
<1> DEFINE v == Version(ledger)
           k == [v EXCEPT !.budget = Budget[mode]]
           l == Advance(k)
           g == [from |-> task, to |-> [task EXCEPT !.mode = mode]]
<1>1. ledger \in LedgerType /\ Sound(ledger, markers) /\ TypeOK
      /\ Begin("escalate", [Operation("escalate", "begin", l) EXCEPT !.goal = g])
  BY DEF IInv, TypeOK, Escalate
<1>2. v \in LedgerType /\ Sound(v, markers)
  BY <1>1, NextVersion
<1> HIDE DEF v
<1>3. /\ k \in LedgerType /\ k.prep = v.prep /\ k.res = v.res /\ k.member = v.member
      /\ k.epoch = v.epoch /\ k.empty = v.empty /\ k.settled = v.settled
  BY <1>2, BudgetsAreNaturals DEF LedgerType
<1>4. k.empty => Active(k) = {}
  BY <1>2, <1>3 DEF Sound, Consistent, Active
<1> HIDE DEF k
<1>5. Sound(k, markers)
  <2>1. Counted(k)
    BY <1>2, <1>3, SameTotal DEF Sound
  <2> QED
    BY <1>2, <1>3, <1>4, <2>1, SameChildren
<1>6. l \in LedgerType /\ Sound(l, markers)
  BY <1>1, <1>3, <1>5, NextVersion
<1>7. g \in GoalType
  BY <1>1 DEF TypeOK, TaskType, GoalType
<1> HIDE DEF l, g
<1> QED
  BY <1>1, <1>6, <1>7, TransitionBegun DEF Slots, Appended

(***************************************************************************)
(* The steps of a save.                                                    *)
(***************************************************************************)
LEMMA Underway ==
  ASSUME IInv, NEW s \in Slots, op[s] # None
  PROVE  op[s] \in OperationType /\ SoundOperation(s, op[s])
BY DEF IInv, TypeOK

\* The next phase of an operation that owes nothing more for it.
LEMMA NextPhase ==
  ASSUME IInv, NEW s \in Slots, op[s] # None, op[s].phase # "marker",
         NEW phase \in {"chain", "tip"} \cup InTransition,
         phase \in InTransition => op[s].phase \in InTransition,
         Goto(s, phase)
  PROVE  /\ op' \in [Slots -> OperationType \cup {None}]
         /\ \A t \in Slots : op'[t] # None => SoundOperation(t, op'[t])
<1> DEFINE x == [op[s] EXCEPT !.phase = phase]
<1>1. op[s] \in OperationType /\ SoundOperation(s, op[s])
  BY Underway
<1>2. /\ x \in OperationType /\ x.phase = phase /\ x.next = op[s].next
      /\ x.before = op[s].before /\ x.goal = op[s].goal /\ x.kind = op[s].kind
  BY <1>1 DEF OperationType, InTransition
<1>3. op' = [op EXCEPT ![s] = x]
  BY DEF Goto, IInv, TypeOK
<1> HIDE DEF x
<1>4. SoundOperation(s, x)
  BY <1>1, <1>2 DEF SoundOperation, MarkersBy, InTransition
<1> QED
  BY <1>2, <1>3, <1>4, OneOperation

LEMMA Ended ==
  ASSUME IInv, NEW s \in Slots, Done(s)
  PROVE  /\ op' \in [Slots -> OperationType \cup {None}]
         /\ \A t \in Slots : op'[t] # None => SoundOperation(t, op'[t])
BY OneOperation DEF Done

LEMMA Acknowledged ==
  ASSUME TypeOK, NEW s, NEW l \in LedgerType, Acknowledge(s, l)
  PROVE  acked' \subseteq [id : Nat, epoch : Nat, charged : SUBSET Agents, locked : BOOLEAN]
<1>1. [id |-> l.id, epoch |-> l.epoch, charged |-> Holding(l, "settled"), locked |-> s = "agents"]
         \in [id : Nat, epoch : Nat, charged : SUBSET Agents, locked : BOOLEAN]
  BY DEF LedgerType, Holding
<1> QED
  BY <1>1 DEF Acknowledge, TypeOK

LEMMA EntryTyped == \A l \in LedgerType : Entry(l) \in EntryType
BY DEF Entry, EntryType, LedgerType

LEMMA PublishStep ==
  ASSUME IInv, PublishMarker
  PROVE  IInv'
<1> DEFINE s == "agents"
           m0 == op[s].marker
           x == [op[s] EXCEPT !.phase = "chain"]
           more == markers \cup {m0}
<1>1. s \in Slots /\ op[s] # None /\ op[s].phase = "marker" /\ markers' = more
  BY DEF PublishMarker, At, Slots
<1>2. op[s] \in OperationType /\ SoundOperation(s, op[s]) /\ m0 \in MarkerType
      /\ Sound(op[s].next, more)
      /\ \A m \in markers : m.epoch = m0.epoch /\ m.agent = m0.agent => m = m0
  BY <1>1, Underway DEF SoundOperation, MarkersBy
<1>3. /\ x \in OperationType /\ x.phase = "chain" /\ x.next = op[s].next
  BY <1>2 DEF OperationType
<1>4. op' = [op EXCEPT ![s] = x] /\ \A t \in Slots : op'[t] = IF t = s THEN x ELSE op[t]
  BY <1>1 DEF PublishMarker, Goto, IInv, TypeOK
<1>5. TypeOK'
  BY <1>1, <1>2, <1>3, <1>4 DEF PublishMarker, IInv, TypeOK
<1>6. \A m, n \in more : m.epoch = n.epoch /\ m.agent = n.agent => m = n
  BY <1>2 DEF IInv
<1> HIDE DEF x, m0
<1>7. markers \subseteq more
  OBVIOUS
<1>8. ASSUME NEW t \in Slots, op'[t] # None PROVE SoundOperation(t, op[t])'
  <2>1. CASE t = s
    <3>1. op'[t] = x
      BY <1>4, <2>1
    <3> QED
      BY <1>1, <1>2, <1>3, <3>1 DEF SoundOperation, MarkersBy, InTransition
  <2>2. CASE t # s
    <3>1. op'[t] = op[t] /\ SoundOperation(t, op[t])
      BY <1>4, <1>8, <2>2, Underway
    <3>2. op[t].phase # "marker"
      BY <2>2, <3>1 DEF SoundOperation
    <3> HIDE DEF more
    <3>3. Sound(op[t].next, more)
      BY <1>7, <3>1, <3>2, MoreMarkers DEF SoundOperation, MarkersBy
    <3>4. op[t].phase \in {"state"} \cup InTransition => Sound(op[t].before.ledger, more)
      BY <1>7, <3>1, MoreMarkers DEF SoundOperation
    <3> QED
      BY <1>1, <3>1, <3>2, <3>3, <3>4 DEF SoundOperation, MarkersBy
  <2> QED
    BY <2>1, <2>2
<1> HIDE DEF more
<1>9. Sound(ledger, more) /\ (journal # None => Sound(journal.before.ledger, more))
  BY <1>7, MoreMarkers DEF IInv
<1>10. ledger' = ledger /\ journal' = journal
  BY DEF PublishMarker
<1> QED
  BY <1>1, <1>5, <1>6, <1>8, <1>9, <1>10 DEF IInv

LEMMA TipStep ==
  ASSUME IInv, WriteTip
  PROVE  IInv'
<1> DEFINE s == "agents"
           next == Advance(op[s].next)
           x == [op[s] EXCEPT !.phase = "state", !.next = next, !.before = Files]
<1>1. s \in Slots /\ op[s] # None /\ op[s].phase = "chain"
      /\ op' = [op EXCEPT ![s] = x] /\ chain' = Append(chain, Entry(next))
  BY DEF WriteTip, At, Slots
<1>2. op[s] \in OperationType /\ Sound(op[s].next, markers) /\ op[s].next \in LedgerType
  BY <1>1, Underway DEF SoundOperation, MarkersBy, OperationType
<1>3. next \in LedgerType /\ Sound(next, markers)
  BY <1>2, NextVersion DEF IInv
<1>4. Files \in FilesType /\ Files.ledger = ledger
  BY DEF Files, FilesType, IInv, TypeOK
<1>5. /\ x \in OperationType /\ x.phase = "state" /\ x.next = next /\ x.before = Files
  <2> HIDE DEF next
  <2> QED
    BY <1>2, <1>3, <1>4 DEF OperationType
<1> HIDE DEF x
<1>6. SoundOperation(s, x)
  BY <1>3, <1>4, <1>5 DEF SoundOperation, MarkersBy, InTransition, IInv
<1>7. /\ op' \in [Slots -> OperationType \cup {None}]
      /\ \A t \in Slots : op'[t] # None => SoundOperation(t, op'[t])
  BY <1>1, <1>5, <1>6, OneOperation
<1>8. chain' \in Seq(EntryType)
  BY <1>1, <1>3, EntryTyped, AppendProperties DEF IInv, TypeOK
<1>9. TypeOK'
  BY <1>7, <1>8 DEF WriteTip, IInv, TypeOK
<1> QED
  BY <1>7, <1>9, Assembled DEF WriteTip, IInv

LEMMA WriteStep ==
  ASSUME IInv, WriteState
  PROVE  IInv'
<1> DEFINE s == "agents"
<1>1. s \in Slots /\ op[s] # None /\ op[s].phase = "state"
  BY DEF WriteState, At, Slots
<1>2. Sound(op[s].next, markers) /\ op[s].next \in LedgerType
  BY <1>1, Underway DEF SoundOperation, MarkersBy, OperationType
<1>3. /\ op' \in [Slots -> OperationType \cup {None}]
      /\ \A t \in Slots : op'[t] # None => SoundOperation(t, op'[t])
  BY <1>1, Ended DEF WriteState
<1>4. acked' \subseteq [id : Nat, epoch : Nat, charged : SUBSET Agents, locked : BOOLEAN]
  BY <1>2, Acknowledged DEF WriteState, IInv
<1>5. TypeOK'
  BY <1>2, <1>3, <1>4 DEF WriteState, IInv, TypeOK
<1> QED
  BY <1>2, <1>3, <1>5, Assembled DEF WriteState, IInv

LEMMA SaveFailsStep ==
  ASSUME IInv, SaveFails
  PROVE  IInv'
<1> DEFINE s == "agents"
<1>1. s \in Slots /\ op[s] # None /\ op[s].phase = "state"
  BY DEF SaveFails, At, Slots
<1>2. op[s].before.chain \in Seq(EntryType)
  BY <1>1, Underway DEF SoundOperation, FilesType
<1>3. /\ op' \in [Slots -> OperationType \cup {None}]
      /\ \A t \in Slots : op'[t] # None => SoundOperation(t, op'[t])
  BY <1>1, Ended DEF SaveFails
<1>4. reverted' \subseteq {"written", "read"}
  BY DEF SaveFails, IInv, TypeOK
<1>5. TypeOK'
  BY <1>2, <1>3, <1>4 DEF SaveFails, Fault, IInv, TypeOK
<1> QED
  BY <1>3, <1>5, Assembled DEF SaveFails, IInv

(***************************************************************************)
(* The steps of a transition.                                              *)
(***************************************************************************)
LEMMA TransitionStarts ==
  ASSUME IInv, NEW s \in Slots, BeginTransition(s)
  PROVE  IInv'
<1> DEFINE o == op[s]
           next == IF o.kind \in Chained THEN Advance(o.next) ELSE o.next
           goal == IF o.kind = "register"
                   THEN [from |-> task, to |-> [task EXCEPT !.used = @ + 1]] ELSE o.goal
           x == [o EXCEPT !.phase = "ledger", !.next = next, !.goal = goal, !.before = Files]
           j == [before |-> Files, chained |-> o.kind \in Chained,
                 after |-> [ledger |-> next, chain |-> Append(chain, Entry(next)),
                            task |-> goal.to]]
<1>1. op[s] # None /\ o.phase = "begin" /\ op' = [op EXCEPT ![s] = x] /\ journal' = j
  BY DEF BeginTransition, At
<1>2. /\ o \in OperationType /\ o.next \in LedgerType /\ Sound(o.next, markers)
      /\ o.kind # "register" => o.goal \in GoalType
  <2>1. o \in OperationType /\ SoundOperation(s, o)
    BY <1>1, Underway
  <2> HIDE DEF o
  <2> QED
    BY <1>1, <2>1 DEF SoundOperation, MarkersBy, OperationType
<1> HIDE DEF o
<1>3. next \in LedgerType /\ Sound(next, markers)
  BY <1>2, NextVersion DEF IInv
<1> HIDE DEF next
<1>4. goal \in GoalType
  <2>1. task \in TaskType /\ task.used + 1 \in Nat
    BY DEF IInv, TypeOK, TaskType
  <2>2. [task EXCEPT !.used = @ + 1] \in TaskType
    BY <2>1 DEF TaskType
  <2> QED
    BY <1>2, <2>1, <2>2 DEF GoalType
<1> HIDE DEF goal
<1>5. Files \in FilesType /\ Files.ledger = ledger
  BY DEF Files, FilesType, IInv, TypeOK
<1>6. /\ x \in OperationType /\ x.phase = "ledger" /\ x.next = next /\ x.before = Files
      /\ x.goal = goal
  BY <1>2, <1>3, <1>4, <1>5 DEF OperationType, InTransition
<1> HIDE DEF x
<1>7. SoundOperation(s, x)
  BY <1>3, <1>4, <1>5, <1>6 DEF SoundOperation, MarkersBy, InTransition, IInv
<1>8. /\ op' \in [Slots -> OperationType \cup {None}]
      /\ \A t \in Slots : op'[t] # None => SoundOperation(t, op'[t])
  BY <1>1, <1>6, <1>7, OneOperation
<1>9. j \in JournalType /\ j.before = Files
  <2>1. Append(chain, Entry(next)) \in Seq(EntryType)
    BY <1>3, EntryTyped, AppendProperties DEF IInv, TypeOK
  <2> QED
    BY <1>3, <1>4, <1>5, <2>1 DEF JournalType, GoalType
<1> HIDE DEF j
<1>10. TypeOK'
  BY <1>1, <1>8, <1>9 DEF BeginTransition, IInv, TypeOK
<1> QED
  BY <1>1, <1>5, <1>8, <1>9, <1>10, Assembled DEF BeginTransition, IInv

LEMMA LedgerStored ==
  ASSUME IInv, NEW s \in Slots, StoreLedger(s)
  PROVE  IInv'
<1>1. op[s] # None /\ op[s].phase = "ledger"
  BY DEF StoreLedger, At
<1>2. op[s].next \in LedgerType /\ Sound(op[s].next, markers)
  BY <1>1, Underway DEF SoundOperation, MarkersBy, OperationType
<1>3. /\ op' \in [Slots -> OperationType \cup {None}]
      /\ \A t \in Slots : op'[t] # None => SoundOperation(t, op'[t])
  <2>1. PICK phase \in {"chained", "task"} : Goto(s, phase)
    BY DEF StoreLedger
  <2> QED
    BY <1>1, <2>1, NextPhase DEF InTransition
<1>4. TypeOK'
  BY <1>2, <1>3 DEF StoreLedger, IInv, TypeOK
<1> QED
  BY <1>2, <1>3, <1>4, Assembled DEF StoreLedger, IInv

LEMMA ChainStored ==
  ASSUME IInv, NEW s \in Slots, StoreChain(s)
  PROVE  IInv'
<1>1. op[s] # None /\ op[s].phase = "chained" /\ Goto(s, "task")
  BY DEF StoreChain, At
<1>2. op[s].next \in LedgerType /\ op[s].before.chain \in Seq(EntryType)
  BY <1>1, Underway DEF SoundOperation, OperationType, FilesType, InTransition
<1>3. /\ op' \in [Slots -> OperationType \cup {None}]
      /\ \A t \in Slots : op'[t] # None => SoundOperation(t, op'[t])
  BY <1>1, NextPhase DEF InTransition
<1>4. chain' \in Seq(EntryType)
  BY <1>2, EntryTyped, AppendProperties DEF StoreChain
<1>5. TypeOK'
  BY <1>3, <1>4 DEF StoreChain, IInv, TypeOK
<1> QED
  BY <1>3, <1>5, Assembled DEF StoreChain, IInv

LEMMA TaskStored ==
  ASSUME IInv, NEW s \in Slots, StoreTask(s)
  PROVE  IInv'
<1>1. op[s] # None /\ op[s].phase = "task" /\ Goto(s, "context")
  BY DEF StoreTask, At
<1>2. op[s].goal.to \in TaskType
  BY <1>1, Underway DEF SoundOperation, GoalType, InTransition
<1>3. /\ op' \in [Slots -> OperationType \cup {None}]
      /\ \A t \in Slots : op'[t] # None => SoundOperation(t, op'[t])
  BY <1>1, NextPhase DEF InTransition
<1>4. TypeOK'
  BY <1>2, <1>3 DEF StoreTask, IInv, TypeOK
<1> QED
  BY <1>3, <1>4, Assembled DEF StoreTask, IInv

LEMMA ContextBound ==
  ASSUME IInv, NEW s \in Slots, BindContext(s)
  PROVE  IInv'
<1>1. op[s] # None /\ op[s].phase = "context" /\ Goto(s, "clean")
  BY DEF BindContext, At
<1>2. op[s].next.id \in Nat
  BY <1>1, Underway DEF OperationType, LedgerType
<1>3. /\ op' \in [Slots -> OperationType \cup {None}]
      /\ \A t \in Slots : op'[t] # None => SoundOperation(t, op'[t])
  BY <1>1, NextPhase DEF InTransition
<1>4. TypeOK'
  BY <1>2, <1>3 DEF BindContext, IInv, TypeOK
<1> QED
  BY <1>3, <1>4, Assembled DEF BindContext, IInv

LEMMA JournalCleaned ==
  ASSUME IInv, NEW s \in Slots, CleanJournal(s)
  PROVE  IInv'
<1>1. op[s] # None /\ op[s].phase = "clean" /\ journal' = None
  BY DEF CleanJournal, At
<1>2. op[s].next \in LedgerType
  BY <1>1, Underway DEF OperationType
<1>3. /\ op' \in [Slots -> OperationType \cup {None}]
      /\ \A t \in Slots : op'[t] # None => SoundOperation(t, op'[t])
  <2>1. CASE Goto(s, "tip")
    BY <1>1, <2>1, NextPhase DEF InTransition
  <2>2. CASE Done(s)
    BY <2>2, Ended
  <2> QED
    BY <2>1, <2>2 DEF CleanJournal
<1>4. acked' \subseteq [id : Nat, epoch : Nat, charged : SUBSET Agents, locked : BOOLEAN]
  <2>1. CASE UNCHANGED acked
    BY <2>1 DEF IInv, TypeOK
  <2>2. CASE Acknowledge(s, op[s].next)
    BY <1>2, <2>2, Acknowledged DEF IInv
  <2> QED
    BY <2>1, <2>2 DEF CleanJournal
<1>5. TypeOK'
  BY <1>1, <1>3, <1>4 DEF CleanJournal, IInv, TypeOK
<1> QED
  BY <1>1, <1>3, <1>5, Assembled DEF CleanJournal, IInv

LEMMA TipAppended ==
  ASSUME IInv, NEW s \in Slots, AppendTip(s)
  PROVE  IInv'
<1>1. op[s] # None /\ Done(s) /\ Acknowledge(s, op[s].next)
  BY DEF AppendTip, At
<1>2. op[s].next \in LedgerType
  BY <1>1, Underway DEF OperationType
<1>3. /\ op' \in [Slots -> OperationType \cup {None}]
      /\ \A t \in Slots : op'[t] # None => SoundOperation(t, op'[t])
  BY <1>1, Ended
<1>4. acked' \subseteq [id : Nat, epoch : Nat, charged : SUBSET Agents, locked : BOOLEAN]
  BY <1>1, <1>2, Acknowledged DEF IInv
<1>5. chain' \in Seq(EntryType)
  BY <1>2, EntryTyped, AppendProperties DEF AppendTip, IInv, TypeOK
<1>6. TypeOK'
  BY <1>3, <1>4, <1>5 DEF AppendTip, IInv, TypeOK
<1> QED
  BY <1>3, <1>6, Assembled DEF AppendTip, IInv

LEMMA RolledBack ==
  ASSUME IInv, NEW s \in Slots, Rollback(s)
  PROVE  IInv'
<1>1. op[s] # None /\ op[s].phase \in InTransition /\ Done(s) /\ journal' = None
  BY DEF Rollback, PutBack
<1>2. op[s].before \in FilesType /\ Sound(op[s].before.ledger, markers)
  BY <1>1, Underway DEF SoundOperation
<1>3. /\ op' \in [Slots -> OperationType \cup {None}]
      /\ \A t \in Slots : op'[t] # None => SoundOperation(t, op'[t])
  BY <1>1, Ended
<1>4. reverted' \subseteq {"written", "read"}
  BY DEF Undone, Rollback, IInv, TypeOK
<1>5. TypeOK'
  BY <1>2, <1>3, <1>4 DEF Rollback, Fault, PutBack, FilesType, IInv, TypeOK
<1> QED
  BY <1>1, <1>2, <1>3, <1>5, Assembled DEF Rollback, PutBack

LEMMA Died ==
  ASSUME IInv, NEW s \in Slots, Crash(s)
  PROVE  IInv'
<1>1. /\ op' \in [Slots -> OperationType \cup {None}]
      /\ \A t \in Slots : op'[t] # None => SoundOperation(t, op'[t])
  BY Ended DEF Crash
<1>2. TypeOK'
  BY <1>1 DEF Crash, Fault, IInv, TypeOK
<1> QED
  BY <1>1, <1>2, Assembled DEF Crash, IInv

LEMMA Restored ==
  ASSUME IInv, Restore
  PROVE  IInv'
<1>1. journal.before \in FilesType /\ Sound(journal.before.ledger, markers) /\ journal' = None
  BY DEF Restore, PutBack, IInv, TypeOK, JournalType
<1>2. reverted' \subseteq {"written", "read"}
  BY DEF Undone, Restore, IInv, TypeOK
<1>3. TypeOK'
  BY <1>1, <1>2 DEF Restore, PutBack, FilesType, IInv, TypeOK
<1> QED
  BY <1>1, <1>3, Assembled DEF Restore, PutBack, IInv

LEMMA Discarded ==
  ASSUME IInv, Discard
  PROVE  IInv'
<1>1. TypeOK'
  BY DEF Discard, IInv, TypeOK
<1> QED
  BY <1>1, Assembled DEF Discard, IInv

LEMMA Observed ==
  ASSUME IInv, Observe
  PROVE  IInv'
<1> DEFINE Shown == [status : {"absent", "running", "ended"}, epoch : Nat]
<1>1. snap \in [n : Nat, view : [Agents -> Shown]] /\ ledger.epoch \in Nat
  BY DEF IInv, TypeOK, LedgerType
<1>2. ASSUME NEW a \in Agents, NEW child \in Outlook(a) PROVE child \in Shown
  BY <1>1, <1>2 DEF Outlook, Child
<1>3. snap' \in [n : Nat, view : [Agents -> Shown]]
  BY <1>1, <1>2 DEF Observe
<1>4. TypeOK'
  BY <1>3 DEF Observe, IInv, TypeOK
<1> QED
  BY <1>4, Assembled DEF Observe, IInv

(***************************************************************************)
(* The invariant.                                                          *)
(***************************************************************************)
LEMMA Initially == Init => IInv
<1> SUFFICES ASSUME Init PROVE IInv
  OBVIOUS
<1>1. PICK mode \in Modes :
         /\ ledger = Fresh(mode, TRUE)
         /\ task = [gen |-> 1, mode |-> mode, used |-> 0, open |-> TRUE]
  BY DEF Init
<1>2. ledger \in LedgerType /\ Sound(ledger, markers)
  BY <1>1, FreshVersion
<1>3. task \in TaskType
  BY <1>1 DEF TaskType
<1>4. chain \in Seq(EntryType)
  <2>1. Entry(ledger) \in EntryType
    BY <1>2, EntryTyped
  <2>2. <<Entry(ledger)>> \in Seq(EntryType)
    BY <2>1
  <2> QED
    BY <2>2 DEF Init
<1>5. TypeOK
  <2>1. op \in [Slots -> OperationType \cup {None}] /\ markers \subseteq MarkerType
    BY DEF Init
  <2>2. snap \in [n : Nat, view : [Agents -> [status : {"absent", "running", "ended"}, epoch : Nat]]]
    BY DEF Init, Child
  <2>3. acked \subseteq [id : Nat, epoch : Nat, charged : SUBSET Agents, locked : BOOLEAN]
    BY DEF Init
  <2>4. /\ context \in Nat /\ journal = None /\ ids \in Nat /\ faults \in Nat
        /\ reverted \subseteq {"written", "read"}
    BY DEF Init
  <2> QED
    BY <1>2, <1>3, <1>4, <2>1, <2>2, <2>3, <2>4 DEF TypeOK
<1> QED
  BY <1>2, <1>5 DEF Init, IInv, Slots

LEMMA Stutters == IInv /\ UNCHANGED vars => IInv'
<1> SUFFICES ASSUME IInv, UNCHANGED vars PROVE IInv'
  OBVIOUS
<1>1. TypeOK'
  BY DEF vars, IInv, TypeOK
<1> QED
  BY <1>1, Assembled DEF vars, IInv

LEMMA TransitionKeeps ==
  ASSUME IInv, NEW s \in Slots, Transition(s)
  PROVE  IInv'
BY TransitionStarts, LedgerStored, ChainStored, TaskStored, ContextBound, JournalCleaned,
   TipAppended, RolledBack DEF Transition

LEMMA CommandKeeps ==
  ASSUME IInv, NEW a \in Agents,
         \/ Prepare(a)
         \/ CancelPrepare(a)
         \/ Register(a)
         \/ \E old \in Agents : Redispatch(old, a)
         \/ \E status \in Terminal : Finish(a, status)
  PROVE  IInv'
BY PrepareStep, CancelStep, RegisterStep, RedispatchStep, FinishStep

LEMMA IsInductive == IInv /\ [Next]_vars => IInv'
<1> SUFFICES ASSUME IInv, [Next]_vars PROVE IInv'
  OBVIOUS
<1> QED
  BY Observed, CommandKeeps, CheckStep, InitLedgerStep, StartStep, EscalateStep,
     CompleteStep, PublishStep, TipStep, WriteStep, SaveFailsStep, TransitionKeeps,
     Died, Restored, Discarded, Stutters DEF Next

\* Whatever dies, is rolled back, restored or overtaken where, no version of the
\* ledger on disk, under way or kept to be put back contradicts itself or the terminal
\* markers, and an agent ends in one way only per epoch.
THEOREM VersionsAreSound == Spec => []IInv
BY Initially, IsInductive, PTL DEF Spec

(***************************************************************************)
(* What a command makes of the version it loaded.                          *)
(***************************************************************************)
Held(l) == Holding(l, "reserved") \cup Holding(l, "settled")
Team(l) == Active(l) \cup Pending(l)

\* A version within the budget and the cap of a mode.
Fits(l, mode) ==
    /\ Charge(l) <= Budget[mode]
    /\ Cardinality(Team(l)) <= Cap[mode]

\* A version without children.
Childless(l) == \A a \in Agents : l.prep[a] = "none" /\ l.res[a] = "none" /\ l.member[a] = "none"

LEMMA Finite ==
  ASSUME NEW l
  PROVE  /\ IsFiniteSet(Held(l)) /\ Cardinality(Held(l)) \in Nat
         /\ IsFiniteSet(Team(l)) /\ Cardinality(Team(l)) \in Nat
<1>1. Held(l) \subseteq Agents /\ Team(l) \subseteq Agents
  BY DEF Held, Team, Holding, Active, Pending
<1>2. IsFiniteSet(Held(l)) /\ IsFiniteSet(Team(l))
  BY <1>1, LedgerAssumption, FS_Subset
<1> QED
  BY <1>2, FS_CardinalityType

LEMMA CostGrows == \A c, d \in Nat : c <= d => Cost * c <= Cost * d
<1> TAKE c, d \in Nat
<1> HAVE c <= d
<1> DEFINE e == d - c
<1>1. e \in Nat /\ d = c + e /\ Cost \in Nat
  BY LedgerAssumption
<1> HIDE DEF e
<1>2. Cost * (c + e) = Cost * c + Cost * e /\ Cost * e >= 0 /\ Cost * c \in Nat
  BY <1>1
<1> QED
  BY <1>1, <1>2

LEMMA FitsLess ==
  ASSUME NEW l, NEW k, NEW mode \in Modes, Fits(l, mode),
         Held(k) \subseteq Held(l), Team(k) \subseteq Team(l)
  PROVE  Fits(k, mode)
<1>1. Cardinality(Held(k)) <= Cardinality(Held(l)) /\ Cardinality(Team(k)) <= Cardinality(Team(l))
  BY Finite, FS_Subset
<1>2. Cost * Cardinality(Held(k)) <= Cost * Cardinality(Held(l))
  BY <1>1, Finite, CostGrows
<1>3. /\ Cost * Cardinality(Held(k)) \in Nat /\ Cost * Cardinality(Held(l)) \in Nat
      /\ Budget[mode] \in Nat /\ Cap[mode] \in Nat
  BY Finite, BudgetsAreNaturals, LedgerAssumption
<1>4. Cost * Cardinality(Held(l)) <= Budget[mode] /\ Cardinality(Team(l)) <= Cap[mode]
  BY DEF Fits, Charge, Held
<1>5. Cost * Cardinality(Held(k)) <= Budget[mode]
  BY <1>2, <1>3, <1>4
<1>6. Cardinality(Team(k)) <= Cap[mode]
  BY <1>1, <1>3, <1>4, Finite
<1> QED
  BY <1>5, <1>6 DEF Fits, Charge, Held

LEMMA FitsMore ==
  ASSUME NEW l, NEW m \in Modes, NEW n \in Modes, m <= n, Fits(l, m)
  PROVE  Fits(l, n)
<1>1. /\ Budget[m] \in Nat /\ Cap[m] \in Nat /\ Budget[n] \in Nat /\ Cap[n] \in Nat
      /\ Budget[m] <= Budget[n] /\ Cap[m] <= Cap[n]
  <2>1. m \in Int /\ n \in Int
    BY LedgerAssumption DEF Modes
  <2> QED
    BY <2>1, BudgetsAreNaturals, LedgerAssumption
<1>2. Charge(l) \in Nat /\ Cardinality(Team(l)) \in Nat
  <2>1. Cardinality(Held(l)) \in Nat /\ Cardinality(Team(l)) \in Nat /\ Cost \in Nat
    BY Finite, LedgerAssumption
  <2>2. Charge(l) = Cost * Cardinality(Held(l))
    BY DEF Charge, Held
  <2> QED
    BY <2>1, <2>2
<1> QED
  BY <1>1, <1>2 DEF Fits

LEMMA ChildlessFits ==
  ASSUME NEW l, Childless(l), NEW mode \in Modes
  PROVE  Fits(l, mode) /\ Holding(l, "settled") = {}
<1>1. Held(l) = {} /\ Team(l) = {} /\ Holding(l, "settled") = {}
  BY DEF Childless, Held, Team, Holding, Active, Pending
<1>2. Cardinality({}) = 0 /\ Cost * 0 = 0
  BY FS_EmptySet, LedgerAssumption
<1>3. Budget[mode] \in Nat /\ Cap[mode] \in Nat
  BY BudgetsAreNaturals, LedgerAssumption
<1> QED
  BY <1>1, <1>2, <1>3 DEF Fits, Charge, Held

\* A later version of the same epoch.
Grows(l, k) ==
    /\ k.epoch = l.epoch /\ k.rev = l.rev + 1
    /\ Holding(l, "settled") \subseteq Holding(k, "settled")
    /\ Fits(l, task.mode) => Fits(k, task.mode)

\* A command of .agents.lock as it begins.
Commanded(o) ==
    /\ o.read = ledger.id /\ o.next.id = ids + 1
    /\ o.kind \in {"save", "start"} \cup Chained
    /\ IF o.kind = "save" THEN o.phase \in {"marker", "chain"} ELSE o.phase = "begin"
    /\ \/ /\ o.kind = "save" /\ o.next.rev = 1 /\ o.next.prev = 0
          /\ o.next.epoch = ids + 1 /\ Childless(o.next)
       \/ /\ o.kind = "start" /\ o.next.rev = ledger.rev + 1 /\ o.next.prev = ledger.id
          /\ o.next.epoch = ids + 1 /\ Childless(o.next)
       \/ o.kind # "start" /\ o.next.prev = ledger.prev /\ Grows(ledger, o.next)
    /\ o.kind \in {"start", "complete"} => o.goal.from = task
    /\ o.kind = "complete" => o.goal.to.mode = task.mode

\* An escalation as it begins.
Escalated(o) ==
    /\ o.read = ledger.id /\ o.next.id = ids + 1
    /\ o.kind = "escalate" /\ o.phase = "begin"
    /\ o.next.epoch = ledger.epoch /\ o.next.rev = ledger.rev + 1 /\ o.next.prev = ledger.id
    /\ Holding(o.next, "settled") = Holding(ledger, "settled")
    /\ \A m \in Modes : Fits(ledger, m) => Fits(o.next, m)
    /\ o.goal.from = task /\ o.goal.to.mode \in Modes /\ o.goal.to.mode > task.mode

LEMMA VersionOf ==
  ASSUME TypeOK, NEW l \in LedgerType
  PROVE  /\ Version(l).id = ids + 1 /\ Version(l).rev = l.rev + 1
         /\ Version(l).prev = l.prev /\ Version(l).epoch = l.epoch
         /\ Version(l).prep = l.prep /\ Version(l).res = l.res /\ Version(l).member = l.member
         /\ Version(l) \in LedgerType
<1>1. l.rev + 1 \in Nat /\ ids + 1 \in Nat
  BY DEF LedgerType, TypeOK
<1> QED
  BY <1>1 DEF Version, LedgerType

LEMMA AdvanceOf ==
  ASSUME TypeOK, NEW l \in LedgerType
  PROVE  /\ Advance(l).id = l.id /\ Advance(l).rev = l.rev /\ Advance(l).epoch = l.epoch
         /\ Advance(l).prev = IF l.rev = 1 THEN l.prev ELSE ledger.id
         /\ Advance(l).prep = l.prep /\ Advance(l).res = l.res /\ Advance(l).member = l.member
         /\ Advance(l) \in LedgerType
BY DEF Advance, Genesis, LedgerType, TypeOK

\* Sets of children are what the records of children say.
LEMMA SameSets ==
  ASSUME NEW l, NEW k, l.prep = k.prep, l.res = k.res, l.member = k.member
  PROVE  /\ Held(l) = Held(k) /\ Team(l) = Team(k)
         /\ \A status : Holding(l, status) = Holding(k, status)
BY DEF Held, Team, Holding, Active, Pending

\* A save of agentledger.py that settles or releases, and adds no child.
LEMMA SavedVersion ==
  ASSUME IInv, NEW l \in LedgerType, NEW o,
         \/ o.kind = "save" /\ o.phase \in {"marker", "chain"}
         \/ o.kind \in Chained /\ o.phase = "begin",
         o.read = ledger.id, o.next = Version(l),
         o.kind = "complete" => o.goal.from = task /\ o.goal.to.mode = task.mode,
         l.epoch = ledger.epoch, l.rev = ledger.rev, l.prev = ledger.prev,
         Holding(ledger, "settled") \subseteq Holding(l, "settled"),
         Fits(ledger, task.mode) => Fits(l, task.mode)
  PROVE  Commanded(o)
<1> DEFINE k == Version(l)
<1>1. /\ k.id = ids + 1 /\ k.rev = l.rev + 1 /\ k.prev = l.prev /\ k.epoch = l.epoch
      /\ k.prep = l.prep /\ k.res = l.res /\ k.member = l.member
  BY VersionOf DEF IInv
<1> HIDE DEF k
<1>2. Held(l) = Held(k) /\ Team(l) = Team(k) /\ Holding(l, "settled") = Holding(k, "settled")
  BY <1>1, SameSets
<1>3. Fits(l, task.mode) => Fits(k, task.mode)
  BY <1>2 DEF Fits, Charge, Held
<1>4. Grows(ledger, k)
  BY <1>1, <1>2, <1>3 DEF Grows
<1> QED
  BY <1>1, <1>4 DEF Commanded, Chained, k

Command ==
    \/ \E a \in Agents :
          \/ Prepare(a)
          \/ CancelPrepare(a)
          \/ Register(a)
          \/ \E old \in Agents : Redispatch(old, a)
          \/ \E status \in Terminal : Finish(a, status)
    \/ Check
    \/ InitLedger
    \/ \E mode \in Modes : StartTask(mode)
    \/ CompleteTask

LEMMA PrepareBegins ==
  ASSUME IInv, NEW a \in Agents, Prepare(a)
  PROVE  \E o : Begin("agents", o) /\ Commanded(o)
<1> DEFINE l == [ledger EXCEPT !.prep[a] = "pending", !.res[a] = "reserved"]
           o == Operation("save", "chain", Version(l))
<1>1. /\ ledger \in LedgerType /\ Sound(ledger, markers) /\ ledger.prep[a] = "none"
      /\ Begin("agents", o) /\ Affords(ledger) /\ task.mode \in Modes
      /\ Cardinality(Team(ledger)) < Cap[task.mode]
  BY DEF IInv, TypeOK, TaskType, Prepare, Save, Team
<1>2. l \in LedgerType
  BY <1>1 DEF LedgerType, Preparation, Reservation
<1>3. /\ l.epoch = ledger.epoch /\ l.rev = ledger.rev /\ l.prev = ledger.prev
      /\ l.member = ledger.member
      /\ l.prep[a] = "pending" /\ l.res[a] = "reserved"
      /\ \A b \in Agents \ {a} : l.prep[b] = ledger.prep[b] /\ l.res[b] = ledger.res[b]
  BY <1>1 DEF LedgerType
<1>4. o.kind = "save" /\ o.phase = "chain" /\ o.read = ledger.id /\ o.next = Version(l)
  BY DEF Operation
<1> HIDE DEF l, o
<1>5. ledger.res[a] = "none" /\ ledger.member[a] = "none"
  BY <1>1 DEF Sound, Consistent
<1>6. Holding(ledger, "settled") \subseteq Holding(l, "settled")
  BY <1>3, <1>5 DEF Holding
<1>7. Fits(l, task.mode)
  <2>1. Held(l) = Held(ledger) \cup {a} /\ Team(l) = Team(ledger) \cup {a}
        /\ a \notin Held(ledger) /\ a \notin Team(ledger)
    BY <1>1, <1>3, <1>5 DEF Held, Team, Holding, Active, Pending
  <2>2. /\ Cardinality(Held(l)) = Cardinality(Held(ledger)) + 1
        /\ Cardinality(Team(l)) = Cardinality(Team(ledger)) + 1
    BY <2>1, Finite, FS_AddElement
  <2>3. /\ Cardinality(Held(ledger)) \in Nat /\ Cardinality(Team(ledger)) \in Nat
        /\ Cap[task.mode] \in Nat /\ Cost \in Nat
    BY <1>1, Finite, LedgerAssumption
  <2>4. Cost * (Cardinality(Held(ledger)) + 1) = Cost * Cardinality(Held(ledger)) + Cost
    BY <2>3
  <2>5. Charge(l) <= Budget[task.mode]
    BY <1>1, <2>2, <2>4 DEF Affords, Charge, Held
  <2> QED
    BY <1>1, <2>2, <2>3, <2>5 DEF Fits
<1>8. Commanded(o)
  BY <1>2, <1>3, <1>4, <1>6, <1>7, SavedVersion
<1> QED
  BY <1>1, <1>8

LEMMA CancelBegins ==
  ASSUME IInv, NEW a \in Agents, CancelPrepare(a)
  PROVE  \E o : Begin("agents", o) /\ Commanded(o)
<1> DEFINE l == [ledger EXCEPT !.prep[a] = "cancelled", !.res[a] = "released"]
           o == Operation("save", "chain", Version(l))
<1>1. /\ ledger \in LedgerType /\ Sound(ledger, markers) /\ ledger.prep[a] = "pending"
      /\ Begin("agents", o) /\ task.mode \in Modes
  BY DEF IInv, TypeOK, TaskType, CancelPrepare, Save
<1>2. l \in LedgerType
  BY <1>1 DEF LedgerType, Preparation, Reservation
<1>3. /\ l.epoch = ledger.epoch /\ l.rev = ledger.rev /\ l.prev = ledger.prev
      /\ l.member = ledger.member
      /\ l.prep[a] = "cancelled" /\ l.res[a] = "released"
      /\ \A b \in Agents \ {a} : l.prep[b] = ledger.prep[b] /\ l.res[b] = ledger.res[b]
  BY <1>1 DEF LedgerType
<1>4. o.kind = "save" /\ o.phase = "chain" /\ o.read = ledger.id /\ o.next = Version(l)
  BY DEF Operation
<1> HIDE DEF l, o
<1>5. ledger.res[a] = "reserved"
  BY <1>1 DEF Sound, Consistent
<1>6. /\ Holding(ledger, "settled") \subseteq Holding(l, "settled")
      /\ Held(l) \subseteq Held(ledger) /\ Team(l) \subseteq Team(ledger)
  BY <1>3, <1>5 DEF Holding, Held, Team, Active, Pending
<1>7. Fits(ledger, task.mode) => Fits(l, task.mode)
  BY <1>1, <1>6, FitsLess
<1>8. Commanded(o)
  BY <1>2, <1>3, <1>4, <1>6, <1>7, SavedVersion
<1> QED
  BY <1>1, <1>8

\* The member that a registration appends was pending before.
LEMMA RegisteredVersion ==
  ASSUME IInv, NEW a \in Agents, ledger.prep[a] = "pending",
         NEW l \in LedgerType, l.epoch = ledger.epoch, l.rev = ledger.rev, l.prev = ledger.prev,
         l.prep = Registered(ledger, a).prep, l.res = Registered(ledger, a).res,
         l.member = Registered(ledger, a).member,
         NEW o, o.kind = "register", o.phase = "begin", o.read = ledger.id, o.next = Version(l)
  PROVE  Commanded(o)
<1>1. ledger \in LedgerType /\ task.mode \in Modes
  BY DEF IInv, TypeOK, TaskType
<1>2. /\ l.res = ledger.res
      /\ l.prep[a] = "consumed" /\ l.member[a] = "active"
      /\ \A b \in Agents \ {a} : l.prep[b] = ledger.prep[b] /\ l.member[b] = ledger.member[b]
  BY <1>1 DEF LedgerType, Registered
<1>3. /\ Holding(ledger, "settled") \subseteq Holding(l, "settled")
      /\ Held(l) \subseteq Held(ledger) /\ Team(l) \subseteq Team(ledger)
  BY <1>2 DEF Holding, Held, Team, Active, Pending
<1>4. Fits(ledger, task.mode) => Fits(l, task.mode)
  BY <1>1, <1>3, FitsLess
<1> QED
  BY <1>3, <1>4, SavedVersion DEF Chained

LEMMA RegisterBegins ==
  ASSUME IInv, NEW a \in Agents, Register(a)
  PROVE  \E o : Begin("agents", o) /\ Commanded(o)
<1> DEFINE l == Registered(ledger, a)
           o == Operation("register", "begin", Version(l))
<1>1. l \in LedgerType /\ ledger \in LedgerType /\ ledger.prep[a] = "pending" /\ Begin("agents", o)
  BY MemberAppended DEF Register, Registers, IInv, TypeOK
<1>2. l.epoch = ledger.epoch /\ l.rev = ledger.rev /\ l.prev = ledger.prev
  BY <1>1 DEF LedgerType, Registered
<1>3. o.kind = "register" /\ o.phase = "begin" /\ o.read = ledger.id /\ o.next = Version(l)
  BY DEF Operation
<1> HIDE DEF o
<1>4. Commanded(o)
  BY <1>1, <1>2, <1>3, RegisteredVersion
<1> QED
  BY <1>1, <1>4

LEMMA RedispatchBegins ==
  ASSUME IInv, NEW a \in Agents, NEW old \in Agents, Redispatch(old, a)
  PROVE  \E o : Begin("agents", o) /\ Commanded(o)
<1> DEFINE r == Registered(ledger, a)
           l == [r EXCEPT !.to[old] = a]
           o == Operation("register", "begin", Version(l))
<1>1. r \in LedgerType /\ ledger \in LedgerType /\ ledger.prep[a] = "pending" /\ Begin("agents", o)
  BY MemberAppended DEF Redispatch, Registers, IInv, TypeOK
<1>2. r.epoch = ledger.epoch /\ r.rev = ledger.rev /\ r.prev = ledger.prev
  BY <1>1 DEF LedgerType, Registered
<1>3. /\ l \in LedgerType /\ l.epoch = r.epoch /\ l.rev = r.rev /\ l.prev = r.prev
      /\ l.prep = r.prep /\ l.res = r.res /\ l.member = r.member
  <2> HIDE DEF r
  <2> QED
    BY <1>1 DEF LedgerType
<1>4. o.kind = "register" /\ o.phase = "begin" /\ o.read = ledger.id /\ o.next = Version(l)
  BY DEF Operation
<1> HIDE DEF l, o
<1>5. Commanded(o)
  BY <1>1, <1>2, <1>3, <1>4, RegisteredVersion
<1> QED
  BY <1>1, <1>5

LEMMA CheckBegins ==
  ASSUME IInv, Check
  PROVE  \E o : Begin("agents", o) /\ Commanded(o)
<1> DEFINE agree == Running(snap.view) = Active(ledger)
           k == [ledger EXCEPT !.empty = (Active(ledger) = {})]
           l == IF agree THEN k ELSE ledger
           o == Operation("save", "chain", Version(l))
<1>1. ledger \in LedgerType /\ Begin("agents", o)
  BY DEF IInv, TypeOK, Check, Save
<1>2. /\ k \in LedgerType /\ k.prep = ledger.prep /\ k.res = ledger.res /\ k.member = ledger.member
      /\ k.epoch = ledger.epoch /\ k.rev = ledger.rev /\ k.prev = ledger.prev
  BY <1>1 DEF LedgerType
<1> HIDE DEF k, agree
<1>3. /\ l \in LedgerType /\ l.prep = ledger.prep /\ l.res = ledger.res /\ l.member = ledger.member
      /\ l.epoch = ledger.epoch /\ l.rev = ledger.rev /\ l.prev = ledger.prev
  BY <1>1, <1>2
<1>4. o.kind = "save" /\ o.phase = "chain" /\ o.read = ledger.id /\ o.next = Version(l)
  BY DEF Operation
<1> HIDE DEF l, o
<1>5. Held(l) = Held(ledger) /\ Team(l) = Team(ledger) /\ Holding(l, "settled") = Holding(ledger, "settled")
  BY <1>3, SameSets
<1>6. Fits(ledger, task.mode) => Fits(l, task.mode)
  BY <1>5 DEF Fits, Charge, Held
<1>7. Commanded(o)
  BY <1>3, <1>4, <1>5, <1>6, SavedVersion
<1> QED
  BY <1>1, <1>7

LEMMA FinishBegins ==
  ASSUME IInv, NEW a \in Agents, NEW status \in Terminal, Finish(a, status)
  PROVE  \E o : Begin("agents", o) /\ Commanded(o)
<1> DEFINE l == Outcome(ledger, a, status)
           p == Operation("save", "marker", Version(l))
           o == [p EXCEPT !.marker = Marker(ledger, a, status)]
<1>1. /\ ledger \in LedgerType /\ Sound(ledger, markers) /\ ledger.member[a] = "active"
      /\ Begin("agents", o) /\ task.mode \in Modes
  BY DEF IInv, TypeOK, TaskType, Finish
<1>2. ledger.prep[a] = "consumed" /\ ledger.res[a] = "reserved"
  BY <1>1 DEF Sound, Consistent, LedgerType, Preparation
<1>3. ledger.settled + Cost \in Nat
  BY <1>1, LedgerAssumption DEF LedgerType
<1>4. /\ l \in LedgerType /\ l.prep = ledger.prep /\ l.epoch = ledger.epoch
      /\ l.rev = ledger.rev /\ l.prev = ledger.prev
      /\ l.member[a] = status
      /\ l.res[a] = IF status = "lost" THEN "released" ELSE "settled"
      /\ \A b \in Agents \ {a} : l.member[b] = ledger.member[b] /\ l.res[b] = ledger.res[b]
  BY <1>1, <1>3 DEF Outcome, LedgerType, Reservation, Member
<1>5. o.kind = "save" /\ o.phase = "marker" /\ o.read = ledger.id /\ o.next = Version(l)
  BY DEF Operation
<1> HIDE DEF l, o
<1>6. /\ Holding(ledger, "settled") \subseteq Holding(l, "settled")
      /\ Held(l) \subseteq Held(ledger) /\ Team(l) \subseteq Team(ledger)
  BY <1>1, <1>2, <1>4 DEF Holding, Held, Team, Active, Pending, Terminal
<1>7. Fits(ledger, task.mode) => Fits(l, task.mode)
  BY <1>1, <1>6, FitsLess
<1>8. Commanded(o)
  BY <1>4, <1>5, <1>6, <1>7, SavedVersion
<1> QED
  BY <1>1, <1>8

LEMMA InitBegins ==
  ASSUME IInv, InitLedger
  PROVE  \E o : Begin("agents", o) /\ Commanded(o)
<1> DEFINE l == [Fresh(task.mode, TRUE) EXCEPT !.id = ids + 1, !.epoch = ids + 1]
           o == Operation("save", "chain", l)
<1>1. Begin("agents", o)
  BY DEF InitLedger
<1>2. l.id = ids + 1 /\ l.epoch = ids + 1 /\ l.rev = 1 /\ l.prev = 0 /\ Childless(l)
  BY DEF Fresh, Childless
<1> HIDE DEF l
<1>3. o.kind = "save" /\ o.phase = "chain" /\ o.read = ledger.id /\ o.next = l
  BY DEF Operation
<1> HIDE DEF o
<1>4. Commanded(o)
  BY <1>2, <1>3 DEF Commanded
<1> QED
  BY <1>1, <1>4

LEMMA StartBegins ==
  ASSUME IInv, ledger.rev >= 1, NEW mode \in Modes, StartTask(mode)
  PROVE  \E o : Begin("agents", o) /\ Commanded(o)
<1> DEFINE v == Version(ledger)
           k == [v EXCEPT !.epoch = ids + 1, !.budget = Budget[mode], !.settled = 0, !.empty = FALSE]
           l == Advance(k)
           g == [from |-> task,
                 to |-> [gen |-> task.gen + 1, mode |-> mode, used |-> 0, open |-> TRUE]]
           o == [Operation("start", "begin", l) EXCEPT !.goal = g]
<1>1. /\ ledger \in LedgerType /\ Sound(ledger, markers) /\ TypeOK /\ ledger.rev \in Nat
      /\ \A a \in Agents : ledger.prep[a] = "none"
      /\ Begin("agents", o)
  BY DEF IInv, TypeOK, StartTask, Untouched, LedgerType
<1>2. Childless(ledger)
  BY <1>1 DEF Sound, Consistent, Childless
<1>3. /\ v \in LedgerType /\ v.member = ledger.member /\ v.res = ledger.res /\ v.prep = ledger.prep
      /\ v.id = ids + 1 /\ v.rev = ledger.rev + 1
  BY <1>1, VersionOf
<1> HIDE DEF v
<1>4. Budget[mode] \in Nat /\ ids + 1 \in Nat
  BY <1>1, BudgetsAreNaturals DEF TypeOK
<1>5. /\ k \in LedgerType /\ k.prep = v.prep /\ k.res = v.res /\ k.member = v.member
      /\ k.id = v.id /\ k.rev = v.rev /\ k.epoch = ids + 1
  BY <1>3, <1>4 DEF LedgerType
<1> HIDE DEF k
<1>6. /\ l.id = k.id /\ l.rev = k.rev /\ l.epoch = k.epoch /\ l.prev = ledger.id
      /\ l.prep = k.prep /\ l.res = k.res /\ l.member = k.member
  BY <1>1, <1>3, <1>5, AdvanceOf
<1> HIDE DEF l
<1>7. Childless(l)
  BY <1>2, <1>3, <1>5, <1>6 DEF Childless
<1>8. o.kind = "start" /\ o.phase = "begin" /\ o.read = ledger.id /\ o.next = l /\ o.goal = g
  BY DEF Operation
<1>9. g.from = task
  OBVIOUS
<1> HIDE DEF o, g
<1>10. Commanded(o)
  BY <1>3, <1>5, <1>6, <1>7, <1>8, <1>9 DEF Commanded, Chained
<1> QED
  BY <1>1, <1>10

LEMMA CompleteBegins ==
  ASSUME IInv, CompleteTask
  PROVE  \E o : Begin("agents", o) /\ Commanded(o)
<1> DEFINE g == [from |-> task, to |-> [task EXCEPT !.open = FALSE]]
           o == [Operation("complete", "begin", Version(ledger)) EXCEPT !.goal = g]
<1>1. ledger \in LedgerType /\ Begin("agents", o)
  BY DEF IInv, TypeOK, CompleteTask
<1>2. g.from = task /\ g.to.mode = task.mode
  BY DEF IInv, TypeOK, TaskType
<1> HIDE DEF g
<1>3. o.kind = "complete" /\ o.phase = "begin" /\ o.read = ledger.id /\ o.next = Version(ledger)
      /\ o.goal = g
  BY DEF Operation
<1> HIDE DEF o
<1>4. Commanded(o)
  BY <1>1, <1>2, <1>3, SavedVersion DEF Chained
<1> QED
  BY <1>1, <1>4

LEMMA CommandBegins ==
  ASSUME IInv, ledger.rev >= 1, Command
  PROVE  \E o : Begin("agents", o) /\ Commanded(o)
BY PrepareBegins, CancelBegins, RegisterBegins, RedispatchBegins, FinishBegins, CheckBegins,
   InitBegins, StartBegins, CompleteBegins DEF Command

LEMMA EscalateBegins ==
  ASSUME IInv, ledger.rev >= 1, NEW mode \in Modes, Escalate(mode)
  PROVE  \E o : Begin("escalate", o) /\ Escalated(o)
<1> DEFINE v == Version(ledger)
           k == [v EXCEPT !.budget = Budget[mode]]
           l == Advance(k)
           g == [from |-> task, to |-> [task EXCEPT !.mode = mode]]
           o == [Operation("escalate", "begin", l) EXCEPT !.goal = g]
<1>1. ledger \in LedgerType /\ TypeOK /\ ledger.rev \in Nat /\ mode > task.mode
      /\ Begin("escalate", o)
  BY DEF IInv, TypeOK, Escalate, LedgerType
<1>2. /\ v \in LedgerType /\ v.member = ledger.member /\ v.res = ledger.res /\ v.prep = ledger.prep
      /\ v.id = ids + 1 /\ v.rev = ledger.rev + 1 /\ v.epoch = ledger.epoch
  BY <1>1, VersionOf
<1> HIDE DEF v
<1>3. /\ k \in LedgerType /\ k.prep = v.prep /\ k.res = v.res /\ k.member = v.member
      /\ k.id = v.id /\ k.rev = v.rev /\ k.epoch = v.epoch
  BY <1>2, BudgetsAreNaturals DEF LedgerType
<1> HIDE DEF k
<1>4. /\ l.id = k.id /\ l.rev = k.rev /\ l.epoch = k.epoch /\ l.prev = ledger.id
      /\ l.prep = k.prep /\ l.res = k.res /\ l.member = k.member
  BY <1>1, <1>2, <1>3, AdvanceOf
<1> HIDE DEF l
<1>5. /\ Held(l) = Held(ledger) /\ Team(l) = Team(ledger)
      /\ Holding(l, "settled") = Holding(ledger, "settled")
  BY <1>2, <1>3, <1>4, SameSets
<1>6. \A m \in Modes : Fits(ledger, m) => Fits(l, m)
  BY <1>5 DEF Fits, Charge, Held
<1>7. g.from = task /\ g.to.mode = mode
  BY <1>1 DEF TypeOK, TaskType
<1> HIDE DEF g
<1>8. o.kind = "escalate" /\ o.phase = "begin" /\ o.read = ledger.id /\ o.next = l /\ o.goal = g
  BY DEF Operation
<1> HIDE DEF o
<1>9. Escalated(o)
  BY <1>1, <1>2, <1>3, <1>4, <1>5, <1>6, <1>7, <1>8 DEF Escalated
<1> QED
  BY <1>1, <1>9

(***************************************************************************)
(* How the files, the journal and the commands under way hang together.    *)
(***************************************************************************)
HasBefore(o) == o.phase \in {"state"} \cup InTransition
Stored(o) == o.phase \in {"chained", "task", "context", "clean", "tip"}
Listed(o) == o.phase = "state" \/ (o.kind \in Chained /\ o.phase \in {"task", "context", "clean"})

\* The files a command or the journal may put back.
Backups ==
    {op[s].before : s \in {t \in Slots : op[t] # None /\ HasBefore(op[t])}}
        \cup (IF journal = None THEN {} ELSE {journal.before})

\* The versions that a ledger and its chain name, but for what the chain lists.
Names(l, c, n) == n \in {l.id, l.prev} \/ \E j \in 1..Len(c) : c[j].prev = n
Lists(c, n) == \E j \in 1..Len(c) : c[j].file = n

Named(n) ==
    \/ Names(ledger, chain, n)
    \/ \E f \in Backups : Names(f.ledger, f.chain, n)
    \/ \E s \in Slots : op[s] # None /\ n \in {op[s].next.prev, op[s].read}

Bounded(l, c) ==
    /\ l.id \in 1..ids /\ l.prev \in 0..ids /\ l.rev >= 1 /\ l.epoch \in 1..ids
    /\ \A j \in 1..Len(c) : c[j].file \in 1..ids /\ c[j].prev \in 0..ids

\* Versions are numbered in the order in which commands begin.
Numbered ==
    /\ Bounded(ledger, chain)
    /\ \A f \in Backups : Bounded(f.ledger, f.chain)
    /\ journal # None => journal.after.ledger.id \in 1..ids
    /\ \A s \in Slots : op[s] # None =>
          /\ op[s].next.id \in 1..ids /\ op[s].next.prev \in 0..ids
          /\ op[s].next.rev >= 1 /\ op[s].next.epoch \in 1..ids
          /\ op[s].read \in 1..ids
    /\ \A v \in acked : v.id \in 1..ids /\ v.epoch \in 1..ids

\* Which commands there are, and how far each gets.
Shape(s, o) ==
    /\ o.kind = "escalate" <=> s = "escalate"
    /\ o.kind = "save" <=> o.phase \in {"marker", "chain", "state"}
    /\ o.phase = "chained" => o.kind \in Chained
    /\ o.phase = "tip" => o.kind \in Appended
    /\ o.kind # "save" => o.next.rev >= 2
    /\ o.next.rev = 1 => o.next.epoch = o.next.id /\ o.next.prev = 0

Shaped == \A s \in Slots : op[s] # None => Shape(s, op[s])

\* The version a command is about to make is nobody else's.
NextIsNew ==
    /\ op["agents"] # None /\ op["escalate"] # None => op["agents"].next.id # op["escalate"].next.id
    /\ \A s \in Slots : op[s] # None =>
          /\ \A v \in acked : v.id # op[s].next.id
          /\ ~Stored(op[s]) => \A n : Named(n) => n # op[s].next.id
          /\ journal # None /\ op[s].phase \notin InTransition =>
                journal.after.ledger.id # op[s].next.id
    /\ journal # None => journal.after.ledger.id # journal.before.ledger.id

\* One transition at a time has the files of TASK, and the journal is its own.
InHand(s) ==
    /\ op[s].before.task = op[s].goal.from
    /\ op[s].phase \in {"ledger", "chained", "task"} => task = op[s].goal.from
    /\ op[s].phase # "ledger" => ledger.id # op[s].before.ledger.id
    /\ op[s].kind \in Chained => op[s].next.prev = op[s].before.ledger.id
    /\ s = "agents" => ledger = IF op[s].phase = "ledger" THEN op[s].before.ledger ELSE op[s].next
    /\ journal # None =>
          /\ journal.before = op[s].before /\ journal.after.ledger = op[s].next
          /\ journal.chained <=> op[s].kind \in Chained

OneTransition ==
    /\ \A s, t \in Slots :
          (op[s] # None /\ op[s].phase \in InTransition)
            /\ (op[t] # None /\ op[t].phase \in InTransition) => s = t
    /\ \A s \in Slots : op[s] # None /\ op[s].phase \in InTransition => InHand(s)
    /\ journal # None /\ task # journal.before.task => ledger.id # journal.before.ledger.id

SInv == Numbered /\ Shaped /\ NextIsNew /\ OneTransition

(***************************************************************************)
(* What becomes of the commands under way.                                 *)
(***************************************************************************)
LEMMA Phased ==
  ASSUME IInv, NEW s \in Slots, NEW phase, Goto(s, phase)
  PROVE  /\ \A t \in Slots : t # s => op'[t] = op[t]
         /\ op[s] # None =>
              /\ op'[s].kind = op[s].kind /\ op'[s].read = op[s].read /\ op'[s].next = op[s].next
              /\ op'[s].goal = op[s].goal /\ op'[s].before = op[s].before
              /\ op'[s].phase = phase
<1>1. op \in [Slots -> OperationType \cup {None}]
  BY DEF IInv, TypeOK
<1> DEFINE x == [op[s] EXCEPT !.phase = phase]
<1>2. op' = [op EXCEPT ![s] = x]
  BY DEF Goto
<1>3. \A t \in Slots : op'[t] = IF t = s THEN x ELSE op[t]
  BY <1>1, <1>2
<1>4. op[s] # None =>
         /\ x.kind = op[s].kind /\ x.read = op[s].read /\ x.next = op[s].next
         /\ x.goal = op[s].goal /\ x.before = op[s].before
         /\ x.phase = phase
  <2>1. op[s] # None => op[s] \in OperationType
    BY <1>1
  <2> QED
    BY <2>1 DEF OperationType
<1> HIDE DEF x
<1> QED
  BY <1>3, <1>4

LEMMA Over ==
  ASSUME IInv, NEW s \in Slots, Done(s)
  PROVE  op'[s] = None /\ \A t \in Slots : t # s => op'[t] = op[t]
BY DEF Done, IInv, TypeOK

LEMMA Taken ==
  ASSUME IInv, NEW s \in Slots, NEW o, Begin(s, o)
  PROVE  /\ op'[s] = o /\ \A t \in Slots : t # s => op'[t] = op[t]
         /\ op[s] = None /\ ids' = ids + 1 /\ ids \in Nat
         /\ ledger' = ledger /\ chain' = chain /\ task' = task /\ journal' = journal
         /\ acked' = acked /\ reverted' = reverted
BY DEF Begin, IInv, TypeOK

LEMMA BackupIn ==
  ASSUME NEW f
  PROVE  f \in Backups <=>
           \/ journal # None /\ f = journal.before
           \/ \E s \in Slots : op[s] # None /\ HasBefore(op[s]) /\ f = op[s].before
BY DEF Backups

LEMMA TypedOp ==
  ASSUME IInv, NEW s \in Slots, op[s] # None
  PROVE  /\ op[s] \in OperationType /\ op[s].next \in LedgerType
         /\ HasBefore(op[s]) => /\ op[s].before \in FilesType /\ op[s].before.ledger \in LedgerType
                                /\ op[s].before.chain \in Seq(EntryType)
         /\ op[s].phase \in InTransition => op[s].goal \in GoalType
<1>1. op[s] \in OperationType /\ SoundOperation(s, op[s])
  BY Underway
<1>2. op[s].next \in LedgerType
  BY <1>1 DEF OperationType
<1>3. HasBefore(op[s]) => op[s].before \in FilesType
  BY <1>1 DEF SoundOperation, HasBefore
<1>4. op[s].phase \in InTransition => op[s].goal \in GoalType
  BY <1>1 DEF SoundOperation
<1>5. \A f \in FilesType : f.ledger \in LedgerType /\ f.chain \in Seq(EntryType)
  BY DEF FilesType
<1> QED
  BY <1>1, <1>2, <1>3, <1>4, <1>5

(***************************************************************************)
(* A step that begins no command: what it may do to the commands, the      *)
(* journal and the record of acknowledgements.                             *)
(***************************************************************************)
Later(s) == op'[s] # None =>
    /\ op[s] # None
    /\ op'[s].kind = op[s].kind /\ op'[s].read = op[s].read
    /\ op'[s].next.id = op[s].next.id /\ op'[s].next.rev = op[s].next.rev
    /\ op'[s].next.epoch = op[s].next.epoch
    /\ \/ op'[s].next.prev = op[s].next.prev
       \/ op'[s].next.prev = ledger.id /\ op[s].next.rev # 1
    /\ Stored(op[s]) => Stored(op'[s])
    /\ op[s].phase \in InTransition /\ journal' # None => op'[s].phase \in InTransition
    /\ Shape(s, op'[s])

JournalAges == journal' # None =>
    \/ journal' = journal
    \/ /\ journal'.before = Files
       /\ \E s \in Slots :
             /\ op[s] # None /\ ~Stored(op[s])
             /\ op'[s] # None => op'[s].phase \in InTransition
             /\ journal'.after.ledger.id = op[s].next.id

AckedAges == \A v \in acked' :
    \/ v \in acked
    \/ \E s \in Slots : op[s] # None /\ op'[s] = None
                        /\ v.id = op[s].next.id /\ v.epoch = op[s].next.epoch

BackupsAge == \A f \in Backups' : f \in Backups \/ f = Files

Ages == (\A s \in Slots : Later(s)) /\ JournalAges /\ AckedAges /\ BackupsAge

\* Nothing is named that was not, but what a step stores.
NamedGrows(X) == \A n : Named(n)' => Named(n) \/ n \in X
Onward(X) == Ages /\ NamedGrows(X)

LEMMA NumberedAges ==
  ASSUME IInv, SInv, ids' = ids, Ages, Bounded(ledger, chain)'
  PROVE  Numbered'
<1>1. Numbered /\ ids \in Nat
  BY DEF SInv, IInv, TypeOK
<1>2. Bounded(Files.ledger, Files.chain)
  BY <1>1 DEF Files, Numbered
<1>3. ASSUME NEW f \in Backups' PROVE Bounded(f.ledger, f.chain)'
  <2>1. Bounded(f.ledger, f.chain)
    BY <1>1, <1>2, <1>3 DEF Ages, BackupsAge, Numbered
  <2> QED
    BY <2>1 DEF Bounded
<1>4. journal' # None => journal'.after.ledger.id \in 1..ids'
  BY <1>1 DEF Ages, JournalAges, Numbered
<1>5. ASSUME NEW s \in Slots, op'[s] # None
      PROVE  /\ op'[s].next.id \in 1..ids' /\ op'[s].next.prev \in 0..ids'
             /\ op'[s].next.rev >= 1 /\ op'[s].next.epoch \in 1..ids'
             /\ op'[s].read \in 1..ids'
  <2>1. Later(s) /\ op[s] # None
    BY <1>5 DEF Ages, Later
  <2>2. ledger.id \in 1..ids
    BY <1>1 DEF Numbered, Bounded
  <2> QED
    BY <1>1, <1>5, <2>1, <2>2 DEF Later, Numbered
<1>6. \A v \in acked' : v.id \in 1..ids' /\ v.epoch \in 1..ids'
  BY <1>1 DEF Ages, AckedAges, Numbered
<1> QED
  BY <1>3, <1>4, <1>5, <1>6 DEF Numbered

LEMMA ShapedAges ==
  ASSUME Ages
  PROVE  Shaped'
BY DEF Ages, Later, Shaped, Shape

LEMMA NamedAges ==
  ASSUME IInv, Ages, NEW n, Named(n)'
  PROVE  Named(n) \/ Names(ledger', chain', n)
<1>1. ASSUME NEW f \in Backups', Names(f.ledger, f.chain, n) PROVE Named(n)
  <2>1. f \in Backups \/ f = Files
    BY <1>1 DEF Ages, BackupsAge
  <2>2. CASE f = Files
    BY <1>1, <2>2 DEF Named, Files
  <2> QED
    BY <1>1, <2>1, <2>2 DEF Named
<1>2. ASSUME NEW s \in Slots, op'[s] # None, n \in {op'[s].next.prev, op'[s].read} PROVE Named(n)
  <2>1. op[s] # None /\ n \in {op[s].next.prev, op[s].read, ledger.id}
    BY <1>2 DEF Ages, Later
  <2> QED
    BY <2>1 DEF Named, Names
<1>3. \/ Names(ledger', chain', n)
      \/ \E f \in Backups' : Names(f.ledger, f.chain, n)
      \/ \E s \in Slots : op'[s] # None /\ n \in {op'[s].next.prev, op'[s].read}
  BY DEF Named, Names
<1> QED
  BY <1>1, <1>2, <1>3

\* What commands make stays new, when the step stores no version but those of X.
LEMMA NewAges ==
  ASSUME IInv, SInv, Ages, NEW X,
         \A n : Names(ledger', chain', n) => Named(n) \/ n \in X,
         \A s \in Slots : op'[s] # None /\ ~Stored(op'[s]) => op'[s].next.id \notin X
  PROVE  NextIsNew'
<1>1. NextIsNew /\ \A s \in Slots : Later(s)
  BY DEF SInv, Ages
<1>2. op'["agents"] # None /\ op'["escalate"] # None => op'["agents"].next.id # op'["escalate"].next.id
  BY <1>1 DEF NextIsNew, Later, Slots
<1>3. \A s, t \in Slots : s # t /\ op[s] # None /\ op[t] # None => op[s].next.id # op[t].next.id
  BY <1>1 DEF NextIsNew, Slots
<1>4. ASSUME NEW s \in Slots, op'[s] # None
      PROVE  /\ \A v \in acked' : v.id # op'[s].next.id
             /\ ~Stored(op'[s]) => \A n : Named(n)' => n # op'[s].next.id
             /\ journal' # None /\ op'[s].phase \notin InTransition =>
                   journal'.after.ledger.id # op'[s].next.id
  <2>1. op[s] # None /\ op'[s].next.id = op[s].next.id /\ Stored(op[s]) => Stored(op'[s])
    BY <1>1, <1>4 DEF Later
  <2>2. \A v \in acked' : v.id # op'[s].next.id
    BY <1>1, <1>3, <1>4 DEF Ages, AckedAges, NextIsNew, Later
  <2>3. ASSUME ~Stored(op'[s]), NEW n, Named(n)' PROVE n # op'[s].next.id
    <3>1. \A k : Named(k) => k # op'[s].next.id
      BY <1>1, <1>4, <2>3 DEF NextIsNew, Later
    <3>2. Named(n) \/ n \in X
      BY <2>3, NamedAges
    <3> QED
      BY <1>4, <2>3, <3>1, <3>2
  <2>4. ASSUME journal' # None, op'[s].phase \notin InTransition
        PROVE  journal'.after.ledger.id # op'[s].next.id
    <3>1. op[s].next.id = op'[s].next.id /\ op[s] # None /\ op[s].phase \notin InTransition
      BY <1>1, <1>4, <2>4 DEF Later
    <3>2. CASE journal' = journal
      BY <1>1, <2>4, <3>1, <3>2 DEF NextIsNew
    <3>3. CASE \E t \in Slots :
                  /\ op[t] # None /\ (op'[t] # None => op'[t].phase \in InTransition)
                  /\ journal'.after.ledger.id = op[t].next.id
      BY <1>3, <1>4, <2>4, <3>1, <3>3
    <3>4. JournalAges
      BY DEF Ages
    <3>5. journal' = journal \/ \E t \in Slots :
             /\ op[t] # None /\ (op'[t] # None => op'[t].phase \in InTransition)
             /\ journal'.after.ledger.id = op[t].next.id
      BY <2>4, <3>4 DEF JournalAges
    <3> QED
      BY <2>4, <3>2, <3>3, <3>5
  <2> QED
    BY <2>2, <2>3, <2>4
<1>5. journal' # None => journal'.after.ledger.id # journal'.before.ledger.id
  <2>1. Named(Files.ledger.id)
    BY DEF Files, Named, Names
  <2> QED
    BY <1>1, <2>1 DEF Ages, JournalAges, NextIsNew
<1> QED
  BY <1>2, <1>4, <1>5 DEF NextIsNew

LEMMA BackupsKept ==
  ASSUME journal' = None \/ journal' = journal,
         \A s \in Slots : op'[s] # None /\ HasBefore(op'[s]) =>
            op[s] # None /\ HasBefore(op[s]) /\ op'[s].before = op[s].before
  PROVE  BackupsAge
<1>1. ASSUME NEW f \in Backups' PROVE f \in Backups
  <2>1. \/ journal' # None /\ f = journal'.before
        \/ \E s \in Slots : op'[s] # None /\ HasBefore(op'[s]) /\ f = op'[s].before
    BY <1>1 DEF Backups, HasBefore
  <2>2. \/ journal # None /\ f = journal.before
        \/ \E s \in Slots : op[s] # None /\ HasBefore(op[s]) /\ f = op[s].before
    BY <2>1
  <2> QED
    BY <2>2, BackupIn
<1> QED
  BY <1>1 DEF BackupsAge

LEMMA Rested ==
  ASSUME SInv, op' = op, acked' = acked, journal' = None \/ journal' = journal
  PROVE  Ages
<1>1. BackupsAge
  BY BackupsKept
<1>2. ASSUME NEW s \in Slots PROVE Later(s)
  BY DEF Later, SInv, Shaped
<1> QED
  BY <1>1, <1>2 DEF Ages, JournalAges, AckedAges

LEMMA Moved ==
  ASSUME IInv, SInv, NEW s \in Slots, NEW phase, op[s] # None, Goto(s, phase),
         Shape(s, op'[s]), HasBefore(op'[s]) => HasBefore(op[s]), Stored(op[s]) => Stored(op'[s]),
         op[s].phase \in InTransition /\ journal' # None => phase \in InTransition,
         acked' = acked, journal' = None \/ journal' = journal
  PROVE  Ages
<1>1. /\ \A t \in Slots : t # s => op'[t] = op[t]
      /\ op'[s].kind = op[s].kind /\ op'[s].read = op[s].read /\ op'[s].next = op[s].next
      /\ op'[s].goal = op[s].goal /\ op'[s].before = op[s].before
      /\ op'[s].phase = phase
  BY Phased
<1>2. BackupsAge
  BY <1>1, BackupsKept
<1>3. ASSUME NEW t \in Slots PROVE Later(t)
  <2>1. CASE t = s
    BY <1>1, <2>1 DEF Later
  <2>2. CASE t # s
    BY <1>1, <2>2 DEF Later, SInv, Shaped
  <2> QED
    BY <2>1, <2>2
<1> QED
  BY <1>2, <1>3 DEF Ages, JournalAges, AckedAges

LEMMA Dropped ==
  ASSUME IInv, SInv, NEW s \in Slots, op[s] # None, Done(s),
         acked' = acked \/ \E l : l.id = op[s].next.id /\ l.epoch = op[s].next.epoch /\ Acknowledge(s, l),
         journal' = None \/ journal' = journal
  PROVE  Ages
<1>1. op'[s] = None /\ \A t \in Slots : t # s => op'[t] = op[t]
  BY Over
<1>2. BackupsAge
  BY <1>1, BackupsKept
<1>3. ASSUME NEW t \in Slots PROVE Later(t)
  BY <1>1 DEF Later, SInv, Shaped
<1>4. AckedAges
  BY <1>1 DEF AckedAges, Acknowledge
<1> QED
  BY <1>2, <1>3, <1>4 DEF Ages, JournalAges

\* Chains and ledgers put together from what is named.
LEMMA Appending ==
  ASSUME NEW c \in Seq(EntryType), NEW l \in LedgerType, NEW k
  PROVE  LET d == Append(c, Entry(l))
         IN  /\ \A n : Names(k, d, n) <=> Names(k, c, n) \/ n = l.prev
             /\ \A n : Lists(d, n) <=> Lists(c, n) \/ n = l.id
             /\ Bounded(k, d) <=> Bounded(k, c) /\ l.id \in 1..ids /\ l.prev \in 0..ids
<1> DEFINE d == Append(c, Entry(l))
<1>1. Entry(l).file = l.id /\ Entry(l).prev = l.prev /\ Entry(l) \in EntryType
  BY EntryTyped DEF Entry
<1>2. /\ Len(d) = Len(c) + 1 /\ d[Len(c) + 1] = Entry(l) /\ Len(c) \in Nat
      /\ \A j \in 1..Len(c) : d[j] = c[j]
  BY <1>1
<1>3. \A j \in 1..Len(d) : j \in 1..Len(c) \/ j = Len(c) + 1
  BY <1>2
<1>4. 1..Len(c) \subseteq 1..Len(d) /\ Len(c) + 1 \in 1..Len(d)
  BY <1>2
<1> HIDE DEF d
<1>5. ASSUME NEW n PROVE /\ Names(k, d, n) <=> Names(k, c, n) \/ n = l.prev
                         /\ Lists(d, n) <=> Lists(c, n) \/ n = l.id
  <2>1. (\E j \in 1..Len(d) : d[j].prev = n) <=> (\E j \in 1..Len(c) : c[j].prev = n) \/ n = l.prev
    BY <1>1, <1>2, <1>3, <1>4
  <2>2. (\E j \in 1..Len(d) : d[j].file = n) <=> (\E j \in 1..Len(c) : c[j].file = n) \/ n = l.id
    BY <1>1, <1>2, <1>3, <1>4
  <2> QED
    BY <2>1, <2>2 DEF Names, Lists
<1>6. Bounded(k, d) <=> Bounded(k, c) /\ l.id \in 1..ids /\ l.prev \in 0..ids
  <2>1. (\A j \in 1..Len(d) : d[j].file \in 1..ids /\ d[j].prev \in 0..ids)
          <=> /\ \A j \in 1..Len(c) : c[j].file \in 1..ids /\ c[j].prev \in 0..ids
              /\ l.id \in 1..ids /\ l.prev \in 0..ids
    BY <1>1, <1>2, <1>3, <1>4
  <2> QED
    BY <2>1 DEF Bounded
<1> QED
  BY <1>5, <1>6 DEF d

\* An operation in transition whose files and journal are left alone.
LEMMA HandKept ==
  ASSUME NEW s \in Slots, InHand(s), op'[s] = op[s], task' = task,
         \/ ledger' = ledger
         \/ s # "agents" /\ ledger'.id # op[s].before.ledger.id,
         journal' = None \/ journal' = journal
  PROVE  InHand(s)'
BY DEF InHand

LEMMA Coheres ==
  ASSUME IInv, SInv, ids' = ids, Ages, Bounded(ledger, chain)', NEW X,
         \A n : Names(ledger', chain', n) => Named(n) \/ n \in X,
         \A t \in Slots : op'[t] # None /\ ~Stored(op'[t]) => op'[t].next.id \notin X,
         \A t \in Slots : op'[t] # None /\ op'[t].phase \in InTransition =>
            op[t] # None /\ op[t].phase \in InTransition /\ InHand(t)',
         journal' # None /\ task' # journal'.before.task => ledger'.id # journal'.before.ledger.id
  PROVE  SInv' /\ Onward(X)
<1>1. Numbered' /\ Shaped' /\ NextIsNew'
  BY NumberedAges, ShapedAges, NewAges
<1>2. \A t, u \in Slots :
         (op'[t] # None /\ op'[t].phase \in InTransition)
           /\ (op'[u] # None /\ op'[u].phase \in InTransition) => t = u
  <2>1. \A t \in Slots : op'[t] # None /\ op'[t].phase \in InTransition =>
           op[t] # None /\ op[t].phase \in InTransition
    OBVIOUS
  <2> QED
    BY <2>1 DEF SInv, OneTransition
<1>3. OneTransition'
  BY <1>2 DEF OneTransition
<1>4. NamedGrows(X)
  BY NamedAges DEF NamedGrows
<1> QED
  BY <1>1, <1>3, <1>4 DEF SInv, Onward

\* Steps that leave the ledger, its chain and TASK alone.
LEMMA CoheresStill ==
  ASSUME IInv, SInv, ids' = ids, Ages, ledger' = ledger, chain' = chain, task' = task,
         journal' = None \/ journal' = journal,
         \A t \in Slots : op'[t] # None /\ op'[t].phase \in InTransition =>
            op[t] # None /\ op[t].phase \in InTransition /\ InHand(t)'
  PROVE  SInv' /\ Onward({})
<1>1. Bounded(ledger, chain)'
  BY DEF SInv, Numbered, Bounded
<1>2. \A n : Names(ledger', chain', n) => Named(n)
  BY DEF Named
<1>3. journal' # None /\ task' # journal'.before.task => ledger'.id # journal'.before.ledger.id
  BY DEF SInv, OneTransition
<1> DEFINE X == {}
<1>4. \A n : Names(ledger', chain', n) => Named(n) \/ n \in X
  BY <1>2
<1>5. \A t \in Slots : op'[t] # None /\ ~Stored(op'[t]) => op'[t].next.id \notin X
  OBVIOUS
<1> HIDE DEF X
<1>6. SInv' /\ Onward(X)
  BY <1>1, <1>3, <1>4, <1>5, Coheres
<1> QED
  BY <1>6 DEF X

LEMMA RestKeepsS ==
  ASSUME IInv, SInv, ids' = ids, ledger' = ledger, chain' = chain, task' = task, op' = op,
         acked' = acked, journal' = None \/ journal' = journal
  PROVE  SInv' /\ Onward({})
<1>1. Ages
  BY Rested
<1>2. ASSUME NEW t \in Slots, op'[t] # None, op'[t].phase \in InTransition
      PROVE  op[t] # None /\ op[t].phase \in InTransition /\ InHand(t)'
  <2>1. InHand(t) /\ op'[t] = op[t]
    BY <1>2 DEF SInv, OneTransition
  <2> QED
    BY <1>2, <2>1, HandKept
<1> QED
  BY <1>1, <1>2, CoheresStill

LEMMA PublishKeepsS ==
  ASSUME IInv, SInv, PublishMarker
  PROVE  SInv' /\ Onward({})
<1> DEFINE s == "agents"
<1>1. s \in Slots
  BY DEF Slots
<1>2. /\ op[s] # None /\ op[s].phase = "marker" /\ Goto(s, "chain") /\ ids' = ids
      /\ ledger' = ledger /\ chain' = chain /\ task' = task /\ journal' = journal /\ acked' = acked
  BY DEF PublishMarker, At
<1>3. /\ \A t \in Slots : t # s => op'[t] = op[t]
      /\ op'[s].kind = op[s].kind /\ op'[s].next = op[s].next /\ op'[s].phase = "chain"
  BY <1>1, <1>2, Phased
<1> HIDE DEF s
<1>4. Shape(s, op[s])
  BY <1>1, <1>2 DEF SInv, Shaped
<1>5. Shape(s, op'[s]) /\ ~HasBefore(op'[s]) /\ ~Stored(op[s]) /\ op[s].phase \notin InTransition
  BY <1>2, <1>3, <1>4 DEF Shape, HasBefore, Stored, InTransition, Chained, Appended
<1>6. Ages
  BY <1>1, <1>2, <1>5, Moved
<1>7. ASSUME NEW t \in Slots, op'[t] # None, op'[t].phase \in InTransition
      PROVE  op[t] # None /\ op[t].phase \in InTransition /\ InHand(t)'
  <2>1. t # s /\ op'[t] = op[t]
    BY <1>3, <1>7 DEF InTransition
  <2> QED
    BY <1>2, <1>7, <2>1, HandKept DEF SInv, OneTransition
<1> QED
  BY <1>2, <1>6, <1>7, CoheresStill

LEMMA BackedUp ==
  ASSUME IInv, SInv
  PROVE  /\ Bounded(ledger, chain)
         /\ \A n : Names(ledger, chain, n) => Named(n)
         /\ journal # None =>
              /\ journal.before \in Backups /\ Bounded(journal.before.ledger, journal.before.chain)
              /\ \A n : Names(journal.before.ledger, journal.before.chain, n) => Named(n)
         /\ \A s \in Slots : op[s] # None /\ HasBefore(op[s]) =>
              /\ op[s].before \in Backups /\ Bounded(op[s].before.ledger, op[s].before.chain)
              /\ \A n : Names(op[s].before.ledger, op[s].before.chain, n) => Named(n)
<1>1. \A f \in Backups : Bounded(f.ledger, f.chain) /\ \A n : Names(f.ledger, f.chain, n) => Named(n)
  BY DEF SInv, Numbered, Named
<1>2. journal # None => journal.before \in Backups
  BY BackupIn
<1>3. \A s \in Slots : op[s] # None /\ HasBefore(op[s]) => op[s].before \in Backups
  BY BackupIn
<1>4. Bounded(ledger, chain) /\ \A n : Names(ledger, chain, n) => Named(n)
  BY DEF SInv, Numbered, Named
<1> QED
  BY <1>1, <1>2, <1>3, <1>4

LEMMA Unstored ==
  ASSUME IInv, SInv, NEW s \in Slots, op[s] # None, ~Stored(op[s])
  PROVE  /\ ledger.id # op[s].next.id
         /\ journal # None => journal.before.ledger.id # op[s].next.id
         /\ \A t \in Slots : op[t] # None /\ HasBefore(op[t]) => op[t].before.ledger.id # op[s].next.id
<1>1. \A n : Named(n) => n # op[s].next.id
  BY DEF SInv, NextIsNew
<1>2. \A l, c : Names(l, c, l.id)
  BY DEF Names
<1> QED
  BY <1>1, <1>2, BackedUp

LEMMA TipKeepsS ==
  ASSUME IInv, SInv, WriteTip
  PROVE  SInv' /\ Onward({})
<1> DEFINE s == "agents"
           next == Advance(op[s].next)
           x == [op[s] EXCEPT !.phase = "state", !.next = next, !.before = Files]
<1>1. /\ s \in Slots /\ op[s] # None /\ op[s].phase = "chain" /\ chain' = Append(chain, Entry(next))
      /\ op' = [op EXCEPT ![s] = x]
      /\ ledger' = ledger /\ task' = task /\ journal' = journal /\ ids' = ids /\ acked' = acked
  BY DEF WriteTip, At, Slots
<1>2. /\ op \in [Slots -> OperationType \cup {None}] /\ chain \in Seq(EntryType)
      /\ ledger \in LedgerType /\ TypeOK
  BY DEF IInv, TypeOK
<1>3. op[s] \in OperationType /\ op[s].next \in LedgerType
  BY <1>1, TypedOp
<1>4. /\ next.id = op[s].next.id /\ next.rev = op[s].next.rev /\ next.epoch = op[s].next.epoch
      /\ next.prev = (IF op[s].next.rev = 1 THEN op[s].next.prev ELSE ledger.id)
      /\ next \in LedgerType
  BY <1>2, <1>3, AdvanceOf
<1> HIDE DEF next
<1>5. /\ x.kind = op[s].kind /\ x.read = op[s].read /\ x.goal = op[s].goal
      /\ x.phase = "state" /\ x.next = next /\ x.before = Files
  BY <1>3 DEF OperationType
<1>6. op'[s] = x /\ \A t \in Slots : t # s => op'[t] = op[t]
  BY <1>1, <1>2
<1> HIDE DEF x, s
<1>7. Shape(s, op[s]) /\ \A t \in Slots : op[t] # None => Shape(t, op[t])
  BY <1>1 DEF SInv, Shaped
<1>8. Shape(s, x)
  BY <1>1, <1>4, <1>5, <1>7 DEF Shape, Chained, Appended
<1>9. Ages
  <2>1. ~Stored(op[s]) /\ op[s].phase \notin InTransition
    BY <1>1 DEF Stored, InTransition
  <2>2. ASSUME NEW t \in Slots PROVE Later(t)
    BY <1>1, <1>4, <1>5, <1>6, <1>7, <1>8, <2>1 DEF Later
  <2>3. ASSUME NEW f \in Backups' PROVE f \in Backups \/ f = Files
    <3>1. \/ journal' # None /\ f = journal'.before
          \/ \E t \in Slots : op'[t] # None /\ HasBefore(op'[t]) /\ f = op'[t].before
      BY <2>3 DEF Backups, HasBefore
    <3> QED
      BY <1>1, <1>5, <1>6, <3>1, BackupIn
  <2> QED
    BY <1>1, <2>2, <2>3 DEF Ages, BackupsAge, JournalAges, AckedAges
<1>10. next.id \in 1..ids /\ next.prev \in 0..ids /\ Named(next.prev)
  <2>1. op[s].next.id \in 1..ids /\ op[s].next.prev \in 0..ids /\ ledger.id \in 1..ids
    BY <1>1 DEF SInv, Numbered, Bounded
  <2>2. Named(op[s].next.prev) /\ Named(ledger.id)
    BY <1>1 DEF Named, Names
  <2> QED
    BY <1>2, <1>4, <2>1, <2>2 DEF TypeOK
<1>11. /\ Bounded(ledger, chain)'
       /\ \A n : Names(ledger', chain', n) => Named(n)
  <2>1. /\ Bounded(ledger, Append(chain, Entry(next)))
        /\ \A n : Names(ledger, Append(chain, Entry(next)), n) => Named(n)
    BY <1>2, <1>4, <1>10, BackedUp, Appending
  <2> QED
    BY <1>1, <2>1 DEF Bounded
<1>12. ASSUME NEW t \in Slots, op'[t] # None, op'[t].phase \in InTransition
       PROVE  op[t] # None /\ op[t].phase \in InTransition /\ InHand(t)'
  <2>1. t # s /\ op'[t] = op[t]
    BY <1>5, <1>6, <1>12 DEF InTransition
  <2> QED
    BY <1>1, <1>12, <2>1, HandKept DEF SInv, OneTransition
<1>13. journal' # None /\ task' # journal'.before.task => ledger'.id # journal'.before.ledger.id
  BY <1>1 DEF SInv, OneTransition
<1> DEFINE X == {}
<1>14. /\ \A n : Names(ledger', chain', n) => Named(n) \/ n \in X
       /\ \A t \in Slots : op'[t] # None /\ ~Stored(op'[t]) => op'[t].next.id \notin X
  BY <1>11
<1> HIDE DEF X
<1>15. SInv' /\ Onward(X)
  BY <1>1, <1>9, <1>11, <1>12, <1>13, <1>14, Coheres
<1> QED
  BY <1>15 DEF X

LEMMA WriteKeepsS ==
  ASSUME IInv, SInv, WriteState
  PROVE  SInv' /\ Onward({op["agents"].next.id})
<1> DEFINE s == "agents"
<1>1. /\ s \in Slots /\ op[s] # None /\ op[s].phase = "state" /\ ledger' = op[s].next /\ Done(s)
      /\ Acknowledge(s, op[s].next)
      /\ chain' = chain /\ task' = task /\ journal' = journal /\ ids' = ids
  BY DEF WriteState, At, Slots
<1>2. op'[s] = None /\ \A t \in Slots : t # s => op'[t] = op[t]
  BY <1>1, Over
<1>3. Ages
  BY <1>1, Dropped
<1>4. ~Stored(op[s])
  BY <1>1 DEF Stored
<1>5. Bounded(ledger, chain)'
  BY <1>1 DEF SInv, Numbered, Bounded
<1> DEFINE X == {op[s].next.id}
<1>6. \A n : Names(ledger', chain', n) => Named(n) \/ n \in X
  BY <1>1 DEF Names, Named
<1>7. \A t \in Slots : op'[t] # None /\ ~Stored(op'[t]) => op'[t].next.id \notin X
  BY <1>1, <1>2 DEF SInv, NextIsNew, Slots
<1>8. ASSUME NEW t \in Slots, op'[t] # None, op'[t].phase \in InTransition
       PROVE  op[t] # None /\ op[t].phase \in InTransition /\ InHand(t)'
  <2>1. t # "agents" /\ op'[t] = op[t]
    BY <1>2, <1>8
  <2>2. InHand(t) /\ HasBefore(op[t])
    BY <1>8, <2>1 DEF SInv, OneTransition, HasBefore
  <2>3. ledger'.id # op[t].before.ledger.id
    BY <1>1, <1>4, <1>8, <2>1, <2>2, Unstored
  <2> QED
    BY <1>1, <1>8, <2>1, <2>2, <2>3, HandKept
<1>9. journal' # None /\ task' # journal'.before.task => ledger'.id # journal'.before.ledger.id
  BY <1>1, <1>4, Unstored
<1> HIDE DEF X
<1>10. SInv' /\ Onward(X)
  BY <1>1, <1>3, <1>5, <1>6, <1>7, <1>8, <1>9, Coheres
<1> QED
  BY <1>10 DEF X

\* Steps that write the chain.
LEMMA CoheresChained ==
  ASSUME IInv, SInv, ids' = ids, Ages, ledger' = ledger, task' = task,
         journal' = None \/ journal' = journal,
         Bounded(ledger, chain'), \A n : Names(ledger, chain', n) => Named(n),
         \A t \in Slots : op'[t] # None /\ op'[t].phase \in InTransition =>
            op[t] # None /\ op[t].phase \in InTransition /\ InHand(t)'
  PROVE  SInv' /\ Onward({})
<1>1. Bounded(ledger, chain)'
  BY DEF Bounded
<1>2. \A n : Names(ledger', chain', n) => Named(n)
  OBVIOUS
<1>3. journal' # None /\ task' # journal'.before.task => ledger'.id # journal'.before.ledger.id
  BY DEF SInv, OneTransition
<1> DEFINE X == {}
<1>4. \A n : Names(ledger', chain', n) => Named(n) \/ n \in X
  BY <1>2
<1>5. \A t \in Slots : op'[t] # None /\ ~Stored(op'[t]) => op'[t].next.id \notin X
  OBVIOUS
<1> HIDE DEF X
<1>6. SInv' /\ Onward(X)
  BY <1>1, <1>3, <1>4, <1>5, Coheres
<1> QED
  BY <1>6 DEF X

LEMMA SaveFailsKeepsS ==
  ASSUME IInv, SInv, SaveFails
  PROVE  SInv' /\ Onward({})
<1> DEFINE s == "agents"
<1>1. /\ s \in Slots /\ op[s] # None /\ op[s].phase = "state" /\ chain' = op[s].before.chain
      /\ Done(s) /\ ledger' = ledger /\ task' = task /\ journal' = journal /\ ids' = ids
      /\ acked' = acked
  BY DEF SaveFails, At, Slots
<1>2. op'[s] = None /\ \A t \in Slots : t # s => op'[t] = op[t]
  BY <1>1, Over
<1>3. Ages
  BY <1>1, Dropped
<1>4. /\ Bounded(op[s].before.ledger, op[s].before.chain) /\ Bounded(ledger, chain)
      /\ \A n : Names(op[s].before.ledger, op[s].before.chain, n) => Named(n)
      /\ \A n : Names(ledger, chain, n) => Named(n)
  BY <1>1, BackedUp DEF HasBefore
<1>5. Bounded(ledger, chain') /\ \A n : Names(ledger, chain', n) => Named(n)
  BY <1>1, <1>4 DEF Bounded, Names
<1>6. ASSUME NEW t \in Slots, op'[t] # None, op'[t].phase \in InTransition
      PROVE  op[t] # None /\ op[t].phase \in InTransition /\ InHand(t)'
  <2>1. t # s /\ op'[t] = op[t]
    BY <1>2, <1>6
  <2> QED
    BY <1>1, <1>6, <2>1, HandKept DEF SInv, OneTransition
<1> HIDE DEF s
<1> QED
  BY <1>1, <1>3, <1>5, <1>6, CoheresChained

LEMMA BeginKeepsS ==
  ASSUME IInv, SInv, NEW s \in Slots, BeginTransition(s)
  PROVE  SInv' /\ Onward({})
<1> DEFINE o == op[s]
           next == IF o.kind \in Chained THEN Advance(o.next) ELSE o.next
           goal == IF o.kind = "register"
                   THEN [from |-> task, to |-> [task EXCEPT !.used = @ + 1]] ELSE o.goal
           x == [o EXCEPT !.phase = "ledger", !.next = next, !.goal = goal, !.before = Files]
           j == [before |-> Files, chained |-> o.kind \in Chained,
                 after |-> [ledger |-> next, chain |-> Append(chain, Entry(next)),
                            task |-> goal.to]]
<1>1. /\ o # None /\ o.phase = "begin" /\ ~TaskLocked /\ goal.from = task
      /\ op' = [op EXCEPT ![s] = x] /\ journal' = j
      /\ ledger' = ledger /\ chain' = chain /\ task' = task /\ ids' = ids /\ acked' = acked
  BY DEF BeginTransition, At
<1>2. /\ op \in [Slots -> OperationType \cup {None}] /\ chain \in Seq(EntryType)
      /\ ledger \in LedgerType /\ TypeOK
  BY DEF IInv, TypeOK
<1>3. o \in OperationType /\ o.next \in LedgerType /\ Shape(s, o)
  BY <1>1, TypedOp DEF SInv, Shaped
<1>4. o.next.rev >= 2 /\ o.next.rev # 1
  BY <1>1, <1>3 DEF Shape, LedgerType
<1>5. /\ next.id = o.next.id /\ next.rev = o.next.rev /\ next.epoch = o.next.epoch
      /\ next.prev = IF o.kind \in Chained THEN ledger.id ELSE o.next.prev
  BY <1>2, <1>3, <1>4, AdvanceOf
<1>6. /\ j.before = Files /\ j.after.ledger = next /\ j.chained = (o.kind \in Chained)
      /\ Files.ledger = ledger /\ Files.task = task
  BY DEF Files
<1> HIDE DEF next, goal, j
<1>7. /\ x.kind = o.kind /\ x.read = o.read /\ x.goal = goal
      /\ x.phase = "ledger" /\ x.next = next /\ x.before = Files
  BY <1>3 DEF OperationType
<1>8. op'[s] = x /\ \A t \in Slots : t # s => op'[t] = op[t]
  BY <1>1, <1>2
<1> HIDE DEF x, o
<1>9. \A t \in Slots : op[t] # None => Shape(t, op[t]) /\ op[t].phase \notin InTransition
  BY <1>1 DEF SInv, Shaped, TaskLocked
<1>10. Shape(s, x)
  BY <1>1, <1>3, <1>4, <1>5, <1>7 DEF Shape, Chained, Appended
<1>11. ~Stored(o) /\ x.phase \in InTransition
  BY <1>1, <1>7 DEF Stored, InTransition
<1>12. Ages
  <2>1. ASSUME NEW t \in Slots PROVE Later(t)
    BY <1>1, <1>4, <1>5, <1>7, <1>8, <1>9, <1>10, <1>11 DEF Later, o
  <2>2. ASSUME NEW f \in Backups' PROVE f \in Backups \/ f = Files
    <3>1. \/ journal' # None /\ f = journal'.before
          \/ \E t \in Slots : op'[t] # None /\ HasBefore(op'[t]) /\ f = op'[t].before
      BY <2>2 DEF Backups, HasBefore
    <3> QED
      BY <1>1, <1>6, <1>7, <1>8, <3>1, BackupIn
  <2>3. JournalAges
    BY <1>1, <1>5, <1>6, <1>8, <1>11 DEF JournalAges, o
  <2> QED
    BY <1>1, <2>1, <2>2, <2>3 DEF Ages, BackupsAge, AckedAges
<1>13. ASSUME NEW t \in Slots, op'[t] # None, op'[t].phase \in InTransition
       PROVE  t = s /\ InHand(t)'
  <2>1. t = s
    BY <1>8, <1>9, <1>13
  <2>2. /\ x.before.task = x.goal.from /\ task' = x.goal.from
        /\ x.kind \in Chained => x.next.prev = x.before.ledger.id
        /\ ledger' = x.before.ledger
        /\ journal'.before = x.before /\ journal'.after.ledger = x.next
        /\ journal'.chained <=> x.kind \in Chained
    BY <1>1, <1>5, <1>6, <1>7
  <2> QED
    BY <1>7, <1>8, <2>1, <2>2 DEF InHand
<1>14. Numbered' /\ Shaped' /\ NextIsNew'
  <2>1. Bounded(ledger, chain)' /\ \A n : Names(ledger', chain', n) => Named(n)
    BY <1>1, BackedUp DEF Bounded
  <2> DEFINE X == {}
  <2>2. /\ \A n : Names(ledger', chain', n) => Named(n) \/ n \in X
        /\ \A t \in Slots : op'[t] # None /\ ~Stored(op'[t]) => op'[t].next.id \notin X
    BY <2>1
  <2> HIDE DEF X
  <2> QED
    BY <1>1, <1>12, <2>1, <2>2, NumberedAges, ShapedAges, NewAges
<1>15. journal' # None /\ task' # journal'.before.task => ledger'.id # journal'.before.ledger.id
  BY <1>1, <1>6
<1>16. OneTransition'
  BY <1>13, <1>15 DEF OneTransition
<1>17. NamedGrows({})
  <2>1. \A n : Names(ledger', chain', n) => Named(n)
    BY <1>1, BackedUp
  <2> QED
    BY <1>12, <2>1, NamedAges DEF NamedGrows
<1> QED
  BY <1>12, <1>14, <1>16, <1>17 DEF SInv, Onward

\* The operation in transition, one phase on.
LEMMA HandOn ==
  ASSUME IInv, SInv, NEW s \in Slots, NEW phase, op[s] # None, op[s].phase \in InTransition,
         Goto(s, phase), journal' = None \/ journal' = journal,
         \/ ledger' = ledger
         \/ ledger' = op[s].next /\ op[s].phase = "ledger",
         ledger' = ledger => op[s].phase # "ledger",
         phase \in {"chained", "task", "context", "clean"},
         phase \in {"chained", "task"} => task' = task /\ op[s].phase \in {"ledger", "chained"}
  PROVE  \A t \in Slots : op'[t] # None /\ op'[t].phase \in InTransition =>
            op[t] # None /\ op[t].phase \in InTransition /\ InHand(t)'
<1>1. /\ \A t \in Slots : t # s => op'[t] = op[t]
      /\ op'[s].kind = op[s].kind /\ op'[s].next = op[s].next
      /\ op'[s].goal = op[s].goal /\ op'[s].before = op[s].before
      /\ op'[s].phase = phase
  BY Phased
<1>2. InHand(s) /\ HasBefore(op[s])
  BY DEF SInv, OneTransition, HasBefore
<1>3. ledger'.id # op[s].before.ledger.id
  <2>1. CASE ledger' = op[s].next /\ op[s].phase = "ledger"
    <3>1. ~Stored(op[s])
      BY <2>1 DEF Stored
    <3> QED
      BY <1>2, <2>1, <3>1, Unstored
  <2> QED
    BY <1>2, <2>1 DEF InHand
<1>4. s = "agents" => ledger' = op[s].next
  BY <1>2 DEF InHand
<1>5. InHand(s)'
  <2>1. op'[s].before.task = op'[s].goal.from
    BY <1>1, <1>2 DEF InHand
  <2>2. op'[s].phase \in {"ledger", "chained", "task"} => task' = op'[s].goal.from
    BY <1>1, <1>2 DEF InHand
  <2>3. ledger'.id # op'[s].before.ledger.id /\ op'[s].phase # "ledger"
    BY <1>1, <1>3
  <2>4. /\ op'[s].kind \in Chained => op'[s].next.prev = op'[s].before.ledger.id
        /\ s = "agents" => ledger' = op'[s].next
    BY <1>1, <1>2, <1>4 DEF InHand
  <2>5. journal' # None =>
          /\ journal'.before = op'[s].before /\ journal'.after.ledger = op'[s].next
          /\ journal'.chained <=> op'[s].kind \in Chained
    BY <1>1, <1>2 DEF InHand
  <2> QED
    BY <2>1, <2>2, <2>3, <2>4, <2>5 DEF InHand
<1>6. \A t \in Slots : op'[t] # None /\ op'[t].phase \in InTransition => t = s
  BY <1>1 DEF SInv, OneTransition
<1> QED
  BY <1>5, <1>6

\* The phases of a transition, and the command they belong to.
LEMMA GoesOn ==
  ASSUME IInv, SInv, NEW s \in Slots, NEW phase, op[s] # None, op[s].phase \in InTransition,
         Goto(s, phase), acked' = acked, journal' = None \/ journal' = journal,
         phase \in {"chained", "task", "context", "clean"},
         phase = "chained" => op[s].kind \in Chained
  PROVE  Ages /\ Stored(op'[s])
<1>1. op'[s].kind = op[s].kind /\ op'[s].next = op[s].next /\ op'[s].phase = phase
  BY Phased
<1>2. Shape(s, op[s])
  BY DEF SInv, Shaped
<1>3. Shape(s, op'[s])
  BY <1>1, <1>2 DEF Shape, InTransition
<1>4. HasBefore(op[s]) /\ Stored(op'[s]) /\ phase \in InTransition
  BY <1>1 DEF HasBefore, Stored, InTransition
<1> QED
  BY <1>3, <1>4, Moved

LEMMA LedgerKeepsS ==
  ASSUME IInv, SInv, NEW s \in Slots, StoreLedger(s)
  PROVE  SInv' /\ Onward({op[s].next.id})
<1> DEFINE phase == IF op[s].kind \in Chained THEN "chained" ELSE "task"
<1>1. /\ op[s] # None /\ op[s].phase = "ledger" /\ Goto(s, phase) /\ ledger' = op[s].next
      /\ chain' = chain /\ task' = task /\ journal' = journal /\ ids' = ids /\ acked' = acked
  BY DEF StoreLedger, At
<1>2. /\ op[s].phase \in InTransition /\ phase \in {"chained", "task"}
      /\ phase = "chained" => op[s].kind \in Chained
  BY <1>1 DEF InTransition
<1> HIDE DEF phase
<1>3. Ages /\ Stored(op'[s])
  BY <1>1, <1>2, GoesOn
<1>4. ~Stored(op[s])
  BY <1>1 DEF Stored
<1>5. Bounded(ledger, chain)'
  BY <1>1 DEF SInv, Numbered, Bounded
<1> DEFINE X == {op[s].next.id}
<1>6. \A n : Names(ledger', chain', n) => Named(n) \/ n \in X
  BY <1>1 DEF Names, Named
<1>7. \A t \in Slots : op'[t] # None /\ ~Stored(op'[t]) => op'[t].next.id \notin X
  BY <1>1, <1>3, Phased DEF SInv, NextIsNew, Slots
<1>8. \A t \in Slots : op'[t] # None /\ op'[t].phase \in InTransition =>
         op[t] # None /\ op[t].phase \in InTransition /\ InHand(t)'
  <2>1. ledger' # ledger
    BY <1>1, <1>4, Unstored
  <2> QED
    BY <1>1, <1>2, <2>1, HandOn
<1>9. journal' # None /\ task' # journal'.before.task => ledger'.id # journal'.before.ledger.id
  BY <1>1, <1>4, Unstored
<1> HIDE DEF X
<1>10. SInv' /\ Onward(X)
  BY <1>1, <1>3, <1>5, <1>6, <1>7, <1>8, <1>9, Coheres
<1> QED
  BY <1>10 DEF X

LEMMA ChainKeepsS ==
  ASSUME IInv, SInv, NEW s \in Slots, StoreChain(s)
  PROVE  SInv' /\ Onward({})
<1>1. /\ op[s] # None /\ op[s].phase = "chained" /\ Goto(s, "task")
      /\ chain' = Append(op[s].before.chain, Entry(op[s].next))
      /\ ledger' = ledger /\ task' = task /\ journal' = journal /\ ids' = ids /\ acked' = acked
  BY DEF StoreChain, At
<1>2. op[s].phase \in InTransition /\ HasBefore(op[s])
  BY <1>1 DEF InTransition, HasBefore
<1>3. Ages
  BY <1>1, <1>2, GoesOn
<1>4. op[s].next \in LedgerType /\ op[s].before.chain \in Seq(EntryType)
  BY <1>1, <1>2, TypedOp
<1>5. Bounded(ledger, chain') /\ \A n : Names(ledger, chain', n) => Named(n)
  <2>1. /\ Bounded(op[s].before.ledger, op[s].before.chain) /\ Bounded(ledger, chain)
        /\ \A n : Names(op[s].before.ledger, op[s].before.chain, n) => Named(n)
        /\ \A n : Names(ledger, chain, n) => Named(n)
    BY <1>1, <1>2, BackedUp
  <2>2. /\ Bounded(ledger, op[s].before.chain)
        /\ \A n : Names(ledger, op[s].before.chain, n) => Named(n)
    BY <2>1 DEF Bounded, Names
  <2>3. /\ op[s].next.id \in 1..ids /\ op[s].next.prev \in 0..ids /\ Named(op[s].next.prev)
    BY <1>1 DEF SInv, Numbered, Named
  <2> QED
    BY <1>1, <1>4, <2>2, <2>3, Appending
<1>6. \A t \in Slots : op'[t] # None /\ op'[t].phase \in InTransition =>
         op[t] # None /\ op[t].phase \in InTransition /\ InHand(t)'
  BY <1>1, <1>2, HandOn
<1> QED
  BY <1>1, <1>3, <1>5, <1>6, CoheresChained

LEMMA TaskKeepsS ==
  ASSUME IInv, SInv, NEW s \in Slots, StoreTask(s)
  PROVE  SInv' /\ Onward({})
<1>1. /\ op[s] # None /\ op[s].phase = "task" /\ Goto(s, "context")
      /\ chain' = chain /\ ledger' = ledger /\ journal' = journal /\ ids' = ids /\ acked' = acked
  BY DEF StoreTask, At
<1>2. op[s].phase \in InTransition
  BY <1>1 DEF InTransition
<1>3. Ages
  BY <1>1, <1>2, GoesOn
<1>4. \A t \in Slots : op'[t] # None /\ op'[t].phase \in InTransition =>
         op[t] # None /\ op[t].phase \in InTransition /\ InHand(t)'
  BY <1>1, <1>2, HandOn
<1>5. Bounded(ledger, chain)' /\ \A n : Names(ledger', chain', n) => Named(n)
  BY <1>1, BackedUp DEF Bounded
<1>6. journal' # None => ledger'.id # journal'.before.ledger.id
  <2>1. InHand(s)
    BY <1>1, <1>2 DEF SInv, OneTransition
  <2> QED
    BY <1>1, <2>1 DEF InHand
<1> DEFINE X == {}
<1>7. /\ \A n : Names(ledger', chain', n) => Named(n) \/ n \in X
      /\ \A t \in Slots : op'[t] # None /\ ~Stored(op'[t]) => op'[t].next.id \notin X
  BY <1>5
<1> HIDE DEF X
<1>8. SInv' /\ Onward(X)
  BY <1>1, <1>3, <1>4, <1>5, <1>6, <1>7, Coheres
<1> QED
  BY <1>8 DEF X

LEMMA BindKeepsS ==
  ASSUME IInv, SInv, NEW s \in Slots, BindContext(s)
  PROVE  SInv' /\ Onward({})
<1>1. /\ op[s] # None /\ op[s].phase = "context" /\ Goto(s, "clean") /\ task' = task
      /\ chain' = chain /\ ledger' = ledger /\ journal' = journal /\ ids' = ids /\ acked' = acked
  BY DEF BindContext, At
<1>2. op[s].phase \in InTransition
  BY <1>1 DEF InTransition
<1>3. Ages
  BY <1>1, <1>2, GoesOn
<1>4. \A t \in Slots : op'[t] # None /\ op'[t].phase \in InTransition =>
         op[t] # None /\ op[t].phase \in InTransition /\ InHand(t)'
  BY <1>1, <1>2, HandOn
<1> QED
  BY <1>1, <1>3, <1>4, CoheresStill

\* A command in transition that ends, or goes on to append its tip.
LEMMA NoneInHand ==
  ASSUME SInv, NEW s \in Slots, op[s] # None, op[s].phase \in InTransition,
         \A t \in Slots : t # s => op'[t] = op[t],
         op'[s] # None => op'[s].phase \notin InTransition
  PROVE  \A t \in Slots : op'[t] # None => op'[t].phase \notin InTransition
BY DEF SInv, OneTransition

LEMMA CleanKeepsS ==
  ASSUME IInv, SInv, NEW s \in Slots, CleanJournal(s)
  PROVE  SInv' /\ Onward({})
<1>1. /\ op[s] # None /\ op[s].phase = "clean" /\ task' = task
      /\ chain' = chain /\ ledger' = ledger /\ journal' = None /\ ids' = ids
  BY DEF CleanJournal, At
<1>2. op[s].phase \in InTransition /\ Stored(op[s])
  BY <1>1 DEF InTransition, Stored
<1>3. CASE op[s].kind \in Appended
  <2>1. Goto(s, "tip") /\ acked' = acked
    BY <1>3 DEF CleanJournal
  <2>2. /\ op'[s].kind = op[s].kind /\ op'[s].next = op[s].next /\ op'[s].phase = "tip"
        /\ \A t \in Slots : t # s => op'[t] = op[t]
    BY <1>1, <2>1, Phased
  <2>3. Shape(s, op[s])
    BY <1>1 DEF SInv, Shaped
  <2>4. Shape(s, op'[s]) /\ Stored(op'[s]) /\ ~HasBefore(op'[s]) /\ op'[s].phase \notin InTransition
    BY <1>1, <1>3, <2>2, <2>3 DEF Shape, Stored, HasBefore, InTransition
  <2>5. Ages
    BY <1>1, <2>1, <2>4, Moved
  <2>6. \A t \in Slots : op'[t] # None => op'[t].phase \notin InTransition
    BY <1>1, <1>2, <2>2, <2>4, NoneInHand
  <2> QED
    BY <1>1, <2>5, <2>6, CoheresStill
<1>4. CASE op[s].kind \notin Appended
  <2>1. Done(s) /\ Acknowledge(s, op[s].next)
    BY <1>4 DEF CleanJournal
  <2>2. op'[s] = None /\ \A t \in Slots : t # s => op'[t] = op[t]
    BY <2>1, Over
  <2>3. Ages
    BY <1>1, <2>1, Dropped
  <2>4. \A t \in Slots : op'[t] # None => op'[t].phase \notin InTransition
    BY <1>1, <1>2, <2>2, NoneInHand
  <2> QED
    BY <1>1, <2>3, <2>4, CoheresStill
<1> QED
  BY <1>3, <1>4

LEMMA AppendKeepsS ==
  ASSUME IInv, SInv, NEW s \in Slots, AppendTip(s)
  PROVE  SInv' /\ Onward({})
<1>1. /\ op[s] # None /\ op[s].phase = "tip" /\ Done(s) /\ Acknowledge(s, op[s].next)
      /\ chain' = Append(chain, Entry(op[s].next))
      /\ ledger' = ledger /\ task' = task /\ journal' = journal /\ ids' = ids
  BY DEF AppendTip, At
<1>2. op'[s] = None /\ \A t \in Slots : t # s => op'[t] = op[t]
  BY <1>1, Over
<1>3. Ages
  BY <1>1, Dropped
<1>4. op[s].next \in LedgerType /\ chain \in Seq(EntryType)
  BY <1>1, TypedOp DEF IInv, TypeOK
<1>5. Bounded(ledger, chain') /\ \A n : Names(ledger, chain', n) => Named(n)
  <2>1. op[s].next.id \in 1..ids /\ op[s].next.prev \in 0..ids /\ Named(op[s].next.prev)
    BY <1>1 DEF SInv, Numbered, Named
  <2> QED
    BY <1>1, <1>4, <2>1, BackedUp, Appending
<1>6. ASSUME NEW t \in Slots, op'[t] # None, op'[t].phase \in InTransition
      PROVE  op[t] # None /\ op[t].phase \in InTransition /\ InHand(t)'
  <2>1. t # s /\ op'[t] = op[t]
    BY <1>2, <1>6
  <2> QED
    BY <1>1, <1>6, <2>1, HandKept DEF SInv, OneTransition
<1> QED
  BY <1>1, <1>3, <1>5, <1>6, CoheresChained

LEMMA CrashKeepsS ==
  ASSUME IInv, SInv, NEW s \in Slots, Crash(s)
  PROVE  SInv' /\ Onward({})
<1>1. /\ op[s] # None /\ Done(s) /\ acked' = acked
      /\ ledger' = ledger /\ chain' = chain /\ task' = task /\ journal' = journal /\ ids' = ids
  BY DEF Crash
<1>2. op'[s] = None /\ \A t \in Slots : t # s => op'[t] = op[t]
  BY <1>1, Over
<1>3. Ages
  BY <1>1, Dropped
<1>4. ASSUME NEW t \in Slots, op'[t] # None, op'[t].phase \in InTransition
      PROVE  op[t] # None /\ op[t].phase \in InTransition /\ InHand(t)'
  <2>1. t # s /\ op'[t] = op[t]
    BY <1>2, <1>4
  <2> QED
    BY <1>1, <1>4, <2>1, HandKept DEF SInv, OneTransition
<1> QED
  BY <1>1, <1>3, <1>4, CoheresStill

\* The files of a backup are put back, and no command is in transition then.
LEMMA PutBackKeepsS ==
  ASSUME IInv, SInv, NEW files \in Backups, NEW chained \in BOOLEAN, PutBack(files, chained), Ages,
         ids' = ids, \A t \in Slots : op'[t] # None => op'[t].phase \notin InTransition
  PROVE  SInv' /\ Onward({})
<1>1. /\ ledger' = files.ledger /\ journal' = None
      /\ chain' = IF chained THEN files.chain ELSE chain
  BY DEF PutBack
<1>2. /\ Bounded(ledger, chain) /\ Bounded(files.ledger, files.chain)
      /\ \A n : Names(files.ledger, files.chain, n) => Named(n)
      /\ \A n : Names(ledger, chain, n) => Named(n)
  BY BackedUp DEF SInv, Numbered, Named
<1>3. Bounded(ledger, chain)' /\ \A n : Names(ledger', chain', n) => Named(n)
  BY <1>1, <1>2 DEF Bounded, Names
<1> DEFINE X == {}
<1>4. /\ \A n : Names(ledger', chain', n) => Named(n) \/ n \in X
      /\ \A t \in Slots : op'[t] # None /\ ~Stored(op'[t]) => op'[t].next.id \notin X
  BY <1>3
<1> HIDE DEF X
<1>5. SInv' /\ Onward(X)
  BY <1>1, <1>3, <1>4, Coheres
<1> QED
  BY <1>5 DEF X

LEMMA RollbackKeepsS ==
  ASSUME IInv, SInv, NEW s \in Slots, Rollback(s)
  PROVE  SInv' /\ Onward({})
<1> DEFINE chained == op[s].kind \in Chained
<1>1. /\ op[s] # None /\ op[s].phase \in InTransition /\ Done(s) /\ acked' = acked /\ ids' = ids
      /\ PutBack(op[s].before, chained) /\ journal' = None /\ chained \in BOOLEAN
  BY DEF Rollback, PutBack
<1> HIDE DEF chained
<1>2. op'[s] = None /\ \A t \in Slots : t # s => op'[t] = op[t]
  BY <1>1, Over
<1>3. Ages
  BY <1>1, Dropped
<1>4. op[s].before \in Backups
  BY <1>1, BackedUp DEF HasBefore
<1>5. \A t \in Slots : op'[t] # None => op'[t].phase \notin InTransition
  BY <1>1, <1>2, NoneInHand
<1> QED
  BY <1>1, <1>3, <1>4, <1>5, PutBackKeepsS

LEMMA RestoreKeepsS ==
  ASSUME IInv, SInv, Restore
  PROVE  SInv' /\ Onward({})
<1>1. /\ journal # None /\ ~TaskLocked /\ op' = op /\ acked' = acked /\ ids' = ids
      /\ PutBack(journal.before, journal.chained) /\ journal' = None
  BY DEF Restore, PutBack
<1>2. Ages
  BY <1>1, Rested
<1>3. journal.before \in Backups /\ journal.chained \in BOOLEAN
  BY <1>1, BackedUp DEF IInv, TypeOK, JournalType
<1>4. \A t \in Slots : op'[t] # None => op'[t].phase \notin InTransition
  BY <1>1 DEF TaskLocked
<1> QED
  BY <1>1, <1>2, <1>3, <1>4, PutBackKeepsS

\* A command begins: its version is the newest.
LEMMA NewestKeepsS ==
  ASSUME IInv, SInv, NEW s \in Slots, NEW o, Begin(s, o), o.next.id = ids + 1, o.read = ledger.id,
         o.phase \in {"marker", "chain", "begin"}, Shape(s, o),
         o.next.prev \in {0, ledger.prev, ledger.id}, o.next.rev >= 1,
         o.next.epoch \in {ledger.epoch, ids + 1}
  PROVE  SInv' /\ NamedGrows({0})
<1>1. /\ op'[s] = o /\ op[s] = None /\ \A t \in Slots : t # s => op'[t] = op[t]
      /\ ids' = ids + 1 /\ ids \in Nat
      /\ ledger' = ledger /\ chain' = chain /\ task' = task /\ journal' = journal /\ acked' = acked
  BY Taken
<1>2. ~HasBefore(o) /\ ~Stored(o) /\ o.phase \notin InTransition
  BY DEF HasBefore, Stored, InTransition
<1>3. \A f \in Backups' : f \in Backups
  <2>1. journal' = None \/ journal' = journal
    BY <1>1
  <2>2. \A t \in Slots : op'[t] # None /\ HasBefore(op'[t]) =>
           op[t] # None /\ HasBefore(op[t]) /\ op'[t].before = op[t].before
    BY <1>1, <1>2
  <2>3. \A t \in Slots : (t # s => op'[t] = op[t]) /\ (t = s => ~HasBefore(op'[t]))
    BY <1>1, <1>2
  <2>4. ASSUME NEW f \in Backups' PROVE f \in Backups
    <3>1. \/ journal' # None /\ f = journal'.before
          \/ \E t \in Slots : op'[t] # None /\ HasBefore(op'[t]) /\ f = op'[t].before
      BY <2>4 DEF Backups, HasBefore
    <3> QED
      BY <1>1, <2>2, <3>1, BackupIn
  <2> QED
    BY <2>4
<1>4. Numbered /\ Bounded(ledger, chain)
  BY DEF SInv, Numbered
<1>5. \A i \in 1..ids : i \in 1..ids'
  BY <1>1
<1>6. Numbered'
  <2>1. \A l, c : Bounded(l, c) => Bounded(l, c)'
    BY <1>1 DEF Bounded
  <2>2. ASSUME NEW t \in Slots, op'[t] # None
        PROVE  /\ op'[t].next.id \in 1..ids' /\ op'[t].next.prev \in 0..ids'
               /\ op'[t].next.rev >= 1 /\ op'[t].next.epoch \in 1..ids'
               /\ op'[t].read \in 1..ids'
    <3>1. CASE t = s
      BY <1>1, <1>4, <3>1 DEF Bounded
    <3>2. CASE t # s
      BY <1>1, <1>4, <2>2, <3>2 DEF Numbered
    <3> QED
      BY <3>1, <3>2
  <2>3. /\ Bounded(ledger, chain)'
        /\ \A f \in Backups' : Bounded(f.ledger, f.chain)'
    <3>1. ledger' = ledger /\ chain' = chain
      BY <1>1
    <3>2. \A f \in Backups' : Bounded(f.ledger, f.chain)
      BY <1>3, <1>4 DEF Numbered
    <3> QED
      BY <1>4, <2>1, <3>1, <3>2 DEF Bounded
  <2>4. /\ journal' # None => journal'.after.ledger.id \in 1..ids'
        /\ \A v \in acked' : v.id \in 1..ids' /\ v.epoch \in 1..ids'
    BY <1>1, <1>4 DEF Numbered
  <2> QED
    BY <2>2, <2>3, <2>4 DEF Numbered
<1>7. Shaped'
  BY <1>1 DEF SInv, Shaped, Shape
<1>8. \A n : Named(n) => n \in 0..ids
  <2>1. \A l, c, n : Bounded(l, c) /\ Names(l, c, n) => n \in 0..ids
    BY <1>1 DEF Bounded, Names
  <2>2. \A f \in Backups : Bounded(f.ledger, f.chain)
    BY <1>4 DEF Numbered
  <2>3. \A t \in Slots : op[t] # None => op[t].next.prev \in 0..ids /\ op[t].read \in 0..ids
    BY <1>1, <1>4 DEF Numbered
  <2> QED
    BY <1>4, <2>1, <2>2, <2>3 DEF Named
<1>9. \A n : Named(n)' => Named(n) \/ n = 0
  <2>1. ASSUME NEW n, Named(n)' PROVE Named(n) \/ n = 0
    <3>1. \/ Names(ledger, chain, n)
          \/ \E f \in Backups' : Names(f.ledger, f.chain, n)
          \/ \E t \in Slots : op'[t] # None /\ n \in {op'[t].next.prev, op'[t].read}
      BY <1>1, <2>1 DEF Named, Names
    <3>2. CASE \E t \in Slots : op'[t] # None /\ n \in {op'[t].next.prev, op'[t].read}
      BY <1>1, <3>2 DEF Named, Names
    <3> QED
      BY <1>3, <3>1, <3>2 DEF Named
  <2> QED
    BY <2>1
<1>10. NextIsNew'
  <2>1. NextIsNew
    BY DEF SInv
  <2>2. \A t \in Slots : op[t] # None => op[t].next.id \in 1..ids
    BY <1>4 DEF Numbered
  <2>3. op'["agents"] # None /\ op'["escalate"] # None => op'["agents"].next.id # op'["escalate"].next.id
    BY <1>1, <2>1, <2>2 DEF NextIsNew, Slots
  <2>4. ASSUME NEW t \in Slots, op'[t] # None
        PROVE  /\ \A v \in acked' : v.id # op'[t].next.id
               /\ ~Stored(op'[t]) => \A n : Named(n)' => n # op'[t].next.id
               /\ journal' # None /\ op'[t].phase \notin InTransition =>
                     journal'.after.ledger.id # op'[t].next.id
    <3>1. CASE t = s
      BY <1>1, <1>4, <1>8, <1>9, <3>1 DEF Numbered
    <3>2. CASE t # s
      <4>1. op'[t] = op[t] /\ op[t] # None /\ op[t].next.id # 0
        BY <1>1, <2>2, <2>4, <3>2
      <4> QED
        BY <1>1, <1>9, <2>1, <4>1 DEF NextIsNew
    <3> QED
      BY <3>1, <3>2
  <2> QED
    BY <1>1, <2>1, <2>3, <2>4 DEF NextIsNew
<1>11. OneTransition'
  <2>1. \A t \in Slots : op'[t] # None /\ op'[t].phase \in InTransition =>
           op'[t] = op[t] /\ op[t] # None /\ op[t].phase \in InTransition
    BY <1>1, <1>2
  <2>2. OneTransition
    BY DEF SInv
  <2>3. \A t \in Slots : op'[t] # None /\ op'[t].phase \in InTransition => InHand(t)'
    BY <1>1, <2>1, <2>2, HandKept DEF OneTransition
  <2>4. \A t, u \in Slots :
           (op'[t] # None /\ op'[t].phase \in InTransition)
             /\ (op'[u] # None /\ op'[u].phase \in InTransition) => t = u
    BY <2>1, <2>2 DEF OneTransition
  <2>5. journal' # None /\ task' # journal'.before.task => ledger'.id # journal'.before.ledger.id
    BY <1>1, <2>2 DEF OneTransition
  <2> QED
    BY <2>3, <2>4, <2>5 DEF OneTransition
<1> QED
  BY <1>6, <1>7, <1>9, <1>10, <1>11 DEF SInv, NamedGrows

LEMMA CommandKeepsS ==
  ASSUME IInv, SInv, NEW o, Begin("agents", o), Commanded(o)
  PROVE  SInv' /\ NamedGrows({0})
<1> DEFINE s == "agents"
<1>1. s \in Slots /\ ledger.rev >= 1 /\ ledger.rev \in Nat
  BY DEF Slots, SInv, Numbered, Bounded, IInv, TypeOK, LedgerType
<1>2. /\ o.next.id = ids + 1 /\ o.read = ledger.id /\ o.phase \in {"marker", "chain", "begin"}
      /\ o.next.prev \in {0, ledger.prev, ledger.id} /\ o.next.rev >= 1
      /\ o.next.epoch \in {ledger.epoch, ids + 1}
  BY <1>1 DEF Commanded, Grows
<1>3. Shape(s, o)
  <2>1. /\ o.kind # "escalate" /\ s # "escalate"
        /\ o.kind = "save" <=> o.phase \in {"marker", "chain", "state"}
        /\ o.phase # "chained" /\ o.phase # "tip"
    BY DEF Commanded, Chained
  <2>2. \/ o.next.rev >= 2 /\ o.next.rev # 1
        \/ /\ o.kind = "save" /\ o.next.rev = 1
           /\ o.next.prev = 0 /\ o.next.epoch = o.next.id
    BY <1>1 DEF Commanded, Grows
  <2> QED
    BY <2>1, <2>2 DEF Shape
<1> HIDE DEF s
<1> QED
  BY <1>1, <1>2, <1>3, NewestKeepsS DEF s

LEMMA EscalateKeepsS ==
  ASSUME IInv, SInv, NEW o, Begin("escalate", o), Escalated(o)
  PROVE  SInv' /\ NamedGrows({0})
<1> DEFINE s == "escalate"
<1>1. s \in Slots /\ ledger.rev >= 1 /\ ledger.rev \in Nat
  BY DEF Slots, SInv, Numbered, Bounded, IInv, TypeOK, LedgerType
<1>2. /\ o.next.id = ids + 1 /\ o.read = ledger.id /\ o.phase \in {"marker", "chain", "begin"}
      /\ o.next.prev \in {0, ledger.prev, ledger.id} /\ o.next.rev >= 2
      /\ o.next.epoch \in {ledger.epoch, ids + 1}
  BY <1>1 DEF Escalated
<1>3. Shape(s, o) /\ o.next.rev >= 1
  BY <1>1, <1>2 DEF Shape, Escalated
<1> HIDE DEF s
<1> QED
  BY <1>1, <1>2, <1>3, NewestKeepsS DEF s

LEMMA InitCoheres == Init => SInv
<1> SUFFICES ASSUME Init PROVE SInv
  OBVIOUS
<1>1. PICK mode \in Modes :
         /\ ledger = Fresh(mode, TRUE)
         /\ task = [gen |-> 1, mode |-> mode, used |-> 0, open |-> TRUE]
  BY DEF Init
<1>2. /\ ledger.id = 1 /\ ledger.prev = 0 /\ ledger.rev = 1 /\ ledger.epoch = 1
  BY <1>1 DEF Fresh
<1>3. /\ Len(chain) = 1 /\ chain[1] = Entry(ledger) /\ Entry(ledger).file = 1 /\ Entry(ledger).prev = 0
  BY <1>2 DEF Init, Entry
<1>4. journal = None /\ ids = 1 /\ \A s \in Slots : op[s] = None
  BY DEF Init
<1>5. ~ \E f : f \in Backups
  BY <1>4, BackupIn
<1>6. Bounded(ledger, chain)
  BY <1>2, <1>3, <1>4 DEF Bounded
<1>7. Numbered
  <2>1. \A v \in acked : v.id \in 1..ids /\ v.epoch \in 1..ids
    BY <1>4 DEF Init
  <2> QED
    BY <1>4, <1>5, <1>6, <2>1 DEF Numbered
<1>8. Shaped /\ NextIsNew /\ OneTransition
  BY <1>4 DEF Shaped, NextIsNew, OneTransition, Slots
<1> QED
  BY <1>7, <1>8 DEF SInv

\* How the files, the journal and the commands under way hang together.
LEMMA CoherenceStep == IInv /\ SInv /\ [Next]_vars => SInv'
<1> SUFFICES ASSUME IInv, SInv, [Next]_vars PROVE SInv'
  OBVIOUS
<1>1. ledger.rev >= 1
  BY DEF SInv, Numbered, Bounded
<1>2. CASE Command
  BY <1>1, <1>2, CommandBegins, CommandKeepsS
<1>3. ASSUME NEW mode \in Modes, Escalate(mode) PROVE SInv'
  BY <1>1, <1>3, EscalateBegins, EscalateKeepsS
<1>4. CASE Observe
  BY <1>4, RestKeepsS DEF Observe
<1>5. CASE Discard
  BY <1>5, RestKeepsS DEF Discard
<1>6. CASE UNCHANGED vars
  BY <1>6, RestKeepsS DEF vars
<1>7. ASSUME NEW s \in Slots, Transition(s) PROVE SInv'
  BY <1>7, BeginKeepsS, LedgerKeepsS, ChainKeepsS, TaskKeepsS, BindKeepsS, CleanKeepsS, AppendKeepsS,
     RollbackKeepsS DEF Transition
<1> QED
  BY <1>2, <1>3, <1>4, <1>5, <1>6, <1>7, PublishKeepsS, TipKeepsS, WriteKeepsS, SaveFailsKeepsS,
     CrashKeepsS, RestoreKeepsS DEF Next, Command

(***************************************************************************)
(* The budget and the cap of the mode in TASK.                             *)
(***************************************************************************)
\* What would be undone leaves a ledger within the mode that comes back with it, and so
\* does what is about to be saved, unless it was made from what is undone.
FitsBack(files, next) ==
    /\ Fits(files.ledger, files.task.mode)
    /\ ledger \in {files.ledger, next} /\ op["agents"] # None /\ op["agents"].read # next.id =>
          Fits(op["agents"].next, files.task.mode)

CommandFits(o) ==
    /\ Fits(o.next, task.mode)
    /\ o.kind = "start" => \A mode \in Modes : Fits(o.next, mode)
    /\ o.kind = "complete" => o.goal.to.mode = o.goal.from.mode
    /\ o.kind = "register" /\ o.phase \in InTransition => o.goal.to.mode = o.goal.from.mode

EscalationFits(o) ==
    /\ Fits(o.next, o.goal.from.mode)
    /\ o.goal.to.mode > o.goal.from.mode

Within ==
    /\ Fits(ledger, task.mode)
    /\ op["agents"] # None => CommandFits(op["agents"])
    /\ op["escalate"] # None => EscalationFits(op["escalate"])
    /\ journal # None => FitsBack(journal.before, journal.after.ledger)
    /\ \A s \in Slots : op[s] # None /\ op[s].phase \in InTransition =>
          FitsBack(op[s].before, op[s].next)

BInv == reverted = {} => Within

\* Steps that leave the ledger and TASK alone and begin nothing.
LEMMA FitsStill ==
  ASSUME BInv, reverted' = {} => reverted = {}, ledger' = ledger, task' = task,
         journal' = None \/ journal' = journal,
         \A s \in Slots : op'[s] # None =>
            /\ op[s] # None
            /\ op'[s].kind = op[s].kind /\ op'[s].read = op[s].read /\ op'[s].goal = op[s].goal
            /\ \A mode : Fits(op[s].next, mode) => Fits(op'[s].next, mode)
            /\ op'[s].phase \in InTransition =>
                  /\ op[s].phase \in InTransition
                  /\ op'[s].before = op[s].before /\ op'[s].next = op[s].next
  PROVE  BInv'
<1> SUFFICES ASSUME reverted' = {} PROVE Within'
  BY DEF BInv
<1>1. Within
  BY DEF BInv
<1>2. op'["agents"] # None => CommandFits(op["agents"]) /\ op["agents"] # None
  BY <1>1 DEF Within, Slots
<1>3. op'["agents"] # None => CommandFits(op["agents"])'
  BY <1>2 DEF CommandFits, Slots
<1>4. op'["escalate"] # None => EscalationFits(op["escalate"])'
  BY <1>1 DEF Within, EscalationFits, Slots
<1>5. ASSUME NEW files, NEW next, FitsBack(files, next)
      PROVE  /\ Fits(files.ledger, files.task.mode)
             /\ ledger' \in {files.ledger, next} /\ op'["agents"] # None
                  /\ op'["agents"].read # next.id =>
                   Fits(op'["agents"].next, files.task.mode)
  BY <1>5 DEF FitsBack, Slots
<1>6. journal' # None => FitsBack(journal.before, journal.after.ledger)'
  <2>1. journal' # None => journal' = journal /\ FitsBack(journal.before, journal.after.ledger)
    BY <1>1 DEF Within
  <2> QED
    BY <1>5, <2>1 DEF FitsBack
<1>7. ASSUME NEW s \in Slots, op'[s] # None, op'[s].phase \in InTransition
      PROVE  FitsBack(op[s].before, op[s].next)'
  <2>1. FitsBack(op[s].before, op[s].next) /\ op'[s].before = op[s].before /\ op'[s].next = op[s].next
    BY <1>1, <1>7 DEF Within
  <2> QED
    BY <1>5, <2>1 DEF FitsBack
<1>8. Fits(ledger', task'.mode)
  BY <1>1 DEF Within
<1> QED
  BY <1>3, <1>4, <1>6, <1>7, <1>8 DEF Within

\* What goes on, or ends, in the slot of a command.
LEMMA FitsOn ==
  ASSUME IInv, BInv, NEW s \in Slots, reverted' = {} => reverted = {}, ledger' = ledger, task' = task,
         journal' = None \/ journal' = journal, op[s] # None,
         Done(s) \/ \E phase : Goto(s, phase) /\ (phase \in InTransition => op[s].phase \in InTransition)
  PROVE  BInv'
<1>1. CASE Done(s)
  <2>1. op'[s] = None /\ \A t \in Slots : t # s => op'[t] = op[t]
    BY <1>1, Over
  <2> QED
    BY <2>1, FitsStill
<1>2. ASSUME NEW phase, Goto(s, phase), phase \in InTransition => op[s].phase \in InTransition
      PROVE  BInv'
  <2>1. /\ \A t \in Slots : t # s => op'[t] = op[t]
        /\ op'[s].kind = op[s].kind /\ op'[s].read = op[s].read /\ op'[s].next = op[s].next
        /\ op'[s].goal = op[s].goal /\ op'[s].before = op[s].before
        /\ op'[s].phase = phase
    BY <1>2, Phased
  <2>2. \A t \in Slots : op'[t] # None =>
            /\ op[t] # None
            /\ op'[t].kind = op[t].kind /\ op'[t].read = op[t].read /\ op'[t].goal = op[t].goal
            /\ \A mode : Fits(op[t].next, mode) => Fits(op'[t].next, mode)
            /\ op'[t].phase \in InTransition =>
                  /\ op[t].phase \in InTransition
                  /\ op'[t].before = op[t].before /\ op'[t].next = op[t].next
    BY <1>2, <2>1
  <2> QED
    BY <2>2, FitsStill
<1> QED
  BY <1>1, <1>2

LEMMA PublishFits ==
  ASSUME IInv, BInv, PublishMarker
  PROVE  BInv'
<1>1. /\ "agents" \in Slots /\ op["agents"] # None /\ Goto("agents", "chain") /\ "chain" \notin InTransition
      /\ ledger' = ledger /\ task' = task /\ journal' = journal /\ reverted' = reverted
  BY DEF PublishMarker, At, Slots, InTransition
<1> QED
  BY <1>1, FitsOn

LEMMA SaveFailsFits ==
  ASSUME IInv, BInv, SaveFails
  PROVE  BInv'
<1>1. /\ "agents" \in Slots /\ op["agents"] # None /\ Done("agents")
      /\ ledger' = ledger /\ task' = task /\ journal' = journal /\ reverted \subseteq reverted'
  BY DEF SaveFails, At, Slots
<1> QED
  BY <1>1, FitsOn

LEMMA OnwardFits ==
  ASSUME IInv, BInv, NEW s \in Slots,
         StoreChain(s) \/ BindContext(s) \/ CleanJournal(s) \/ AppendTip(s) \/ Crash(s)
  PROVE  BInv'
<1>1. CASE StoreChain(s)
  <2>1. /\ op[s] # None /\ op[s].phase \in InTransition /\ Goto(s, "task")
        /\ ledger' = ledger /\ task' = task /\ journal' = journal /\ reverted' = reverted
    BY <1>1 DEF StoreChain, At, InTransition
  <2> QED
    BY <2>1, FitsOn
<1>2. CASE BindContext(s)
  <2>1. /\ op[s] # None /\ op[s].phase \in InTransition /\ Goto(s, "clean")
        /\ ledger' = ledger /\ task' = task /\ journal' = journal /\ reverted' = reverted
    BY <1>2 DEF BindContext, At, InTransition
  <2> QED
    BY <2>1, FitsOn
<1>3. CASE CleanJournal(s)
  <2>1. /\ Goto(s, "tip") \/ Done(s)
        /\ ledger' = ledger /\ task' = task /\ journal' = None /\ reverted' = reverted
    BY <1>3 DEF CleanJournal, At
  <2>2. op[s] # None /\ "tip" \notin InTransition
    BY <1>3 DEF CleanJournal, At, InTransition
  <2> QED
    BY <2>1, <2>2, FitsOn
<1>4. CASE AppendTip(s) \/ Crash(s)
  <2>1. /\ op[s] # None /\ Done(s)
        /\ ledger' = ledger /\ task' = task /\ journal' = journal /\ reverted' = reverted
    BY <1>4 DEF AppendTip, Crash, At
  <2> QED
    BY <2>1, FitsOn
<1> QED
  BY <1>1, <1>2, <1>3, <1>4

LEMMA RestFits ==
  ASSUME IInv, BInv, Observe \/ Discard \/ UNCHANGED vars
  PROVE  BInv'
<1>1. /\ ledger' = ledger /\ task' = task /\ op' = op /\ reverted' = reverted
      /\ journal' = None \/ journal' = journal
  BY DEF Observe, Discard, vars
<1> QED
  BY <1>1, FitsStill

LEMMA TipFits ==
  ASSUME IInv, BInv, WriteTip
  PROVE  BInv'
<1> DEFINE s == "agents"
           next == Advance(op[s].next)
           x == [op[s] EXCEPT !.phase = "state", !.next = next, !.before = Files]
<1>1. /\ s \in Slots /\ op[s] # None /\ op' = [op EXCEPT ![s] = x]
      /\ ledger' = ledger /\ task' = task /\ journal' = journal /\ reverted' = reverted
  BY DEF WriteTip, At, Slots
<1>2. op \in [Slots -> OperationType \cup {None}] /\ TypeOK
  BY DEF IInv, TypeOK
<1>3. op[s] \in OperationType /\ op[s].next \in LedgerType
  BY <1>1, TypedOp
<1>4. next.prep = op[s].next.prep /\ next.res = op[s].next.res /\ next.member = op[s].next.member
  BY <1>2, <1>3, AdvanceOf
<1> HIDE DEF next
<1>5. Held(next) = Held(op[s].next) /\ Team(next) = Team(op[s].next)
  BY <1>4, SameSets
<1>6. \A mode : Fits(op[s].next, mode) => Fits(next, mode)
  BY <1>5 DEF Fits, Charge, Held
<1>7. /\ x.kind = op[s].kind /\ x.read = op[s].read /\ x.goal = op[s].goal
      /\ x.phase = "state" /\ x.next = next
  BY <1>3 DEF OperationType
<1>8. op'[s] = x /\ \A t \in Slots : t # s => op'[t] = op[t]
  BY <1>1, <1>2
<1> HIDE DEF x, s
<1>9. \A t \in Slots : op'[t] # None =>
         /\ op[t] # None
         /\ op'[t].kind = op[t].kind /\ op'[t].read = op[t].read /\ op'[t].goal = op[t].goal
         /\ \A mode : Fits(op[t].next, mode) => Fits(op'[t].next, mode)
         /\ op'[t].phase \in InTransition =>
               /\ op[t].phase \in InTransition
               /\ op'[t].before = op[t].before /\ op'[t].next = op[t].next
  BY <1>1, <1>6, <1>7, <1>8 DEF InTransition
<1> QED
  BY <1>1, <1>9, FitsStill

LEMMA CommandBegunFits ==
  ASSUME IInv, SInv, BInv, NEW o, Begin("agents", o), Commanded(o)
  PROVE  BInv'
<1> SUFFICES ASSUME reverted' = {} PROVE Within'
  BY DEF BInv
<1>1. /\ op'["agents"] = o /\ op["agents"] = None /\ op'["escalate"] = op["escalate"]
      /\ \A t \in Slots : t # "agents" => op'[t] = op[t]
      /\ ledger' = ledger /\ task' = task /\ journal' = journal /\ reverted' = reverted
      /\ "agents" \in Slots /\ "escalate" \in Slots
  <2>1. "agents" \in Slots /\ "escalate" \in Slots
    BY DEF Slots
  <2> QED
    BY <2>1, Taken
<1>2. Within /\ task.mode \in Modes
  BY <1>1 DEF BInv, IInv, TypeOK, TaskType
<1>3. \/ Childless(o.next)
      \/ (Fits(ledger, task.mode) => Fits(o.next, task.mode)) /\ o.kind # "start"
  BY DEF Commanded, Grows
<1>4. Fits(o.next, task.mode) /\ (o.kind = "start" => \A mode \in Modes : Fits(o.next, mode))
  BY <1>2, <1>3, ChildlessFits DEF Within
<1>5. CommandFits(o)
  <2>1. o.phase \notin InTransition
    BY DEF Commanded, InTransition
  <2>2. o.kind = "complete" => o.goal.to.mode = o.goal.from.mode
    BY DEF Commanded
  <2> QED
    BY <1>4, <2>1, <2>2 DEF CommandFits
<1>6. CommandFits(op["agents"])'
  BY <1>1, <1>5 DEF CommandFits
<1>7. op'["escalate"] # None => EscalationFits(op["escalate"])'
  BY <1>1, <1>2 DEF Within, EscalationFits
<1>8. o.read = ledger.id
  BY DEF Commanded
<1>9. journal' # None => FitsBack(journal.before, journal.after.ledger)'
  <2> SUFFICES ASSUME journal # None PROVE FitsBack(journal.before, journal.after.ledger)'
    BY <1>1
  <2>1. FitsBack(journal.before, journal.after.ledger)
    BY <1>2 DEF Within
  <2>2. ledger = journal.before.ledger => task = journal.before.task
    BY DEF SInv, OneTransition
  <2> QED
    BY <1>1, <1>4, <1>8, <2>1, <2>2 DEF FitsBack
<1>10. ASSUME NEW s \in Slots, op'[s] # None, op'[s].phase \in InTransition
       PROVE  FitsBack(op[s].before, op[s].next)'
  <2>1. s # "agents" /\ op'[s] = op[s]
    BY <1>1, <1>10 DEF Commanded, InTransition
  <2>2. FitsBack(op[s].before, op[s].next) /\ InHand(s)
    BY <1>2, <1>10, <2>1 DEF Within, SInv, OneTransition
  <2>3. ledger = op[s].before.ledger => task = op[s].before.task
    BY <2>2 DEF InHand
  <2> QED
    BY <1>1, <1>4, <1>8, <2>1, <2>2, <2>3 DEF FitsBack
<1> QED
  BY <1>1, <1>2, <1>6, <1>7, <1>9, <1>10 DEF Within

LEMMA EscalationBegunFits ==
  ASSUME IInv, SInv, BInv, NEW o, Begin("escalate", o), Escalated(o)
  PROVE  BInv'
<1> SUFFICES ASSUME reverted' = {} PROVE Within'
  BY DEF BInv
<1>1. /\ op'["escalate"] = o /\ op["escalate"] = None /\ op'["agents"] = op["agents"]
      /\ \A t \in Slots : t # "escalate" => op'[t] = op[t]
      /\ ledger' = ledger /\ task' = task /\ journal' = journal /\ reverted' = reverted
      /\ "agents" \in Slots /\ "escalate" \in Slots
  <2>1. "agents" \in Slots /\ "escalate" \in Slots
    BY DEF Slots
  <2> QED
    BY <2>1, Taken
<1>2. Within /\ task.mode \in Modes
  BY <1>1 DEF BInv, IInv, TypeOK, TaskType
<1>3. EscalationFits(o)
  BY <1>2 DEF Escalated, Within, EscalationFits
<1>4. EscalationFits(op["escalate"])'
  BY <1>1, <1>3 DEF EscalationFits
<1>5. op'["agents"] # None => CommandFits(op["agents"])'
  BY <1>1, <1>2 DEF Within, CommandFits
<1>6. journal' # None => FitsBack(journal.before, journal.after.ledger)'
  BY <1>1, <1>2 DEF Within, FitsBack
<1>7. ASSUME NEW s \in Slots, op'[s] # None, op'[s].phase \in InTransition
      PROVE  FitsBack(op[s].before, op[s].next)'
  <2>1. s # "escalate" /\ op'[s] = op[s]
    BY <1>1, <1>7 DEF Escalated, InTransition
  <2>2. FitsBack(op[s].before, op[s].next)
    BY <1>2, <1>7, <2>1 DEF Within
  <2> QED
    BY <1>1, <2>1, <2>2 DEF FitsBack
<1> QED
  BY <1>1, <1>2, <1>4, <1>5, <1>6, <1>7 DEF Within

LEMMA StateFits ==
  ASSUME IInv, BInv, WriteState
  PROVE  BInv'
<1> SUFFICES ASSUME reverted' = {} PROVE Within'
  BY DEF BInv
<1>1. /\ op["agents"] # None /\ Done("agents") /\ ledger' = op["agents"].next
      /\ task' = task /\ journal' = journal /\ reverted' = reverted
      /\ "agents" \in Slots /\ "escalate" \in Slots
  BY DEF WriteState, At, Slots
<1>2. op'["agents"] = None /\ \A t \in Slots : t # "agents" => op'[t] = op[t]
  BY <1>1, Over
<1>3. Within
  BY <1>1 DEF BInv
<1>4. Fits(ledger', task'.mode)
  BY <1>1, <1>3 DEF Within, CommandFits
<1>5. op'["escalate"] # None => EscalationFits(op["escalate"])'
  BY <1>1, <1>2, <1>3 DEF Within, EscalationFits
<1>6. journal' # None => FitsBack(journal.before, journal.after.ledger)'
  BY <1>1, <1>2, <1>3 DEF Within, FitsBack
<1>7. ASSUME NEW s \in Slots, op'[s] # None, op'[s].phase \in InTransition
      PROVE  FitsBack(op[s].before, op[s].next)'
  BY <1>2, <1>3, <1>7 DEF Within, FitsBack
<1> QED
  BY <1>2, <1>4, <1>5, <1>6, <1>7 DEF Within

\* TASK as a transition finds it.
LEMMA FoundTask ==
  ASSUME IInv, SInv, NEW s \in Slots, op[s] # None, op[s].phase \in InTransition
  PROVE  /\ op[s].before.task = op[s].goal.from
         /\ op[s].phase \in {"ledger", "chained", "task"} => task = op[s].goal.from
         /\ op[s].goal.from.mode \in Modes /\ op[s].goal.to.mode \in Modes
         /\ journal # None => journal.before = op[s].before /\ journal.after.ledger = op[s].next
         /\ \A t \in Slots : op[t] # None /\ op[t].phase \in InTransition => t = s
<1>1. InHand(s) /\ \A t \in Slots : op[t] # None /\ op[t].phase \in InTransition => t = s
  BY DEF SInv, OneTransition
<1>2. op[s].goal \in GoalType
  BY TypedOp
<1>3. op[s].goal.from.mode \in Modes /\ op[s].goal.to.mode \in Modes
  BY <1>2 DEF GoalType, TaskType
<1> QED
  BY <1>1, <1>3 DEF InHand

LEMMA StoredFits ==
  ASSUME IInv, SInv, BInv, NEW s \in Slots, StoreLedger(s)
  PROVE  BInv'
<1> SUFFICES ASSUME reverted' = {} PROVE Within'
  BY DEF BInv
<1> DEFINE phase == IF op[s].kind \in Chained THEN "chained" ELSE "task"
<1>1. /\ op[s] # None /\ op[s].phase = "ledger" /\ Goto(s, phase) /\ ledger' = op[s].next
      /\ task' = task /\ journal' = journal /\ reverted' = reverted
      /\ op[s].phase \in InTransition /\ phase \in InTransition
  BY DEF StoreLedger, At, InTransition
<1> HIDE DEF phase
<1>2. /\ \A t \in Slots : t # s => op'[t] = op[t]
      /\ op'[s].kind = op[s].kind /\ op'[s].read = op[s].read /\ op'[s].next = op[s].next
      /\ op'[s].goal = op[s].goal /\ op'[s].before = op[s].before
      /\ op'[s].phase = phase
  BY <1>1, Phased
<1>3. \A t \in Slots : op'[t] # None =>
         /\ op[t] # None
         /\ op'[t].kind = op[t].kind /\ op'[t].read = op[t].read /\ op'[t].next = op[t].next
         /\ op'[t].goal = op[t].goal
         /\ op'[t].phase \in InTransition => op[t].phase \in InTransition /\ op'[t].before = op[t].before
  BY <1>1, <1>2
<1>4. Within
  BY <1>1 DEF BInv
<1>5. "agents" \in Slots /\ "escalate" \in Slots /\ (s = "agents" \/ s = "escalate")
  BY DEF Slots
<1>6. op[s].before.task = task /\ op[s].goal.from = task
  BY <1>1, FoundTask
<1>7. Fits(ledger', task'.mode)
  BY <1>1, <1>4, <1>5, <1>6 DEF Within, CommandFits, EscalationFits
<1>8. op'["agents"] # None => CommandFits(op["agents"])'
  <2> SUFFICES ASSUME op'["agents"] # None PROVE CommandFits(op["agents"])'
    OBVIOUS
  <2>1. CommandFits(op["agents"])
    BY <1>3, <1>4, <1>5 DEF Within
  <2> QED
    BY <1>1, <1>3, <1>5, <2>1 DEF CommandFits
<1>9. op'["escalate"] # None => EscalationFits(op["escalate"])'
  BY <1>3, <1>4, <1>5 DEF Within, EscalationFits
<1>10. FitsBack(op[s].before, op[s].next)'
  <2>1. Fits(op[s].before.ledger, op[s].before.task.mode)
    BY <1>1, <1>4 DEF Within, FitsBack
  <2>2. op'["agents"] # None => Fits(op'["agents"].next, op[s].before.task.mode)
    BY <1>3, <1>4, <1>5, <1>6 DEF Within, CommandFits
  <2> QED
    BY <1>2, <2>1, <2>2 DEF FitsBack
<1>11. journal' # None => FitsBack(journal.before, journal.after.ledger)'
  <2>1. journal' # None => journal'.before = op'[s].before /\ journal'.after.ledger = op'[s].next
    BY <1>1, <1>2, FoundTask
  <2> QED
    BY <1>10, <2>1 DEF FitsBack
<1>12. ASSUME NEW t \in Slots, op'[t] # None, op'[t].phase \in InTransition
       PROVE  FitsBack(op[t].before, op[t].next)'
  <2>1. t = s
    BY <1>1, <1>3, <1>12, FoundTask
  <2> QED
    BY <1>10, <2>1
<1> QED
  BY <1>7, <1>8, <1>9, <1>11, <1>12 DEF Within

LEMMA TaskFits ==
  ASSUME IInv, SInv, BInv, NEW s \in Slots, StoreTask(s)
  PROVE  BInv'
<1> SUFFICES ASSUME reverted' = {} PROVE Within'
  BY DEF BInv
<1>1. /\ op[s] # None /\ op[s].phase = "task" /\ Goto(s, "context") /\ ledger' = ledger
      /\ task' = op[s].goal.to /\ journal' = journal /\ reverted' = reverted
      /\ op[s].phase \in InTransition /\ "context" \in InTransition
  BY DEF StoreTask, At, InTransition
<1>2. /\ \A t \in Slots : t # s => op'[t] = op[t]
      /\ op'[s].kind = op[s].kind /\ op'[s].read = op[s].read /\ op'[s].next = op[s].next
      /\ op'[s].goal = op[s].goal /\ op'[s].before = op[s].before
      /\ op'[s].phase = "context"
  BY <1>1, Phased
<1>3. \A t \in Slots : op'[t] # None =>
         /\ op[t] # None
         /\ op'[t].kind = op[t].kind /\ op'[t].read = op[t].read /\ op'[t].next = op[t].next
         /\ op'[t].goal = op[t].goal
         /\ op'[t].phase \in InTransition => op[t].phase \in InTransition /\ op'[t].before = op[t].before
  BY <1>1, <1>2
<1>4. Within
  BY <1>1 DEF BInv
<1>5. "agents" \in Slots /\ "escalate" \in Slots /\ (s = "agents" \/ s = "escalate")
  BY DEF Slots
<1>6. task = op[s].goal.from /\ op[s].goal.from.mode \in Modes /\ op[s].goal.to.mode \in Modes
  BY <1>1, FoundTask
\* What fits the mode that was fits the mode to be.
<1>7. \/ \A l : Fits(l, task.mode) => Fits(l, task'.mode)
      \/ s = "agents" /\ op[s].kind = "start"
  <2>1. CASE s = "escalate"
    <3>1. EscalationFits(op[s])
      BY <1>1, <1>4, <2>1 DEF Within
    <3>2. op[s].goal.to.mode > op[s].goal.from.mode /\ op[s].goal.to.mode \in Int /\ op[s].goal.from.mode \in Int
      BY <1>6, <3>1, LedgerAssumption DEF EscalationFits, Modes
    <3>3. op[s].goal.from.mode <= op[s].goal.to.mode
      BY <3>2
    <3> QED
      BY <1>1, <1>6, <3>3, FitsMore
  <2>2. CASE s = "agents"
    <3>1. CommandFits(op[s]) /\ Shape(s, op[s]) /\ op[s] \in OperationType
      BY <1>1, <1>4, <2>2, TypedOp DEF Within, SInv, Shaped
    <3>2. op[s].kind \in {"start", "register", "complete"}
      BY <1>1, <2>2, <3>1 DEF Shape, OperationType, Chained, Appended
    <3>3. op[s].kind = "start" \/ op[s].goal.to.mode = op[s].goal.from.mode
      BY <1>1, <3>1, <3>2 DEF CommandFits
    <3> QED
      BY <1>1, <1>6, <2>2, <3>3
  <2> QED
    BY <1>5, <2>1, <2>2
<1>8. ASSUME s = "agents", op[s].kind = "start"
      PROVE  ledger = op[s].next /\ Fits(op[s].next, task'.mode)
  <2>1. ledger = op[s].next
    BY <1>1, <1>8 DEF SInv, OneTransition, InHand
  <2> QED
    BY <1>1, <1>4, <1>6, <1>8, <2>1 DEF Within, CommandFits
<1>9. Fits(ledger', task'.mode)
  BY <1>1, <1>4, <1>7, <1>8 DEF Within
<1>10. op'["agents"] # None => CommandFits(op["agents"])'
  <2> SUFFICES ASSUME op'["agents"] # None PROVE CommandFits(op["agents"])'
    OBVIOUS
  <2>1. CommandFits(op["agents"])
    BY <1>3, <1>4, <1>5 DEF Within
  <2>2. Fits(op["agents"].next, task'.mode)
    BY <1>7, <1>8, <2>1 DEF CommandFits
  <2> QED
    BY <1>1, <1>3, <1>5, <2>1, <2>2 DEF CommandFits
<1>11. op'["escalate"] # None => EscalationFits(op["escalate"])'
  BY <1>3, <1>4, <1>5 DEF Within, EscalationFits
<1>12. \A files, next : FitsBack(files, next) =>
          /\ Fits(files.ledger, files.task.mode)
          /\ ledger' \in {files.ledger, next} /\ op'["agents"] # None
               /\ op'["agents"].read # next.id => Fits(op'["agents"].next, files.task.mode)
  BY <1>1, <1>3, <1>5 DEF FitsBack
<1>13. journal' # None => FitsBack(journal.before, journal.after.ledger)'
  BY <1>1, <1>4, <1>12 DEF Within, FitsBack
<1>14. ASSUME NEW t \in Slots, op'[t] # None, op'[t].phase \in InTransition
       PROVE  FitsBack(op[t].before, op[t].next)'
  <2>1. FitsBack(op[t].before, op[t].next)
    BY <1>3, <1>4, <1>14 DEF Within
  <2>2. op'[t].before = op[t].before /\ op'[t].next = op[t].next
    BY <1>3, <1>14
  <2> QED
    BY <1>12, <2>1, <2>2 DEF FitsBack
<1> QED
  BY <1>9, <1>10, <1>11, <1>13, <1>14 DEF Within

LEMMA TransitionFits ==
  ASSUME IInv, SInv, BInv, NEW s \in Slots, BeginTransition(s)
  PROVE  BInv'
<1> SUFFICES ASSUME reverted' = {} PROVE Within'
  BY DEF BInv
<1> DEFINE o == op[s]
           next == IF o.kind \in Chained THEN Advance(o.next) ELSE o.next
           goal == IF o.kind = "register"
                   THEN [from |-> task, to |-> [task EXCEPT !.used = @ + 1]] ELSE o.goal
           x == [o EXCEPT !.phase = "ledger", !.next = next, !.goal = goal, !.before = Files]
           j == [before |-> Files, chained |-> o.kind \in Chained,
                 after |-> [ledger |-> next, chain |-> Append(chain, Entry(next)),
                            task |-> goal.to]]
<1>1. /\ o # None /\ o.phase = "begin" /\ ~TaskLocked
      /\ op' = [op EXCEPT ![s] = x] /\ journal' = j
      /\ ledger' = ledger /\ task' = task /\ reverted' = reverted
  BY DEF BeginTransition, At
<1>2. /\ op \in [Slots -> OperationType \cup {None}] /\ TypeOK /\ task \in TaskType
  BY DEF IInv, TypeOK
<1>3. o \in OperationType /\ o.next \in LedgerType
  BY <1>1, TypedOp
<1>4. /\ next.id = o.next.id
      /\ next.prep = o.next.prep /\ next.res = o.next.res /\ next.member = o.next.member
  BY <1>2, <1>3, AdvanceOf
<1>5. j.before = Files /\ j.after.ledger = next /\ Files.ledger = ledger /\ Files.task = task
  BY DEF Files
<1>6. IF o.kind = "register" THEN goal.to.mode = goal.from.mode ELSE goal = o.goal
  BY <1>2 DEF TaskType
<1> HIDE DEF next, goal, j
<1>7. \A mode : Fits(o.next, mode) => Fits(next, mode)
  <2>1. Held(next) = Held(o.next) /\ Team(next) = Team(o.next)
    BY <1>4, SameSets
  <2> QED
    BY <2>1 DEF Fits, Charge, Held
<1>8. /\ x.kind = o.kind /\ x.read = o.read /\ x.goal = goal
      /\ x.phase = "ledger" /\ x.next = next /\ x.before = Files
  BY <1>3 DEF OperationType
<1>9. op'[s] = x /\ \A t \in Slots : t # s => op'[t] = op[t]
  BY <1>1, <1>2
<1> HIDE DEF x, o
<1>10. "agents" \in Slots /\ "escalate" \in Slots /\ (s = "agents" \/ s = "escalate")
  BY DEF Slots
<1>11. Within
  BY <1>1 DEF BInv
<1>12. s = "escalate" => o.kind # "register"
  BY <1>1 DEF SInv, Shaped, Shape, o
<1>13. op'["agents"] # None => CommandFits(op["agents"])'
  <2>1. CASE s = "agents"
    <3>1. CommandFits(o)
      BY <1>1, <1>11, <2>1 DEF Within, o
    <3> QED
      BY <1>1, <1>6, <1>7, <1>8, <1>9, <2>1, <3>1 DEF CommandFits
  <2>2. CASE s # "agents"
    BY <1>1, <1>9, <1>10, <1>11, <2>2 DEF Within, CommandFits
  <2> QED
    BY <2>1, <2>2
<1>14. op'["escalate"] # None => EscalationFits(op["escalate"])'
  <2>1. CASE s = "escalate"
    <3>1. EscalationFits(o)
      BY <1>1, <1>11, <2>1 DEF Within, o
    <3> QED
      BY <1>6, <1>7, <1>8, <1>9, <1>12, <2>1, <3>1 DEF EscalationFits
  <2>2. CASE s # "escalate"
    BY <1>9, <1>10, <1>11, <2>2 DEF Within, EscalationFits
  <2> QED
    BY <2>1, <2>2
<1>15. Fits(ledger, task.mode) /\ (op'["agents"] # None => Fits(op'["agents"].next, task.mode))
  <2>1. op'["agents"] # None => Fits(op'["agents"].next, task'.mode)
    BY <1>13 DEF CommandFits
  <2> QED
    BY <1>1, <1>11, <2>1 DEF Within
<1>16. journal' # None => FitsBack(journal.before, journal.after.ledger)'
  BY <1>1, <1>5, <1>15 DEF FitsBack
<1>17. ASSUME NEW t \in Slots, op'[t] # None, op'[t].phase \in InTransition
       PROVE  FitsBack(op[t].before, op[t].next)'
  <2>1. t = s
    BY <1>1, <1>9, <1>17 DEF TaskLocked
  <2> QED
    BY <1>5, <1>8, <1>9, <1>15, <2>1 DEF FitsBack
<1> QED
  BY <1>1, <1>13, <1>14, <1>15, <1>16, <1>17 DEF Within

\* A repair that undoes what no other command wrote or read.
LEMMA PutBackFits ==
  ASSUME Within, NEW files, NEW next, NEW chained, FitsBack(files, next), PutBack(files, chained),
         ~Foreign(files, next, chained), ~Misled(next),
         \A t \in Slots : op'[t] = op[t] \/ op'[t] = None,
         \A t \in Slots : op'[t] # None => op'[t].phase \notin InTransition
  PROVE  Within'
<1>1. ledger' = files.ledger /\ task' = files.task /\ journal' = None
  BY DEF PutBack
<1>2. ledger \in {files.ledger, next} /\ (op["agents"] # None => op["agents"].read # next.id)
  BY DEF Foreign, Misled
<1>3. /\ Fits(files.ledger, files.task.mode)
      /\ op["agents"] # None => Fits(op["agents"].next, files.task.mode)
  BY <1>2 DEF FitsBack
<1>4. "agents" \in Slots /\ "escalate" \in Slots
  BY DEF Slots
<1>5. op'["agents"] # None => CommandFits(op["agents"])'
  BY <1>1, <1>3, <1>4 DEF Within, CommandFits
<1>6. op'["escalate"] # None => EscalationFits(op["escalate"])'
  BY <1>4 DEF Within, EscalationFits
<1> QED
  BY <1>1, <1>3, <1>5, <1>6 DEF Within

LEMMA NothingUndone ==
  ASSUME NEW files, NEW next, NEW chained,
         reverted' = reverted \cup Undone(files, next, chained), reverted' = {}
  PROVE  reverted = {} /\ ~Foreign(files, next, chained) /\ ~Misled(next)
<1>1. reverted = {} /\ Undone(files, next, chained) = {}
  OBVIOUS
<1>2. "written" \notin Undone(files, next, chained) /\ "read" \notin Undone(files, next, chained)
  BY <1>1
<1>3. (Foreign(files, next, chained) => "written" \in Undone(files, next, chained))
      /\ (Misled(next) => "read" \in Undone(files, next, chained))
  BY DEF Undone
<1> QED
  BY <1>1, <1>2, <1>3

LEMMA RollbackFits ==
  ASSUME IInv, SInv, BInv, NEW s \in Slots, Rollback(s)
  PROVE  BInv'
<1> SUFFICES ASSUME reverted' = {} PROVE Within'
  BY DEF BInv
<1> DEFINE files == op[s].before
           next == op[s].next
           chained == op[s].kind \in Chained
<1>1. /\ op[s] # None /\ op[s].phase \in InTransition /\ Done(s) /\ PutBack(files, chained)
      /\ reverted' = reverted \cup Undone(files, next, chained)
  BY DEF Rollback
<1>2. op'[s] = None /\ \A t \in Slots : t # s => op'[t] = op[t]
  BY <1>1, Over
<1>3. reverted = {} /\ ~Foreign(files, next, chained) /\ ~Misled(next)
  BY <1>1, NothingUndone
<1>4. Within /\ FitsBack(files, next)
  BY <1>1, <1>3 DEF BInv, Within
<1>5. \A t \in Slots : op'[t] # None => op'[t].phase \notin InTransition
  BY <1>1, <1>2, NoneInHand
<1> HIDE DEF files, next, chained
<1> QED
  BY <1>1, <1>2, <1>3, <1>4, <1>5, PutBackFits

LEMMA RestoreFits ==
  ASSUME IInv, SInv, BInv, Restore
  PROVE  BInv'
<1> SUFFICES ASSUME reverted' = {} PROVE Within'
  BY DEF BInv
<1> DEFINE files == journal.before
           next == journal.after.ledger
           chained == journal.chained
<1>1. /\ journal # None /\ ~TaskLocked /\ op' = op /\ PutBack(files, chained)
      /\ reverted' = reverted \cup Undone(files, next, chained)
  BY DEF Restore
<1>2. reverted = {} /\ ~Foreign(files, next, chained) /\ ~Misled(next)
  BY <1>1, NothingUndone
<1>3. Within /\ FitsBack(files, next)
  BY <1>1, <1>2 DEF BInv, Within
<1>4. \A t \in Slots : op'[t] # None => op'[t].phase \notin InTransition
  BY <1>1 DEF TaskLocked
<1> HIDE DEF files, next, chained
<1> QED
  BY <1>1, <1>2, <1>3, <1>4, PutBackFits

LEMMA InitFits == Init => BInv
<1> SUFFICES ASSUME Init PROVE Within
  BY DEF BInv
<1>1. PICK mode \in Modes :
         /\ ledger = Fresh(mode, TRUE)
         /\ task = [gen |-> 1, mode |-> mode, used |-> 0, open |-> TRUE]
  BY DEF Init
<1>2. Childless(ledger) /\ task.mode \in Modes
  BY <1>1 DEF Fresh, Childless
<1>3. Fits(ledger, task.mode)
  BY <1>2, ChildlessFits
<1>4. journal = None /\ \A s \in Slots : op[s] = None
  BY DEF Init
<1> QED
  BY <1>3, <1>4 DEF Within, Slots

LEMMA FitsStep == IInv /\ SInv /\ BInv /\ [Next]_vars => BInv'
<1> SUFFICES ASSUME IInv, SInv, BInv, [Next]_vars PROVE BInv'
  OBVIOUS
<1>1. ledger.rev >= 1
  BY DEF SInv, Numbered, Bounded
<1>2. CASE Command
  BY <1>1, <1>2, CommandBegins, CommandBegunFits
<1>3. ASSUME NEW mode \in Modes, Escalate(mode) PROVE BInv'
  BY <1>1, <1>3, EscalateBegins, EscalationBegunFits
<1>4. ASSUME NEW s \in Slots, Transition(s) PROVE BInv'
  BY <1>4, TransitionFits, StoredFits, TaskFits, OnwardFits, RollbackFits DEF Transition
<1>5. ASSUME NEW s \in Slots, Crash(s) PROVE BInv'
  BY <1>5, OnwardFits
<1> QED
  BY <1>2, <1>3, <1>4, <1>5, RestFits, PublishFits, TipFits, StateFits, SaveFailsFits, RestoreFits
     DEF Next, Command

\* Whatever escalates, dies, is put back or restored around them, commands that check
\* one TASK and save later never leave children in the ledger that exceed the budget or
\* the cap of the mode in TASK, unless a repair undid what another command had written,
\* or what the command was working from.
THEOREM ChildrenStayWithinMode == Spec => []WithinMode
<1>1. IInv /\ [Next]_vars => IInv'
  BY IsInductive
<1>2. BInv => WithinMode
  <2>1. \A l : Team(l) = Active(l) \cup Pending(l)
    BY DEF Team
  <2> QED
    BY <2>1 DEF BInv, Within, WithinMode, Fits
<1> QED
  BY Initially, <1>1, InitCoheres, CoherenceStep, InitFits, FitsStep, <1>2, PTL DEF Spec

(***************************************************************************)
(* What has been acknowledged stays in the chain.  A chain restarts only   *)
(* with a genesis, and a genesis counts from when its version is the       *)
(* ledger; one whose command died before that is an entry nothing names.   *)
(***************************************************************************)
\* A version that is the ledger, has been, or becomes it otherwise than by a save.
Reached(n) ==
    \/ Named(n)
    \/ \E s \in Slots : op[s] # None /\ op[s].kind # "save" /\ op[s].next.id = n

\* A version in a chain with no genesis after it.
Listing(c, n) ==
    \E p \in 1..Len(c) : c[p].file = n /\ \A q \in p+1..Len(c) : c[q].rev # 1

\* A version in a chain with no genesis after it that anything names.
Anchored(c, n) ==
    \E p \in 1..Len(c) :
        /\ c[p].file = n
        /\ \A m : Reached(m) => \A q \in p+1..Len(c) : c[q].rev = 1 => c[q].file # m

AckedIn(c) == \A v \in acked : v.locked => Anchored(c, v.id)

\* How far a chain is with a command of .agents.lock.
TipIn(c, o) ==
    /\ o.phase \in {"marker", "chain"} => ~Lists(c, o.next.id)
    /\ o.phase = "state" =>
          /\ Listing(c, o.next.id)
          /\ \A j \in 1..Len(c) : c[j].file = o.next.id => c[j].rev = o.next.rev
    /\ o.kind \in Chained /\ o.phase \in {"task", "context", "clean"} => Listing(c, o.next.id)

TipKept == op["agents"] # None => TipIn(chain, op["agents"])

BeforeKept ==
    op["agents"] # None /\ op["agents"].kind \in Chained /\ op["agents"].phase \in {"ledger", "chained"} =>
        AckedIn(op["agents"].before.chain)

JournalApart == journal # None /\ journal.chained =>
    \A v \in acked : v.locked => v.id # journal.after.ledger.id

AckedKept == AckedIn(chain) /\ TipKept /\ BeforeKept /\ JournalApart

VInv == "written" \notin reverted => AckedKept

\* The same of a chain after a step.
AnchoredThen(c, n) ==
    \E p \in 1..Len(c) :
        /\ c[p].file = n
        /\ \A m : Reached(m)' => \A q \in p+1..Len(c) : c[q].rev = 1 => c[q].file # m

AckedThen(c) == \A v \in acked' : v.locked => AnchoredThen(c, v.id)

LEMMA AckedNext ==
  ASSUME NEW c
  PROVE  /\ c = chain' => (AckedIn(chain)' <=> AckedThen(c))
         /\ c = op'["agents"].before.chain => (AckedIn(op["agents"].before.chain)' <=> AckedThen(c))
<1>1. ASSUME c = chain', NEW n PROVE Anchored(chain, n)' <=> AnchoredThen(c, n)
  BY <1>1, ZenonT(60) DEF Anchored, AnchoredThen
<1>2. ASSUME c = op'["agents"].before.chain, NEW n
      PROVE  Anchored(op["agents"].before.chain, n)' <=> AnchoredThen(c, n)
  BY <1>2, ZenonT(60) DEF Anchored, AnchoredThen
<1>3. c = chain' => (AckedIn(chain)' <=> AckedThen(c))
  BY <1>1, Zenon DEF AckedIn, AckedThen
<1>4. c = op'["agents"].before.chain => (AckedIn(op["agents"].before.chain)' <=> AckedThen(c))
  BY <1>2, Zenon DEF AckedIn, AckedThen
<1> QED
  BY <1>3, <1>4

LEMMA ReachedOnward ==
  ASSUME NEW X, Onward(X)
  PROVE  \A n : Reached(n)' => Reached(n) \/ n \in X
<1> TAKE n
<1>1. Named(n)' => Named(n) \/ n \in X
  BY DEF Onward, NamedGrows
<1>2. \A s \in Slots : op'[s] # None =>
         op[s] # None /\ op'[s].kind = op[s].kind /\ op'[s].next.id = op[s].next.id
  BY DEF Onward, Ages, Later
<1> QED
  BY <1>1, <1>2 DEF Reached

LEMMA AnchorKept ==
  ASSUME NEW c, NEW n, NEW X, Anchored(c, n), \A m : Reached(m)' => Reached(m) \/ m \in X,
         \A j \in 1..Len(c) : c[j].rev = 1 => c[j].file \notin X,
         Len(c) \in Nat
  PROVE  AnchoredThen(c, n)
<1>1. PICK p \in 1..Len(c) :
        /\ c[p].file = n
        /\ \A m : Reached(m) => \A q \in p+1..Len(c) : c[q].rev = 1 => c[q].file # m
  BY DEF Anchored
<1>2. \A q \in p+1..Len(c) : q \in 1..Len(c)
  OBVIOUS
<1>3. \A m : Reached(m)' => \A q \in p+1..Len(c) : c[q].rev = 1 => c[q].file # m
  BY <1>1, <1>2
<1> QED
  BY <1>1, <1>3 DEF AnchoredThen

LEMMA AckedStays ==
  ASSUME NEW c, NEW X, AckedIn(c), \A m : Reached(m)' => Reached(m) \/ m \in X,
         \A j \in 1..Len(c) : c[j].rev = 1 => c[j].file \notin X,
         Len(c) \in Nat, \A v \in acked' : v.locked => v \in acked
  PROVE  AckedThen(c)
BY AnchorKept DEF AckedIn, AckedThen

\* Another entry in the chain.
LEMMA AppendedTo ==
  ASSUME NEW c \in Seq(EntryType), NEW e \in EntryType
  PROVE  LET d == Append(c, e)
         IN  /\ Len(c) \in Nat /\ Len(d) = Len(c) + 1 /\ Len(d) \in Nat /\ d[Len(d)] = e
             /\ \A j \in 1..Len(c) : d[j] = c[j] /\ j \in 1..Len(d)
             /\ \A j \in 1..Len(d) : j \in 1..Len(c) \/ j = Len(d)
             /\ Len(d) \in 1..Len(d)
OBVIOUS

LEMMA AnchorAppended ==
  ASSUME NEW c \in Seq(EntryType), NEW e \in EntryType
  PROVE  /\ AnchoredThen(Append(c, e), e.file) /\ Listing(Append(c, e), e.file)
         /\ \A n : Listing(c, n) /\ e.rev # 1 => Listing(Append(c, e), n)
         /\ \A n : Listing(Append(c, e), n) /\ n # e.file => Listing(c, n)
         /\ \A n : AnchoredThen(c, n) /\ (\A m : Reached(m)' => e.rev # 1 \/ e.file # m)
                     => AnchoredThen(Append(c, e), n)
         /\ \A n : Anchored(Append(c, e), n) /\ n # e.file => Anchored(c, n)
<1> DEFINE d == Append(c, e)
<1>1. /\ Len(c) \in Nat /\ Len(d) = Len(c) + 1 /\ d[Len(d)] = e
      /\ \A j \in 1..Len(c) : d[j] = c[j] /\ j \in 1..Len(d)
      /\ \A j \in 1..Len(d) : j \in 1..Len(c) \/ j = Len(d)
      /\ Len(d) \in 1..Len(d) /\ Len(d) \in Nat
  BY AppendedTo
<1> HIDE DEF d
<1>2. Len(d)+1..Len(d) = {} /\ \A p \in 1..Len(c) : \A q \in p+1..Len(d) : q \in p+1..Len(c) \/ q = Len(d)
  BY <1>1
<1>3. \A p \in 1..Len(c) : \A q \in p+1..Len(c) : q \in 1..Len(c) /\ q \in p+1..Len(d)
  BY <1>1
<1>4. AnchoredThen(d, e.file)
  BY <1>1, <1>2 DEF AnchoredThen
<1>5. Listing(d, e.file)
  BY <1>1, <1>2 DEF Listing
<1>6. \A n : Listing(c, n) /\ e.rev # 1 => Listing(d, n)
  BY <1>1, <1>2, <1>3 DEF Listing
<1>7. \A n : Listing(d, n) /\ n # e.file => Listing(c, n)
  BY <1>1, <1>2, <1>3 DEF Listing
<1>8. ASSUME NEW n, AnchoredThen(c, n), \A m : Reached(m)' => e.rev # 1 \/ e.file # m
      PROVE  AnchoredThen(d, n)
  <2>1. PICK p \in 1..Len(c) :
          /\ c[p].file = n
          /\ \A m : Reached(m)' => \A q \in p+1..Len(c) : c[q].rev = 1 => c[q].file # m
    BY <1>8 DEF AnchoredThen
  <2>2. ASSUME NEW m, Reached(m)', NEW q \in p+1..Len(d), d[q].rev = 1 PROVE d[q].file # m
    <3>1. CASE q = Len(d)
      BY <1>1, <1>8, <2>2, <3>1
    <3>2. CASE q \in p+1..Len(c)
      BY <1>1, <1>3, <2>1, <2>2, <3>2
    <3> QED
      BY <1>2, <3>1, <3>2
  <2> QED
    BY <1>1, <2>1, <2>2 DEF AnchoredThen
<1>9. ASSUME NEW n, Anchored(d, n), n # e.file PROVE Anchored(c, n)
  <2>1. PICK p \in 1..Len(d) :
          /\ d[p].file = n
          /\ \A m : Reached(m) => \A q \in p+1..Len(d) : d[q].rev = 1 => d[q].file # m
    BY <1>9 DEF Anchored
  <2>2. p \in 1..Len(c) /\ c[p].file = n
    BY <1>1, <1>9, <2>1
  <2>3. \A m : Reached(m) => \A q \in p+1..Len(c) : c[q].rev = 1 => c[q].file # m
    BY <1>1, <1>3, <2>1, <2>2
  <2> QED
    BY <2>2, <2>3 DEF Anchored
<1> QED
  BY <1>4, <1>5, <1>6, <1>7, <1>8, <1>9 DEF d

LEMMA TipNext ==
  ASSUME NEW c, NEW o
  PROVE  c = chain' /\ o = op'["agents"] => (TipIn(chain, op["agents"])' <=> TipIn(c, o))
BY DEF TipIn, Lists, Listing

\* What a chain shows of a version it still shows when it is written.
Spares(c, d, n) ==
    /\ Listing(c, n) => Listing(d, n)
    /\ \A j \in 1..Len(d) : d[j].file = n => \E i \in 1..Len(c) : c[i] = d[j]

\* A command that goes no further than its chain.
Abreast(o, p) ==
    /\ p.kind = o.kind /\ p.next.id = o.next.id /\ p.next.rev = o.next.rev
    /\ p.phase \in {"marker", "chain"} => o.phase \in {"marker", "chain"}
    /\ p.phase = "state" => o.phase = "state"
    /\ p.kind \in Chained /\ p.phase \in {"ledger", "chained"} =>
          o.phase \in {"ledger", "chained"} /\ p.before = o.before
    /\ p.kind \in Chained /\ p.phase \in {"task", "context", "clean"} =>
          o.phase \in {"task", "context", "clean"}

LEMMA TipSteady ==
  ASSUME NEW c, NEW d, NEW o, NEW p, TipIn(c, o), Abreast(o, p), Spares(c, d, o.next.id)
  PROVE  TipIn(d, p)
<1>1. p.phase \in {"marker", "chain"} => ~Lists(d, p.next.id)
  BY DEF TipIn, Abreast, Spares, Lists
<1>2. p.phase = "state" =>
         /\ Listing(d, p.next.id)
         /\ \A j \in 1..Len(d) : d[j].file = p.next.id => d[j].rev = p.next.rev
  BY DEF TipIn, Abreast, Spares
<1>3. p.kind \in Chained /\ p.phase \in {"task", "context", "clean"} => Listing(d, p.next.id)
  BY DEF TipIn, Abreast, Spares
<1> QED
  BY <1>1, <1>2, <1>3 DEF TipIn

LEMMA SameSpares == \A c, n : Spares(c, c, n)
BY DEF Spares

LEMMA AppendedSpares ==
  ASSUME NEW c \in Seq(EntryType), NEW e \in EntryType, NEW n, n # e.file
  PROVE  /\ e.rev # 1 => Spares(c, Append(c, e), n)
         /\ Spares(Append(c, e), c, n)
<1> DEFINE d == Append(c, e)
<1>1. /\ Len(c) \in Nat /\ Len(d) = Len(c) + 1 /\ d[Len(d)] = e
      /\ \A j \in 1..Len(c) : d[j] = c[j] /\ j \in 1..Len(d)
      /\ \A j \in 1..Len(d) : j \in 1..Len(c) \/ j = Len(d)
      /\ Len(d) \in 1..Len(d) /\ Len(d) \in Nat
  BY AppendedTo
<1>2. /\ Listing(c, n) /\ e.rev # 1 => Listing(d, n)
      /\ Listing(d, n) => Listing(c, n)
  BY AnchorAppended
<1> HIDE DEF d
<1>3. \A j \in 1..Len(d) : d[j].file = n => \E i \in 1..Len(c) : c[i] = d[j]
  BY <1>1
<1>4. \A j \in 1..Len(c) : c[j].file = n => \E i \in 1..Len(d) : d[i] = c[j]
  BY <1>1
<1> QED
  BY <1>2, <1>3, <1>4 DEF Spares, d

\* No genesis in a chain is of a version of X.
Beside(X, c) == \A j \in 1..Len(c) : c[j].rev = 1 => c[j].file \notin X

ReachedGrows(X) == \A m : Reached(m)' => Reached(m) \/ m \in X
AckedHere == \A v \in acked' : v.locked => v \in acked

LEMMA JournalSteady ==
  ASSUME JournalApart, journal' = None \/ journal' = journal,
         journal # None => \A v \in acked' : v.locked => v \in acked \/ v.id # journal.after.ledger.id
  PROVE  JournalApart'
BY DEF JournalApart

LEMMA TipsOn ==
  ASSUME TipKept, op'["agents"] # None => op["agents"] # None /\ Abreast(op["agents"], op'["agents"]),
         NEW d, d = chain', op'["agents"] # None => Spares(chain, d, op["agents"].next.id)
  PROVE  TipKept'
<1>1. ASSUME op'["agents"] # None PROVE TipIn(chain, op["agents"])'
  <2> DEFINE o == op["agents"]
             p == op'["agents"]
             c == chain
  <2>1. TipIn(c, o) /\ Abreast(o, p) /\ Spares(c, d, o.next.id) /\ p = op'["agents"]
    BY <1>1 DEF TipKept
  <2> HIDE DEF o, p, c
  <2>2. TipIn(d, p)
    BY <2>1, TipSteady
  <2> QED
    BY <2>1, <2>2, TipNext
<1> QED
  BY <1>1 DEF TipKept

LEMMA BeforeOn ==
  ASSUME BeforeKept, IInv, NEW X, ReachedGrows(X), AckedHere,
         op'["agents"] # None => op["agents"] # None /\ Abreast(op["agents"], op'["agents"]),
         \A c : op["agents"] # None /\ HasBefore(op["agents"]) /\ c = op["agents"].before.chain =>
                   Beside(X, c)
  PROVE  BeforeKept'
<1>1. ASSUME op'["agents"] # None, op'["agents"].kind \in Chained, op'["agents"].phase \in {"ledger", "chained"}
      PROVE  AckedIn(op["agents"].before.chain)'
  <2> DEFINE c == op["agents"].before.chain
  <2>1. /\ op["agents"] # None /\ op["agents"].kind \in Chained
        /\ op["agents"].phase \in {"ledger", "chained"}
        /\ op'["agents"].before = op["agents"].before
    BY <1>1 DEF Abreast
  <2>2. HasBefore(op["agents"]) /\ AckedIn(c) /\ c = op'["agents"].before.chain
    BY <2>1 DEF HasBefore, InTransition, BeforeKept
  <2>3. c \in Seq(EntryType)
    BY <2>1, <2>2, TypedOp DEF Slots
  <2>4. Beside(X, c)
    BY <2>1, <2>2
  <2> HIDE DEF c
  <2>5. AckedThen(c)
    <3>1. /\ Len(c) \in Nat /\ \A j \in 1..Len(c) : c[j].rev = 1 => c[j].file \notin X
          /\ \A m : Reached(m)' => Reached(m) \/ m \in X
          /\ \A v \in acked' : v.locked => v \in acked
      BY <2>3, <2>4 DEF Beside, ReachedGrows, AckedHere
    <3> QED
      BY <2>2, <3>1, AckedStays
  <2> QED
    BY <2>2, <2>5, AckedNext
<1> QED
  BY <1>1 DEF BeforeKept

LEMMA AckedOn ==
  ASSUME IInv, AckedIn(chain), NEW X, ReachedGrows(X), chain' = chain, AckedHere,
         \A c : c = chain => Beside(X, c)
  PROVE  AckedIn(chain)'
<1> DEFINE c == chain
<1>1. AckedIn(c) /\ Beside(X, c) /\ c \in Seq(EntryType) /\ c = chain'
  BY DEF IInv, TypeOK
<1> HIDE DEF c
<1>2. /\ Len(c) \in Nat /\ \A j \in 1..Len(c) : c[j].rev = 1 => c[j].file \notin X
      /\ \A m : Reached(m)' => Reached(m) \/ m \in X
      /\ \A v \in acked' : v.locked => v \in acked
  BY <1>1 DEF Beside, ReachedGrows, AckedHere
<1>3. AckedThen(c)
  BY <1>1, <1>2, AckedStays
<1> QED
  BY <1>1, <1>3, AckedNext

\* Steps that leave the chain and what is acknowledged under the lock alone.
LEMMA SteadyKeepsV ==
  ASSUME IInv, SInv, AckedKept, NEW X, ReachedGrows(X), chain' = chain, AckedHere,
         journal' = None \/ journal' = journal,
         op'["agents"] # None => op["agents"] # None /\ Abreast(op["agents"], op'["agents"]),
         \A c : c = chain \/ (op["agents"] # None /\ HasBefore(op["agents"]) /\ c = op["agents"].before.chain) =>
                   Beside(X, c)
  PROVE  AckedKept'
<1>1. AckedIn(chain) /\ TipKept /\ BeforeKept /\ JournalApart
  BY DEF AckedKept
<1>2. AckedIn(chain)'
  BY <1>1, AckedOn
<1>3. TipKept'
  <2> DEFINE d == chain
  <2>1. d = chain' /\ \A n : Spares(chain, d, n)
    BY SameSpares
  <2> HIDE DEF d
  <2> QED
    BY <1>1, <2>1, TipsOn
<1>4. BeforeKept'
  BY <1>1, BeforeOn
<1>5. JournalApart'
  BY <1>1, JournalSteady DEF AckedHere
<1> QED
  BY <1>2, <1>3, <1>4, <1>5 DEF AckedKept

LEMMA ReachedStill == ASSUME Onward({}) PROVE ReachedGrows({})
<1> DEFINE X == {}
<1>1. Onward(X)
  OBVIOUS
<1> HIDE DEF X
<1>2. ReachedGrows(X)
  BY <1>1, ReachedOnward DEF ReachedGrows
<1> QED
  BY <1>2 DEF X

LEMMA SameAbreast ==
  ASSUME op'["agents"] = op["agents"] \/ op'["agents"] = None
  PROVE  op'["agents"] # None => op["agents"] # None /\ Abreast(op["agents"], op'["agents"])
BY DEF Abreast

LEMMA StillKeepsV ==
  ASSUME IInv, SInv, AckedKept, ReachedGrows({}), chain' = chain, AckedHere,
         journal' = None \/ journal' = journal,
         op'["agents"] # None => op["agents"] # None /\ Abreast(op["agents"], op'["agents"])
  PROVE  AckedKept'
<1> DEFINE X == {}
<1>1. ReachedGrows(X) /\ \A c : Beside(X, c)
  BY DEF Beside
<1> HIDE DEF X
<1> QED
  BY <1>1, SteadyKeepsV

\* One phase on.
LEMMA PhaseAbreast ==
  ASSUME IInv, NEW s \in Slots, NEW phase, op[s] # None, Goto(s, phase),
         s = "agents" =>
            \/ phase = "chain" /\ op[s].phase = "marker"
            \/ phase = "chained" /\ op[s].phase = "ledger"
            \/ phase = "task" /\ op[s].phase = "ledger" /\ op[s].kind \notin Chained
            \/ phase = "context" /\ op[s].phase = "task"
            \/ phase = "clean" /\ op[s].phase = "context"
            \/ phase = "tip"
  PROVE  op'["agents"] # None => op["agents"] # None /\ Abreast(op["agents"], op'["agents"])
<1>1. /\ \A t \in Slots : t # s => op'[t] = op[t]
      /\ op'[s].kind = op[s].kind /\ op'[s].next = op[s].next
      /\ op'[s].before = op[s].before /\ op'[s].phase = phase
  BY Phased
<1>2. CASE s = "agents"
  BY <1>1, <1>2 DEF Abreast
<1>3. CASE s # "agents"
  BY <1>1, <1>3, SameAbreast DEF Slots
<1> QED
  BY <1>2, <1>3

LEMMA RestKeepsV ==
  ASSUME IInv, SInv, AckedKept, ids' = ids, ledger' = ledger, chain' = chain, task' = task, op' = op,
         acked' = acked, journal' = None \/ journal' = journal
  PROVE  AckedKept'
<1>1. ReachedGrows({}) /\ AckedHere
  BY RestKeepsS, ReachedStill DEF AckedHere
<1> QED
  BY <1>1, SameAbreast, StillKeepsV

LEMMA PublishKeepsV ==
  ASSUME IInv, SInv, AckedKept, PublishMarker
  PROVE  AckedKept'
<1>1. /\ "agents" \in Slots /\ op["agents"] # None /\ op["agents"].phase = "marker"
      /\ Goto("agents", "chain") /\ chain' = chain /\ journal' = journal /\ acked' = acked
  BY DEF PublishMarker, At, Slots
<1>2. ReachedGrows({}) /\ AckedHere
  BY <1>1, PublishKeepsS, ReachedStill DEF AckedHere
<1> QED
  BY <1>1, <1>2, PhaseAbreast, StillKeepsV

LEMMA LedgerKeepsV ==
  ASSUME IInv, SInv, AckedKept, NEW s \in Slots, StoreLedger(s)
  PROVE  AckedKept'
<1> DEFINE phase == IF op[s].kind \in Chained THEN "chained" ELSE "task"
<1>1. /\ op[s] # None /\ op[s].phase = "ledger" /\ Goto(s, phase)
      /\ chain' = chain /\ journal' = journal /\ acked' = acked
      /\ phase = "chained" \/ (phase = "task" /\ op[s].kind \notin Chained)
  BY DEF StoreLedger, At
<1> HIDE DEF phase
<1>2. Reached(op[s].next.id)
  <2>1. op[s].kind # "save"
    BY <1>1 DEF SInv, Shaped, Shape
  <2> QED
    BY <1>1, <2>1 DEF Reached
<1>3. ReachedGrows({})
  <2> DEFINE X == {op[s].next.id}
  <2>1. Onward(X)
    BY LedgerKeepsS
  <2>2. \A m \in X : Reached(m)
    BY <1>2
  <2> HIDE DEF X
  <2> QED
    BY <2>1, <2>2, ReachedOnward DEF ReachedGrows
<1> QED
  BY <1>1, <1>3, PhaseAbreast, StillKeepsV DEF AckedHere

LEMMA TaskKeepsV ==
  ASSUME IInv, SInv, AckedKept, NEW s \in Slots, StoreTask(s)
  PROVE  AckedKept'
<1>1. /\ op[s] # None /\ op[s].phase = "task" /\ Goto(s, "context")
      /\ chain' = chain /\ journal' = journal /\ acked' = acked
  BY DEF StoreTask, At
<1>2. ReachedGrows({}) /\ AckedHere
  BY <1>1, TaskKeepsS, ReachedStill DEF AckedHere
<1> QED
  BY <1>1, <1>2, PhaseAbreast, StillKeepsV

LEMMA BindKeepsV ==
  ASSUME IInv, SInv, AckedKept, NEW s \in Slots, BindContext(s)
  PROVE  AckedKept'
<1>1. /\ op[s] # None /\ op[s].phase = "context" /\ Goto(s, "clean")
      /\ chain' = chain /\ journal' = journal /\ acked' = acked
  BY DEF BindContext, At
<1>2. ReachedGrows({}) /\ AckedHere
  BY <1>1, BindKeepsS, ReachedStill DEF AckedHere
<1> QED
  BY <1>1, <1>2, PhaseAbreast, StillKeepsV

LEMMA CrashKeepsV ==
  ASSUME IInv, SInv, AckedKept, NEW s \in Slots, Crash(s)
  PROVE  AckedKept'
<1>1. Done(s) /\ chain' = chain /\ journal' = journal /\ acked' = acked
  BY DEF Crash
<1>2. ReachedGrows({}) /\ AckedHere
  BY <1>1, CrashKeepsS, ReachedStill DEF AckedHere
<1>3. op'["agents"] = op["agents"] \/ op'["agents"] = None
  BY <1>1, Over DEF Slots
<1> QED
  BY <1>1, <1>2, <1>3, SameAbreast, StillKeepsV

\* A command begins: its version is beyond those any chain lists.
LEMMA NewestKeepsV ==
  ASSUME IInv, SInv, AckedKept, NEW s \in Slots, NEW o, Begin(s, o), o.next.id = ids + 1,
         NamedGrows({0}), o.phase \in {"marker", "chain", "begin"}
  PROVE  AckedKept'
<1>1. /\ op'[s] = o /\ op[s] = None /\ \A t \in Slots : t # s => op'[t] = op[t]
      /\ ids \in Nat /\ chain' = chain /\ journal' = journal /\ acked' = acked
  BY Taken
<1> DEFINE X == {0, ids + 1}
<1>2. ReachedGrows(X)
  <2>1. ASSUME NEW m, Reached(m)' PROVE Reached(m) \/ m \in X
    <3>1. \/ Named(m)'
          \/ \E t \in Slots : op'[t] # None /\ op'[t].kind # "save" /\ op'[t].next.id = m
      BY <2>1 DEF Reached
    <3>2. CASE Named(m)'
      BY <3>2 DEF NamedGrows, Reached
    <3>3. CASE \E t \in Slots : op'[t] # None /\ op'[t].kind # "save" /\ op'[t].next.id = m
      BY <1>1, <3>3 DEF Reached
    <3> QED
      BY <3>1, <3>2, <3>3
  <2> QED
    BY <2>1 DEF ReachedGrows
<1>3. \A c : c = chain \/ (op["agents"] # None /\ HasBefore(op["agents"]) /\ c = op["agents"].before.chain)
        => \A j \in 1..Len(c) : c[j].file \in 1..ids
  BY BackedUp DEF Bounded, Slots
<1>4. \A k \in 1..ids : k \notin X
  BY <1>1
<1> HIDE DEF X
<1>5. \A c : c = chain \/ (op["agents"] # None /\ HasBefore(op["agents"]) /\ c = op["agents"].before.chain)
        => Beside(X, c)
  BY <1>3, <1>4 DEF Beside
<1>6. AckedHere
  BY <1>1 DEF AckedHere
<1>7. CASE s # "agents"
  <2>1. op'["agents"] = op["agents"]
    BY <1>1, <1>7 DEF Slots
  <2> QED
    BY <1>1, <1>2, <1>5, <1>6, <2>1, SameAbreast, SteadyKeepsV
<1>8. CASE s = "agents"
  <2>1. AckedIn(chain)'
    BY <1>1, <1>2, <1>5, <1>6, AckedOn DEF AckedKept
  <2>2. TipIn(chain, op["agents"])'
    <3> DEFINE c == chain
    <3>1. ~Lists(c, o.next.id)
      BY <1>1, <1>3 DEF Lists
    <3>2. c = chain' /\ o = op'["agents"]
      BY <1>1, <1>8
    <3> HIDE DEF c
    <3>3. TipIn(c, o)
      BY <3>1 DEF TipIn
    <3> QED
      BY <3>2, <3>3, TipNext
  <2>3. BeforeKept'
    BY <1>1, <1>8 DEF BeforeKept
  <2>4. JournalApart'
    BY <1>1, JournalSteady DEF AckedKept
  <2> QED
    BY <2>1, <2>2, <2>3, <2>4 DEF AckedKept, TipKept
<1> QED
  BY <1>7, <1>8

\* An entry that is appended or taken away again.
LEMMA AppendAcked ==
  ASSUME NEW c \in Seq(EntryType), NEW e \in EntryType, AckedIn(c), ReachedGrows({}),
         \A m : Reached(m)' => e.rev # 1 \/ e.file # m,
         \A v \in acked' : v.locked => v \in acked \/ v.id = e.file
  PROVE  AckedThen(Append(c, e))
<1> DEFINE X == {}
<1>1. /\ \A m : Reached(m)' => Reached(m) \/ m \in X
      /\ \A j \in 1..Len(c) : c[j].rev = 1 => c[j].file \notin X
      /\ Len(c) \in Nat
  BY DEF ReachedGrows
<1> HIDE DEF X
<1>2. ASSUME NEW v \in acked', v.locked PROVE AnchoredThen(Append(c, e), v.id)
  <2>1. CASE v \in acked
    <3>1. Anchored(c, v.id)
      BY <1>2, <2>1 DEF AckedIn
    <3>2. AnchoredThen(c, v.id)
      BY <1>1, <3>1, AnchorKept
    <3> QED
      BY <3>2, AnchorAppended
  <2>2. CASE v.id = e.file
    BY <2>2, AnchorAppended
  <2> QED
    BY <1>2, <2>1, <2>2
<1> QED
  BY <1>2 DEF AckedThen

LEMMA UnappendAcked ==
  ASSUME NEW c \in Seq(EntryType), NEW e \in EntryType, NEW d, d \in {c, Append(c, e)}, AckedIn(d),
         ReachedGrows({}), AckedHere, \A v \in acked : v.locked => v.id # e.file
  PROVE  AckedThen(c)
<1> DEFINE X == {}
<1>1. /\ \A m : Reached(m)' => Reached(m) \/ m \in X
      /\ \A j \in 1..Len(c) : c[j].rev = 1 => c[j].file \notin X
      /\ Len(c) \in Nat
  BY DEF ReachedGrows
<1> HIDE DEF X
<1>2. ASSUME NEW v \in acked, v.locked PROVE Anchored(c, v.id)
  <2>1. Anchored(d, v.id) /\ v.id # e.file
    BY <1>2 DEF AckedIn
  <2>2. CASE d = Append(c, e)
    BY <2>1, <2>2, AnchorAppended
  <2> QED
    BY <2>1, <2>2
<1>3. AckedIn(c)
  BY <1>2 DEF AckedIn
<1>4. \A v \in acked' : v.locked => v \in acked
  BY DEF AckedHere
<1> QED
  BY <1>1, <1>3, <1>4, AckedStays

LEMMA EntryOf ==
  ASSUME NEW l \in LedgerType
  PROVE  Entry(l) \in EntryType /\ Entry(l).file = l.id /\ Entry(l).rev = l.rev /\ Entry(l).prev = l.prev
BY EntryTyped DEF Entry

\* The version of a command of .agents.lock that is stored nowhere yet.
LEMMA AckedApart ==
  ASSUME SInv, NEW s \in Slots, op[s] # None
  PROVE  /\ \A v \in acked : v.locked => v.id # op[s].next.id
         /\ journal # None /\ op[s].phase \notin InTransition => journal.after.ledger.id # op[s].next.id
BY DEF SInv, NextIsNew

LEMMA TipKeepsV ==
  ASSUME IInv, SInv, AckedKept, WriteTip
  PROVE  AckedKept'
<1> DEFINE o == op["agents"]
           next == Advance(o.next)
           x == [o EXCEPT !.phase = "state", !.next = next, !.before = Files]
           d == Append(chain, Entry(next))
<1>1. /\ "agents" \in Slots /\ o # None /\ o.phase = "chain" /\ chain' = d
      /\ op' = [op EXCEPT !["agents"] = x] /\ journal' = journal /\ acked' = acked
  BY DEF WriteTip, At, Slots
<1>2. /\ op \in [Slots -> OperationType \cup {None}] /\ chain \in Seq(EntryType) /\ TypeOK
  BY DEF IInv, TypeOK
<1>3. o \in OperationType /\ o.next \in LedgerType
  BY <1>1, TypedOp
<1>4. next.id = o.next.id /\ next.rev = o.next.rev /\ next \in LedgerType
  BY <1>2, <1>3, AdvanceOf
<1>5. Entry(next) \in EntryType /\ Entry(next).file = o.next.id /\ Entry(next).rev = o.next.rev
  BY <1>4, EntryOf
<1> HIDE DEF next
<1>6. x.kind = o.kind /\ x.phase = "state" /\ x.next = next
  BY <1>3 DEF OperationType
<1>7. op'["agents"] = x
  BY <1>1, <1>2
<1> HIDE DEF x
<1>8. ReachedGrows({})
  BY TipKeepsS, ReachedStill
<1>9. ~Reached(o.next.id)
  <2>1. o.kind = "save" /\ ~Stored(o)
    BY <1>1 DEF SInv, Shaped, Shape, Stored
  <2>2. ~Named(o.next.id)
    BY <1>1, <2>1 DEF SInv, NextIsNew
  <2>3. \A s \in Slots : op[s] # None /\ op[s].kind # "save" => op[s].next.id # o.next.id
    BY <1>1, <2>1 DEF SInv, NextIsNew, Slots
  <2> QED
    BY <2>2, <2>3 DEF Reached
<1>10. ~Lists(chain, o.next.id)
  BY <1>1 DEF AckedKept, TipKept, TipIn
<1> HIDE DEF o
<1>11. AckedIn(chain)'
  <2>1. \A m : Reached(m)' => Entry(next).rev # 1 \/ Entry(next).file # m
    BY <1>5, <1>8, <1>9 DEF ReachedGrows
  <2>2. AckedThen(d)
    BY <1>1, <1>2, <1>5, <1>8, <2>1, AppendAcked DEF AckedKept
  <2> HIDE DEF d
  <2> QED
    BY <1>1, <2>2, AckedNext
<1>12. TipIn(chain, op["agents"])'
  <2>1. Listing(d, o.next.id)
    BY <1>2, <1>5, AnchorAppended
  <2>2. \A j \in 1..Len(d) : d[j].file = o.next.id => d[j].rev = o.next.rev
    <3>1. \A j \in 1..Len(d) : (j \in 1..Len(chain) /\ d[j] = chain[j]) \/ d[j] = Entry(next)
      BY <1>2, <1>5, AppendedTo
    <3> QED
      BY <1>5, <1>10, <3>1 DEF Lists
  <2> HIDE DEF d
  <2>3. TipIn(d, x)
    BY <1>4, <1>6, <2>1, <2>2 DEF TipIn
  <2> QED
    BY <1>1, <1>7, <2>3, TipNext
<1>13. BeforeKept'
  BY <1>6, <1>7 DEF BeforeKept
<1>14. JournalApart'
  BY <1>1, JournalSteady DEF AckedKept
<1> QED
  BY <1>11, <1>12, <1>13, <1>14 DEF AckedKept, TipKept

LEMMA WriteKeepsV ==
  ASSUME IInv, SInv, AckedKept, WriteState
  PROVE  AckedKept'
<1> DEFINE o == op["agents"]
           c == chain
           X == {o.next.id}
<1>1. /\ "agents" \in Slots /\ o # None /\ o.phase = "state" /\ c = chain' /\ Done("agents")
      /\ Acknowledge("agents", o.next) /\ journal' = journal
  BY DEF WriteState, At, Slots
<1>2. op'["agents"] = None
  BY <1>1, Over
<1>3. /\ c \in Seq(EntryType) /\ AckedIn(c) /\ Listing(c, o.next.id)
      /\ \A j \in 1..Len(c) : c[j].file = o.next.id => c[j].rev = o.next.rev
  BY <1>1 DEF IInv, TypeOK, AckedKept, TipKept, TipIn
<1>4. \A m : Reached(m)' => Reached(m) \/ m \in X
  BY WriteKeepsS, ReachedOnward
<1>5. o.next.rev = 1 => o.next.epoch = o.next.id
  BY <1>1 DEF SInv, Shaped, Shape
<1>6. \A v \in acked' : \/ v.id = o.next.id
                        \/ v \in acked /\ o.next.rev # 1
  BY <1>1, <1>5 DEF Acknowledge, Genesis
<1>7. AnchoredThen(c, o.next.id)
  BY <1>3 DEF Listing, AnchoredThen
<1> HIDE DEF c
<1>8. ASSUME NEW v \in acked', v.locked, v \in acked, o.next.rev # 1 PROVE AnchoredThen(c, v.id)
  <2>1. Anchored(c, v.id)
    BY <1>3, <1>8 DEF AckedIn
  <2>2. \A j \in 1..Len(c) : c[j].rev = 1 => c[j].file \notin X
    BY <1>3, <1>8
  <2>3. Len(c) \in Nat
    BY <1>3
  <2> HIDE DEF X, o
  <2> QED
    BY <1>4, <2>1, <2>2, <2>3, AnchorKept
<1> HIDE DEF X, o
<1>9. AckedThen(c)
  BY <1>6, <1>7, <1>8 DEF AckedThen
<1>10. AckedIn(chain)'
  BY <1>1, <1>9, AckedNext
<1>11. JournalApart'
  <2>1. journal # None => journal.after.ledger.id # o.next.id
    <3>1. o.phase \notin InTransition
      BY <1>1 DEF InTransition
    <3> QED
      BY <1>1, <3>1, AckedApart DEF o
  <2> QED
    BY <1>1, <1>6, <2>1, JournalSteady DEF AckedKept
<1> QED
  BY <1>2, <1>10, <1>11 DEF AckedKept, TipKept, BeforeKept

LEMMA AppendKeepsV ==
  ASSUME IInv, SInv, AckedKept, NEW s \in Slots, AppendTip(s)
  PROVE  AckedKept'
<1> DEFINE e == Entry(op[s].next)
           d == Append(chain, e)
<1>1. /\ op[s] # None /\ op[s].phase = "tip" /\ Done(s) /\ Acknowledge(s, op[s].next)
      /\ chain' = d /\ journal' = journal
  BY DEF AppendTip, At
<1>2. op'[s] = None /\ \A t \in Slots : t # s => op'[t] = op[t]
  BY <1>1, Over
<1>3. op[s].next \in LedgerType /\ chain \in Seq(EntryType)
  BY <1>1, TypedOp DEF IInv, TypeOK
<1>4. op[s].next.rev >= 2 /\ op[s].next.rev \in Nat
  BY <1>1, <1>3 DEF SInv, Shaped, Shape, LedgerType
<1>5. e \in EntryType /\ e.file = op[s].next.id /\ e.rev # 1
  BY <1>3, <1>4, EntryOf
<1> HIDE DEF e
<1>6. ReachedGrows({})
  BY AppendKeepsS, ReachedStill
<1>7. \A v \in acked' : v \in acked \/ (v.id = e.file /\ (v.locked => s = "agents"))
  <2>1. ASSUME NEW v \in acked' PROVE v \in acked \/ (v.id = e.file /\ v.locked = (s = "agents"))
    <3> DEFINE b == s = "agents"
               r == [id |-> op[s].next.id, epoch |-> op[s].next.epoch,
                     charged |-> Holding(op[s].next, "settled"), locked |-> b]
    <3>1. acked' \subseteq acked \cup {r}
      BY <1>1 DEF Acknowledge
    <3> HIDE DEF b
    <3>2. r.id = e.file /\ r.locked = b
      BY <1>5
    <3> QED
      BY <3>1, <3>2 DEF b
  <2> QED
    BY <2>1
<1>8. AckedIn(chain)'
  <2>1. AckedThen(d)
    BY <1>3, <1>5, <1>6, <1>7, AppendAcked DEF AckedKept
  <2> HIDE DEF d
  <2> QED
    BY <1>1, <2>1, AckedNext
<1>9. JournalApart'
  <2>1. op[s].phase \notin InTransition
    BY <1>1 DEF InTransition
  <2>2. journal # None => journal.after.ledger.id # e.file
    BY <1>1, <1>5, <2>1, AckedApart
  <2> QED
    BY <1>1, <1>7, <2>2, JournalSteady DEF AckedKept
<1>10. CASE s = "agents"
  BY <1>2, <1>8, <1>9, <1>10 DEF AckedKept, TipKept, BeforeKept
<1>11. CASE s # "agents"
  <2>1. op'["agents"] = op["agents"] /\ "agents" \in Slots /\ s = "escalate"
    BY <1>2, <1>11 DEF Slots
  <2>2. op["agents"] # None => op["agents"].next.id # e.file
    BY <1>1, <1>5, <2>1 DEF SInv, NextIsNew
  <2>3. op'["agents"] # None => Spares(chain, d, op["agents"].next.id)
    BY <1>3, <1>5, <2>1, <2>2, AppendedSpares
  <2> HIDE DEF d
  <2>4. TipKept'
    BY <1>1, <2>1, <2>3, SameAbreast, TipsOn DEF AckedKept
  <2>5. BeforeKept'
    <3> DEFINE X == {}
    <3>1. ReachedGrows(X) /\ \A c : Beside(X, c)
      BY <1>6 DEF Beside
    <3> HIDE DEF X
    <3>2. AckedHere
      BY <1>7, <2>1 DEF AckedHere
    <3> QED
      BY <2>1, <3>1, <3>2, SameAbreast, BeforeOn DEF AckedKept
  <2> QED
    BY <1>8, <1>9, <2>4, <2>5 DEF AckedKept
<1> QED
  BY <1>10, <1>11

LEMMA BeginKeepsV ==
  ASSUME IInv, SInv, AckedKept, NEW s \in Slots, BeginTransition(s)
  PROVE  AckedKept'
<1> DEFINE o == op[s]
           next == IF o.kind \in Chained THEN Advance(o.next) ELSE o.next
           goal == IF o.kind = "register"
                   THEN [from |-> task, to |-> [task EXCEPT !.used = @ + 1]] ELSE o.goal
           x == [o EXCEPT !.phase = "ledger", !.next = next, !.goal = goal, !.before = Files]
           j == [before |-> Files, chained |-> o.kind \in Chained,
                 after |-> [ledger |-> next, chain |-> Append(chain, Entry(next)),
                            task |-> goal.to]]
<1>1. /\ o # None /\ o.phase = "begin" /\ op' = [op EXCEPT ![s] = x] /\ journal' = j
      /\ chain' = chain /\ acked' = acked
  BY DEF BeginTransition, At
<1>2. op \in [Slots -> OperationType \cup {None}] /\ TypeOK
  BY DEF IInv, TypeOK
<1>3. o \in OperationType /\ o.next \in LedgerType /\ Shape(s, o)
  BY <1>1, TypedOp DEF SInv, Shaped
<1>4. next.id = o.next.id
  BY <1>2, <1>3, AdvanceOf
<1>5. j.after.ledger = next /\ j.chained = (o.kind \in Chained) /\ Files.chain = chain
  BY DEF Files
<1> HIDE DEF next, goal, j
<1>6. x.kind = o.kind /\ x.phase = "ledger" /\ x.before = Files
  BY <1>3 DEF OperationType
<1>7. op'[s] = x /\ \A t \in Slots : t # s => op'[t] = op[t]
  BY <1>1, <1>2
<1> HIDE DEF x
<1>8. ReachedGrows({}) /\ AckedHere
  BY <1>1, BeginKeepsS, ReachedStill DEF AckedHere
<1>9. AckedIn(chain)'
  <2> DEFINE X == {}
  <2>1. ReachedGrows(X) /\ \A c : Beside(X, c)
    BY <1>8 DEF Beside
  <2> HIDE DEF X
  <2> QED
    BY <1>1, <1>8, <2>1, AckedOn DEF AckedKept
<1>10. JournalApart'
  <2>1. \A v \in acked : v.locked => v.id # o.next.id
    BY <1>1, AckedApart
  <2> QED
    BY <1>1, <1>4, <1>5, <2>1 DEF JournalApart
<1>11. CASE s = "agents"
  <2>1. TipIn(chain, op["agents"])'
    <3> DEFINE d == chain
    <3>1. d = chain' /\ x = op'["agents"] /\ TipIn(d, x)
      BY <1>1, <1>6, <1>7, <1>11 DEF TipIn
    <3> HIDE DEF d
    <3> QED
      BY <3>1, TipNext
  <2>2. AckedIn(op["agents"].before.chain)'
    <3> DEFINE c == chain
    <3>1. c = chain' /\ c = op'["agents"].before.chain
      BY <1>1, <1>5, <1>6, <1>7, <1>11
    <3> HIDE DEF c
    <3> QED
      BY <1>9, <3>1, AckedNext
  <2> QED
    BY <1>9, <1>10, <2>1, <2>2 DEF AckedKept, TipKept, BeforeKept
<1>12. CASE s # "agents"
  <2>1. op'["agents"] = op["agents"]
    BY <1>7, <1>12 DEF Slots
  <2>2. TipKept'
    <3> DEFINE d == chain
    <3>1. d = chain' /\ \A n : Spares(chain, d, n)
      BY <1>1, SameSpares
    <3> HIDE DEF d
    <3> QED
      BY <2>1, <3>1, SameAbreast, TipsOn DEF AckedKept
  <2>3. BeforeKept'
    <3> DEFINE X == {}
    <3>1. ReachedGrows(X) /\ \A c : Beside(X, c)
      BY <1>8 DEF Beside
    <3> HIDE DEF X
    <3> QED
      BY <1>8, <2>1, <3>1, SameAbreast, BeforeOn DEF AckedKept
  <2> QED
    BY <1>9, <1>10, <2>2, <2>3 DEF AckedKept
<1> QED
  BY <1>11, <1>12

LEMMA ChainKeepsV ==
  ASSUME IInv, SInv, AckedKept, NEW s \in Slots, StoreChain(s)
  PROVE  AckedKept'
<1> DEFINE o == op[s]
           c == o.before.chain
           e == Entry(o.next)
           d == Append(c, e)
<1>1. /\ o # None /\ o.phase = "chained" /\ Goto(s, "task") /\ chain' = d
      /\ journal' = journal /\ acked' = acked
  BY DEF StoreChain, At
<1>2. /\ op'[s].kind = o.kind /\ op'[s].next = o.next /\ op'[s].phase = "task"
  BY <1>1, Phased
<1>3. HasBefore(o)
  BY <1>1 DEF HasBefore, InTransition
<1>4. o.next \in LedgerType /\ c \in Seq(EntryType)
  BY <1>1, <1>3, TypedOp
<1>5. s = "agents" /\ o.kind \in Chained /\ o.next.rev >= 2 /\ o.next.rev \in Nat
  <2>1. o.kind \in Chained /\ (o.kind = "escalate" <=> s = "escalate") /\ o.next.rev >= 2
    BY <1>1 DEF SInv, Shaped, Shape, Chained
  <2> QED
    BY <1>4, <2>1 DEF Chained, Slots, LedgerType
<1>6. e \in EntryType /\ e.file = o.next.id /\ e.rev # 1
  BY <1>4, <1>5, EntryOf
<1>7. AckedIn(c)
  BY <1>1, <1>5 DEF AckedKept, BeforeKept
<1>8. ReachedGrows({})
  BY ChainKeepsS, ReachedStill
<1> HIDE DEF e, c
<1>9. AckedIn(chain)'
  <2>1. AckedThen(d)
    BY <1>1, <1>4, <1>6, <1>7, <1>8, AppendAcked
  <2> HIDE DEF d
  <2> QED
    BY <1>1, <2>1, AckedNext
<1>10. TipIn(chain, op["agents"])'
  <2>1. Listing(d, o.next.id)
    BY <1>4, <1>6, AnchorAppended
  <2> HIDE DEF d
  <2> DEFINE p == op'[s]
  <2>2. p = op'["agents"] /\ p.next.id = o.next.id /\ p.phase = "task"
    BY <1>2, <1>5
  <2> HIDE DEF p
  <2>3. TipIn(d, p)
    BY <2>1, <2>2 DEF TipIn
  <2> QED
    BY <1>1, <2>2, <2>3, TipNext
<1>11. BeforeKept' /\ JournalApart'
  BY <1>1, <1>2, <1>5, JournalSteady DEF AckedKept, BeforeKept
<1> QED
  BY <1>9, <1>10, <1>11 DEF AckedKept, TipKept

LEMMA CleanKeepsV ==
  ASSUME IInv, SInv, AckedKept, NEW s \in Slots, CleanJournal(s)
  PROVE  AckedKept'
<1>1. op[s] # None /\ op[s].phase = "clean" /\ chain' = chain /\ journal' = None
  BY DEF CleanJournal, At
<1>2. ReachedGrows({})
  BY CleanKeepsS, ReachedStill
<1>3. CASE op[s].kind \in Appended
  <2>1. Goto(s, "tip") /\ acked' = acked
    BY <1>3 DEF CleanJournal
  <2> QED
    BY <1>1, <1>2, <2>1, PhaseAbreast, StillKeepsV DEF AckedHere
<1>4. CASE op[s].kind \notin Appended
  <2> DEFINE o == op[s]
             c == chain
  <2>1. Done(s) /\ Acknowledge(s, o.next)
    BY <1>4 DEF CleanJournal
  <2>2. o.kind \in Chained /\ s = "agents"
    <3>1. (o.kind = "save" <=> o.phase \in {"marker", "chain", "state"})
          /\ (o.kind = "escalate" <=> s = "escalate")
      BY <1>1 DEF SInv, Shaped, Shape
    <3>2. o.kind \in {"save"} \cup Chained \cup Appended
      BY <1>1, TypedOp DEF OperationType
    <3> QED
      BY <1>1, <1>4, <3>1, <3>2 DEF Appended, Slots
  <2>3. op'["agents"] = None
    BY <2>1, <2>2, Over
  <2>4. c \in Seq(EntryType) /\ AckedIn(c) /\ Listing(c, o.next.id) /\ c = chain'
    BY <1>1, <2>2 DEF IInv, TypeOK, AckedKept, TipKept, TipIn
  <2>5. AnchoredThen(c, o.next.id)
    BY <2>4 DEF Listing, AnchoredThen
  <2>6. \A v \in acked' : v \in acked \/ v.id = o.next.id
    BY <2>1 DEF Acknowledge
  <2> HIDE DEF c
  <2>7. ASSUME NEW v \in acked, v.locked PROVE AnchoredThen(c, v.id)
    <3> DEFINE X == {}
    <3>1. /\ \A m : Reached(m)' => Reached(m) \/ m \in X
          /\ \A i \in 1..Len(c) : c[i].rev = 1 => c[i].file \notin X
          /\ Len(c) \in Nat
      BY <1>2, <2>4 DEF ReachedGrows
    <3> HIDE DEF X
    <3>2. Anchored(c, v.id)
      BY <2>4, <2>7 DEF AckedIn
    <3> QED
      BY <3>1, <3>2, AnchorKept
  <2>8. AckedThen(c)
    BY <2>5, <2>6, <2>7 DEF AckedThen
  <2>9. AckedIn(chain)'
    BY <2>4, <2>8, AckedNext
  <2> QED
    BY <1>1, <2>3, <2>9 DEF AckedKept, TipKept, BeforeKept, JournalApart
<1> QED
  BY <1>3, <1>4

LEMMA SaveFailsKeepsV ==
  ASSUME IInv, SInv, AckedKept, SaveFails, "written" \notin reverted'
  PROVE  AckedKept'
<1> DEFINE o == op["agents"]
           c == o.before.chain
           e == Entry(o.next)
           d == chain
<1>1. /\ "agents" \in Slots /\ o # None /\ o.phase = "state" /\ chain' = c /\ Done("agents")
      /\ journal' = journal /\ acked' = acked
      /\ d = Append(c, e)
  BY DEF SaveFails, At, Slots
<1>2. op'["agents"] = None
  BY <1>1, Over
<1>3. o.next \in LedgerType /\ c \in Seq(EntryType)
  BY <1>1, TypedOp DEF HasBefore
<1>4. e \in EntryType /\ e.file = o.next.id
  BY <1>3, EntryOf
<1>5. ReachedGrows({}) /\ AckedHere
  BY <1>1, SaveFailsKeepsS, ReachedStill DEF AckedHere
<1>6. AckedIn(d) /\ \A v \in acked : v.locked => v.id # e.file
  BY <1>1, <1>4, AckedApart DEF AckedKept
<1> HIDE DEF c, d, e
<1>7. AckedThen(c)
  BY <1>1, <1>3, <1>4, <1>5, <1>6, UnappendAcked
<1>8. AckedIn(chain)'
  BY <1>1, <1>7, AckedNext
<1>9. JournalApart'
  BY <1>1, JournalSteady DEF AckedKept
<1> QED
  BY <1>2, <1>8, <1>9 DEF AckedKept, TipKept, BeforeKept

LEMMA RollbackKeepsV ==
  ASSUME IInv, SInv, AckedKept, NEW s \in Slots, Rollback(s), "written" \notin reverted'
  PROVE  AckedKept'
<1>1. /\ op[s] # None /\ op[s].phase \in InTransition /\ Done(s) /\ acked' = acked
      /\ PutBack(op[s].before, op[s].kind \in Chained) /\ journal' = None
      /\ ~Foreign(op[s].before, op[s].next, op[s].kind \in Chained)
  BY DEF Rollback, PutBack, Undone
<1>2. op'["agents"] = op["agents"] \/ op'["agents"] = None
  BY <1>1, Over DEF Slots
<1>3. ReachedGrows({}) /\ AckedHere
  BY <1>1, RollbackKeepsS, ReachedStill DEF AckedHere
<1>4. CASE op[s].kind \notin Chained
  <2>1. chain' = chain
    BY <1>1, <1>4 DEF PutBack
  <2> QED
    BY <1>1, <1>2, <1>3, <2>1, SameAbreast, StillKeepsV
<1>5. CASE op[s].kind \in Chained
  <2> DEFINE o == op[s]
             c == o.before.chain
             e == Entry(o.next)
             d == chain
  <2>1. chain' = c /\ d \in {c, Append(c, e)}
    BY <1>1, <1>5 DEF PutBack, Foreign
  <2>2. o.next \in LedgerType /\ c \in Seq(EntryType)
    BY <1>1, TypedOp DEF HasBefore
  <2>3. e \in EntryType /\ e.file = o.next.id
    BY <2>2, EntryOf
  <2>4. AckedIn(d) /\ \A v \in acked : v.locked => v.id # e.file
    BY <1>1, <2>3, AckedApart DEF AckedKept
  <2>5. op'["agents"] = None
    <3>1. s = "agents"
      BY <1>1, <1>5 DEF SInv, Shaped, Shape, Chained, Slots
    <3> QED
      BY <1>1, <3>1, Over
  <2> HIDE DEF c, d, e
  <2>6. AckedThen(c)
    BY <1>3, <2>1, <2>2, <2>3, <2>4, UnappendAcked
  <2>7. AckedIn(chain)'
    BY <2>1, <2>6, AckedNext
  <2> QED
    BY <1>1, <2>5, <2>7 DEF AckedKept, TipKept, BeforeKept, JournalApart
<1> QED
  BY <1>4, <1>5

LEMMA RestoreKeepsV ==
  ASSUME IInv, SInv, AckedKept, Restore, "written" \notin reverted'
  PROVE  AckedKept'
<1> DEFINE j == journal
<1>1. /\ j # None /\ ~TaskLocked /\ acked' = acked /\ op' = op /\ journal' = None
      /\ PutBack(j.before, j.chained) /\ ~Foreign(j.before, j.after.ledger, j.chained)
  BY DEF Restore, PutBack, Undone
<1>2. ReachedGrows({}) /\ AckedHere
  BY <1>1, RestoreKeepsS, ReachedStill DEF AckedHere
<1>3. CASE ~j.chained
  <2>1. chain' = chain
    BY <1>1, <1>3 DEF PutBack
  <2> QED
    BY <1>1, <1>2, <2>1, SameAbreast, StillKeepsV
<1>4. CASE j.chained
  <2> DEFINE c == j.before.chain
             e == Entry(j.after.ledger)
             d == chain
  <2>1. chain' = c /\ d \in {c, Append(c, e)}
    BY <1>1, <1>4 DEF PutBack, Foreign
  <2>2. j.after.ledger \in LedgerType /\ c \in Seq(EntryType)
    <3>1. j \in JournalType
      BY <1>1 DEF IInv, TypeOK
    <3> QED
      BY <3>1 DEF JournalType, FilesType
  <2>3. e \in EntryType /\ e.file = j.after.ledger.id
    BY <2>2, EntryOf
  <2>4. AckedIn(d) /\ \A v \in acked : v.locked => v.id # e.file
    BY <1>1, <1>4, <2>3 DEF AckedKept, JournalApart
  <2>5. op["agents"] # None => op["agents"].next.id # e.file /\ op["agents"].phase \notin InTransition
    <3>1. "agents" \in Slots
      BY DEF Slots
    <3>2. op["agents"] # None => op["agents"].phase \notin InTransition
      BY <1>1, <3>1 DEF TaskLocked
    <3> QED
      BY <1>1, <2>3, <3>1, <3>2, AckedApart
  <2> HIDE DEF c, d, e
  <2>6. AckedThen(c)
    BY <1>2, <2>1, <2>2, <2>3, <2>4, UnappendAcked
  <2>7. AckedIn(chain)'
    BY <2>1, <2>6, AckedNext
  <2>8. TipKept'
    <3>1. op["agents"] # None => Spares(d, c, op["agents"].next.id)
      BY <2>1, <2>2, <2>3, <2>5, AppendedSpares, SameSpares
    <3>2. op'["agents"] # None => Spares(chain, c, op["agents"].next.id)
      BY <1>1, <3>1 DEF d
    <3> QED
      BY <1>1, <2>1, <3>2, SameAbreast, TipsOn DEF AckedKept
  <2>9. BeforeKept'
    BY <1>1, <2>5 DEF BeforeKept, InTransition
  <2> QED
    BY <1>1, <2>7, <2>8, <2>9 DEF AckedKept, JournalApart
<1> QED
  BY <1>3, <1>4

LEMMA VersionsInit == Init => VInv
<1> SUFFICES ASSUME Init PROVE AckedKept
  BY DEF VInv
<1>1. /\ Len(chain) = 1 /\ chain[1] = Entry(ledger) /\ Entry(ledger).file = 1
      /\ \A v \in acked : v.id = 1
  BY DEF Init, Entry, Fresh
<1>2. 1 \in 1..Len(chain) /\ 1+1..Len(chain) = {}
  BY <1>1
<1>3. Anchored(chain, 1)
  BY <1>1, <1>2 DEF Anchored
<1>4. op["agents"] = None /\ journal = None
  BY DEF Init, Slots
<1> QED
  BY <1>1, <1>3, <1>4 DEF AckedKept, AckedIn, TipKept, BeforeKept, JournalApart

LEMMA VersionsStep == IInv /\ SInv /\ VInv /\ [Next]_vars => VInv'
<1> SUFFICES ASSUME IInv, SInv, VInv, [Next]_vars, "written" \notin reverted' PROVE AckedKept'
  BY DEF VInv
<1>1. reverted \subseteq reverted'
  BY DEF Next, vars, Observe, Prepare, CancelPrepare, Register, Redispatch, Finish, Check, InitLedger,
         StartTask, Escalate, CompleteTask, Save, Begin, PublishMarker, WriteTip, WriteState, SaveFails,
         Transition, BeginTransition, StoreLedger, StoreChain, StoreTask, BindContext, CleanJournal,
         AppendTip, Rollback, Crash, Restore, Discard
<1>2. AckedKept /\ ledger.rev >= 1
  BY <1>1 DEF VInv, SInv, Numbered, Bounded
<1>3. CASE Command
  <2>1. PICK o : Begin("agents", o) /\ Commanded(o)
    BY <1>2, <1>3, CommandBegins
  <2>2. NamedGrows({0})
    BY <2>1, CommandKeepsS
  <2>3. o.next.id = ids + 1 /\ o.phase \in {"marker", "chain", "begin"} /\ "agents" \in Slots
    BY <2>1 DEF Commanded, Slots
  <2> QED
    BY <1>2, <2>1, <2>2, <2>3, NewestKeepsV
<1>4. ASSUME NEW mode \in Modes, Escalate(mode) PROVE AckedKept'
  <2>1. PICK o : Begin("escalate", o) /\ Escalated(o)
    BY <1>2, <1>4, EscalateBegins
  <2>2. NamedGrows({0})
    BY <2>1, EscalateKeepsS
  <2>3. o.next.id = ids + 1 /\ o.phase \in {"marker", "chain", "begin"} /\ "escalate" \in Slots
    BY <2>1 DEF Escalated, Slots
  <2> QED
    BY <1>2, <2>1, <2>2, <2>3, NewestKeepsV
<1>5. CASE Observe
  BY <1>2, <1>5, RestKeepsV DEF Observe
<1>6. CASE Discard
  BY <1>2, <1>6, RestKeepsV DEF Discard
<1>7. CASE UNCHANGED vars
  BY <1>2, <1>7, RestKeepsV DEF vars
<1>8. ASSUME NEW s \in Slots, Transition(s) PROVE AckedKept'
  BY <1>2, <1>8, BeginKeepsV, LedgerKeepsV, ChainKeepsV, TaskKeepsV, BindKeepsV, CleanKeepsV,
     AppendKeepsV, RollbackKeepsV DEF Transition
<1> QED
  BY <1>2, <1>3, <1>4, <1>5, <1>6, <1>7, <1>8, PublishKeepsV, TipKeepsV, WriteKeepsV, SaveFailsKeepsV,
     CrashKeepsV, RestoreKeepsV DEF Next, Command

\* A chain that verifies vouches for what it anchors: nothing names the genesis of
\* an init that died, and so no chain links up after one.
LEMMA AnchoredIsVouched ==
  ASSUME IInv, ChainValid(ledger, chain), NEW n, Anchored(chain, n)
  PROVE  n \in Vouched(chain)
<1> DEFINE i == CHOOSE k \in 1..Len(chain) : Linked(chain, k)
<1>1. chain \in Seq(EntryType) /\ Len(chain) \in Nat
  BY DEF IInv, TypeOK
<1>2. i \in 1..Len(chain) /\ Linked(chain, i) /\ Vouched(chain) = {chain[j].file : j \in i..Len(chain)}
  BY DEF ChainValid, Vouched
<1> HIDE DEF i
<1>3. Reached(chain[i].file)
  <2>1. CASE i = Len(chain)
    <3>1. chain[i].file = ledger.id
      BY <2>1 DEF ChainValid, Entry
    <3> QED
      BY <3>1 DEF Reached, Named, Names
  <2>2. CASE i # Len(chain)
    <3>1. i+1 \in 1..Len(chain) /\ i+1 \in i+1..Len(chain) /\ (i+1)-1 = i
      BY <1>1, <1>2, <2>2
    <3>2. chain[i+1].prev = chain[i].file
      BY <1>2, <3>1 DEF Linked
    <3> QED
      BY <3>1, <3>2 DEF Reached, Named, Names
  <2> QED
    BY <2>1, <2>2
<1>4. PICK p \in 1..Len(chain) :
        /\ chain[p].file = n
        /\ \A m : Reached(m) => \A q \in p+1..Len(chain) : chain[q].rev = 1 => chain[q].file # m
  BY DEF Anchored
<1>5. i \notin p+1..Len(chain)
  BY <1>2, <1>3, <1>4 DEF Linked
<1>6. p \in i..Len(chain)
  BY <1>1, <1>2, <1>5
<1> QED
  BY <1>2, <1>4, <1>6

\* While the chain of the ledger verifies, it vouches for every version that was
\* acknowledged under the lock.
LEMMA VersionsVouched ==
  ASSUME IInv, VInv, ChainValid(ledger, chain), "written" \notin reverted
  PROVE  \A v \in acked : v.locked => v.id \in Vouched(chain)
BY AnchoredIsVouched DEF VInv, AckedKept, AckedIn

(***************************************************************************)
(* Which chains list the version of a command: none before its tip is in   *)
(* one, and none that a command or the journal puts back.                  *)
(***************************************************************************)
ListsApart == \A c, n : Lists(c, n) =>
    /\ \A s \in Slots : op[s] # None /\ op[s].next.id = n =>
          /\ c = chain => Listed(op[s])
          /\ \A t \in Slots : op[t] # None /\ HasBefore(op[t]) /\ c = op[t].before.chain =>
                Listed(op[s]) /\ t # s
          /\ journal # None /\ c = journal.before.chain => Listed(op[s]) /\ ~journal.chained
    /\ journal # None /\ journal.after.ledger.id = n =>
          /\ c = journal.before.chain => ~journal.chained
          /\ c = chain => journal.chained
          /\ \A s \in Slots : op[s] # None /\ op[s].phase = "state" /\ c = op[s].before.chain =>
                journal.chained

\* A step after which every command has the files that it had.
Holds ==
    /\ journal' = None \/ journal' = journal
    /\ \A s \in Slots : op'[s] # None =>
          /\ op[s] # None /\ op'[s].next.id = op[s].next.id
          /\ Listed(op[s]) => Listed(op'[s])
          /\ HasBefore(op'[s]) => HasBefore(op[s]) /\ op'[s].before = op[s].before
          /\ op'[s].phase = "state" => op[s].phase = "state"

LEMMA ApartHeld ==
  ASSUME ListsApart, Holds, NEW d, d = chain',
         \A n : Lists(d, n) =>
            /\ \A s \in Slots : op'[s] # None /\ op'[s].next.id = n => Listed(op'[s])
            /\ journal' # None /\ journal'.after.ledger.id = n => journal'.chained
  PROVE  ListsApart'
<1>1. ASSUME NEW c, NEW n, Lists(c, n), NEW s \in Slots, op'[s] # None, op'[s].next.id = n
      PROVE  /\ c = chain' => Listed(op'[s])
             /\ \A t \in Slots : op'[t] # None /\ HasBefore(op'[t]) /\ c = op'[t].before.chain =>
                   Listed(op'[s]) /\ t # s
             /\ journal' # None /\ c = journal'.before.chain => Listed(op'[s]) /\ ~journal'.chained
  <2>1. op[s] # None /\ op[s].next.id = n /\ (Listed(op[s]) => Listed(op'[s]))
    BY <1>1 DEF Holds
  <2>2. /\ \A t \in Slots : op[t] # None /\ HasBefore(op[t]) /\ c = op[t].before.chain =>
               Listed(op[s]) /\ t # s
        /\ journal # None /\ c = journal.before.chain => Listed(op[s]) /\ ~journal.chained
    BY <1>1, <2>1 DEF ListsApart
  <2>3. c = chain' => Listed(op'[s])
    BY <1>1
  <2>4. \A t \in Slots : op'[t] # None /\ HasBefore(op'[t]) /\ c = op'[t].before.chain =>
           Listed(op'[s]) /\ t # s
    BY <2>1, <2>2 DEF Holds
  <2>5. journal' # None /\ c = journal'.before.chain => Listed(op'[s]) /\ ~journal'.chained
    BY <2>1, <2>2 DEF Holds
  <2> QED
    BY <2>3, <2>4, <2>5
<1>2. ASSUME NEW c, NEW n, Lists(c, n), journal' # None, journal'.after.ledger.id = n
      PROVE  /\ c = journal'.before.chain => ~journal'.chained
             /\ c = chain' => journal'.chained
             /\ \A s \in Slots : op'[s] # None /\ op'[s].phase = "state" /\ c = op'[s].before.chain =>
                   journal'.chained
  <2>1. journal # None /\ journal' = journal
    BY <1>2 DEF Holds
  <2>2. /\ c = journal.before.chain => ~journal.chained
        /\ \A s \in Slots : op[s] # None /\ op[s].phase = "state" /\ c = op[s].before.chain =>
              journal.chained
    BY <1>2, <2>1 DEF ListsApart
  <2>3. c = chain' => journal'.chained
    BY <1>2
  <2>4. \A s \in Slots : op'[s] # None /\ op'[s].phase = "state" /\ c = op'[s].before.chain =>
           journal'.chained
    <3>1. \A s \in Slots : op'[s] # None /\ op'[s].phase = "state" =>
             op[s] # None /\ op[s].phase = "state" /\ op'[s].before = op[s].before
      BY DEF Holds, HasBefore
    <3> QED
      BY <2>1, <2>2, <3>1
  <2> QED
    BY <2>1, <2>2, <2>3, <2>4
<1>3. \A c, n : Lists(c, n)' <=> Lists(c, n)
  BY DEF Lists
<1>4. \A s \in Slots : (HasBefore(op[s])' <=> HasBefore(op'[s])) /\ (Listed(op[s])' <=> Listed(op'[s]))
  BY DEF HasBefore, Listed
<1> QED
  BY <1>1, <1>2, <1>3, <1>4 DEF ListsApart

LEMMA ApartStill ==
  ASSUME ListsApart, Holds, chain' = chain
  PROVE  ListsApart'
<1> DEFINE d == chain
<1>1. /\ d = chain'
      /\ \A n : Lists(d, n) =>
            /\ \A s \in Slots : op'[s] # None /\ op'[s].next.id = n => Listed(op'[s])
            /\ journal' # None /\ journal'.after.ledger.id = n => journal'.chained
  BY DEF ListsApart, Holds
<1> HIDE DEF d
<1> QED
  BY <1>1, ApartHeld

\* One command goes on, and keeps its files if it has any.
LEMMA PhaseHolds ==
  ASSUME IInv, NEW s \in Slots, NEW phase, op[s] # None, Goto(s, phase),
         journal' = None \/ journal' = journal, phase # "state",
         op[s].phase = "state" => FALSE,
         Listed(op[s]) => phase \in {"task", "context", "clean"},
         phase \in InTransition => op[s].phase \in InTransition
  PROVE  Holds
<1>1. /\ \A t \in Slots : t # s => op'[t] = op[t]
      /\ op'[s].kind = op[s].kind /\ op'[s].next = op[s].next
      /\ op'[s].before = op[s].before /\ op'[s].phase = phase
  BY Phased
<1> QED
  BY <1>1 DEF Holds, HasBefore, Listed

LEMMA OverHolds ==
  ASSUME IInv, NEW s \in Slots, Done(s), journal' = None \/ journal' = journal
  PROVE  Holds
<1>1. op'[s] = None /\ \A t \in Slots : t # s => op'[t] = op[t]
  BY Over
<1> QED
  BY <1>1 DEF Holds

LEMMA NewestApart ==
  ASSUME IInv, SInv, ListsApart, NEW s \in Slots, NEW o, Begin(s, o), o.next.id = ids + 1,
         o.phase \in {"marker", "chain", "begin"}
  PROVE  ListsApart'
<1>1. /\ op'[s] = o /\ op[s] = None /\ \A t \in Slots : t # s => op'[t] = op[t]
      /\ ids \in Nat /\ chain' = chain /\ journal' = journal
  BY Taken
<1>2. ~HasBefore(o) /\ o.phase # "state"
  BY DEF HasBefore, InTransition
<1>3. \A c : \/ c = chain
             \/ journal # None /\ c = journal.before.chain
             \/ \E t \in Slots : op[t] # None /\ HasBefore(op[t]) /\ c = op[t].before.chain
         => \A j \in 1..Len(c) : c[j].file \in 1..ids
  BY BackedUp DEF Bounded
<1>4. \A c : \/ c = chain
             \/ journal # None /\ c = journal.before.chain
             \/ \E t \in Slots : op[t] # None /\ HasBefore(op[t]) /\ c = op[t].before.chain
         => ~Lists(c, o.next.id)
  BY <1>1, <1>3 DEF Lists
<1>5. \A c, n : Lists(c, n)' <=> Lists(c, n)
  BY DEF Lists
<1>6. \A t \in Slots : (HasBefore(op[t])' <=> HasBefore(op'[t])) /\ (Listed(op[t])' <=> Listed(op'[t]))
  BY DEF HasBefore, Listed
<1>7. ASSUME NEW c, NEW n, Lists(c, n), NEW u \in Slots, op'[u] # None, op'[u].next.id = n
      PROVE  /\ c = chain' => Listed(op'[u])
             /\ \A t \in Slots : op'[t] # None /\ HasBefore(op'[t]) /\ c = op'[t].before.chain =>
                   Listed(op'[u]) /\ t # u
             /\ journal' # None /\ c = journal'.before.chain => Listed(op'[u]) /\ ~journal'.chained
  <2>1. CASE u = s
    BY <1>1, <1>2, <1>4, <1>7, <2>1
  <2>2. CASE u # s
    BY <1>1, <1>2, <1>7, <2>2 DEF ListsApart
  <2> QED
    BY <2>1, <2>2
<1>8. ASSUME NEW c, NEW n, Lists(c, n), journal' # None, journal'.after.ledger.id = n
      PROVE  /\ c = journal'.before.chain => ~journal'.chained
             /\ c = chain' => journal'.chained
             /\ \A t \in Slots : op'[t] # None /\ op'[t].phase = "state" /\ c = op'[t].before.chain =>
                   journal'.chained
  BY <1>1, <1>2, <1>8 DEF ListsApart
<1> QED
  BY <1>5, <1>6, <1>7, <1>8 DEF ListsApart

LEMMA PublishApart ==
  ASSUME IInv, SInv, ListsApart, PublishMarker
  PROVE  ListsApart'
<1>1. /\ "agents" \in Slots /\ op["agents"] # None /\ op["agents"].phase = "marker"
      /\ Goto("agents", "chain") /\ chain' = chain /\ journal' = journal
  BY DEF PublishMarker, At, Slots
<1>2. ~Listed(op["agents"]) /\ "chain" \notin InTransition
  BY <1>1 DEF Listed, InTransition
<1>3. Holds
  BY <1>1, <1>2, PhaseHolds
<1> QED
  BY <1>1, <1>3, ApartStill

LEMMA GoneOnApart ==
  ASSUME IInv, SInv, ListsApart, NEW s \in Slots,
         StoreLedger(s) \/ StoreTask(s) \/ BindContext(s)
  PROVE  ListsApart'
<1>1. PICK phase \in {"chained", "task", "context", "clean"} :
         /\ op[s] # None /\ op[s].phase \in {"ledger", "task", "context"} /\ Goto(s, phase)
         /\ op[s].phase # "ledger" => phase \in {"context", "clean"}
         /\ chain' = chain /\ journal' = journal
  BY DEF StoreLedger, StoreTask, BindContext, At
<1>2. /\ op[s].phase \in InTransition /\ op[s].phase # "state" /\ phase # "state"
      /\ Listed(op[s]) => phase \in {"task", "context", "clean"}
  BY <1>1 DEF InTransition, Listed
<1>3. Holds
  BY <1>1, <1>2, PhaseHolds
<1> QED
  BY <1>1, <1>3, ApartStill

LEMMA CleanApart ==
  ASSUME IInv, SInv, ListsApart, NEW s \in Slots, CleanJournal(s)
  PROVE  ListsApart'
<1>1. /\ op[s] # None /\ op[s].phase = "clean" /\ chain' = chain /\ journal' = None
  BY DEF CleanJournal, At
<1>2. CASE op[s].kind \in Appended
  <2>1. Goto(s, "tip") /\ ~Listed(op[s]) /\ "tip" \notin InTransition
    BY <1>1, <1>2 DEF CleanJournal, Listed, Chained, Appended, InTransition
  <2>2. Holds
    BY <1>1, <2>1, PhaseHolds
  <2> QED
    BY <1>1, <2>2, ApartStill
<1>3. CASE op[s].kind \notin Appended
  BY <1>1, <1>3, OverHolds, ApartStill DEF CleanJournal
<1> QED
  BY <1>2, <1>3

LEMMA OverApart ==
  ASSUME IInv, SInv, ListsApart, NEW s \in Slots, Done(s), chain' = chain,
         journal' = None \/ journal' = journal
  PROVE  ListsApart'
BY OverHolds, ApartStill

LEMMA RestApart ==
  ASSUME ListsApart, op' = op, chain' = chain, journal' = None \/ journal' = journal
  PROVE  ListsApart'
<1>1. Holds
  BY DEF Holds
<1> QED
  BY <1>1, ApartStill

LEMMA ListsAppended ==
  ASSUME NEW c \in Seq(EntryType), NEW l \in LedgerType
  PROVE  \A n : Lists(Append(c, Entry(l)), n) <=> Lists(c, n) \/ n = l.id
BY Appending

LEMMA SaveFailsApart ==
  ASSUME IInv, SInv, ListsApart, SaveFails
  PROVE  ListsApart'
<1> DEFINE s == "agents"
           d == op[s].before.chain
<1>1. /\ s \in Slots /\ op[s] # None /\ op[s].phase = "state" /\ chain' = d /\ Done(s)
      /\ journal' = journal
  BY DEF SaveFails, At, Slots
<1>2. op'[s] = None /\ \A t \in Slots : t # s => op'[t] = op[t]
  BY <1>1, Over
<1>3. HasBefore(op[s])
  BY <1>1 DEF HasBefore
<1>4. Holds
  BY <1>1, OverHolds
<1>5. \A n : Lists(d, n) =>
         /\ \A t \in Slots : op'[t] # None /\ op'[t].next.id = n => Listed(op'[t])
         /\ journal' # None /\ journal'.after.ledger.id = n => journal'.chained
  BY <1>1, <1>2, <1>3 DEF ListsApart
<1> HIDE DEF d, s
<1> QED
  BY <1>1, <1>4, <1>5, ApartHeld

LEMMA ChainApart ==
  ASSUME IInv, SInv, ListsApart, NEW s \in Slots, StoreChain(s)
  PROVE  ListsApart'
<1> DEFINE c == op[s].before.chain
           d == Append(c, Entry(op[s].next))
<1>1. /\ op[s] # None /\ op[s].phase = "chained" /\ Goto(s, "task") /\ chain' = d
      /\ journal' = journal
  BY DEF StoreChain, At
<1>2. /\ HasBefore(op[s]) /\ ~Listed(op[s]) /\ op[s].phase \in InTransition /\ op[s].phase # "state"
  BY <1>1 DEF HasBefore, InTransition, Listed
<1>3. op[s].next \in LedgerType /\ c \in Seq(EntryType)
  BY <1>1, <1>2, TypedOp
<1>4. op[s].kind \in Chained /\ InHand(s) /\ Shape(s, op[s])
  BY <1>1, <1>2 DEF SInv, Shaped, Shape, OneTransition
<1>5. /\ \A t \in Slots : t # s => op'[t] = op[t]
      /\ op'[s].kind = op[s].kind /\ op'[s].next = op[s].next /\ op'[s].phase = "task"
  BY <1>1, Phased
<1>6. Listed(op'[s])
  BY <1>4, <1>5 DEF Listed
<1>7. Holds
  BY <1>1, <1>2, PhaseHolds
<1>8. ASSUME NEW n, Lists(d, n)
      PROVE  /\ \A t \in Slots : op'[t] # None /\ op'[t].next.id = n => Listed(op'[t])
             /\ journal' # None /\ journal'.after.ledger.id = n => journal'.chained
  <2>1. Lists(c, n) \/ n = op[s].next.id
    BY <1>3, <1>8, ListsAppended
  <2>2. ASSUME NEW t \in Slots, t # s, op'[t] # None, op'[t].next.id = n PROVE Listed(op'[t])
    <3>1. op'[t] = op[t] /\ n # op[s].next.id
      BY <1>1, <1>5, <2>2 DEF SInv, NextIsNew, Slots
    <3> QED
      BY <1>1, <1>2, <2>1, <2>2, <3>1 DEF ListsApart
  <2>3. journal' # None => journal'.chained
    BY <1>1, <1>4 DEF InHand
  <2> QED
    BY <1>6, <2>2, <2>3
<1> HIDE DEF d, c
<1> QED
  BY <1>1, <1>7, <1>8, ApartHeld

LEMMA AppendApart ==
  ASSUME IInv, SInv, ListsApart, NEW s \in Slots, AppendTip(s)
  PROVE  ListsApart'
<1> DEFINE d == Append(chain, Entry(op[s].next))
<1>1. /\ op[s] # None /\ op[s].phase = "tip" /\ Done(s) /\ chain' = d /\ journal' = journal
  BY DEF AppendTip, At
<1>2. op'[s] = None /\ \A t \in Slots : t # s => op'[t] = op[t]
  BY <1>1, Over
<1>3. op[s].next \in LedgerType /\ chain \in Seq(EntryType) /\ op[s].phase \notin InTransition
  BY <1>1, TypedOp DEF IInv, TypeOK, InTransition
<1>4. Holds
  BY <1>1, OverHolds
<1>5. ASSUME NEW n, Lists(d, n)
      PROVE  /\ \A t \in Slots : op'[t] # None /\ op'[t].next.id = n => Listed(op'[t])
             /\ journal' # None /\ journal'.after.ledger.id = n => journal'.chained
  <2>1. Lists(chain, n) \/ n = op[s].next.id
    BY <1>3, <1>5, ListsAppended
  <2>2. ASSUME NEW t \in Slots, op'[t] # None, op'[t].next.id = n PROVE Listed(op'[t])
    <3>1. op'[t] = op[t] /\ n # op[s].next.id
      BY <1>1, <1>2, <2>2 DEF SInv, NextIsNew, Slots
    <3> QED
      BY <2>1, <2>2, <3>1 DEF ListsApart
  <2>3. ASSUME journal' # None, journal'.after.ledger.id = n PROVE journal'.chained
    <3>1. n # op[s].next.id
      BY <1>1, <1>3, <2>3 DEF SInv, NextIsNew
    <3> QED
      BY <1>1, <2>1, <2>3, <3>1 DEF ListsApart
  <2> QED
    BY <2>2, <2>3
<1> HIDE DEF d
<1> QED
  BY <1>1, <1>4, <1>5, ApartHeld

LEMMA RollbackApart ==
  ASSUME IInv, SInv, ListsApart, NEW s \in Slots, Rollback(s)
  PROVE  ListsApart'
<1> DEFINE d == IF op[s].kind \in Chained THEN op[s].before.chain ELSE chain
<1>1. /\ op[s] # None /\ op[s].phase \in InTransition /\ Done(s) /\ chain' = d /\ journal' = None
  BY DEF Rollback, PutBack
<1>2. op'[s] = None /\ \A t \in Slots : t # s => op'[t] = op[t]
  BY <1>1, Over
<1>3. HasBefore(op[s])
  BY <1>1 DEF HasBefore
<1>4. Holds
  BY <1>1, OverHolds
<1>5. ASSUME NEW n, Lists(d, n), NEW t \in Slots, op'[t] # None, op'[t].next.id = n
      PROVE  Listed(op'[t])
  BY <1>1, <1>2, <1>3, <1>5 DEF ListsApart
<1> HIDE DEF d
<1> QED
  BY <1>1, <1>4, <1>5, ApartHeld

LEMMA RestoreApart ==
  ASSUME IInv, SInv, ListsApart, Restore
  PROVE  ListsApart'
<1> DEFINE d == IF journal.chained THEN journal.before.chain ELSE chain
<1>1. /\ journal # None /\ op' = op /\ chain' = d /\ journal' = None
  BY DEF Restore, PutBack
<1>2. Holds
  BY <1>1 DEF Holds
<1>3. ASSUME NEW n, Lists(d, n), NEW t \in Slots, op'[t] # None, op'[t].next.id = n
      PROVE  Listed(op'[t])
  BY <1>1, <1>3 DEF ListsApart
<1> HIDE DEF d
<1> QED
  BY <1>1, <1>2, <1>3, ApartHeld

LEMMA TipApart ==
  ASSUME IInv, SInv, ListsApart, WriteTip
  PROVE  ListsApart'
<1> DEFINE s == "agents"
           o == op[s]
           next == Advance(o.next)
           x == [o EXCEPT !.phase = "state", !.next = next, !.before = Files]
           d == Append(chain, Entry(next))
<1>1. /\ s \in Slots /\ o # None /\ o.phase = "chain" /\ chain' = d
      /\ op' = [op EXCEPT ![s] = x] /\ journal' = journal
  BY DEF WriteTip, At, Slots
<1>2. /\ op \in [Slots -> OperationType \cup {None}] /\ chain \in Seq(EntryType) /\ TypeOK
  BY DEF IInv, TypeOK
<1>3. o \in OperationType /\ o.next \in LedgerType
  BY <1>1, TypedOp
<1>4. next.id = o.next.id /\ next \in LedgerType
  BY <1>2, <1>3, AdvanceOf
<1>5. \A n : Lists(d, n) => Lists(chain, n) \/ n = o.next.id
  BY <1>2, <1>4, ListsAppended
<1> HIDE DEF next, d
<1>6. x.phase = "state" /\ x.next = next /\ x.before = Files /\ Files.chain = chain
  BY <1>3 DEF OperationType, Files
<1>7. op'[s] = x /\ \A t \in Slots : t # s => op'[t] = op[t]
  BY <1>1, <1>2
<1>8. ~Listed(o) /\ Listed(x) /\ HasBefore(x)
  BY <1>1, <1>6 DEF Listed, HasBefore, Chained
<1>9. /\ \A t \in Slots : t # s /\ op[t] # None => op[t].next.id # o.next.id
      /\ journal # None => journal.after.ledger.id # o.next.id
  <2>1. o.phase \notin InTransition
    BY <1>1 DEF InTransition
  <2> QED
    BY <1>1, <2>1 DEF SInv, NextIsNew, Slots
<1> HIDE DEF x, o, s
<1>10. \A c, n : Lists(c, n)' <=> Lists(c, n)
  BY DEF Lists
<1>11. \A t \in Slots : (HasBefore(op[t])' <=> HasBefore(op'[t])) /\ (Listed(op[t])' <=> Listed(op'[t]))
  BY DEF HasBefore, Listed
<1>12. ASSUME NEW c, NEW n, Lists(c, n), NEW u \in Slots, op'[u] # None, op'[u].next.id = n
       PROVE  /\ c = chain' => Listed(op'[u])
              /\ \A t \in Slots : op'[t] # None /\ HasBefore(op'[t]) /\ c = op'[t].before.chain =>
                    Listed(op'[u]) /\ t # u
              /\ journal' # None /\ c = journal'.before.chain => Listed(op'[u]) /\ ~journal'.chained
  <2>1. op[u] # None /\ op[u].next.id = n /\ (u # s => op'[u] = op[u])
    BY <1>1, <1>4, <1>6, <1>7, <1>12 DEF o
  <2>2. Listed(op[u]) => u # s
    BY <1>8 DEF o
  <2>3. c = chain' => Listed(op'[u])
    <3>1. CASE u = s
      BY <1>7, <1>8, <3>1
    <3>2. CASE u # s
      BY <1>1, <1>5, <1>9, <1>12, <2>1, <3>2 DEF ListsApart
    <3> QED
      BY <3>1, <3>2
  <2>4. ASSUME NEW t \in Slots, op'[t] # None, HasBefore(op'[t]), c = op'[t].before.chain
        PROVE  Listed(op'[u]) /\ t # u
    <3>1. CASE t = s
      <4>1. c = chain
        BY <1>6, <1>7, <2>4, <3>1
      <4>2. Listed(op[u])
        BY <1>12, <2>1, <4>1 DEF ListsApart
      <4> QED
        BY <2>1, <2>2, <3>1, <4>2
    <3>2. CASE t # s
      <4>1. op'[t] = op[t]
        BY <1>7, <3>2
      <4>2. Listed(op[u]) /\ t # u
        BY <1>12, <2>1, <2>4, <4>1 DEF ListsApart
      <4> QED
        BY <2>1, <2>2, <4>2
    <3> QED
      BY <3>1, <3>2
  <2>5. journal' # None /\ c = journal'.before.chain => Listed(op'[u]) /\ ~journal'.chained
    BY <1>1, <1>12, <2>1, <2>2 DEF ListsApart
  <2> QED
    BY <2>3, <2>4, <2>5
<1>13. ASSUME NEW c, NEW n, Lists(c, n), journal' # None, journal'.after.ledger.id = n
       PROVE  /\ c = journal'.before.chain => ~journal'.chained
              /\ c = chain' => journal'.chained
              /\ \A t \in Slots : op'[t] # None /\ op'[t].phase = "state" /\ c = op'[t].before.chain =>
                    journal'.chained
  <2>1. c = journal'.before.chain => ~journal'.chained
    BY <1>1, <1>13 DEF ListsApart
  <2>2. c = chain' => journal'.chained
    BY <1>1, <1>5, <1>9, <1>13 DEF ListsApart
  <2>3. ASSUME NEW t \in Slots, op'[t] # None, op'[t].phase = "state", c = op'[t].before.chain
        PROVE  journal'.chained
    <3>1. CASE t = s
      BY <1>1, <1>6, <1>7, <1>13, <2>3, <3>1 DEF ListsApart
    <3>2. CASE t # s
      BY <1>1, <1>7, <1>13, <2>3, <3>2 DEF ListsApart
    <3> QED
      BY <3>1, <3>2
  <2> QED
    BY <2>1, <2>2, <2>3
<1> QED
  BY <1>10, <1>11, <1>12, <1>13 DEF ListsApart

LEMMA BeginApart ==
  ASSUME IInv, SInv, ListsApart, NEW s \in Slots, BeginTransition(s)
  PROVE  ListsApart'
<1> DEFINE o == op[s]
           next == IF o.kind \in Chained THEN Advance(o.next) ELSE o.next
           goal == IF o.kind = "register"
                   THEN [from |-> task, to |-> [task EXCEPT !.used = @ + 1]] ELSE o.goal
           x == [o EXCEPT !.phase = "ledger", !.next = next, !.goal = goal, !.before = Files]
           j == [before |-> Files, chained |-> o.kind \in Chained,
                 after |-> [ledger |-> next, chain |-> Append(chain, Entry(next)),
                            task |-> goal.to]]
<1>1. /\ o # None /\ o.phase = "begin" /\ op' = [op EXCEPT ![s] = x] /\ journal' = j
      /\ chain' = chain
  BY DEF BeginTransition, At
<1>2. op \in [Slots -> OperationType \cup {None}] /\ TypeOK
  BY DEF IInv, TypeOK
<1>3. o \in OperationType /\ o.next \in LedgerType
  BY <1>1, TypedOp
<1>4. next.id = o.next.id
  BY <1>2, <1>3, AdvanceOf
<1>5. j.before = Files /\ j.after.ledger = next /\ j.chained = (o.kind \in Chained) /\ Files.chain = chain
  BY DEF Files
<1> HIDE DEF next, goal, j
<1>6. x.kind = o.kind /\ x.phase = "ledger" /\ x.before = Files /\ x.next = next
  BY <1>3 DEF OperationType
<1>7. op'[s] = x /\ \A t \in Slots : t # s => op'[t] = op[t]
  BY <1>1, <1>2
<1>8. ~Listed(o) /\ x.phase # "state"
  BY <1>1, <1>6 DEF Listed
<1>9. \A t \in Slots : t # s /\ op[t] # None /\ Listed(op[t]) => o.kind \notin Chained
  <2>1. ASSUME NEW t \in Slots, t # s, op[t] # None, Listed(op[t]) PROVE o.kind \notin Chained
    <3>1. t # "escalate"
      BY <2>1 DEF SInv, Shaped, Shape, Listed, Chained
    <3>2. s = "escalate"
      BY <2>1, <3>1 DEF Slots
    <3> QED
      BY <1>1, <3>2 DEF SInv, Shaped, Shape, Chained
  <2> QED
    BY <2>1
<1> HIDE DEF x, o
<1>10. \A c, n : Lists(c, n)' <=> Lists(c, n)
  BY DEF Lists
<1>11. \A t \in Slots : (HasBefore(op[t])' <=> HasBefore(op'[t])) /\ (Listed(op[t])' <=> Listed(op'[t]))
  BY DEF HasBefore, Listed
<1>12. ASSUME NEW c, NEW n, Lists(c, n), NEW u \in Slots, op'[u] # None, op'[u].next.id = n
       PROVE  /\ c = chain' => Listed(op'[u])
              /\ \A t \in Slots : op'[t] # None /\ HasBefore(op'[t]) /\ c = op'[t].before.chain =>
                    Listed(op'[u]) /\ t # u
              /\ journal' # None /\ c = journal'.before.chain => Listed(op'[u]) /\ ~journal'.chained
  <2>1. op[u] # None /\ op[u].next.id = n /\ (u # s => op'[u] = op[u])
    BY <1>1, <1>4, <1>6, <1>7, <1>12 DEF o
  <2>2. Listed(op[u]) => u # s /\ Listed(op'[u])
    BY <1>8, <2>1 DEF o
  <2>3. c = chain => Listed(op[u])
    BY <1>12, <2>1 DEF ListsApart
  <2>4. ASSUME NEW t \in Slots, op'[t] # None, HasBefore(op'[t]), c = op'[t].before.chain
        PROVE  Listed(op'[u]) /\ t # u
    <3>1. CASE t = s
      <4>1. c = chain
        BY <1>5, <1>6, <1>7, <2>4, <3>1
      <4> QED
        BY <2>2, <2>3, <3>1, <4>1
    <3>2. CASE t # s
      <4>1. op'[t] = op[t]
        BY <1>7, <3>2
      <4>2. Listed(op[u]) /\ t # u
        BY <1>12, <2>1, <2>4, <4>1 DEF ListsApart
      <4> QED
        BY <2>2, <4>2
    <3> QED
      BY <3>1, <3>2
  <2>5. ASSUME journal' # None, c = journal'.before.chain PROVE Listed(op'[u]) /\ ~journal'.chained
    <3>1. Listed(op[u])
      BY <1>1, <1>5, <2>3, <2>5
    <3> QED
      BY <1>1, <1>5, <1>9, <2>1, <2>2, <3>1
  <2> QED
    BY <1>1, <2>2, <2>3, <2>4, <2>5
<1>13. ASSUME NEW c, NEW n, Lists(c, n), journal' # None, journal'.after.ledger.id = n
       PROVE  /\ c = journal'.before.chain => ~journal'.chained
              /\ c = chain' => journal'.chained
              /\ \A t \in Slots : op'[t] # None /\ op'[t].phase = "state" /\ c = op'[t].before.chain =>
                    journal'.chained
  <2>1. n = o.next.id /\ op[s] # None /\ op[s].next.id = n /\ ~Listed(op[s])
    BY <1>1, <1>4, <1>5, <1>8, <1>13 DEF o
  <2>2. c # chain
    BY <1>13, <2>1 DEF ListsApart
  <2>3. ASSUME NEW t \in Slots, op'[t] # None, op'[t].phase = "state", c = op'[t].before.chain
        PROVE  FALSE
    <3>1. t # s /\ op'[t] = op[t]
      BY <1>7, <1>8, <2>3
    <3>2. HasBefore(op[t])
      BY <2>3, <3>1 DEF HasBefore
    <3> QED
      BY <1>13, <2>1, <2>3, <3>1, <3>2 DEF ListsApart
  <2> QED
    BY <1>1, <1>5, <2>2, <2>3
<1> QED
  BY <1>10, <1>11, <1>12, <1>13 DEF ListsApart

LEMMA ApartInit == Init => ListsApart
<1> SUFFICES ASSUME Init PROVE ListsApart
  OBVIOUS
<1>1. journal = None /\ \A s \in Slots : op[s] = None
  BY DEF Init
<1> QED
  BY <1>1 DEF ListsApart

LEMMA ApartStep == IInv /\ SInv /\ ListsApart /\ [Next]_vars => ListsApart'
<1> SUFFICES ASSUME IInv, SInv, ListsApart, [Next]_vars PROVE ListsApart'
  OBVIOUS
<1>1. ledger.rev >= 1 /\ "agents" \in Slots /\ "escalate" \in Slots
  BY DEF SInv, Numbered, Bounded, Slots
<1>2. CASE Command
  <2>1. PICK o : Begin("agents", o) /\ Commanded(o)
    BY <1>1, <1>2, CommandBegins
  <2>2. o.next.id = ids + 1 /\ o.phase \in {"marker", "chain", "begin"}
    BY <2>1 DEF Commanded
  <2> QED
    BY <1>1, <2>1, <2>2, NewestApart
<1>3. ASSUME NEW mode \in Modes, Escalate(mode) PROVE ListsApart'
  <2>1. PICK o : Begin("escalate", o) /\ Escalated(o)
    BY <1>1, <1>3, EscalateBegins
  <2>2. o.next.id = ids + 1 /\ o.phase \in {"marker", "chain", "begin"}
    BY <2>1 DEF Escalated
  <2> QED
    BY <1>1, <2>1, <2>2, NewestApart
<1>4. CASE Observe \/ Discard \/ UNCHANGED vars
  BY <1>4, RestApart DEF Observe, Discard, vars
<1>5. CASE WriteState
  BY <1>1, <1>5, OverApart DEF WriteState
<1>6. ASSUME NEW s \in Slots, Crash(s) PROVE ListsApart'
  BY <1>6, OverApart DEF Crash
<1>7. ASSUME NEW s \in Slots, Transition(s) PROVE ListsApart'
  BY <1>7, BeginApart, GoneOnApart, ChainApart, CleanApart, AppendApart, RollbackApart DEF Transition
<1> QED
  BY <1>2, <1>3, <1>4, <1>5, <1>6, <1>7, PublishApart, TipApart, SaveFailsApart, RestoreApart
     DEF Next, Command

(***************************************************************************)
(* What has been charged stays charged.  A chain is followed from an       *)
(* acknowledged version to its tip; the heirs of that tip are the versions *)
(* that are built on it, and those keep what the acknowledged one charged. *)
(***************************************************************************)
Tip(c) == c[Len(c)].file

\* The entries from a version to the tip link up.
Follows(c, n) ==
    \E p \in 1..Len(c) : c[p].file = n /\ \A q \in p+1..Len(c) : c[q].prev = c[q-1].file

Keeps(l, v) == v.epoch = l.epoch => v.charged \subseteq Holding(l, "settled")
Inherits(l, k) == k.epoch = l.epoch /\ Holding(l, "settled") \subseteq Holding(k, "settled")

EscalatesFrom(n) == op["escalate"] # None /\ op["escalate"].next.prev = n
Unlisted == op["agents"] # None /\ ~Listed(op["agents"])

\* Chains that are on disk, or are put back when a save fails.
Standing(c) ==
    \/ c = chain
    \/ op["agents"] # None /\ op["agents"].phase = "state" /\ c = op["agents"].before.chain

\* What stands on tip t with ledger l, but for a command that has read n.
Heir(t, l, n, k) ==
    \/ k = l /\ (l.id = t \/ EscalatesFrom(t))
    \/ k = op["agents"].next /\ Unlisted /\ op["agents"].read # n /\ (l.id = t \/ EscalatesFrom(t))
    \/ k = op["escalate"].next /\ EscalatesFrom(t)

Kept(c, l, n) == \A k : \A v \in acked :
    v.locked /\ Follows(c, v.id) /\ Heir(Tip(c), l, n, k) => Keeps(k, v)

\* A rollback or restore over ledger x puts back files f, and leaves chain c.
Returns(f, x, c) ==
    \/ /\ journal # None /\ f = journal.before /\ x = journal.after.ledger
       /\ IF journal.chained THEN c = f.chain ELSE Standing(c)
    \/ \E s \in Slots :
          /\ op[s] # None /\ op[s].phase \in InTransition /\ f = op[s].before /\ x = op[s].next
          /\ IF op[s].kind \in Chained THEN c = f.chain ELSE Standing(c)

LedgerKept == \A c, l : Standing(c) /\ l = ledger => Kept(c, l, 0)
BackKept == \A f, x, c : Returns(f, x, c) /\ ledger \in {f.ledger, x} => Kept(c, f.ledger, x.id)

\* An escalation about to write over what was saved meanwhile.
Overtaking ==
    /\ op["escalate"] # None /\ op["escalate"].phase = "ledger"
    /\ ledger # op["escalate"].before.ledger
Overtaken == Overtaking => \A c : Standing(c) => \A v \in acked : v.locked /\ Follows(c, v.id) =>
    Tip(c) # op["escalate"].before.ledger.id /\ ~EscalatesFrom(Tip(c))

\* A version whose tip is already in the chain, or is written with it.
ListingKept == \A c, k : c = chain /\ op["agents"] # None /\ Listed(op["agents"]) /\ k = op["agents"].next =>
    /\ Follows(c, k.id) => Tip(c) = k.id
    /\ \A v \in acked : v.locked /\ Follows(c, v.id) => Tip(c) = k.id /\ Keeps(k, v)

\* An escalation that read the version of a transition under way.
ReadWhile ==
    op["agents"] # None /\ op["agents"].kind \in Chained =>
        \A k, e : k = op["agents"].next /\ EscalatesFrom(k.id) /\ e = op["escalate"].next =>
            Inherits(k, e) /\ op["escalate"].phase = "begin"

\* A task that starts has an epoch of its own, and charges nothing.
Starting(k) == op["agents"] # None /\ op["agents"].kind = "start" /\ k = op["agents"].next
StartFresh == \A k : Starting(k) =>
    /\ \A v \in acked : v.locked => v.epoch # k.epoch
    /\ Holding(k, "settled") = {}
    /\ Stored(op["agents"]) /\ (ledger.id = k.id \/ EscalatesFrom(k.id)) => ledger.epoch = k.epoch
    /\ Stored(op["agents"]) /\ EscalatesFrom(k.id) => op["escalate"].next.epoch = k.epoch
TipFresh == \A k : Starting(k) /\ op["agents"].phase = "tip" =>
    /\ ~Overtaking
    /\ \A f, x, c : Returns(f, x, c) /\ ledger \in {f.ledger, x} =>
          (f.ledger.id = k.id \/ EscalatesFrom(k.id) => f.ledger.epoch = k.epoch)

Reading == op["agents"] # None => op["agents"].read # op["agents"].next.id

ChargesKept ==
    /\ LedgerKept /\ BackKept
    /\ Overtaken /\ ListingKept /\ ReadWhile /\ StartFresh /\ TipFresh /\ Reading

CInv == reverted = {} => ChargesKept

LEMMA FollowsAppended ==
  ASSUME NEW c \in Seq(EntryType), NEW e \in EntryType
  PROVE  /\ Tip(Append(c, e)) = e.file
         /\ \A n : Follows(Append(c, e), n) => n = e.file \/ (Follows(c, n) /\ e.prev = Tip(c))
<1> DEFINE d == Append(c, e)
<1>1. /\ Len(c) \in Nat /\ Len(d) = Len(c) + 1 /\ d[Len(d)] = e
      /\ \A j \in 1..Len(c) : d[j] = c[j] /\ j \in 1..Len(d)
      /\ \A j \in 1..Len(d) : j \in 1..Len(c) \/ j = Len(d)
  BY AppendedTo
<1> HIDE DEF d
<1>2. ASSUME NEW n, Follows(d, n), n # e.file PROVE Follows(c, n) /\ e.prev = Tip(c)
  <2>1. PICK p \in 1..Len(d) : d[p].file = n /\ \A q \in p+1..Len(d) : d[q].prev = d[q-1].file
    BY <1>2 DEF Follows
  <2>2. p \in 1..Len(c) /\ c[p].file = n
    BY <1>1, <1>2, <2>1
  <2>3. Len(d) \in p+1..Len(d) /\ Len(d) - 1 = Len(c) /\ Len(c) \in 1..Len(c)
    BY <1>1, <2>2
  <2>4. e.prev = Tip(c)
    BY <1>1, <2>1, <2>3 DEF Tip
  <2>5. ASSUME NEW q \in p+1..Len(c) PROVE c[q].prev = c[q-1].file
    <3>1. q \in p+1..Len(d) /\ q \in 1..Len(c) /\ q-1 \in 1..Len(c)
      BY <1>1, <2>2, <2>5
    <3> QED
      BY <1>1, <2>1, <3>1
  <2> QED
    BY <2>2, <2>4, <2>5 DEF Follows
<1> QED
  BY <1>1, <1>2 DEF Tip, d

LEMMA FollowsLists ==
  ASSUME NEW c \in Seq(EntryType), NEW n, Follows(c, n)
  PROVE  Lists(c, n) /\ Lists(c, Tip(c))
<1>1. PICK p \in 1..Len(c) : c[p].file = n
  BY DEF Follows
<1>2. Len(c) \in 1..Len(c)
  BY <1>1
<1> QED
  BY <1>1, <1>2 DEF Lists, Tip

LEMMA KeepsOn ==
  ASSUME NEW l, NEW k, NEW v, Keeps(l, v), Inherits(l, k)
  PROVE  Keeps(k, v)
BY DEF Keeps, Inherits

\* A step after which nothing is an heir that was not, but for what it stores.
Tame ==
    /\ AckedHere
    /\ op'["escalate"] # None => op["escalate"] # None /\ op'["escalate"].next = op["escalate"].next
    /\ op'["agents"] # None /\ ~Listed(op'["agents"]) =>
          /\ op["agents"] # None /\ ~Listed(op["agents"]) /\ op'["agents"].read = op["agents"].read
          /\ Inherits(op["agents"].next, op'["agents"].next)

LEMMA TameHeirs ==
  ASSUME Tame, NEW t, NEW l, NEW n, NEW k, Heir(t, l, n, k)'
  PROVE  /\ EscalatesFrom(t)' => EscalatesFrom(t)
         /\ \E h : Heir(t, l, n, h) /\ Inherits(h, k)
<1>1. EscalatesFrom(t)' => EscalatesFrom(t) /\ op'["escalate"].next = op["escalate"].next
  BY DEF EscalatesFrom, Tame
<1>2. \A h : Inherits(h, h)
  BY DEF Inherits
<1>3. CASE k = l /\ (l.id = t \/ EscalatesFrom(t)')
  BY <1>1, <1>2, <1>3 DEF Heir
<1>4. CASE k = op'["agents"].next /\ Unlisted' /\ op'["agents"].read # n /\ (l.id = t \/ EscalatesFrom(t)')
  <2>1. op'["agents"] # None /\ ~Listed(op'["agents"])
    BY <1>4 DEF Unlisted, Listed
  <2>2. /\ Unlisted /\ op["agents"].read # n
        /\ Inherits(op["agents"].next, k)
    BY <1>4, <2>1 DEF Tame, Unlisted
  <2> QED
    BY <1>1, <1>4, <2>2 DEF Heir
<1>5. CASE k = op'["escalate"].next /\ EscalatesFrom(t)'
  BY <1>1, <1>2, <1>5 DEF Heir
<1> QED
  BY <1>1, <1>3, <1>4, <1>5 DEF Heir

LEMMA TameKeeps ==
  ASSUME Tame, NEW c, NEW l, NEW n, Kept(c, l, n)
  PROVE  Kept(c, l, n)'
<1>1. ASSUME NEW v \in acked', NEW k, v.locked, Follows(c, v.id), Heir(Tip(c), l, n, k)'
      PROVE  Keeps(k, v)
  <2>1. v \in acked
    BY <1>1 DEF Tame, AckedHere
  <2>2. PICK h : Heir(Tip(c), l, n, h) /\ Inherits(h, k)
    BY <1>1, TameHeirs
  <2>3. Keeps(h, v)
    BY <1>1, <2>1, <2>2 DEF Kept
  <2> QED
    BY <2>2, <2>3, KeepsOn
<1>2. \A m : (Follows(c, m)' <=> Follows(c, m)) /\ Tip(c)' = Tip(c)
  BY DEF Follows, Tip
<1>3. \A k, v : Keeps(k, v)' <=> Keeps(k, v)
  BY DEF Keeps, Holding
<1> QED
  BY <1>1, <1>2, <1>3 DEF Kept

(***************************************************************************)
(* Steps that store nothing.                                               *)
(***************************************************************************)
StandingShrinks == \A c : Standing(c)' => Standing(c)
ReturnsShrinks == \A f, x, c : Returns(f, x, c)' => Returns(f, x, c)

SameHand == \A s \in Slots : op'[s] # None /\ op'[s].phase \in InTransition =>
    /\ op[s] # None /\ op[s].phase \in InTransition
    /\ op'[s].kind = op[s].kind /\ op'[s].next = op[s].next /\ op'[s].before = op[s].before

\* No escalation but the one there was, and no further on than it was.
SameEscalation == op'["escalate"] # None =>
    /\ op["escalate"] # None /\ op'["escalate"].next = op["escalate"].next
    /\ op["escalate"].phase = "begin" => op'["escalate"].phase = "begin"
    /\ op'["escalate"].phase = "ledger" =>
          op["escalate"].phase = "ledger" /\ op'["escalate"].before = op["escalate"].before

SameCommand == op'["agents"] # None =>
    /\ op["agents"] # None
    /\ op'["agents"].kind = op["agents"].kind /\ op'["agents"].next = op["agents"].next
    /\ op'["agents"].read = op["agents"].read
    /\ Listed(op'["agents"]) <=> Listed(op["agents"])
    /\ Stored(op'["agents"]) => Stored(op["agents"])

JournalOn == journal' = None \/ journal' = journal

LEMMA Primed ==
  /\ \A c, n : Follows(c, n)' <=> Follows(c, n)
  /\ \A c : Tip(c)' = Tip(c)
  /\ \A k, v : Keeps(k, v)' <=> Keeps(k, v)
  /\ \A h, k : Inherits(h, k)' <=> Inherits(h, k)
  /\ \A k, status : Holding(k, status)' = Holding(k, status)
  /\ \A o : (Listed(o)' <=> Listed(o)) /\ (Stored(o)' <=> Stored(o))
  /\ Listed(op["agents"])' <=> Listed(op'["agents"])
  /\ Stored(op["agents"])' <=> Stored(op'["agents"])
BY DEF Follows, Tip, Keeps, Inherits, Holding, Listed, Stored

LEMMA TameOn ==
  ASSUME AckedHere, SameEscalation, SameCommand
  PROVE  Tame
<1>1. \A h : Inherits(h, h)
  BY DEF Inherits
<1> QED
  BY <1>1 DEF Tame, SameEscalation, SameCommand

LEMMA EscalatesOn ==
  ASSUME SameEscalation
  PROVE  \A n : EscalatesFrom(n)' => /\ EscalatesFrom(n) /\ op'["escalate"].next = op["escalate"].next
                                     /\ op["escalate"].phase = "begin" => op'["escalate"].phase = "begin"
BY DEF SameEscalation, EscalatesFrom

LEMMA ReturnsOn ==
  ASSUME SameHand, JournalOn, StandingShrinks
  PROVE  ReturnsShrinks
<1>1. ASSUME NEW f, NEW x, NEW c, Returns(f, x, c)' PROVE Returns(f, x, c)
  <2>1. Standing(c)' => Standing(c)
    BY DEF StandingShrinks
  <2>2. CASE /\ journal' # None /\ f = journal'.before /\ x = journal'.after.ledger
             /\ IF journal'.chained THEN c = f.chain ELSE Standing(c)'
    BY <2>1, <2>2 DEF Returns, JournalOn
  <2>3. ASSUME NEW s \in Slots, op'[s] # None, op'[s].phase \in InTransition,
               f = op'[s].before, x = op'[s].next,
               IF op'[s].kind \in Chained THEN c = f.chain ELSE Standing(c)'
        PROVE  Returns(f, x, c)
    BY <2>1, <2>3 DEF Returns, SameHand
  <2> QED
    BY <1>1, <2>2, <2>3 DEF Returns
<1> QED
  BY <1>1 DEF ReturnsShrinks

LEMMA LedgerOn ==
  ASSUME LedgerKept, Tame, StandingShrinks, ledger' = ledger
  PROVE  LedgerKept'
<1>1. ASSUME NEW c, NEW l, Standing(c)', l = ledger' PROVE Kept(c, l, 0)'
  <2>1. Kept(c, l, 0)
    BY <1>1 DEF LedgerKept, StandingShrinks
  <2> QED
    BY <2>1, TameKeeps
<1> QED
  BY <1>1 DEF LedgerKept

LEMMA BackOn ==
  ASSUME BackKept, Tame, ReturnsShrinks, ledger' = ledger
  PROVE  BackKept'
<1>1. ASSUME NEW f, NEW x, NEW c, Returns(f, x, c)', ledger' \in {f.ledger, x}
      PROVE  Kept(c, f.ledger, x.id)'
  <2>1. Kept(c, f.ledger, x.id)
    BY <1>1 DEF BackKept, ReturnsShrinks
  <2> DEFINE l == f.ledger
             n == x.id
  <2>2. Kept(c, l, n)
    BY <2>1
  <2> HIDE DEF l, n
  <2>3. Kept(c, l, n)'
    BY <2>2, TameKeeps
  <2> QED
    BY <2>3 DEF l, n
<1> QED
  BY <1>1 DEF BackKept

LEMMA OvertakingOn ==
  ASSUME SameEscalation, ledger' = ledger, Overtaking'
  PROVE  /\ Overtaking /\ op'["escalate"].before = op["escalate"].before
         /\ op'["escalate"].next = op["escalate"].next
BY DEF Overtaking, SameEscalation

LEMMA OvertakenOn ==
  ASSUME Overtaken, AckedHere, SameEscalation, StandingShrinks, ledger' = ledger
  PROVE  Overtaken'
<1>1. ASSUME Overtaking', NEW c, Standing(c)', NEW v \in acked', v.locked, Follows(c, v.id)
      PROVE  Tip(c) # op'["escalate"].before.ledger.id /\ ~EscalatesFrom(Tip(c))'
  <2>1. /\ Overtaking /\ op'["escalate"].before = op["escalate"].before
        /\ Standing(c) /\ v \in acked
    BY <1>1, OvertakingOn DEF StandingShrinks, AckedHere
  <2>2. Tip(c) # op["escalate"].before.ledger.id /\ ~EscalatesFrom(Tip(c))
    BY <1>1, <2>1 DEF Overtaken
  <2> QED
    BY <2>1, <2>2, EscalatesOn
<1> QED
  BY <1>1, Primed DEF Overtaken

LEMMA ListingOn ==
  ASSUME ListingKept, AckedHere, SameCommand, chain' = chain
  PROVE  ListingKept'
<1>1. ASSUME NEW c, NEW k, c = chain', op'["agents"] # None, Listed(op'["agents"]), k = op'["agents"].next
      PROVE  /\ Follows(c, k.id) => Tip(c) = k.id
             /\ \A v \in acked' : v.locked /\ Follows(c, v.id) => Tip(c) = k.id /\ Keeps(k, v)
  <2>1. /\ Follows(c, k.id) => Tip(c) = k.id
        /\ \A v \in acked : v.locked /\ Follows(c, v.id) => Tip(c) = k.id /\ Keeps(k, v)
    BY <1>1 DEF ListingKept, SameCommand
  <2> QED
    BY <2>1 DEF AckedHere
<1> QED
  BY <1>1, Primed DEF ListingKept

LEMMA ReadOn ==
  ASSUME ReadWhile, SameEscalation, SameCommand
  PROVE  ReadWhile'
<1>1. ASSUME op'["agents"] # None, op'["agents"].kind \in Chained, NEW k, NEW e,
             k = op'["agents"].next, EscalatesFrom(k.id)', e = op'["escalate"].next
      PROVE  Inherits(k, e) /\ op'["escalate"].phase = "begin"
  <2>1. /\ op["agents"] # None /\ op["agents"].kind \in Chained /\ k = op["agents"].next
        /\ EscalatesFrom(k.id) /\ e = op["escalate"].next
        /\ op["escalate"].phase = "begin" => op'["escalate"].phase = "begin"
    BY <1>1, EscalatesOn DEF SameCommand
  <2> QED
    BY <2>1 DEF ReadWhile
<1> QED
  BY <1>1, Primed DEF ReadWhile

LEMMA StartOn ==
  ASSUME StartFresh, AckedHere, SameEscalation, SameCommand, ledger' = ledger
  PROVE  StartFresh'
<1>1. ASSUME NEW k, Starting(k)'
      PROVE  /\ \A v \in acked' : v.locked => v.epoch # k.epoch
             /\ Holding(k, "settled") = {}
             /\ Stored(op'["agents"]) /\ (ledger'.id = k.id \/ EscalatesFrom(k.id)') => ledger'.epoch = k.epoch
             /\ Stored(op'["agents"]) /\ EscalatesFrom(k.id)' => op'["escalate"].next.epoch = k.epoch
  <2>1. Starting(k) /\ (Stored(op'["agents"]) => Stored(op["agents"]))
    BY <1>1 DEF Starting, SameCommand
  <2>2. EscalatesFrom(k.id)' => EscalatesFrom(k.id) /\ op'["escalate"].next = op["escalate"].next
    BY EscalatesOn
  <2>3. \A v \in acked' : v.locked => v.epoch # k.epoch
    BY <2>1 DEF StartFresh, AckedHere
  <2>4. /\ Holding(k, "settled") = {}
        /\ Stored(op'["agents"]) /\ (ledger'.id = k.id \/ EscalatesFrom(k.id)') => ledger'.epoch = k.epoch
        /\ Stored(op'["agents"]) /\ EscalatesFrom(k.id)' => op'["escalate"].next.epoch = k.epoch
    BY <2>1, <2>2 DEF StartFresh
  <2> QED
    BY <2>3, <2>4
<1> QED
  BY <1>1, Primed DEF StartFresh

LEMMA TipOn ==
  ASSUME TipFresh, SameEscalation, SameCommand, ReturnsShrinks, ledger' = ledger,
         op'["agents"] # None /\ op'["agents"].phase = "tip" => op["agents"].phase = "tip"
  PROVE  TipFresh'
<1>1. ASSUME NEW k, Starting(k)', op'["agents"].phase = "tip"
      PROVE  /\ ~Overtaking'
             /\ \A f, x, c : Returns(f, x, c)' /\ ledger' \in {f.ledger, x} =>
                   (f.ledger.id = k.id \/ EscalatesFrom(k.id)' => f.ledger.epoch = k.epoch)
  <2>1. Starting(k) /\ op["agents"].phase = "tip"
    BY <1>1 DEF Starting, SameCommand
  <2>2. ~Overtaking'
    BY <2>1, OvertakingOn DEF TipFresh
  <2>3. EscalatesFrom(k.id)' => EscalatesFrom(k.id)
    BY EscalatesOn
  <2>4. ASSUME NEW f, NEW x, NEW c, Returns(f, x, c)', ledger' \in {f.ledger, x},
               f.ledger.id = k.id \/ EscalatesFrom(k.id)'
        PROVE  f.ledger.epoch = k.epoch
    <3>1. Returns(f, x, c) /\ ledger \in {f.ledger, x}
      BY <2>4 DEF ReturnsShrinks
    <3>2. f.ledger.id = k.id \/ EscalatesFrom(k.id)
      BY <2>3, <2>4
    <3> QED
      BY <2>1, <3>1, <3>2 DEF TipFresh
  <2> QED
    BY <2>2, <2>4
<1> QED
  BY <1>1 DEF TipFresh

LEMMA ReadingOn ==
  ASSUME Reading, op'["agents"] # None =>
         op["agents"] # None /\ op'["agents"].read = op["agents"].read
                /\ op'["agents"].next.id = op["agents"].next.id
  PROVE  Reading'
BY DEF Reading

LEMMA MostlyQuiet ==
  ASSUME ChargesKept, AckedHere, SameEscalation, SameCommand, SameHand, JournalOn, StandingShrinks,
         ledger' = ledger, chain' = chain \/ op'["agents"] = None
  PROVE  /\ LedgerKept' /\ BackKept' /\ Overtaken' /\ ListingKept' /\ ReadWhile' /\ StartFresh' /\ Reading'
         /\ ReturnsShrinks
<1>1. Tame /\ ReturnsShrinks
  BY TameOn, ReturnsOn
<1>2. /\ LedgerKept /\ BackKept
      /\ Overtaken /\ ListingKept /\ ReadWhile /\ StartFresh /\ Reading
  BY DEF ChargesKept
<1>3. LedgerKept' /\ BackKept' /\ Overtaken' /\ ReadWhile' /\ StartFresh'
  BY <1>1, <1>2, LedgerOn, BackOn, OvertakenOn, ReadOn, StartOn
<1>4. ListingKept'
  <2>1. CASE op'["agents"] = None
    BY <2>1 DEF ListingKept
  <2>2. CASE chain' = chain
    BY <1>2, <2>2, ListingOn
  <2> QED
    BY <2>1, <2>2
<1>5. Reading'
  BY <1>2, ReadingOn DEF SameCommand
<1> QED
  BY <1>1, <1>3, <1>4, <1>5

LEMMA QuietKeepsC ==
  ASSUME ChargesKept, AckedHere, SameEscalation, SameCommand, SameHand, JournalOn, StandingShrinks,
         ledger' = ledger, chain' = chain \/ op'["agents"] = None,
         op'["agents"] # None /\ op'["agents"].phase = "tip" => op["agents"].phase = "tip"
  PROVE  ChargesKept'
BY MostlyQuiet, TipOn DEF ChargesKept

LEMMA OverSame ==
  ASSUME IInv, NEW s \in Slots, op[s] # None, Done(s)
  PROVE  /\ SameEscalation /\ SameCommand /\ SameHand
         /\ op'["agents"] # None /\ op'["agents"].phase = "tip" => op["agents"].phase = "tip"
         /\ chain' = chain => StandingShrinks
<1>1. op'[s] = None /\ \A t \in Slots : t # s => op'[t] = op[t]
  BY Over
<1>2. "agents" \in Slots /\ "escalate" \in Slots
  BY DEF Slots
<1> QED
  BY <1>1, <1>2 DEF SameEscalation, SameCommand, SameHand, StandingShrinks, Standing

LEMMA PhaseSame ==
  ASSUME IInv, NEW s \in Slots, NEW phase, op[s] # None, Goto(s, phase), op[s].phase # "begin",
         phase \notin {"state", "ledger"},
         phase \in InTransition => op[s].phase \in InTransition
  PROVE  /\ SameEscalation /\ SameHand
         /\ chain' = chain => StandingShrinks
         /\ (s = "agents" =>
                /\ phase \in {"task", "context", "clean"} => op[s].phase \in {"task", "context", "clean"}
                /\ Listed(op[s]) => phase \in {"task", "context", "clean"}
                /\ phase \in {"chained", "tip"} => op[s].phase \in {"chained", "task", "context", "clean", "tip"})
              => SameCommand
<1>1. /\ \A t \in Slots : t # s => op'[t] = op[t]
      /\ op'[s].kind = op[s].kind /\ op'[s].read = op[s].read /\ op'[s].next = op[s].next
      /\ op'[s].before = op[s].before /\ op'[s].phase = phase
  BY Phased
<1>2. "agents" \in Slots /\ "escalate" \in Slots
  BY DEF Slots
<1>3. SameEscalation
  BY <1>1, <1>2 DEF SameEscalation
<1>4. SameHand
  BY <1>1 DEF SameHand
<1>5. chain' = chain => StandingShrinks
  BY <1>1, <1>2 DEF StandingShrinks, Standing
<1>6. ASSUME s = "agents" =>
                /\ phase \in {"task", "context", "clean"} => op[s].phase \in {"task", "context", "clean"}
                /\ Listed(op[s]) => phase \in {"task", "context", "clean"}
                /\ phase \in {"chained", "tip"} => op[s].phase \in {"chained", "task", "context", "clean", "tip"}
      PROVE  SameCommand
  <2>1. CASE s = "agents"
    BY <1>1, <1>6, <2>1 DEF SameCommand, Listed, Stored
  <2>2. CASE s # "agents"
    BY <1>1, <1>2, <2>2 DEF SameCommand
  <2> QED
    BY <2>1, <2>2
<1> QED
  BY <1>3, <1>4, <1>5, <1>6

LEMMA RestKeepsC ==
  ASSUME ChargesKept, op' = op, ledger' = ledger, chain' = chain, acked' = acked, JournalOn
  PROVE  ChargesKept'
<1>1. AckedHere /\ SameEscalation /\ SameCommand /\ SameHand /\ StandingShrinks
  BY DEF AckedHere, SameEscalation, SameCommand, SameHand, StandingShrinks, Standing
<1> QED
  BY <1>1, QuietKeepsC

LEMMA PublishKeepsC ==
  ASSUME IInv, ChargesKept, PublishMarker
  PROVE  ChargesKept'
<1> DEFINE s == "agents"
           phase == "chain"
<1>1. /\ s \in Slots /\ op[s] # None /\ op[s].phase = "marker" /\ Goto(s, phase)
      /\ ledger' = ledger /\ chain' = chain /\ journal' = journal /\ acked' = acked
  BY DEF PublishMarker, At, Slots
<1>2. /\ op[s].phase # "begin" /\ phase \notin {"state", "ledger"} /\ phase \notin InTransition
      /\ ~Listed(op[s]) /\ phase \notin {"task", "context", "clean", "chained", "tip"}
  BY <1>1 DEF InTransition, Listed
<1>3. SameEscalation /\ SameCommand /\ SameHand /\ StandingShrinks
  BY <1>1, <1>2, PhaseSame
<1>4. op'[s].phase # "tip" /\ JournalOn /\ AckedHere
  BY <1>1, Phased DEF JournalOn, AckedHere
<1> QED
  BY <1>1, <1>3, <1>4, QuietKeepsC

LEMMA TaskKeepsC ==
  ASSUME IInv, ChargesKept, NEW s \in Slots, StoreTask(s) \/ BindContext(s)
  PROVE  ChargesKept'
<1>1. PICK phase \in {"context", "clean"} :
         /\ op[s] # None /\ op[s].phase \in {"task", "context"} /\ Goto(s, phase)
         /\ ledger' = ledger /\ chain' = chain /\ journal' = journal /\ acked' = acked
  BY DEF StoreTask, BindContext, At
<1>2. /\ op[s].phase # "begin" /\ phase \notin {"state", "ledger"} /\ op[s].phase \in InTransition
      /\ phase \in {"task", "context", "clean"} /\ op[s].phase \in {"task", "context", "clean"}
      /\ phase \notin {"chained", "tip"}
  BY <1>1 DEF InTransition
<1>3. SameEscalation /\ SameCommand /\ SameHand /\ StandingShrinks
  BY <1>1, <1>2, PhaseSame
<1>4. op'["agents"] # None /\ op'["agents"].phase = "tip" => op["agents"].phase = "tip"
  BY <1>1, Phased DEF Slots
<1>5. JournalOn /\ AckedHere
  BY <1>1 DEF JournalOn, AckedHere
<1> QED
  BY <1>1, <1>3, <1>4, <1>5, QuietKeepsC

LEMMA CrashKeepsC ==
  ASSUME IInv, ChargesKept, NEW s \in Slots, Crash(s)
  PROVE  ChargesKept'
<1>1. /\ op[s] # None /\ Done(s) /\ ledger' = ledger /\ chain' = chain /\ journal' = journal
      /\ acked' = acked
  BY DEF Crash
<1>2. JournalOn /\ AckedHere
  BY <1>1 DEF JournalOn, AckedHere
<1> QED
  BY <1>1, <1>2, OverSame, QuietKeepsC

\* A chain that is put back was standing.
LEMMA SaveFailsKeepsC ==
  ASSUME IInv, ChargesKept, SaveFails
  PROVE  ChargesKept'
<1> DEFINE s == "agents"
<1>1. /\ s \in Slots /\ op[s] # None /\ op[s].phase = "state" /\ Done(s) /\ chain' = op[s].before.chain
      /\ ledger' = ledger /\ journal' = journal /\ acked' = acked
  BY DEF SaveFails, At, Slots
<1>2. op'[s] = None
  BY <1>1, Over
<1>3. StandingShrinks
  BY <1>1, <1>2 DEF StandingShrinks, Standing
<1>4. JournalOn /\ AckedHere
  BY <1>1 DEF JournalOn, AckedHere
<1>5. SameEscalation /\ SameCommand /\ SameHand
  BY <1>1, OverSame
<1> QED
  BY <1>1, <1>2, <1>3, <1>4, <1>5, QuietKeepsC

LEMMA ReturnsBackup ==
  ASSUME NEW f, NEW x, NEW c, Returns(f, x, c)
  PROVE  f \in Backups
<1>1. \/ journal # None /\ f = journal.before
      \/ \E s \in Slots : op[s] # None /\ HasBefore(op[s]) /\ f = op[s].before
  BY DEF Returns, HasBefore
<1> QED
  BY <1>1, BackupIn

\* What is put back over a version goes with a chain that does not list it.
LEMMA ReturnsApart ==
  ASSUME ListsApart, NEW f, NEW x, NEW c, Returns(f, x, c)
  PROVE  ~Lists(c, x.id)
<1> SUFFICES ASSUME Lists(c, x.id) PROVE FALSE
  OBVIOUS
<1>1. Standing(c) =>
        \/ c = chain
        \/ "agents" \in Slots /\ op["agents"] # None /\ op["agents"].phase = "state"
              /\ c = op["agents"].before.chain
  BY DEF Standing, Slots
<1>2. CASE /\ journal # None /\ f = journal.before /\ x = journal.after.ledger
           /\ IF journal.chained THEN c = f.chain ELSE Standing(c)
  BY <1>1, <1>2 DEF ListsApart
<1>3. ASSUME NEW s \in Slots, op[s] # None, op[s].phase \in InTransition, f = op[s].before, x = op[s].next,
             IF op[s].kind \in Chained THEN c = f.chain ELSE Standing(c)
      PROVE  FALSE
  <2>1. HasBefore(op[s]) /\ (op[s].kind \notin Chained => ~Listed(op[s]))
    BY <1>3 DEF HasBefore, Listed, InTransition
  <2>2. CASE op[s].kind \in Chained
    BY <1>3, <2>1, <2>2 DEF ListsApart
  <2>3. CASE op[s].kind \notin Chained
    <3>1. op["agents"] # None /\ op["agents"].phase = "state" => HasBefore(op["agents"])
      BY DEF HasBefore
    <3> QED
      BY <1>1, <1>3, <2>1, <2>3, <3>1 DEF ListsApart
  <2> QED
    BY <2>2, <2>3
<1> QED
  BY <1>2, <1>3 DEF Returns

\* Nothing is built on a version that is not named.
LEMMA Unnamed ==
  ASSUME IInv, SInv, NEW t, ~Named(t)
  PROVE  /\ ledger.id # t /\ ~EscalatesFrom(t)
         /\ \A f, x, c : Returns(f, x, c) => f.ledger.id # t
<1>1. ledger.id # t
  BY DEF Named, Names
<1>2. ~EscalatesFrom(t)
  BY DEF Named, EscalatesFrom, Slots
<1>3. ASSUME NEW f, NEW x, NEW c, Returns(f, x, c) PROVE f.ledger.id # t
  BY <1>3, ReturnsBackup DEF Named, Names
<1> QED
  BY <1>1, <1>2, <1>3

LEMMA CommandKeepsC ==
  ASSUME IInv, SInv, ChargesKept, NEW o, Begin("agents", o), Commanded(o)
  PROVE  ChargesKept'
<1> DEFINE s == "agents"
<1>1. /\ s \in Slots /\ op'[s] = o /\ op[s] = None /\ op'["escalate"] = op["escalate"]
      /\ \A t \in Slots : t # s => op'[t] = op[t]
      /\ ids \in Nat /\ ledger' = ledger /\ chain' = chain /\ journal' = journal /\ acked' = acked
  BY Taken DEF Slots
<1>2. /\ o.read = ledger.id /\ o.next.id = ids + 1 /\ o.phase \in {"marker", "chain", "begin"}
      /\ o.phase # "state" /\ o.phase \notin InTransition /\ ~Listed(o) /\ ~Stored(o) /\ o.phase # "tip"
  BY DEF Commanded, InTransition, Listed, Stored
<1>3. /\ ledger.id \in 1..ids /\ \A v \in acked : v.epoch \in 1..ids
      /\ op["escalate"] # None => op["escalate"].next.prev \in 0..ids
  BY DEF SInv, Numbered, Bounded, Slots
<1>4. Inherits(ledger, o.next) \/ o.next.epoch = ids + 1
  BY DEF Commanded, Grows, Inherits
<1>5. \A v \in acked : Keeps(ledger, v) => Keeps(o.next, v)
  BY <1>1, <1>3, <1>4, KeepsOn DEF Keeps
<1>6. AckedHere /\ SameEscalation /\ SameHand /\ JournalOn /\ StandingShrinks
  BY <1>1, <1>2 DEF AckedHere, SameEscalation, SameHand, JournalOn, StandingShrinks, Standing
<1>7. ReturnsShrinks
  BY <1>6, ReturnsOn
<1>8. /\ \A n : EscalatesFrom(n)' <=> EscalatesFrom(n)
      /\ op'["escalate"].next = op["escalate"].next
  BY <1>1 DEF EscalatesFrom
<1>9. /\ LedgerKept /\ BackKept /\ Overtaken
  BY DEF ChargesKept
<1>10. ASSUME NEW c, NEW l, NEW n, Kept(c, l, n), o.read # n => ledger = l
       PROVE  Kept(c, l, n)'
  <2>1. ASSUME NEW k, NEW v \in acked', v.locked, Follows(c, v.id), Heir(Tip(c), l, n, k)'
        PROVE  Keeps(k, v)
    <3>1. v \in acked
      BY <1>1, <2>1
    <3>2. \A h : Heir(Tip(c), l, n, h) => Keeps(h, v)
      BY <1>10, <2>1, <3>1 DEF Kept
    <3>3. CASE k = l /\ (l.id = Tip(c) \/ EscalatesFrom(Tip(c)))
      BY <3>2, <3>3 DEF Heir
    <3>4. CASE k = o.next /\ o.read # n /\ (l.id = Tip(c) \/ EscalatesFrom(Tip(c)))
      BY <1>5, <1>10, <3>1, <3>2, <3>4 DEF Heir
    <3>5. CASE k = op["escalate"].next /\ EscalatesFrom(Tip(c))
      BY <3>2, <3>5 DEF Heir
    <3> QED
      BY <1>1, <1>8, <2>1, <3>3, <3>4, <3>5, Primed DEF Heir
  <2> QED
    BY <2>1, Primed DEF Kept
<1>11. LedgerKept'
  <2>1. ASSUME NEW c, Standing(c)' PROVE Kept(c, ledger, 0)'
    <3>1. Kept(c, ledger, 0)
      BY <1>6, <1>9, <2>1 DEF LedgerKept, StandingShrinks
    <3> DEFINE l == ledger
    <3>2. Kept(c, l, 0) /\ ledger = l
      BY <3>1
    <3>3. l' = l
      BY <1>1
    <3> HIDE DEF l
    <3>4. \A m : m = l => Kept(c, m, 0)'
      BY <1>10, <3>2
    <3> QED
      BY <1>1, <3>4 DEF l, Kept, Heir
  <2> QED
    BY <2>1 DEF LedgerKept
<1>12. BackKept'
  <2>1. ASSUME NEW f, NEW x, NEW c, Returns(f, x, c)', ledger' \in {f.ledger, x}
        PROVE  Kept(c, f.ledger, x.id)'
    <3> DEFINE l == f.ledger
               n == x.id
    <3>1. Kept(c, l, n) /\ (o.read # n => ledger = l)
      BY <1>1, <1>2, <1>7, <1>9, <2>1 DEF BackKept, ReturnsShrinks
    <3> HIDE DEF l, n
    <3>2. Kept(c, l, n)'
      BY <1>10, <3>1
    <3> QED
      BY <3>2 DEF l, n
  <2> QED
    BY <2>1 DEF BackKept
<1>13. Overtaken'
  BY <1>1, <1>6, <1>9, OvertakenOn
<1>14. ListingKept'
  BY <1>1, <1>2, Primed DEF ListingKept
<1>15. ReadWhile'
  <2>1. ~EscalatesFrom(o.next.id)
    BY <1>1, <1>2, <1>3 DEF EscalatesFrom
  <2>2. \A k, e : k = o.next /\ EscalatesFrom(k.id)' => FALSE
    BY <1>8, <2>1
  <2> QED
    BY <1>1, <2>2 DEF ReadWhile
<1>16. StartFresh'
  <2>1. ASSUME NEW k, Starting(k)'
        PROVE  /\ \A v \in acked : v.locked => v.epoch # k.epoch
               /\ Holding(k, "settled") = {}
    <3>1. o.kind = "start" /\ k = o.next
      BY <1>1, <2>1 DEF Starting
    <3>2. k.epoch = ids + 1 /\ Childless(k)
      BY <3>1 DEF Commanded
    <3>3. task.mode \in Modes
      BY DEF IInv, TypeOK, TaskType
    <3> QED
      BY <1>1, <1>3, <3>2, <3>3, ChildlessFits
  <2> QED
    BY <1>1, <1>2, <2>1, Primed DEF StartFresh
<1>17. TipFresh' /\ Reading'
  BY <1>1, <1>2, <1>3 DEF TipFresh, Reading
<1> QED
  BY <1>11, <1>12, <1>13, <1>14, <1>15, <1>16, <1>17 DEF ChargesKept

LEMMA EscalationKeepsC ==
  ASSUME IInv, SInv, ListsApart, ChargesKept, NEW o, Begin("escalate", o), Escalated(o)
  PROVE  ChargesKept'
<1> DEFINE s == "escalate"
<1>1. /\ s \in Slots /\ op'[s] = o /\ op[s] = None /\ "agents" \in Slots /\ op'["agents"] = op["agents"]
      /\ \A t \in Slots : t # s => op'[t] = op[t]
      /\ ledger' = ledger /\ chain' = chain /\ journal' = journal /\ acked' = acked
  BY Taken DEF Slots
<1>2. /\ o.next.prev = ledger.id /\ o.next.epoch = ledger.epoch /\ Inherits(ledger, o.next)
      /\ o.phase = "begin" /\ o.phase \notin InTransition
  BY DEF Escalated, Inherits, InTransition
<1>3. /\ \A n : ~EscalatesFrom(n)
      /\ \A n : EscalatesFrom(n)' => ledger.id = n
  BY <1>1, <1>2 DEF EscalatesFrom
<1>4. /\ AckedHere /\ SameCommand /\ SameHand /\ JournalOn /\ StandingShrinks
      /\ ~Overtaking'
  BY <1>1, <1>2 DEF AckedHere, SameCommand, SameHand, JournalOn, StandingShrinks, Standing, Overtaking
<1>5. ReturnsShrinks
  BY <1>4, ReturnsOn
<1>6. /\ LedgerKept /\ BackKept /\ ListingKept /\ ReadWhile /\ StartFresh /\ TipFresh /\ Reading
  BY DEF ChargesKept
<1>7. Unlisted' <=> Unlisted
  BY <1>1 DEF Unlisted, Listed
<1>8. ASSUME NEW c, NEW l, NEW n, Kept(c, l, n), l = ledger \/ ~Lists(c, ledger.id)
      PROVE  Kept(c, l, n)'
  <2>1. ASSUME NEW k, NEW v \in acked', v.locked, Follows(c, v.id), Heir(Tip(c), l, n, k)'
        PROVE  Keeps(k, v)
    <3>1. v \in acked
      BY <1>1, <2>1
    <3>2. \A h : Heir(Tip(c), l, n, h) => Keeps(h, v)
      BY <1>8, <2>1, <3>1 DEF Kept
    <3>3. EscalatesFrom(Tip(c))' => l = ledger /\ l.id = Tip(c)
      <4>1. SUFFICES ASSUME EscalatesFrom(Tip(c))' PROVE l = ledger /\ l.id = Tip(c)
        OBVIOUS
      <4>2. \A t : t = Tip(c) => t = ledger.id
        BY <1>3, <4>1, Primed
      <4>3. \A m : Follows(c, m) => Lists(c, Tip(c))
        BY DEF Follows, Lists, Tip
      <4> QED
        BY <1>8, <2>1, <4>2, <4>3
    <3>4. CASE k = l /\ l.id = Tip(c)
      BY <3>2, <3>4 DEF Heir
    <3>5. CASE k = op["agents"].next /\ Unlisted /\ op["agents"].read # n /\ l.id = Tip(c)
      BY <3>2, <3>5 DEF Heir
    <3>6. CASE k = o.next /\ l = ledger /\ l.id = Tip(c)
      <4>1. Keeps(ledger, v)
        BY <3>2, <3>6 DEF Heir
      <4> QED
        BY <1>2, <3>6, <4>1, KeepsOn
    <3> QED
      BY <1>1, <1>7, <2>1, <3>3, <3>4, <3>5, <3>6, Primed DEF Heir
  <2> QED
    BY <2>1, Primed DEF Kept
<1>9. LedgerKept'
  <2>1. ASSUME NEW c, NEW l, Standing(c)', l = ledger' PROVE Kept(c, l, 0)'
    <3>1. Kept(c, l, 0)
      BY <1>1, <1>4, <1>6, <2>1 DEF LedgerKept, StandingShrinks
    <3> QED
      BY <1>1, <1>8, <2>1, <3>1
  <2> QED
    BY <2>1 DEF LedgerKept
<1>10. BackKept'
  <2>1. ASSUME NEW f, NEW x, NEW c, Returns(f, x, c)', ledger' \in {f.ledger, x}
        PROVE  Kept(c, f.ledger, x.id)'
    <3> DEFINE l == f.ledger
               n == x.id
    <3>1. Kept(c, l, n) /\ (l = ledger \/ ~Lists(c, ledger.id))
      BY <1>1, <1>5, <1>6, <2>1, ReturnsApart DEF BackKept, ReturnsShrinks
    <3> HIDE DEF l, n
    <3>2. Kept(c, l, n)'
      BY <1>8, <3>1
    <3> QED
      BY <3>2 DEF l, n
  <2> QED
    BY <2>1 DEF BackKept
<1>11. Overtaken'
  BY <1>4 DEF Overtaken
<1>12. ListingKept'
  BY <1>1, <1>4, <1>6, ListingOn
<1>13. ReadWhile'
  <2>1. ASSUME op["agents"] # None, op["agents"].kind \in Chained, NEW k, k = op["agents"].next,
               EscalatesFrom(k.id)'
        PROVE  Inherits(k, o.next) /\ o.phase = "begin"
    <3>1. ledger.id = k.id
      BY <1>3, <2>1
    <3>2. Named(k.id)
      BY <3>1 DEF Named, Names
    <3>3. Stored(op["agents"])
      BY <1>1, <2>1, <3>2 DEF SInv, NextIsNew
    <3>4. op["agents"].phase \in InTransition /\ op["agents"].phase # "ledger"
      BY <1>1, <2>1, <3>3 DEF SInv, Shaped, Shape, Stored, InTransition, Chained, Appended
    <3>5. ledger = k
      BY <1>1, <2>1, <3>4 DEF SInv, OneTransition, InHand
    <3> QED
      BY <1>2, <3>5
  <2> QED
    BY <1>1, <2>1, Primed DEF ReadWhile
<1>14. StartFresh'
  <2>1. ASSUME NEW k, Starting(k)'
        PROVE  /\ \A v \in acked' : v.locked => v.epoch # k.epoch
               /\ Holding(k, "settled") = {}
               /\ Stored(op'["agents"]) /\ (ledger'.id = k.id \/ EscalatesFrom(k.id)') => ledger'.epoch = k.epoch
               /\ Stored(op'["agents"]) /\ EscalatesFrom(k.id)' => op'["escalate"].next.epoch = k.epoch
    <3>1. Starting(k)
      BY <1>1, <2>1 DEF Starting
    <3>2. Stored(op["agents"]) /\ ledger.id = k.id => ledger.epoch = k.epoch
      BY <1>6, <3>1 DEF StartFresh
    <3>3. \A v \in acked : v.locked => v.epoch # k.epoch
      BY <1>6, <3>1 DEF StartFresh
    <3>4. Holding(k, "settled") = {}
      BY <1>6, <3>1 DEF StartFresh
    <3> QED
      BY <1>1, <1>2, <1>3, <3>2, <3>3, <3>4
  <2> QED
    BY <2>1, Primed DEF StartFresh
<1>15. TipFresh'
  <2>1. ASSUME NEW k, Starting(k)', op["agents"].phase = "tip", NEW f, NEW x, NEW c, Returns(f, x, c)',
               ledger \in {f.ledger, x}, f.ledger.id = k.id \/ EscalatesFrom(k.id)'
        PROVE  f.ledger.epoch = k.epoch
    <3>1. /\ Starting(k) /\ Stored(op["agents"]) /\ op["agents"] # None /\ k = op["agents"].next
          /\ op["agents"].phase \notin InTransition
      BY <1>1, <2>1 DEF Starting, Stored, InTransition
    <3>2. CASE f.ledger.id = k.id
      BY <1>5, <1>6, <2>1, <3>1, <3>2 DEF TipFresh, ReturnsShrinks
    <3>3. CASE ledger.id = k.id
      <4>1. ledger.epoch = k.epoch
        BY <1>6, <3>1, <3>3 DEF StartFresh
      <4>2. ledger # x
        <5>1. journal # None /\ x = journal.after.ledger
          BY <1>1, <1>2, <2>1, <3>1 DEF Returns, Slots
        <5>2. x.id # k.id
          BY <1>1, <3>1, <5>1 DEF SInv, NextIsNew
        <5> QED
          BY <3>3, <5>2
      <4> QED
        BY <2>1, <4>1, <4>2
    <3> QED
      BY <1>3, <2>1, <3>2, <3>3
  <2> QED
    BY <1>1, <1>4, <2>1 DEF TipFresh
<1>16. Reading'
  BY <1>1, <1>6 DEF Reading
<1> QED
  BY <1>9, <1>10, <1>11, <1>12, <1>13, <1>14, <1>15, <1>16 DEF ChargesKept

LEMMA AckedBy ==
  ASSUME NEW s, NEW l, Acknowledge(s, l)
  PROVE  /\ \A v \in acked' : v \in acked \/ (v.id = l.id /\ v.epoch = l.epoch /\ v.charged = Holding(l, "settled"))
         /\ s # "agents" => AckedHere
<1> DEFINE b == s = "agents"
           w == [id |-> l.id, epoch |-> l.epoch, charged |-> Holding(l, "settled"), locked |-> b]
<1>1. \A v \in acked' : v \in acked \/ v = w
  BY DEF Acknowledge
<1> HIDE DEF b
<1>2. w.id = l.id /\ w.epoch = l.epoch /\ w.charged = Holding(l, "settled") /\ w.locked = b
  OBVIOUS
<1>3. s # "agents" => ~b
  BY DEF b
<1> QED
  BY <1>1, <1>2, <1>3 DEF AckedHere

\* No command or journal but its own is to store the version of a command.
LEMMA ReturnsOther ==
  ASSUME IInv, SInv, NEW s \in Slots, op[s] # None, op[s].phase \notin InTransition,
         NEW f, NEW x, NEW c, Returns(f, x, c)
  PROVE  x.id # op[s].next.id
<1>1. journal # None => journal.after.ledger.id # op[s].next.id
  BY DEF SInv, NextIsNew
<1>2. ASSUME NEW t \in Slots, op[t] # None, op[t].phase \in InTransition
      PROVE  op[t].next.id # op[s].next.id
  <2>1. t # s
    BY <1>2
  <2> QED
    BY <1>2, <2>1 DEF SInv, NextIsNew, Slots
<1> QED
  BY <1>1, <1>2 DEF Returns

\* What the chain makes the tip keeps what was charged before it.
LEMMA TipKeepsC ==
  ASSUME IInv, SInv, ChargesKept, WriteTip
  PROVE  ChargesKept'
<1> DEFINE s == "agents"
           o == op[s]
           next == Advance(o.next)
           x == [o EXCEPT !.phase = "state", !.next = next, !.before = Files]
           d == Append(chain, Entry(next))
<1>1. /\ s \in Slots /\ o # None /\ o.phase = "chain" /\ chain' = d
      /\ op' = [op EXCEPT ![s] = x] /\ journal' = journal /\ ledger' = ledger /\ acked' = acked
  BY DEF WriteTip, At, Slots
<1>2. /\ op \in [Slots -> OperationType \cup {None}] /\ chain \in Seq(EntryType) /\ TypeOK
  BY DEF IInv, TypeOK
<1>3. o \in OperationType /\ o.next \in LedgerType
  BY <1>1, TypedOp
<1>4. /\ next.id = o.next.id /\ next \in LedgerType /\ next.epoch = o.next.epoch
      /\ next.prev = IF o.next.rev = 1 THEN o.next.prev ELSE ledger.id
      /\ next.res = o.next.res
  BY <1>2, <1>3, AdvanceOf
<1>5. /\ Tip(d) = next.id
      /\ \A n : Follows(d, n) => n = next.id \/ (Follows(chain, n) /\ next.prev = Tip(chain))
  <2>1. Entry(next) \in EntryType /\ Entry(next).file = next.id /\ Entry(next).prev = next.prev
    BY <1>4, EntryOf
  <2> QED
    BY <1>2, <2>1, FollowsAppended
<1>6. \A v : Keeps(o.next, v) => Keeps(next, v)
  BY <1>4 DEF Keeps, Holding
<1> HIDE DEF next, d
<1>7. /\ x.phase = "state" /\ x.next = next /\ x.before = Files /\ Files.chain = chain
      /\ x.kind = o.kind /\ x.read = o.read
  BY <1>3 DEF OperationType, Files
<1>8. op'[s] = x /\ op'["escalate"] = op["escalate"] /\ \A t \in Slots : t # s => op'[t] = op[t]
  BY <1>1, <1>2 DEF Slots
<1> HIDE DEF x
<1>9. o.kind = "save" /\ Unlisted /\ ~Named(next.id) /\ o.phase \notin InTransition
  <2>1. o.kind = "save" /\ ~Stored(o)
    BY <1>1 DEF SInv, Shaped, Shape, Stored
  <2> QED
    BY <1>1, <1>4, <2>1 DEF SInv, NextIsNew, Unlisted, Listed, InTransition, Chained
<1>10. /\ ledger.id # next.id /\ ~EscalatesFrom(next.id)
       /\ \A f, y, c : Returns(f, y, c) => f.ledger.id # next.id
  BY <1>9, Unnamed
<1>11. /\ LedgerKept /\ BackKept /\ Overtaken
  BY DEF ChargesKept
<1>12. Tame /\ SameEscalation /\ SameHand
  <2>1. Listed(op'[s])
    BY <1>7, <1>8 DEF Listed
  <2> QED
    BY <1>1, <1>7, <1>8, <2>1 DEF Tame, SameEscalation, SameHand, AckedHere, InTransition
<1>13. Standing(chain) /\ \A c : Standing(c)' => c = d \/ c = chain
  BY <1>1, <1>7, <1>8 DEF Standing
<1>14. ASSUME NEW f, NEW y, NEW c, Returns(f, y, c)'
       PROVE  Returns(f, y, c) \/ (c = d /\ Returns(f, y, chain))
  BY <1>1, <1>7, <1>8, <1>13, <1>14 DEF Returns, InTransition
<1>15. \A n : EscalatesFrom(n)' <=> EscalatesFrom(n)
  BY <1>8 DEF EscalatesFrom
<1>16. ASSUME NEW c, c = d, NEW l, NEW n, l.id # next.id PROVE Kept(c, l, n)'
  <2>1. ~Unlisted'
    BY <1>7, <1>8 DEF Unlisted, Listed
  <2>2. \A t : t = Tip(c) => ~EscalatesFrom(t)'
    BY <1>5, <1>10, <1>15, <1>16
  <2>3. \A t, k : t = Tip(c) => ~Heir(t, l, n, k)'
    BY <1>5, <1>16, <2>1, <2>2 DEF Heir
  <2> QED
    BY <2>3, Primed DEF Kept
<1>17. LedgerKept'
  <2>1. ASSUME NEW c, NEW l, Standing(c)', l = ledger' PROVE Kept(c, l, 0)'
    <3>1. CASE c = d
      BY <1>1, <1>10, <1>16, <2>1, <3>1
    <3>2. CASE c = chain
      <4>1. Kept(c, l, 0)
        BY <1>1, <1>11, <1>13, <2>1, <3>2 DEF LedgerKept
      <4> QED
        BY <1>12, <4>1, TameKeeps
    <3> QED
      BY <1>13, <2>1, <3>1, <3>2
  <2> QED
    BY <2>1 DEF LedgerKept
<1>18. BackKept'
  <2>1. ASSUME NEW f, NEW y, NEW c, Returns(f, y, c)', ledger' \in {f.ledger, y}
        PROVE  Kept(c, f.ledger, y.id)'
    <3> DEFINE l == f.ledger
               n == y.id
    <3>1. CASE Returns(f, y, c)
      <4>1. Kept(c, l, n)
        BY <1>1, <1>11, <2>1, <3>1 DEF BackKept
      <4> HIDE DEF l, n
      <4>2. Kept(c, l, n)'
        BY <1>12, <4>1, TameKeeps
      <4> QED
        BY <4>2 DEF l, n
    <3>2. CASE c = d /\ Returns(f, y, chain)
      <4>1. l.id # next.id
        BY <1>10, <3>2
      <4> HIDE DEF l, n
      <4>2. Kept(c, l, n)'
        BY <1>16, <3>2, <4>1
      <4> QED
        BY <4>2 DEF l, n
    <3> QED
      BY <1>14, <2>1, <3>1, <3>2
  <2> QED
    BY <2>1 DEF BackKept
<1>19. Overtaken'
  <2>1. ASSUME Overtaking', NEW c, Standing(c)', NEW v \in acked', v.locked, Follows(c, v.id)
        PROVE  Tip(c) # op'["escalate"].before.ledger.id /\ ~EscalatesFrom(Tip(c))'
    <3>1. Overtaking /\ op'["escalate"].before = op["escalate"].before
      BY <1>1, <1>12, <2>1, OvertakingOn
    <3>2. CASE c = d
      <4>1. op["escalate"].before.ledger.id # next.id
        <5>1. /\ "escalate" \in Slots /\ op["escalate"] # None /\ HasBefore(op["escalate"])
          BY <3>1 DEF Overtaking, HasBefore, InTransition, Slots
        <5> QED
          BY <1>9, <5>1, BackedUp DEF Names
      <4> QED
        BY <1>5, <1>10, <1>15, <3>1, <3>2, <4>1
    <3>3. CASE c = chain
      BY <1>1, <1>11, <1>13, <1>15, <2>1, <3>1, <3>3 DEF Overtaken
    <3> QED
      BY <1>13, <2>1, <3>2, <3>3
  <2> QED
    BY <2>1, Primed DEF Overtaken
<1>20. ListingKept'
  <2>1. ASSUME NEW v \in acked, v.locked, Follows(d, v.id) PROVE Keeps(next, v)
    <3>1. v.id # next.id
      BY <1>1, <1>4, <2>1, AckedApart
    <3>2. Follows(chain, v.id) /\ next.prev = Tip(chain)
      BY <1>5, <2>1, <3>1
    <3>3. o.next.rev # 1
      <4>1. SUFFICES ASSUME o.next.rev = 1 PROVE FALSE
        OBVIOUS
      <4>2. Tip(chain) = 0
        BY <1>1, <1>4, <3>2, <4>1 DEF SInv, Shaped, Shape
      <4>3. Len(chain) \in 1..Len(chain)
        BY <1>2, <3>2 DEF Follows
      <4> QED
        BY <4>2, <4>3 DEF SInv, Numbered, Bounded, Tip
    <3>4. ledger.id = Tip(chain)
      BY <1>4, <3>2, <3>3
    <3>5. o.read # 0
      BY <1>1 DEF SInv, Numbered
    <3>6. Heir(Tip(chain), ledger, 0, o.next)
      BY <1>9, <3>4, <3>5 DEF Heir
    <3>7. Kept(chain, ledger, 0)
      BY <1>11, <1>13 DEF LedgerKept
    <3>8. Keeps(o.next, v)
      BY <2>1, <3>2, <3>6, <3>7 DEF Kept
    <3> QED
      BY <1>6, <3>8
  <2> QED
    BY <1>1, <1>5, <1>7, <1>8, <2>1, Primed DEF ListingKept
<1>21. ReadWhile' /\ StartFresh' /\ TipFresh'
  <2>1. op'[s].kind = "save"
    BY <1>7, <1>8, <1>9
  <2> QED
    BY <2>1 DEF ReadWhile, StartFresh, TipFresh, Starting, Chained
<1>22. Reading'
  BY <1>1, <1>4, <1>7, <1>8 DEF ChargesKept, Reading
<1> QED
  BY <1>17, <1>18, <1>19, <1>20, <1>21, <1>22 DEF ChargesKept

LEMMA StateKeepsC ==
  ASSUME IInv, SInv, ChargesKept, WriteState
  PROVE  ChargesKept'
<1> DEFINE s == "agents"
           x == op[s].next
<1>1. /\ s \in Slots /\ op[s] # None /\ op[s].phase = "state" /\ Done(s) /\ Acknowledge(s, x)
      /\ ledger' = x /\ chain' = chain /\ journal' = journal
  BY DEF WriteState, At, Slots
<1>2. op'[s] = None
  BY <1>1, Over
<1>3. SameEscalation /\ SameHand /\ StandingShrinks /\ JournalOn
  BY <1>1, OverSame DEF JournalOn
<1>4. ReturnsShrinks
  BY <1>3, ReturnsOn
<1>5. ~Named(x.id) /\ op[s].phase \notin InTransition /\ Listed(op[s])
  BY <1>1 DEF SInv, NextIsNew, Stored, InTransition, Listed
<1>6. /\ ledger.id # x.id /\ ~EscalatesFrom(x.id)
      /\ \A f, y, c : Returns(f, y, c) => f.ledger.id # x.id /\ y.id # x.id
  BY <1>1, <1>5, Unnamed, ReturnsOther
<1>7. \A v \in acked' : v \in acked \/ (v.id = x.id /\ v.epoch = x.epoch /\ v.charged = Holding(x, "settled"))
  BY <1>1, AckedBy
<1>8. ASSUME NEW v \in acked', v.locked, Follows(chain, v.id)
      PROVE  Tip(chain) = x.id /\ Keeps(x, v)
  <2>1. /\ Follows(chain, x.id) => Tip(chain) = x.id
        /\ \A w \in acked : w.locked /\ Follows(chain, w.id) => Tip(chain) = x.id /\ Keeps(x, w)
    BY <1>1, <1>5 DEF ChargesKept, ListingKept
  <2>2. CASE v \in acked
    BY <1>8, <2>1, <2>2
  <2>3. CASE v.id = x.id /\ v.charged = Holding(x, "settled")
    BY <1>8, <2>1, <2>3 DEF Keeps
  <2> QED
    BY <1>7, <2>2, <2>3
<1>9. \A c : Standing(c)' => c = chain
  BY <1>1, <1>2 DEF Standing
<1>10. \A n : EscalatesFrom(n)' => EscalatesFrom(n)
  BY <1>3, EscalatesOn
<1>11. LedgerKept'
  <2>1. ASSUME NEW c, NEW l, Standing(c)', l = ledger', NEW k, NEW v \in acked', v.locked,
               Follows(c, v.id), Heir(Tip(c), l, 0, k)'
        PROVE  Keeps(k, v)
    <3>1. c = chain /\ Tip(c) = x.id /\ Keeps(x, v) /\ l = x
      BY <1>1, <1>8, <1>9, <2>1
    <3>2. ~Unlisted'
      BY <1>2 DEF Unlisted
    <3>3. \A t : t = Tip(c) => ~EscalatesFrom(t)'
      BY <1>6, <1>10, <3>1
    <3>4. k = l
      BY <2>1, <3>2, <3>3 DEF Heir
    <3> QED
      BY <3>1, <3>4
  <2> QED
    BY <2>1, Primed DEF LedgerKept, Kept
<1>12. BackKept'
  <2>1. ASSUME NEW f, NEW y, NEW c, Returns(f, y, c)' PROVE ledger' \notin {f.ledger, y}
    <3>1. Returns(f, y, c)
      BY <1>4, <2>1 DEF ReturnsShrinks
    <3> QED
      BY <1>1, <1>6, <3>1
  <2> QED
    BY <2>1 DEF BackKept
<1>13. Overtaken'
  <2>1. ASSUME Overtaking', NEW c, Standing(c)', NEW v \in acked', v.locked, Follows(c, v.id)
        PROVE  Tip(c) # op'["escalate"].before.ledger.id /\ ~EscalatesFrom(Tip(c))'
    <3>1. /\ op'["escalate"].before = op["escalate"].before
          /\ "escalate" \in Slots /\ op["escalate"] # None /\ HasBefore(op["escalate"])
      BY <1>3, <2>1 DEF Overtaking, SameEscalation, HasBefore, InTransition, Slots
    <3>2. op["escalate"].before.ledger.id # x.id
      BY <1>5, <3>1, BackedUp DEF Names
    <3>3. Tip(c) = x.id
      BY <1>8, <1>9, <2>1
    <3> QED
      BY <1>6, <1>10, <3>1, <3>2, <3>3
  <2> QED
    BY <2>1, Primed DEF Overtaken
<1>14. ListingKept' /\ ReadWhile' /\ StartFresh' /\ TipFresh' /\ Reading'
  BY <1>2 DEF ListingKept, ReadWhile, StartFresh, TipFresh, Starting, Reading
<1> QED
  BY <1>11, <1>12, <1>13, <1>14 DEF ChargesKept

\* A transition that begins backs up the ledger that there is.
LEMMA BeginKeepsC ==
  ASSUME IInv, SInv, ChargesKept, NEW s \in Slots, BeginTransition(s)
  PROVE  ChargesKept'
<1> DEFINE o == op[s]
           next == IF o.kind \in Chained THEN Advance(o.next) ELSE o.next
           goal == IF o.kind = "register"
                   THEN [from |-> task, to |-> [task EXCEPT !.used = @ + 1]] ELSE o.goal
           x == [o EXCEPT !.phase = "ledger", !.next = next, !.goal = goal, !.before = Files]
           j == [before |-> Files, chained |-> o.kind \in Chained,
                 after |-> [ledger |-> next, chain |-> Append(chain, Entry(next)),
                            task |-> goal.to]]
<1>1. /\ o # None /\ o.phase = "begin" /\ op' = [op EXCEPT ![s] = x] /\ journal' = j
      /\ chain' = chain /\ ledger' = ledger /\ acked' = acked
      /\ \A t \in Slots : op[t] # None => op[t].phase \notin InTransition
  BY DEF BeginTransition, At, TaskLocked
<1>2. op \in [Slots -> OperationType \cup {None}] /\ TypeOK
  BY DEF IInv, TypeOK
<1>3. o \in OperationType /\ o.next \in LedgerType
  BY <1>1, TypedOp
<1>4. /\ next.id = o.next.id /\ next.epoch = o.next.epoch /\ next.res = o.next.res
      /\ o.kind \notin Chained => next = o.next
  BY <1>2, <1>3, AdvanceOf
<1>5. j.before = Files /\ j.chained = (o.kind \in Chained) /\ Files.chain = chain /\ Files.ledger = ledger
  BY DEF Files
<1> HIDE DEF next, goal, j
<1>6. /\ x.kind = o.kind /\ x.phase = "ledger" /\ x.before = Files /\ x.next = next
      /\ x.read = o.read
  BY <1>3 DEF OperationType
<1> HIDE DEF x
<1>7. op'[s] = x /\ \A t \in Slots : t # s => op'[t] = op[t]
  BY <1>1, <1>2
<1>8. /\ "agents" \in Slots /\ "escalate" \in Slots
      /\ s = "escalate" => o.kind = "escalate" /\ o.kind \notin Chained
      /\ ~Stored(o) /\ ~Listed(o) /\ ~Listed(x) /\ ~Stored(x) /\ o.kind # "save"
  BY <1>1, <1>6 DEF Slots, SInv, Shaped, Shape, Chained, Stored, Listed
<1>9. \A n : Named(n) => n # o.next.id
  BY <1>1, <1>8 DEF SInv, NextIsNew
<1>10. Inherits(o.next, next) /\ \A h : Inherits(h, h)
  BY <1>4 DEF Inherits, Holding
<1>11. Tame
  BY <1>1, <1>4, <1>6, <1>7, <1>8, <1>10 DEF Tame, AckedHere
<1>12. \A c : Standing(c)' => Standing(c)
  BY <1>1, <1>6, <1>7, <1>8 DEF Standing
<1>13. ~Overtaking'
  BY <1>1, <1>5, <1>6, <1>7, <1>8 DEF Overtaking, InTransition
<1>14. ASSUME NEW f, NEW y, NEW c, Returns(f, y, c)'
       PROVE  f.ledger = ledger /\ Standing(c)
  <2>1. Standing(chain)
    BY DEF Standing
  <2>2. CASE /\ journal' # None /\ f = journal'.before /\ y = journal'.after.ledger
             /\ IF journal'.chained THEN c = f.chain ELSE Standing(c)'
    BY <1>1, <1>5, <1>12, <2>1, <2>2
  <2>3. ASSUME NEW t \in Slots, op'[t] # None, op'[t].phase \in InTransition, f = op'[t].before,
               y = op'[t].next, IF op'[t].kind \in Chained THEN c = f.chain ELSE Standing(c)'
        PROVE  f.ledger = ledger /\ Standing(c)
    <3>1. t = s
      BY <1>1, <1>7, <2>3
    <3> QED
      BY <1>5, <1>6, <1>7, <1>12, <2>1, <2>3, <3>1
  <2> QED
    BY <1>14, <2>2, <2>3 DEF Returns
<1>15. LedgerKept /\ ListingKept /\ ReadWhile /\ StartFresh /\ Reading
  BY DEF ChargesKept
<1>16. ASSUME NEW c, NEW l, NEW n, Standing(c), l = ledger PROVE Kept(c, l, n)'
  <2>1. Kept(c, l, 0)'
    <3>1. Kept(c, l, 0)
      BY <1>15, <1>16 DEF LedgerKept
    <3> QED
      BY <1>11, <3>1, TameKeeps
  <2>2. op'["agents"] # None => op'["agents"].read # 0
    BY <1>1, <1>6, <1>7, <1>8 DEF SInv, Numbered
  <2>3. \A t, k : Heir(t, l, n, k)' => Heir(t, l, 0, k)'
    BY <2>2 DEF Heir, Unlisted
  <2> QED
    BY <2>1, <2>3 DEF Kept
<1>17. LedgerKept'
  BY <1>1, <1>12, <1>16 DEF LedgerKept
<1>18. BackKept'
  <2>1. ASSUME NEW f, NEW y, NEW c, Returns(f, y, c)', ledger' \in {f.ledger, y}
        PROVE  Kept(c, f.ledger, y.id)'
    <3> DEFINE l == f.ledger
               n == y.id
    <3>1. Standing(c) /\ l = ledger
      BY <1>14, <2>1
    <3> HIDE DEF l, n
    <3>2. Kept(c, l, n)'
      BY <1>16, <3>1
    <3> QED
      BY <3>2 DEF l, n
  <2> QED
    BY <2>1 DEF BackKept
<1>19. CASE s = "agents"
  <2>1. op'["agents"] = x /\ op'["escalate"] = op["escalate"]
    BY <1>7, <1>8, <1>19
  <2>2. \A n : EscalatesFrom(n)' => EscalatesFrom(n) /\ Named(n)
    BY <1>8, <2>1 DEF EscalatesFrom, Named
  <2>3. ListingKept'
    BY <1>8, <2>1, Primed DEF ListingKept
  <2>4. ReadWhile'
    <3>1. \A k : k = op'["agents"].next => ~EscalatesFrom(k.id)'
      BY <1>4, <1>6, <1>9, <2>1, <2>2
    <3> QED
      BY <3>1 DEF ReadWhile
  <2>5. StartFresh'
    <3>1. ASSUME NEW k, Starting(k)'
          PROVE  Starting(k) /\ ~Stored(op'["agents"])
      <4>1. x.kind = "start" /\ k = x.next
        BY <2>1, <3>1 DEF Starting
      <4> QED
        BY <1>1, <1>4, <1>6, <1>8, <1>19, <2>1, <4>1 DEF Starting, Chained
    <3> QED
      BY <1>1, <1>15, <3>1, Primed DEF StartFresh
  <2>6. TipFresh' /\ Reading'
    BY <1>1, <1>4, <1>6, <1>15, <1>19, <2>1 DEF TipFresh, Reading
  <2> QED
    BY <1>13, <1>17, <1>18, <2>3, <2>4, <2>5, <2>6 DEF ChargesKept, Overtaken
<1>20. CASE s = "escalate"
  <2>1. /\ op'["agents"] = op["agents"] /\ op'["escalate"] = x
        /\ op["escalate"] # None /\ op["escalate"].next = x.next
    BY <1>1, <1>4, <1>6, <1>7, <1>8, <1>20
  <2>2. \A n : EscalatesFrom(n)' => EscalatesFrom(n) /\ Named(n)
    BY <1>8, <2>1 DEF EscalatesFrom, Named
  <2>3. SameCommand /\ AckedHere
    BY <1>1, <2>1 DEF SameCommand, AckedHere
  <2>4. ListingKept'
    BY <1>1, <1>15, <2>3, ListingOn
  <2>5. ReadWhile'
    <3>1. ASSUME op["agents"] # None, op["agents"].kind \in Chained, NEW k, k = op["agents"].next,
                 EscalatesFrom(k.id)'
          PROVE  FALSE
      <4>1. Stored(op["agents"])
        BY <1>8, <2>2, <3>1 DEF SInv, NextIsNew
      <4> QED
        BY <1>1, <1>8, <3>1, <4>1 DEF SInv, Shaped, Shape, Stored, InTransition, Chained, Appended
    <3> QED
      BY <2>1, <3>1 DEF ReadWhile
  <2>6. StartFresh'
    <3>1. ASSUME NEW k, Starting(k)'
          PROVE  /\ \A v \in acked' : v.locked => v.epoch # k.epoch
                 /\ Holding(k, "settled") = {}
                 /\ Stored(op'["agents"]) /\ (ledger'.id = k.id \/ EscalatesFrom(k.id)') => ledger'.epoch = k.epoch
                 /\ Stored(op'["agents"]) /\ EscalatesFrom(k.id)' => op'["escalate"].next.epoch = k.epoch
      <4>1. Starting(k)
        BY <2>1, <3>1 DEF Starting
      <4> QED
        BY <1>1, <1>15, <2>1, <2>2, <4>1 DEF StartFresh
    <3> QED
      BY <3>1, Primed DEF StartFresh
  <2>7. TipFresh'
    <3>1. ASSUME NEW k, Starting(k)', op'["agents"].phase = "tip", NEW f, NEW y, NEW c, Returns(f, y, c)',
                 f.ledger.id = k.id \/ EscalatesFrom(k.id)'
          PROVE  f.ledger.epoch = k.epoch
      <4>1. Starting(k) /\ Stored(op["agents"])
        BY <2>1, <3>1 DEF Starting, Stored
      <4>2. f.ledger = ledger /\ (ledger.id = k.id \/ EscalatesFrom(k.id))
        BY <1>14, <2>2, <3>1
      <4> QED
        BY <1>15, <4>1, <4>2 DEF StartFresh
    <3> QED
      BY <1>13, <3>1 DEF TipFresh
  <2>8. Reading'
    BY <1>15, <2>1 DEF Reading
  <2> QED
    BY <1>13, <1>17, <1>18, <2>4, <2>5, <2>6, <2>7, <2>8 DEF ChargesKept, Overtaken
<1> QED
  BY <1>19, <1>20 DEF Slots

\* A version that is about to be put on disk is in no chain that stands.
LEMMA StandingApart ==
  ASSUME ListsApart, NEW s \in Slots, op[s] # None, ~Listed(op[s]), NEW c, Standing(c), NEW n, Follows(c, n)
  PROVE  Tip(c) # op[s].next.id
<1>1. Lists(c, Tip(c))
  BY DEF Follows, Lists, Tip
<1>2. op["agents"] # None /\ op["agents"].phase = "state" => HasBefore(op["agents"]) /\ "agents" \in Slots
  BY DEF HasBefore, Slots
<1> QED
  BY <1>1, <1>2 DEF ListsApart, Standing

\* While a transition is under way, only its files are put back.
LEMMA ReturnsIts ==
  ASSUME IInv, SInv, NEW s \in Slots, op[s] # None, op[s].phase \in InTransition,
         NEW f, NEW x, NEW c, Returns(f, x, c)
  PROVE  /\ f = op[s].before /\ x = op[s].next
         /\ IF op[s].kind \in Chained THEN c = f.chain ELSE Standing(c)
<1>1. InHand(s)
  BY DEF SInv, OneTransition
<1>2. CASE /\ journal # None /\ f = journal.before /\ x = journal.after.ledger
           /\ IF journal.chained THEN c = f.chain ELSE Standing(c)
  BY <1>1, <1>2 DEF InHand
<1>3. ASSUME NEW t \in Slots, op[t] # None, op[t].phase \in InTransition, f = op[t].before, x = op[t].next,
             IF op[t].kind \in Chained THEN c = f.chain ELSE Standing(c)
      PROVE  /\ f = op[s].before /\ x = op[s].next
             /\ IF op[s].kind \in Chained THEN c = f.chain ELSE Standing(c)
  <2>1. t = s
    BY <1>3 DEF SInv, OneTransition
  <2> QED
    BY <1>3, <2>1
<1> QED
  BY <1>2, <1>3 DEF Returns

LEMMA StoreAgentKeepsC ==
  ASSUME IInv, SInv, ListsApart, ChargesKept, StoreLedger("agents")
  PROVE  ChargesKept'
<1> DEFINE s == "agents"
           x == op[s].next
           phase == IF op[s].kind \in Chained THEN "chained" ELSE "task"
<1>1. /\ s \in Slots /\ "escalate" \in Slots /\ op[s] # None /\ op[s].phase = "ledger" /\ Goto(s, phase)
      /\ ledger' = x /\ chain' = chain /\ journal' = journal /\ acked' = acked
  BY DEF StoreLedger, At, Slots
<1> HIDE DEF phase
<1>2. /\ op'["escalate"] = op["escalate"] /\ \A t \in Slots : t # s => op'[t] = op[t]
      /\ op'[s].kind = op[s].kind /\ op'[s].read = op[s].read /\ op'[s].next = op[s].next
      /\ op'[s].before = op[s].before /\ op'[s].phase = phase
  BY <1>1, Phased
<1>3. /\ ~Listed(op[s]) /\ ~Stored(op[s]) /\ op[s].phase \in InTransition /\ ~Listed(op'[s])
      /\ phase \in InTransition /\ phase \notin {"state", "tip"}
  BY <1>1, <1>2 DEF Listed, Stored, InTransition, phase
<1>4. InHand(s) /\ ledger = op[s].before.ledger
  BY <1>1, <1>3 DEF SInv, OneTransition, InHand
<1>5. ~Named(x.id)
  BY <1>1, <1>3 DEF SInv, NextIsNew
<1>6. /\ ~EscalatesFrom(x.id) /\ \A n : EscalatesFrom(n)' <=> EscalatesFrom(n)
  BY <1>2, <1>5, Unnamed DEF EscalatesFrom
<1>7. \A t \in Slots : t # s /\ op[t] # None => op[t].phase \notin InTransition
  BY <1>1, <1>3 DEF SInv, OneTransition
<1>8. Tame /\ StandingShrinks /\ SameHand /\ JournalOn /\ Unlisted /\ ~Overtaking'
  <2>1. \A h : Inherits(h, h)
    BY DEF Inherits
  <2> QED
    BY <1>1, <1>2, <1>3, <1>7, <2>1
       DEF Tame, AckedHere, StandingShrinks, Standing, SameHand, JournalOn, Unlisted, Listed,
           Overtaking, InTransition
<1>9. ReturnsShrinks
  BY <1>8, ReturnsOn
<1>10. LedgerKept /\ BackKept /\ StartFresh /\ Reading
  BY DEF ChargesKept
<1>11. LedgerKept'
  <2>1. ASSUME NEW c, NEW l, Standing(c)', l = ledger', NEW k, NEW v \in acked', v.locked,
               Follows(c, v.id), Heir(Tip(c), l, 0, k)'
        PROVE  Keeps(k, v)
    <3>1. Standing(c) /\ l = x /\ v \in acked
      BY <1>1, <1>8, <2>1 DEF StandingShrinks
    <3>2. l.id # Tip(c)
      BY <1>1, <1>3, <2>1, <3>1, StandingApart
    <3>3. /\ EscalatesFrom(Tip(c))
          /\ k = x \/ k = op["escalate"].next
      <4>1. \A t : t = Tip(c) => (EscalatesFrom(t)' <=> EscalatesFrom(t))
        BY <1>6
      <4> QED
        BY <1>2, <2>1, <3>1, <3>2, <4>1 DEF Heir
    <3>4. op[s].read # 0
      BY <1>1 DEF SInv, Numbered
    <3>5. Heir(Tip(c), ledger, 0, k)
      BY <1>8, <3>3, <3>4 DEF Heir
    <3>6. Kept(c, ledger, 0)
      BY <1>10, <3>1 DEF LedgerKept
    <3> QED
      BY <2>1, <3>1, <3>5, <3>6 DEF Kept
  <2> QED
    BY <2>1, Primed DEF LedgerKept, Kept
<1>12. BackKept'
  <2>1. ASSUME NEW f, NEW y, NEW c, Returns(f, y, c)', ledger' \in {f.ledger, y}
        PROVE  Kept(c, f.ledger, y.id)'
    <3> DEFINE l == f.ledger
               n == y.id
    <3>1. Returns(f, y, c)
      BY <1>9, <2>1 DEF ReturnsShrinks
    <3>2. ledger = f.ledger
      BY <1>1, <1>3, <1>4, <3>1, ReturnsIts
    <3>3. Kept(c, l, n)
      BY <1>10, <3>1, <3>2 DEF BackKept
    <3> HIDE DEF l, n
    <3>4. Kept(c, l, n)'
      BY <1>8, <3>3, TameKeeps
    <3> QED
      BY <3>4 DEF l, n
  <2> QED
    BY <2>1 DEF BackKept
<1>13. Overtaken' /\ ListingKept'
  BY <1>1, <1>3, <1>8, Primed DEF Overtaken, ListingKept
<1>14. ReadWhile'
  <2>1. \A k : k = op'[s].next => ~EscalatesFrom(k.id)'
    BY <1>2, <1>6
  <2> QED
    BY <2>1 DEF ReadWhile
<1>15. StartFresh'
  <2>1. ASSUME NEW k, Starting(k)'
        PROVE  /\ \A v \in acked' : v.locked => v.epoch # k.epoch
               /\ Holding(k, "settled") = {}
               /\ ledger' = k /\ ~EscalatesFrom(k.id)'
    <3>1. Starting(k) /\ k = x
      BY <1>1, <1>2, <2>1 DEF Starting
    <3> QED
      BY <1>1, <1>6, <1>10, <3>1 DEF StartFresh
  <2> QED
    BY <2>1, Primed DEF StartFresh
<1>16. TipFresh' /\ Reading'
  BY <1>1, <1>2, <1>3, <1>10 DEF TipFresh, Reading
<1> QED
  BY <1>11, <1>12, <1>13, <1>14, <1>15, <1>16 DEF ChargesKept

\* An escalation writes over what was saved after it had backed up the ledger.
LEMMA StoreEscalationKeepsC ==
  ASSUME IInv, SInv, ListsApart, ChargesKept, StoreLedger("escalate")
  PROVE  ChargesKept'
<1> DEFINE s == "escalate"
           x == op[s].next
           phase == IF op[s].kind \in Chained THEN "chained" ELSE "task"
<1>1. /\ s \in Slots /\ "agents" \in Slots /\ op[s] # None /\ op[s].phase = "ledger" /\ Goto(s, phase)
      /\ ledger' = x /\ chain' = chain /\ journal' = journal /\ acked' = acked
  BY DEF StoreLedger, At, Slots
<1>2. op[s].kind \notin Chained /\ phase = "task"
  BY <1>1 DEF SInv, Shaped, Shape, Chained
<1> HIDE DEF phase
<1>3. /\ op'["agents"] = op["agents"] /\ \A t \in Slots : t # s => op'[t] = op[t]
      /\ op'[s].kind = op[s].kind /\ op'[s].read = op[s].read /\ op'[s].next = op[s].next
      /\ op'[s].before = op[s].before /\ op'[s].phase = "task"
  BY <1>1, <1>2, Phased
<1>4. ~Listed(op[s]) /\ op[s].phase \in InTransition /\ "task" \in InTransition
  BY <1>1, <1>2 DEF Listed, InTransition
<1>5. /\ SameEscalation /\ SameCommand /\ SameHand /\ StandingShrinks /\ JournalOn /\ AckedHere
      /\ ~Overtaking'
  BY <1>1, <1>3, <1>4 DEF SameEscalation, SameCommand, SameHand, StandingShrinks, Standing, JournalOn,
     AckedHere, Overtaking
<1>6. Tame /\ ReturnsShrinks
  BY <1>5, TameOn, ReturnsOn
<1>7. \A n : EscalatesFrom(n)' => EscalatesFrom(n)
  BY <1>5, EscalatesOn
<1>8. LedgerKept /\ BackKept /\ Overtaken /\ ListingKept /\ ReadWhile /\ StartFresh /\ TipFresh /\ Reading
  BY DEF ChargesKept
<1>9. ASSUME NEW f, NEW y, NEW c, Returns(f, y, c)
      PROVE  f = op[s].before /\ y = x /\ Standing(c)
  BY <1>1, <1>2, <1>4, <1>9, ReturnsIts
<1>10. Overtaking <=> ledger # op[s].before.ledger
  BY <1>1 DEF Overtaking
<1>11. LedgerKept'
  <2>1. ASSUME NEW c, NEW l, Standing(c)', l = ledger', NEW k, NEW v \in acked', v.locked,
               Follows(c, v.id), Heir(Tip(c), l, 0, k)'
        PROVE  Keeps(k, v)
    <3>1. Standing(c) /\ l = x /\ v \in acked
      BY <1>1, <1>5, <2>1 DEF StandingShrinks
    <3>2. l.id # Tip(c)
      BY <1>1, <1>4, <2>1, <3>1, StandingApart
    <3>3. \A t : t = Tip(c) => (EscalatesFrom(t)' => EscalatesFrom(t))
      BY <1>7
    <3>4. Unlisted' <=> Unlisted
      BY <1>3 DEF Unlisted, Listed
    <3>5. Heir(Tip(c), ledger, 0, k)
      BY <1>3, <2>1, <3>1, <3>2, <3>3, <3>4 DEF Heir
    <3>6. Kept(c, ledger, 0)
      BY <1>8, <3>1 DEF LedgerKept
    <3> QED
      BY <2>1, <3>1, <3>5, <3>6 DEF Kept
  <2> QED
    BY <2>1, Primed DEF LedgerKept, Kept
<1>12. BackKept'
  <2>1. ASSUME NEW f, NEW y, NEW c, Returns(f, y, c)', ledger' \in {f.ledger, y}
        PROVE  Kept(c, f.ledger, y.id)'
    <3> DEFINE l == f.ledger
               n == y.id
    <3>1. Returns(f, y, c) /\ l = op[s].before.ledger /\ Standing(c)
      BY <1>6, <1>9, <2>1 DEF ReturnsShrinks
    <3>2. Kept(c, l, n)
      <4>1. CASE ledger = l
        BY <1>8, <3>1, <4>1 DEF BackKept
      <4>2. CASE ledger # l
        <5>1. Overtaking
          BY <1>10, <3>1, <4>2
        <5>2. \A v \in acked : v.locked /\ Follows(c, v.id) => Tip(c) # l.id /\ ~EscalatesFrom(Tip(c))
          BY <1>8, <3>1, <5>1 DEF Overtaken
        <5> QED
          BY <5>2 DEF Kept, Heir
      <4> QED
        BY <4>1, <4>2
    <3> HIDE DEF l, n
    <3>3. Kept(c, l, n)'
      BY <1>6, <3>2, TameKeeps
    <3> QED
      BY <3>3 DEF l, n
  <2> QED
    BY <2>1 DEF BackKept
<1>13. Overtaken'
  BY <1>5 DEF Overtaken
<1>14. ListingKept' /\ ReadWhile'
  BY <1>1, <1>5, <1>8, ListingOn, ReadOn
<1>15. StartFresh'
  <2>1. ASSUME NEW k, Starting(k)'
        PROVE  /\ \A v \in acked' : v.locked => v.epoch # k.epoch
               /\ Holding(k, "settled") = {}
               /\ Stored(op'["agents"]) /\ (ledger'.id = k.id \/ EscalatesFrom(k.id)') => ledger'.epoch = k.epoch
               /\ Stored(op'["agents"]) /\ EscalatesFrom(k.id)' => op'["escalate"].next.epoch = k.epoch
    <3>1. Starting(k)
      BY <1>3, <2>1 DEF Starting
    <3>2. x.id # k.id
      BY <1>1, <3>1 DEF SInv, NextIsNew, Starting
    <3>3. Stored(op["agents"]) /\ EscalatesFrom(k.id) => x.epoch = k.epoch
      BY <1>8, <3>1 DEF StartFresh
    <3>4. (\A v \in acked : v.locked => v.epoch # k.epoch) /\ Holding(k, "settled") = {}
      BY <1>8, <3>1 DEF StartFresh
    <3> QED
      BY <1>1, <1>3, <1>7, <3>2, <3>3, <3>4
  <2> QED
    BY <2>1, Primed DEF StartFresh
<1>16. TipFresh'
  <2>1. ASSUME NEW k, Starting(k)', op'["agents"].phase = "tip", NEW f, NEW y, NEW c, Returns(f, y, c)',
               f.ledger.id = k.id \/ EscalatesFrom(k.id)'
        PROVE  f.ledger.epoch = k.epoch
    <3>1. Starting(k) /\ op["agents"].phase = "tip"
      BY <1>3, <2>1 DEF Starting
    <3>2. Returns(f, y, c) /\ f = op[s].before
      BY <1>6, <1>9, <2>1 DEF ReturnsShrinks
    <3>3. ledger = f.ledger
      BY <1>8, <1>10, <3>1, <3>2 DEF TipFresh
    <3>4. f.ledger.id = k.id \/ EscalatesFrom(k.id)
      BY <1>7, <2>1
    <3> QED
      BY <1>8, <3>1, <3>2, <3>3, <3>4 DEF TipFresh
  <2> QED
    BY <1>5, <2>1 DEF TipFresh
<1>17. Reading'
  BY <1>3, <1>8 DEF Reading
<1> QED
  BY <1>11, <1>12, <1>13, <1>14, <1>15, <1>16, <1>17 DEF ChargesKept

LEMMA ChainKeepsC ==
  ASSUME IInv, SInv, ChargesKept, NEW s \in Slots, StoreChain(s)
  PROVE  ChargesKept'
<1> DEFINE x == op[s].next
           f == op[s].before
           d == Append(f.chain, Entry(x))
<1>1. /\ op[s] # None /\ op[s].phase = "chained" /\ Goto(s, "task") /\ chain' = d
      /\ ledger' = ledger /\ journal' = journal /\ acked' = acked
  BY DEF StoreChain, At
<1>2. /\ s = "agents" /\ "agents" \in Slots /\ "escalate" \in Slots /\ op[s].kind \in Chained
      /\ op[s].phase \in InTransition /\ HasBefore(op[s]) /\ ~Listed(op[s]) /\ "task" \in InTransition
  BY <1>1 DEF SInv, Shaped, Shape, Slots, Chained, InTransition, HasBefore, Listed
<1>3. x \in LedgerType /\ f.chain \in Seq(EntryType)
  BY <1>1, <1>2, TypedOp
<1>4. x.prev = f.ledger.id /\ ledger = x
  BY <1>1, <1>2 DEF SInv, OneTransition, InHand
<1>5. /\ Tip(d) = x.id
      /\ \A n : Follows(d, n) => n = x.id \/ (Follows(f.chain, n) /\ x.prev = Tip(f.chain))
  <2>1. Entry(x) \in EntryType /\ Entry(x).file = x.id /\ Entry(x).prev = x.prev
    BY <1>3, EntryOf
  <2> QED
    BY <1>3, <2>1, FollowsAppended
<1> HIDE DEF d
<1>6. /\ op'["escalate"] = op["escalate"] /\ \A t \in Slots : t # s => op'[t] = op[t]
      /\ op'[s].kind = op[s].kind /\ op'[s].read = op[s].read /\ op'[s].next = x
      /\ op'[s].before = f /\ op'[s].phase = "task"
  BY <1>1, <1>2, Phased
<1>7. \A t \in Slots : op[t] # None /\ op[t].phase \in InTransition => t = s
  BY <1>1, <1>2 DEF SInv, OneTransition
<1>8. /\ SameEscalation /\ SameHand /\ JournalOn /\ Tame /\ ~Overtaking'
      /\ Unlisted /\ ~Unlisted'
  BY <1>1, <1>2, <1>6, <1>7 DEF SameEscalation, SameHand, JournalOn, Tame, AckedHere, Overtaking,
     Unlisted, Listed, InTransition
<1>9. \A c : Standing(c)' => c = d
  BY <1>1, <1>2, <1>6 DEF Standing
<1>10. ReturnsShrinks
  <2>1. ASSUME NEW e, NEW y, NEW c, Returns(e, y, c)' PROVE Returns(e, y, c)
    <3>1. journal # None => journal.chained
      BY <1>1, <1>2 DEF SInv, OneTransition, InHand
    <3>2. CASE /\ journal' # None /\ e = journal'.before /\ y = journal'.after.ledger
               /\ IF journal'.chained THEN c = e.chain ELSE Standing(c)'
      BY <1>1, <3>1, <3>2 DEF Returns
    <3>3. ASSUME NEW t \in Slots, op'[t] # None, op'[t].phase \in InTransition, e = op'[t].before,
                 y = op'[t].next, IF op'[t].kind \in Chained THEN c = e.chain ELSE Standing(c)'
          PROVE  Returns(e, y, c)
      <4>1. t = s
        BY <1>6, <1>7, <3>3
      <4> QED
        BY <1>1, <1>2, <1>6, <3>3, <4>1 DEF Returns
    <3> QED
      BY <2>1, <3>2, <3>3 DEF Returns
  <2> QED
    BY <2>1 DEF ReturnsShrinks
<1>11. BackKept /\ ReadWhile /\ Reading
  BY DEF ChargesKept
<1>12. ASSUME NEW v \in acked, v.locked, Follows(d, v.id) PROVE Keeps(x, v)
  <2>1. v.id # x.id
    BY <1>1, <1>12, AckedApart
  <2>2. Follows(f.chain, v.id) /\ f.ledger.id = Tip(f.chain)
    BY <1>4, <1>5, <1>12, <2>1
  <2>3. Kept(f.chain, f.ledger, x.id)
    <3>1. Returns(f, x, f.chain)
      BY <1>1, <1>2 DEF Returns
    <3> QED
      BY <1>4, <1>11, <3>1 DEF BackKept
  <2>4. Heir(Tip(f.chain), f.ledger, x.id, x)
    BY <1>1, <1>2, <1>8, <1>11, <2>2 DEF Heir, Reading
  <2> QED
    BY <1>12, <2>2, <2>3, <2>4 DEF Kept
<1>13. \A e : EscalatesFrom(x.id) /\ e = op["escalate"].next => Inherits(x, e)
  BY <1>1, <1>2, <1>11 DEF ReadWhile
<1>14. \A n : EscalatesFrom(n)' => EscalatesFrom(n)
  BY <1>8, EscalatesOn
<1>15. LedgerKept'
  <2>1. ASSUME NEW c, NEW l, Standing(c)', l = ledger', NEW k, NEW v \in acked', v.locked,
               Follows(c, v.id), Heir(Tip(c), l, 0, k)'
        PROVE  Keeps(k, v)
    <3>1. c = d /\ Tip(c) = x.id /\ l = x /\ v \in acked
      BY <1>1, <1>4, <1>5, <1>9, <2>1
    <3>2. Keeps(x, v)
      BY <1>12, <2>1, <3>1
    <3>3. \A t : t = Tip(c) => (EscalatesFrom(t)' => EscalatesFrom(t) /\ t = x.id)
      BY <1>14, <3>1
    <3>4. k = x \/ (k = op["escalate"].next /\ EscalatesFrom(x.id))
      BY <1>6, <1>8, <2>1, <3>1, <3>3 DEF Heir
    <3> QED
      BY <1>13, <3>2, <3>4, KeepsOn
  <2> QED
    BY <2>1, Primed DEF LedgerKept, Kept
<1>16. BackKept'
  BY <1>1, <1>8, <1>10, <1>11, BackOn
<1>17. Overtaken'
  BY <1>8 DEF Overtaken
<1>18. ListingKept'
  BY <1>1, <1>2, <1>5, <1>6, <1>12, Primed DEF ListingKept
<1>19. ReadWhile'
  <2>1. ASSUME NEW k, NEW e, k = op'[s].next, EscalatesFrom(k.id)', e = op'["escalate"].next
        PROVE  Inherits(k, e) /\ op'["escalate"].phase = "begin"
    <3>1. EscalatesFrom(k.id) /\ k = x /\ e = op["escalate"].next
      BY <1>6, <1>14, <2>1
    <3> QED
      BY <1>1, <1>2, <1>6, <1>11, <3>1 DEF ReadWhile
  <2> QED
    BY <1>2, <2>1, Primed DEF ReadWhile
<1>20. StartFresh' /\ TipFresh'
  BY <1>2, <1>6 DEF StartFresh, TipFresh, Starting, Chained
<1>21. Reading'
  BY <1>1, <1>2, <1>6, <1>11 DEF Reading
<1> QED
  BY <1>15, <1>16, <1>17, <1>18, <1>19, <1>20, <1>21 DEF ChargesKept

LEMMA CleanKeepsC ==
  ASSUME IInv, SInv, ChargesKept, NEW s \in Slots, CleanJournal(s)
  PROVE  ChargesKept'
<1> DEFINE x == op[s].next
<1>1. /\ op[s] # None /\ op[s].phase = "clean" /\ op[s].phase \in InTransition
      /\ ledger' = ledger /\ chain' = chain /\ journal' = None
      /\ "agents" \in Slots /\ "escalate" \in Slots
  BY DEF CleanJournal, At, InTransition, Slots
<1>2. \A t \in Slots : op[t] # None /\ op[t].phase \in InTransition => t = s
  BY <1>1 DEF SInv, OneTransition
<1>3. CASE op[s].kind \in Appended
  <2> DEFINE phase == "tip"
  <2>1. Goto(s, phase) /\ acked' = acked
    BY <1>3 DEF CleanJournal
  <2>2. /\ op[s].phase # "begin" /\ phase \notin {"state", "ledger"} /\ phase \notin InTransition
        /\ s = "agents" =>
              /\ phase \in {"task", "context", "clean"} => op[s].phase \in {"task", "context", "clean"}
              /\ Listed(op[s]) => phase \in {"task", "context", "clean"}
              /\ phase \in {"chained", "tip"} => op[s].phase \in {"chained", "task", "context", "clean", "tip"}
    BY <1>1, <1>3 DEF InTransition, Listed, Appended, Chained
  <2>3. SameEscalation /\ SameHand /\ SameCommand /\ StandingShrinks /\ AckedHere /\ JournalOn
    BY <1>1, <2>1, <2>2, PhaseSame DEF AckedHere, JournalOn
  <2>4. /\ LedgerKept' /\ BackKept' /\ Overtaken' /\ ListingKept' /\ ReadWhile' /\ StartFresh' /\ Reading'
    BY <1>1, <2>3, MostlyQuiet
  <2>5. \A t \in Slots : op'[t] # None => op'[t].phase \notin InTransition
    <3>1. op'[s].phase = phase /\ \A t \in Slots : t # s => op'[t] = op[t]
      BY <1>1, <2>1, Phased
    <3> QED
      BY <1>2, <2>2, <3>1
  <2>6. ~Overtaking' /\ \A f, y, c : ~Returns(f, y, c)'
    BY <1>1, <2>5 DEF Overtaking, Returns, InTransition
  <2> QED
    BY <2>4, <2>6 DEF ChargesKept, TipFresh
<1>4. CASE op[s].kind \notin Appended
  <2>1. /\ Done(s) /\ Acknowledge(s, x) /\ s = "agents" /\ op[s].kind \in Chained /\ Listed(op[s])
    <3>1. Done(s) /\ Acknowledge(s, x)
      BY <1>4 DEF CleanJournal
    <3>2. op[s].kind \in {"save"} \cup Chained \cup Appended
      BY <1>1, TypedOp DEF OperationType
    <3>3. s = "agents" /\ op[s].kind \in Chained
      BY <1>1, <1>4, <3>2 DEF SInv, Shaped, Shape, Slots, Chained, Appended
    <3> QED
      BY <1>1, <3>1, <3>3 DEF Listed
  <2>2. op'[s] = None /\ op'["escalate"] = op["escalate"] /\ \A t \in Slots : t # s => op'[t] = op[t]
    BY <1>1, <2>1, Over
  <2>3. ledger = x
    BY <1>1, <2>1 DEF SInv, OneTransition, InHand
  <2>4. \A v \in acked' : v \in acked \/ (v.id = x.id /\ v.epoch = x.epoch /\ v.charged = Holding(x, "settled"))
    BY <2>1, AckedBy
  <2>5. ASSUME NEW v \in acked', v.locked, Follows(chain, v.id)
        PROVE  Tip(chain) = x.id /\ Keeps(x, v)
    <3>1. /\ Follows(chain, x.id) => Tip(chain) = x.id
          /\ \A w \in acked : w.locked /\ Follows(chain, w.id) => Tip(chain) = x.id /\ Keeps(x, w)
      BY <1>1, <2>1 DEF ChargesKept, ListingKept
    <3>2. CASE v \in acked
      BY <2>5, <3>1, <3>2
    <3>3. CASE v.id = x.id /\ v.charged = Holding(x, "settled")
      BY <2>5, <3>1, <3>3 DEF Keeps
    <3> QED
      BY <2>4, <3>2, <3>3
  <2>6. ~Overtaking' /\ \A f, y, c : ~Returns(f, y, c)'
    <3>1. \A t \in Slots : op'[t] # None => op'[t].phase \notin InTransition
      BY <1>2, <2>2
    <3> QED
      BY <1>1, <3>1 DEF Overtaking, Returns, InTransition
  <2>7. LedgerKept'
    <3>1. ASSUME NEW c, NEW l, Standing(c)', l = ledger', NEW k, NEW v \in acked', v.locked,
                 Follows(c, v.id), Heir(Tip(c), l, 0, k)'
          PROVE  Keeps(k, v)
      <4>1. c = chain /\ l = x
        BY <1>1, <2>1, <2>2, <2>3, <3>1 DEF Standing
      <4>2. Tip(c) = x.id /\ Keeps(x, v)
        BY <2>5, <3>1, <4>1
      <4>3. \A t : t = Tip(c) => (EscalatesFrom(t)' => EscalatesFrom(x.id))
        BY <2>2, <4>2 DEF EscalatesFrom
      <4>4. ~Unlisted'
        BY <2>1, <2>2 DEF Unlisted
      <4>5. k = x \/ (k = op["escalate"].next /\ EscalatesFrom(x.id))
        BY <2>2, <3>1, <4>1, <4>3, <4>4 DEF Heir
      <4>6. \A e : EscalatesFrom(x.id) /\ e = op["escalate"].next => Inherits(x, e)
        BY <1>1, <2>1 DEF ChargesKept, ReadWhile
      <4> QED
        BY <4>2, <4>5, <4>6, KeepsOn
    <3> QED
      BY <3>1, Primed DEF LedgerKept, Kept
  <2>8. /\ BackKept' /\ Overtaken' /\ ListingKept' /\ ReadWhile' /\ StartFresh' /\ TipFresh' /\ Reading'
    BY <2>1, <2>2, <2>6 DEF BackKept, Overtaken, ListingKept, ReadWhile, StartFresh, TipFresh, Starting,
       Reading
  <2> QED
    BY <2>7, <2>8 DEF ChargesKept
<1> QED
  BY <1>3, <1>4

\* The tip of a task that starts: what is built on it has its epoch.
LEMMA AppendStartKeepsC ==
  ASSUME IInv, SInv, ChargesKept, AppendTip("agents")
  PROVE  ChargesKept'
<1> DEFINE s == "agents"
           x == op[s].next
           d == Append(chain, Entry(x))
<1>1. /\ s \in Slots /\ op[s] # None /\ op[s].phase = "tip" /\ Done(s) /\ Acknowledge(s, x)
      /\ chain' = d /\ ledger' = ledger /\ journal' = journal
  BY DEF AppendTip, At, Slots
<1>2. op'[s] = None /\ op'["escalate"] = op["escalate"] /\ \A t \in Slots : t # s => op'[t] = op[t]
  BY <1>1, Over DEF Slots
<1>3. x \in LedgerType /\ chain \in Seq(EntryType)
  BY <1>1, TypedOp DEF IInv, TypeOK
<1>4. Tip(d) = x.id
  <2>1. Entry(x) \in EntryType /\ Entry(x).file = x.id
    BY <1>3, EntryOf
  <2> QED
    BY <1>3, <2>1, FollowsAppended
<1> HIDE DEF d
<1>5. Starting(x) /\ Stored(op[s])
  BY <1>1 DEF SInv, Shaped, Shape, Starting, Stored, Appended
<1>6. StartFresh /\ TipFresh /\ BackKept
  BY DEF ChargesKept
<1>7. /\ \A v \in acked : v.locked => v.epoch # x.epoch
      /\ Holding(x, "settled") = {}
      /\ ledger.id = x.id \/ EscalatesFrom(x.id) => ledger.epoch = x.epoch
      /\ EscalatesFrom(x.id) => op["escalate"].next.epoch = x.epoch
  BY <1>5, <1>6 DEF StartFresh
<1>8. \A v \in acked' : v \in acked \/ v.charged = {}
  BY <1>1, <1>7, AckedBy
<1>9. \A k : k.epoch = x.epoch => \A v \in acked' : v.locked => Keeps(k, v)
  BY <1>7, <1>8 DEF Keeps
<1>10. \A c : Standing(c)' => c = d
  BY <1>1, <1>2 DEF Standing
<1>11. SameEscalation /\ SameHand /\ ~Unlisted' /\ ~Overtaking'
  <2>1. SameEscalation /\ SameHand /\ ~Unlisted'
    BY <1>2 DEF SameEscalation, SameHand, Unlisted
  <2>2. ~Overtaking
    BY <1>1, <1>5, <1>6 DEF TipFresh
  <2> QED
    BY <1>1, <2>1, <2>2, OvertakingOn
<1>12. \A n : EscalatesFrom(n)' <=> EscalatesFrom(n)
  BY <1>2 DEF EscalatesFrom
<1>13. ASSUME NEW c, c = d, NEW l, NEW n, l.id = x.id \/ EscalatesFrom(x.id) => l.epoch = x.epoch
       PROVE  Kept(c, l, n)'
  <2>1. \A t, k : t = Tip(c) /\ Heir(t, l, n, k)' => k.epoch = x.epoch
    BY <1>2, <1>4, <1>7, <1>11, <1>12, <1>13 DEF Heir
  <2> QED
    BY <1>9, <2>1, Primed DEF Kept
<1>14. LedgerKept'
  BY <1>1, <1>7, <1>10, <1>13 DEF LedgerKept
<1>15. Standing(chain)
  BY DEF Standing
<1>16. ASSUME NEW f, NEW y, NEW c, Returns(f, y, c)'
       PROVE  Returns(f, y, c) \/ (c = d /\ Returns(f, y, chain))
  BY <1>1, <1>2, <1>10, <1>15, <1>16 DEF Returns
<1>17. BackKept'
  <2>1. ASSUME NEW f, NEW y, NEW c, Returns(f, y, c)', ledger' \in {f.ledger, y}
        PROVE  Kept(c, f.ledger, y.id)'
    <3> DEFINE l == f.ledger
               n == y.id
    <3>1. CASE Returns(f, y, c)
      <4>1. Kept(c, l, n)
        BY <1>1, <1>6, <2>1, <3>1 DEF BackKept
      <4> HIDE DEF l, n
      <4>2. \A t, k : Heir(t, l, n, k)' => Heir(t, l, n, k)
        BY <1>2, <1>11, <1>12 DEF Heir
      <4>3. \A k, v : v.charged = {} => Keeps(k, v)
        BY DEF Keeps
      <4>4. Kept(c, l, n)'
        BY <1>8, <4>1, <4>2, <4>3, Primed DEF Kept
      <4> QED
        BY <4>4 DEF l, n
    <3>2. CASE c = d /\ Returns(f, y, chain)
      <4>1. l.id = x.id \/ EscalatesFrom(x.id) => l.epoch = x.epoch
        BY <1>1, <1>5, <1>6, <2>1, <3>2 DEF TipFresh
      <4> HIDE DEF l, n
      <4>2. Kept(c, l, n)'
        BY <1>13, <3>2, <4>1
      <4> QED
        BY <4>2 DEF l, n
    <3> QED
      BY <1>16, <2>1, <3>1, <3>2
  <2> QED
    BY <2>1 DEF BackKept
<1>18. Overtaken' /\ ListingKept' /\ ReadWhile' /\ StartFresh' /\ TipFresh' /\ Reading'
  BY <1>2, <1>11 DEF Overtaken, ListingKept, ReadWhile, StartFresh, TipFresh, Starting, Reading
<1> QED
  BY <1>14, <1>17, <1>18 DEF ChargesKept

\* The tip of an escalation links up with the tip that it read, or with none.
LEMMA AppendEscalationKeepsC ==
  ASSUME IInv, SInv, ChargesKept, AppendTip("escalate")
  PROVE  ChargesKept'
<1> DEFINE s == "escalate"
           x == op[s].next
           d == Append(chain, Entry(x))
<1>1. /\ s \in Slots /\ "agents" \in Slots /\ op[s] # None /\ op[s].phase = "tip" /\ Done(s)
      /\ Acknowledge(s, x) /\ chain' = d /\ ledger' = ledger /\ journal' = journal
  BY DEF AppendTip, At, Slots
<1>2. op'[s] = None /\ op'["agents"] = op["agents"] /\ \A t \in Slots : t # s => op'[t] = op[t]
  BY <1>1, Over DEF Slots
<1>3. x \in LedgerType /\ chain \in Seq(EntryType)
  BY <1>1, TypedOp DEF IInv, TypeOK
<1>4. /\ Tip(d) = x.id
      /\ \A n : Follows(d, n) => n = x.id \/ (Follows(chain, n) /\ EscalatesFrom(Tip(chain)))
  <2>1. Entry(x) \in EntryType /\ Entry(x).file = x.id /\ Entry(x).prev = x.prev
    BY <1>3, EntryOf
  <2> QED
    BY <1>1, <1>3, <2>1, FollowsAppended DEF EscalatesFrom
<1> HIDE DEF d
<1>5. AckedHere
  <2>1. "agents" # s
    OBVIOUS
  <2> QED
    BY <1>1, <2>1, AckedBy DEF AckedHere
<1>6. SameEscalation /\ SameCommand /\ SameHand /\ ~Overtaking' /\ \A n : ~EscalatesFrom(n)'
  BY <1>1, <1>2 DEF SameEscalation, SameCommand, SameHand, Overtaking, EscalatesFrom
<1>7. Tame
  BY <1>5, <1>6, TameOn
<1>8. Standing(chain) /\ \A c : Standing(c)' => c = d \/ Standing(c)
  BY <1>1, <1>2 DEF Standing
<1>9. ASSUME NEW f, NEW y, NEW c, Returns(f, y, c)'
       PROVE  Returns(f, y, c) \/ (c = d /\ Returns(f, y, chain))
  BY <1>1, <1>2, <1>8, <1>9 DEF Returns
<1>10. LedgerKept /\ BackKept /\ ListingKept /\ ReadWhile /\ StartFresh /\ TipFresh /\ Reading
  BY DEF ChargesKept
<1>11. \A v \in acked : v.locked => v.id # x.id
  BY <1>1, AckedApart
<1>12. ASSUME NEW c, c = d, NEW l, NEW n, Kept(chain, l, n) PROVE Kept(c, l, n)'
  <2>1. ASSUME NEW k, NEW v \in acked', v.locked, Follows(c, v.id), Heir(Tip(c), l, n, k)'
        PROVE  Keeps(k, v)
    <3>1. v \in acked /\ Follows(chain, v.id) /\ EscalatesFrom(Tip(chain))
      BY <1>4, <1>5, <1>11, <1>12, <2>1 DEF AckedHere
    <3>2. Unlisted' => Unlisted
      BY <1>2 DEF Unlisted, Listed
    <3>3. \A t : Heir(t, l, n, k)' => k = l \/ (k = op["agents"].next /\ Unlisted /\ op["agents"].read # n)
      BY <1>2, <1>6, <3>2 DEF Heir
    <3>4. Heir(Tip(chain), l, n, k)
      BY <2>1, <3>1, <3>3, Primed DEF Heir
    <3> QED
      BY <1>12, <2>1, <3>1, <3>4 DEF Kept
  <2> QED
    BY <2>1, Primed DEF Kept
<1>13. LedgerKept'
  <2>1. ASSUME NEW c, NEW l, Standing(c)', l = ledger' PROVE Kept(c, l, 0)'
    <3>1. CASE c = d
      <4>1. Kept(chain, l, 0)
        BY <1>1, <1>8, <1>10, <2>1 DEF LedgerKept
      <4> QED
        BY <1>12, <3>1, <4>1
    <3>2. CASE Standing(c)
      <4>1. Kept(c, l, 0)
        BY <1>1, <1>10, <2>1, <3>2 DEF LedgerKept
      <4> QED
        BY <1>7, <4>1, TameKeeps
    <3> QED
      BY <1>8, <2>1, <3>1, <3>2
  <2> QED
    BY <2>1 DEF LedgerKept
<1>14. BackKept'
  <2>1. ASSUME NEW f, NEW y, NEW c, Returns(f, y, c)', ledger' \in {f.ledger, y}
        PROVE  Kept(c, f.ledger, y.id)'
    <3> DEFINE l == f.ledger
               n == y.id
    <3>1. CASE Returns(f, y, c)
      <4>1. Kept(c, l, n)
        BY <1>1, <1>10, <2>1, <3>1 DEF BackKept
      <4> HIDE DEF l, n
      <4>2. Kept(c, l, n)'
        BY <1>7, <4>1, TameKeeps
      <4> QED
        BY <4>2 DEF l, n
    <3>2. CASE c = d /\ Returns(f, y, chain)
      <4>1. Kept(chain, l, n)
        BY <1>1, <1>10, <2>1, <3>2 DEF BackKept
      <4> HIDE DEF l, n
      <4>2. Kept(c, l, n)'
        BY <1>12, <3>2, <4>1
      <4> QED
        BY <4>2 DEF l, n
    <3> QED
      BY <1>9, <2>1, <3>1, <3>2
  <2> QED
    BY <2>1 DEF BackKept
<1>15. ASSUME op["agents"] # None, Listed(op["agents"]) PROVE ~EscalatesFrom(op["agents"].next.id)
  <2>1. CASE op["agents"].phase = "state"
    <3>1. ~Named(op["agents"].next.id)
      BY <1>1, <1>15, <2>1 DEF SInv, NextIsNew, Stored
    <3> QED
      BY <3>1, Unnamed
  <2>2. CASE op["agents"].kind \in Chained
    BY <1>1, <1>10, <1>15, <2>2 DEF ReadWhile
  <2> QED
    BY <1>15, <2>1, <2>2 DEF Listed
<1>16. ListingKept'
  <2>1. ASSUME op["agents"] # None, Listed(op["agents"]), NEW m,
               m = op["agents"].next.id \/ \E v \in acked : v.locked /\ m = v.id
        PROVE  ~Follows(d, m)
    <3>1. op["agents"].next.id # x.id
      BY <1>1, <2>1 DEF SInv, NextIsNew
    <3>2. Follows(d, m) => Follows(chain, m) /\ EscalatesFrom(Tip(chain))
      BY <1>4, <1>11, <2>1, <3>1
    <3>3. Follows(chain, m) => Tip(chain) = op["agents"].next.id
      BY <1>10, <2>1 DEF ListingKept
    <3> QED
      BY <1>15, <2>1, <3>2, <3>3
  <2> QED
    BY <1>1, <1>2, <1>5, <2>1, Primed DEF ListingKept, AckedHere
<1>17. Overtaken' /\ ReadWhile'
  BY <1>6 DEF Overtaken, ReadWhile
<1>18. StartFresh'
  BY <1>1, <1>5, <1>6, <1>10, StartOn
<1>19. TipFresh'
  <2>1. ASSUME NEW k, Starting(k)', op'["agents"].phase = "tip", NEW f, NEW y, NEW c, Returns(f, y, c)',
               ledger' \in {f.ledger, y}, f.ledger.id = k.id \/ EscalatesFrom(k.id)'
        PROVE  f.ledger.epoch = k.epoch
    <3>1. Starting(k) /\ op["agents"].phase = "tip" /\ f.ledger.id = k.id
      BY <1>2, <1>6, <2>1 DEF Starting
    <3>2. \E e : Returns(f, y, e)
      BY <1>9, <2>1
    <3> QED
      BY <1>1, <1>10, <2>1, <3>1, <3>2 DEF TipFresh
  <2> QED
    BY <1>6, <2>1 DEF TipFresh
<1>20. Reading'
  BY <1>2, <1>10 DEF Reading
<1> QED
  BY <1>13, <1>14, <1>16, <1>17, <1>18, <1>19, <1>20 DEF ChargesKept

\* The files that are put back keep what was charged, unless another command has
\* written or read what they are put back over.
LEMMA PutBackKeepsC ==
  ASSUME ChargesKept, NEW f, NEW x, ledger' = f.ledger, journal' = None, ledger \in {f.ledger, x},
         op["agents"] # None => op["agents"].read # x.id,
         AckedHere, \A s \in Slots : op'[s] # None => op'[s] = op[s],
         \A s \in Slots : op'[s] # None => op'[s].phase \notin InTransition,
         \A c : Standing(c)' => Returns(f, x, c),
         chain' = chain \/ (op'["agents"] # None => ~Listed(op'["agents"]))
  PROVE  ChargesKept'
<1>1. Tame /\ SameEscalation /\ SameCommand
  <2>1. SameEscalation /\ SameCommand
    BY DEF SameEscalation, SameCommand, Slots
  <2> QED
    BY <2>1, TameOn
<1>2. \A n : EscalatesFrom(n)' => EscalatesFrom(n)
  BY <1>1, EscalatesOn
<1>3. ~Overtaking' /\ \A e, y, c : ~Returns(e, y, c)'
  BY DEF Overtaking, Returns, InTransition, Slots
<1>4. BackKept /\ ListingKept /\ ReadWhile /\ StartFresh /\ TipFresh /\ Reading
  BY DEF ChargesKept
<1>5. LedgerKept'
  <2>1. ASSUME NEW c, NEW l, Standing(c)', l = ledger' PROVE Kept(c, l, 0)'
    <3> DEFINE n == x.id
    <3>1. Kept(c, l, n)
      BY <1>4, <2>1 DEF BackKept
    <3>2. op'["agents"] # None => op'["agents"].read # n
      BY <1>1 DEF SameCommand
    <3> HIDE DEF n
    <3>3. Kept(c, l, n)'
      BY <1>1, <3>1, TameKeeps
    <3>4. \A t, k : Heir(t, l, 0, k)' => Heir(t, l, n, k)'
      BY <3>2 DEF Heir, Unlisted
    <3> QED
      BY <3>3, <3>4 DEF Kept
  <2> QED
    BY <2>1 DEF LedgerKept
<1>6. BackKept' /\ Overtaken' /\ TipFresh'
  BY <1>3 DEF BackKept, Overtaken, TipFresh
<1>7. ListingKept'
  <2>1. CASE chain' = chain
    BY <1>1, <1>4, <2>1, ListingOn
  <2>2. CASE op'["agents"] # None => ~Listed(op'["agents"])
    BY <2>2, Primed DEF ListingKept
  <2> QED
    BY <2>1, <2>2
<1>8. ReadWhile'
  BY <1>1, <1>4, ReadOn
<1>9. StartFresh'
  <2>1. ASSUME NEW k, Starting(k)'
        PROVE  /\ \A v \in acked' : v.locked => v.epoch # k.epoch
               /\ Holding(k, "settled") = {}
               /\ Stored(op'["agents"]) /\ (ledger'.id = k.id \/ EscalatesFrom(k.id)') => ledger'.epoch = k.epoch
               /\ Stored(op'["agents"]) /\ EscalatesFrom(k.id)' => op'["escalate"].next.epoch = k.epoch
    <3>1. Starting(k) /\ (Stored(op'["agents"]) => Stored(op["agents"]))
      BY <1>1, <2>1 DEF Starting, SameCommand
    <3>2. /\ \A v \in acked : v.locked => v.epoch # k.epoch
          /\ Holding(k, "settled") = {}
          /\ Stored(op["agents"]) /\ EscalatesFrom(k.id) => op["escalate"].next.epoch = k.epoch
      BY <1>4, <3>1 DEF StartFresh
    <3>3. \A v \in acked' : v.locked => v.epoch # k.epoch
      BY <3>2 DEF AckedHere
    <3>4. Stored(op'["agents"]) /\ EscalatesFrom(k.id)' => op'["escalate"].next.epoch = k.epoch
      BY <1>1, <1>2, <3>1, <3>2 DEF SameEscalation, EscalatesFrom
    <3>5. ASSUME Stored(op'["agents"]), ledger'.id = k.id \/ EscalatesFrom(k.id)'
          PROVE  ledger'.epoch = k.epoch
      <4>1. op["agents"].phase = "tip"
        BY <2>1, <3>5 DEF Starting, Stored, InTransition, Slots
      <4>2. Returns(f, x, chain')
        BY DEF Standing
      <4>3. f.ledger.id = k.id \/ EscalatesFrom(k.id)
        BY <1>2, <3>5
      <4> QED
        BY <1>4, <3>1, <4>1, <4>2, <4>3 DEF TipFresh
    <3> QED
      BY <3>2, <3>3, <3>4, <3>5
  <2> QED
    BY <2>1, Primed DEF StartFresh
<1>10. Reading'
  BY <1>1, <1>4, ReadingOn DEF SameCommand
<1> QED
  BY <1>5, <1>6, <1>7, <1>8, <1>9, <1>10 DEF ChargesKept

LEMMA RollbackKeepsC ==
  ASSUME IInv, SInv, ChargesKept, NEW s \in Slots, Rollback(s), reverted' = {}
  PROVE  ChargesKept'
<1> DEFINE f == op[s].before
           x == op[s].next
<1>1. /\ op[s] # None /\ op[s].phase \in InTransition /\ Done(s) /\ ledger' = f.ledger /\ journal' = None
      /\ chain' = IF op[s].kind \in Chained THEN f.chain ELSE chain
      /\ acked' = acked
  BY DEF Rollback, PutBack
<1>2. op'[s] = None /\ \A t \in Slots : t # s => op'[t] = op[t]
  BY <1>1, Over
<1>3. ~Foreign(f, x, op[s].kind \in Chained) /\ ~Misled(x)
  <2> DEFINE b == op[s].kind \in Chained
  <2>1. reverted' = reverted \cup Undone(f, x, b)
    BY DEF Rollback
  <2> HIDE DEF b, f, x
  <2>2. ~Foreign(f, x, b) /\ ~Misled(x)
    BY <2>1, NothingUndone
  <2> QED
    BY <2>2 DEF b
<1>4. ledger \in {f.ledger, x} /\ (op["agents"] # None => op["agents"].read # x.id)
  BY <1>3 DEF Foreign, Misled
<1>5. \A t \in Slots : op'[t] # None => op'[t].phase \notin InTransition /\ op'[t] = op[t]
  BY <1>1, <1>2 DEF SInv, OneTransition
<1>6. op[s].kind \in Chained => s = "agents"
  BY <1>1 DEF SInv, Shaped, Shape, Chained, Slots
<1>7. ASSUME NEW c, Standing(c)' PROVE Returns(f, x, c)
  <2>1. CASE op[s].kind \in Chained
    BY <1>1, <1>2, <1>6, <1>7, <2>1 DEF Standing, Returns
  <2>2. CASE op[s].kind \notin Chained
    <3>1. "agents" \in Slots
      BY DEF Slots
    <3>2. Standing(c)
      BY <1>1, <1>5, <1>7, <2>2, <3>1 DEF Standing
    <3> QED
      BY <1>1, <2>2, <3>2 DEF Returns
  <2> QED
    BY <2>1, <2>2
<1>8. AckedHere /\ (chain' = chain \/ op'["agents"] = None)
  BY <1>1, <1>2, <1>6 DEF AckedHere
<1> HIDE DEF f, x
<1> QED
  BY <1>1, <1>4, <1>5, <1>7, <1>8, PutBackKeepsC

\* No save has a tip in the chain that a transition with a chain of its own left.
LEMMA RestoreKeepsC ==
  ASSUME IInv, SInv, AckedKept, ListsApart, ChargesKept, Restore, reverted' = {}
  PROVE  ChargesKept'
<1> DEFINE f == journal.before
           x == journal.after.ledger
<1>1. /\ journal # None /\ op' = op /\ ledger' = f.ledger /\ journal' = None
      /\ chain' = IF journal.chained THEN f.chain ELSE chain
      /\ acked' = acked /\ \A t \in Slots : op[t] # None => op[t].phase \notin InTransition
  BY DEF Restore, PutBack, TaskLocked
<1>2. ~Foreign(f, x, journal.chained) /\ ~Misled(x)
  <2> DEFINE b == journal.chained
  <2>1. reverted' = reverted \cup Undone(f, x, b)
    BY DEF Restore
  <2> HIDE DEF b, f, x
  <2>2. ~Foreign(f, x, b) /\ ~Misled(x)
    BY <2>1, NothingUndone
  <2> QED
    BY <2>2 DEF b
<1>3. ledger \in {f.ledger, x} /\ (op["agents"] # None => op["agents"].read # x.id)
  BY <1>2 DEF Foreign, Misled
<1>4. ASSUME journal.chained, op["agents"] # None, op["agents"].phase = "state" PROVE FALSE
  <2>1. "agents" \in Slots
    BY DEF Slots
  <2>2. Lists(chain, op["agents"].next.id)
    BY <1>4 DEF AckedKept, TipKept, TipIn, Listing, Lists
  <2>3. ~Lists(f.chain, op["agents"].next.id)
    BY <1>1, <1>4, <2>1 DEF ListsApart
  <2>4. x.id # op["agents"].next.id
    BY <1>1, <1>4, <2>1, AckedApart
  <2>5. x \in LedgerType /\ f.chain \in Seq(EntryType)
    BY <1>1 DEF IInv, TypeOK, JournalType, FilesType
  <2>6. chain \in {f.chain, Append(f.chain, Entry(x))}
    BY <1>2, <1>4 DEF Foreign
  <2> HIDE DEF f, x
  <2>7. \A n : Lists(Append(f.chain, Entry(x)), n) <=> Lists(f.chain, n) \/ n = x.id
    BY <2>5, ListsAppended
  <2> QED
    BY <2>2, <2>3, <2>4, <2>6, <2>7
<1>5. ASSUME NEW c, Standing(c)' PROVE Returns(f, x, c)
  <2>1. CASE journal.chained
    BY <1>1, <1>4, <1>5, <2>1 DEF Standing, Returns
  <2>2. CASE ~journal.chained
    BY <1>1, <1>5, <2>2 DEF Standing, Returns
  <2> QED
    BY <2>1, <2>2
<1>6. chain' = chain \/ (op'["agents"] # None => ~Listed(op'["agents"]))
  <2>1. ASSUME op["agents"] # None, Listed(op["agents"]) PROVE op["agents"].phase = "state"
    BY <1>1, <2>1 DEF Listed, InTransition, Slots
  <2> QED
    BY <1>1, <1>4, <2>1
<1>7. AckedHere
  BY <1>1 DEF AckedHere
<1> HIDE DEF f, x
<1> QED
  BY <1>1, <1>3, <1>5, <1>6, <1>7, PutBackKeepsC

LEMMA ChargesInit == Init => CInv
<1> SUFFICES ASSUME Init PROVE ChargesKept
  BY DEF CInv
<1>1. /\ op["agents"] = None /\ op["escalate"] = None /\ journal = None
      /\ \A s \in Slots : op[s] = None
      /\ \A v \in acked : v.charged = {}
  BY DEF Init, Slots
<1>2. \A k : \A v \in acked : Keeps(k, v)
  BY <1>1 DEF Keeps
<1>3. LedgerKept
  BY <1>2 DEF LedgerKept, Kept
<1> QED
  BY <1>1, <1>3 DEF ChargesKept, BackKept, Returns, Overtaken, Overtaking, ListingKept, ReadWhile,
     StartFresh, TipFresh, Starting, Reading

LEMMA ChargesStep == IInv /\ SInv /\ VInv /\ ListsApart /\ CInv /\ [Next]_vars => CInv'
<1> SUFFICES ASSUME IInv, SInv, VInv, ListsApart, CInv, [Next]_vars, reverted' = {}
             PROVE  ChargesKept'
  BY DEF CInv
<1>1. reverted = {}
  <2>1. reverted \subseteq reverted'
    BY DEF Next, vars, Observe, Prepare, CancelPrepare, Register, Redispatch, Finish, Check, InitLedger,
           StartTask, Escalate, CompleteTask, Save, Begin, PublishMarker, WriteTip, WriteState, SaveFails,
           Transition, BeginTransition, StoreLedger, StoreChain, StoreTask, BindContext, CleanJournal,
           AppendTip, Rollback, Crash, Restore, Discard
  <2> QED
    BY <2>1
<1>2. AckedKept /\ ChargesKept /\ ledger.rev >= 1
  BY <1>1 DEF VInv, CInv, SInv, Numbered, Bounded
<1>3. CASE Command
  <2>1. PICK o : Begin("agents", o) /\ Commanded(o)
    BY <1>2, <1>3, CommandBegins
  <2> QED
    BY <1>2, <2>1, CommandKeepsC
<1>4. ASSUME NEW mode \in Modes, Escalate(mode) PROVE ChargesKept'
  <2>1. PICK o : Begin("escalate", o) /\ Escalated(o)
    BY <1>2, <1>4, EscalateBegins
  <2> QED
    BY <1>2, <2>1, EscalationKeepsC
<1>5. CASE Observe \/ Discard \/ UNCHANGED vars
  <2>1. op' = op /\ ledger' = ledger /\ chain' = chain /\ acked' = acked /\ JournalOn
    BY <1>5 DEF Observe, Discard, vars, JournalOn
  <2> QED
    BY <1>2, <2>1, RestKeepsC
<1>6. ASSUME NEW s \in Slots, StoreLedger(s) PROVE ChargesKept'
  <2>1. s = "agents" \/ s = "escalate"
    BY DEF Slots
  <2> QED
    BY <1>2, <1>6, <2>1, StoreAgentKeepsC, StoreEscalationKeepsC
<1>7. ASSUME NEW s \in Slots, AppendTip(s) PROVE ChargesKept'
  <2>1. s = "agents" \/ s = "escalate"
    BY DEF Slots
  <2> QED
    BY <1>2, <1>7, <2>1, AppendStartKeepsC, AppendEscalationKeepsC
<1>8. ASSUME NEW s \in Slots, Transition(s) PROVE ChargesKept'
  BY <1>2, <1>6, <1>7, <1>8, BeginKeepsC, ChainKeepsC, TaskKeepsC, CleanKeepsC, RollbackKeepsC DEF Transition
<1> QED
  BY <1>2, <1>3, <1>4, <1>5, <1>8, PublishKeepsC, TipKeepsC, StateKeepsC, SaveFailsKeepsC, CrashKeepsC,
     RestoreKeepsC DEF Next, Command

\* What the chain vouches for, it is followed from to its tip.
LEMMA VouchedFollows ==
  ASSUME IInv, ChainValid(ledger, chain), NEW n, n \in Vouched(chain)
  PROVE  Follows(chain, n)
<1> DEFINE i == CHOOSE k \in 1..Len(chain) : Linked(chain, k)
<1>1. Len(chain) \in Nat
  BY DEF IInv, TypeOK
<1>2. i \in 1..Len(chain) /\ Linked(chain, i) /\ Vouched(chain) = {chain[j].file : j \in i..Len(chain)}
  BY DEF ChainValid, Vouched
<1> HIDE DEF i
<1>3. PICK p \in i..Len(chain) : chain[p].file = n
  BY <1>2
<1>4. p \in 1..Len(chain) /\ \A q \in p+1..Len(chain) : q \in i+1..Len(chain)
  BY <1>1, <1>2, <1>3
<1> QED
  BY <1>2, <1>3, <1>4 DEF Follows, Linked

\* Whatever dies where, and although escalate-mode writes beside the lock: while the
\* chain of the ledger verifies, no version acknowledged under the lock is lost unless
\* a repair put files back over what another command had written, and no charge that
\* was settled is lost unless a command worked on from a version a repair undid.
THEOREM ChainDetectsLosses == Spec => []ChainDetects
<1>1. IInv /\ [Next]_vars => IInv'
  BY IsInductive
<1>2. IInv /\ SInv /\ VInv /\ CInv => ChainDetects
  <2> SUFFICES ASSUME IInv, VInv, CInv, ChainValid(ledger, chain), "written" \notin reverted,
                      NEW v \in acked, v.locked
               PROVE  /\ v.id \in Vouched(chain)
                      /\ "read" \notin reverted => Keeps(ledger, v)
    BY DEF ChainDetects, Keeps
  <2>1. v.id \in Vouched(chain)
    BY VersionsVouched
  <2>2. ASSUME "read" \notin reverted PROVE Keeps(ledger, v)
    <3>1. reverted = {}
      BY <2>2 DEF IInv, TypeOK
    <3>2. Kept(chain, ledger, 0)
      BY <3>1 DEF CInv, ChargesKept, LedgerKept, Standing
    <3>3. Tip(chain) = ledger.id
      BY DEF ChainValid, Entry, Tip
    <3> QED
      BY <2>1, <3>2, <3>3, VouchedFollows DEF Kept, Heir
  <2> QED
    BY <2>1, <2>2
<1> QED
  BY Initially, <1>1, InitCoheres, CoherenceStep, ApartInit, ApartStep, VersionsInit, VersionsStep,
     ChargesInit, ChargesStep, <1>2, PTL DEF Spec
=============================================================================
