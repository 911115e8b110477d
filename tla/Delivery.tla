-------------------------------- MODULE Delivery --------------------------------
(***************************************************************************)
(* The delivery state of a task (deliveryctl.py): artifact, test receipt,  *)
(* provider preflight, production approval, deployment, promotion and      *)
(* rollback, each recorded by a command of its own under .delivery.lock,   *)
(* and the resets by init, which chain the archived states.  agentctl      *)
(* start commits the new task first and calls init afterwards; it may die  *)
(* in between.  The task's nodes are accepted, returned and accepted       *)
(* again meanwhile.                                                        *)
(*                                                                         *)
(* A refused command changes nothing and is not modelled.  Receipts are    *)
(* there or not: the digests that bind one to the other are those of the   *)
(* state they are written into.  The legacy statuses, which only migration *)
(* from an old release leaves, are left out.                               *)
(*                                                                         *)
(* The usual names of a specification carry a prefix here, so that         *)
(* Ledgers_proofs can extend this module beside TestBudget.                *)
(***************************************************************************)
EXTENDS Integers, Sequences

CONSTANTS
    NoState,     \* no file
    Garbage,     \* a file that is not a delivery state
    Limit,       \* DELIVERY_CHAIN_LIMIT: archived states the validator follows
    MaxStarts,   \* bound: tasks started
    MaxResets,   \* bound: states archived
    MaxEvents    \* bound: returns, expiries, corruptions and deaths

ASSUME DeliveryAssumption ==
    /\ {Limit, MaxStarts, MaxResets, MaxEvents} \subseteq Nat
    /\ NoState # Garbage

VARIABLES
    task,        \* TASK.json: its number, target and whether Node 7 is accepted
    starting,    \* agentctl start has yet to call init
    delivery,    \* state/delivery.json
    archives,    \* evidence/delivery-archives, in order
    fresh,       \* the provider preflight is younger than max_receipt_age_seconds
    events,      \* returns, expiries, corruptions and deaths so far
    owner        \* history: the task the state was initialised in

deliveryVars == <<task, starting, delivery, archives, fresh, events, owner>>

Targets ==
    {[env |-> "local", requested |-> FALSE], [env |-> "test", requested |-> TRUE],
     [env |-> "production", requested |-> TRUE]}

Receipts == {"artifact", "test", "preflight", "approval", "attempt", "promotion", "rollback"}
Statuses ==
    {"not_requested", "awaiting_artifact", "awaiting_test", "awaiting_provider_preflight",
     "awaiting_production_approval", "ready_to_promote", "promoted", "rollback_required",
     "rolled_back"}
States ==
    [env : {"local", "test", "production"}, requested : BOOLEAN, status : Statuses,
     has : SUBSET Receipts, passed : BOOLEAN, approvedIn : 0..MaxStarts,
     epoch : Nat \ {0}, head : Nat]
Blank == [env |-> "local", requested |-> FALSE, status |-> "not_requested", has |-> {},
          passed |-> FALSE, approvedIn |-> 0, epoch |-> 1, head |-> 0]

DeliveryInit ==
    /\ task = [n |-> 0, target |-> CHOOSE t \in Targets : t.env = "local", accepted |-> FALSE]
    /\ starting = FALSE
    /\ delivery = NoState
    /\ archives = <<>>
    /\ fresh = FALSE
    /\ events = 0
    /\ owner = 0

Recorded == delivery \notin {NoState, Garbage}

(***************************************************************************)
(* The chain of resets.                                                    *)
(***************************************************************************)
\* delivery_state_empty
NothingToLose(d) == d.has = {} /\ d.status \in {"not_requested", "awaiting_artifact"}

\* archive_delivery_state: an archive is named by its content.
Archived(d) ==
    IF \E i \in 1..Len(archives) : archives[i] = d THEN archives ELSE Append(archives, d)
Named(d) == CHOOSE i \in 1..Len(Archived(d)) : Archived(d)[i] = d

\* delivery_chain_errors: heads are followed back to the first epoch.
Heads[i \in 0..Len(archives)] == IF i = 0 THEN <<>> ELSE <<i>> \o Heads[archives[i].head]
ChainVerifies(d) ==
    LET h == Heads[d.head]
    IN  /\ Len(h) <= Limit
        /\ d.epoch = Len(h) + 1
        /\ \A j \in 1..Len(h) : archives[h[j]].epoch = d.epoch - j

\* Mutant: a state without receipts is restarted with its epoch but not its head.
ResetForgetful ==
    LET new == [Blank EXCEPT !.env = task.target.env, !.requested = task.target.requested,
                  !.status = IF task.target.requested THEN "awaiting_artifact" ELSE "not_requested"]
    IN  IF ~Recorded
        THEN delivery' = new /\ UNCHANGED archives
        ELSE IF NothingToLose(delivery)
        THEN delivery' = [new EXCEPT !.epoch = delivery.epoch] /\ UNCHANGED archives
        ELSE /\ archives' = Archived(delivery)
             /\ delivery' = [new EXCEPT !.epoch = delivery.epoch + 1, !.head = Named(delivery)]

\* command_init: no state or one that cannot be chained starts at the first epoch, one
\* without receipts keeps its place in the chain, any other is archived.
Reset ==
    LET new == [Blank EXCEPT !.env = task.target.env, !.requested = task.target.requested,
                  !.status = IF task.target.requested THEN "awaiting_artifact" ELSE "not_requested"]
    IN  IF ~Recorded
        THEN delivery' = new /\ UNCHANGED archives
        ELSE IF NothingToLose(delivery)
        THEN /\ delivery' = [new EXCEPT !.epoch = delivery.epoch, !.head = delivery.head]
             /\ UNCHANGED archives
        ELSE /\ archives' = Archived(delivery)
             /\ delivery' = [new EXCEPT !.epoch = delivery.epoch + 1, !.head = Named(delivery)]

InitDelivery ==
    /\ task.n > 0
    /\ Len(archives) < MaxResets
    /\ Reset
    /\ starting' = FALSE
    /\ owner' = task.n
    /\ UNCHANGED <<task, fresh, events>>

\* init dies between the archive and the state: the archive stays.
InitDies ==
    /\ task.n > 0 /\ Recorded /\ ~NothingToLose(delivery)
    /\ Len(archives) < MaxResets /\ events < MaxEvents
    /\ archives' = Archived(delivery)
    /\ events' = events + 1
    /\ starting' = FALSE
    /\ UNCHANGED <<task, delivery, fresh, owner>>

(***************************************************************************)
(* The commands between the resets, and what they add to the receipts.     *)
(***************************************************************************)
\* execution_gate
Gate == task.n > 0 /\ task.accepted

Step(from, receipts, to) ==
    /\ Recorded /\ Gate
    /\ delivery.status = from
    /\ delivery' = [delivery EXCEPT !.has = @ \cup receipts, !.status = to]
    /\ UNCHANGED <<task, starting, archives, events, owner>>

RecordArtifact == Step("awaiting_artifact", {"artifact"}, "awaiting_test") /\ UNCHANGED fresh

\* The branch to production is taken by the state's own environment, not the task's.
AcceptTest ==
    /\ Step("awaiting_test", {"test"},
            IF delivery.env = "production" THEN "awaiting_provider_preflight" ELSE "ready_to_promote")
    /\ UNCHANGED fresh

RecordPreflight ==
    /\ Step("awaiting_provider_preflight", {"preflight"}, "awaiting_production_approval")
    /\ task.target.env = "production"
    /\ fresh' = TRUE

\* reverify_provider_preflight: against the task's target, and fresh where it must be.
PreflightHolds(mustBeFresh) == task.target.env = "production" /\ (mustBeFresh => fresh)

\* The signed decision names the task.
Approve ==
    /\ Recorded /\ Gate /\ delivery.status = "awaiting_production_approval"
    /\ PreflightHolds(TRUE)
    /\ delivery' = [delivery EXCEPT !.has = @ \cup {"approval"}, !.status = "ready_to_promote",
                                    !.approvedIn = task.n]
    /\ UNCHANGED <<task, starting, archives, fresh, events, owner>>

Authorized == "approval" \in delivery.has /\ delivery.approvedIn = task.n

Promote(passed) ==
    /\ Recorded /\ Gate /\ delivery.status = "ready_to_promote"
    /\ delivery.env = "production" => Authorized /\ PreflightHolds(TRUE)
    /\ delivery' = [delivery EXCEPT
          !.has = @ \cup (IF passed THEN {"attempt", "promotion"} ELSE {"attempt"}),
          !.passed = passed,
          !.status = IF passed THEN "promoted" ELSE "rollback_required"]
    /\ UNCHANGED <<task, starting, archives, fresh, events, owner>>

Rollback ==
    /\ Recorded /\ delivery.status \in {"promoted", "rollback_required"}
    /\ Step(delivery.status, {"rollback"}, "rolled_back")
    /\ UNCHANGED fresh

(***************************************************************************)
(* The task, the clock and what goes wrong.                                *)
(***************************************************************************)
BeginTask(t) ==
    /\ task.n < MaxStarts /\ ~starting
    /\ task' = [n |-> task.n + 1, target |-> t, accepted |-> FALSE]
    /\ starting' = TRUE
    /\ UNCHANGED <<delivery, archives, fresh, events, owner>>

AcceptNode7 ==
    /\ task.n > 0 /\ ~task.accepted
    /\ task' = [task EXCEPT !.accepted = TRUE]
    /\ UNCHANGED <<starting, delivery, archives, fresh, events, owner>>

Happens ==
    \/ /\ starting                                  \* start dies before init
       /\ starting' = FALSE
       /\ UNCHANGED <<task, delivery, fresh>>
    \/ /\ task.accepted                             \* a return to an earlier node
       /\ task' = [task EXCEPT !.accepted = FALSE]
       /\ UNCHANGED <<starting, delivery, fresh>>
    \/ /\ fresh                                     \* the preflight grows old
       /\ fresh' = FALSE
       /\ UNCHANGED <<task, starting, delivery>>
    \/ /\ Recorded                                  \* the file is spoilt
       /\ delivery' = Garbage
       /\ UNCHANGED <<task, starting, fresh>>

Event ==
    /\ events < MaxEvents
    /\ events' = events + 1
    /\ Happens
    /\ UNCHANGED <<archives, owner>>

DeliveryNext ==
    \/ InitDelivery \/ InitDies
    \/ RecordArtifact \/ AcceptTest \/ RecordPreflight \/ Approve
    \/ \E passed \in BOOLEAN : Promote(passed)
    \/ Rollback
    \/ \E t \in Targets : BeginTask(t)
    \/ AcceptNode7 \/ Event

DeliverySpec == DeliveryInit /\ [][DeliveryNext]_deliveryVars

(***************************************************************************)
(* What command_validate asks of the state, the digests apart.             *)
(***************************************************************************)
Production == {"preflight", "approval"}
Wanted(d) ==
    CASE d.status \in {"not_requested", "awaiting_artifact"} -> {}
      [] d.status = "awaiting_test" -> {"artifact"}
      [] d.status = "awaiting_provider_preflight" -> {"artifact", "test"}
      [] d.status = "awaiting_production_approval" -> {"artifact", "test", "preflight"}
      [] d.status = "ready_to_promote" -> {"artifact", "test"}
      [] d.status = "promoted" -> {"artifact", "test", "attempt", "promotion"}
      [] d.status = "rollback_required" -> {"artifact", "test", "attempt"}
      [] d.status = "rolled_back" -> {"artifact", "test", "attempt", "rollback"}

\* A deployment that succeeded and was rolled back keeps its promotion receipt; from
\* the approval on, a state of production has both of its gates and no other has one.
Attested(d) ==
    LET gated == d.status \in {"ready_to_promote", "promoted", "rollback_required", "rolled_back"}
    IN  d.has = Wanted(d)
                \cup (IF gated /\ d.env = "production" THEN Production ELSE {})
                \cup (IF d.status = "rolled_back" /\ d.passed THEN {"promotion"} ELSE {})

Valid(d) ==
    /\ ChainVerifies(d)
    /\ [env |-> d.env, requested |-> d.requested] = task.target
    /\ ~d.requested <=> d.status = "not_requested"
    /\ Attested(d)
    /\ d.status \in {"awaiting_provider_preflight", "awaiting_production_approval"} =>
          d.env = "production"
    /\ "preflight" \in d.has =>
          PreflightHolds(d.status \in {"awaiting_production_approval", "ready_to_promote"})
    /\ "approval" \in d.has => d.approvedIn = task.n
    /\ "attempt" \in d.has =>
          /\ d.status = "promoted" => d.passed
          /\ d.status = "rollback_required" => ~d.passed
    /\ "promotion" \in d.has => d.passed

(***************************************************************************)
(* Properties                                                              *)
(***************************************************************************)
DeliveryTyped ==
    /\ task \in [n : 0..MaxStarts, target : Targets, accepted : BOOLEAN]
    /\ starting \in BOOLEAN /\ fresh \in BOOLEAN
    /\ events \in 0..MaxEvents /\ owner \in 0..task.n
    /\ archives \in Seq(States) /\ Len(archives) <= MaxResets
    /\ Recorded => delivery \in States

\* The waits of a preflight that may grow old.
Waiting == delivery.status \in {"awaiting_production_approval", "ready_to_promote"}

\* Every state the commands and the resets lead to in a task, after any archive that was
\* lost half way, any spoilt file and any earlier task's chain, is one command_validate
\* accepts: a command never writes what wedges route-resume ("with no in-band recovery",
\* deliveryctl.py:635), as long as its preflight is fresh.
StatesValidate ==
    Recorded /\ owner = task.n /\ (Waiting /\ "preflight" \in delivery.has => fresh) =>
        Valid(delivery)
=============================================================================
