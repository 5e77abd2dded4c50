------------------------------- MODULE Budget -------------------------------
(***************************************************************************)
(* A divisible resource: a Budget with its claimant slots, the holders and *)
(* the supervisor that state and release demands, the provider of the      *)
(* capacity, the allocator that re-divides it (FairShare or                *)
(* ShrinkFastGrowSlow), and one holder parked on its grant.  All of them   *)
(* may run on cores of their own: a load, a store and a signal are steps.  *)
(***************************************************************************)
EXTENDS Naturals, FiniteSets, Functions

CONSTANTS
    BSlots,     \* N, the number of claimant slots
    Wants,      \* the demands a holder may state
    Capacities, \* the capacities a provider may state (0 empties the budget)
    GrowStep,   \* ShrinkFastGrowSlow::step
    MaxCalls    \* bound: calls on the budget

ASSUME BudgetAssumption ==
    /\ {BSlots, GrowStep} \subseteq Nat \ {0} /\ MaxCalls \in Nat
    /\ Wants \subseteq Nat /\ Capacities \subseteq Nat

BSlot == 1..BSlots
None == [i \in BSlot |-> 0]

VARIABLES
    policy,     \* "fair" or "slow"
    capacity,   \* Budget::capacity
    wants,      \* Budget::wants
    grants,     \* Budget::grants
    watch,      \* Budget::watch is latched
    user,       \* per slot, the call in flight on it: "none", "signal", "zero"
    provider,   \* the provider's call in flight: "none", "zero", "wake", "signal"
    zeroing,    \* the next slot a clear empties
    alloc,      \* where the allocator is
    snap,       \* what rebalance read, capacity and wants, and its division
    publish,    \* the next slot it publishes
    timer,      \* it is to run again when the ramp is due
    due,        \* ... and it is due
    waiter,     \* slot 1's holder in wait_grant_change
    seen1,      \* the grant it has seen
    registered, \* claimants[1] holds its waker
    bcalls,     \* bound: calls so far
    quietZero   \* history: slot 1's grant was last zeroed by a release

budgetVars == <<policy, capacity, wants, grants, watch, user, provider, zeroing,
                alloc, snap, publish, timer, due, waiter, seen1, registered,
                bcalls, quietZero>>

Unread == [capacity |-> 0, wants |-> None, division |-> None]

----------------------------------------------------------------------------
(* The policies.                                                           *)

Total(f) == FoldFunction(+, 0, f)

\* Faulty variant: what the division leaves over goes to every slot that is
\* short of its want.
TargetsRoundedUp(c, w) ==
    IF Total(w) <= c THEN w
    ELSE [i \in BSlot |-> LET f == (c * w[i]) \div Total(w)
                          IN  IF f < w[i] /\ c > 0 THEN f + 1 ELSE f]

\* FairShare::targets: in proportion, the remainder one unit at a time to the
\* lowest slots that are short of their want.
Targets(c, w) ==
    IF Total(w) <= c THEN w
    ELSE LET floor == [i \in BSlot |-> (c * w[i]) \div Total(w)]
             left  == c - Total(floor)
             short(i) == Cardinality({j \in 1..i : floor[j] < w[j]})
         IN  [i \in BSlot |->
                IF floor[i] < w[i] /\ short(i) <= left
                THEN floor[i] + 1 ELSE floor[i]]

\* ShrinkFastGrowSlow::divide: cuts at once, raises by a step when due.
Ramped(t, g, isDue) ==
    [i \in BSlot |->
        IF t[i] <= g[i] THEN t[i]
        ELSE IF ~isDue THEN g[i]
        ELSE IF g[i] + GrowStep < t[i] THEN g[i] + GrowStep ELSE t[i]]

----------------------------------------------------------------------------

\* The capacity is main's, or the allocator node's to provide.  The parked
\* holder is looked at under FairShare only (bound).
BudgetInit ==
    /\ policy \in {"fair", "slow"}
    /\ capacity \in Capacities /\ wants = None /\ grants = None /\ watch = FALSE
    /\ user = [i \in BSlot |-> "none"]
    /\ provider = "none" /\ zeroing = 1
    /\ alloc = "wait" /\ publish = 1
    /\ snap = Unread
    /\ timer = FALSE /\ due = TRUE
    /\ waiter = (IF policy = "fair" THEN "off" ELSE "none")
    /\ seen1 = 0 /\ registered = FALSE
    /\ bcalls = 0 /\ quietZero = FALSE

AllocKept == UNCHANGED <<policy, alloc, snap, publish, timer, due>>
WaiterKept == UNCHANGED <<waiter, seen1, registered>>

(* The holders, and the supervisor when a holder stops or misses its ack.  *)

UserGo(i, from, to) ==
    /\ user[i] = from
    /\ user' = [user EXCEPT ![i] = to]
    /\ UNCHANGED <<capacity, provider, zeroing>> /\ AllocKept /\ WaiterKept

Want(i, n) ==
    /\ bcalls < MaxCalls
    /\ UserGo(i, "none", "signal")
    /\ wants' = [wants EXCEPT ![i] = n]
    /\ bcalls' = bcalls + 1
    /\ UNCHANGED <<grants, watch, quietZero>>

\* release: the demand, the grant, the signal.
Release(i) ==
    /\ bcalls < MaxCalls
    /\ UserGo(i, "none", "zero")
    /\ wants' = [wants EXCEPT ![i] = 0]
    /\ bcalls' = bcalls + 1
    /\ UNCHANGED <<grants, watch, quietZero>>

ReleaseGrant(i) ==
    /\ UserGo(i, "zero", "signal")
    /\ grants' = [grants EXCEPT ![i] = 0]
    /\ quietZero' = (quietZero \/ (i = 1 /\ grants[i] # 0))
    /\ UNCHANGED <<wants, watch, bcalls>>

UserSignal(i) ==
    /\ UserGo(i, "signal", "none")
    /\ watch' = TRUE
    /\ UNCHANGED <<wants, grants, bcalls, quietZero>>

----------------------------------------------------------------------------
(* The provider: provide, and clear when the node that provides stops.     *)

ProviderGo(from, to) ==
    /\ provider = from
    /\ provider' = to
    /\ UNCHANGED <<wants, user>> /\ AllocKept

ProvideCapacity(c) ==
    /\ c > 0 /\ bcalls < MaxCalls
    /\ ProviderGo("none", "signal")
    /\ capacity' = c /\ bcalls' = bcalls + 1
    /\ UNCHANGED <<grants, watch, zeroing, quietZero>> /\ WaiterKept

Clear ==
    /\ 0 \in Capacities /\ bcalls < MaxCalls
    /\ ProviderGo("none", "zero")
    /\ capacity' = 0 /\ bcalls' = bcalls + 1 /\ zeroing' = 1
    /\ UNCHANGED <<grants, watch, quietZero>> /\ WaiterKept

ClearGrant ==
    /\ ProviderGo("zero", IF zeroing = BSlots THEN "wake" ELSE "zero")
    /\ grants' = [grants EXCEPT ![zeroing] = 0]
    /\ zeroing' = IF zeroing = BSlots THEN 1 ELSE zeroing + 1
    /\ UNCHANGED <<capacity, watch, bcalls, quietZero>> /\ WaiterKept

\* A registered waker is taken and its task polled again.
WakeClaimant ==
    /\ waiter' = IF registered /\ waiter = "park" THEN "check" ELSE waiter
    /\ registered' = FALSE
    /\ UNCHANGED seen1

ClearWakes ==
    /\ ProviderGo("wake", "signal")
    /\ WakeClaimant
    /\ UNCHANGED <<capacity, grants, watch, zeroing, bcalls, quietZero>>

ProviderSignal ==
    /\ ProviderGo("signal", "none")
    /\ watch' = TRUE
    /\ UNCHANGED <<capacity, grants, zeroing, bcalls, quietZero>> /\ WaiterKept

----------------------------------------------------------------------------
(* The allocator: rebalance on every change, and when the ramp is due.     *)

AllocGo(from, to) ==
    /\ alloc = from
    /\ alloc' = to
    /\ UNCHANGED <<policy, capacity, wants, user, provider, zeroing, bcalls>>

WaitChange ==
    /\ AllocGo("wait", "cap")
    /\ watch \/ (timer /\ due)
    /\ watch' = FALSE
    /\ UNCHANGED <<grants, snap, publish, timer, due, quietZero>> /\ WaiterKept

ReadCapacity ==
    /\ AllocGo("cap", "wants")
    /\ snap' = [snap EXCEPT !.capacity = capacity]
    /\ UNCHANGED <<grants, watch, publish, timer, due, quietZero>> /\ WaiterKept

ReadWants ==
    /\ AllocGo("wants", "grants")
    /\ snap' = [snap EXCEPT !.wants = wants]
    /\ UNCHANGED <<grants, watch, publish, timer, due, quietZero>> /\ WaiterKept

\* The grants are read and divided; a ramp that is not done sets its timer.
Divide ==
    LET t == Targets(snap.capacity, snap.wants)
        d == IF policy = "fair" THEN t ELSE Ramped(t, grants, due \/ ~timer)
    IN
    /\ AllocGo("grants", "publish")
    /\ snap' = [snap EXCEPT !.division = d]
    /\ publish' = 1
    /\ timer' = \E i \in BSlot : d[i] < t[i]
    /\ due' = IF due \/ ~timer THEN FALSE ELSE due
    /\ UNCHANGED <<grants, watch, quietZero>> /\ WaiterKept

\* Faulty variant: the holder whose grant moved is not woken.
PublishSilently ==
    /\ AllocGo("publish", IF publish = BSlots THEN "stale" ELSE "publish")
    /\ grants' = [grants EXCEPT ![publish] = snap.division[publish]]
    /\ publish' = IF publish = BSlots THEN 1 ELSE publish + 1
    /\ UNCHANGED <<watch, snap, timer, due, quietZero>> /\ WaiterKept

\* A slot is swapped, and its holder woken if that moved it.
Publish ==
    /\ AllocGo("publish", IF publish = BSlots THEN "stale" ELSE "publish")
    /\ grants' = [grants EXCEPT ![publish] = snap.division[publish]]
    /\ publish' = IF publish = BSlots THEN 1 ELSE publish + 1
    /\ IF publish = 1 /\ grants[1] # snap.division[1]
       THEN WakeClaimant /\ quietZero' = FALSE
       ELSE WaiterKept /\ UNCHANGED quietZero
    /\ UNCHANGED <<watch, snap, timer, due>>

\* What was read has changed meanwhile: look again.
CheckStale ==
    /\ AllocGo("stale", "wait")
    /\ watch' = (watch \/ capacity # snap.capacity \/ wants # snap.wants)
    /\ snap' = Unread
    /\ UNCHANGED <<grants, publish, timer, due, quietZero>> /\ WaiterKept

RampDue ==
    /\ timer /\ ~due
    /\ due' = TRUE
    /\ UNCHANGED <<policy, capacity, wants, grants, watch, user, provider,
                   zeroing, alloc, snap, publish, timer, bcalls, quietZero>>
    /\ WaiterKept

Allocator == WaitChange \/ ReadCapacity \/ ReadWants \/ Divide \/ Publish \/ CheckStale

----------------------------------------------------------------------------
(* wait_grant_change on slot 1: check, register, recheck, park.            *)

WaiterGo(from, to) ==
    /\ waiter = from
    /\ waiter' = to
    /\ UNCHANGED <<policy, capacity, wants, grants, watch, user, provider,
                   zeroing, alloc, snap, publish, timer, due, bcalls>>

WaitGrant ==
    /\ WaiterGo("off", "check")
    /\ seen1' = grants[1] /\ quietZero' = FALSE
    /\ UNCHANGED registered

CheckGrant ==
    /\ WaiterGo("check", IF grants[1] # seen1 THEN "off" ELSE "register")
    /\ UNCHANGED <<seen1, registered, quietZero>>

RegisterGrant ==
    /\ WaiterGo("register", "recheck")
    /\ registered' = TRUE
    /\ UNCHANGED <<seen1, quietZero>>

RecheckGrant ==
    /\ WaiterGo("recheck", IF grants[1] # seen1 THEN "off"
                           ELSE IF registered THEN "park" ELSE "check")
    /\ UNCHANGED <<seen1, registered, quietZero>>

Waiter == WaitGrant \/ CheckGrant \/ RegisterGrant \/ RecheckGrant

----------------------------------------------------------------------------

BudgetNext ==
    \/ \E i \in BSlot : \/ \E n \in Wants : Want(i, n)
                        \/ Release(i) \/ ReleaseGrant(i) \/ UserSignal(i)
    \/ \E c \in Capacities : ProvideCapacity(c)
    \/ Clear \/ ClearGrant \/ ClearWakes \/ ProviderSignal
    \/ Allocator \/ RampDue \/ Waiter

BudgetSpec ==
    /\ BudgetInit /\ [][BudgetNext]_budgetVars

BudgetTypeOK ==
    /\ policy \in {"fair", "slow"}
    /\ capacity \in Capacities \union {0}
    /\ wants \in [BSlot -> Wants \union {0}] /\ grants \in [BSlot -> Nat]
    /\ {watch, timer, due, registered, quietZero} \subseteq BOOLEAN
    /\ user \in [BSlot -> {"none", "signal", "zero"}]
    /\ provider \in {"none", "zero", "wake", "signal"}
    /\ alloc \in {"wait", "cap", "wants", "grants", "publish", "stale"}
    /\ waiter \in {"none", "off", "check", "register", "recheck", "park"}
    /\ bcalls \in 0..MaxCalls

Quiescent ==
    /\ alloc = "wait" /\ ~watch /\ ~timer /\ provider = "none"
    /\ \A i \in BSlot : user[i] = "none"

\* Whatever demands, releases and capacity changes overlapped the division,
\* once everything is quiet the grants are the policy's division of the
\* present wants, and fit the capacity: no share is stranded with a holder
\* that stopped and none is given twice.
BudgetSettled ==
    Quiescent => grants = Targets(capacity, wants) /\ Total(grants) <= capacity

\* No lost wake-up: a holder parked on a grant that moved is about to be woken,
\* by the clear that is under way.  A release zeroes a grant without a wake,
\* and is excepted.
GrantIsSeen ==
    waiter = "park" /\ grants[1] # seen1 /\ ~quietZero =>
        provider \in {"zero", "wake"}
=============================================================================
