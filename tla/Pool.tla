-------------------------------- MODULE Pool --------------------------------
(***************************************************************************)
(* The elastic pool: run_pools and the policy DeferredShrink, on top of    *)
(* the supervisor that executes their decisions.                           *)
(*                                                                         *)
(* run_pools shares the "ctl" driver with the commands: while no command   *)
(* is executed its future waits for SCALE_REQ or for the deadline of the   *)
(* policy, or is inside the start_node or stop_node it decided on (verb    *)
(* "pool").  A command drops it wherever it waits, and a new one begins,   *)
(* with a decision, when the command is done.                              *)
(*                                                                         *)
(* Time is counted in ticks, of which the cooldown lasts Cooldown.         *)
(***************************************************************************)
EXTENDS Supervisor, FiniteSets

CONSTANTS
    PoolMin,        \* the pool's bounds
    PoolMax,
    Cooldown        \* of DeferredShrink

ASSUME PoolAssumption ==
    /\ PoolMin \in Nat /\ PoolMax \in Nat /\ PoolMin <= PoolMax
    /\ Cooldown \in Nat

VARIABLES
    pending,    \* the policy's deadline, in ticks from now: {} or a singleton
    fresh,      \* run_pools has just begun
    since,      \* history: ticks since the pool started or stopped a member,
                \* up to Cooldown
    gone        \* history: the nodes that left since the pool decided on the
                \* start or stop it is in

pvars == <<flag, inst, resume, evt, run, drv, calls, pending, fresh, since, gone>>

PoolInit ==
    /\ Init
    /\ pending = {}
    /\ fresh = FALSE
    /\ since = 0
    /\ gone = {}

----------------------------------------------------------------------------
(* What the policy sees.                                                   *)

RunningMembers == {n \in Members : Running(n)}
IdleMembers == {n \in RunningMembers : ~Has(n, "BUSY")}

Saturated == IdleMembers = {} /\ Cardinality(RunningMembers) < PoolMax

Surplus ==
    Cardinality(IdleMembers) >= 2 /\ Cardinality(RunningMembers) > PoolMin

Candidates ==
    {n \in Members : Mode[n] = "OnDemand" /\ ~Running(n) /\ ~Held(n)}

Victims ==
    {n \in Members : Mode[n] = "OnDemand" /\ Running(n) /\ ~Has(n, "BUSY")}

\* Faulty variant: only the readiness of the dependencies is asked for.
DepsReady(n) == \A d \in ReadyDeps[n] : Has(d, "READY")

\* deps_running and ready_deps_ok.
DepsUp(n) ==
    /\ \A d \in Deps[n] : Running(d)
    /\ \A d \in ReadyDeps[n] : Has(d, "READY")

\* The member a Grow starts: the first candidate, or none.
Startable == {n \in Candidates : n = FirstOf(Candidates) /\ DepsUp(n)}

----------------------------------------------------------------------------
(* run_pools.                                                              *)

\* Faulty variant: the policy's deadline wakes nobody.
WokenByRequest == fresh \/ "SCALE_REQ" \in evt

Woken == fresh \/ "SCALE_REQ" \in evt \/ 0 \in pending

\* One turn of the loop: a decision is due.
Evaluate ==
    /\ run /\ drv["ctl"].pc = "idle" /\ MayRun("ctl")
    /\ Woken
    /\ fresh' = FALSE
    /\ evt' = IF fresh THEN evt ELSE evt \ {"SCALE_REQ"}
    /\ gone' = {}
    /\ UNCHANGED <<inst, resume, run, calls>>

\* Faulty variant: a start leaves the deadline of the last surplus.
GrowKeepingDeadline ==
    /\ Evaluate /\ Saturated
    /\ UNCHANGED <<flag, pending>>
    /\ \/ \E n \in Startable :
             /\ since' = 0
             /\ Put("ctl", [Idle EXCEPT !.pc = "ready", !.verb = "pool",
                                        !.set = {n}, !.left = ReadyDeps[n]])
       \/ Startable = {} /\ UNCHANGED <<drv, since>>

\* Faulty variant: the pool is filled up to its minimum only.
GrowToMin ==
    /\ Evaluate /\ Saturated
    /\ pending' = {}
    /\ UNCHANGED flag
    /\ \/ \E n \in Startable :
             /\ Cardinality(RunningMembers) < PoolMin
             /\ since' = 0
             /\ Put("ctl", [Idle EXCEPT !.pc = "ready", !.verb = "pool",
                                        !.set = {n}, !.left = ReadyDeps[n]])
       \/ /\ Startable = {} \/ Cardinality(RunningMembers) >= PoolMin
          /\ UNCHANGED <<drv, since>>

\* No idle member, and room for one: start the first that may be started,
\* unless its dependencies are not up.
Grow ==
    /\ Evaluate /\ Saturated
    /\ pending' = {}
    /\ UNCHANGED flag
    /\ \/ \E n \in Startable :
             /\ since' = 0
             /\ Put("ctl", [Idle EXCEPT !.pc = "ready", !.verb = "pool",
                                        !.set = {n}, !.left = ReadyDeps[n]])
       \/ Startable = {} /\ UNCHANGED <<drv, since>>

\* A surplus is noted with a deadline, and left alone until it has passed.
Defer ==
    /\ Evaluate /\ Surplus
    /\ 0 \notin pending
    /\ pending' = IF pending = {} THEN {Cooldown} ELSE pending
    /\ UNCHANGED <<flag, drv, since>>

\* Then the first idle member goes, and what is left of a larger surplus gets
\* a deadline of its own.
Shrink ==
    /\ Evaluate /\ Surplus
    /\ 0 \in pending
    /\ pending' = IF Cardinality(IdleMembers) >= 3 THEN {Cooldown} ELSE {}
    /\ \/ \E n \in Victims :
             /\ n = FirstOf(Victims)
             /\ since' = 0
             /\ flag' = [flag EXCEPT ![n] = @ \union {"SHUTDOWN"}]
             /\ Put("ctl", [Idle EXCEPT !.pc = "ack_wait", !.verb = "pool",
                                        !.left = {n}, !.mark = {n}])
       \/ Victims = {} /\ UNCHANGED <<flag, drv, since>>

\* Neither: the surplus is over.
Settle ==
    /\ Evaluate /\ ~Saturated /\ ~Surplus
    /\ pending' = {}
    /\ UNCHANGED <<flag, drv, since>>

RunPools == Grow \/ Defer \/ Shrink \/ Settle

----------------------------------------------------------------------------
(* The workers, the clock and the rest of the supervisor.                  *)

MarkBusy(n) ==
    /\ inst[n] = "live" /\ ~Has(n, "BUSY")
    /\ flag' = [flag EXCEPT ![n] = @ \union {"BUSY"}]
    /\ Signal({"SCALE_REQ"})
    /\ TaskStep /\ UNCHANGED <<inst, resume, pending, fresh, since, gone>>

MarkIdle(n) ==
    /\ inst[n] = "live" /\ Has(n, "BUSY")
    /\ flag' = [flag EXCEPT ![n] = @ \ {"BUSY"}]
    /\ Signal({"SCALE_REQ"})
    /\ TaskStep /\ UNCHANGED <<inst, resume, pending, fresh, since, gone>>

Tick ==
    /\ since < Cooldown \/ \E t \in pending : t > 0
    /\ pending' = {IF t > 0 THEN t - 1 ELSE 0 : t \in pending}
    /\ since' = IF since < Cooldown THEN since + 1 ELSE since
    /\ UNCHANGED <<flag, inst, resume, evt, run, drv, calls, fresh, gone>>

\* The bring-up of run(), or a command, is over.
CommandDone ==
    drv["ctl"].verb \notin {"none", "pool"} /\ drv'["ctl"].pc = "idle"

\* The instances that exit or park in this step.
Leaving == {n \in Node : inst[n] = "live" /\ inst'[n] \in {"ending", "parked"}}

SupervisorStep ==
    /\ Next
    /\ fresh' = (run' /\ (fresh \/ CommandDone))
    /\ gone' = IF drv'["ctl"].verb = "pool" THEN gone \union Leaving ELSE {}
    /\ UNCHANGED <<pending, since>>

PoolNext ==
    \/ SupervisorStep
    \/ RunPools
    \/ Tick
    \/ \E n \in Members : MarkBusy(n) \/ MarkIdle(n)

\* As in Supervisor; time passes, and no worker has to change its load.
PoolSpec ==
    /\ PoolInit /\ [][PoolNext]_pvars
    /\ Fairness
    /\ SF_pvars(RunPools) /\ WF_pvars(Tick)

----------------------------------------------------------------------------
(* Properties.                                                             *)

\* In particular the deadline is never further away than one cooldown.
PoolTypeOK ==
    /\ TypeOK
    /\ pending \in {{}} \union {{t} : t \in 0..Cooldown}
    /\ fresh \in BOOLEAN
    /\ since \in 0..Cooldown
    /\ gone \subseteq Node

\* The pool driver launches the member it decided to start.
Launches(n) ==
    /\ drv["ctl"].verb = "pool" /\ n \in drv["ctl"].set
    /\ drv'["ctl"] # drv["ctl"] /\ ~Running(n) /\ Running(n)'

\* "A member is never grown while one of its declared dependencies is down":
\* they were up at the decision, and no command gets in between.  Only a
\* dependency that left by itself since, to obey an earlier request or because
\* its work was done, may be down at the launch.
GrowsOverRunningDeps ==
    [][\A n \in Members : Launches(n) =>
          \A d \in Deps[n] : Running(d) \/ d \in gone]_pvars

\* "Shrinks only after an idle surplus has persisted for a configurable
\* cooldown - responsive up, lazy down": no member is told to stop sooner than
\* that after the pool's last start or stop, whatever drops run_pools.
ShrinksLazily ==
    [][/\ drv["ctl"].verb # "pool"
       /\ drv'["ctl"].verb = "pool" /\ drv'["ctl"].pc = "ack_wait"
       => since = Cooldown]_pvars

\* There is demand and a member that may meet it.
CanGrow == run /\ Saturated /\ Startable # {}

\* A request for a decision is not lost with a dropped run_pools: standing
\* demand that was announced is met.
RequestServed == ("SCALE_REQ" \in evt /\ CanGrow) ~> ~CanGrow

\* A surplus that could shrink does not stand: the deadline survives the
\* futures that wait for it.
SurplusDrains == ~<>[](run /\ Surplus /\ Victims # {})

\* "An elastic pool must regrow on its own once its provider recovers".
RegrowsOnItsOwn == ~<>[]CanGrow
=============================================================================
