----------------------------- MODULE Supervisor -----------------------------
(***************************************************************************)
(* The supervisor over a whole graph: its start and stop waves, the verbs  *)
(* of the application and of the control interface, and the bind driver    *)
(* that follows the readiness of bound dependencies, all interleaved with  *)
(* the tasks of the nodes.                                                 *)
(*                                                                         *)
(* run() polls two drivers in one task: "ctl" executes the commands,       *)
(* "bind" executes apply_bind.  They alternate at awaits only.  Tasks run  *)
(* on any executor, so they may step between any two steps of a driver.    *)
(* One step here is one store sequence of module Handshake (a reset with   *)
(* its spawn, an ack, an exit); every node is a `task:` node, whose shell  *)
(* stays resident.                                                         *)
(*                                                                         *)
(* Time is abstracted to which budgets are spent: drv[d].due.              *)
(***************************************************************************)
EXTENDS Naturals, Sequences, SequencesExt

CONSTANTS
    Node,
    Mode,           \* [Node -> {"Terminate", "Pause", "OnDemand"}]
    Deps,           \* [Node -> SUBSET Node], the rows of the Topology
    ReadyDeps,      \* the deps marked `ready`
    BoundDeps,      \* the deps marked `ready bound`
    Order,          \* the topological order, a sequence of all nodes
    Drains,         \* [Node -> SUBSET Node]: whose exit a node's shutdown awaits
    Asserts,        \* the nodes that assert readiness
    Flaps,          \* those that also withdraw it
    Quits,          \* the nodes whose worker may return by itself
    Late,           \* the nodes whose ack or gate budget may run out
    Members,        \* the members of the graph's elastic pool, if it has one
    Verbs,          \* the verbs the application uses
    Targets,        \* the nodes it names in them
    MaxCalls        \* bound on the number of verbs called

ASSUME GraphAssumption ==
    /\ Mode \in [Node -> {"Terminate", "Pause", "OnDemand"}]
    /\ Deps \in [Node -> SUBSET Node]
    /\ ReadyDeps \in [Node -> SUBSET Node]
    /\ BoundDeps \in [Node -> SUBSET Node]
    /\ \A n \in Node : BoundDeps[n] \subseteq ReadyDeps[n]
    /\ \A n \in Node : ReadyDeps[n] \subseteq Deps[n]
    /\ Order \in Seq(Node)
    /\ \A n \in Node : \E i \in 1..Len(Order) : Order[i] = n
    /\ \A i, j \in 1..Len(Order) : Order[i] = Order[j] => i = j
    /\ \A i \in 1..Len(Order) :
          Deps[Order[i]] \subseteq {Order[j] : j \in 1..(i - 1)}
    /\ Drains \in [Node -> SUBSET Node]
    /\ Asserts \subseteq Node /\ Flaps \subseteq Asserts
    /\ Quits \subseteq Node /\ Late \subseteq Node
    /\ Members \subseteq Node /\ Targets \subseteq Node
    /\ MaxCalls \in Nat

Driver == {"ctl", "bind"}

Flag == {"SHUTDOWN", "DROPPED", "RUNNING", "COMPLETED", "DISABLED", "READY",
         "BOUND_STOPPED", "COLLATERAL", "BUSY"}

VARIABLES
    flag,       \* [Node -> SUBSET Flag]
    inst,       \* [Node -> Instance], where the node's shell is
    resume,     \* the nodes whose resume_wake is latched
    evt,        \* the latched global signals: STOP_EVT, GATE_EVT,
                \* BIND_REQ, SCALE_REQ
    run,        \* run() is in its drivers
    drv,        \* [Driver -> what the driver is doing]
    calls       \* verbs called so far

vars == <<flag, inst, resume, evt, run, drv, calls>>

\* "unborn": never spawned; "idle": the shell waits for a start; "parked": a
\* Pause worker in wait_resume; "ending": exited, but the shell is not idle yet.
Instance == {"unborn", "idle", "live", "parked", "ending"}

Await == {"idle", "stop_wait", "ack_wait", "start_wait", "ready_wait",
          "settle_wait"}

\* set: the nodes a restart cycles.  left: the nodes a wave has not resolved.
\* mark: those whose budget is counting; due: those whose budget is spent.
\* k: the cursor in Order.
Idle == [pc |-> "idle", verb |-> "none", set |-> {}, left |-> {},
         mark |-> {}, due |-> {}, err |-> FALSE, k |-> 1,
         prog |-> FALSE, wait |-> FALSE]

Has(n, f) == f \in flag[n]
Running(n) == Has(n, "RUNNING")
Held(n) == Has(n, "DISABLED") \/ Has(n, "COLLATERAL")
IsServing(n) == Running(n) /\ Has(n, "READY")

\* Faulty variant: an exit is taken for a parked instance.
HasDropped(n) == Has(n, "DROPPED")
HasAckedStop(n) == Has(n, "DROPPED") /\ ~Has(n, "COMPLETED")
IsSettled(n) == inst[n] \in {"unborn", "idle"}

Init ==
    /\ flag = [n \in Node |-> {}]
    /\ inst = [n \in Node |-> "unborn"]
    /\ resume = {}
    /\ evt = {}
    /\ run = FALSE
    /\ drv = [d \in Driver |-> Idle]
    /\ calls = 0

\* Only one driver is between two awaits: they share one task.
MayRun(d) == \A e \in Driver \ {d} : drv[e].pc \in Await

Put(d, r) == drv' = [drv EXCEPT ![d] = r]

\* run() returns: both of its drivers are dropped where they stand.
EndRun == run' = FALSE /\ drv' = [d \in Driver |-> Idle]

----------------------------------------------------------------------------
(* What a driver does to one node.                                         *)

ResetMask == {"SHUTDOWN", "DROPPED", "COMPLETED", "READY", "BUSY"}

\* Faulty variant: the manual-start override clears the hold at the spawn.
LaunchClearingHold(n) ==
    /\ inst' = [inst EXCEPT ![n] = "live"]
    /\ resume' = IF inst[n] = "idle" THEN resume \ {n} ELSE resume
    /\ flag' = [flag EXCEPT ![n] =
          (@ \ (ResetMask \union {"BOUND_STOPPED", "COLLATERAL"})) \union {"RUNNING"}]

\* reset, the spawn (which wakes an idle shell through resume_wake: the shell
\* consumes whatever was latched), set_running(true).
Launch(n) ==
    /\ inst' = [inst EXCEPT ![n] = "live"]
    /\ resume' = IF inst[n] = "idle" THEN resume \ {n} ELSE resume
    /\ flag' = [flag EXCEPT ![n] =
          (@ \ (ResetMask \union {"BOUND_STOPPED"})) \union {"RUNNING"}]

\* reset, signal_resume, set_running(true) on every node of S.
Resume(S, cleared) ==
    /\ flag' = [n \in Node |->
          IF n \in S THEN (flag[n] \ (ResetMask \union cleared)) \union {"RUNNING"}
          ELSE flag[n]]
    /\ resume' = resume \union S
    /\ UNCHANGED inst

HasDepIn(n, S) == Deps[n] \intersect S # {}

\* The first of the nodes in S, as Order lists them.
FirstOf(S) == SelectSeq(Order, LAMBDA n : n \in S)[1]

\* The next cursor position at a node of S; past the end when there is none.
CursorAt(k, S) ==
    LET at == {i \in k..Len(Order) : Order[i] \in S}
    IN  IF at = {} THEN Len(Order) + 1 ELSE CHOOSE i \in at : \A j \in at : i <= j

----------------------------------------------------------------------------
(* The sets the verbs work on.                                             *)

\* A command to a member is a command to its whole pool.
Seed(t) == IF t \in Members THEN Members ELSE {t}

CollectDependents(seed) ==
    FoldLeft(LAMBDA S, n : IF HasDepIn(n, S) THEN S \union {n} ELSE S,
             seed, Order)

CollectDeps(seed) ==
    FoldLeft(LAMBDA S, n : IF n \in S THEN S \union Deps[n] ELSE S,
             seed, Reverse(Order))

\* Faulty variant: activate reads the latches before it clears its own.
HeldBelowStale(disabled) ==
    CollectDependents({n \in Node : Has(n, "DISABLED")})

\* activate: the disabled nodes and everything that depends on one.
HeldBelow(disabled) == CollectDependents(disabled)

\* apply_bind: the running nodes with a bound dep that does not serve, or is
\* about to be stopped itself.
BoundStopping ==
    FoldLeft(LAMBDA S, n :
                IF Running(n)
                   /\ \E d \in BoundDeps[n] : ~IsServing(d) \/ d \in S
                THEN S \union {n} ELSE S,
             {}, Order)

\* apply_bind: the nodes it may bring back now.
Rebindable ==
    {n \in Node : /\ Has(n, "BOUND_STOPPED") /\ ~Held(n) /\ ~Running(n)
                  /\ \A d \in BoundDeps[n] : IsServing(d)}

----------------------------------------------------------------------------
(* The verbs.  Each selects its nodes and enters its first wave.           *)

StopRec(verb, set, chosen) ==
    [Idle EXCEPT !.pc = "stop", !.verb = verb, !.set = set, !.left = chosen]

StartRec(verb, set, chosen) ==
    [Idle EXCEPT !.pc = "start", !.verb = verb, !.set = set, !.left = chosen]

\* request_scale, which only the pool driver of a graph with a pool listens to,
\* and notify_bind, on which apply_bind acts only where there are bound deps.
ScaleReq == IF Members = {} THEN {} ELSE {"SCALE_REQ"}
BindReq == IF \A n \in Node : BoundDeps[n] = {} THEN {} ELSE {"BIND_REQ"}

\* A command drops the future of run_pools at whatever await it has reached.
Call(verb) ==
    /\ verb \in Verbs
    /\ calls < MaxCalls
    /\ calls' = calls + 1
    /\ \/ drv["ctl"].pc = "idle"
       \/ drv["ctl"].verb = "pool" /\ drv["ctl"].pc \in Await
    /\ MayRun("ctl")

\* start(), by itself or as the first half of run().
Start ==
    /\ ~run
    /\ \E v \in {"start", "run"} :
          /\ Call(v)
          /\ Put("ctl", StartRec(v, {},
                {n \in Node : Mode[n] # "OnDemand" /\ ~Held(n) /\ ~Running(n)}))
    /\ UNCHANGED <<flag, inst, resume, evt, run>>

Teardown ==
    /\ ~run
    /\ \E v \in {"teardown", "teardown_continue"} :
          Call(v) /\ Put("ctl", StopRec(v, {}, {n \in Node : Running(n)}))
    /\ UNCHANGED <<flag, inst, resume, evt, run>>

RespawnTerminate ==
    /\ Call("respawn_terminate") /\ ~run
    /\ Put("ctl", StartRec("respawn_terminate", {},
          {n \in Node : Mode[n] = "Terminate" /\ ~Held(n) /\ ~Running(n)}))
    /\ UNCHANGED <<flag, inst, resume, evt, run>>

\* Synchronous; resume_node is the same on one node.
ResumePausable ==
    /\ Call("resume_pausable") /\ ~run
    /\ Resume({n \in Node :
          Mode[n] = "Pause" /\ ~Held(n) /\ HasAckedStop(n)}, {})
    /\ UNCHANGED <<evt, run, drv>>

\* start_node() and stop_node(), by an application that uses them as the pool
\* driver of module Pool does: to start nodes that are down and not held.
StartNode(n) ==
    /\ Call("start_node") /\ ~run
    /\ ~Running(n) /\ ~Held(n)
    /\ Put("ctl", [Idle EXCEPT !.pc = "ready", !.verb = "start_node",
                               !.set = {n}, !.left = ReadyDeps[n]])
    /\ UNCHANGED <<flag, inst, resume, evt, run>>

StopNode(n) ==
    /\ Call("stop_node") /\ ~run
    /\ Running(n)
    /\ flag' = [flag EXCEPT ![n] = @ \union {"SHUTDOWN"}]
    /\ Put("ctl", [Idle EXCEPT !.pc = "ack_wait", !.verb = "stop_node",
                               !.left = {n}, !.mark = {n}])
    /\ UNCHANGED <<inst, resume, evt, run>>

\* The application drops the future of run() at one of its awaits.
LeaveRun ==
    /\ run /\ "leave" \in Verbs
    /\ calls < MaxCalls /\ calls' = calls + 1
    /\ \A d \in Driver : drv[d].pc \in Await
    /\ EndRun
    /\ UNCHANGED <<flag, inst, resume, evt>>

\* The target is latched DISABLED, its dependents COLLATERAL, running or not;
\* the running ones are stopped.
Deactivate(t) ==
    LET set == CollectDependents(Seed(t)) IN
    /\ Call("deactivate") /\ run
    /\ flag' = [n \in Node |->
          flag[n] \union (IF n \in Seed(t) THEN {"DISABLED"}
                          ELSE IF n \in set THEN {"COLLATERAL"} ELSE {})]
    /\ Put("ctl", StopRec("deactivate", {}, {n \in set : Running(n)}))
    /\ UNCHANGED <<inst, resume, evt, run>>

\* Clears DISABLED on the target and its dependencies, and COLLATERAL where no
\* disabled dependency is left, then starts both groups.
Activate(t) ==
    LET set == CollectDeps(Seed(t))
        disabled == {n \in Node : Has(n, "DISABLED")} \ set
        blocked == {n \in Node : HasDepIn(n, HeldBelow(disabled))}
        revive == {n \in Node : Has(n, "COLLATERAL")} \ blocked
        after(n) == flag[n] \ ((IF n \in set THEN {"DISABLED"} ELSE {})
                          \union (IF n \in revive THEN {"COLLATERAL"} ELSE {}))
    IN
    /\ Call("activate") /\ run
    /\ flag' = [n \in Node |-> after(n)]
    /\ Put("ctl", StartRec("activate", {},
          {n \in set \union (revive \ disabled) :
              ~Running(n) /\ "COLLATERAL" \notin after(n) /\ Mode[n] # "OnDemand"}))
    /\ UNCHANGED <<inst, resume, evt, run>>

Restart(t) ==
    LET set == CollectDependents(Seed(t)) IN
    /\ Call("restart") /\ run
    /\ Put("ctl", StopRec("restart", set, {n \in set : Running(n)}))
    /\ UNCHANGED <<flag, inst, resume, evt, run>>

\* run_binds: one BIND_REQ, one apply_bind.
ApplyBind ==
    /\ run /\ MayRun("bind")
    /\ drv["bind"].pc = "idle"
    /\ "BIND_REQ" \in evt
    /\ evt' = evt \ {"BIND_REQ"}
    /\ flag' = [n \in Node |->
          IF n \in BoundStopping THEN flag[n] \union {"BOUND_STOPPED"} ELSE flag[n]]
    /\ Put("bind", StopRec("bind", {}, BoundStopping))
    /\ UNCHANGED <<inst, resume, run, calls>>

----------------------------------------------------------------------------
(* How a wave returns to its verb.                                         *)

\* Faulty variant: restart's up half forgets the holds.
StopDoneIgnoringHolds(d) ==
    /\ UNCHANGED run
    /\ Put(d,
         CASE drv[d].verb = "restart" ->
                StartRec("restart", drv[d].set,
                   {n \in drv[d].set : ~Running(n) /\ Mode[n] # "OnDemand"})
           [] drv[d].verb = "bind" ->
                [Idle EXCEPT !.pc = "rebind", !.verb = "bind"]
           [] OTHER -> Idle)

\* Faulty variant: restart's up half respawns only Terminate nodes.
StopDoneTerminateOnly(d) ==
    /\ UNCHANGED run
    /\ Put(d,
         CASE drv[d].verb = "restart" ->
                StartRec("restart", drv[d].set,
                   {n \in drv[d].set :
                       ~Held(n) /\ ~Running(n) /\ Mode[n] = "Terminate"})
           [] drv[d].verb = "bind" ->
                [Idle EXCEPT !.pc = "rebind", !.verb = "bind"]
           [] OTHER -> Idle)

\* restart goes on to its up half, apply_bind to the nodes to bring back.
StopDone(d) ==
    /\ UNCHANGED run
    /\ Put(d,
         CASE drv[d].verb = "restart" ->
                StartRec("restart", drv[d].set,
                   {n \in drv[d].set :
                       ~Held(n) /\ ~Running(n) /\ Mode[n] # "OnDemand"})
           [] drv[d].verb = "bind" ->
                [Idle EXCEPT !.pc = "rebind", !.verb = "bind"]
           [] OTHER -> Idle)

\* A missed ack ends run(); outside run() it is returned to the application.
StopFailed(d) ==
    IF run THEN EndRun ELSE Put(d, Idle) /\ UNCHANGED run

\* run() goes on to its drivers; the fault of an activate ends run(), that of
\* a restart is absorbed.  Both of them request a scaling decision.
StartDone(d, err) ==
    /\ evt' = IF drv[d].verb \in {"activate", "restart"}
              THEN evt \union ScaleReq ELSE evt
    /\ IF drv[d].verb = "run" THEN Put(d, Idle) /\ run' = ~err
       ELSE IF err /\ drv[d].verb = "activate" THEN EndRun
       ELSE Put(d, Idle) /\ UNCHANGED run

\* start_node returns; apply_bind only warns of its fault and continues.
StartNodeDone(d) ==
    /\ Put(d, IF d = "bind"
              THEN [Idle EXCEPT !.pc = "rebind", !.verb = "bind", !.k = drv[d].k]
              ELSE Idle)
    /\ UNCHANGED run

KeepsGoing(verb) == verb \in {"teardown_continue", "activate"}

----------------------------------------------------------------------------
(* The stop wave.                                                          *)

\* Faulty variant: everything is signalled up front.
HeldNever(j, left) == FALSE

\* Faulty variant: one node is signalled at a time, in reverse order.
HeldSerially(j, left) ==
    \E i, k \in 1..Len(Order) : i < k /\ Order[i] = j /\ Order[k] \in left

\* Held by a dependent that stops in this wave and has not resolved.
HeldInWave(j, left) == \E k \in left : j \in Deps[k]

\* One round: signal what nothing holds, collect the acks, then the missed
\* deadlines, and wait when there was neither.
StopRound(d) ==
    LET r == drv[d]
        sent == r.mark \union {j \in r.left : ~HeldInWave(j, r.left)}
        acked == {j \in r.left : Has(j, "DROPPED")}
        late == IF acked = {} THEN sent \intersect r.due ELSE {}
        left == r.left \ (acked \union late)
        abort == late # {} /\ ~KeepsGoing(r.verb)
    IN
    /\ r.pc = "stop" /\ MayRun(d)
    /\ flag' = [n \in Node |->
          (flag[n] \union (IF n \in sent \ r.mark THEN {"SHUTDOWN"} ELSE {}))
             \ (IF n \in acked THEN {"RUNNING"} ELSE {})]
    /\ \/ abort /\ StopFailed(d)
       \/ ~abort /\ left = {} /\ StopDone(d)
       \/ ~abort /\ left # {} /\ UNCHANGED run
          /\ Put(d, [r EXCEPT !.left = left, !.mark = sent \intersect left,
                              !.due = r.due \intersect left,
                              !.pc = IF acked = {} /\ late = {}
                                     THEN "stop_wait" ELSE "stop"])
    /\ UNCHANGED <<inst, resume, evt, calls>>

\* STOP_EVT is one signal for all waves: the one that polls first consumes it.
StopWake(d) ==
    /\ drv[d].pc = "stop_wait" /\ MayRun(d)
    /\ \/ "STOP_EVT" \in evt /\ evt' = evt \ {"STOP_EVT"}
       \/ drv[d].due # {} /\ UNCHANGED evt
    /\ drv' = [drv EXCEPT ![d].pc = "stop"]
    /\ UNCHANGED <<flag, inst, resume, run, calls>>

\* stop_node waits on the node's own dropped_wake.
AwaitAck(d) ==
    /\ drv[d].pc = "ack_wait" /\ MayRun(d)
    /\ \E n \in drv[d].left :
          \/ /\ Has(n, "DROPPED")
             /\ flag' = [flag EXCEPT ![n] = @ \ {"RUNNING"}]
             /\ Put(d, Idle) /\ UNCHANGED run
          \/ /\ ~Has(n, "DROPPED") /\ n \in drv[d].due
             /\ StopFailed(d) /\ UNCHANGED flag
    /\ UNCHANGED <<inst, resume, evt, calls>>

\* A budget that is counting down runs out.
Deadline(d) ==
    /\ drv[d].pc \in Await
    /\ \E n \in (drv[d].mark \ drv[d].due) \intersect Late :
          drv' = [drv EXCEPT ![d].due = @ \union {n}]
    /\ UNCHANGED <<flag, inst, resume, evt, run, calls>>

----------------------------------------------------------------------------
(* The start wave: rounds over the pending nodes, in topological order.    *)

Cursor(d) == CursorAt(drv[d].k, drv[d].left)

\* The wave is at node n, and no dependency of n is pending.
Visits(d, n) ==
    /\ drv[d].pc = "start" /\ MayRun(d)
    /\ Cursor(d) <= Len(Order)
    /\ n = Order[Cursor(d)]
    /\ ~HasDepIn(n, drv[d].left)
    /\ UNCHANGED calls

\* n leaves the wave: started, parked or faulted.
Resolve(d, n, err) ==
    Put(d, [drv[d] EXCEPT !.left = @ \ {n}, !.mark = @ \ {n}, !.due = @ \ {n},
                          !.err = @ \/ err, !.prog = TRUE, !.k = Cursor(d) + 1])

Unready(n) == {m \in ReadyDeps[n] : ~Has(m, "READY")}

\* Decided when the budget of n starts, and only then.
ResumesInPlace(d, n) ==
    n \notin drv[d].mark /\ Mode[n] = "Pause" /\ HasAckedStop(n)

VisitDeferred(d) ==
    /\ drv[d].pc = "start" /\ MayRun(d)
    /\ Cursor(d) <= Len(Order)
    /\ HasDepIn(Order[Cursor(d)], drv[d].left)
    /\ Put(d, [drv[d] EXCEPT !.wait = TRUE, !.k = Cursor(d) + 1])
    /\ UNCHANGED <<flag, inst, resume, evt, run, calls>>

VisitResumes(d) == \E n \in Node :
    /\ Visits(d, n) /\ ResumesInPlace(d, n)
    /\ Resume({n}, {"BOUND_STOPPED"})
    /\ Resolve(d, n, FALSE)
    /\ UNCHANGED <<evt, run>>

VisitSpawns(d) == \E n \in Node :
    /\ Visits(d, n) /\ ~ResumesInPlace(d, n)
    /\ Unready(n) = {} /\ IsSettled(n)
    /\ Launch(n)
    /\ Resolve(d, n, FALSE)
    /\ UNCHANGED <<evt, run>>

\* The first gate that is not satisfied defers n to the next round ...
VisitWaits(d) == \E n \in Node :
    /\ Visits(d, n) /\ ~ResumesInPlace(d, n)
    /\ Unready(n) # {} \/ ~IsSettled(n)
    /\ n \notin drv[d].due
    /\ Put(d, [drv[d] EXCEPT !.mark = @ \union {n}, !.wait = TRUE,
                             !.k = Cursor(d) + 1])
    /\ UNCHANGED <<flag, inst, resume, evt, run>>

\* ... and once its budget is spent parks it, if the gate is a bound dep ...
VisitParks(d) == \E n \in Node :
    /\ Visits(d, n) /\ ~ResumesInPlace(d, n)
    /\ n \in drv[d].due
    /\ Unready(n) # {} /\ FirstOf(Unready(n)) \in BoundDeps[n]
    /\ flag' = [flag EXCEPT ![n] = @ \union {"BOUND_STOPPED"}]
    /\ Resolve(d, n, FALSE)
    /\ UNCHANGED <<inst, resume, evt, run>>

\* ... or faults it, which aborts the wave unless it keeps going.
VisitFaults(d) == \E n \in Node :
    /\ Visits(d, n) /\ ~ResumesInPlace(d, n)
    /\ n \in drv[d].due
    /\ \/ Unready(n) # {} /\ FirstOf(Unready(n)) \notin BoundDeps[n]
       \/ Unready(n) = {} /\ ~IsSettled(n)
    /\ IF KeepsGoing(drv[d].verb)
       THEN Resolve(d, n, TRUE) /\ UNCHANGED <<evt, run>>
       ELSE StartDone(d, TRUE)
    /\ UNCHANGED <<flag, inst, resume>>

\* The end of a round: done, another round, or wait for a gate event.
EndRound(d) ==
    LET r == drv[d] IN
    /\ r.pc = "start" /\ MayRun(d)
    /\ Cursor(d) > Len(Order)
    /\ IF ~r.wait THEN StartDone(d, r.err)
       ELSE /\ Put(d, [r EXCEPT !.pc = IF r.prog THEN "start" ELSE "start_wait",
                                !.k = 1, !.prog = FALSE, !.wait = FALSE])
            /\ UNCHANGED <<evt, run>>
    /\ UNCHANGED <<flag, inst, resume, calls>>

StartWake(d) ==
    /\ drv[d].pc = "start_wait" /\ MayRun(d)
    /\ \/ "GATE_EVT" \in evt /\ evt' = evt \ {"GATE_EVT"}
       \/ drv[d].due # {} /\ UNCHANGED evt
    /\ drv' = [drv EXCEPT ![d].pc = "start"]
    /\ UNCHANGED <<flag, inst, resume, run, calls>>

StartWave(d) ==
    \/ VisitDeferred(d) \/ VisitResumes(d) \/ VisitSpawns(d) \/ VisitWaits(d)
    \/ VisitParks(d) \/ VisitFaults(d) \/ EndRound(d) \/ StartWake(d)

----------------------------------------------------------------------------
(* start_node on the node of drv[d].set, for a verb or for apply_bind: the *)
(* ready deps one after the other, each with a budget of its own, then the *)
(* shell.                                                                  *)

Starting(d, pcs, n) ==
    /\ drv[d].pc \in pcs /\ MayRun(d)
    /\ n \in drv[d].set
    /\ UNCHANGED <<evt, calls>>

AwaitReadyDep(d) == \E n \in Node :
    LET first == FirstOf(drv[d].left) IN
    /\ Starting(d, {"ready", "ready_wait"}, n) /\ drv[d].left # {}
    /\ \/ /\ Has(first, "READY")
          /\ Put(d, [drv[d] EXCEPT !.pc = "ready", !.left = @ \ {first},
                                   !.mark = {}, !.due = {}])
          /\ UNCHANGED <<flag, run>>
       \/ /\ ~Has(first, "READY") /\ drv[d].pc = "ready"
          /\ Put(d, [drv[d] EXCEPT !.pc = "ready_wait", !.mark = {n}])
          /\ UNCHANGED <<flag, run>>
       \/ /\ ~Has(first, "READY") /\ n \in drv[d].due
          /\ flag' = [flag EXCEPT ![n] =
                IF first \in BoundDeps[n] THEN @ \union {"BOUND_STOPPED"} ELSE @]
          /\ StartNodeDone(d)
    /\ UNCHANGED <<inst, resume>>

\* spawn_settled: wait for the shell, by GATE_EVT, then spawn.
SpawnSettled(d) == \E n \in Node :
    /\ drv[d].left = {}
    /\ Starting(d, {"ready", "settle"}, n)
    /\ \/ IsSettled(n) /\ Launch(n) /\ StartNodeDone(d)
       \/ /\ ~IsSettled(n) /\ n \notin drv[d].due
          /\ Put(d, [drv[d] EXCEPT !.pc = "settle_wait", !.mark = {n}])
          /\ UNCHANGED <<flag, inst, resume, run>>
       \/ /\ ~IsSettled(n) /\ n \in drv[d].due
          /\ StartNodeDone(d)
          /\ UNCHANGED <<flag, inst, resume>>

SettleWake(d) ==
    /\ drv[d].pc = "settle_wait" /\ MayRun(d)
    /\ \/ "GATE_EVT" \in evt /\ evt' = evt \ {"GATE_EVT"}
       \/ drv[d].due # {} /\ UNCHANGED evt
    /\ drv' = [drv EXCEPT ![d].pc = "settle"]
    /\ UNCHANGED <<flag, inst, resume, run, calls>>

\* The second half of apply_bind: bring the bound-stopped nodes back.  A
\* Terminate node goes through start_node, which first clears COLLATERAL.
Rebind ==
    LET r == drv["bind"]
        i == CursorAt(r.k, Rebindable)
    IN
    /\ r.pc = "rebind" /\ MayRun("bind")
    /\ IF i > Len(Order)
       THEN Put("bind", Idle) /\ UNCHANGED <<flag, inst, resume, evt>>
       ELSE LET n == Order[i] IN
            \/ /\ Mode[n] = "Terminate"
               /\ Put("bind", [r EXCEPT !.pc = "ready", !.set = {n},
                                        !.left = ReadyDeps[n], !.k = i + 1])
               /\ flag' = [flag EXCEPT ![n] = @ \ {"COLLATERAL"}]
               /\ UNCHANGED <<inst, resume, evt>>
            \/ /\ Mode[n] = "Pause"
               /\ Put("bind", [r EXCEPT !.k = i + 1])
               /\ Resume({n}, {"BOUND_STOPPED"})
               /\ UNCHANGED evt
            \/ /\ Mode[n] = "OnDemand"
               /\ Put("bind", [r EXCEPT !.k = i + 1])
               /\ flag' = [flag EXCEPT ![n] = @ \ {"BOUND_STOPPED"}]
               /\ evt' = evt \union ScaleReq
               /\ UNCHANGED <<inst, resume>>
    /\ UNCHANGED <<run, calls>>

----------------------------------------------------------------------------
(* The tasks.                                                              *)

Drained(n) == \A m \in Drains[n] : inst[m] # "live"

Signal(S) == evt' = evt \union S

TaskStep == UNCHANGED <<run, drv, calls>>

\* Faulty variant: the exit does not raise STOP_EVT.
ExitUnannounced(n) ==
    /\ inst[n] = "live"
    /\ n \in Quits \/ (Mode[n] # "Pause" /\ Has(n, "SHUTDOWN") /\ Drained(n))
    /\ inst' = [inst EXCEPT ![n] = "ending"]
    /\ flag' = [flag EXCEPT ![n] = (@ \ {"RUNNING"}) \union {"COMPLETED", "DROPPED"}]
    /\ Signal(BindReq)
    /\ TaskStep /\ UNCHANGED resume

\* mark_exited: the worker returned, by itself or told to.
Exit(n) ==
    /\ inst[n] = "live"
    /\ n \in Quits \/ (Mode[n] # "Pause" /\ Has(n, "SHUTDOWN") /\ Drained(n))
    /\ inst' = [inst EXCEPT ![n] = "ending"]
    /\ flag' = [flag EXCEPT ![n] = (@ \ {"RUNNING"}) \union {"COMPLETED", "DROPPED"}]
    /\ Signal({"STOP_EVT"} \union BindReq)
    /\ TaskStep /\ UNCHANGED resume

\* run_pausable: ack_dropped, then wait_resume.
Pause(n) ==
    /\ inst[n] = "live"
    /\ Mode[n] = "Pause" /\ Has(n, "SHUTDOWN") /\ Drained(n)
    /\ inst' = [inst EXCEPT ![n] = "parked"]
    /\ flag' = [flag EXCEPT ![n] = (@ \ {"RUNNING"}) \union {"DROPPED"}]
    /\ Signal({"STOP_EVT"} \union BindReq)
    /\ TaskStep /\ UNCHANGED resume

WaitResume(n) ==
    /\ inst[n] = "parked" /\ n \in resume
    /\ inst' = [inst EXCEPT ![n] = "live"]
    /\ resume' = resume \ {n}
    /\ TaskStep /\ UNCHANGED <<flag, evt>>

\* __sv_park: IDLE, the gate event, and a wait that consumes a stale latch.
Park(n) ==
    /\ inst[n] = "ending"
    /\ inst' = [inst EXCEPT ![n] = "idle"]
    /\ resume' = resume \ {n}
    /\ Signal({"GATE_EVT"})
    /\ TaskStep /\ UNCHANGED flag

\* Faulty variant: set_ready does not notify the bind driver.
SetReadyUnnoticed(n) ==
    /\ inst[n] = "live" /\ n \in Asserts /\ ~Has(n, "READY")
    /\ flag' = [flag EXCEPT ![n] = @ \union {"READY"}]
    /\ Signal({"GATE_EVT"})
    /\ TaskStep /\ UNCHANGED <<inst, resume>>

SetReady(n) ==
    /\ inst[n] = "live" /\ n \in Asserts /\ ~Has(n, "READY")
    /\ flag' = [flag EXCEPT ![n] = @ \union {"READY"}]
    /\ Signal({"GATE_EVT"} \union BindReq \union ScaleReq)
    /\ TaskStep /\ UNCHANGED <<inst, resume>>

ClearReady(n) ==
    /\ inst[n] = "live" /\ n \in Flaps /\ Has(n, "READY")
    /\ flag' = [flag EXCEPT ![n] = @ \ {"READY"}]
    /\ Signal(BindReq)
    /\ TaskStep /\ UNCHANGED <<inst, resume>>

Task(n) ==
    \/ Exit(n) \/ Pause(n) \/ WaitResume(n) \/ Park(n)
    \/ SetReady(n) \/ ClearReady(n)

----------------------------------------------------------------------------

\* A step of driver d inside a verb.
Drive(d) ==
    \/ StopRound(d) \/ StopWake(d) \/ AwaitAck(d) \/ StartWave(d)
    \/ AwaitReadyDep(d) \/ SpawnSettled(d) \/ SettleWake(d)

Verb ==
    \/ Start \/ Teardown \/ RespawnTerminate \/ ResumePausable \/ LeaveRun
    \/ \E n \in Targets : Deactivate(n) \/ Activate(n) \/ Restart(n)
                          \/ StartNode(n) \/ StopNode(n)

Next ==
    \/ Verb
    \/ \E d \in Driver : Drive(d) \/ Deadline(d)
    \/ ApplyBind \/ Rebind
    \/ \E n \in Node : Task(n)

\* The executor polls every woken task in turn, and run() polls both drivers
\* each time it is woken.  Deadlines, the verbs and the readiness a task
\* withdraws are not forced, and a worker need not return by itself; a
\* supervised task does race its work against shutdown, and a task that
\* asserts readiness gets to do so.
TaskFairness(n) ==
    /\ WF_vars(Exit(n) /\ Has(n, "SHUTDOWN")) /\ WF_vars(Pause(n))
    /\ WF_vars(WaitResume(n)) /\ WF_vars(Park(n)) /\ WF_vars(SetReady(n))

Fairness ==
    /\ \A d \in Driver : SF_vars(Drive(d))
    /\ SF_vars(ApplyBind \/ Rebind)
    /\ \A n \in Node : TaskFairness(n)

Spec == Init /\ [][Next]_vars /\ Fairness

----------------------------------------------------------------------------
(* Properties.                                                             *)

Pc == Await \union {"stop", "start", "ready", "settle", "rebind"}

TypeOK ==
    /\ flag \in [Node -> SUBSET Flag]
    /\ inst \in [Node -> Instance]
    /\ resume \subseteq Node
    /\ evt \subseteq {"STOP_EVT", "GATE_EVT", "BIND_REQ", "SCALE_REQ"}
    /\ run \in BOOLEAN
    /\ drv \in [Driver ->
          [pc : Pc, verb : Verbs \union {"none", "bind", "pool"}, set : SUBSET Node,
           left : SUBSET Node, mark : SUBSET Node, due : SUBSET Node,
           err : BOOLEAN, k : 1..(Len(Order) + 1), prog : BOOLEAN,
           wait : BOOLEAN]]
    /\ calls \in 0..MaxCalls

\* A node that reads as running has an instance, or one about to resume.
RunningHasInstance ==
    \A n \in Node : Running(n) =>
        inst[n] = "live" \/ (inst[n] = "parked" /\ n \in resume)

\* "deactivate marks only its seed as DISABLED; dependents are marked
\* COLLATERAL ... activate clears COLLATERAL once no disabled node remains in
\* the node's transitive dependencies": a collateral node has a cause ...
CollateralHasCause ==
    \A n \in Node : Has(n, "COLLATERAL") =>
        \E m \in CollectDeps({n}) : m # n /\ Has(m, "DISABLED")

\* ... and a disabled node holds everything above it, whatever starts are in
\* flight (the contract of tests/collateral_race.rs).
HoldReachesDependents ==
    \A n \in Node : Has(n, "DISABLED") =>
        \A m \in CollectDependents({n}) : Held(m)

\* "The node did not acknowledge a requested shutdown within its ack window":
\* when a wave's budget for a node runs out, that request is still standing.
TimeoutIsGenuine ==
    [][\A d \in Driver : drv[d].pc = "stop_wait" =>
          \A n \in drv'[d].due \ drv[d].due : Has(n, "SHUTDOWN")]_vars

\* A stop wave that waits has no unseen ack: "re-runs the scan on each ack".
ScanOnEachAck ==
    \A d \in Driver : \A n \in drv[d].mark :
        drv[d].pc = "stop_wait" /\ Has(n, "DROPPED") => "STOP_EVT" \in evt

\* A node is told to stop only when no dependent of it is live, in every verb
\* that stops a node together with its dependents: it serves through their
\* cleanup.
ServesThroughCleanup ==
    [][\A n \in Node :
          /\ "SHUTDOWN" \notin flag[n] /\ "SHUTDOWN" \in flag'[n]
          /\ drv["ctl"].verb \in {"deactivate", "restart", "teardown"}
          => \A m \in Node : n \in Deps[m] => inst[m] # "live"]_vars

\* A held node is not brought up: "every bring-up path honors it".
HeldStaysDown ==
    [][\A n \in Node : Held(n)' /\ Running(n)' => Running(n)]_vars

\* A restart that ends without a fault leaves every node it cycled up, unless
\* the node is held, belongs to a pool, exited again or awaits a bound dep.
RestartBringsBack ==
    [][(drv["ctl"].verb = "restart" /\ drv["ctl"].pc = "start"
          /\ Cursor("ctl") > Len(Order) /\ drv'["ctl"].pc = "idle")
       => \A n \in drv["ctl"].set :
             \/ Running(n) \/ Held(n) \/ Mode[n] = "OnDemand"
             \/ Has(n, "COMPLETED") \/ Has(n, "BOUND_STOPPED")]_vars

\* Every wave ends, by acks and gate events alone: no deadline is needed, and
\* a producer that drains an unordered consumer does not deadlock the wave.
WavesEnd ==
    drv["ctl"].pc # "idle" /\ drv["ctl"].verb # "start_node"
    ~> drv["ctl"].pc = "idle"

\* No budget is spent, and the two drivers are not in a stop wave at once.
Uncontended ==
    /\ \A d \in Driver : drv[d].due = {}
    /\ \E d \in Driver : drv[d].pc \notin {"stop", "stop_wait"}

\* "A bound stop must not survive the provider's recovery": a node stopped by
\* the bind driver, and not held, is not left down while every provider it is
\* bound to serves.
BoundStopLifts ==
    []Uncontended =>
        \A n \in Node :
            ~<>[](/\ run /\ Has(n, "BOUND_STOPPED") /\ ~Held(n)
                  /\ \A d \in BoundDeps[n] : IsServing(d))
=============================================================================
