----------------------------- MODULE PoolProofs -----------------------------
(***************************************************************************)
(* The elastic pool, on every graph and with every command: it grows over  *)
(* dependencies that were up when it decided, and shrinks no sooner than a *)
(* cooldown after its last start or stop.                                  *)
(***************************************************************************)
EXTENDS Pool, SupervisorProofs

----------------------------------------------------------------------------
(* Only run_pools puts the control driver into a start or stop of its own. *)

\* The next record r of the control driver is the pool's only if q was.
PoolsOwn(r, q) ==
    r.verb = "pool" => q.verb = "pool" /\ r.set = q.set /\ (r.pc = "idle" => q.pc = "idle")

StaysPool == PoolsOwn(drv'["ctl"], drv["ctl"])

\* One driver's record.
LEMMA PutPool ==
    ASSUME Types, NEW d \in Driver, NEW r, Put(d, r), d = "ctl" => PoolsOwn(r, drv["ctl"])
    PROVE  StaysPool
BY DEF StaysPool, PoolsOwn, Put, Types, DrvOK, Driver

\* A record that keeps its verb and its nodes.
LEMMA PutSame ==
    ASSUME Types, NEW d \in Driver, NEW r, Put(d, r), r.verb = drv[d].verb, r.set = drv[d].set,
           r.pc = "idle" => drv[d].pc = "idle"
    PROVE  StaysPool
BY PutPool DEF PoolsOwn

\* A record of another verb.
LEMMA PutOther ==
    ASSUME Types, NEW d \in Driver, NEW r, Put(d, r), r.verb # "pool"
    PROVE  StaysPool
BY PutPool DEF PoolsOwn

\* An idle driver, and the return of run().
LEMMA PutIdle ==
    ASSUME Types, NEW d \in Driver, Put(d, Idle) \/ EndRun
    PROVE  StaysPool
<1>1. Idle.verb = "none"
    BY DEF Idle
<1>2. CASE EndRun
    BY <1>1, <1>2 DEF EndRun, StaysPool, PoolsOwn, Driver
<1>. QED BY <1>1, <1>2, PutOther

\* What is not changed.
LEMMA SamePool == ASSUME UNCHANGED drv PROVE StaysPool
BY DEF StaysPool, PoolsOwn

\* The records the verbs begin with.
LEMMA RecVerbs ==
    \A v, a, b : StartRec(v, a, b).verb = v /\ StopRec(v, a, b).verb = v
BY DEF StartRec, StopRec, Idle

\* A stop wave's round, and stop_node.
LEMMA StopPool ==
    ASSUME Types, NEW d \in Driver, StopRound(d) \/ StopWake(d) \/ AwaitAck(d)
    PROVE  StaysPool
<1>0. drv[d] \in DriverState
    BY DEF Types, DrvOK
<1>1. ASSUME StopDone(d) PROVE StaysPool
    <2>. DEFINE S == {n \in drv[d].set : ~Held(n) /\ ~Running(n) /\ Mode[n] # "OnDemand"}
    <2>1. \/ Put(d, StartRec("restart", drv[d].set, S))
          \/ Put(d, [Idle EXCEPT !.pc = "rebind", !.verb = "bind"])
          \/ Put(d, Idle)
        BY <1>1 DEF StopDone
    <2>2. [Idle EXCEPT !.pc = "rebind", !.verb = "bind"].verb = "bind"
        BY DEF Idle
    <2>. HIDE DEF S
    <2>. QED BY <2>1, <2>2, RecVerbs, PutOther, PutIdle
<1>2. ASSUME StopFailed(d) PROVE StaysPool
    BY <1>2, PutIdle DEF StopFailed
<1>3. CASE StopRound(d)
    <2>. DEFINE r == drv[d]
                sent == r.mark \union {j \in r.left : ~HeldInWave(j, r.left)}
                acked == {j \in r.left : Has(j, "DROPPED")}
                late == IF acked = {} THEN sent \intersect r.due ELSE {}
                left == r.left \ (acked \union late)
                q == [r EXCEPT !.left = left, !.mark = sent \intersect left,
                              !.due = r.due \intersect left,
                              !.pc = IF acked = {} /\ late = {}
                                     THEN "stop_wait" ELSE "stop"]
    <2>1. StopFailed(d) \/ StopDone(d) \/ Put(d, q)
        BY <1>3 DEF StopRound
    <2>2. q.verb = drv[d].verb /\ q.set = drv[d].set /\ (q.pc = "idle" => drv[d].pc = "idle")
        <3>. HIDE DEF left, sent, late, acked
        <3>. QED BY <1>0 DEF DriverState
    <2>. HIDE DEF q
    <2>. QED BY <1>1, <1>2, <2>1, <2>2, PutSame
<1>4. CASE StopWake(d)
    <2>. DEFINE q == [drv[d] EXCEPT !.pc = "stop"]
    <2>1. Put(d, q)
        BY <1>4 DEF StopWake, Put, Types, DrvOK
    <2>2. q.verb = drv[d].verb /\ q.set = drv[d].set /\ (q.pc = "idle" => drv[d].pc = "idle")
        BY <1>0 DEF DriverState
    <2>. HIDE DEF q
    <2>. QED BY <2>1, <2>2, PutSame
<1>5. CASE AwaitAck(d)
    BY <1>2, <1>5, PutIdle DEF AwaitAck
<1>. QED BY <1>3, <1>4, <1>5

\* The start wave.
LEMMA StartPool ==
    ASSUME Types, NEW d \in Driver, StartWave(d)
    PROVE  StaysPool
<1>0. drv[d] \in DriverState
    BY DEF Types, DrvOK
<1>1. ASSUME NEW err, StartDone(d, err) PROVE StaysPool
    BY <1>1, PutIdle DEF StartDone
<1>2. ASSUME NEW n, NEW err, Resolve(d, n, err) PROVE StaysPool
    <2>. DEFINE q == [drv[d] EXCEPT !.left = @ \ {n}, !.mark = @ \ {n}, !.due = @ \ {n},
                          !.err = @ \/ err, !.prog = TRUE, !.k = Cursor(d) + 1]
    <2>1. q.verb = drv[d].verb /\ q.set = drv[d].set /\ (q.pc = "idle" => drv[d].pc = "idle")
        BY <1>0 DEF DriverState
    <2>2. Put(d, q)
        BY <1>2 DEF Resolve
    <2>. HIDE DEF q
    <2>. QED BY <2>1, <2>2, PutSame
<1>3. CASE VisitDeferred(d)
    <2>. DEFINE q == [drv[d] EXCEPT !.wait = TRUE, !.k = Cursor(d) + 1]
    <2>1. q.verb = drv[d].verb /\ q.set = drv[d].set /\ (q.pc = "idle" => drv[d].pc = "idle")
        BY <1>0 DEF DriverState
    <2>2. Put(d, q)
        BY <1>3 DEF VisitDeferred
    <2>. HIDE DEF q
    <2>. QED BY <2>1, <2>2, PutSame
<1>4. CASE VisitResumes(d) \/ VisitSpawns(d) \/ VisitParks(d) \/ VisitFaults(d)
    BY <1>1, <1>2, <1>4 DEF VisitResumes, VisitSpawns, VisitParks, VisitFaults
<1>5. CASE VisitWaits(d)
    <2>1. PICK n \in Node : Put(d, [drv[d] EXCEPT !.mark = @ \union {n}, !.wait = TRUE,
                             !.k = Cursor(d) + 1])
        BY <1>5 DEF VisitWaits
    <2>. DEFINE q == [drv[d] EXCEPT !.mark = @ \union {n}, !.wait = TRUE, !.k = Cursor(d) + 1]
    <2>2. q.verb = drv[d].verb /\ q.set = drv[d].set /\ (q.pc = "idle" => drv[d].pc = "idle")
        BY <1>0 DEF DriverState
    <2>3. Put(d, q)
        BY <2>1
    <2>. HIDE DEF q
    <2>. QED BY <2>2, <2>3, PutSame
<1>6. CASE EndRound(d)
    <2>. DEFINE q == [drv[d] EXCEPT !.pc = IF drv[d].prog THEN "start" ELSE "start_wait",
                                !.k = 1, !.prog = FALSE, !.wait = FALSE]
    <2>1. q.verb = drv[d].verb /\ q.set = drv[d].set /\ (q.pc = "idle" => drv[d].pc = "idle")
        BY <1>0 DEF DriverState
    <2>2. StartDone(d, drv[d].err) \/ Put(d, q)
        BY <1>6 DEF EndRound
    <2>. HIDE DEF q
    <2>. QED BY <1>1, <2>1, <2>2, PutSame
<1>7. CASE StartWake(d)
    <2>. DEFINE q == [drv[d] EXCEPT !.pc = "start"]
    <2>1. Put(d, q)
        BY <1>7 DEF StartWake, Put, Types, DrvOK
    <2>2. q.verb = drv[d].verb /\ q.set = drv[d].set /\ (q.pc = "idle" => drv[d].pc = "idle")
        BY <1>0 DEF DriverState
    <2>. HIDE DEF q
    <2>. QED BY <2>1, <2>2, PutSame
<1>. QED BY <1>3, <1>4, <1>5, <1>6, <1>7 DEF StartWave

\* start_node.
LEMMA StartNodePool ==
    ASSUME Types, NEW d \in Driver, AwaitReadyDep(d) \/ SpawnSettled(d) \/ SettleWake(d)
    PROVE  StaysPool
<1>0. drv[d] \in DriverState
    BY DEF Types, DrvOK
<1>1. ASSUME StartNodeDone(d) PROVE StaysPool
    <2>. DEFINE q == [Idle EXCEPT !.pc = "rebind", !.verb = "bind", !.k = drv[d].k]
    <2>1. q.verb = "bind"
        BY DEF Idle
    <2>2. Put(d, q) \/ Put(d, Idle)
        BY <1>1 DEF StartNodeDone
    <2>. HIDE DEF q
    <2>. QED BY <2>1, <2>2, PutOther, PutIdle
<1>2. ASSUME NEW p, NEW a, NEW b, NEW c, p # "idle",
             Put(d, [drv[d] EXCEPT !.pc = p, !.left = a, !.mark = b, !.due = c])
      PROVE  StaysPool
    <2>. DEFINE q == [drv[d] EXCEPT !.pc = p, !.left = a, !.mark = b, !.due = c]
    <2>1. q.verb = drv[d].verb /\ q.set = drv[d].set /\ (q.pc = "idle" => drv[d].pc = "idle")
        BY <1>0, <1>2 DEF DriverState
    <2>2. Put(d, q)
        BY <1>2
    <2>. HIDE DEF q
    <2>. QED BY <2>1, <2>2, PutSame
<1>3. ASSUME NEW p, NEW b, p # "idle", Put(d, [drv[d] EXCEPT !.pc = p, !.mark = b])
      PROVE  StaysPool
    <2>. DEFINE q == [drv[d] EXCEPT !.pc = p, !.mark = b]
    <2>1. q.verb = drv[d].verb /\ q.set = drv[d].set /\ (q.pc = "idle" => drv[d].pc = "idle")
        BY <1>0, <1>3 DEF DriverState
    <2>2. Put(d, q)
        BY <1>3
    <2>. HIDE DEF q
    <2>. QED BY <2>1, <2>2, PutSame
<1>4. CASE AwaitReadyDep(d)
    BY <1>1, <1>2, <1>3, <1>4 DEF AwaitReadyDep
<1>5. CASE SpawnSettled(d)
    BY <1>1, <1>3, <1>5 DEF SpawnSettled
<1>6. CASE SettleWake(d)
    <2>. DEFINE q == [drv[d] EXCEPT !.pc = "settle"]
    <2>1. Put(d, q)
        BY <1>6 DEF SettleWake, Put, Types, DrvOK
    <2>2. q.verb = drv[d].verb /\ q.set = drv[d].set /\ (q.pc = "idle" => drv[d].pc = "idle")
        BY <1>0 DEF DriverState
    <2>. HIDE DEF q
    <2>. QED BY <2>1, <2>2, PutSame
<1>. QED BY <1>4, <1>5, <1>6

\* The verbs.
LEMMA VerbPool ==
    ASSUME Types, Verb
    PROVE  StaysPool
<1>0. "ctl" \in Driver
    BY DEF Driver
<1>1. CASE LeaveRun \/ ResumePausable
    BY <1>0, <1>1, PutIdle, SamePool DEF LeaveRun, ResumePausable
<1>2. CASE Start \/ Teardown \/ RespawnTerminate
    BY <1>0, <1>2, RecVerbs, PutOther DEF Start, Teardown, RespawnTerminate
<1>3. ASSUME NEW t \in Targets, Deactivate(t) \/ Activate(t) \/ Restart(t)
      PROVE  StaysPool
    BY <1>0, <1>3, RecVerbs, PutOther DEF Deactivate, Activate, Restart
<1>4. ASSUME NEW t \in Targets, StartNode(t) \/ StopNode(t)
      PROVE  StaysPool
    <2>. DEFINE q == [Idle EXCEPT !.pc = "ready", !.verb = "start_node",
                                  !.set = {t}, !.left = ReadyDeps[t]]
                p == [Idle EXCEPT !.pc = "ack_wait", !.verb = "stop_node",
                                  !.left = {t}, !.mark = {t}]
    <2>1. q.verb = "start_node" /\ p.verb = "stop_node"
        BY DEF Idle
    <2>2. Put("ctl", q) \/ Put("ctl", p)
        BY <1>4 DEF StartNode, StopNode
    <2>. HIDE DEF q, p
    <2>. QED BY <1>0, <2>1, <2>2, PutOther
<1>. QED BY <1>1, <1>2, <1>3, <1>4 DEF Verb

\* Every step of the supervisor.
LEMMA NextPool ==
    ASSUME Types, Next
    PROVE  StaysPool
<1>0. Driver = {"ctl", "bind"}
    BY DEF Driver
<1>1. ASSUME NEW d \in Driver, Deadline(d) PROVE StaysPool
    <2>1. PICK n \in Node : drv' = [drv EXCEPT ![d].due = @ \union {n}]
        BY <1>1, GraphAssumption DEF Deadline
    <2>. DEFINE q == [drv[d] EXCEPT !.due = @ \union {n}]
    <2>2. Put(d, q)
        BY <2>1 DEF Put, Types, DrvOK
    <2>3. q.verb = drv[d].verb /\ q.set = drv[d].set /\ (q.pc = "idle" => drv[d].pc = "idle")
        BY DEF Types, DrvOK, DriverState
    <2>. HIDE DEF q
    <2>. QED BY <2>2, <2>3, PutSame
<1>2. CASE ApplyBind \/ Rebind
    <2>1. \E r : Put("bind", r)
        BY <1>2, RebindAt DEF ApplyBind
    <2>. QED BY <1>0, <2>1, PutPool
<1>3. ASSUME NEW n \in Node, Task(n) PROVE StaysPool
    BY <1>3, SamePool DEF Task, Exit, Pause, WaitResume, Park, SetReady, ClearReady, TaskStep
<1>. QED
    BY <1>1, <1>2, <1>3, VerbPool, StopPool, StartPool, StartNodePool DEF Next, Drive

----------------------------------------------------------------------------
(* A node stops running only by leaving.                                   *)

\* An ack and RUNNING exclude each other.
AckedIsDown == \A n \in Node : Has(n, "DROPPED") => ~Running(n)

\* No step of the supervisor takes RUNNING from a node that has not acked; an
\* exit and a park do both at once.
LEMMA NextLeaves ==
    ASSUME Types, AckedIsDown, Next
    PROVE  AckedIsDown' /\ \A n \in Node : Running(n) => Running(n)' \/ n \in Leaving
<1>. SUFFICES ASSUME NEW n \in Node
              PROVE  /\ Has(n, "DROPPED")' => ~Running(n)'
                     /\ Running(n) => Running(n)' \/ n \in Leaving
    BY DEF AckedIsDown
<1>0. "DROPPED" \in flag[n] => "RUNNING" \notin flag[n]
    BY DEF AckedIsDown, Has, Running
<1>1. CASE \E t \in Targets : Deactivate(t) \/ Activate(t)
    <2>1. \A f \in Flag \ {"DISABLED", "COLLATERAL"} : f \in flag'[n] <=> f \in flag[n]
        BY <1>1, ShellHeld
    <2>. QED BY <1>0, <2>1 DEF Flag, Has, Running
<1>2. CASE ~ \E t \in Targets : Deactivate(t) \/ Activate(t)
    <2>0. Effect(n)
        BY <1>2, EveryEffect
    <2>1. CASE Kept(n)
        BY <1>0, <2>1 DEF Kept, Has, Running
    <2>2. CASE Launched(n)
        BY <2>2 DEF Launched, Has, Running, ResetMask
    <2>3. CASE Resumed(n)
        BY <2>3 DEF Resumed, Has, Running, ResetMask
    <2>4. CASE Stopped(n)
        BY <1>0, <2>4 DEF Stopped, Has, Running
    <2>5. CASE BoundMarked(n)
        BY <1>0, <2>5 DEF BoundMarked, Has, Running
    <2>6. CASE Tasked(n)
        BY <1>0, <2>6 DEF Tasked, Has, Running, Leaving
    <2>. QED BY <2>0, <2>1, <2>2, <2>3, <2>4, <2>5, <2>6 DEF Effect
<1>. QED BY <1>1, <1>2

----------------------------------------------------------------------------
(* The invariant.                                                          *)

\* What the pool starts, it starts over dependencies that were up when it
\* decided and have not been taken down since.
GrowInv ==
    drv["ctl"].verb = "pool" =>
        /\ drv["ctl"].pc # "idle"
        /\ \A n \in drv["ctl"].set : \A d \in Deps[n] : Running(d) \/ d \in gone

\* The deadline is one cooldown after the last start or stop, or later.
ClockInv ==
    /\ pending \in {{}} \union {{t} : t \in 0..Cooldown}
    /\ since \in 0..Cooldown
    /\ \A t \in pending : since + t >= Cooldown

PoolInv ==
    /\ Types /\ AckedIsDown /\ GrowInv /\ ClockInv
    /\ fresh \in BOOLEAN /\ gone \subseteq Node

\* Before run() the pool has decided nothing.
LEMMA PoolInitInv == PoolInit => PoolInv
<1>. SUFFICES ASSUME PoolInit PROVE PoolInv
    OBVIOUS
<1>1. Types
    BY InitTypes DEF PoolInit
<1>2. AckedIsDown
    BY DEF PoolInit, Init, AckedIsDown, Has
<1>3. GrowInv
    BY DEF PoolInit, Init, GrowInv, Driver, Idle
<1>4. ClockInv
    BY PoolAssumption DEF PoolInit, ClockInv
<1>5. fresh \in BOOLEAN /\ gone \subseteq Node
    BY DEF PoolInit
<1>. QED BY <1>1, <1>2, <1>3, <1>4, <1>5 DEF PoolInv

\* The rest of the supervisor, with run_pools dropped or waiting.
LEMMA SupervisorStepInv ==
    ASSUME PoolInv, SupervisorStep PROVE PoolInv'
<1>1. Types'
    BY TypesKept DEF PoolInv, SupervisorStep
<1>2. AckedIsDown' /\ \A n \in Node : Running(n) => Running(n)' \/ n \in Leaving
    BY NextLeaves DEF PoolInv, SupervisorStep
<1>3. StaysPool
    BY NextPool DEF PoolInv, SupervisorStep
<1>4. GrowInv'
    <2>0. drv'["ctl"].verb = "pool" => drv'["ctl"].pc # "idle"
        BY <1>3 DEF StaysPool, PoolsOwn, PoolInv, GrowInv
    <2>. SUFFICES ASSUME drv'["ctl"].verb = "pool", NEW n \in drv'["ctl"].set, NEW d \in Deps[n]
                  PROVE  Running(d)' \/ d \in gone'
        BY <2>0 DEF GrowInv
    <2>1. drv["ctl"].verb = "pool" /\ n \in drv["ctl"].set
        BY <1>3 DEF StaysPool, PoolsOwn
    <2>2. Running(d) \/ d \in gone
        BY <2>1 DEF PoolInv, GrowInv
    <2>3. gone' = gone \union Leaving
        BY DEF SupervisorStep
    <2>4. d \in Node
        <3>1. n \in Node
            BY <2>1 DEF PoolInv, Types, DrvOK, DriverState, Driver
        <3>. QED BY <3>1, GraphAssumption
    <2>. QED BY <1>2, <2>2, <2>3, <2>4
<1>5. ClockInv'
    BY DEF PoolInv, ClockInv, SupervisorStep
<1>6. fresh' \in BOOLEAN
    BY DEF SupervisorStep
<1>7. gone' \subseteq Node
    BY DEF SupervisorStep, Leaving, PoolInv
<1>. QED BY <1>1, <1>2, <1>4, <1>5, <1>6, <1>7 DEF PoolInv

\* The records run_pools begins with.
LEMMA PoolRecords ==
    ASSUME NEW n \in Node
    PROVE  LET g == [Idle EXCEPT !.pc = "ready", !.verb = "pool",
                                 !.set = {n}, !.left = ReadyDeps[n]]
               s == [Idle EXCEPT !.pc = "ack_wait", !.verb = "pool",
                                 !.left = {n}, !.mark = {n}]
           IN  /\ g \in DriverState /\ g.verb = "pool" /\ g.set = {n} /\ g.pc = "ready"
               /\ s \in DriverState /\ s.verb = "pool" /\ s.set = {} /\ s.pc = "ack_wait"
<1>1. ReadyDeps[n] \in SUBSET Node /\ Idle \in DriverState
    BY RecordsOK, GraphAssumption
<1>. QED BY <1>1 DEF Idle, DriverState, Pc, Await

\* A driver is set by run_pools.
LEMMA PutTypes ==
    ASSUME Types, NEW r \in DriverState, Put("ctl", r), UNCHANGED <<inst, resume, run, calls>>,
           flag' \in [Node -> SUBSET Flag], evt' \subseteq evt
    PROVE  Types' /\ drv'["ctl"] = r
<1>1. DrvOK'
    BY PutOK DEF Types, Driver
<1>2. drv'["ctl"] = r
    BY DEF Put, Types, DrvOK, Driver
<1>. QED BY <1>1, <1>2 DEF Types, DataOK

\* Nothing but the latched events changes.
LEMMA CalmTypes ==
    ASSUME Types, UNCHANGED <<flag, inst, resume, run, drv, calls>>, evt' \subseteq evt
    PROVE  Types'
BY DEF Types, DataOK, DrvOK

\* A turn of run_pools that starts and stops nothing.
LEMMA CalmInv ==
    ASSUME PoolInv, Evaluate, UNCHANGED <<flag, drv>>, ClockInv'
    PROVE  PoolInv'
<1>1. Types' /\ fresh' \in BOOLEAN /\ gone' \subseteq Node
    BY CalmTypes DEF PoolInv, Evaluate
<1>2. AckedIsDown'
    BY DEF PoolInv, AckedIsDown, Has, Running
<1>3. drv["ctl"].verb # "pool"
    BY DEF Evaluate, PoolInv, GrowInv
<1>. QED BY <1>1, <1>2, <1>3 DEF PoolInv, GrowInv

\* A decision to grow.
LEMMA GrowStepInv ==
    ASSUME PoolInv, Grow PROVE PoolInv'
<1>1. ClockInv'
    <2>1. pending' = {} /\ (since' = 0 \/ since' = since)
        BY DEF Grow
    <2>. QED BY <2>1, PoolAssumption DEF PoolInv, ClockInv
<1>2. CASE UNCHANGED drv
    BY <1>1, <1>2, CalmInv DEF Grow
<1>3. ASSUME NEW n \in Startable,
             Put("ctl", [Idle EXCEPT !.pc = "ready", !.verb = "pool",
                                     !.set = {n}, !.left = ReadyDeps[n]])
      PROVE  PoolInv'
    <2>1. n \in Node /\ \A d \in Deps[n] : Running(d)
        BY GraphAssumption DEF Startable, Candidates, DepsUp
    <2>. DEFINE g == [Idle EXCEPT !.pc = "ready", !.verb = "pool",
                                  !.set = {n}, !.left = ReadyDeps[n]]
    <2>2. g \in DriverState /\ g.verb = "pool" /\ g.set = {n} /\ g.pc = "ready"
        BY <2>1, PoolRecords
    <2>3. Put("ctl", g)
        BY <1>3
    <2>. HIDE DEF g
    <2>4. UNCHANGED <<inst, resume, run, calls, flag>> /\ evt' \subseteq evt
          /\ fresh' \in BOOLEAN /\ gone' = {}
        BY DEF Grow, Evaluate
    <2>5. Types' /\ drv'["ctl"] = g
        BY <2>2, <2>3, <2>4, PutTypes DEF PoolInv, Types, DataOK
    <2>6. AckedIsDown'
        BY <2>4 DEF PoolInv, AckedIsDown, Has, Running
    <2>7. GrowInv'
        BY <2>1, <2>2, <2>4, <2>5 DEF GrowInv, Running, Has
    <2>. QED BY <1>1, <2>4, <2>5, <2>6, <2>7 DEF PoolInv
<1>. QED BY <1>2, <1>3 DEF Grow

\* A decision to shrink.
LEMMA ShrinkStepInv ==
    ASSUME PoolInv, Shrink PROVE PoolInv'
<1>1. ClockInv'
    <2>1. since' \in 0..Cooldown /\ (pending' = {} \/ pending' = {Cooldown})
        BY PoolAssumption DEF Shrink, PoolInv, ClockInv
    <2>. QED BY <2>1, PoolAssumption DEF ClockInv
<1>2. CASE UNCHANGED <<flag, drv>>
    BY <1>1, <1>2, CalmInv DEF Shrink
<1>3. ASSUME NEW n \in Victims,
             flag' = [flag EXCEPT ![n] = @ \union {"SHUTDOWN"}],
             Put("ctl", [Idle EXCEPT !.pc = "ack_wait", !.verb = "pool",
                                     !.left = {n}, !.mark = {n}])
      PROVE  PoolInv'
    <2>1. n \in Node
        BY GraphAssumption DEF Victims
    <2>. DEFINE g == [Idle EXCEPT !.pc = "ack_wait", !.verb = "pool",
                                  !.left = {n}, !.mark = {n}]
    <2>2. g \in DriverState /\ g.verb = "pool" /\ g.set = {} /\ g.pc = "ack_wait"
        BY <2>1, PoolRecords
    <2>3. Put("ctl", g)
        BY <1>3
    <2>. HIDE DEF g
    <2>4. UNCHANGED <<inst, resume, run, calls>> /\ evt' \subseteq evt
          /\ fresh' \in BOOLEAN /\ gone' = {}
        BY DEF Shrink, Evaluate
    <2>5. /\ flag' \in [Node -> SUBSET Flag]
          /\ \A m \in Node : /\ "RUNNING" \in flag'[m] <=> "RUNNING" \in flag[m]
                             /\ "DROPPED" \in flag'[m] <=> "DROPPED" \in flag[m]
        BY <1>3, <2>1 DEF PoolInv, Types, DataOK, Flag
    <2>6. Types' /\ drv'["ctl"] = g
        BY <2>2, <2>3, <2>4, <2>5, PutTypes DEF PoolInv
    <2>7. AckedIsDown'
        BY <2>5 DEF PoolInv, AckedIsDown, Has, Running
    <2>8. GrowInv'
        BY <2>2, <2>6 DEF GrowInv
    <2>. QED BY <1>1, <2>4, <2>6, <2>7, <2>8 DEF PoolInv
<1>. QED BY <1>2, <1>3 DEF Shrink

\* A surplus noted, and a surplus that is over.
LEMMA DeferStepInv ==
    ASSUME PoolInv, Defer \/ Settle PROVE PoolInv'
<1>1. ClockInv'
    <2>1. since' = since /\ (pending' = {} \/ pending' = {Cooldown} \/ pending' = pending)
        BY DEF Defer, Settle
    <2>2. \A t \in 0..Cooldown : t = Cooldown => since + t >= Cooldown
        BY PoolAssumption DEF PoolInv, ClockInv
    <2>. QED BY <2>1, <2>2, PoolAssumption DEF PoolInv, ClockInv
<1>. QED BY <1>1, CalmInv DEF Defer, Settle

\* Time passes for the deadline and for the history alike.
LEMMA TickInv ==
    ASSUME PoolInv, Tick PROVE PoolInv'
<1>1. ClockInv'
    <2>1. since' = IF since < Cooldown THEN since + 1 ELSE since
        BY DEF Tick
    <2>2. since \in 0..Cooldown /\ since' \in 0..Cooldown
        BY <2>1, PoolAssumption DEF PoolInv, ClockInv
    <2>3. CASE pending = {}
        <3>1. pending' = {}
            BY <2>3 DEF Tick
        <3>. QED BY <2>2, <3>1 DEF ClockInv
    <2>4. ASSUME NEW t \in 0..Cooldown, pending = {t} PROVE ClockInv'
        <3>1. pending' = {IF t > 0 THEN t - 1 ELSE 0}
            BY <2>4 DEF Tick
        <3>2. since + t >= Cooldown
            BY <2>4 DEF PoolInv, ClockInv
        <3>3. (IF t > 0 THEN t - 1 ELSE 0) \in 0..Cooldown
            BY PoolAssumption
        <3>4. since' + (IF t > 0 THEN t - 1 ELSE 0) >= Cooldown
            BY <2>1, <2>2, <3>2, PoolAssumption
        <3>. QED BY <2>2, <3>1, <3>3, <3>4 DEF ClockInv
    <2>. QED BY <2>3, <2>4 DEF PoolInv, ClockInv
<1>2. Types'
    BY CalmTypes DEF PoolInv, Tick
<1>. QED BY <1>1, <1>2 DEF PoolInv, AckedIsDown, GrowInv, Has, Running, Tick

\* The workers report their load.
LEMMA MarkInv ==
    ASSUME PoolInv, NEW m \in Members, MarkBusy(m) \/ MarkIdle(m) PROVE PoolInv'
<1>0. m \in Node
    BY GraphAssumption
<1>1. /\ flag' \in [Node -> SUBSET Flag]
      /\ \A n \in Node : /\ "RUNNING" \in flag'[n] <=> "RUNNING" \in flag[n]
                         /\ "DROPPED" \in flag'[n] <=> "DROPPED" \in flag[n]
    BY <1>0 DEF PoolInv, Types, DataOK, Flag, MarkBusy, MarkIdle
<1>2. UNCHANGED <<inst, resume, run, drv, calls, pending, fresh, since, gone>>
      /\ evt' = evt \union {"SCALE_REQ"}
    BY DEF MarkBusy, MarkIdle, TaskStep, Signal
<1>3. Types'
    BY <1>1, <1>2 DEF PoolInv, Types, DataOK, DrvOK
<1>4. AckedIsDown'
    BY <1>1 DEF PoolInv, AckedIsDown, Has, Running
<1>5. GrowInv'
    <2>1. drv["ctl"] \in DriverState
        BY DEF PoolInv, Types, DrvOK, Driver
    <2>2. \A n \in drv["ctl"].set : \A d \in Deps[n] : d \in Node
        BY <2>1, GraphAssumption DEF DriverState
    <2>. QED BY <1>1, <1>2, <2>2 DEF PoolInv, GrowInv, Has, Running
<1>6. ClockInv'
    BY <1>2 DEF PoolInv, ClockInv
<1>. QED BY <1>2, <1>3, <1>4, <1>5, <1>6 DEF PoolInv

\* Every step.
LEMMA PoolNextInv == PoolInv /\ [PoolNext]_pvars => PoolInv'
<1>. SUFFICES ASSUME PoolInv, [PoolNext]_pvars PROVE PoolInv'
    OBVIOUS
<1>1. CASE UNCHANGED pvars
    <2>1. Types'
        BY <1>1, CalmTypes DEF pvars, PoolInv
    <2>. QED BY <1>1, <2>1 DEF pvars, PoolInv, AckedIsDown, GrowInv, ClockInv, Has, Running
<1>. QED BY <1>1, SupervisorStepInv, GrowStepInv, ShrinkStepInv, DeferStepInv, TickInv, MarkInv
         DEF PoolNext, RunPools

\* The invariant holds.
LEMMA PoolHolds == PoolSpec => []PoolInv
BY PoolInitInv, PoolNextInv, PTL DEF PoolSpec

\* The pool's state has its type; in particular the deadline of the policy is
\* never further away than one cooldown.
THEOREM PoolTypeCorrect == PoolSpec => []PoolTypeOK
<1>1. PoolInv => PoolTypeOK
    BY TypesAreTypeOK DEF PoolInv, ClockInv, PoolTypeOK
<1>. QED BY <1>1, PoolHolds, PTL

\* "A member is never grown while one of its declared dependencies is down",
\* on every graph: they were up when run_pools decided, the commands drop
\* run_pools instead of overtaking it, and what the bind driver stops has left
\* by itself.
THEOREM GrowsOverRunningDepsHolds == PoolSpec => GrowsOverRunningDeps
<1>1. PoolInv => [\A n \in Members : Launches(n) =>
                     \A d \in Deps[n] : Running(d) \/ d \in gone]_pvars
    BY DEF PoolInv, GrowInv, Launches
<1>. QED BY <1>1, PoolHolds, PTL DEF GrowsOverRunningDeps

\* "Lazy down": no member is told to stop sooner than a cooldown after the
\* pool's last start or stop, though a command may drop run_pools, and with it
\* the wait for the deadline, at any time.
THEOREM ShrinksLazilyHolds == PoolSpec => ShrinksLazily
<1>1. PoolInv /\ [PoolNext]_pvars =>
        [/\ drv["ctl"].verb # "pool"
         /\ drv'["ctl"].verb = "pool" /\ drv'["ctl"].pc = "ack_wait"
         => since = Cooldown]_pvars
    <2>. SUFFICES ASSUME PoolInv, PoolNext, drv["ctl"].verb # "pool",
                         drv'["ctl"].verb = "pool", drv'["ctl"].pc = "ack_wait"
                  PROVE  since = Cooldown
        OBVIOUS
    <2>1. ~SupervisorStep
        BY NextPool DEF SupervisorStep, PoolInv, StaysPool, PoolsOwn
    <2>2. drv' # drv
        OBVIOUS
    <2>3. ~(Defer \/ Settle \/ Tick \/ \E n \in Members : MarkBusy(n) \/ MarkIdle(n))
        BY <2>2 DEF Defer, Settle, Tick, MarkBusy, MarkIdle, TaskStep
    <2>4. ~Grow
        <3>. SUFFICES ASSUME Grow PROVE FALSE
            OBVIOUS
        <3>1. PICK n \in Startable : Put("ctl", [Idle EXCEPT !.pc = "ready", !.verb = "pool",
                                                 !.set = {n}, !.left = ReadyDeps[n]])
            BY <2>2 DEF Grow
        <3>2. n \in Node
            BY GraphAssumption DEF Startable, Candidates
        <3>3. drv'["ctl"].pc = "ready"
            BY <3>1, <3>2 DEF Put, PoolInv, Types, DrvOK, Driver, Idle
        <3>. QED BY <3>3
    <2>5. 0 \in pending
        BY <2>1, <2>3, <2>4 DEF PoolNext, RunPools, Shrink
    <2>. QED BY <2>5, PoolAssumption DEF PoolInv, ClockInv
<1>. QED BY <1>1, PoolHolds, PTL DEF PoolSpec, ShrinksLazily
=============================================================================
