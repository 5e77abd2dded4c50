------------------------------- MODULE Inject -------------------------------
(***************************************************************************)
(* Fault injection on one Terminate node (`fault-inject`): the Injected    *)
(* wrapper that polls the worker, the wedge that hides a shutdown request  *)
(* and swallows acks, and TaskNode::inject / clear_fault, which replay     *)
(* what a wedge swallowed.                                                 *)
(*                                                                         *)
(* Task and injector run on different executors, so every load and every   *)
(* read-modify-write of the fault code and of the flag word is a step.     *)
(* settle_dropped and the supervisor's request are single steps here; the  *)
(* module Handshake takes them apart.                                      *)
(***************************************************************************)
EXTENDS Naturals

CONSTANT
    InjNodes    \* the declarations considered: subset of InjNodeCfg

\* shelled: a `task:` node.  supCuts: the supervisor can run in the middle of
\* an inject call (a higher tier than the injector's, or another core).
InjNodeCfg == [shelled : BOOLEAN, supCuts : BOOLEAN]

ASSUME InjNodesAssumption == InjNodes \subseteq InjNodeCfg

Fault == {"none", "stall", "wedge", "crash", "hog"}

VARIABLES
    injNode,    \* the node's declaration
    fault,      \* TaskHandle::fault
    iflags,     \* the bits of TaskHandle::flags that matter here
    latch,      \* shutdown_wake is signalled
    listens,    \* shutdown_wake holds the task's waker
    woken,      \* the task is in its executor's run queue
    grace,      \* Injected::hog: "off", "running" or "over"
    itask,      \* where the task is
    call,       \* the ack the task is making: "ack" or "exit"
    inj,        \* where the injector is
    injExit,    \* the replay it makes includes an exit
    calls,      \* history: acks this instance made
    delivered   \* history: settle_dropped calls since this instance started

injVars == <<injNode, fault, iflags, latch, listens, woken, grace, itask, call,
             inj, injExit, calls, delivered>>

Pending == {"PENDING_ACK", "PENDING_EXIT"}

\* A node with its first instance just spawned.
InjInit ==
    /\ injNode \in InjNodes
    /\ fault = "none" /\ iflags = {"RUNNING"}
    /\ latch = FALSE /\ listens = FALSE /\ woken = TRUE
    /\ grace = "off" /\ itask = "wait" /\ call = "ack"
    /\ inj = "idle" /\ injExit = FALSE
    /\ calls = 0 /\ delivered = 0

----------------------------------------------------------------------------
(* The task.                                                               *)

TaskAt(from, to) ==
    /\ itask = from
    /\ itask' = to
    /\ UNCHANGED <<injNode, inj, injExit>>

\* Injected::poll.  The executor runs a woken task; the wrapper looks at the
\* fault before it polls the worker.
Polled(to) == woken /\ woken' = FALSE /\ TaskAt("wait", to)

\* A stall stops polling until a shutdown is requested.
PollStalled ==
    /\ fault = "stall" /\ "SHUTDOWN" \notin iflags
    /\ IF latch
       THEN /\ latch' = FALSE /\ woken' = TRUE /\ UNCHANGED listens
            /\ woken /\ TaskAt("wait", "wait")
       ELSE Polled("wait") /\ listens' = TRUE /\ UNCHANGED latch
    /\ UNCHANGED <<fault, iflags, grace, call, calls, delivered>>

\* A crash drops the worker, then clears itself if it is still the fault.
PollCrash ==
    /\ fault = "crash"
    /\ Polled("crash_cas")
    /\ UNCHANGED <<fault, iflags, latch, listens, grace, call, calls, delivered>>

CrashCas ==
    /\ TaskAt("crash_cas", "look1")
    /\ fault' = IF fault = "crash" THEN "none" ELSE fault
    /\ call' = "exit" /\ calls' = calls + 1
    /\ UNCHANGED <<iflags, latch, listens, woken, grace, delivered>>

\* A hog waits out its grace period, spins, clears itself, polls the worker.
PollHog ==
    /\ fault = "hog"
    /\ \/ grace # "over" /\ Polled("wait") /\ grace' = "running"
       \/ grace = "over" /\ Polled("hog_cas") /\ grace' = "off"
    /\ UNCHANGED <<fault, iflags, latch, listens, call, calls, delivered>>

HogCas ==
    /\ TaskAt("hog_cas", "worker")
    /\ fault' = IF fault = "hog" THEN "none" ELSE fault
    /\ UNCHANGED <<iflags, latch, listens, woken, grace, call, calls, delivered>>

GraceOver ==
    /\ grace = "running"
    /\ grace' = "over" /\ woken' = TRUE
    /\ UNCHANGED <<injNode, fault, iflags, latch, listens, itask, call, inj,
                   injExit, calls, delivered>>

PollWorker ==
    /\ fault \in {"none", "wedge"} \/ (fault = "stall" /\ "SHUTDOWN" \in iflags)
    /\ Polled("worker")
    /\ UNCHANGED <<fault, iflags, latch, listens, grace, call, calls, delivered>>

\* poll_shutdown: a wedge hides the request and registers no shutdown waker.
StopVisible == fault # "wedge" /\ ("SHUTDOWN" \in iflags \/ latch)

WorkerPending ==
    /\ ~StopVisible
    /\ TaskAt("worker", "wait")
    /\ listens' = (listens \/ fault # "wedge")
    /\ UNCHANGED <<fault, iflags, latch, woken, grace, call, calls, delivered>>

\* run_cancellable_acked: drop the worker, ack.
WorkerStops ==
    /\ StopVisible
    /\ TaskAt("worker", "look1")
    /\ latch' = (latch /\ "SHUTDOWN" \in iflags)
    /\ call' = "ack" /\ calls' = calls + 1
    /\ UNCHANGED <<fault, iflags, listens, woken, grace, delivered>>

\* The worker completes in this poll: mark_exited.
WorkerReturns ==
    /\ TaskAt("worker", "look1")
    /\ call' = "exit" /\ calls' = calls + 1
    /\ UNCHANGED <<fault, iflags, latch, listens, woken, grace, delivered>>

\* The worker's own wake-ups: a timer, a channel.
WorkerWoken ==
    /\ itask = "wait"
    /\ woken' = TRUE
    /\ UNCHANGED <<injNode, fault, iflags, latch, listens, grace, itask, call,
                   inj, injExit, calls, delivered>>

AfterCall == IF call = "ack" THEN "cleanup" ELSE "done"

Bits == IF call = "ack" THEN {"PENDING_ACK"} ELSE Pending

AckStep(from, to) ==
    /\ TaskAt(from, to)
    /\ UNCHANGED <<fault, latch, listens, woken, grace, call, calls>>

\* wedge_swallows: look, set the pending bits, look again, take them back.
Look1 ==
    /\ AckStep("look1", IF fault = "wedge" THEN "pend" ELSE "settle")
    /\ UNCHANGED <<iflags, delivered>>

Pend ==
    /\ AckStep("pend", "look2")
    /\ iflags' = iflags \union Bits
    /\ UNCHANGED delivered

\* Faulty variant: the second look is left out.
SwallowUnchecked ==
    /\ AckStep("look2", AfterCall)
    /\ UNCHANGED <<iflags, delivered>>

Look2 ==
    /\ AckStep("look2", IF fault = "wedge" THEN AfterCall ELSE "back")
    /\ UNCHANGED <<iflags, delivered>>

\* Faulty variant: the bits are cleared and the ack made whoever had them.
TakeBackAndAck ==
    /\ AckStep("back", "settle")
    /\ iflags' = iflags \ Bits
    /\ UNCHANGED delivered

TakeBack ==
    /\ AckStep("back", IF "PENDING_ACK" \in iflags THEN "settle" ELSE AfterCall)
    /\ iflags' = iflags \ Bits
    /\ UNCHANGED delivered

Dropped(exit) ==
    (iflags \ {"RUNNING"}) \union {"DROPPED"}
        \union (IF exit THEN {"COMPLETED"} ELSE {})

Settled ==
    /\ AckStep("settle", AfterCall)
    /\ iflags' = Dropped(call = "exit")
    /\ delivered' = delivered + 1

\* The acked worker returns to its shell, which records the exit.
CleanedUp ==
    /\ TaskAt("cleanup", "look1")
    /\ call' = "exit" /\ calls' = calls + 1
    /\ UNCHANGED <<fault, iflags, latch, listens, woken, grace, delivered>>

----------------------------------------------------------------------------
(* The injector.                                                           *)

InjAt(from, to) ==
    /\ inj = from
    /\ inj' = to
    /\ UNCHANGED <<injNode, latch, listens, grace, itask, call, calls>>

\* inject(f): stall, crash and hog need a shell (NoShell otherwise); anything
\* but a wedge releases what an earlier wedge holds.
InjectFault(f) ==
    /\ f = "wedge" \/ injNode.shelled
    /\ InjAt("idle", IF f = "wedge" THEN "wake" ELSE "replay")
    /\ fault' = f
    /\ UNCHANGED <<iflags, woken, injExit, delivered>>

ClearFault ==
    /\ fault # "none"
    /\ InjAt("idle", "replay")
    /\ fault' = "none"
    /\ UNCHANGED <<iflags, woken, injExit, delivered>>

\* replay_swallowed: take both bits at once, deliver if an ack was among them.
Replay ==
    /\ InjAt("replay", IF "PENDING_ACK" \in iflags THEN "settle" ELSE "wake")
    /\ injExit' = ("PENDING_EXIT" \in iflags)
    /\ iflags' = iflags \ Pending
    /\ UNCHANGED <<fault, woken, delivered>>

ReplaySettled ==
    /\ InjAt("settle", "wake")
    /\ iflags' = Dropped(injExit)
    /\ delivered' = delivered + 1
    /\ injExit' = FALSE
    /\ UNCHANGED <<fault, woken>>

\* Faulty variant: the worker parked on the hidden request is not woken.
ClearUnwoken ==
    /\ InjAt("wake", "idle")
    /\ injExit' = FALSE
    /\ UNCHANGED <<fault, iflags, woken, delivered>>

WakeFault ==
    /\ InjAt("wake", "idle")
    /\ woken' = TRUE
    /\ injExit' = FALSE
    /\ UNCHANGED <<fault, iflags, delivered>>

----------------------------------------------------------------------------
(* The supervisor, as far as it touches these flags.                       *)

RequestStop ==
    /\ "RUNNING" \in iflags /\ "SHUTDOWN" \notin iflags
    /\ iflags' = iflags \union {"SHUTDOWN"}
    /\ latch' = TRUE
    /\ woken' = (woken \/ listens) /\ listens' = FALSE
    /\ UNCHANGED <<injNode, fault, grace, itask, call, inj, injExit, calls,
                   delivered>>

\* Once the old task is over: reset() and the next spawn.
StartAgain ==
    /\ itask = "done" /\ "RUNNING" \notin iflags
    /\ injNode.supCuts \/ inj = "idle"
    /\ iflags' = {"RUNNING"}
    /\ latch' = FALSE /\ listens' = FALSE /\ woken' = TRUE /\ grace' = "off"
    /\ itask' = "wait" /\ call' = "ack"
    /\ calls' = 0 /\ delivered' = 0
    /\ UNCHANGED <<injNode, fault, inj, injExit>>

InjTask ==
    \/ PollStalled \/ PollCrash \/ CrashCas \/ PollHog \/ HogCas \/ GraceOver
    \/ PollWorker \/ WorkerPending \/ WorkerStops \/ WorkerReturns
    \/ Look1 \/ Pend \/ Look2 \/ TakeBack \/ Settled \/ CleanedUp

Injector ==
    \/ \E f \in Fault \ {"none"} : InjectFault(f)
    \/ ClearFault \/ Replay \/ ReplaySettled \/ WakeFault

InjNext == InjTask \/ WorkerWoken \/ Injector \/ RequestStop \/ StartAgain

\* A woken task is polled and runs its steps; an inject call that began ends.
\* Nobody is obliged to inject, to clear, to stop or to start again, and a
\* worker need not be woken by events of its own.
InjSpec == InjInit /\ [][InjNext]_injVars
             /\ WF_injVars(InjTask) /\ WF_injVars(Injector /\ inj # "idle")

----------------------------------------------------------------------------
(* Properties.                                                             *)

InjTypeOK ==
    /\ injNode \in InjNodes
    /\ fault \in Fault
    /\ iflags \subseteq {"RUNNING", "SHUTDOWN", "DROPPED", "COMPLETED"} \union Pending
    /\ {latch, listens, woken, injExit} \subseteq BOOLEAN
    /\ grace \in {"off", "running", "over"}
    /\ itask \in {"wait", "worker", "crash_cas", "hog_cas", "look1", "pend",
                  "look2", "back", "settle", "cleanup", "done"}
    /\ call \in {"ack", "exit"}
    /\ inj \in {"idle", "replay", "settle", "wake"}
    /\ calls \in 0..2 /\ delivered \in 0..3

\* An ack is never lost to a wedge: once no wedge is in place and no inject
\* call is under way, a task past its ack reads as dropped, and one that
\* exited reads as completed (wedge_swallows, replay_swallowed).
NoAckLost ==
    inj = "idle" /\ fault # "wedge" =>
        /\ itask \in {"cleanup", "done"} => "DROPPED" \in iflags
        /\ itask = "done" => "COMPLETED" \in iflags

\* ... and never delivered twice, by the task and by the injector that cleared
\* the wedge between its two looks.  A supervisor that can start the next
\* instance inside an inject call is excepted: there the replay in flight
\* lands on the new instance.
AckDeliveredOnce == injNode.supCuts \/ delivered <= calls

\* An ack that a wedge may swallow is delivered exactly once.
AckExactlyOnce == NoAckLost /\ AckDeliveredOnce

\* Clearing a fault lets the node hear a stop that was requested meanwhile,
\* without any event of the worker's own (clear_fault wakes fault_waker).
StopIsHeard ==
    ("SHUTDOWN" \in iflags /\ fault = "none" /\ inj = "idle")
        ~> ("DROPPED" \in iflags \/ fault # "none")

\* Such a node is not asleep: the task is woken or in the middle of its steps, or
\* its ack has been delivered.
StopIsOwed ==
    "SHUTDOWN" \in iflags /\ fault = "none" /\ inj = "idle" =>
        "DROPPED" \in iflags \/ woken \/ itask \notin {"wait", "done"}
=============================================================================
