----------------------------- MODULE Handshake -----------------------------
(***************************************************************************)
(* The handshake between the supervisor and the task of ONE node, at the   *)
(* granularity of single atomic operations: the flag word and the wake     *)
(* signals of TaskHandle, the verbs of the supervisor that drive one node  *)
(* (start, resume, stop_node, a one-node stop wave), and the task: the     *)
(* resident shell the macro emits for `task:`, or a bare `spawn:` task.    *)
(*                                                                         *)
(* The two sides run on the same executor, on two interrupt tiers of one   *)
(* core, or on two cores.  cfg.preempts says which: <<p, q>> is in it when *)
(* p may take a step while q is between two of its awaits.  {} is one      *)
(* cooperative executor, a single pair is a higher tier over a lower one,  *)
(* both pairs are two cores.                                               *)
(***************************************************************************)
EXTENDS Naturals

CONSTANT
    Cfgs        \* the node declarations considered (see NodeCfg)

Sides == {"sup", "task"}

\* What the graph declares of a node, as far as the handshake depends on it.
\* OnDemand is Terminate here: the two differ only in who calls start.
NodeCfg == [mode     : {"Terminate", "Pause"},
            shell    : {"task", "spawn"},
            preempts : SUBSET (Sides \X Sides)]

ASSUME CfgsAssumption == Cfgs \subseteq NodeCfg

Flag == {"SHUTDOWN", "DROPPED", "RUNNING", "COMPLETED", "RESIDENT", "IDLE"}

\* The latching signals: TaskHandle's three wakes, then STOP_EVT and GATE_EVT.
Wake == {"shutdown", "dropped", "resume", "stop", "gate"}

VARIABLES
    cfg,        \* the node's declaration; never changes
    flags,      \* TaskHandle::flags, as the set of bits that are set
    wake,       \* the signals that are latched
    sup,        \* where the supervisor is
    verb,       \* the verb it is executing
    task,       \* where the task is
    ackFor      \* what the task does after settle_dropped

vars == <<cfg, flags, wake, sup, verb, task, ackFor>>

SupAwait == {"idle", "gate_wait", "pass", "wait_dropped", "wave_wait"}
SupStep  == {"select", "settle", "reset_flags", "reset_shutdown",
             "reset_dropped", "launch", "clear_idle", "signal_start",
             "mark_resident", "signal_resume", "set_running", "set_shutdown",
             "signal_shutdown", "check_dropped", "set_down"}

TaskAwait == {"none", "begin", "work", "parked", "cleanup", "wait_start"}
TaskStep  == {"set_completed", "ack_running", "ack_dropped", "ack_wake",
              "ack_evt", "set_idle", "gate_evt", "check_idle", "return"}

AtAwait(p) == IF p = "sup" THEN sup \in SupAwait ELSE task \in TaskAwait

Other(p) == IF p = "sup" THEN "task" ELSE "sup"

\* Executors are cooperative: p runs only while the other side is at an await,
\* unless p's executor can interrupt the other's, or is another core.
MayStep(p) == AtAwait(Other(p)) \/ <<p, Other(p)>> \in cfg.preempts

\* A `task:` node has a resident shell, a `spawn:` node a task per activation.
Resident == cfg.shell = "task"

Init ==
    /\ cfg \in Cfgs
    /\ flags = {}
    /\ wake = {}
    /\ sup = "idle"
    /\ verb = "none"
    /\ task = "none"
    /\ ackFor = "none"

----------------------------------------------------------------------------
(* Loads of the flag word.                                                 *)

HasDropped == "DROPPED" \in flags

\* COMPLETED is stored before DROPPED, so the two loads of the code amount
\* to one at the instant of the first.
HasAckedStop == "DROPPED" \in flags /\ "COMPLETED" \notin flags

\* Faulty variant: the ack is taken for the end of the epilogue.
SettledByAck == "RESIDENT" \notin flags \/ HasDropped

IsSettled == "RESIDENT" \notin flags \/ "IDLE" \in flags

ShutdownSeen == "SHUTDOWN" \in flags \/ "shutdown" \in wake

(* Supervisor side.                                                        *)

SupGo(from, to) ==
    /\ MayStep("sup")
    /\ sup = from
    /\ sup' = to
    /\ UNCHANGED <<cfg, ackFor>>

\* Every automatic bring-up path selects nodes that are not running.
BringUp ==
    /\ SupGo("idle", "select")
    /\ "RUNNING" \notin flags
    /\ UNCHANGED <<flags, wake, verb, task>>

\* A parked Pause instance is resumed in place; anything else is spawned.
SelectVerb ==
    /\ \/ cfg.mode = "Pause" /\ HasAckedStop
          /\ verb' = "resume" /\ SupGo("select", "reset_flags")
       \/ ~(cfg.mode = "Pause" /\ HasAckedStop)
          /\ verb' = "start" /\ SupGo("select", "settle")
    /\ UNCHANGED <<flags, wake, task>>

\* resume_node and resume_pausable look at has_acked_stop only.
ResumeNode ==
    /\ cfg.mode = "Pause" /\ HasAckedStop
    /\ verb' = "resume"
    /\ SupGo("idle", "reset_flags")
    /\ UNCHANGED <<flags, wake, task>>

Settle ==
    /\ SupGo("settle", IF IsSettled THEN "reset_flags" ELSE "gate_wait")
    /\ UNCHANGED <<flags, wake, verb, task>>

GateWake ==
    /\ "gate" \in wake
    /\ SupGo("gate_wait", "settle")
    /\ wake' = wake \ {"gate"}
    /\ UNCHANGED <<flags, verb, task>>

\* At the deadline the condition is read one last time; then Spawn(Busy).
GateDeadline ==
    /\ \/ IsSettled /\ SupGo("gate_wait", "reset_flags") /\ UNCHANGED verb
       \/ ~IsSettled /\ SupGo("gate_wait", "idle") /\ verb' = "none"
    /\ UNCHANGED <<flags, wake, task>>

\* reset(): one fetch_and, then two signal resets.  resume_wake is not reset.
ResetMask == {"SHUTDOWN", "DROPPED", "COMPLETED"}

ResetFlags ==
    /\ SupGo("reset_flags", "reset_shutdown")
    /\ flags' = flags \ ResetMask
    /\ UNCHANGED <<wake, verb, task>>

ResetShutdownWake ==
    /\ SupGo("reset_shutdown", "reset_dropped")
    /\ wake' = wake \ {"shutdown"}
    /\ UNCHANGED <<flags, verb, task>>

\* Faulty variant: dropped_wake is not reset.
ResetKeepingDropped ==
    /\ SupGo("reset_dropped",
             IF verb = "resume" THEN "signal_resume" ELSE "launch")
    /\ UNCHANGED <<flags, wake, verb, task>>

ResetDroppedWake ==
    /\ SupGo("reset_dropped",
             IF verb = "resume" THEN "signal_resume" ELSE "launch")
    /\ wake' = wake \ {"dropped"}
    /\ UNCHANGED <<flags, verb, task>>

\* The spawn glue: restart a parked shell ...
LaunchResident ==
    /\ "RESIDENT" \in flags /\ "IDLE" \in flags
    /\ SupGo("launch", "clear_idle")
    /\ UNCHANGED <<flags, wake, verb, task>>

\* ... or spawn the task, when the executor's slot for it is free ...
LaunchSpawn ==
    /\ "RESIDENT" \notin flags /\ task = "none"
    /\ SupGo("launch", IF Resident THEN "mark_resident" ELSE "set_running")
    /\ task' = "begin"
    /\ UNCHANGED <<flags, wake, verb>>

\* ... or fail Busy: fault at the deadline, else ask for one executor pass.
LaunchBusy ==
    /\ IF "RESIDENT" \in flags THEN "IDLE" \notin flags ELSE task # "none"
    /\ \/ SupGo("launch", "idle") /\ verb' = "none"
       \/ SupGo("launch", "pass") /\ UNCHANGED verb
    /\ UNCHANGED <<flags, wake, task>>

ExecutorPass ==
    /\ SupGo("pass", "reset_flags")
    /\ UNCHANGED <<flags, wake, verb, task>>

\* __sv_start(): IDLE is cleared before the signal.
ClearIdle ==
    /\ SupGo("clear_idle", "signal_start")
    /\ flags' = flags \ {"IDLE"}
    /\ UNCHANGED <<wake, verb, task>>

\* Faulty variant: IDLE is cleared and the shell is not woken.
StartUnsignalled ==
    /\ SupGo("signal_start", "set_running")
    /\ UNCHANGED <<flags, wake, verb, task>>

\* Faulty variant: a signal the shell does not wait on.
StartSignalledElsewhere ==
    /\ SupGo("signal_start", "set_running")
    /\ wake' = wake \union {"start"}
    /\ UNCHANGED <<flags, verb, task>>

SignalStart ==
    /\ SupGo("signal_start", "set_running")
    /\ wake' = wake \union {"resume"}
    /\ UNCHANGED <<flags, verb, task>>

MarkResident ==
    /\ SupGo("mark_resident", "set_running")
    /\ flags' = flags \union {"RESIDENT"}
    /\ UNCHANGED <<wake, verb, task>>

SignalResume ==
    /\ SupGo("signal_resume", "set_running")
    /\ wake' = wake \union {"resume"}
    /\ UNCHANGED <<flags, verb, task>>

SetRunning ==
    /\ SupGo("set_running", "idle")
    /\ flags' = flags \union {"RUNNING"}
    /\ verb' = "none"
    /\ UNCHANGED <<wake, task>>

\* stop_node and the waves act on running nodes only.
Stop ==
    /\ SupGo("idle", "set_shutdown")
    /\ "RUNNING" \in flags
    /\ verb' \in {"stop", "wave"}
    /\ UNCHANGED <<flags, wake, task>>

SetShutdown ==
    /\ SupGo("set_shutdown", "signal_shutdown")
    /\ flags' = flags \union {"SHUTDOWN"}
    /\ UNCHANGED <<wake, verb, task>>

SignalShutdown ==
    /\ SupGo("signal_shutdown", "check_dropped")
    /\ wake' = wake \union {"shutdown"}
    /\ UNCHANGED <<flags, verb, task>>

\* stop_node reads DROPPED once and then waits on dropped_wake; a wave reads
\* it again after every STOP_EVT.
CheckDropped ==
    /\ SupGo("check_dropped",
             IF HasDropped THEN "set_down"
             ELSE IF verb = "stop" THEN "wait_dropped" ELSE "wave_wait")
    /\ UNCHANGED <<flags, wake, verb, task>>

WaitDropped ==
    /\ "dropped" \in wake
    /\ SupGo("wait_dropped", "set_down")
    /\ wake' = wake \ {"dropped"}
    /\ UNCHANGED <<flags, verb, task>>

WaveWake ==
    /\ "stop" \in wake
    /\ SupGo("wave_wait", "check_dropped")
    /\ wake' = wake \ {"stop"}
    /\ UNCHANGED <<flags, verb, task>>

\* ShutdownTimeout.  An ack that landed before the timer is polled wins.
AckTimeout ==
    /\ \/ /\ \/ SupGo("wait_dropped", "idle") /\ "dropped" \notin wake
             \/ SupGo("wave_wait", "idle") /\ ~HasDropped
          /\ verb' = "none"
       \/ SupGo("wave_wait", "check_dropped") /\ HasDropped /\ UNCHANGED verb
    /\ UNCHANGED <<flags, wake, task>>

SetDown ==
    /\ SupGo("set_down", "idle")
    /\ flags' = flags \ {"RUNNING"}
    /\ verb' = "none"
    /\ UNCHANGED <<wake, task>>

Sup ==
    \/ BringUp \/ SelectVerb \/ ResumeNode \/ Settle \/ GateWake
    \/ GateDeadline \/ ResetFlags \/ ResetShutdownWake \/ ResetDroppedWake
    \/ LaunchResident \/ LaunchSpawn \/ LaunchBusy \/ ExecutorPass
    \/ ClearIdle \/ SignalStart \/ MarkResident \/ SignalResume \/ SetRunning
    \/ Stop \/ SetShutdown \/ SignalShutdown \/ CheckDropped \/ WaitDropped
    \/ WaveWake \/ AckTimeout \/ SetDown

----------------------------------------------------------------------------
(* Task side.                                                              *)

TaskGo(from, to) ==
    /\ MayStep("task")
    /\ task = from
    /\ task' = to
    /\ UNCHANGED <<cfg, sup, verb>>

\* First poll of a spawned task.  A shell whose resources are gone by then
\* exits at once (mark_lost_resource).
Begin ==
    /\ \/ TaskGo("begin", "work")
       \/ Resident /\ TaskGo("begin", "set_completed")
    /\ UNCHANGED <<flags, wake, ackFor>>

\* The worker returns: on its own, or after a run_cancellable abort.
Return ==
    /\ TaskGo("work", "set_completed")
    /\ UNCHANGED <<flags, wake, ackFor>>

\* run_cancellable_acked and run_pausable: the worker is dropped, then acked.
\* The flag is looked at first; the latch is consumed only without it.
SeeShutdown ==
    /\ ShutdownSeen
    /\ TaskGo("work", "ack_running")
    /\ ackFor' = IF cfg.mode = "Pause" THEN "park" ELSE "exit"
    /\ wake' = IF "SHUTDOWN" \in flags THEN wake ELSE wake \ {"shutdown"}
    /\ UNCHANGED flags

\* A worker may still have cleanup to await between its ack and its return;
\* a spawn: task that acked need not call mark_exited.
Cleanup ==
    /\ \/ TaskGo("cleanup", "set_completed")
       \/ ~Resident /\ TaskGo("cleanup", "return")
    /\ UNCHANGED <<flags, wake, ackFor>>

\* mark_exited(): record the completion, then settle_dropped.
SetCompleted ==
    /\ TaskGo("set_completed", "ack_running")
    /\ flags' = flags \union {"COMPLETED"}
    /\ ackFor' = "done"
    /\ UNCHANGED wake

\* Faulty variant: dropped_wake is signalled before DROPPED is set.
AckSignalledFirst ==
    /\ TaskGo("ack_running", "ack_dropped")
    /\ flags' = flags \ {"RUNNING"}
    /\ wake' = wake \union {"dropped"}
    /\ UNCHANGED ackFor

\* Faulty variant: RUNNING is left to the supervisor.
AckKeepingRunning ==
    /\ TaskGo("ack_running", "ack_dropped")
    /\ UNCHANGED <<flags, wake, ackFor>>

\* settle_dropped(), store by store.
AckRunning ==
    /\ TaskGo("ack_running", "ack_dropped")
    /\ flags' = flags \ {"RUNNING"}
    /\ UNCHANGED <<wake, ackFor>>

AckDropped ==
    /\ TaskGo("ack_dropped", "ack_wake")
    /\ flags' = flags \union {"DROPPED"}
    /\ UNCHANGED <<wake, ackFor>>

AckWake ==
    /\ TaskGo("ack_wake", "ack_evt")
    /\ wake' = wake \union {"dropped"}
    /\ UNCHANGED <<flags, ackFor>>

AfterAck ==
    IF ackFor = "park" THEN "parked"
    ELSE IF ackFor = "exit" THEN "cleanup"
    ELSE IF Resident THEN "set_idle" ELSE "return"

\* Faulty variant: the waves are not told of the ack.
AckUnannounced ==
    /\ TaskGo("ack_evt", AfterAck)
    /\ ackFor' = "none"
    /\ UNCHANGED <<flags, wake>>

AckEvt ==
    /\ TaskGo("ack_evt", AfterAck)
    /\ wake' = wake \union {"stop"}
    /\ ackFor' = "none"
    /\ UNCHANGED flags

\* wait_resume()
WaitResume ==
    /\ "resume" \in wake
    /\ TaskGo("parked", "work")
    /\ wake' = wake \ {"resume"}
    /\ UNCHANGED <<flags, ackFor>>

\* __sv_park(): publish IDLE, poke the gates, wait while IDLE is set.
SetIdle ==
    /\ TaskGo("set_idle", "gate_evt")
    /\ flags' = flags \union {"IDLE"}
    /\ UNCHANGED <<wake, ackFor>>

GateEvt ==
    /\ TaskGo("gate_evt", "check_idle")
    /\ wake' = wake \union {"gate"}
    /\ UNCHANGED <<flags, ackFor>>

\* The next activation starts in the same poll that finds IDLE cleared.
CheckIdle ==
    /\ \/ "IDLE" \in flags /\ TaskGo("check_idle", "wait_start")
       \/ "IDLE" \notin flags /\ TaskGo("check_idle", "work")
       \/ "IDLE" \notin flags /\ TaskGo("check_idle", "set_completed")
    /\ UNCHANGED <<flags, wake, ackFor>>

\* Faulty variant: the start is seen and its latch left behind.
WaitStartKeepingLatch ==
    /\ "resume" \in wake
    /\ TaskGo("wait_start", "check_idle")
    /\ UNCHANGED <<flags, wake, ackFor>>

WaitStart ==
    /\ "resume" \in wake
    /\ TaskGo("wait_start", "check_idle")
    /\ wake' = wake \ {"resume"}
    /\ UNCHANGED <<flags, ackFor>>

\* The final poll of a spawn: task returns and the executor frees its slot.
FinalPoll ==
    /\ TaskGo("return", "none")
    /\ UNCHANGED <<flags, wake, ackFor>>

Task ==
    \/ Begin \/ Return \/ SeeShutdown \/ Cleanup \/ SetCompleted
    \/ AckRunning \/ AckDropped \/ AckWake \/ AckEvt \/ WaitResume
    \/ SetIdle \/ GateEvt \/ CheckIdle \/ WaitStart \/ FinalPoll

Next == Sup \/ Task

\* An executor polls every task that is woken, in turn, so the task cannot be
\* passed over forever by a supervisor that awaits.  Deadlines and the verbs
\* the application asks for are not forced, and a worker need never return by
\* itself; a supervised task does race its work against shutdown.
Fairness ==
    /\ WF_vars(Sup /\ sup \in SupStep)
    /\ WF_vars(GateWake) /\ WF_vars(ExecutorPass)
    /\ WF_vars(WaitDropped) /\ WF_vars(WaveWake)
    /\ SF_vars(Task /\ task # "work")
    /\ SF_vars(SeeShutdown)

Spec == Init /\ [][Next]_vars /\ Fairness

----------------------------------------------------------------------------
(* Properties.                                                             *)

TypeOK ==
    /\ cfg \in Cfgs
    /\ flags \subseteq Flag
    /\ wake \subseteq Wake
    /\ sup \in SupAwait \union SupStep
    /\ verb \in {"none", "start", "resume", "stop", "wave"}
    /\ task \in TaskAwait \union TaskStep
    /\ ackFor \in {"none", "park", "exit", "done"}

\* "A new activation never shares flags with the previous one's epilogue"
\* (is_settled): from the reset to the start of a resident shell, the shell
\* has made its last store to the node's flags and signals, on every
\* combination of executors.
NoOverlap ==
    (Resident /\ verb = "start"
       /\ sup \in {"reset_flags", "reset_shutdown", "reset_dropped", "launch",
                   "clear_idle"})
    => task \in {"none", "gate_evt", "check_idle", "wait_start"}

SupPreempts  == <<"sup", "task">> \in cfg.preempts
TaskPreempts == <<"task", "sup">> \in cfg.preempts

Activates ==
    task \in {"begin", "check_idle"} /\ task' \in {"work", "set_completed"}

NoStaleAck == flags \intersect {"DROPPED", "COMPLETED"} = {} /\ "dropped" \notin wake

\* The reset before a start leaves nothing of the previous instance behind:
\* an activation begins with no stale ack, neither the flags nor the latch a
\* later stop would read.
FreshActivation == [][Activates => NoStaleAck]_vars

\* FreshActivation holds for every resident shell, and for a spawn: task that
\* cannot run between the supervisor's reset and its spawn.
FreshActivationBelow ==
    [][Activates /\ (Resident \/ ~TaskPreempts) => NoStaleAck]_vars

\* A stop succeeds only on an ack of the instance it was sent to.
AckOfThisInstance == sup = "set_down" => HasDropped

\* A supervisor that runs inside the settle_dropped of a Pause task, or a spawn:
\* task that runs between the reset and the spawn, leaves a latched ack behind.
LateAck ==
    \/ cfg.mode = "Pause" /\ SupPreempts
    \/ cfg.shell = "spawn" /\ TaskPreempts

\* AckOfThisInstance holds wherever no ack can be latched late.
AckIsGenuine == LateAck \/ AckOfThisInstance

\* No instance is serving, and none was asked to.
Down ==
    \/ task \in {"none", "cleanup"}
    \/ task = "parked" /\ "resume" \notin wake
    \/ task = "wait_start" /\ "IDLE" \in flags

\* A node whose task has exited, or is parked, does not read as running once
\* the supervisor is done with it (mark_exited, ack_dropped).
DownReadsDown == sup = "idle" /\ Down => "RUNNING" \notin flags

\* DownReadsDown holds wherever the task cannot run between the supervisor's
\* spawn and its set_running, and the supervisor cannot reset a spawn: task
\* that is inside its settle_dropped.
DownReadsDownBelow ==
    TaskPreempts \/ (SupPreempts /\ ~Resident) \/ DownReadsDown

\* A parked Pause task leaves wait_resume only when the supervisor resumed it:
\* every resume is preceded by the reset that clears the ack.
ResumeIsAsked == [][task = "parked" /\ task' = "work" => ~HasDropped]_vars

\* ResumeIsAsked holds wherever the supervisor cannot run between the shell's
\* publication of IDLE and its look at it.
ResumeIsAskedBelow ==
    [][~SupPreempts /\ task = "parked" /\ task' = "work" => ~HasDropped]_vars

\* No lost start: a parked shell whose IDLE was cleared does run.
StartIsTaken ==
    (task = "wait_start" /\ "IDLE" \notin flags)
    ~> task \in {"work", "set_completed"}

\* No lost ack: a stop whose node has set DROPPED ends by the wake alone (the
\* ack deadline, which the fairness does not force, is not needed).
AckIsSeen ==
    (sup \in {"wait_dropped", "wave_wait"} /\ HasDropped)
    ~> sup \in {"set_down", "idle"}

----------------------------------------------------------------------------
(* The lifecycle this implements.                                          *)

\* An instance runs from the moment it is launched, or told to resume, until
\* its acknowledgement is stored or it returns.
Serving ==
    \/ task \in {"begin", "work"}
    \/ task \in {"ack_running", "ack_dropped"} /\ ackFor # "done"
    \/ task = "parked" /\ "resume" \in wake /\ ~HasDropped
    \/ task \in {"gate_evt", "check_idle", "wait_start"} /\ "IDLE" \notin flags

Place ==
    IF Serving THEN "running"
    ELSE IF task = "parked" \/ ackFor = "park" THEN "parked" ELSE "down"

\* The nodes it is claimed of: a `task:` node whose supervisor, if it is to park,
\* cannot run inside its acknowledgement, and a `spawn:` node that shares the
\* supervisor's executor.
Drawn ==
    IF Resident THEN cfg.mode = "Terminate" \/ ~SupPreempts ELSE cfg.preempts = {}

L == INSTANCE Lifecycle WITH
    mode <- cfg.mode,
    place <- IF Drawn THEN Place ELSE "down",
    standing <- Drawn /\ flags \intersect {"SHUTDOWN", "DROPPED"} # {}

\* The flag word and the wakes implement the lifecycle the tools draw: an
\* instance is started or resumed only once the last stop and its ack are
\* cleared, no stop is revoked under a running instance, and every stop is
\* honoured.
ImplementsLifecycle == L!LifeSpec
=============================================================================
