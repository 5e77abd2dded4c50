-------------------------------- MODULE Ota --------------------------------
(***************************************************************************)
(* The demo firmware's update: the OTA task drains the HTTP pool and the   *)
(* network through the control mailbox, stages an image in the DFU         *)
(* partition and resets; the bootloader (embassy-boot, external) swaps it  *)
(* in, and back out unless ota_confirm has marked it as good.  The chip    *)
(* may lose power, or be reset by its watchdog, between any two steps.     *)
(* OTA, the workers, NET and ota_confirm share the thread executor, so a   *)
(* step runs from one await to the next; the supervisor interleaves.       *)
(***************************************************************************)
EXTENDS Naturals, Sequences, FiniteSets

CONSTANTS
    HTTP,       \* the HTTP pool's members; HTTP_MAX is their number
    OtaCap      \* the mailbox's capacity (the code's is 4)

\* HTTP_FLOOR is 1: the pool has a member.
ASSUME OtaAssumption == IsFiniteSet(HTTP) /\ HTTP # {} /\ OtaCap \in Nat

Images == {"A", "B"}
Other(i) == IF i = "A" THEN "B" ELSE "A"
SOCKET_BUDGET == Cardinality(HTTP)

\* The graph, as far as the update touches it; the pool is one node of it, because
\* every verb seeds all of its members.
\* ota_confirm is no target of a command here: to the others its Activate is the
\* pool's, its Deactivate and its Restart are nothing.
Nodes == {"NET", "HTTP", "OTA"}
Deps == [NET |-> {}, HTTP |-> {"NET"}, OTA |-> {"NET"}]
Floor == CHOOSE w \in HTTP : TRUE

VARIABLES
    active,     \* the ACTIVE partition: an image, or "torn"
    dfu,        \* the DFU partition
    magic,      \* the state partition: "boot", "swap"
    swapped,    \* and its progress: the swap has been done
    power,      \* "off": in reset or in the bootloader; "on"
    net,        \* net_task: "down", "new" (spawned), "up" (published), "drain"
    ready,      \* NET's readiness: it has had its address; its next start withdraws it
    workers,    \* the members that run: each owns a socket
    told,       \* those that have been asked to stop
    disabled, collateral,   \* the nodes' latches
    otaMail,    \* the control mailbox: pairs of a verb and a node
    sup,        \* the supervisor: "off"; between commands "idle"; in the down half of a
                \* deactivate or a restart "stop"; in a start wave: of restart "up", of
                \* activate "activate", or "failed" after a fault, of run() "run"
    stopping,   \* the nodes of the stop wave
    starting,   \* the nodes a start wave has yet to start; those a restart may start
    ota,        \* where the OTA task is: "off", and on
    otaHeld,    \* it holds a lease on the stack, and a socket
    staged,     \* what is in scratch: "none", "torn" or an image
    confirm,    \* ota_confirm: "off", "wait", "held" (the stack), "done"
    early,      \* history: OTA polled the pool before its stop was handled, or with the
                \* pool's return already in the mailbox
    proven      \* history: the images that have been on the network

flashVars == <<active, dfu, magic, swapped>>
netVars == <<net, ready>>
poolVars == <<workers, told>>
graphVars == <<disabled, collateral, sup, stopping, starting>>
otaVars == <<flashVars, power, netVars, poolVars, graphVars, otaMail, ota, otaHeld,
             staged, confirm, early, proven>>

\* RAM is as a reset leaves it; the graph declares OTA as disabled.
OtaInit ==
    /\ active = "A" /\ dfu = "torn" /\ magic = "boot" /\ swapped = FALSE /\ proven = {"A"}
    /\ power = "off"
    /\ net = "down" /\ ready = FALSE /\ workers = {} /\ told = {}
    /\ disabled = {"OTA"} /\ collateral = {} /\ stopping = {} /\ starting = {}
    /\ otaMail = <<>> /\ sup = "off" /\ ota = "off" /\ otaHeld = FALSE
    /\ staged = "none" /\ confirm = "off" /\ early = FALSE

----------------------------------------------------------------------------
(* The bootloader and the reset.                                           *)

\* OTA's first act.
Detached == IF ota = "off" THEN {} ELSE {"OTA"}

\* A start wave chooses at its beginning, by the latches and by what is not running.
Chosen(nodes, latched) ==
    {n \in nodes \ (latched \union Detached) :
        /\ n = "NET" => net = "down"
        /\ n = "HTTP" => Floor \notin workers}

\* app_supervisor's loop: run(), from the start of whatever may start.
Rerun ==
    sup' = "run" /\ stopping' = {} /\ starting' = Chosen(Nodes, disabled \union collateral)

\* BootLoader::prepare (external): an armed swap is done, one that was done and
\* never confirmed is undone.
Bootloader ==
    /\ power = "off"
    /\ power' = "on" /\ Rerun
    /\ IF magic = "swap"
       THEN /\ active' = dfu /\ dfu' = active
            /\ swapped' = ~swapped
            /\ magic' = IF swapped THEN "boot" ELSE "swap"
       ELSE UNCHANGED flashVars
    /\ UNCHANGED <<netVars, poolVars, disabled, collateral, otaMail, ota, otaHeld,
                   staged, confirm, early, proven>>

\* sys_reset, trigger_reset, the 8 s watchdog or the power: RAM is gone.
Reset ==
    /\ power = "on"
    /\ power' = "off"
    /\ net' = "down" /\ ready' = FALSE /\ workers' = {} /\ told' = {}
    /\ disabled' = {"OTA"} /\ collateral' = {} /\ stopping' = {} /\ starting' = {}
    /\ otaMail' = <<>> /\ sup' = "off" /\ ota' = "off" /\ otaHeld' = FALSE
    /\ staged' = "none" /\ confirm' = "off" /\ early' = FALSE
    /\ UNCHANGED <<flashVars, proven>>

Crash == Reset

----------------------------------------------------------------------------
(* The network and the workers.                                            *)

\* None of the steps below, up to OTA's own, touches the flash or OTA's work.
ServeFrame == UNCHANGED <<flashVars, power, otaHeld, staged, early>>

Leases == Cardinality(workers) + (IF otaHeld THEN 1 ELSE 0)
                               + (IF confirm = "held" THEN 1 ELSE 0)

OtaSend(c) ==
    /\ Len(otaMail) < OtaCap
    /\ otaMail' = Append(otaMail, c)

\* net_task reopens and publishes the stack; wait_config_up, then set_ready.
NetPublish ==
    /\ net = "new" /\ net' = "up"
    /\ ServeFrame
    /\ UNCHANGED <<ready, poolVars, graphVars, otaMail, ota, confirm, proven>>

NetReady ==
    /\ net = "up" /\ ~ready
    /\ ready' = TRUE /\ proven' = proven \union {active}
    /\ ServeFrame /\ UNCHANGED <<net, poolVars, graphVars, otaMail, ota, confirm>>

\* drain() has seen the last lease go; unpublish, acknowledge.
NetDrained ==
    /\ net = "drain" /\ Leases = 0
    /\ net' = "down"
    /\ ServeFrame
    /\ UNCHANGED <<ready, poolVars, graphVars, otaMail, ota, confirm, proven>>

\* A worker acknowledges its stop and, before its executor polls anything else,
\* drops its socket and its lease.
Quit(w) ==
    /\ w \in told
    /\ workers' = workers \ {w} /\ told' = told \ {w}
    /\ ServeFrame /\ UNCHANGED <<netVars, graphVars, otaMail, ota, confirm, proven>>

\* run_pools, between two commands, grows the pool by an OnDemand member, though no
\* other runs, or asks one to stop.
Grow(w) ==
    /\ sup = "idle" /\ net = "up" /\ ready /\ "HTTP" \notin disabled \union collateral
    /\ w \in HTTP \ (workers \union {Floor})
    /\ workers' = workers \union {w}
    /\ ServeFrame /\ UNCHANGED <<netVars, told, graphVars, otaMail, ota, confirm, proven>>

Shrink(w) ==
    /\ sup = "idle" /\ w \in workers \ {Floor}
    /\ told' = told \union {w}
    /\ ServeFrame
    /\ UNCHANGED <<netVars, workers, graphVars, otaMail, ota, confirm, proven>>

\* /api/ota, /api/control: a worker posts any verb for any node, if there is room.
Post ==
    /\ workers # {}
    /\ \E op \in {"activate", "deactivate", "restart"}, n \in Nodes : OtaSend(<<op, n>>)
    /\ ServeFrame /\ UNCHANGED <<netVars, poolVars, graphVars, ota, confirm, proven>>

Serve ==
    \/ NetPublish \/ NetReady \/ NetDrained \/ Post
    \/ \E w \in HTTP : Quit(w) \/ Grow(w) \/ Shrink(w)

----------------------------------------------------------------------------
(* The supervisor: a command, its stop wave and its start wave.            *)

GraphFrame == ServeFrame /\ UNCHANGED proven

\* The target and its dependents, less the detached ones; a deactivate latches all
\* of them, a restart keeps the set for its up half.
Subtree(n) == ({n} \union {m \in Nodes : n \in Deps[m]}) \ Detached

DeactivateNode(n) ==
    /\ disabled' = disabled \union (Subtree(n) \intersect {n})
    /\ collateral' = collateral \union (Subtree(n) \ {n})
    /\ stopping' = Subtree(n) /\ starting' = {} /\ sup' = "stop"

\* NET has a restart budget: over it, RestartStorm ends run().
RestartNode(n) ==
    /\ \/ stopping' = Subtree(n) /\ starting' = Subtree(n) /\ sup' = "stop"
       \/ n = "NET" /\ Rerun
    /\ UNCHANGED <<disabled, collateral>>

\* Target and dependencies are enabled; what was collateral and has no disabled
\* dependency any more is revived.
Wanted(n) == {n} \union Deps[n]

ActivateNode(n) ==
    /\ disabled' = disabled \ ((IF n \in Detached THEN {n} ELSE Wanted(n)) \ Detached)
    /\ LET revived == {m \in collateral \ Detached : Deps[m] \intersect disabled' = {}} IN
       /\ collateral' = collateral \ revived
       /\ starting' = Chosen(revived \union (IF n \in Detached THEN {} ELSE Wanted(n)),
                             disabled' \union collateral')
    /\ stopping' = {} /\ sup' = "activate"

Command ==
    /\ sup = "idle" /\ otaMail # <<>>
    /\ otaMail' = Tail(otaMail)
    /\ \E n \in Nodes :
          \/ Head(otaMail) = <<"activate", n>> /\ ActivateNode(n)
          \/ Head(otaMail) = <<"deactivate", n>> /\ DeactivateNode(n)
          \/ Head(otaMail) = <<"restart", n>> /\ RestartNode(n)
    /\ GraphFrame /\ UNCHANGED <<net, ready, poolVars, ota, confirm>>

\* Dependents first: the workers are asked, then NET; it leaves what it serves, and
\* drains.
Going ==
    {n \in stopping : \/ n = "NET" /\ net # "down"
                      \/ n = "HTTP" /\ workers # {}}

TellWorkers ==
    /\ sup = "stop" /\ "HTTP" \in Going
    /\ told' = workers
    /\ GraphFrame /\ UNCHANGED <<net, ready, workers, graphVars, otaMail, ota, confirm>>

TellNet ==
    /\ sup = "stop" /\ Going = {"NET"} /\ net \in {"new", "up"}
    /\ net' = "drain"
    /\ GraphFrame /\ UNCHANGED <<ready, poolVars, graphVars, otaMail, ota, confirm>>

Stopped ==
    /\ sup = "stop" /\ Going = {}
    /\ stopping' = {} /\ sup' = IF starting = {} THEN "idle" ELSE "up"
    /\ starting' = Chosen(starting, disabled \union collateral)
    /\ GraphFrame
    /\ UNCHANGED <<net, ready, poolVars, disabled, collateral, otaMail, ota, confirm>>

\* The wave's deadline, or that of a member run_pools stops: ShutdownTimeout ends
\* run().
AckMissed ==
    /\ \/ sup = "stop" /\ Going # {}
       \/ sup = "idle" /\ told # {}
    /\ Rerun
    /\ GraphFrame
    /\ UNCHANGED <<net, ready, poolVars, disabled, collateral, otaMail, ota, confirm>>

Waves == {"up", "activate", "failed", "run"}

\* A start wave starts, in any order, the nodes whose dependencies it need not wait for.
Turn(n) == sup \in Waves /\ n \in starting /\ Deps[n] \intersect starting = {}

\* The instance of each node; the gate is readiness alone, which outlives NET's run,
\* and a worker that cannot have its lease returns at once.
Spawn(n) ==
    \/ /\ n = "NET" /\ net' = "new" /\ ready' = FALSE
       /\ UNCHANGED <<poolVars, ota>>
    \/ /\ n = "HTTP" /\ ready
       /\ workers' = IF net = "up" THEN workers \union {Floor} ELSE workers
       /\ UNCHANGED <<net, ready, told, ota>>
    \/ /\ n = "OTA" /\ ready /\ ota' = "ask"
       /\ UNCHANGED <<net, ready, poolVars>>

StartNext(n) ==
    /\ Turn(n) /\ Spawn(n)
    /\ starting' = starting \ {n}
    /\ GraphFrame /\ UNCHANGED <<disabled, collateral, sup, stopping, otaMail, confirm>>

\* A gate or the spawn failed: activate goes on to the end of its wave, restart's wave
\* ends and absorbs the fault, run()'s ends it.
StartFault(n) ==
    /\ Turn(n)
    /\ \/ /\ sup \in {"activate", "failed"}
          /\ sup' = "failed" /\ starting' = starting \ {n} /\ UNCHANGED stopping
       \/ sup = "up" /\ sup' = "idle" /\ starting' = {} /\ UNCHANGED stopping
       \/ sup = "run" /\ Rerun
    /\ GraphFrame
    /\ UNCHANGED <<net, ready, poolVars, disabled, collateral, otaMail, ota, confirm>>

Started ==
    /\ sup \in Waves /\ starting = {}
    /\ IF sup = "failed" THEN Rerun ELSE sup' = "idle" /\ UNCHANGED <<stopping, starting>>
    /\ GraphFrame
    /\ UNCHANGED <<net, ready, poolVars, disabled, collateral, otaMail, ota, confirm>>

Graph ==
    \/ Command \/ TellWorkers \/ TellNet \/ Stopped \/ AckMissed \/ Started
    \/ \E n \in Nodes : StartNext(n) \/ StartFault(n)

----------------------------------------------------------------------------
(* ota_task.                                                               *)

OtaFrame == UNCHANGED <<power, netVars, poolVars, graphVars, confirm, proven>>

\* run: the target is taken; HTTP is asked to stop.
AskHttp ==
    /\ ota = "ask"
    /\ OtaSend(<<"deactivate", "HTTP">>) /\ ota' = "poll"
    /\ OtaFrame /\ UNCHANGED <<flashVars, otaHeld, staged, early>>

\* The pool is disabled, and no command that enables it is queued.
PoolIsOut ==
    /\ "HTTP" \in disabled
    /\ \A i \in 1..Len(otaMail), n \in Nodes :
          otaMail[i] = <<"activate", n>> => "HTTP" \notin Wanted(n)

\* The stack is leased and a socket opened on it, unless net is down or draining.
OpenSocket ==
    /\ ota' = IF net = "up" THEN "receive" ELSE "fail"
    /\ otaHeld' = (net = "up")
    /\ early' = ~PoolIsOut
    /\ OtaFrame /\ UNCHANGED <<flashVars, otaMail, staged>>

\* Faulty variant: goes by is_disabled, set when the stop is merely requested.
PolledDisabled == ota = "poll" /\ "HTTP" \in disabled /\ OpenSocket

\* No member is_running.
PolledHttp == ota = "poll" /\ workers = {} /\ OpenSocket

\* download_to_scratch: chunks, to the end of the body, which a peer that
\* closes early ends too; or an error (the transfer's, or more than SCRATCH_LEN).
\* Both give the lease and the socket back.
Download ==
    /\ ota = "receive"
    /\ otaHeld' = FALSE
    /\ \/ staged' \in {Other(active), "torn"} /\ ota' = "loaded"
       \/ staged' = "torn" /\ ota' = "fail"
    /\ OtaFrame /\ UNCHANGED <<flashVars, otaMail, early>>

\* NET is asked to stop.
AskNet ==
    /\ ota = "loaded"
    /\ OtaSend(<<"deactivate", "NET">>) /\ ota' = "drain"
    /\ OtaFrame /\ UNCHANGED <<flashVars, otaHeld, staged, early>>

\* apply, once the stack is unpublished: write_firmware refuses to touch DFU
\* while the running image is unconfirmed (external); a torn image does not
\* decode, but DFU has been overwritten up to there.
Decode ==
    /\ ota = "drain" /\ net \in {"down", "new"}
    /\ IF magic = "swap"
       THEN ota' = "fail" /\ UNCHANGED dfu
       ELSE dfu' = staged /\ ota' = IF staged = "torn" THEN "fail" ELSE "mark"
    /\ OtaFrame /\ UNCHANGED <<active, magic, swapped, otaMail, otaHeld, staged, early>>

\* mark_updated: the swap is armed; the image coming has yet to prove itself.
MarkUpdated ==
    /\ ota = "mark"
    /\ magic' = "swap" /\ swapped' = FALSE /\ proven' = proven \ {dfu}
    /\ ota' = "reset"
    /\ UNCHANGED <<active, dfu, power, netVars, poolVars, graphVars, otaMail, otaHeld,
                   staged, confirm, early>>

\* Whatever happened, a reset ends the task.
OtaReset == ota \in {"reset", "fail"} /\ Reset

OtaTask ==
    \/ AskHttp \/ PolledHttp \/ Download \/ AskNet \/ Decode \/ MarkUpdated
    \/ OtaReset

----------------------------------------------------------------------------
(* ota_confirm.                                                            *)

ConfirmFrame ==
    UNCHANGED <<power, netVars, poolVars, graphVars, ota, otaHeld, staged, early, proven>>

\* The end of a wave reaches it; detached by its first act, it is not stopped.
ConfirmRun ==
    /\ sup \in Waves /\ starting = {} /\ ready
    /\ confirm = "off" /\ confirm' = "wait"
    /\ ConfirmFrame /\ UNCHANGED <<flashVars, otaMail>>

\* stack_ready's ensure: a NET that is down is asked for, and again after a while.
ConfirmAsk ==
    /\ confirm = "wait" /\ net = "down"
    /\ OtaSend(<<"activate", "NET">>)
    /\ ConfirmFrame /\ UNCHANGED <<flashVars, confirm>>

\* stack_ready waits for NET to serve, then leases its stack; None if it drains.
ConfirmOpen ==
    /\ confirm = "wait" /\ net # "down" /\ ready
    /\ confirm' = IF net = "up" THEN "held" ELSE "done"
    /\ ConfirmFrame /\ UNCHANGED <<flashVars, otaMail>>

\* Faulty variant: confirms at start-up, before the network.
MarkBootedEarly ==
    /\ confirm = "off" /\ power = "on"
    /\ confirm' = "done"
    /\ magic' = "boot"
    /\ ConfirmFrame /\ UNCHANGED <<active, dfu, swapped, otaMail>>

\* wait_config_up (NET had its address, and may have lost it for a while), then
\* mark_booted, which finds FLASH_DEV empty while OTA runs.  The lease goes with it.
MarkBooted ==
    /\ confirm = "held"
    /\ confirm' = "done"
    /\ magic' = IF ota = "off" THEN "boot" ELSE magic
    /\ swapped' = IF ota = "off" THEN FALSE ELSE swapped
    /\ ConfirmFrame /\ UNCHANGED <<active, dfu, otaMail>>

Confirm == ConfirmRun \/ ConfirmAsk \/ ConfirmOpen \/ MarkBooted

OtaNext == Bootloader \/ Crash \/ Serve \/ Graph \/ OtaTask \/ Confirm

OtaSpec == OtaInit /\ [][OtaNext]_otaVars

OtaTypeOK ==
    /\ {active, dfu} \subseteq Images \union {"torn"} /\ magic \in {"boot", "swap"}
    /\ {swapped, ready, otaHeld} \subseteq BOOLEAN
    /\ power \in {"off", "on"} /\ net \in {"down", "new", "up", "drain"}
    /\ told \subseteq workers /\ workers \subseteq HTTP /\ proven \subseteq Images
    /\ disabled \union collateral \union stopping \union starting \subseteq Nodes
    /\ Len(otaMail) <= OtaCap
    /\ sup \in {"off", "idle", "stop"} \union Waves
    /\ ota \in {"off", "ask", "poll", "receive", "loaded", "drain", "mark",
               "reset", "fail"}
    /\ staged \in Images \union {"none", "torn"}
    /\ confirm \in {"off", "wait", "held", "done"}

----------------------------------------------------------------------------
(* Properties.                                                             *)

\* Wherever the power goes, the partition that is started holds a whole image;
\* and while that image is on trial the one to fall back to is whole.
NeverBricked ==
    power = "on" => /\ active # "torn"
                    /\ magic = "swap" /\ swapped => dfu # "torn"

\* "once the network is up": an image is kept only after it has been reached.
KeptIsProven == power = "on" /\ magic = "boot" => active \in proven

\* An update never costs the device its image, nor trusts one too early.
UpdateIsSafe == NeverBricked /\ KeptIsProven

\* "else 2 workers + download = 3 would exceed the 2-socket budget": the download's
\* socket is opened when the workers' are gone, and none of them comes back while it
\* is open, through whatever commands, restarts, faults and timeouts.  Excepted is what
\* is_running cannot tell OTA: that it saw no worker run before its stop was handled
\* (in the middle of a restart of NET, say), or with an Activate of the pool queued
\* behind its stop.
SocketsInBudgetBelow ==
    early \/ Cardinality(workers) + (IF otaHeld THEN 1 ELSE 0) <= SOCKET_BUDGET
=============================================================================
