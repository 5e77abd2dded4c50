------------------------------- MODULE Fence -------------------------------
(***************************************************************************)
(* An executor slot and its fence: the supervisor, on one core, spawns a   *)
(* `spawn:` node through a SpawnerSlot onto the executor of another core   *)
(* (or of a lower tier), which polls one task at a time: the node's old    *)
(* instance, then the fence.  The application fills the slot at any time.  *)
(***************************************************************************)
EXTENDS Naturals

CONSTANT
    PassMod     \* 2^16: where the count of passes wraps

ASSUME PassModAssumption == PassMod \in Nat /\ PassMod > 1

VARIABLES
    spawner,    \* SpawnerSlot::slot is filled
    fill,       \* SpawnerSlot::filled is latched
    gateEvt,    \* GATE_EVT is latched
    setter,     \* where the application's set() is
    fenceUp,    \* fence_up
    fenceLive,  \* the fence task is spawned on the tier
    fenceReq,   \* fence_req is latched
    passes,     \* completed passes, wrapping
    polling,    \* what the tier's executor is polling: "none", "old", "fence"
    old,        \* the node's task: "free", "run", or "acked" (in its last poll)
    fsup,       \* where the supervisor is
    seen        \* the passes it saw before its request

fenceVars == <<spawner, fill, gateEvt, setter, fenceUp, fenceLive, fenceReq,
               passes, polling, old, fsup, seen>>

FenceInit ==
    /\ spawner = FALSE /\ fill = FALSE /\ gateEvt = FALSE
    /\ setter = "out" /\ fenceUp = FALSE /\ fenceLive = FALSE
    /\ fenceReq = FALSE /\ passes = 0
    /\ polling = "none" /\ old = "free"
    /\ fsup = "idle" /\ seen = 0

----------------------------------------------------------------------------
(* The application: set(), which may be called again (last set wins).      *)

SetGo(from, to) ==
    /\ setter = from
    /\ setter' = to
    /\ UNCHANGED <<fenceReq, passes, polling, old, fsup, seen>>

SetSlot ==
    /\ SetGo("out", "fence")
    /\ spawner' = TRUE
    /\ UNCHANGED <<fill, gateEvt, fenceUp, fenceLive>>

\* The fence is spawned on the first fill: fence_up is swapped first ...
SetFence ==
    /\ SetGo("fence", IF fenceUp THEN "signal" ELSE "spawn")
    /\ fenceUp' = TRUE
    /\ UNCHANGED <<spawner, fill, gateEvt, fenceLive>>

\* ... and put back if the spawn fails.
SpawnFence ==
    /\ SetGo("spawn", "signal")
    /\ fenceLive' \in BOOLEAN
    /\ fenceUp' = fenceLive'
    /\ UNCHANGED <<spawner, fill, gateEvt>>

SetSignal ==
    /\ SetGo("signal", "out")
    /\ fill' = TRUE /\ gateEvt' = TRUE
    /\ UNCHANGED <<spawner, fenceUp, fenceLive>>

----------------------------------------------------------------------------
(* The tier.                                                               *)

TierGo(from, to) ==
    /\ polling = from
    /\ polling' = to
    /\ UNCHANGED <<spawner, fill, setter, fenceUp, fenceLive, fsup, seen>>

PollOld ==
    /\ old = "run"
    /\ TierGo("none", "old")
    /\ UNCHANGED <<gateEvt, fenceReq, passes, old>>

\* The old instance acks its stop in the middle of its last poll ...
AckInPoll ==
    /\ old = "run"
    /\ TierGo("old", "old")
    /\ old' = "acked"
    /\ UNCHANGED <<gateEvt, fenceReq, passes>>

\* ... and its storage is free only when that poll has returned.
PollReturns ==
    /\ TierGo("old", "none")
    /\ old' = IF old = "acked" THEN "free" ELSE old
    /\ UNCHANGED <<gateEvt, fenceReq, passes>>

\* __sv_fence_loop: take the request, count the pass, poke the gates.
PollFence ==
    /\ fenceLive /\ fenceReq
    /\ TierGo("none", "fence")
    /\ fenceReq' = FALSE
    /\ UNCHANGED <<gateEvt, passes, old>>

\* Faulty variant: the pass is counted and nobody is woken.
CountUnannounced ==
    /\ TierGo("fence", "none")
    /\ passes' = (passes + 1) % PassMod
    /\ UNCHANGED <<gateEvt, fenceReq, old>>

CountPass ==
    /\ TierGo("fence", "none")
    /\ passes' = (passes + 1) % PassMod
    /\ gateEvt' = TRUE
    /\ UNCHANGED <<fenceReq, old>>

----------------------------------------------------------------------------
(* The supervisor.                                                         *)

FSupGo(from, to) ==
    /\ fsup = from
    /\ fsup' = to
    /\ UNCHANGED <<spawner, setter, fenceUp, fenceLive, passes, polling>>

\* await_spawn_slot: ready(), bounded by slot_timeout.  The node is down: it
\* was never started, or it acked.
AwaitSlot ==
    /\ old # "run"
    /\ FSupGo("idle", "ready")
    /\ UNCHANGED <<fill, gateEvt, fenceReq, old, seen>>

CheckSlot ==
    /\ FSupGo("ready", IF spawner THEN "spawn" ELSE "slot_wait")
    /\ UNCHANGED <<fill, gateEvt, fenceReq, old, seen>>

SlotWake ==
    /\ fill
    /\ FSupGo("slot_wait", "ready")
    /\ fill' = FALSE
    /\ UNCHANGED <<gateEvt, fenceReq, old, seen>>

\* ExecutorSlotEmpty
SlotTimeout ==
    /\ FSupGo("slot_wait", "idle")
    /\ UNCHANGED <<fill, gateEvt, fenceReq, old, seen>>

SpawnOk ==
    /\ old = "free"
    /\ \E from \in {"spawn", "respawn"} : FSupGo(from, "idle")
    /\ old' = "run"
    /\ UNCHANGED <<fill, gateEvt, fenceReq, seen>>

\* Busy: a fault at the deadline, else executor_pass.
SpawnBusy ==
    /\ old # "free"
    /\ \E from \in {"spawn", "respawn"}, to \in {"idle", "snapshot"} : FSupGo(from, to)
    /\ UNCHANGED <<fill, gateEvt, fenceReq, old, seen>>

Snapshot ==
    /\ FSupGo("snapshot", "request")
    /\ seen' = passes
    /\ UNCHANGED <<fill, gateEvt, fenceReq, old>>

RequestPass ==
    /\ FSupGo("request", IF fenceUp THEN "pass" ELSE "no_fence")
    /\ fenceReq' = (fenceReq \/ fenceUp)
    /\ UNCHANGED <<fill, gateEvt, old, seen>>

\* Faulty variant: any gate event passes for the fence's.
PassOnAnyEvent ==
    /\ FSupGo("pass", "pass_wait")  \/ FSupGo("pass", "respawn")
    /\ UNCHANGED <<fill, gateEvt, fenceReq, old, seen>>

CheckPass ==
    /\ FSupGo("pass", IF passes # seen THEN "respawn" ELSE "pass_wait")
    /\ UNCHANGED <<fill, gateEvt, fenceReq, old, seen>>

PassWake ==
    /\ gateEvt
    /\ gateEvt' = FALSE
    /\ FSupGo("pass_wait", "pass") \/ FSupGo("no_fence", "spawn")
    /\ UNCHANGED <<fill, fenceReq, old, seen>>

PassDeadline ==
    /\ FSupGo("pass_wait", "spawn") \/ FSupGo("no_fence", "spawn")
    /\ UNCHANGED <<fill, gateEvt, fenceReq, old, seen>>

FSup ==
    \/ AwaitSlot \/ CheckSlot \/ SlotWake \/ SlotTimeout \/ SpawnOk \/ SpawnBusy
    \/ Snapshot \/ RequestPass \/ CheckPass \/ PassWake \/ PassDeadline

Tier == PollOld \/ AckInPoll \/ PollReturns \/ PollFence \/ CountPass

FenceNext == SetSlot \/ SetFence \/ SpawnFence \/ SetSignal \/ Tier \/ FSup

\* The tier's executor polls what is woken and a poll returns; the supervisor
\* is polled when woken.  Timeouts and deadlines are not forced.
FenceSpec ==
    /\ FenceInit /\ [][FenceNext]_fenceVars
    /\ WF_fenceVars(PollReturns) /\ WF_fenceVars(CountPass)
    /\ SF_fenceVars(PollFence)
    /\ WF_fenceVars(CheckPass) /\ WF_fenceVars(PassWake)

----------------------------------------------------------------------------
(* Properties.                                                             *)

FenceTypeOK ==
    /\ {spawner, fill, gateEvt, fenceUp, fenceLive, fenceReq} \subseteq BOOLEAN
    /\ setter \in {"out", "fence", "spawn", "signal"}
    /\ {passes, seen} \subseteq 0..(PassMod - 1)
    /\ polling \in {"none", "old", "fence"}
    /\ old \in {"free", "run", "acked"}
    /\ fsup \in {"idle", "ready", "slot_wait", "spawn", "respawn", "snapshot",
                 "request", "pass", "pass_wait", "no_fence"}

\* "by the time the fence runs, the old task's poll is over and its slot is
\* free": a spawn retried after a fence pass is not refused again.
PassFreesTask == fsup = "respawn" => old = "free"

\* A pass asked of a running fence is seen: the supervisor does not wait for its
\* deadline (executor_pass: "snapshot before requesting").
PassIsSeen == (fsup = "pass_wait" /\ fenceLive) ~> fsup # "pass_wait"

\* Nothing the supervisor is parked on in a spawn is lost.  Waiting for a pass, it
\* has the gate event latched, or no pass has been counted and its request is
\* latched or being served; waiting for a slot that has been filled, it has the
\* fill latched, or set() is on its way to it.
PassIsOwed ==
    /\ fsup = "pass_wait" =>
           gateEvt \/ (passes = seen /\ (fenceReq \/ polling = "fence"))
    /\ fsup = "slot_wait" /\ spawner => fill \/ setter # "out"
=============================================================================
