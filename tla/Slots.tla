------------------------------- MODULE Slots -------------------------------
(***************************************************************************)
(* Resource slots: a consumer node with two `resources:` entries, DEV (an  *)
(* owned singleton main moved in, always lent) and RES (rebuilt by a       *)
(* provider node on each activation, `provides: [RES]`), the consumer's    *)
(* task shell, and the supervisor's start_node for it.  Everybody may be   *)
(* on an executor of their own.                                            *)
(***************************************************************************)
EXTENDS Naturals, Sequences

CONSTANTS
    ResKinds,   \* the kinds RES is declared with: subset of ResourceKind
    MaxGen      \* bound: activations of the provider

ResourceKind == {"lend", "consume", "shared"}

ASSUME ResKindsAssumption == ResKinds \subseteq ResourceKind
ASSUME MaxGenAssumption == MaxGen \in Nat \ {0}

SlotName == {"DEV", "RES"}

VARIABLES
    declared,       \* the consumer's resources: clause, in order
    kind,       \* of RES
    slot,       \* the value in each slot; 0 is None, a provider's value is
                \*   the number of the activation that built it
    filled,     \* the slots whose filled signal is latched
    held,       \* the values the consumer's shell has taken
    shell,      \* where the shell is
    at,         \* the entry (index into declared) the shell or the gate is at
    running,    \* the consumer's RUNNING flag
    gate,       \* where the supervisor's start of the consumer is
    gateAt,     \* the entry whose gate it is at
    prov,       \* where the provider is
    gen         \* activations of the provider so far

slotVars == <<declared, kind, slot, filled, held, shell, at, running, gate, gateAt,
              prov, gen>>

Kind(r) == IF r = "DEV" THEN "lend" ELSE kind

Empty == [r \in SlotName |-> 0]

SlotsInit ==
    /\ declared \in {<<"DEV", "RES">>, <<"RES", "DEV">>}
    /\ kind \in ResKinds
    /\ slot = [Empty EXCEPT !["DEV"] = 1]
    /\ filled = {"DEV"}
    /\ held = Empty
    /\ shell = "parked" /\ at = 1
    /\ running = FALSE
    /\ gate = "idle" /\ gateAt = 1
    /\ prov = "down" /\ gen = 0

----------------------------------------------------------------------------
(* The slot.                                                               *)

IsFilled(r) == slot[r] # 0

\* Faulty variant: the value moves in and nobody is told.
ProvideUnsignalled(r, v) ==
    /\ slot' = [slot EXCEPT ![r] = v]
    /\ UNCHANGED filled

\* provide and restore: the value replaces whatever was there.
Provide(r, v) ==
    /\ slot' = [slot EXCEPT ![r] = v]
    /\ filled' = filled \union {r}

----------------------------------------------------------------------------
(* The supervisor: start_node of the consumer, as far as resources go.     *)

GateGo(from, to) ==
    /\ gate = from
    /\ gate' = to
    /\ UNCHANGED <<declared, kind, slot, held, shell, at, prov, gen>>

StartConsumer ==
    /\ ~running
    /\ GateGo("idle", "check")
    /\ gateAt' = 1
    /\ UNCHANGED <<filled, running>>

\* await_resources: entry by entry, look, else wait for the latched signal.
CheckGate ==
    /\ IF IsFilled(declared[gateAt])
       THEN /\ GateGo("check", IF gateAt = Len(declared) THEN "settle" ELSE "check")
            /\ gateAt' = IF gateAt = Len(declared) THEN gateAt ELSE gateAt + 1
       ELSE GateGo("check", "wait") /\ UNCHANGED gateAt
    /\ UNCHANGED <<filled, running>>

WakeGate ==
    /\ declared[gateAt] \in filled
    /\ GateGo("wait", "check")
    /\ filled' = filled \ {declared[gateAt]}
    /\ UNCHANGED <<gateAt, running>>

\* ResourceMissing
GateTimeout ==
    /\ GateGo("wait", "idle")
    /\ UNCHANGED <<filled, gateAt, running>>

\* spawn_settled: once the shell is parked, the glue probes every slot ...
Probe ==
    /\ shell = "parked"
    /\ GateGo("settle", IF \A r \in SlotName : IsFilled(r) THEN "launch" ELSE "busy")
    /\ UNCHANGED <<filled, gateAt, running>>

\* ... and an empty one is Busy: again after a pass, or a fault at the deadline.
ProbeAgain ==
    /\ GateGo("busy", "settle") \/ GateGo("busy", "idle")
    /\ UNCHANGED <<filled, gateAt, running>>

LaunchConsumer ==
    /\ gate = "launch"
    /\ gate' = "idle"
    /\ shell' = "take" /\ at' = 1
    /\ running' = TRUE
    /\ UNCHANGED <<declared, kind, slot, filled, held, gateAt, prov, gen>>

SlotSup ==
    \/ StartConsumer \/ CheckGate \/ WakeGate \/ GateTimeout \/ Probe
    \/ ProbeAgain \/ LaunchConsumer

----------------------------------------------------------------------------
(* The consumer's shell.                                                   *)

ShellGo(from, to) ==
    /\ shell = from
    /\ shell' = to
    /\ UNCHANGED <<declared, kind, gate, gateAt, prov, gen>>

\* take() for lend and consume, get() for shared.
TakeOut(r) ==
    slot' = IF Kind(r) = "shared" THEN slot ELSE [slot EXCEPT ![r] = 0]

TakeNext ==
    /\ IsFilled(declared[at])
    /\ ShellGo("take", IF at = Len(declared) THEN "work" ELSE "take")
    /\ TakeOut(declared[at])
    /\ held' = [held EXCEPT ![declared[at]] = slot[declared[at]]]
    /\ at' = IF at = Len(declared) THEN 1 ELSE at + 1
    /\ UNCHANGED <<filled, running>>

\* mark_lost_resource, and out of the activation: what was taken before goes
\* out of scope with the block.
LostResource ==
    /\ ~IsFilled(declared[at])
    /\ ShellGo("take", "parked")
    /\ held' = Empty
    /\ running' = FALSE
    /\ UNCHANGED <<slot, filled, at>>

\* The worker returns; it may have acked a stop before (run_cancellable_acked)
\* and still have cleanup to await.  A consumed value is dropped with it.
WorkerAcks ==
    /\ ShellGo("work", "cleanup")
    /\ running' = FALSE
    /\ UNCHANGED <<slot, filled, held, at>>

WorkerEnds ==
    /\ ShellGo("work", "restore") \/ ShellGo("cleanup", "restore")
    /\ at' = 1
    /\ held' = [r \in SlotName |-> IF Kind(r) = "lend" THEN held[r] ELSE 0]
    /\ UNCHANGED <<slot, filled, running>>

\* Faulty variant: a stopped worker's resources are not put back.
RestoreAfterReturnOnly ==
    /\ ShellGo("restore", IF at = Len(declared) THEN "exit" ELSE "restore")
    /\ IF held[declared[at]] # 0 /\ running
       THEN Provide(declared[at], held[declared[at]])
       ELSE UNCHANGED <<slot, filled>>
    /\ held' = [held EXCEPT ![declared[at]] = 0]
    /\ at' = IF at = Len(declared) THEN 1 ELSE at + 1
    /\ UNCHANGED running

\* Lent values go back, in declaration order ...
Restore ==
    /\ ShellGo("restore", IF at = Len(declared) THEN "exit" ELSE "restore")
    /\ IF held[declared[at]] # 0
       THEN Provide(declared[at], held[declared[at]])
       ELSE UNCHANGED <<slot, filled>>
    /\ held' = [held EXCEPT ![declared[at]] = 0]
    /\ at' = IF at = Len(declared) THEN 1 ELSE at + 1
    /\ UNCHANGED running

\* ... then mark_exited and __sv_park.
ExitAndPark ==
    /\ ShellGo("exit", "parked")
    /\ running' = FALSE
    /\ UNCHANGED <<slot, filled, held, at>>

Shell ==
    \/ TakeNext \/ LostResource \/ WorkerAcks \/ WorkerEnds \/ Restore
    \/ ExitAndPark

----------------------------------------------------------------------------
(* The provider.                                                           *)

ProvGo(from, to) ==
    /\ prov = from
    /\ prov' = to
    /\ UNCHANGED <<declared, kind, held, shell, at, running, gate, gateAt>>

StartProvider ==
    /\ gen < MaxGen
    /\ ProvGo("down", "build")
    /\ gen' = gen + 1
    /\ UNCHANGED <<slot, filled>>

ProvideRes ==
    /\ ProvGo("build", "serve")
    /\ Provide("RES", gen)
    /\ UNCHANGED gen

\* Faulty variant: the leftover stays in its slot.
StopLeavingValue ==
    /\ ProvGo("build", "reset") \/ ProvGo("serve", "reset")
    /\ UNCHANGED <<slot, filled, gen>>

\* Ack or exit: release_provided clears the slot, then its latched signal.
ReleaseProvided ==
    /\ ProvGo("build", "reset") \/ ProvGo("serve", "reset")
    /\ slot' = [slot EXCEPT !["RES"] = 0]
    /\ UNCHANGED <<filled, gen>>

ResetFilled ==
    /\ ProvGo("reset", "down")
    /\ filled' = filled \ {"RES"}
    /\ UNCHANGED <<slot, gen>>

Provider == StartProvider \/ ProvideRes \/ ReleaseProvided \/ ResetFilled

----------------------------------------------------------------------------

SlotsNext == SlotSup \/ Shell \/ Provider

\* The executors poll a supervisor that is woken, and a provider that began to
\* clear its slot goes on.  Timeouts, starts and stops are not forced, and a
\* worker need not return.
SlotsSpec ==
    /\ SlotsInit /\ [][SlotsNext]_slotVars
    /\ WF_slotVars(WakeGate) /\ WF_slotVars(CheckGate) /\ WF_slotVars(ResetFilled)

SlotsTypeOK ==
    /\ declared \in {<<"DEV", "RES">>, <<"RES", "DEV">>}
    /\ kind \in ResKinds
    /\ slot \in [SlotName -> 0..MaxGen] /\ held \in [SlotName -> 0..MaxGen]
    /\ filled \subseteq SlotName
    /\ shell \in {"parked", "take", "work", "cleanup", "restore", "exit"}
    /\ {at, gateAt} \subseteq 1..2
    /\ running \in BOOLEAN
    /\ gate \in {"idle", "check", "wait", "settle", "busy", "launch"}
    /\ prov \in {"down", "build", "serve", "reset"}
    /\ gen \in 0..MaxGen

\* A respawn re-takes the same instance: the singleton main moved in is in its
\* slot or with the shell, in one place, whatever stops, losses and restarts
\* the consumer goes through.
SingletonKept == slot["DEV"] + held["DEV"] = 1

\* SingletonKept holds for a consumer that declares the provider's slot first:
\* nothing has been taken yet when that one turns out to be lost.
SingletonKeptBelow == declared[1] = "RES" => SingletonKept

\* The value a consumer takes from RES is of the provider's present activation,
\* which serves it, and not the leftover of an earlier one.  A lent value is
\* excepted: the consumer's restore may land behind the provider's clear, and
\* the next activation of the consumer takes it again.
NoLeftoverBelow ==
    kind # "lend" /\ held'["RES"] # held["RES"] /\ held'["RES"] # 0
        => held'["RES"] = gen /\ prov = "serve"

\* No step loses or doubles the singleton, and what a shell takes from a provider
\* is the value that provider stands behind.
SlotsAreOwned == [][SingletonKeptBelow' /\ NoLeftoverBelow]_slotVars

\* The slot is filled by one side only: by the shell's restore, or by the
\* provider.  A lent RES has both, and the provider's clear may reset the
\* signal of a restore that lands between its two steps.
OneFiller(r) == r = "DEV" \/ kind # "lend"

\* No lost fill: a start that waits for such a slot, and the slot stays filled,
\* goes on by the latched signal alone, before its deadline.
FillIsSeen ==
    (gate = "wait" /\ IsFilled(declared[gateAt]) /\ OneFiller(declared[gateAt]))
        ~> (gate # "wait" \/ ~IsFilled(declared[gateAt]))

\* Such a start has the signal latched.
FillIsLatched ==
    gate = "wait" /\ IsFilled(declared[gateAt]) /\ OneFiller(declared[gateAt])
        => declared[gateAt] \in filled
=============================================================================
