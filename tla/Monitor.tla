------------------------------- MODULE Monitor -------------------------------
(***************************************************************************)
(* Liveness: the beats of one policed node (`beat_timeout:`, `beat_window:`*)
(* and, in half of the declarations, an `observed` write that beats and    *)
(* asserts readiness), the sweep of Supervisor::monitor, and the health    *)
(* mailbox.                                                                *)
(*                                                                         *)
(* Time is kept as ages, so that it need not be bounded: stampAge is       *)
(* now - last_beat as the code computes it, in ticks that wrap at TickMod; *)
(* quiet is the true time since the node last beat or was started, counted *)
(* up to its cap.                                                          *)
(***************************************************************************)
EXTENDS Naturals, Sequences, FiniteSetsExt

CONSTANTS
    TickMod,    \* 2^32: where the truncated ticks wrap
    Budget,     \* beat_timeout, in ticks
    Window,     \* beat_window
    HealthCap,  \* capacity of HEALTH_EVT
    WriteMod    \* where the observed write counter wraps

ASSUME MonitorAssumption ==
    /\ {Budget, Window, HealthCap, WriteMod} \subseteq Nat \ {0}
    /\ TickMod \in Nat /\ TickMod > (2 + Window) * Budget

VARIABLES
    observed,   \* declaration: an observed write feeds the beat (ready_on_write)
    up,         \* RUNNING, and not detached
    stampAge,   \* now - last_beat, modulo TickMod
    pendingBeat,\* a beat nobody looked at yet
    writes,     \* the observer's count
    writeMark,  \* the count the last look saw
    ready,      \* READY
    strikes,    \* stale_strikes
    sleep,      \* ticks until the monitor wakes
    health,     \* HEALTH_EVT
    quiet       \* history: true time without a beat (or a write), capped

monVars == <<observed, up, stampAge, pendingBeat, writes, writeMark, ready,
             strikes, sleep, health, quiet>>

\* The time the monitor may take to report: a beat it has not looked at yet
\* delays it by a budget, the strict comparison and each further strike by
\* half a budget.
Half == Max({Budget \div 2, 1})
ReportBound == 2 * Budget + Window * Half

QuietCap == TickMod

READY_PROBE_DIVISOR == 8

----------------------------------------------------------------------------
(* What a look at the node sees.                                           *)

\* ticks_since_beat: a pending beat is stamped by whoever looks.
TicksSinceBeat == IF pendingBeat THEN 0 ELSE stampAge

\* ticks_until_check.  stamped is ticks_since_beat at that moment.
TicksUntilCheck(isUp, isReady, stamped) ==
    IF ~isUp THEN Budget
    ELSE IF observed /\ ~isReady THEN Max({Budget \div READY_PROBE_DIVISOR, 1})
    ELSE IF stamped >= Budget THEN Half
    ELSE Budget - stamped

MonInit ==
    /\ observed \in BOOLEAN
    /\ up = FALSE /\ ready = FALSE
    /\ stampAge = 0 /\ pendingBeat = FALSE
    /\ writes = 0 /\ writeMark = 0
    /\ strikes = 0 /\ sleep = Budget
    /\ health = <<>>
    /\ quiet = 0

----------------------------------------------------------------------------
(* The node.                                                               *)

\* Faulty variant: a fresh activation inherits the stamp of the last one.
StartUnstamped ==
    /\ ~up
    /\ up' = TRUE /\ ready' = FALSE
    /\ pendingBeat' = FALSE /\ writeMark' = writes
    /\ quiet' = 0
    /\ UNCHANGED <<observed, writes, stampAge, strikes, sleep, health>>

\* reset() and set_running(true): stamp, seed the write mark, drop the beat.
StartPoliced ==
    /\ ~up
    /\ up' = TRUE /\ ready' = FALSE
    /\ stampAge' = 0 /\ pendingBeat' = FALSE /\ writeMark' = writes
    /\ quiet' = 0
    /\ UNCHANGED <<observed, writes, strikes, sleep, health>>

\* Stop, exit or detach: the node leaves the monitor's sight.
StopPoliced ==
    /\ up
    /\ up' = FALSE
    /\ UNCHANGED <<observed, stampAge, pendingBeat, writes, writeMark, ready,
                   strikes, sleep, health, quiet>>

Beat ==
    /\ up /\ ~pendingBeat
    /\ pendingBeat' = TRUE /\ quiet' = 0
    /\ UNCHANGED <<observed, up, stampAge, writes, writeMark, ready, strikes,
                   sleep, health>>

\* A write to the observed signal; the next sweep takes it for a beat.  At
\* most WriteMod - 1 of them between two sweeps (bound).
ObservedWrite ==
    /\ up /\ observed
    /\ (writes + 1) % WriteMod # writeMark
    /\ writes' = (writes + 1) % WriteMod
    /\ quiet' = 0
    /\ UNCHANGED <<observed, up, stampAge, pendingBeat, writeMark, ready,
                   strikes, sleep, health>>

Tick ==
    /\ sleep > 0
    /\ sleep' = sleep - 1
    /\ stampAge' = (stampAge + 1) % TickMod
    /\ quiet' = Min({quiet + 1, QuietCap})
    /\ UNCHANGED <<observed, up, pendingBeat, writes, writeMark, ready, strikes,
                   health>>

----------------------------------------------------------------------------
(* The sweep and the next sleep.                                           *)

\* poll_observed_writes, then beat and set_ready.
WriteSeen == observed /\ writes # writeMark

IsStale == up /\ ~WriteSeen /\ TicksSinceBeat > Budget

\* emit_health: lossy.
Emit(kind) == IF Len(health) < HealthCap THEN Append(health, kind) ELSE health

SweepSleep(isUp) ==
    LET stamp == IF WriteSeen THEN 0 ELSE TicksSinceBeat IN
    /\ sleep' = TicksUntilCheck(isUp, ready \/ WriteSeen, stamp)
    /\ IF isUp
       THEN /\ stampAge' = stamp /\ pendingBeat' = FALSE
            /\ writeMark' = (IF observed THEN writes ELSE writeMark)
            /\ ready' = (ready \/ WriteSeen)
       ELSE UNCHANGED <<stampAge, pendingBeat, writeMark, ready>>
    /\ UNCHANGED <<observed, up, writes, quiet>>

SweepDown ==
    /\ sleep = 0 /\ ~up
    /\ SweepSleep(FALSE)
    /\ strikes' = 0
    /\ UNCHANGED health

\* Faulty variant: the strike that completes the window does not report.
SweepStaleLate ==
    /\ sleep = 0 /\ IsStale
    /\ SweepSleep(TRUE)
    /\ strikes' = Min({strikes + 1, Window + 1})
    /\ health' = IF strikes = Window THEN Emit("Stale") ELSE health

SweepStale ==
    /\ sleep = 0 /\ IsStale
    /\ SweepSleep(TRUE)
    /\ strikes' = Min({strikes + 1, Window})
    /\ health' = IF strikes = Window - 1 THEN Emit("Stale") ELSE health

SweepFresh ==
    /\ sleep = 0 /\ up /\ ~IsStale
    /\ SweepSleep(TRUE)
    /\ strikes' = 0
    /\ health' = IF strikes >= Window THEN Emit("Recovered") ELSE health

\* wait_health, try_wait_health
WaitHealth ==
    /\ health # <<>>
    /\ health' = Tail(health)
    /\ UNCHANGED <<observed, up, stampAge, pendingBeat, writes, writeMark, ready,
                   strikes, sleep, quiet>>

MonNext ==
    \/ StartPoliced \/ StopPoliced \/ Beat \/ ObservedWrite \/ Tick
    \/ SweepDown \/ SweepStale \/ SweepFresh \/ WaitHealth

MonSpec == MonInit /\ [][MonNext]_monVars

----------------------------------------------------------------------------
(* Properties.                                                             *)

MonTypeOK ==
    /\ {observed, up, pendingBeat, ready} \subseteq BOOLEAN
    /\ stampAge \in 0..(TickMod - 1)
    /\ {writes, writeMark} \subseteq 0..(WriteMod - 1)
    /\ strikes \in 0..Window
    /\ sleep \in 0..Budget
    /\ health \in Seq({"Stale", "Recovered"}) /\ Len(health) <= HealthCap
    /\ quiet \in 0..QuietCap

\* No false alarm: a sweep strikes only a node that has truly not beaten, and
\* was not started, within its budget - whatever the stamps of earlier
\* activations and the wrap of the ticks.
StrikeIsReal == [][strikes' > strikes => quiet > Budget]_monVars

\* No stall goes unreported: a node that has been quiet for longer than the
\* monitor's latency has all its strikes, until the ticks wrap over the stall.
StallIsReported ==
    up /\ ReportBound < quiet /\ quiet < TickMod => strikes = Window

\* The monitor's strikes and the stalls are the same thing.
MonitorIsHonest == StrikeIsReal /\ []StallIsReported
=============================================================================
