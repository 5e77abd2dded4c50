------------------------------- MODULE Report -------------------------------
(***************************************************************************)
(* What one node's restarts look like from outside: the control mailbox    *)
(* they come through, the restart budget that may refuse them, and the     *)
(* traces they leave - lifecycle events, breadcrumb, epoch - with the      *)
(* readers of those.  The stop and start waves are the module Supervisor's;*)
(* here a restart stops the node and starts it again.                      *)
(*                                                                         *)
(* Time is kept as ages: windowAge is now - restart_window_start as the    *)
(* code computes it, in ticks that wrap at RTickMod; openFor is the true   *)
(* age of the window, counted up to its cap.                               *)
(***************************************************************************)
EXTENDS Naturals, Sequences, FiniteSetsExt

CONSTANTS
    RTickMod,   \* 2^32: where the truncated ticks wrap
    RWindow,    \* restart_budget's window, in ticks
    RMax,       \* restart_budget's maximum
    MailCap,    \* capacity of CONTROL_REQ
    EventCap,   \* capacity of LIFECYCLE_EVT
    EpochMod    \* where the epoch wraps

ASSUME ReportAssumption ==
    /\ {RWindow, RMax, MailCap, EventCap} \subseteq Nat \ {0}
    /\ RTickMod \in Nat /\ RTickMod > 2 * RWindow   \* the cap on window_ticks
    /\ EpochMod \in Nat /\ EpochMod > 1

VARIABLES
    mail,       \* CONTROL_REQ: how many restart commands are queued
    restarts,   \* TaskHandle::restarts
    windowAge,  \* now - restart_window_start, modulo RTickMod
    openFor,    \* history: the true age of the window, capped
    recent,     \* history: the true ages of the last restarts that were accepted, the
                \* newest first; an age past the window, or none, is RWindow + 1
    driver,     \* where the supervisor is with a restart
    events,     \* LIFECYCLE_EVT: how many events are queued
    lost,       \* LIFECYCLE_DROPPED, capped at LostCap
    crumb,      \* LAST_CRUMB: a phase
    epoch,      \* TaskHandle::epoch
    epochWake,  \* epoch_wake is latched
    epochReader,     \* a wait_epoch_change caller: "work", "look" or "park"
    epochSeen   \* the epoch it compares with

repVars == <<mail, restarts, windowAge, openFor, recent, driver, events, lost, crumb,
             epoch, epochWake, epochReader, epochSeen>>

OpenCap == RTickMod + RWindow + 1
LostCap == 1    \* bound

\* So many restarts can be told from their ages.
Recent == 1..(2 * RMax)

RepInit ==
    /\ mail = 0
    /\ restarts = 0 /\ windowAge = 0 /\ openFor = 0
    /\ recent = [i \in Recent |-> RWindow + 1]
    /\ driver = "idle"
    /\ events = 0 /\ lost = 0 /\ crumb = "Started"
    /\ epoch = 1 /\ epochWake = FALSE
    /\ epochReader = "work" /\ epochSeen = 1

----------------------------------------------------------------------------
(* note: the breadcrumb, then the event, if the transition has one.        *)

CrumbPhase(t) ==
    CASE t \in {"Stopped", "Exited"} -> "Stopped"
      [] t = "StopRequested" -> "StopSignalled"
      [] OTHER -> t

\* emit_lifecycle, without a sink: a full queue counts a drop.
EmitLifecycle ==
    IF events < EventCap
    THEN events' = events + 1 /\ UNCHANGED lost
    ELSE lost' = Min({lost + 1, LostCap}) /\ UNCHANGED events

Note(t) ==
    /\ crumb' = CrumbPhase(t)
    /\ IF t = "Spawning" THEN UNCHANGED <<events, lost>> ELSE EmitLifecycle

----------------------------------------------------------------------------
(* The mailbox.  When it is full, request_control waits for room and       *)
(* try_request_control answers ControlQueueFull: neither is a step.        *)

Request ==
    /\ mail < MailCap
    /\ mail' = mail + 1
    /\ UNCHANGED <<restarts, windowAge, openFor, recent, driver, events, lost, crumb,
                   epoch, epochWake, epochReader, epochSeen>>

----------------------------------------------------------------------------
(* restart.                                                                *)

DriverGo(from, to) ==
    /\ driver = from
    /\ driver' = to
    /\ UNCHANGED <<epochReader, epochSeen>>

WaitControl ==
    /\ mail > 0
    /\ DriverGo("idle", "budget")
    /\ mail' = mail - 1
    /\ UNCHANGED <<restarts, windowAge, openFor, recent, events, lost, crumb, epoch,
                   epochWake>>

\* Faulty variant: the window closes a tick early.
WindowClosesEarly == restarts = 0 \/ windowAge >= RWindow

\* The window is closed, by the truncated ticks, or was never opened.
WindowClosed == restarts = 0 \/ windowAge > RWindow

Accept == recent' = [i \in Recent |-> IF i = 1 THEN 0 ELSE recent[i - 1]]

OpenWindow ==
    /\ WindowClosed
    /\ DriverGo("budget", "stop")
    /\ windowAge' = 0 /\ openFor' = 0 /\ restarts' = 1 /\ Accept
    /\ UNCHANGED <<mail, events, lost, crumb, epoch, epochWake>>

\* RestartStorm, before anything is stopped.
RefuseStorm ==
    /\ ~WindowClosed /\ restarts >= RMax
    /\ DriverGo("budget", "idle")
    /\ EmitLifecycle
    /\ UNCHANGED <<mail, restarts, windowAge, openFor, recent, crumb, epoch, epochWake>>

CountRestart ==
    /\ ~WindowClosed /\ restarts < RMax
    /\ DriverGo("budget", "stop")
    /\ restarts' = restarts + 1 /\ Accept
    /\ UNCHANGED <<mail, windowAge, openFor, events, lost, crumb, epoch, epochWake>>

StopNoted ==
    /\ DriverGo("stop", "acked") /\ Note("StopRequested")
    /\ UNCHANGED <<mail, restarts, windowAge, openFor, recent, epoch, epochWake>>

\* acked: Exited when the task returned, Stopped otherwise.
AckNoted ==
    /\ DriverGo("acked", "spawn")
    /\ Note("Stopped") \/ Note("Exited")
    /\ UNCHANGED <<mail, restarts, windowAge, openFor, recent, epoch, epochWake>>

SpawnNoted ==
    /\ DriverGo("spawn", "started") /\ Note("Spawning")
    /\ UNCHANGED <<mail, restarts, windowAge, openFor, recent, epoch, epochWake>>

\* Faulty variant: the new activation is not announced.
StartUnannounced ==
    /\ DriverGo("started", "idle") /\ Note("Started")
    /\ epoch' = (epoch + 1) % EpochMod
    /\ UNCHANGED <<mail, restarts, windowAge, openFor, recent, epochWake>>

\* set_running(true): a new epoch, and whoever waits for it is woken.
StartNoted ==
    /\ DriverGo("started", "idle") /\ Note("Started")
    /\ epoch' = (epoch + 1) % EpochMod
    /\ epochWake' = TRUE
    /\ UNCHANGED <<mail, restarts, windowAge, openFor, recent>>

Restart ==
    \/ WaitControl \/ OpenWindow \/ RefuseStorm \/ CountRestart
    \/ StopNoted \/ AckNoted \/ SpawnNoted \/ StartNoted

----------------------------------------------------------------------------
(* Time and the readers.                                                   *)

TimePasses ==
    /\ windowAge' = (windowAge + 1) % RTickMod
    /\ openFor' = Min({openFor + 1, OpenCap})
    /\ recent' = [i \in Recent |-> IF recent[i] > RWindow THEN recent[i] ELSE recent[i] + 1]
    /\ UNCHANGED <<mail, restarts, driver, events, lost, crumb, epoch,
                   epochWake, epochReader, epochSeen>>

\* wait_lifecycle or try_wait_lifecycle
TakeEvent ==
    /\ events > 0
    /\ events' = events - 1
    /\ UNCHANGED <<mail, restarts, windowAge, openFor, recent, driver, lost, crumb,
                   epoch, epochWake, epochReader, epochSeen>>

ReaderGo(from, to) ==
    /\ epochReader = from
    /\ epochReader' = to
    /\ UNCHANGED <<mail, restarts, windowAge, openFor, recent, driver, events, lost,
                   crumb, epoch>>

\* wait_epoch_change(seen), called again with what it returned.
EpochLook ==
    /\ ReaderGo("look", IF epoch # epochSeen THEN "work" ELSE "park")
    /\ epochSeen' = epoch
    /\ UNCHANGED epochWake

EpochWoken ==
    /\ epochWake
    /\ ReaderGo("park", "look")
    /\ epochWake' = FALSE
    /\ UNCHANGED epochSeen

EpochAsk ==
    /\ ReaderGo("work", "look")
    /\ UNCHANGED <<epochWake, epochSeen>>

RepNext ==
    \/ Request \/ Restart \/ TimePasses
    \/ TakeEvent \/ EpochLook \/ EpochWoken \/ EpochAsk

\* A woken reader is polled.
RepSpec == RepInit /\ [][RepNext]_repVars /\ WF_repVars(EpochWoken) /\ WF_repVars(EpochLook)

----------------------------------------------------------------------------
(* Properties.                                                             *)

RepTypeOK ==
    /\ mail \in 0..MailCap
    /\ restarts \in 0..RMax
    /\ windowAge \in 0..(RTickMod - 1) /\ openFor \in 0..OpenCap
    /\ recent \in [Recent -> 0..(RWindow + 1)]
    /\ driver \in {"idle", "budget", "stop", "acked", "spawn", "started"}
    /\ events \in 0..EventCap /\ lost \in 0..LostCap /\ epochWake \in BOOLEAN
    /\ {epoch, epochSeen} \subseteq 0..(EpochMod - 1)
    /\ epochReader \in {"work", "look", "park"}

\* "The MAX+1th restart inside the window returns RestartStorm", and "a restart after
\* it closes opens a fresh one" (Supervisor::restart).  The windows follow one another,
\* so a stretch of time as long as one may reach over two of them: it never sees more
\* than 2 * MAX - 1 restarts, the wrap of the ticks included.  And a restart is refused
\* only when MAX of them were truly accepted within the window's length, except where
\* the window was opened RTickMod ticks ago or more: there it looks open again.
RestartsInBudget ==
    [][/\ recent'[2 * RMax] > RWindow
       /\ driver = "budget" /\ driver' = "idle"
             => recent[RMax] <= RWindow \/ openFor >= RTickMod]_repVars

\* A wait for the next epoch ends when there is one.
EpochIsSeen == (epochReader = "park" /\ epoch # epochSeen) ~> epochReader # "park"

\* The epoch moved and the reader is parked only with the wake latched.
EpochIsLatched == epochReader = "park" /\ epoch # epochSeen => epochWake
=============================================================================
