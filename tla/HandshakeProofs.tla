-------------------------- MODULE HandshakeProofs --------------------------
(***************************************************************************)
(* The safety properties of the handshake, and its refinement of Lifecycle *)
(* step by step, for every declaration of the node and every combination   *)
(* of executors.                                                           *)
(***************************************************************************)
EXTENDS Handshake, TLAPS

\* The supervisor states of a start, from the reset to the shell's restart.
Starting == {"reset_flags", "reset_shutdown", "reset_dropped", "launch",
             "clear_idle"}

\* Where a shell that published IDLE can be.
ShellParked == {"gate_evt", "check_idle", "wait_start"}

\* Which verb can be at which step of a start.
VerbAt ==
    /\ sup \in {"settle", "gate_wait", "launch", "pass", "clear_idle"}
          => verb = "start"
    /\ sup \in {"reset_flags", "reset_shutdown", "reset_dropped"}
          => verb \in {"start", "resume"}

(* What makes NoOverlap inductive: IDLE is up only on a shell past its     *)
(* last store, a shell is registered as RESIDENT before the supervisor     *)
(* leaves the start that spawned it, never returns, and once IsSettled is  *)
(* never found Busy.                                                       *)
Residency ==
    /\ VerbAt
    /\ Resident => sup # "pass"
    /\ "IDLE" \in flags => task \in ShellParked
    /\ Resident /\ task # "none" => "RESIDENT" \in flags \/ sup = "mark_resident"
    /\ Resident => task # "return"
    /\ Resident /\ verb = "start" /\ sup \in Starting =>
          "IDLE" \in flags \/ (task = "none" /\ "RESIDENT" \notin flags)

IInv == TypeOK /\ Residency

\* The type invariant holds initially.
LEMMA TypeInit == Init => TypeOK
  BY CfgsAssumption DEF Init, TypeOK, SupAwait, SupStep, TaskAwait, TaskStep

\* TypeOK: the supervisor's steps keep it.
LEMMA TypeSup == TypeOK /\ Sup => TypeOK'
  <1> SUFFICES ASSUME TypeOK, Sup PROVE TypeOK'
    OBVIOUS
  <1> USE DEF TypeOK, Flag, Wake, SupAwait, SupStep, TaskAwait, TaskStep, SupGo
  <1>1. CASE BringUp BY <1>1 DEF BringUp
  <1>2. CASE SelectVerb BY <1>2 DEF SelectVerb
  <1>3. CASE ResumeNode BY <1>3 DEF ResumeNode
  <1>4. CASE Settle BY <1>4 DEF Settle
  <1>5. CASE GateWake BY <1>5 DEF GateWake
  <1>6. CASE GateDeadline BY <1>6 DEF GateDeadline
  <1>7. CASE ResetFlags BY <1>7 DEF ResetFlags, ResetMask
  <1>8. CASE ResetShutdownWake BY <1>8 DEF ResetShutdownWake
  <1>9. CASE ResetDroppedWake BY <1>9 DEF ResetDroppedWake
  <1>10. CASE LaunchResident BY <1>10 DEF LaunchResident
  <1>11. CASE LaunchSpawn BY <1>11 DEF LaunchSpawn
  <1>12. CASE LaunchBusy BY <1>12 DEF LaunchBusy
  <1>13. CASE ExecutorPass BY <1>13 DEF ExecutorPass
  <1>14. CASE ClearIdle BY <1>14 DEF ClearIdle
  <1>15. CASE SignalStart BY <1>15 DEF SignalStart
  <1>16. CASE MarkResident BY <1>16 DEF MarkResident
  <1>17. CASE SignalResume BY <1>17 DEF SignalResume
  <1>18. CASE SetRunning BY <1>18 DEF SetRunning
  <1>19. CASE Stop BY <1>19 DEF Stop
  <1>20. CASE SetShutdown BY <1>20 DEF SetShutdown
  <1>21. CASE SignalShutdown BY <1>21 DEF SignalShutdown
  <1>22. CASE CheckDropped BY <1>22 DEF CheckDropped
  <1>23. CASE WaitDropped BY <1>23 DEF WaitDropped
  <1>24. CASE WaveWake BY <1>24 DEF WaveWake
  <1>25. CASE AckTimeout BY <1>25 DEF AckTimeout
  <1>26. CASE SetDown BY <1>26 DEF SetDown
  <1> QED
    BY <1>1, <1>2, <1>3, <1>4, <1>5, <1>6, <1>7, <1>8, <1>9, <1>10, <1>11,
       <1>12, <1>13, <1>14, <1>15, <1>16, <1>17, <1>18, <1>19, <1>20, <1>21,
       <1>22, <1>23, <1>24, <1>25, <1>26 DEF Sup

\* TypeOK: the task's steps keep it.
LEMMA TypeTask == TypeOK /\ Task => TypeOK'
  <1> SUFFICES ASSUME TypeOK, Task PROVE TypeOK'
    OBVIOUS
  <1> USE DEF TypeOK, Flag, Wake, SupAwait, SupStep, TaskAwait, TaskStep, TaskGo
  <1>1. CASE Begin BY <1>1 DEF Begin
  <1>2. CASE Return BY <1>2 DEF Return
  <1>3. CASE SeeShutdown BY <1>3 DEF SeeShutdown
  <1>4. CASE Cleanup BY <1>4 DEF Cleanup
  <1>5. CASE SetCompleted BY <1>5 DEF SetCompleted
  <1>6. CASE AckRunning BY <1>6 DEF AckRunning
  <1>7. CASE AckDropped BY <1>7 DEF AckDropped
  <1>8. CASE AckWake BY <1>8 DEF AckWake
  <1>9. CASE AckEvt BY <1>9 DEF AckEvt, AfterAck
  <1>10. CASE WaitResume BY <1>10 DEF WaitResume
  <1>11. CASE SetIdle BY <1>11 DEF SetIdle
  <1>12. CASE GateEvt BY <1>12 DEF GateEvt
  <1>13. CASE CheckIdle BY <1>13 DEF CheckIdle
  <1>14. CASE WaitStart BY <1>14 DEF WaitStart
  <1>15. CASE FinalPoll BY <1>15 DEF FinalPoll
  <1> QED
    BY <1>1, <1>2, <1>3, <1>4, <1>5, <1>6, <1>7, <1>8, <1>9, <1>10, <1>11,
       <1>12, <1>13, <1>14, <1>15 DEF Task

\* The type invariant of the handshake: the flag word, the signals and both
\* program counters stay in their ranges.
THEOREM TypeCorrect == Spec => []TypeOK
  <1>1. TypeOK /\ [Next]_vars => TypeOK'
    <2> SUFFICES ASSUME TypeOK, [Next]_vars PROVE TypeOK'
      OBVIOUS
    <2>1. CASE Sup BY <2>1, TypeSup
    <2>2. CASE Task BY <2>2, TypeTask
    <2>3. CASE UNCHANGED vars BY <2>3 DEF TypeOK, vars
    <2> QED BY <2>1, <2>2, <2>3 DEF Next
  <1> QED BY TypeInit, <1>1, PTL DEF Spec

\* Residency: the supervisor's steps keep it.
LEMMA ResidencySup == TypeOK /\ Residency /\ Sup => Residency'
  <1> SUFFICES ASSUME TypeOK, Residency, Sup PROVE Residency'
    OBVIOUS
  <1> USE DEF Residency, VerbAt, Starting, ShellParked, TypeOK, Flag, SupAwait, SupStep,
         TaskAwait, TaskStep, Resident, SupGo
  <1>1. CASE BringUp BY <1>1 DEF BringUp
  <1>2. CASE SelectVerb BY <1>2 DEF SelectVerb, HasAckedStop
  <1>3. CASE ResumeNode BY <1>3 DEF ResumeNode, HasAckedStop
  <1>4. CASE Settle BY <1>4 DEF Settle, IsSettled
  <1>5. CASE GateWake BY <1>5 DEF GateWake
  <1>6. CASE GateDeadline BY <1>6 DEF GateDeadline, IsSettled
  <1>7. CASE ResetFlags BY <1>7 DEF ResetFlags, ResetMask
  <1>8. CASE ResetShutdownWake BY <1>8 DEF ResetShutdownWake
  <1>9. CASE ResetDroppedWake BY <1>9 DEF ResetDroppedWake
  <1>10. CASE LaunchResident BY <1>10 DEF LaunchResident
  <1>11. CASE LaunchSpawn BY <1>11 DEF LaunchSpawn
  <1>12. CASE LaunchBusy BY <1>12 DEF LaunchBusy
  <1>13. CASE ExecutorPass BY <1>13 DEF ExecutorPass
  <1>14. CASE ClearIdle BY <1>14 DEF ClearIdle
  <1>15. CASE SignalStart BY <1>15 DEF SignalStart
  <1>16. CASE MarkResident BY <1>16 DEF MarkResident
  <1>17. CASE SignalResume BY <1>17 DEF SignalResume
  <1>18. CASE SetRunning BY <1>18 DEF SetRunning
  <1>19. CASE Stop BY <1>19 DEF Stop
  <1>20. CASE SetShutdown BY <1>20 DEF SetShutdown
  <1>21. CASE SignalShutdown BY <1>21 DEF SignalShutdown
  <1>22. CASE CheckDropped BY <1>22 DEF CheckDropped
  <1>23. CASE WaitDropped BY <1>23 DEF WaitDropped
  <1>24. CASE WaveWake BY <1>24 DEF WaveWake
  <1>25. CASE AckTimeout BY <1>25 DEF AckTimeout
  <1>26. CASE SetDown BY <1>26 DEF SetDown
  <1> QED
    BY <1>1, <1>2, <1>3, <1>4, <1>5, <1>6, <1>7, <1>8, <1>9, <1>10,
       <1>11, <1>12, <1>13, <1>14, <1>15, <1>16, <1>17, <1>18, <1>19,
       <1>20, <1>21, <1>22, <1>23, <1>24, <1>25, <1>26 DEF Sup

\* Residency: the task's steps keep it.
LEMMA ResidencyTask == TypeOK /\ Residency /\ Task => Residency'
  <1> SUFFICES ASSUME TypeOK, Residency, Task PROVE Residency'
    OBVIOUS
  <1> USE DEF Residency, VerbAt, Starting, ShellParked, TypeOK, Flag, SupAwait, SupStep,
         TaskAwait, TaskStep, Resident, TaskGo
  <1>1. CASE Begin BY <1>1 DEF Begin
  <1>2. CASE Return BY <1>2 DEF Return
  <1>3. CASE SeeShutdown BY <1>3 DEF SeeShutdown
  <1>4. CASE Cleanup BY <1>4 DEF Cleanup
  <1>5. CASE SetCompleted BY <1>5 DEF SetCompleted
  <1>6. CASE AckRunning BY <1>6 DEF AckRunning
  <1>7. CASE AckDropped BY <1>7 DEF AckDropped
  <1>8. CASE AckWake BY <1>8 DEF AckWake
  <1>9. CASE AckEvt BY <1>9 DEF AckEvt, AfterAck
  <1>10. CASE WaitResume BY <1>10 DEF WaitResume
  <1>11. CASE SetIdle BY <1>11 DEF SetIdle
  <1>12. CASE GateEvt BY <1>12 DEF GateEvt
  <1>13. CASE CheckIdle BY <1>13 DEF CheckIdle
  <1>14. CASE WaitStart BY <1>14 DEF WaitStart
  <1>15. CASE FinalPoll BY <1>15 DEF FinalPoll
  <1> QED
    BY <1>1, <1>2, <1>3, <1>4, <1>5, <1>6, <1>7, <1>8, <1>9, <1>10,
       <1>11, <1>12, <1>13, <1>14, <1>15 DEF Task

\* TypeOK and Residency together are inductive.
LEMMA IInvHolds == Spec => []IInv
  <1>1. Init => IInv
    BY TypeInit DEF Init, IInv, Residency, VerbAt, Starting
  <1>2. IInv /\ [Next]_vars => IInv'
    <2> SUFFICES ASSUME IInv, [Next]_vars PROVE IInv'
      OBVIOUS
    <2>1. CASE Sup BY <2>1, TypeSup, ResidencySup DEF IInv
    <2>2. CASE Task BY <2>2, TypeTask, ResidencyTask DEF IInv
    <2>3. CASE UNCHANGED vars
      BY <2>3 DEF IInv, TypeOK, Residency, VerbAt, Resident, vars
    <2> QED BY <2>1, <2>2, <2>3 DEF Next
  <1> QED BY <1>1, <1>2, PTL DEF Spec

\* On every combination of executors, the supervisor resets and restarts a
\* resident shell only after the shell's last store of its previous activation.
THEOREM NoOverlapHolds == Spec => []NoOverlap
  <1>1. IInv => NoOverlap
    BY DEF IInv, Residency, NoOverlap, Starting, ShellParked
  <1> QED BY <1>1, IInvHolds, PTL

----------------------------------------------------------------------------
(* An ack can be latched without its flag only while the supervisor is     *)
(* inside reset(), or retries a spawn: task it has reset too early; such a *)
(* node is not running, so no stop can consume the latch.                  *)

Retrying == {"idle", "select", "settle", "gate_wait", "reset_flags", "pass"}

LateRetry == ~Resident /\ cfg.mode = "Terminate" /\ "RUNNING" \notin flags

StaleLatch == "dropped" \in wake /\ "DROPPED" \notin flags

AckInv ==
    /\ cfg.mode # "Pause" => verb # "resume"
    /\ sup = "select" => "RUNNING" \notin flags
    /\ (sup \in {"settle", "gate_wait", "reset_flags", "reset_shutdown",
                 "reset_dropped", "launch", "pass"} /\ verb # "resume")
          => "RUNNING" \notin flags
    /\ (~LateAck /\ StaleLatch)
          => \/ sup \in {"reset_shutdown", "reset_dropped"}
             \/ LateRetry /\ sup \in Retrying
    /\ (~LateAck /\ task = "ack_wake" /\ "DROPPED" \notin flags)
          => /\ LateRetry
             /\ sup \in Retrying
                  \union {"reset_shutdown", "reset_dropped", "launch"}
    /\ (~LateAck /\ sup = "set_down") => "DROPPED" \in flags

\* AckInv: the supervisor's steps keep it.
LEMMA AckSup == IInv /\ AckInv /\ Sup => AckInv'
  <1> SUFFICES ASSUME IInv, AckInv, Sup PROVE AckInv'
    OBVIOUS
  <1>0. cfg.mode \in {"Terminate", "Pause"} /\ cfg.shell \in {"task", "spawn"}
    BY CfgsAssumption DEF IInv, TypeOK, NodeCfg
  <1> USE <1>0 DEF IInv, AckInv, Residency, VerbAt, Starting, ShellParked, LateAck,
         LateRetry, StaleLatch, Retrying, Resident, SupPreempts, TaskPreempts,
         MayStep, AtAwait, Other, SupAwait, TaskAwait, SupGo
  <1>1. CASE BringUp BY <1>1 DEF BringUp
  <1>2. CASE SelectVerb BY <1>2 DEF SelectVerb, HasAckedStop
  <1>3. CASE ResumeNode BY <1>3 DEF ResumeNode, HasAckedStop
  <1>4. CASE Settle BY <1>4 DEF Settle, IsSettled
  <1>5. CASE GateWake BY <1>5 DEF GateWake
  <1>6. CASE GateDeadline BY <1>6 DEF GateDeadline, IsSettled
  <1>7. CASE ResetFlags BY <1>7 DEF ResetFlags, ResetMask
  <1>8. CASE ResetShutdownWake BY <1>8 DEF ResetShutdownWake
  <1>9. CASE ResetDroppedWake BY <1>9 DEF ResetDroppedWake
  <1>10. CASE LaunchResident BY <1>10 DEF LaunchResident
  <1>11. CASE LaunchSpawn BY <1>11 DEF LaunchSpawn
  <1>12. CASE LaunchBusy BY <1>12 DEF LaunchBusy
  <1>13. CASE ExecutorPass BY <1>13 DEF ExecutorPass
  <1>14. CASE ClearIdle BY <1>14 DEF ClearIdle
  <1>15. CASE SignalStart BY <1>15 DEF SignalStart
  <1>16. CASE MarkResident BY <1>16 DEF MarkResident
  <1>17. CASE SignalResume BY <1>17 DEF SignalResume
  <1>18. CASE SetRunning BY <1>18 DEF SetRunning
  <1>19. CASE Stop BY <1>19 DEF Stop
  <1>20. CASE SetShutdown BY <1>20 DEF SetShutdown
  <1>21. CASE SignalShutdown BY <1>21 DEF SignalShutdown
  <1>22. CASE CheckDropped BY <1>22 DEF CheckDropped, HasDropped
  <1>23. CASE WaitDropped BY <1>23 DEF WaitDropped
  <1>24. CASE WaveWake BY <1>24 DEF WaveWake
  <1>25. CASE AckTimeout BY <1>25 DEF AckTimeout, HasDropped
  <1>26. CASE SetDown BY <1>26 DEF SetDown
  <1> QED
    BY <1>1, <1>2, <1>3, <1>4, <1>5, <1>6, <1>7, <1>8, <1>9, <1>10,
       <1>11, <1>12, <1>13, <1>14, <1>15, <1>16, <1>17, <1>18, <1>19,
       <1>20, <1>21, <1>22, <1>23, <1>24, <1>25, <1>26 DEF Sup

\* AckInv: the task's steps keep it.
LEMMA AckTask == IInv /\ AckInv /\ Task => AckInv'
  <1> SUFFICES ASSUME IInv, AckInv, Task PROVE AckInv'
    OBVIOUS
  <1>0. cfg.mode \in {"Terminate", "Pause"} /\ cfg.shell \in {"task", "spawn"}
    BY CfgsAssumption DEF IInv, TypeOK, NodeCfg
  <1> USE <1>0 DEF IInv, AckInv, Residency, VerbAt, Starting, ShellParked, LateAck,
         LateRetry, StaleLatch, Retrying, Resident, SupPreempts, TaskPreempts,
         MayStep, AtAwait, Other, SupAwait, TaskAwait, TaskGo
  <1>1. CASE Begin BY <1>1 DEF Begin
  <1>2. CASE Return BY <1>2 DEF Return
  <1>3. CASE SeeShutdown BY <1>3 DEF SeeShutdown
  <1>4. CASE Cleanup BY <1>4 DEF Cleanup
  <1>5. CASE SetCompleted BY <1>5 DEF SetCompleted
  <1>6. CASE AckRunning BY <1>6 DEF AckRunning
  <1>7. CASE AckDropped BY <1>7 DEF AckDropped
  <1>8. CASE AckWake BY <1>8 DEF AckWake
  <1>9. CASE AckEvt BY <1>9 DEF AckEvt, AfterAck
  <1>10. CASE WaitResume BY <1>10 DEF WaitResume
  <1>11. CASE SetIdle BY <1>11 DEF SetIdle
  <1>12. CASE GateEvt BY <1>12 DEF GateEvt
  <1>13. CASE CheckIdle BY <1>13 DEF CheckIdle
  <1>14. CASE WaitStart BY <1>14 DEF WaitStart
  <1>15. CASE FinalPoll BY <1>15 DEF FinalPoll
  <1> QED
    BY <1>1, <1>2, <1>3, <1>4, <1>5, <1>6, <1>7, <1>8, <1>9, <1>10,
       <1>11, <1>12, <1>13, <1>14, <1>15 DEF Task

\* A stop ends well only on an ack of the instance it was sent to: for every
\* node whose ack cannot be latched late (LateAck), on every combination of
\* executors.
THEOREM AckIsGenuineHolds == Spec => []AckIsGenuine
  <1>1. Init => AckInv
    BY DEF Init, AckInv, StaleLatch
  <1>2. IInv /\ AckInv /\ [Next]_vars => AckInv'
    <2> SUFFICES ASSUME IInv, AckInv, [Next]_vars PROVE AckInv'
      OBVIOUS
    <2>1. CASE Sup BY <2>1, AckSup
    <2>2. CASE Task BY <2>2, AckTask
    <2>3. CASE UNCHANGED vars
      BY <2>3 DEF AckInv, LateAck, LateRetry, StaleLatch, Resident,
                  SupPreempts, TaskPreempts, vars
    <2> QED BY <2>1, <2>2, <2>3 DEF Next
  <1>3. AckInv => AckIsGenuine
    BY DEF AckInv, AckIsGenuine, AckOfThisInstance, HasDropped
  <1> QED BY <1>1, <1>2, <1>3, IInvHolds, PTL DEF Spec

----------------------------------------------------------------------------
(* What the task is doing when it acks, and what is never found in which   *)
(* kind of node.                                                           *)
Acking == {"ack_running", "ack_dropped", "ack_wake", "ack_evt"}

ShapeInv ==
    /\ ackFor # "none" <=> task \in Acking
    /\ ackFor = "park" \/ task = "parked" => cfg.mode = "Pause"
    /\ ackFor = "exit" \/ task = "cleanup" => cfg.mode = "Terminate"
    /\ ~Resident => /\ "RESIDENT" \notin flags /\ "IDLE" \notin flags
                    /\ sup \notin {"clear_idle", "signal_start", "mark_resident"}
                    /\ task \notin ShellParked \union {"set_idle"}
    /\ sup = "signal_resume" => verb = "resume"
    /\ "RESIDENT" \in flags \/ sup = "mark_resident" => task # "none"
    /\ sup = "clear_idle" => "IDLE" \in flags

\* ShapeInv: the supervisor's steps keep it.
LEMMA ShapeSup == IInv /\ ShapeInv /\ Sup => ShapeInv'
  <1> SUFFICES ASSUME IInv, ShapeInv, Sup PROVE ShapeInv'
    OBVIOUS
  <1>0. /\ cfg.mode \in {"Terminate", "Pause"} /\ cfg.shell \in {"task", "spawn"}
        /\ ackFor \in {"none", "park", "exit", "done"}
    BY CfgsAssumption DEF IInv, TypeOK, NodeCfg
  <1> USE <1>0 DEF Residency, VerbAt, Starting, ShellParked, Resident,
         SupPreempts, TaskPreempts, MayStep, AtAwait, Other, SupAwait,
         TaskAwait, IInv, Acking, ShapeInv, SupGo
  <1>1. CASE BringUp BY <1>1 DEF BringUp
  <1>2. CASE SelectVerb BY <1>2 DEF SelectVerb, HasAckedStop
  <1>3. CASE ResumeNode BY <1>3 DEF ResumeNode, HasAckedStop
  <1>4. CASE Settle BY <1>4 DEF Settle, IsSettled
  <1>5. CASE GateWake BY <1>5 DEF GateWake
  <1>6. CASE GateDeadline BY <1>6 DEF GateDeadline, IsSettled
  <1>7. CASE ResetFlags BY <1>7 DEF ResetFlags, ResetMask
  <1>8. CASE ResetShutdownWake BY <1>8 DEF ResetShutdownWake
  <1>9. CASE ResetDroppedWake BY <1>9 DEF ResetDroppedWake
  <1>10. CASE LaunchResident BY <1>10 DEF LaunchResident
  <1>11. CASE LaunchSpawn BY <1>11 DEF LaunchSpawn
  <1>12. CASE LaunchBusy BY <1>12 DEF LaunchBusy
  <1>13. CASE ExecutorPass BY <1>13 DEF ExecutorPass
  <1>14. CASE ClearIdle BY <1>14 DEF ClearIdle
  <1>15. CASE SignalStart BY <1>15 DEF SignalStart
  <1>16. CASE MarkResident BY <1>16 DEF MarkResident
  <1>17. CASE SignalResume BY <1>17 DEF SignalResume
  <1>18. CASE SetRunning BY <1>18 DEF SetRunning
  <1>19. CASE Stop BY <1>19 DEF Stop
  <1>20. CASE SetShutdown BY <1>20 DEF SetShutdown
  <1>21. CASE SignalShutdown BY <1>21 DEF SignalShutdown
  <1>22. CASE CheckDropped BY <1>22 DEF CheckDropped, HasDropped
  <1>23. CASE WaitDropped BY <1>23 DEF WaitDropped
  <1>24. CASE WaveWake BY <1>24 DEF WaveWake
  <1>25. CASE AckTimeout BY <1>25 DEF AckTimeout, HasDropped
  <1>26. CASE SetDown BY <1>26 DEF SetDown
  <1> QED
    BY <1>1, <1>2, <1>3, <1>4, <1>5, <1>6, <1>7, <1>8, <1>9, <1>10, <1>11,
       <1>12, <1>13, <1>14, <1>15, <1>16, <1>17, <1>18, <1>19, <1>20, <1>21,
       <1>22, <1>23, <1>24, <1>25, <1>26 DEF Sup

\* ShapeInv: the task's steps keep it.
LEMMA ShapeTask == IInv /\ ShapeInv /\ Task => ShapeInv'
  <1> SUFFICES ASSUME IInv, ShapeInv, Task PROVE ShapeInv'
    OBVIOUS
  <1>0. /\ cfg.mode \in {"Terminate", "Pause"} /\ cfg.shell \in {"task", "spawn"}
        /\ ackFor \in {"none", "park", "exit", "done"}
    BY CfgsAssumption DEF IInv, TypeOK, NodeCfg
  <1> USE <1>0 DEF Residency, VerbAt, Starting, ShellParked, Resident,
         SupPreempts, TaskPreempts, MayStep, AtAwait, Other, SupAwait,
         TaskAwait, IInv, Acking, ShapeInv, TaskGo
  <1>1. CASE Begin BY <1>1 DEF Begin
  <1>2. CASE Return BY <1>2 DEF Return
  <1>3. CASE SeeShutdown BY <1>3 DEF SeeShutdown, ShutdownSeen
  <1>4. CASE Cleanup BY <1>4 DEF Cleanup
  <1>5. CASE SetCompleted BY <1>5 DEF SetCompleted
  <1>6. CASE AckRunning BY <1>6 DEF AckRunning
  <1>7. CASE AckDropped BY <1>7 DEF AckDropped
  <1>8. CASE AckWake BY <1>8 DEF AckWake
  <1>9. CASE AckEvt BY <1>9 DEF AckEvt, AfterAck
  <1>10. CASE WaitResume BY <1>10 DEF WaitResume
  <1>11. CASE SetIdle BY <1>11 DEF SetIdle
  <1>12. CASE GateEvt BY <1>12 DEF GateEvt
  <1>13. CASE CheckIdle BY <1>13 DEF CheckIdle
  <1>14. CASE WaitStart BY <1>14 DEF WaitStart
  <1>15. CASE FinalPoll BY <1>15 DEF FinalPoll
  <1> QED
    BY <1>1, <1>2, <1>3, <1>4, <1>5, <1>6, <1>7, <1>8, <1>9, <1>10, <1>11,
       <1>12, <1>13, <1>14, <1>15 DEF Task

\* A parked shell that was told to start, and has not seen it.
Called == task \in ShellParked /\ "IDLE" \notin flags

Clear == "DROPPED" \notin flags /\ "COMPLETED" \notin flags

(* Why an activation is fresh: no task can store an ack between the reset  *)
(* and the launch, so what the reset cleared is still clear when the       *)
(* instance begins.                                                        *)
FreshInv ==
    Resident \/ ~TaskPreempts =>
      /\ task = "begin" \/ Called => NoStaleAck
      /\ verb = "start" /\ sup \in {"reset_shutdown", "reset_dropped", "launch",
                                    "clear_idle"} => Clear
      /\ sup \in {"launch", "clear_idle"} => "dropped" \notin wake

\* FreshInv: the supervisor's steps keep it.
LEMMA FreshSup == IInv /\ ShapeInv /\ FreshInv /\ Sup => FreshInv'
  <1> SUFFICES ASSUME IInv, ShapeInv, FreshInv, Sup PROVE FreshInv'
    OBVIOUS
  <1>0. /\ cfg.mode \in {"Terminate", "Pause"} /\ cfg.shell \in {"task", "spawn"}
        /\ ackFor \in {"none", "park", "exit", "done"}
    BY CfgsAssumption DEF IInv, TypeOK, NodeCfg
  <1> USE <1>0 DEF Residency, VerbAt, Starting, ShellParked, Resident,
         SupPreempts, TaskPreempts, MayStep, AtAwait, Other, SupAwait,
         TaskAwait, IInv, ShapeInv, Acking, Called, Clear, NoStaleAck,
         FreshInv, SupGo
  <1>1. CASE BringUp BY <1>1 DEF BringUp
  <1>2. CASE SelectVerb BY <1>2 DEF SelectVerb, HasAckedStop
  <1>3. CASE ResumeNode BY <1>3 DEF ResumeNode, HasAckedStop
  <1>4. CASE Settle BY <1>4 DEF Settle, IsSettled
  <1>5. CASE GateWake BY <1>5 DEF GateWake
  <1>6. CASE GateDeadline BY <1>6 DEF GateDeadline, IsSettled
  <1>7. CASE ResetFlags BY <1>7 DEF ResetFlags, ResetMask
  <1>8. CASE ResetShutdownWake BY <1>8 DEF ResetShutdownWake
  <1>9. CASE ResetDroppedWake BY <1>9 DEF ResetDroppedWake
  <1>10. CASE LaunchResident BY <1>10 DEF LaunchResident
  <1>11. CASE LaunchSpawn BY <1>11 DEF LaunchSpawn
  <1>12. CASE LaunchBusy BY <1>12 DEF LaunchBusy
  <1>13. CASE ExecutorPass BY <1>13 DEF ExecutorPass
  <1>14. CASE ClearIdle BY <1>14 DEF ClearIdle
  <1>15. CASE SignalStart BY <1>15 DEF SignalStart
  <1>16. CASE MarkResident BY <1>16 DEF MarkResident
  <1>17. CASE SignalResume BY <1>17 DEF SignalResume
  <1>18. CASE SetRunning BY <1>18 DEF SetRunning
  <1>19. CASE Stop BY <1>19 DEF Stop
  <1>20. CASE SetShutdown BY <1>20 DEF SetShutdown
  <1>21. CASE SignalShutdown BY <1>21 DEF SignalShutdown
  <1>22. CASE CheckDropped BY <1>22 DEF CheckDropped, HasDropped
  <1>23. CASE WaitDropped BY <1>23 DEF WaitDropped
  <1>24. CASE WaveWake BY <1>24 DEF WaveWake
  <1>25. CASE AckTimeout BY <1>25 DEF AckTimeout, HasDropped
  <1>26. CASE SetDown BY <1>26 DEF SetDown
  <1> QED
    BY <1>1, <1>2, <1>3, <1>4, <1>5, <1>6, <1>7, <1>8, <1>9, <1>10, <1>11,
       <1>12, <1>13, <1>14, <1>15, <1>16, <1>17, <1>18, <1>19, <1>20, <1>21,
       <1>22, <1>23, <1>24, <1>25, <1>26 DEF Sup

\* FreshInv: the task's steps keep it.
LEMMA FreshTask == IInv /\ ShapeInv /\ FreshInv /\ Task => FreshInv'
  <1> SUFFICES ASSUME IInv, ShapeInv, FreshInv, Task PROVE FreshInv'
    OBVIOUS
  <1>0. /\ cfg.mode \in {"Terminate", "Pause"} /\ cfg.shell \in {"task", "spawn"}
        /\ ackFor \in {"none", "park", "exit", "done"}
    BY CfgsAssumption DEF IInv, TypeOK, NodeCfg
  <1> USE <1>0 DEF Residency, VerbAt, Starting, ShellParked, Resident,
         SupPreempts, TaskPreempts, MayStep, AtAwait, Other, SupAwait,
         TaskAwait, IInv, ShapeInv, Acking, Called, Clear, NoStaleAck,
         FreshInv, TaskGo
  <1>1. CASE Begin BY <1>1 DEF Begin
  <1>2. CASE Return BY <1>2 DEF Return
  <1>3. CASE SeeShutdown BY <1>3 DEF SeeShutdown, ShutdownSeen
  <1>4. CASE Cleanup BY <1>4 DEF Cleanup
  <1>5. CASE SetCompleted BY <1>5 DEF SetCompleted
  <1>6. CASE AckRunning BY <1>6 DEF AckRunning
  <1>7. CASE AckDropped BY <1>7 DEF AckDropped
  <1>8. CASE AckWake BY <1>8 DEF AckWake
  <1>9. CASE AckEvt BY <1>9 DEF AckEvt, AfterAck
  <1>10. CASE WaitResume BY <1>10 DEF WaitResume
  <1>11. CASE SetIdle BY <1>11 DEF SetIdle
  <1>12. CASE GateEvt BY <1>12 DEF GateEvt
  <1>13. CASE CheckIdle BY <1>13 DEF CheckIdle
  <1>14. CASE WaitStart BY <1>14 DEF WaitStart
  <1>15. CASE FinalPoll BY <1>15 DEF FinalPoll
  <1> QED
    BY <1>1, <1>2, <1>3, <1>4, <1>5, <1>6, <1>7, <1>8, <1>9, <1>10, <1>11,
       <1>12, <1>13, <1>14, <1>15 DEF Task

\* A Pause node whose supervisor cannot run inside its acknowledgement.
Parking == cfg.mode = "Pause" /\ ~SupPreempts

\* The supervisor is resuming the node and has not signalled it yet.
Resuming ==
    /\ verb = "resume"
    /\ sup \in {"reset_flags", "reset_shutdown", "reset_dropped", "signal_resume"}

Acked == "DROPPED" \in flags /\ "COMPLETED" \notin flags

(* Such a node has acked exactly when it is parked, so what is resumed is  *)
(* parked, what is started is not, and the resume signal is latched only   *)
(* for an instance that waits for it.                                      *)
ParkInv ==
    Parking =>
      /\ task \in Acking => (ackFor = "done" <=> "COMPLETED" \in flags)
      /\ task \in {"ack_wake", "ack_evt", "set_idle"} => "DROPPED" \in flags
      /\ "COMPLETED" \in flags =>
            task \in {"none", "return", "set_idle"} \union ShellParked \/ ackFor = "done"
      /\ Acked => task = "parked" \/ ackFor = "park"
      /\ task \in {"begin", "work", "set_completed", "ack_running"} \/ Called =>
            "RUNNING" \in flags \/ sup \in {"signal_start", "mark_resident", "set_running"}
      /\ verb = "start" /\ sup \in Starting \union {"settle"} =>
            task = "none" \/ (task = "wait_start" /\ "IDLE" \in flags)
      /\ sup \notin {"gate_wait", "pass"}
      /\ sup = "signal_start" => task = "wait_start" /\ "IDLE" \notin flags
      /\ Resuming => task = "parked"
      /\ sup \in {"reset_shutdown", "reset_dropped", "launch", "clear_idle",
                  "signal_start", "signal_resume"} => Clear
      /\ "dropped" \in wake =>
            "DROPPED" \in flags \/ sup \in {"reset_shutdown", "reset_dropped"}
      /\ sup = "set_down" => "DROPPED" \in flags
      /\ task = "parked" => Acked \/ "resume" \in wake \/ Resuming
      /\ "resume" \in wake =>
            /\ task = "parked" \/ (task = "wait_start" /\ "IDLE" \notin flags)
            /\ "DROPPED" \notin flags /\ ~Resuming /\ sup # "signal_start"
            /\ "RUNNING" \in flags \/ sup = "set_running"

\* ParkInv: the supervisor's steps keep it.
LEMMA ParkSup == IInv /\ AckInv /\ ShapeInv /\ FreshInv /\ ParkInv /\ Sup => ParkInv'
  <1> SUFFICES ASSUME IInv, AckInv, ShapeInv, FreshInv, ParkInv, Sup PROVE ParkInv'
    OBVIOUS
  <1>0. /\ cfg.mode \in {"Terminate", "Pause"} /\ cfg.shell \in {"task", "spawn"}
        /\ ackFor \in {"none", "park", "exit", "done"}
    BY CfgsAssumption DEF IInv, TypeOK, NodeCfg
  <1> USE <1>0 DEF Residency, VerbAt, Starting, ShellParked, Resident,
         SupPreempts, TaskPreempts, MayStep, AtAwait, Other, SupAwait,
         TaskAwait, IInv, AckInv, ShapeInv, FreshInv, Acking, Called, Clear,
         NoStaleAck, Parking, Resuming, Acked, ParkInv, SupGo
  <1>1. CASE BringUp BY <1>1 DEF BringUp
  <1>2. CASE SelectVerb BY <1>2 DEF SelectVerb, HasAckedStop
  <1>3. CASE ResumeNode BY <1>3 DEF ResumeNode, HasAckedStop
  <1>4. CASE Settle BY <1>4 DEF Settle, IsSettled
  <1>5. CASE GateWake BY <1>5 DEF GateWake
  <1>6. CASE GateDeadline BY <1>6 DEF GateDeadline, IsSettled
  <1>7. CASE ResetFlags BY <1>7 DEF ResetFlags, ResetMask
  <1>8. CASE ResetShutdownWake BY <1>8 DEF ResetShutdownWake
  <1>9. CASE ResetDroppedWake BY <1>9 DEF ResetDroppedWake
  <1>10. CASE LaunchResident BY <1>10 DEF LaunchResident
  <1>11. CASE LaunchSpawn BY <1>11 DEF LaunchSpawn
  <1>12. CASE LaunchBusy BY <1>12 DEF LaunchBusy
  <1>13. CASE ExecutorPass BY <1>13 DEF ExecutorPass
  <1>14. CASE ClearIdle BY <1>14 DEF ClearIdle
  <1>15. CASE SignalStart BY <1>15 DEF SignalStart
  <1>16. CASE MarkResident BY <1>16 DEF MarkResident
  <1>17. CASE SignalResume BY <1>17 DEF SignalResume
  <1>18. CASE SetRunning BY <1>18 DEF SetRunning
  <1>19. CASE Stop BY <1>19 DEF Stop
  <1>20. CASE SetShutdown BY <1>20 DEF SetShutdown
  <1>21. CASE SignalShutdown BY <1>21 DEF SignalShutdown
  <1>22. CASE CheckDropped BY <1>22 DEF CheckDropped, HasDropped
  <1>23. CASE WaitDropped BY <1>23 DEF WaitDropped
  <1>24. CASE WaveWake BY <1>24 DEF WaveWake
  <1>25. CASE AckTimeout BY <1>25 DEF AckTimeout, HasDropped
  <1>26. CASE SetDown BY <1>26 DEF SetDown
  <1> QED
    BY <1>1, <1>2, <1>3, <1>4, <1>5, <1>6, <1>7, <1>8, <1>9, <1>10, <1>11,
       <1>12, <1>13, <1>14, <1>15, <1>16, <1>17, <1>18, <1>19, <1>20, <1>21,
       <1>22, <1>23, <1>24, <1>25, <1>26 DEF Sup

\* ParkInv: the task's steps keep it.
LEMMA ParkTask == IInv /\ AckInv /\ ShapeInv /\ FreshInv /\ ParkInv /\ Task => ParkInv'
  <1> SUFFICES ASSUME IInv, AckInv, ShapeInv, FreshInv, ParkInv, Task PROVE ParkInv'
    OBVIOUS
  <1>0. /\ cfg.mode \in {"Terminate", "Pause"} /\ cfg.shell \in {"task", "spawn"}
        /\ ackFor \in {"none", "park", "exit", "done"}
    BY CfgsAssumption DEF IInv, TypeOK, NodeCfg
  <1> USE <1>0 DEF Residency, VerbAt, Starting, ShellParked, Resident,
         SupPreempts, TaskPreempts, MayStep, AtAwait, Other, SupAwait,
         TaskAwait, IInv, AckInv, ShapeInv, FreshInv, Acking, Called, Clear,
         NoStaleAck, Parking, Resuming, Acked, ParkInv, TaskGo
  <1>1. CASE Begin BY <1>1 DEF Begin
  <1>2. CASE Return BY <1>2 DEF Return
  <1>3. CASE SeeShutdown BY <1>3 DEF SeeShutdown, ShutdownSeen
  <1>4. CASE Cleanup BY <1>4 DEF Cleanup
  <1>5. CASE SetCompleted BY <1>5 DEF SetCompleted
  <1>6. CASE AckRunning BY <1>6 DEF AckRunning
  <1>7. CASE AckDropped BY <1>7 DEF AckDropped
  <1>8. CASE AckWake BY <1>8 DEF AckWake
  <1>9. CASE AckEvt BY <1>9 DEF AckEvt, AfterAck
  <1>10. CASE WaitResume BY <1>10 DEF WaitResume
  <1>11. CASE SetIdle BY <1>11 DEF SetIdle
  <1>12. CASE GateEvt BY <1>12 DEF GateEvt
  <1>13. CASE CheckIdle BY <1>13 DEF CheckIdle
  <1>14. CASE WaitStart BY <1>14 DEF WaitStart
  <1>15. CASE FinalPoll BY <1>15 DEF FinalPoll
  <1> QED
    BY <1>1, <1>2, <1>3, <1>4, <1>5, <1>6, <1>7, <1>8, <1>9, <1>10, <1>11,
       <1>12, <1>13, <1>14, <1>15 DEF Task

\* The node reads as running only over an instance that is up: it has begun
\* and not acked, or was told to start, or to resume.
Up ==
    \/ task \in {"begin", "work", "set_completed", "ack_running"} \/ Called
    \/ (task = "parked" \/ ackFor = "park") /\ "resume" \in wake

\* What a resume may find: the node parked or on its way there, or, where the
\* supervisor preempts the task, an instance a stale resume let go already.
Resumable == task \in {"work", "set_completed", "parked"} \/ ackFor = "park"

(* Why a node that is down reads as down, where the task does not run      *)
(* between its launch and set_running and a spawn: task is not reset       *)
(* inside its ack.                                                         *)
UpInv ==
    ~TaskPreempts /\ (Resident \/ ~SupPreempts) =>
      /\ "RUNNING" \in flags \/ sup = "set_running" => Up
      /\ sup = "mark_resident" => task = "begin"
      /\ sup = "signal_start" => Called
      /\ Resuming \/ (cfg.mode = "Pause" /\ Acked) => Resumable
      /\ cfg.mode = "Pause" /\ ackFor = "done" => "COMPLETED" \in flags

\* UpInv: the supervisor's steps keep it.
LEMMA UpSup == IInv /\ AckInv /\ ShapeInv /\ FreshInv /\ UpInv /\ Sup => UpInv'
  <1> SUFFICES ASSUME IInv, AckInv, ShapeInv, FreshInv, UpInv, Sup PROVE UpInv'
    OBVIOUS
  <1>0. /\ cfg.mode \in {"Terminate", "Pause"} /\ cfg.shell \in {"task", "spawn"}
        /\ ackFor \in {"none", "park", "exit", "done"}
    BY CfgsAssumption DEF IInv, TypeOK, NodeCfg
  <1> USE <1>0 DEF Residency, VerbAt, Starting, ShellParked, Resident,
         SupPreempts, TaskPreempts, MayStep, AtAwait, Other, SupAwait,
         TaskAwait, IInv, AckInv, ShapeInv, FreshInv, Acking, Called, Clear,
         NoStaleAck, Resuming, Acked, Up, Resumable, UpInv, SupGo
  <1>1. CASE BringUp BY <1>1 DEF BringUp
  <1>2. CASE SelectVerb BY <1>2 DEF SelectVerb, HasAckedStop
  <1>3. CASE ResumeNode BY <1>3 DEF ResumeNode, HasAckedStop
  <1>4. CASE Settle BY <1>4 DEF Settle, IsSettled
  <1>5. CASE GateWake BY <1>5 DEF GateWake
  <1>6. CASE GateDeadline BY <1>6 DEF GateDeadline, IsSettled
  <1>7. CASE ResetFlags BY <1>7 DEF ResetFlags, ResetMask
  <1>8. CASE ResetShutdownWake BY <1>8 DEF ResetShutdownWake
  <1>9. CASE ResetDroppedWake BY <1>9 DEF ResetDroppedWake
  <1>10. CASE LaunchResident BY <1>10 DEF LaunchResident
  <1>11. CASE LaunchSpawn BY <1>11 DEF LaunchSpawn
  <1>12. CASE LaunchBusy BY <1>12 DEF LaunchBusy
  <1>13. CASE ExecutorPass BY <1>13 DEF ExecutorPass
  <1>14. CASE ClearIdle BY <1>14 DEF ClearIdle
  <1>15. CASE SignalStart BY <1>15 DEF SignalStart
  <1>16. CASE MarkResident BY <1>16 DEF MarkResident
  <1>17. CASE SignalResume BY <1>17 DEF SignalResume
  <1>18. CASE SetRunning BY <1>18 DEF SetRunning
  <1>19. CASE Stop BY <1>19 DEF Stop
  <1>20. CASE SetShutdown BY <1>20 DEF SetShutdown
  <1>21. CASE SignalShutdown BY <1>21 DEF SignalShutdown
  <1>22. CASE CheckDropped BY <1>22 DEF CheckDropped, HasDropped
  <1>23. CASE WaitDropped BY <1>23 DEF WaitDropped
  <1>24. CASE WaveWake BY <1>24 DEF WaveWake
  <1>25. CASE AckTimeout BY <1>25 DEF AckTimeout, HasDropped
  <1>26. CASE SetDown BY <1>26 DEF SetDown
  <1> QED
    BY <1>1, <1>2, <1>3, <1>4, <1>5, <1>6, <1>7, <1>8, <1>9, <1>10, <1>11,
       <1>12, <1>13, <1>14, <1>15, <1>16, <1>17, <1>18, <1>19, <1>20, <1>21,
       <1>22, <1>23, <1>24, <1>25, <1>26 DEF Sup

\* UpInv: the task's steps keep it.
LEMMA UpTask == IInv /\ AckInv /\ ShapeInv /\ FreshInv /\ UpInv /\ Task => UpInv'
  <1> SUFFICES ASSUME IInv, AckInv, ShapeInv, FreshInv, UpInv, Task PROVE UpInv'
    OBVIOUS
  <1>0. /\ cfg.mode \in {"Terminate", "Pause"} /\ cfg.shell \in {"task", "spawn"}
        /\ ackFor \in {"none", "park", "exit", "done"}
    BY CfgsAssumption DEF IInv, TypeOK, NodeCfg
  <1> USE <1>0 DEF Residency, VerbAt, Starting, ShellParked, Resident,
         SupPreempts, TaskPreempts, MayStep, AtAwait, Other, SupAwait,
         TaskAwait, IInv, AckInv, ShapeInv, FreshInv, Acking, Called, Clear,
         NoStaleAck, Resuming, Acked, Up, Resumable, UpInv, TaskGo
  <1>1. CASE Begin BY <1>1 DEF Begin
  <1>2. CASE Return BY <1>2 DEF Return
  <1>3. CASE SeeShutdown BY <1>3 DEF SeeShutdown, ShutdownSeen
  <1>4. CASE Cleanup BY <1>4 DEF Cleanup
  <1>5. CASE SetCompleted BY <1>5 DEF SetCompleted
  <1>6. CASE AckRunning BY <1>6 DEF AckRunning
  <1>7. CASE AckDropped BY <1>7 DEF AckDropped
  <1>8. CASE AckWake BY <1>8 DEF AckWake
  <1>9. CASE AckEvt BY <1>9 DEF AckEvt, AfterAck
  <1>10. CASE WaitResume BY <1>10 DEF WaitResume
  <1>11. CASE SetIdle BY <1>11 DEF SetIdle
  <1>12. CASE GateEvt BY <1>12 DEF GateEvt
  <1>13. CASE CheckIdle BY <1>13 DEF CheckIdle
  <1>14. CASE WaitStart BY <1>14 DEF WaitStart
  <1>15. CASE FinalPoll BY <1>15 DEF FinalPoll
  <1> QED
    BY <1>1, <1>2, <1>3, <1>4, <1>5, <1>6, <1>7, <1>8, <1>9, <1>10, <1>11,
       <1>12, <1>13, <1>14, <1>15 DEF Task

(* Why the flags and wakes implement Lifecycle for the nodes it is claimed *)
(* of: an instance that serves has not acked and reads as running, and the *)
(* shutdown latch is set only while SHUTDOWN is.                           *)
StandInv ==
    Drawn =>
      /\ Serving => "DROPPED" \notin flags
      /\ Serving /\ "RUNNING" \notin flags =>
            task = "ack_dropped" \/ sup \in {"signal_start", "mark_resident", "set_running"}
      /\ "shutdown" \in wake => "SHUTDOWN" \in flags \/ sup = "reset_shutdown"
      /\ sup = "signal_shutdown" => "SHUTDOWN" \in flags
      /\ task \in {"ack_running", "ack_dropped"} /\ ackFor \in {"park", "exit"} =>
            "SHUTDOWN" \in flags
      /\ sup \in {"reset_shutdown", "reset_dropped", "launch", "clear_idle",
                  "signal_resume"} => "SHUTDOWN" \notin flags

\* StandInv: the supervisor's steps keep it.
LEMMA StandSup == IInv /\ AckInv /\ ShapeInv /\ FreshInv /\ ParkInv /\ StandInv /\ Sup => StandInv'
  <1> SUFFICES ASSUME IInv, AckInv, ShapeInv, FreshInv, ParkInv, StandInv, Sup PROVE StandInv'
    OBVIOUS
  <1>0. /\ cfg.mode \in {"Terminate", "Pause"} /\ cfg.shell \in {"task", "spawn"}
        /\ ackFor \in {"none", "park", "exit", "done"}
    BY CfgsAssumption DEF IInv, TypeOK, NodeCfg
  <1> USE <1>0 DEF Residency, VerbAt, Starting, ShellParked, Resident,
         SupPreempts, TaskPreempts, MayStep, AtAwait, Other, SupAwait,
         TaskAwait, IInv, AckInv, StaleLatch, LateAck, LateRetry, Retrying,
         ShapeInv, FreshInv, ParkInv, Parking, Acking, Called, Clear,
         NoStaleAck, Resuming, Acked, Drawn, Serving, HasDropped, StandInv,
         SupGo
  <1>1. CASE BringUp BY <1>1 DEF BringUp
  <1>2. CASE SelectVerb BY <1>2 DEF SelectVerb, HasAckedStop
  <1>3. CASE ResumeNode BY <1>3 DEF ResumeNode, HasAckedStop
  <1>4. CASE Settle BY <1>4 DEF Settle, IsSettled
  <1>5. CASE GateWake BY <1>5 DEF GateWake
  <1>6. CASE GateDeadline BY <1>6 DEF GateDeadline, IsSettled
  <1>7. CASE ResetFlags BY <1>7 DEF ResetFlags, ResetMask
  <1>8. CASE ResetShutdownWake BY <1>8 DEF ResetShutdownWake
  <1>9. CASE ResetDroppedWake BY <1>9 DEF ResetDroppedWake
  <1>10. CASE LaunchResident BY <1>10 DEF LaunchResident
  <1>11. CASE LaunchSpawn BY <1>11 DEF LaunchSpawn
  <1>12. CASE LaunchBusy BY <1>12 DEF LaunchBusy
  <1>13. CASE ExecutorPass BY <1>13 DEF ExecutorPass
  <1>14. CASE ClearIdle BY <1>14 DEF ClearIdle
  <1>15. CASE SignalStart BY <1>15 DEF SignalStart
  <1>16. CASE MarkResident BY <1>16 DEF MarkResident
  <1>17. CASE SignalResume BY <1>17 DEF SignalResume
  <1>18. CASE SetRunning BY <1>18 DEF SetRunning
  <1>19. CASE Stop BY <1>19 DEF Stop
  <1>20. CASE SetShutdown BY <1>20 DEF SetShutdown
  <1>21. CASE SignalShutdown BY <1>21 DEF SignalShutdown
  <1>22. CASE CheckDropped BY <1>22 DEF CheckDropped, HasDropped
  <1>23. CASE WaitDropped BY <1>23 DEF WaitDropped
  <1>24. CASE WaveWake BY <1>24 DEF WaveWake
  <1>25. CASE AckTimeout BY <1>25 DEF AckTimeout, HasDropped
  <1>26. CASE SetDown BY <1>26 DEF SetDown
  <1> QED
    BY <1>1, <1>2, <1>3, <1>4, <1>5, <1>6, <1>7, <1>8, <1>9, <1>10, <1>11,
       <1>12, <1>13, <1>14, <1>15, <1>16, <1>17, <1>18, <1>19, <1>20, <1>21,
       <1>22, <1>23, <1>24, <1>25, <1>26 DEF Sup

\* StandInv: the task's steps keep it.
LEMMA StandTask == IInv /\ AckInv /\ ShapeInv /\ FreshInv /\ ParkInv /\ StandInv /\ Task => StandInv'
  <1> SUFFICES ASSUME IInv, AckInv, ShapeInv, FreshInv, ParkInv, StandInv, Task PROVE StandInv'
    OBVIOUS
  <1>0. /\ cfg.mode \in {"Terminate", "Pause"} /\ cfg.shell \in {"task", "spawn"}
        /\ ackFor \in {"none", "park", "exit", "done"}
    BY CfgsAssumption DEF IInv, TypeOK, NodeCfg
  <1> USE <1>0 DEF Residency, VerbAt, Starting, ShellParked, Resident,
         SupPreempts, TaskPreempts, MayStep, AtAwait, Other, SupAwait,
         TaskAwait, IInv, AckInv, StaleLatch, LateAck, LateRetry, Retrying,
         ShapeInv, FreshInv, ParkInv, Parking, Acking, Called, Clear,
         NoStaleAck, Resuming, Acked, Drawn, Serving, HasDropped, StandInv,
         TaskGo
  <1>1. CASE Begin BY <1>1 DEF Begin
  <1>2. CASE Return BY <1>2 DEF Return
  <1>3. CASE SeeShutdown BY <1>3 DEF SeeShutdown, ShutdownSeen
  <1>4. CASE Cleanup BY <1>4 DEF Cleanup
  <1>5. CASE SetCompleted BY <1>5 DEF SetCompleted
  <1>6. CASE AckRunning BY <1>6 DEF AckRunning
  <1>7. CASE AckDropped BY <1>7 DEF AckDropped
  <1>8. CASE AckWake BY <1>8 DEF AckWake
  <1>9. CASE AckEvt BY <1>9 DEF AckEvt, AfterAck
  <1>10. CASE WaitResume BY <1>10 DEF WaitResume
  <1>11. CASE SetIdle BY <1>11 DEF SetIdle
  <1>12. CASE GateEvt BY <1>12 DEF GateEvt
  <1>13. CASE CheckIdle BY <1>13 DEF CheckIdle
  <1>14. CASE WaitStart BY <1>14 DEF WaitStart
  <1>15. CASE FinalPoll BY <1>15 DEF FinalPoll
  <1> QED
    BY <1>1, <1>2, <1>3, <1>4, <1>5, <1>6, <1>7, <1>8, <1>9, <1>10, <1>11,
       <1>12, <1>13, <1>14, <1>15 DEF Task

AllInv == IInv /\ AckInv /\ ShapeInv /\ FreshInv /\ ParkInv /\ UpInv /\ StandInv

\* The parts together are inductive.
LEMMA AllInvHolds == Spec => []AllInv
  <1>1. Init => AllInv
    <2> SUFFICES ASSUME Init PROVE AllInv
      OBVIOUS
    <2> USE DEF Init
    <2>1. IInv BY TypeInit DEF IInv, Residency, VerbAt, Starting
    <2>2. AckInv BY DEF AckInv, StaleLatch
    <2>3. ShapeInv BY DEF ShapeInv, Acking, ShellParked
    <2>4. FreshInv BY DEF FreshInv, Called, ShellParked
    <2>5. ParkInv
      BY DEF ParkInv, Acking, Acked, Called, ShellParked, Starting, Resuming
    <2>6. UpInv BY DEF UpInv, Resuming, Acked
    <2>7. StandInv BY DEF StandInv, Serving, HasDropped
    <2> QED BY <2>1, <2>2, <2>3, <2>4, <2>5, <2>6, <2>7 DEF AllInv
  <1>2. AllInv /\ [Next]_vars => AllInv'
    <2> SUFFICES ASSUME AllInv, [Next]_vars PROVE AllInv'
      OBVIOUS
    <2> USE DEF AllInv
    <2>1. CASE Sup
      BY <2>1, TypeSup, ResidencySup, AckSup, ShapeSup, FreshSup, ParkSup, UpSup,
         StandSup DEF IInv
    <2>2. CASE Task
      BY <2>2, TypeTask, ResidencyTask, AckTask, ShapeTask, FreshTask, ParkTask,
         UpTask, StandTask DEF IInv
    <2>3. CASE UNCHANGED vars
      <3> USE <2>3 DEF vars, Resident, SupPreempts, TaskPreempts, Acking, Called,
            Clear, Acked, Resuming, ShellParked, HasDropped
      <3>1. IInv' BY DEF IInv, TypeOK, Residency, VerbAt
      <3>2. AckInv' BY DEF AckInv, LateAck, LateRetry, StaleLatch
      <3>3. ShapeInv' BY DEF ShapeInv
      <3>4. FreshInv' BY DEF FreshInv, NoStaleAck
      <3>5. ParkInv' BY DEF ParkInv, Parking
      <3>6. UpInv' BY DEF UpInv, Up, Resumable
      <3>7. StandInv' BY DEF StandInv, Drawn, Serving
      <3> QED BY <3>1, <3>2, <3>3, <3>4, <3>5, <3>6, <3>7
    <2> QED BY <2>1, <2>2, <2>3 DEF Next
  <1> QED BY <1>1, <1>2, PTL DEF Spec

\* A task leaves its park only when it was called.
LEMMA LeavesPark ==
    ASSUME Next, task' # task
    PROVE  /\ task = "check_idle" /\ task' # "wait_start" => "IDLE" \notin flags
           /\ task = "parked" => "resume" \in wake
  <1>1. CASE Sup
    BY <1>1 DEF Sup, BringUp, SelectVerb, ResumeNode, Settle, GateWake,
       GateDeadline, ResetFlags, ResetShutdownWake, ResetDroppedWake,
       LaunchResident, LaunchSpawn, LaunchBusy, ExecutorPass, ClearIdle,
       SignalStart, MarkResident, SignalResume, SetRunning, Stop, SetShutdown,
       SignalShutdown, CheckDropped, WaitDropped, WaveWake, AckTimeout, SetDown
  <1>2. CASE Task
    BY <1>2 DEF Task, TaskGo, Begin, Return, SeeShutdown, Cleanup, SetCompleted,
       AckRunning, AckDropped, AckWake, AckEvt, WaitResume, SetIdle, GateEvt,
       CheckIdle, WaitStart, FinalPoll
  <1> QED BY <1>1, <1>2 DEF Next

\* Once the supervisor is done with it, a node whose task has exited or is
\* parked does not read as running, wherever the task cannot run between its
\* spawn and set_running and a spawn: task is not reset inside settle_dropped.
THEOREM DownReadsDownHolds == Spec => []DownReadsDownBelow
  <1>1. AllInv => DownReadsDownBelow
    BY DEF AllInv, ShapeInv, UpInv, Up, Called, ShellParked, Acking,
           DownReadsDownBelow, DownReadsDown, Down
  <1> QED BY <1>1, AllInvHolds, PTL

\* The reset before a start leaves no ack of the previous instance to the next
\* one: for every resident shell, and for every spawn: task that cannot run
\* between the reset and the spawn.
THEOREM FreshActivationHolds == Spec => FreshActivationBelow
  <1>1. AllInv /\ [Next]_vars => [Activates /\ (Resident \/ ~TaskPreempts) => NoStaleAck]_vars
    <2> SUFFICES ASSUME AllInv, Next, Activates, Resident \/ ~TaskPreempts
                 PROVE  NoStaleAck
      OBVIOUS
    <2>1. task = "begin" \/ Called
      <3>1. CASE task = "begin" BY <3>1
      <3>2. CASE task = "check_idle"
        <4>1. "IDLE" \notin flags
          BY <3>2, LeavesPark DEF Activates
        <4> QED BY <3>2, <4>1 DEF Called, ShellParked
      <3> QED BY <3>1, <3>2 DEF Activates
    <2> QED BY <2>1 DEF AllInv, FreshInv
  <1> QED BY <1>1, AllInvHolds, PTL DEF Spec, FreshActivationBelow

\* A parked Pause task leaves wait_resume only for a resume that cleared its
\* ack, wherever the supervisor cannot run inside the task's own stores.
THEOREM ResumeIsAskedHolds == Spec => ResumeIsAskedBelow
  <1>1. AllInv /\ [Next]_vars =>
          [~SupPreempts /\ task = "parked" /\ task' = "work" => ~HasDropped]_vars
    <2> SUFFICES ASSUME AllInv, Next, ~SupPreempts, task = "parked", task' = "work"
                 PROVE  ~HasDropped
      OBVIOUS
    <2>1. "resume" \in wake
      BY LeavesPark
    <2> QED BY <2>1 DEF AllInv, ShapeInv, ParkInv, Parking, HasDropped
  <1> QED BY <1>1, AllInvHolds, PTL DEF Spec, ResumeIsAskedBelow

----------------------------------------------------------------------------
(* The handshake implements the lifecycle, step by step.                   *)

Standing == "SHUTDOWN" \in flags \/ "DROPPED" \in flags

\* The steps of Lifecycle and its stutter, on Place and Standing.
LifeStep ==
    \/ Place' = Place /\ (Standing' <=> Standing)
    \/ Place' = Place /\ ~Standing /\ Standing'
    \/ Place' = Place /\ Place # "running" /\ Standing /\ ~Standing'
    \/ Place # "running" /\ Place' = "running" /\ ~Standing /\ ~Standing'
    \/ /\ Place = "running" /\ Standing /\ Standing'
       /\ Place' = IF cfg.mode = "Pause" THEN "parked" ELSE "down"
    \/ Place = "running" /\ Place' = "down" /\ (Standing' <=> Standing)

\* LifeStep: the supervisor's steps are such steps.
LEMMA LifeSup == AllInv /\ Drawn /\ Sup => LifeStep
  <1> SUFFICES ASSUME AllInv, Drawn, Sup PROVE LifeStep
    OBVIOUS
  <1>0. /\ cfg.mode \in {"Terminate", "Pause"} /\ cfg.shell \in {"task", "spawn"}
        /\ ackFor \in {"none", "park", "exit", "done"}
    BY CfgsAssumption DEF AllInv, IInv, TypeOK, NodeCfg
  <1> USE <1>0 DEF Residency, VerbAt, Starting, ShellParked, Resident,
         SupPreempts, TaskPreempts, MayStep, AtAwait, Other, SupAwait,
         TaskAwait, IInv, AckInv, StaleLatch, LateAck, LateRetry, Retrying,
         ShapeInv, FreshInv, ParkInv, Parking, Acking, Called, Clear,
         NoStaleAck, Resuming, Acked, Drawn, Serving, HasDropped, StandInv,
         AllInv, Standing, Place, LifeStep, SupGo
  <1>1. CASE BringUp BY <1>1 DEF BringUp
  <1>2. CASE SelectVerb BY <1>2 DEF SelectVerb, HasAckedStop
  <1>3. CASE ResumeNode BY <1>3 DEF ResumeNode, HasAckedStop
  <1>4. CASE Settle BY <1>4 DEF Settle, IsSettled
  <1>5. CASE GateWake BY <1>5 DEF GateWake
  <1>6. CASE GateDeadline BY <1>6 DEF GateDeadline, IsSettled
  <1>7. CASE ResetFlags BY <1>7 DEF ResetFlags, ResetMask
  <1>8. CASE ResetShutdownWake BY <1>8 DEF ResetShutdownWake
  <1>9. CASE ResetDroppedWake BY <1>9 DEF ResetDroppedWake
  <1>10. CASE LaunchResident BY <1>10 DEF LaunchResident
  <1>11. CASE LaunchSpawn BY <1>11 DEF LaunchSpawn
  <1>12. CASE LaunchBusy BY <1>12 DEF LaunchBusy
  <1>13. CASE ExecutorPass BY <1>13 DEF ExecutorPass
  <1>14. CASE ClearIdle BY <1>14 DEF ClearIdle
  <1>15. CASE SignalStart BY <1>15 DEF SignalStart
  <1>16. CASE MarkResident BY <1>16 DEF MarkResident
  <1>17. CASE SignalResume BY <1>17 DEF SignalResume
  <1>18. CASE SetRunning BY <1>18 DEF SetRunning
  <1>19. CASE Stop BY <1>19 DEF Stop
  <1>20. CASE SetShutdown BY <1>20 DEF SetShutdown
  <1>21. CASE SignalShutdown BY <1>21 DEF SignalShutdown
  <1>22. CASE CheckDropped BY <1>22 DEF CheckDropped, HasDropped
  <1>23. CASE WaitDropped BY <1>23 DEF WaitDropped
  <1>24. CASE WaveWake BY <1>24 DEF WaveWake
  <1>25. CASE AckTimeout BY <1>25 DEF AckTimeout, HasDropped
  <1>26. CASE SetDown BY <1>26 DEF SetDown
  <1> QED
    BY <1>1, <1>2, <1>3, <1>4, <1>5, <1>6, <1>7, <1>8, <1>9, <1>10, <1>11,
       <1>12, <1>13, <1>14, <1>15, <1>16, <1>17, <1>18, <1>19, <1>20, <1>21,
       <1>22, <1>23, <1>24, <1>25, <1>26 DEF Sup

\* LifeStep: the task's steps are such steps.
LEMMA LifeTask == AllInv /\ Drawn /\ Task => LifeStep
  <1> SUFFICES ASSUME AllInv, Drawn, Task PROVE LifeStep
    OBVIOUS
  <1>0. /\ cfg.mode \in {"Terminate", "Pause"} /\ cfg.shell \in {"task", "spawn"}
        /\ ackFor \in {"none", "park", "exit", "done"}
    BY CfgsAssumption DEF AllInv, IInv, TypeOK, NodeCfg
  <1> USE <1>0 DEF Residency, VerbAt, Starting, ShellParked, Resident,
         SupPreempts, TaskPreempts, MayStep, AtAwait, Other, SupAwait,
         TaskAwait, IInv, AckInv, StaleLatch, LateAck, LateRetry, Retrying,
         ShapeInv, FreshInv, ParkInv, Parking, Acking, Called, Clear,
         NoStaleAck, Resuming, Acked, Drawn, Serving, HasDropped, StandInv,
         AllInv, Standing, Place, LifeStep, TaskGo
  <1>1. CASE Begin BY <1>1 DEF Begin
  <1>2. CASE Return BY <1>2 DEF Return
  <1>3. CASE SeeShutdown BY <1>3 DEF SeeShutdown, ShutdownSeen
  <1>4. CASE Cleanup BY <1>4 DEF Cleanup
  <1>5. CASE SetCompleted BY <1>5 DEF SetCompleted
  <1>6. CASE AckRunning BY <1>6 DEF AckRunning
  <1>7. CASE AckDropped BY <1>7 DEF AckDropped
  <1>8. CASE AckWake BY <1>8 DEF AckWake
  <1>9. CASE AckEvt BY <1>9 DEF AckEvt, AfterAck
  <1>10. CASE WaitResume BY <1>10 DEF WaitResume
  <1>11. CASE SetIdle BY <1>11 DEF SetIdle
  <1>12. CASE GateEvt BY <1>12 DEF GateEvt
  <1>13. CASE CheckIdle BY <1>13 DEF CheckIdle
  <1>14. CASE WaitStart BY <1>14 DEF WaitStart
  <1>15. CASE FinalPoll BY <1>15 DEF FinalPoll
  <1> QED
    BY <1>1, <1>2, <1>3, <1>4, <1>5, <1>6, <1>7, <1>8, <1>9, <1>10, <1>11,
       <1>12, <1>13, <1>14, <1>15 DEF Task

\* A step of the handshake is a step or a stutter of the lifecycle.
LEMMA LifeRefines ==
    ASSUME AllInv, [Next]_vars
    PROVE  [L!LifeNext]_(L!lifeVars)
  <1> USE DEF L!lifeVars
  <1>0. cfg' = cfg /\ (Drawn' <=> Drawn)
    <2>1. cfg' = cfg
      BY DEF vars, Next, Sup, Task, SupGo, TaskGo, Begin, Return, SeeShutdown,
         Cleanup, SetCompleted, AckRunning, AckDropped, AckWake, AckEvt,
         WaitResume, SetIdle, GateEvt, CheckIdle, WaitStart, FinalPoll,
         BringUp, SelectVerb, ResumeNode, Settle, GateWake, GateDeadline,
         ResetFlags, ResetShutdownWake, ResetDroppedWake, LaunchResident,
         LaunchSpawn, LaunchBusy, ExecutorPass, ClearIdle, SignalStart,
         MarkResident, SignalResume, SetRunning, Stop, SetShutdown,
         SignalShutdown, CheckDropped, WaitDropped, WaveWake, AckTimeout, SetDown
    <2> QED BY <2>1 DEF Drawn, Resident, SupPreempts
  <1>1. CASE ~Drawn
    BY <1>0, <1>1
  <1>2. CASE Drawn
    <2>1. LifeStep
      <3>1. CASE Sup BY <1>2, <3>1, LifeSup
      <3>2. CASE Task BY <1>2, <3>2, LifeTask
      <3>3. CASE UNCHANGED vars
        BY <3>3 DEF vars, LifeStep, Place, Serving, Standing, HasDropped
      <3> QED BY <3>1, <3>2, <3>3 DEF Next
    <2>2. (flags \intersect {"SHUTDOWN", "DROPPED"} # {}) <=> Standing
      BY DEF Standing
    <2>3. (flags' \intersect {"SHUTDOWN", "DROPPED"} # {}) <=> Standing'
      BY DEF Standing
    <2> QED
      BY <1>0, <1>2, <2>1, <2>2, <2>3
      DEF LifeStep, L!LifeNext, L!AskStop, L!Revoke, L!ComeUp, L!GoDown, L!Exit
  <1> QED BY <1>1, <1>2

\* The flag word and the wakes implement every step of the lifecycle the tools
\* draw, for the nodes it is claimed of: nothing is started or resumed under a
\* stop that stands, no stop is revoked under a running instance, and an
\* instance goes down only for a stop or by returning.
THEOREM LifecycleStepsHold == Spec => L!LifeInit /\ [][L!LifeNext]_(L!lifeVars)
  <1>1. Init => L!LifeInit
    <2> SUFFICES ASSUME Init PROVE L!LifeInit
      OBVIOUS
    <2>1. cfg.mode \in {"Terminate", "Pause"}
      BY CfgsAssumption DEF Init, NodeCfg
    <2>2. Place = "down" BY DEF Init, Place, Serving, ShellParked
    <2>3. flags = {} BY DEF Init
    <2> QED BY <2>1, <2>2, <2>3 DEF L!LifeInit
  <1>2. AllInv /\ [Next]_vars => [L!LifeNext]_(L!lifeVars)
    BY LifeRefines
  <1> QED BY <1>1, <1>2, AllInvHolds, PTL DEF Spec
=============================================================================
