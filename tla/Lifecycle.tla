----------------------------- MODULE Lifecycle -----------------------------
(***************************************************************************)
(* What a node's lifecycle promises, as the state diagrams the tools draw  *)
(* show it: one instance that is down, running or, for a Pause node,       *)
(* parked.  It comes up only when no stop stands, goes down only when one  *)
(* does or by returning, and a stop that stands is honoured.  Handshake    *)
(* shows that the flags and signals of TaskHandle implement this.          *)
(***************************************************************************)
VARIABLES
    mode,       \* "Terminate" or "Pause"; never changes
    place,      \* "down", "running" or "parked"
    standing    \* a stop is asked for, or its acknowledgement stands

lifeVars == <<mode, place, standing>>

LifeInit ==
    /\ mode \in {"Terminate", "Pause"}
    /\ place = "down"
    /\ standing = FALSE

\* stop_node, a teardown or an exit; a start or a resume revokes it, and never
\* under a running instance.
AskStop == ~standing /\ standing' = TRUE /\ UNCHANGED <<mode, place>>

Revoke ==
    /\ standing /\ place # "running"
    /\ standing' = FALSE /\ UNCHANGED <<mode, place>>

\* down --> running: start; parked --> running: resume, in place.
ComeUp ==
    /\ place # "running" /\ ~standing
    /\ place' = "running" /\ UNCHANGED <<mode, standing>>

\* running --> parked, or running --> down: acknowledged.
GoDown ==
    /\ place = "running" /\ standing
    /\ place' = IF mode = "Pause" THEN "parked" ELSE "down"
    /\ UNCHANGED <<mode, standing>>

\* running --> down: the worker returns.
Exit ==
    /\ place = "running"
    /\ place' = "down" /\ UNCHANGED <<mode, standing>>

LifeNext == AskStop \/ Revoke \/ ComeUp \/ GoDown \/ Exit

LifeSpec == LifeInit /\ [][LifeNext]_lifeVars /\ WF_lifeVars(standing /\ (GoDown \/ Exit))
=============================================================================
