----------------------------- MODULE MCServices -----------------------------
(* The services around the core, in one model: `focus' picks in the initial  *)
(* state the service whose actors run; the state of the others stays as it   *)
(* starts.  The services share no variable, so that is each of them checked  *)
(* by itself, over the same interleavings.                                   *)
EXTENDS Inject, Slots, Monitor, Fence, Report, Budget, Backed, Veto, Leased

VARIABLE focus

servicesVars == <<focus, injVars, slotVars, monVars, fenceVars, repVars, budgetVars,
                  backedVars, vetoVars, leasedVars>>

\* The declarations and policies a service may start with are tried where it
\* runs, and fixed where it does not.
OneStart ==
    /\ focus # "inject"  => injNode = CHOOSE n \in InjNodes : TRUE
    /\ focus # "slots"   => declared[1] = "DEV" /\ kind = CHOOSE k \in ResKinds : TRUE
    /\ focus # "monitor" => ~observed
    /\ focus # "budget"  => policy = "fair" /\ capacity = CHOOSE c \in Capacities : TRUE
    /\ focus # "veto"    => actuator = "work"

ServicesInit ==
    /\ focus \in {"inject", "slots", "monitor", "fence", "report", "budget", "backed",
                  "veto", "leased"}
    /\ InjInit
    /\ SlotsInit
    /\ MonInit
    /\ FenceInit
    /\ RepInit
    /\ BudgetInit
    /\ BackedInit
    /\ VetoInit
    /\ LeasedInit
    /\ OneStart

InjTurn ==
    /\ focus = "inject"
    /\ InjNext
    /\ UNCHANGED <<focus, slotVars, monVars, fenceVars, repVars, budgetVars, backedVars,
                   vetoVars, leasedVars>>

SlotsTurn ==
    /\ focus = "slots"
    /\ SlotsNext
    /\ UNCHANGED <<focus, injVars, monVars, fenceVars, repVars, budgetVars, backedVars,
                   vetoVars, leasedVars>>

MonTurn ==
    /\ focus = "monitor"
    /\ MonNext
    /\ UNCHANGED <<focus, injVars, slotVars, fenceVars, repVars, budgetVars, backedVars,
                   vetoVars, leasedVars>>

FenceTurn ==
    /\ focus = "fence"
    /\ FenceNext
    /\ UNCHANGED <<focus, injVars, slotVars, monVars, repVars, budgetVars, backedVars,
                   vetoVars, leasedVars>>

RepTurn ==
    /\ focus = "report"
    /\ RepNext
    /\ UNCHANGED <<focus, injVars, slotVars, monVars, fenceVars, budgetVars, backedVars,
                   vetoVars, leasedVars>>

BudgetTurn ==
    /\ focus = "budget"
    /\ BudgetNext
    /\ UNCHANGED <<focus, injVars, slotVars, monVars, fenceVars, repVars, backedVars,
                   vetoVars, leasedVars>>

BackedTurn ==
    /\ focus = "backed"
    /\ BackedNext
    /\ UNCHANGED <<focus, injVars, slotVars, monVars, fenceVars, repVars, budgetVars,
                   vetoVars, leasedVars>>

VetoTurn ==
    /\ focus = "veto"
    /\ VetoNext
    /\ UNCHANGED <<focus, injVars, slotVars, monVars, fenceVars, repVars, budgetVars,
                   backedVars, leasedVars>>

LeasedTurn ==
    /\ focus = "leased"
    /\ LeasedNext
    /\ UNCHANGED <<focus, injVars, slotVars, monVars, fenceVars, repVars, budgetVars,
                   backedVars, vetoVars>>

ServicesNext ==
    \/ InjTurn \/ SlotsTurn \/ MonTurn \/ FenceTurn \/ RepTurn
    \/ BudgetTurn \/ BackedTurn \/ VetoTurn \/ LeasedTurn

\* The fairness each service's own specification states.
ServicesFairness ==
    /\ WF_injVars(focus = "inject" /\ InjTask)
    /\ WF_injVars(focus = "inject" /\ Injector /\ inj # "idle")
    /\ WF_slotVars(focus = "slots" /\ WakeGate)
    /\ WF_slotVars(focus = "slots" /\ CheckGate)
    /\ WF_slotVars(focus = "slots" /\ ResetFilled)
    /\ WF_fenceVars(focus = "fence" /\ PollReturns)
    /\ WF_fenceVars(focus = "fence" /\ CountPass)
    /\ SF_fenceVars(focus = "fence" /\ PollFence)
    /\ WF_fenceVars(focus = "fence" /\ CheckPass)
    /\ WF_fenceVars(focus = "fence" /\ PassWake)
    /\ WF_repVars(focus = "report" /\ EpochWoken)
    /\ WF_repVars(focus = "report" /\ EpochLook)
    /\ WF_backedVars(focus = "backed" /\ HandleControl)
    /\ WF_backedVars(focus = "backed" /\ Producer)
    /\ \A r \in Readers : WF_backedVars(focus = "backed" /\ BackedReader(r))
    /\ WF_leasedVars(focus = "leased" /\ CheckCount)
    /\ WF_leasedVars(focus = "leased" /\ WaitIdle)
    /\ \A r \in Reader : /\ WF_leasedVars(focus = "leased" /\ Drop(r))
                          /\ WF_leasedVars(focus = "leased" /\ DropSignal(r))

ServicesSpec == ServicesInit /\ [][ServicesNext]_servicesVars /\ ServicesFairness

----------------------------------------------------------------------------
\* Every service keeps to its types.
ServicesTypeOK ==
    /\ InjTypeOK
    /\ SlotsTypeOK
    /\ MonTypeOK
    /\ FenceTypeOK
    /\ RepTypeOK
    /\ BudgetTypeOK
    /\ BackedTypeOK
    /\ VetoTypeOK
    /\ LeasedTypeOK

\* No wake is lost.  Each service parks a future on a waker that another actor
\* wakes after it changed what the future waits for: a stop under a fault that
\* is cleared, a slot that is filled, a pass of an executor, an epoch, the last
\* lease on a drained value, a producer that serves, a budget's grant, a trip
\* of a veto gate, the last reader of a backed signal.  A future that waits for
\* what has come is not left parked; WakesAreOwed is the part of this that no
\* fairness is needed for: whoever is parked on it is latched, or somebody is on
\* the way to wake it.
WakesAreOwed ==
    /\ StopIsOwed
    /\ FillIsLatched
    /\ PassIsOwed
    /\ EpochIsLatched
    /\ DropIsOwed
    /\ LeavingIsOwed
    /\ GrantIsSeen
    /\ FlipIsSeen

NoLostWakeup ==
    /\ StopIsHeard
    /\ FillIsSeen
    /\ PassIsSeen
    /\ EpochIsSeen
    /\ DrainEnds
    /\ ReaderGetsIn
    /\ []WakesAreOwed

============================================================================
