------------------------------- MODULE Backed -------------------------------
(***************************************************************************)
(* A Backed signal: readers that open() it, its producer that is started   *)
(* by the first of them and retires when none is left, the control mailbox *)
(* between them and the supervisor.  Readers, producer and supervisor may  *)
(* run on executors of their own; the supervisor's verbs are single steps  *)
(* here and the subject of the module Supervisor.                          *)
(***************************************************************************)
EXTENDS Naturals, Sequences, FiniteSets

CONSTANTS
    Readers,        \* the nodes that open the signal
    MaxOpens,       \* bound: opens
    AppRestarts,    \* bound: restarts of the producer the application asks for
    CtlCap          \* capacity of CONTROL_REQ

ASSUME BackedAssumption ==
    IsFiniteSet(Readers) /\ {MaxOpens, AppRestarts, CtlCap} \subseteq Nat

VARIABLES
    serves,     \* the producer's RUNNING and READY: "down", "up" or "ready"
    backer,     \* where the producer's worker is
    openers,    \* Backed::openers
    watched,    \* Backed::watch is latched
    asked,      \* Backed::requested
    ctl,        \* CONTROL_REQ
    rd,         \* where each reader is
    owes,       \* the readers that still have to signal watch
    opens,      \* bound: opens so far
    again       \* bound: restarts asked for so far

backedVars == <<serves, backer, openers, watched, asked, ctl, rd,
                owes, opens, again>>

BackedInit ==
    /\ serves = "down" /\ backer = "off"
    /\ openers = 0 /\ watched = FALSE /\ asked = FALSE
    /\ ctl = <<>>
    /\ rd = [r \in Readers |-> "out"]
    /\ owes = {} /\ opens = 0 /\ again = 0

Running == serves # "down"
Serving == serves = "ready"

----------------------------------------------------------------------------
(* A reader.                                                               *)

ReadGo(r, from, to) ==
    /\ rd[r] = from
    /\ rd' = [rd EXCEPT ![r] = to]
    /\ UNCHANGED <<serves, backer, watched, again>>

\* Faulty variant: the reader is counted once it got in.
AdmitLate(r) ==
    /\ opens < MaxOpens /\ opens' = opens + 1
    /\ ReadGo(r, "out", "ensure")
    /\ UNCHANGED <<openers, owes, asked, ctl>>

\* open: admit_reader, before the gate is looked at.
Admit(r) ==
    /\ opens < MaxOpens /\ opens' = opens + 1
    /\ ReadGo(r, "out", "ensure")
    /\ openers' = openers + 1
    /\ owes' = IF openers = 0 THEN owes \union {r} ELSE owes
    /\ UNCHANGED <<asked, ctl>>

\* ensure: through if the producer serves, else ask for it once, then wait.
Ensure(r) ==
    /\ r \notin owes
    /\ ReadGo(r, "ensure", IF Serving THEN "read"
                           ELSE IF ~Running /\ ~asked THEN "ask" ELSE "wait")
    /\ asked' = IF Serving THEN FALSE ELSE asked \/ ~Running
    /\ UNCHANGED <<openers, ctl, owes, opens>>

\* request_control(Activate) waits for room in the mailbox.
AskActivate(r) ==
    /\ Len(ctl) < CtlCap
    /\ ReadGo(r, "ask", "wait")
    /\ ctl' = Append(ctl, "activate")
    /\ UNCHANGED <<openers, asked, owes, opens>>

\* Faulty variant: the request is remembered although nothing came of it.
WaitServingAsked(r) ==
    /\ ReadGo(r, "wait", "ensure")
    /\ UNCHANGED <<openers, asked, ctl, owes, opens>>

\* wait_serving returns on a change, or after GATE_RETRY.
WaitServing(r) ==
    /\ ReadGo(r, "wait", "ensure")
    /\ asked' = (asked /\ Serving)
    /\ UNCHANGED <<openers, ctl, owes, opens>>

\* The guard is dropped: by a reader that is done, or whose open was cancelled.
DropOpen(r) ==
    /\ r \notin owes
    /\ \E from \in {"ensure", "ask", "wait", "read"} : ReadGo(r, from, "out")
    /\ openers' = openers - 1
    /\ owes' = IF openers = 1 THEN owes \union {r} ELSE owes
    /\ UNCHANGED <<asked, ctl, opens>>

\* The signal that follows the count's move between none and one.
SignalWatch(r) ==
    /\ r \in owes
    /\ owes' = owes \ {r} /\ watched' = TRUE
    /\ UNCHANGED <<serves, backer, openers, asked, ctl, rd, opens, again>>

BackedReader(r) == Ensure(r) \/ AskActivate(r) \/ WaitServing(r) \/ SignalWatch(r)

----------------------------------------------------------------------------
(* The producer: ready, serve, retire.                                     *)

ProdGo(from, to) ==
    /\ backer = from
    /\ backer' = to
    /\ UNCHANGED <<openers, asked, rd, owes, opens, again>>

ProducerReady ==
    /\ ProdGo("init", "watch")
    /\ serves' = "ready"
    /\ UNCHANGED <<watched, ctl>>

\* unwatched: while there are openers, wait for the count to move ...
UnwatchedLook ==
    /\ ProdGo("watch", IF openers > 0 THEN "parked" ELSE "reset")
    /\ UNCHANGED <<serves, watched, ctl>>

UnwatchedWoken ==
    /\ watched
    /\ ProdGo("parked", "watch")
    /\ watched' = FALSE
    /\ UNCHANGED <<serves, ctl>>

\* ... then reset the signal and let the cooldown run.
UnwatchedReset ==
    /\ ProdGo("reset", "cool")
    /\ watched' = FALSE
    /\ UNCHANGED <<serves, ctl>>

CooldownCut ==
    /\ watched
    /\ ProdGo("cool", "watch")
    /\ watched' = FALSE
    /\ UNCHANGED <<serves, ctl>>

CooldownOver ==
    /\ ProdGo("cool", IF openers = 0 THEN "clear" ELSE "watch")
    /\ UNCHANGED <<serves, watched, ctl>>

\* retire: clear_ready first, then the last look.
RetireClear ==
    /\ ProdGo("clear", "last")
    /\ serves' = "up"
    /\ UNCHANGED <<watched, ctl>>

RetireLook ==
    /\ ProdGo("last", IF openers = 0 THEN "retire" ELSE "watch")
    /\ serves' = IF openers = 0 THEN serves ELSE "ready"
    /\ UNCHANGED <<watched, ctl>>

RetireAsk ==
    /\ Len(ctl) < CtlCap
    /\ ProdGo("retire", "retired")
    /\ ctl' = Append(ctl, "retire")
    /\ UNCHANGED <<serves, watched>>

Producer ==
    \/ ProducerReady \/ UnwatchedLook \/ UnwatchedWoken \/ UnwatchedReset \/ CooldownCut
    \/ CooldownOver \/ RetireClear \/ RetireLook \/ RetireAsk

----------------------------------------------------------------------------
(* The supervisor and the application.                                     *)

\* Activate starts a producer that is down, Deactivate stops one that is up,
\* Restart does both.  A stop drops the worker wherever it is.
HandleControl ==
    /\ ctl # <<>>
    /\ ctl' = Tail(ctl)
    /\ LET down == Head(ctl) = "retire"
       IN IF Head(ctl) = "activate" /\ Running
          THEN UNCHANGED <<serves, backer>>
          ELSE /\ serves' = IF down THEN "down" ELSE "up"
               /\ backer' = IF down THEN "off" ELSE "init"
    /\ UNCHANGED <<openers, watched, asked, rd, owes, opens, again>>

AskRestart ==
    /\ again < AppRestarts /\ Len(ctl) < CtlCap
    /\ again' = again + 1
    /\ ctl' = Append(ctl, "restart")
    /\ UNCHANGED <<serves, backer, openers, watched, asked, rd, owes, opens>>

BackedNext ==
    \/ \E r \in Readers : Admit(r) \/ BackedReader(r) \/ DropOpen(r)
    \/ Producer \/ HandleControl \/ AskRestart

\* Tasks that can go on do, and a timer fires; nobody has to open or to leave.
BackedSpec ==
    /\ BackedInit /\ [][BackedNext]_backedVars
    /\ WF_backedVars(HandleControl) /\ WF_backedVars(Producer)
    /\ \A r \in Readers : WF_backedVars(BackedReader(r))

BackedTypeOK ==
    /\ serves \in {"down", "up", "ready"}
    /\ backer \in {"off", "init", "watch", "parked", "reset", "cool", "clear", "last",
                   "retire", "retired"}
    /\ openers \in 0..Cardinality(Readers)
    /\ {watched, asked} \subseteq BOOLEAN
    /\ ctl \in Seq({"activate", "retire", "restart"}) /\ Len(ctl) <= CtlCap
    /\ rd \in [Readers -> {"out", "ensure", "ask", "wait", "read"}]
    /\ owes \subseteq Readers

\* The readiness handshake keeps the stop race-free (TaskNode::retire): a
\* producer's own retirement never stops it under a reader that got in.  A
\* restart between the retirement's request and its handling is excepted: the
\* request then meets the next activation.
RetireIsRaceFree ==
    [][ctl # <<>> /\ Head(ctl) = "retire" /\ ctl' = Tail(ctl) /\ again = 0
        => \A r \in Readers : rd[r] # "read"]_backedVars

\* Whoever opens the signal gets in, or gives up, whatever became of the
\* request of a reader before it.
ReaderGetsIn == \A r \in Readers : rd[r] = "ensure" ~> rd[r] \in {"read", "out"}

\* The last reader is seen to leave: a producer parked in unwatched() over a
\* count that has fallen to none has its signal latched, or a reader is about
\* to signal.
LeavingIsOwed == backer = "parked" /\ openers = 0 => watched \/ owes # {}
=============================================================================
