------------------------------- MODULE Leased -------------------------------
(***************************************************************************)
(* Leased<T>: a published value whose producer waits, in its shutdown,     *)
(* until every reader has let go.  One word holds the number of live       *)
(* leases and, in its top bit, whether the value is closed; readers and    *)
(* the producer work on it from any executor, one atomic operation a step. *)
(***************************************************************************)
EXTENDS Naturals, FiniteSets

CONSTANTS
    Reader,     \* the tasks that lease the value
    CLOSED      \* the weight of the top bit, 2^31 in the code

ASSUME LeasedAssumption ==
    /\ IsFiniteSet(Reader)
    /\ CLOSED \in Nat
    /\ Cardinality(Reader) < CLOSED

VARIABLES
    state,      \* Leased::state, the word
    idle,       \* Leased::idle is latched
    cur,        \* [Reader -> the word as the reader last saw it]
    reader,     \* [Reader -> where the reader is]
    producer    \* where the producer is

leasedVars == <<state, idle, cur, reader, producer>>

IsClosed(s) == s >= CLOSED

Count(s) == IF IsClosed(s) THEN s - CLOSED ELSE s

LeasedInit ==
    /\ state = 0
    /\ idle = FALSE
    /\ cur = [r \in Reader |-> 0]
    /\ reader = [r \in Reader |-> "out"]
    /\ producer = "open"

----------------------------------------------------------------------------
(* lease() and the drop of a Lease.                                        *)

Load(r) ==
    /\ reader[r] = "out"
    /\ reader' = [reader EXCEPT ![r] = "leasing"]
    /\ cur' = [cur EXCEPT ![r] = state]
    /\ UNCHANGED <<state, idle, producer>>

Refused(r) ==
    /\ reader[r] = "leasing" /\ IsClosed(cur[r])
    /\ reader' = [reader EXCEPT ![r] = "out"]
    /\ UNCHANGED <<state, idle, cur, producer>>

\* compare_exchange_weak, where it succeeds ...
Exchange(r) ==
    /\ reader[r] = "leasing" /\ ~IsClosed(cur[r])
    /\ state = cur[r]
    /\ state' = cur[r] + 1
    /\ reader' = [reader EXCEPT ![r] = "held"]
    /\ UNCHANGED <<idle, cur, producer>>

\* ... and where it fails, spuriously or not, and returns the word it saw.
Retry(r) ==
    /\ reader[r] = "leasing" /\ ~IsClosed(cur[r])
    /\ cur' = [cur EXCEPT ![r] = state]
    /\ UNCHANGED <<state, idle, reader, producer>>

\* Faulty variant: the bit is not masked off, so the last lease of a closed
\* value is not recognised.
DropUnmasked(r) ==
    /\ reader[r] = "held"
    /\ state' = state - 1
    /\ reader' = [reader EXCEPT ![r] = IF state = 1 THEN "signalling" ELSE "out"]
    /\ UNCHANGED <<idle, cur, producer>>

Drop(r) ==
    /\ reader[r] = "held"
    /\ state' = state - 1
    /\ reader' = [reader EXCEPT ![r] =
          IF Count(state) = 1 THEN "signalling" ELSE "out"]
    /\ UNCHANGED <<idle, cur, producer>>

DropSignal(r) ==
    /\ reader[r] = "signalling"
    /\ idle' = TRUE
    /\ reader' = [reader EXCEPT ![r] = "out"]
    /\ UNCHANGED <<state, cur, producer>>

----------------------------------------------------------------------------
(* drain() and reopen().                                                   *)

\* Faulty variant: the bit is added, not set.
CloseAdding ==
    /\ producer \in {"open", "closed"}
    /\ state' = state + CLOSED
    /\ producer' = "check"
    /\ UNCHANGED <<idle, cur, reader>>

\* Also from "closed": a drain that was cancelled may be run again.
Close ==
    /\ producer \in {"open", "closed"}
    /\ state' = IF IsClosed(state) THEN state ELSE state + CLOSED
    /\ producer' = "check"
    /\ UNCHANGED <<idle, cur, reader>>

CheckCount ==
    /\ producer = "check"
    /\ producer' = IF Count(state) # 0 THEN "wait" ELSE "drained"
    /\ UNCHANGED <<state, idle, cur, reader>>

\* Faulty variant: the wake is taken for the condition.
WaitIdleOnce ==
    /\ producer = "wait" /\ idle
    /\ idle' = FALSE
    /\ producer' = "drained"
    /\ UNCHANGED <<state, cur, reader>>

WaitIdle ==
    /\ producer = "wait" /\ idle
    /\ idle' = FALSE
    /\ producer' = "check"
    /\ UNCHANGED <<state, cur, reader>>

\* The future of drain() is dropped where it waits: the value stays closed.
CancelDrain ==
    /\ producer = "wait"
    /\ producer' = "closed"
    /\ UNCHANGED <<state, idle, cur, reader>>

ReopenReset ==
    /\ producer \in {"drained", "closed"}
    /\ idle' = FALSE
    /\ producer' = "reopening"
    /\ UNCHANGED <<state, cur, reader>>

\* Faulty variant: the whole word is cleared.
ReopenStoring ==
    /\ producer = "reopening"
    /\ state' = 0
    /\ producer' = "open"
    /\ UNCHANGED <<idle, cur, reader>>

ReopenClear ==
    /\ producer = "reopening"
    /\ state' = Count(state)
    /\ producer' = "open"
    /\ UNCHANGED <<idle, cur, reader>>

Produce ==
    \/ Close \/ CheckCount \/ WaitIdle \/ CancelDrain
    \/ ReopenReset \/ ReopenClear

Read(r) ==
    \/ Load(r) \/ Refused(r) \/ Exchange(r) \/ Retry(r)
    \/ Drop(r) \/ DropSignal(r)

LeasedNext == Produce \/ \E r \in Reader : Read(r)

\* A drain that is polled goes on, and a reader that is stopped with the
\* producer drops its lease.
LeasedFairness ==
    /\ WF_leasedVars(CheckCount) /\ WF_leasedVars(WaitIdle)
    /\ \A r \in Reader : WF_leasedVars(Drop(r)) /\ WF_leasedVars(DropSignal(r))

LeasedSpec == LeasedInit /\ [][LeasedNext]_leasedVars /\ LeasedFairness

----------------------------------------------------------------------------
(* Properties.                                                             *)

LeasedTypeOK ==
    /\ state \in Nat
    /\ idle \in BOOLEAN
    /\ cur \in [Reader -> Nat]
    /\ reader \in [Reader -> {"out", "leasing", "held", "signalling"}]
    /\ producer \in {"open", "check", "wait", "drained", "closed", "reopening"}

Holders == {r \in Reader : reader[r] = "held"}

\* "The producer's drain does not return until every Lease has been dropped",
\* and none is granted before reopen: a drained value has no holder.
DrainedIsFree == producer = "drained" => Holders = {}

\* The two halves of the word never run into each other: the value is closed
\* exactly while the producer closed it, and the rest counts the live leases.
WordIsExact ==
    state = Cardinality(Holders) + (IF producer = "open" THEN 0 ELSE CLOSED)

\* A drain ends once the leases are dropped, unless it is cancelled: the drop
\* of the last lease, before or after the drain looks at the count, wakes it.
DrainEnds == producer = "check" ~> producer \in {"drained", "closed"}

\* A drain parked over a value that nobody holds any more has its signal
\* latched, or the reader that dropped the last lease is about to signal.
DropIsOwed ==
    producer = "wait" /\ Holders = {} => idle \/ \E r \in Reader : reader[r] = "signalling"
=============================================================================
