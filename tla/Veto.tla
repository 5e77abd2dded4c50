-------------------------------- MODULE Veto --------------------------------
(***************************************************************************)
(* Two signals with state of their own: a VetoGate, which any contributor  *)
(* asserts and only all of them release, with the actuator parked on it,   *)
(* and a Stamped value, which remembers when it was written, with writers  *)
(* and a reader that takes it only if it is recent.  A read-modify-write,  *)
(* a load, a store, a look at the clock and a signal are steps of their    *)
(* own.                                                                    *)
(***************************************************************************)
EXTENDS Naturals, FiniteSetsExt

CONSTANTS
    VetoSlots,  \* the contributors: the gate's slots in use
    VTickMod,   \* 2^32: where the stamp's ticks wrap
    MaxAge,     \* what the reader of the stamped value accepts, in ticks
    VWriters,   \* the tasks that write the stamped value
    CallTicks   \* bound: ticks between two steps of one call of w() or age()

ASSUME VetoAssumption ==
    /\ IsFiniteSet(VetoSlots)
    /\ MaxAge \in Nat /\ VTickMod \in Nat /\ CallTicks \in Nat /\ CallTicks < VTickMod

VARIABLES
    bits,       \* VetoGate::bits, as a set of slots
    flipper,    \* the slots whose call flipped the gate and has yet to signal
    changed,    \* VetoGate::changed is latched
    actuator,   \* "work", or in wait_asserted / wait_released
    waitsFor,   \* which of the two: TRUE for wait_asserted
    stampAge0,  \* now - Stamped::stamp, modulo VTickMod
    written,    \* Stamped::written
    wtask,      \* per writer: "out"; in w() with its "now", or before its "flag"; or
                \* about to "put" the value through what w() returned
    wAge,       \* per writer: the ticks since it took its now
    realAge,    \* history: the true age of the stamp's tick; VTickMod or more is VTickMod
    valueAge,   \* history: likewise, of the value itself; VTickMod while there is none
    rtask,      \* the reader: "out"; in age(), before it takes its "now", or before it
                \* loads the "stamp"; with "some" value read_fresh handed out
    nowSkew,    \* the ticks since the reader took its now
    ahead,      \* history: no value was put since the stamp was stored
    torn,       \* history: the reader loaded a stamp that was ahead, and no value was put since
    wrapped     \* history: the stamp it loaded was VTickMod ticks old or more

gateVars == <<bits, flipper, changed, actuator, waitsFor>>
stampVars == <<stampAge0, written, wtask, wAge, realAge, valueAge, rtask, nowSkew, ahead,
               torn, wrapped>>

vetoVars == <<gateVars, stampVars>>

\* One of the two at a time: the gate's reachable states do not depend on the
\* stamped value's.
VetoInit ==
    /\ bits = {} /\ flipper = {} /\ changed = FALSE
    /\ actuator \in {"work", "none"} /\ waitsFor = TRUE
    /\ stampAge0 = 0 /\ written = FALSE
    /\ wtask = [w \in VWriters |-> "out"] /\ wAge = [w \in VWriters |-> 0]
    /\ realAge = 0 /\ valueAge = VTickMod
    /\ rtask = (IF actuator = "none" THEN "out" ELSE "none")
    /\ nowSkew = 0 /\ ahead = FALSE /\ torn = FALSE /\ wrapped = FALSE

----------------------------------------------------------------------------
(* VetoGate.                                                               *)

\* Faulty variant: a contributor that adds itself to others signals, the one
\* that flips the gate does not.
AssertFlipsLate(s) ==
    /\ actuator # "none" /\ s \notin flipper
    /\ bits' = bits \union {s}
    /\ flipper' = IF bits # {} THEN flipper \union {s} ELSE flipper
    /\ UNCHANGED <<changed, actuator, waitsFor, stampVars>>

\* assert_slot: one fetch_or; the call that found no bit set flipped the gate.
AssertSlot(s) ==
    /\ actuator # "none" /\ s \notin flipper
    /\ bits' = bits \union {s}
    /\ flipper' = IF bits = {} THEN flipper \union {s} ELSE flipper
    /\ UNCHANGED <<changed, actuator, waitsFor, stampVars>>

\* release_slot: one fetch_and; the call that found its own bit alone flipped.
ReleaseSlot(s) ==
    /\ actuator # "none" /\ s \notin flipper
    /\ bits' = bits \ {s}
    /\ flipper' = IF bits = {s} THEN flipper \union {s} ELSE flipper
    /\ UNCHANGED <<changed, actuator, waitsFor, stampVars>>

Flipped(s) ==
    /\ s \in flipper
    /\ flipper' = flipper \ {s} /\ changed' = TRUE
    /\ UNCHANGED <<bits, actuator, waitsFor, stampVars>>

\* wait_asserted, wait_released: look, and park until the next flip.
GateWait ==
    /\ actuator = "work"
    /\ actuator' = "look" /\ waitsFor' \in BOOLEAN
    /\ UNCHANGED <<bits, flipper, changed, stampVars>>

GateLook ==
    /\ actuator = "look"
    /\ actuator' = IF (bits # {}) = waitsFor THEN "work" ELSE "park"
    /\ UNCHANGED <<bits, flipper, changed, waitsFor, stampVars>>

GateWoken ==
    /\ actuator = "park" /\ changed
    /\ actuator' = "look" /\ changed' = FALSE
    /\ UNCHANGED <<bits, flipper, waitsFor, stampVars>>

VetoGate ==
    \/ \E s \in VetoSlots : AssertSlot(s) \/ ReleaseSlot(s) \/ Flipped(s)
    \/ GateWait \/ GateLook \/ GateWoken

----------------------------------------------------------------------------
(* Stamped.                                                                *)

\* w() in its three steps: it takes its now, stores it as the stamp, and marks the
\* value as written.  A preempted writer may store a now that is old already, over
\* the stamp of a later one.
TakeWriteNow(w) ==
    /\ rtask # "none" /\ wtask[w] = "out"
    /\ wtask' = [wtask EXCEPT ![w] = "now"]
    /\ UNCHANGED <<gateVars, stampAge0, written, wAge, realAge, valueAge, rtask, nowSkew,
                   ahead, torn, wrapped>>

StoreStamp(w) ==
    /\ wtask[w] = "now"
    /\ wtask' = [wtask EXCEPT ![w] = "flag"]
    /\ stampAge0' = wAge[w] /\ realAge' = wAge[w] /\ ahead' = TRUE
    /\ wAge' = [wAge EXCEPT ![w] = 0]
    /\ UNCHANGED <<gateVars, written, valueAge, rtask, nowSkew, torn, wrapped>>

WriteFlag(w) ==
    /\ wtask[w] = "flag"
    /\ wtask' = [wtask EXCEPT ![w] = "put"] /\ written' = TRUE
    /\ UNCHANGED <<gateVars, stampAge0, wAge, realAge, valueAge, rtask, nowSkew, ahead,
                   torn, wrapped>>

\* Sink::put: the value goes into the inner signal once w() has returned.
PutValue(w) ==
    /\ wtask[w] = "put"
    /\ wtask' = [wtask EXCEPT ![w] = "out"]
    /\ valueAge' = 0 /\ ahead' = FALSE /\ torn' = FALSE
    /\ UNCHANGED <<gateVars, stampAge0, written, wAge, realAge, rtask, nowSkew, wrapped>>

\* Faulty variant: age() does not ask whether there was a write.
AskUnwritten ==
    /\ rtask = "out"
    /\ rtask' = "now"
    /\ UNCHANGED <<gateVars, stampAge0, written, wtask, wAge, realAge, valueAge, nowSkew,
                   ahead, torn, wrapped>>

\* age(): None until the first write; take now; load the stamp.  read_fresh: hand
\* the inner signal out if the age will do, and the reader reads it.
AskFresh ==
    /\ rtask = "out" /\ written
    /\ rtask' = "now"
    /\ UNCHANGED <<gateVars, stampAge0, written, wtask, wAge, realAge, valueAge, nowSkew,
                   ahead, torn, wrapped>>

TakeNow ==
    /\ rtask = "now"
    /\ rtask' = "stamp"
    /\ UNCHANGED <<gateVars, stampAge0, written, wtask, wAge, realAge, valueAge, nowSkew,
                   ahead, torn, wrapped>>

IsFresh == (VTickMod + stampAge0 - nowSkew) % VTickMod <= MaxAge

LoadFresh ==
    /\ rtask = "stamp" /\ IsFresh
    /\ rtask' = "some" /\ torn' = ahead /\ wrapped' = (realAge = VTickMod)
    /\ UNCHANGED <<gateVars, stampAge0, written, wtask, wAge, realAge, valueAge, nowSkew,
                   ahead>>

LoadStale ==
    /\ rtask = "stamp" /\ ~IsFresh
    /\ rtask' = "out" /\ nowSkew' = 0
    /\ UNCHANGED <<gateVars, stampAge0, written, wtask, wAge, realAge, valueAge, ahead,
                   torn, wrapped>>

GetValue ==
    /\ rtask = "some"
    /\ rtask' = "out" /\ nowSkew' = 0 /\ torn' = FALSE /\ wrapped' = FALSE
    /\ UNCHANGED <<gateVars, stampAge0, written, wtask, wAge, realAge, valueAge, ahead>>

Older(age) == IF age < VTickMod THEN age + 1 ELSE age

\* Time has no end, and the stamp's ticks wrap; the bound is on a call in progress.
VTick ==
    /\ rtask # "none"
    /\ nowSkew < CallTicks
    /\ \A w \in VWriters : wAge[w] < CallTicks
    /\ stampAge0' = (stampAge0 + 1) % VTickMod
    /\ realAge' = Older(realAge) /\ valueAge' = Older(valueAge)
    /\ wAge' = [w \in VWriters |-> IF wtask[w] = "now" THEN wAge[w] + 1 ELSE 0]
    /\ nowSkew' = IF rtask \in {"stamp", "some"} THEN nowSkew + 1 ELSE 0
    /\ UNCHANGED <<gateVars, written, wtask, rtask, ahead, torn, wrapped>>

Stamped ==
    \/ \E w \in VWriters : TakeWriteNow(w) \/ StoreStamp(w) \/ WriteFlag(w) \/ PutValue(w)
    \/ AskFresh \/ TakeNow \/ LoadFresh \/ LoadStale \/ GetValue

VetoNext == VetoGate \/ Stamped \/ VTick

VetoSpec == VetoInit /\ [][VetoNext]_vetoVars

VetoTypeOK ==
    /\ bits \subseteq VetoSlots /\ flipper \subseteq VetoSlots
    /\ {changed, waitsFor, written, ahead, torn, wrapped} \subseteq BOOLEAN
    /\ actuator \in {"none", "work", "look", "park"}
    /\ stampAge0 \in 0..(VTickMod - 1) /\ {realAge, valueAge} \subseteq 0..VTickMod
    /\ wtask \in [VWriters -> {"out", "now", "flag", "put"}]
    /\ wAge \in [VWriters -> 0..CallTicks]
    /\ rtask \in {"none", "out", "now", "stamp", "some"}
    /\ nowSkew \in 0..CallTicks

\* No trip and no release is missed: an actuator parked although the gate is
\* what it waits for has the flip's signal latched, or on its way.
FlipIsSeen ==
    actuator = "park" /\ (bits # {}) = waitsFor => changed \/ flipper # {}

\* "The inner signal if it was written within max_age, else None": the value that
\* read_fresh hands out was put no longer than max_age before the reader's now,
\* whatever writes land between the reader's look at the flag, its now, its load of
\* the stamp and its use of the value, and in whichever order several writers take
\* their now and store it.  Two exceptions: a write stores its stamp before its value,
\* and a reader that loads the stamp in between is handed a value of any age; and
\* "ages are exact up to u32::MAX ticks".
FreshIsRecent ==
    rtask = "some" /\ ~torn /\ ~wrapped => valueAge <= MaxAge + nowSkew
=============================================================================
