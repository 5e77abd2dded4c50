-------------------------------- MODULE Dog --------------------------------
(***************************************************************************)
(* The demo firmware's hardware watchdog: watchdog_task feeds it on a      *)
(* deadline of its own while every policed node is fresh (feed-gate), the  *)
(* heartbeat is the node that is policed, and a hog may keep the thread    *)
(* executor, which runs the feeder, from polling it.  Time is in ticks;    *)
(* what is due at a tick happens before the next, unless it is hogged.     *)
(***************************************************************************)
EXTENDS Naturals

CONSTANTS
    FeedEvery, WdTimeout,   \* 2 s, 8 s
    BeatTimeout,            \* beat_timeout: 15 s
    SteadyBeat,             \* 5 s, the heartbeat's period while the LED is steady
    Periods,                \* the blink periods /api/heartbeat is asked for; 0: steady
    HogMax                  \* HOG_MAX_MS: 6 s

\* "a hog must not outlast the 8 s bootloader watchdog feed": 2 s + 6 s <= 8 s.
ASSUME DogAssumption ==
    /\ {FeedEvery, SteadyBeat, HogMax} \subseteq Nat \ {0} /\ Periods \subseteq Nat
    /\ WdTimeout \in Nat /\ BeatTimeout \in Nat
    /\ FeedEvery + HogMax <= WdTimeout /\ SteadyBeat < BeatTimeout

VARIABLES
    chip,       \* "run", or "reset" by the watchdog
    unfed,      \* ticks since the watchdog was loaded
    nextFeed,   \* ticks to next_feed
    unbeaten,   \* ticks since the heartbeat's last beat, up to BeatTimeout + 1
    period,     \* PERIOD_MS
    periodChanged,    \* CHANGED is signalled
    hbTimer,    \* ticks to the end of the heartbeat's timer
    paused,     \* the heartbeat is parked: not policed
    hog,        \* ticks the thread executor is still hogged
    event,      \* a health report waits for the watchdog task
    hogs,       \* history: the hogs since a feed was last due: "none", "one", or
                \* "excess": one more, or one that began with the feed due
    stale       \* history: the last feed that was due was withheld

dogVars == <<chip, unfed, nextFeed, unbeaten, period, periodChanged, hbTimer, paused,
             hog, event, hogs, stale>>

Wait(p) == IF p = 0 THEN SteadyBeat ELSE p

DogInit ==
    /\ chip = "run" /\ unfed = 0 /\ nextFeed = 0 /\ unbeaten = 0
    /\ period = 1 /\ periodChanged = FALSE /\ hbTimer = 1 /\ paused = FALSE
    /\ hog = 0 /\ event = FALSE
    /\ hogs = "none" /\ stale = FALSE

\* GRAPH.all_fresh()
FedNodesFresh == paused \/ unbeaten <= BeatTimeout

----------------------------------------------------------------------------
(* watchdog_task.                                                          *)

\* Faulty variant: a timer re-armed at every wake, which also feeds then.
FeedPostponed ==
    /\ chip = "run" /\ hog = 0 /\ (nextFeed = 0 \/ event)
    /\ nextFeed' = FeedEvery
    /\ unfed' = IF FedNodesFresh /\ ~event THEN 0 ELSE unfed
    /\ stale' = ~FedNodesFresh /\ hogs' = "none"
    /\ event' = FALSE
    /\ UNCHANGED <<chip, unbeaten, period, periodChanged, hbTimer, paused, hog>>

\* The deadline has come: fed, unless a policed node is stale.
Feed ==
    /\ chip = "run" /\ hog = 0 /\ nextFeed = 0
    /\ nextFeed' = FeedEvery
    /\ unfed' = IF FedNodesFresh THEN 0 ELSE unfed
    /\ stale' = ~FedNodesFresh /\ hogs' = "none"
    /\ UNCHANGED <<chip, unbeaten, period, periodChanged, hbTimer, paused, hog, event>>

\* A report is logged and the same deadline waited for again.
TakeHeartEvent ==
    /\ chip = "run" /\ hog = 0 /\ event /\ nextFeed > 0
    /\ event' = FALSE
    /\ UNCHANGED <<chip, unfed, nextFeed, unbeaten, period, periodChanged, hbTimer, paused,
                   hog, hogs, stale>>

(* heartbeat_task, on a tier of its own: a hog of the thread executor does  *)
(* not keep it from beating.                                                *)

HeartBeat ==
    /\ chip = "run" /\ ~paused /\ hbTimer = 0
    /\ unbeaten' = 0 /\ hbTimer' = Wait(period)
    /\ UNCHANGED <<chip, unfed, nextFeed, period, periodChanged, paused, hog, event, hogs, stale>>

\* CHANGED: the period is read again and the timer starts anew, with no beat.
Reread ==
    /\ chip = "run" /\ ~paused /\ periodChanged /\ hbTimer > 0
    /\ periodChanged' = FALSE /\ hbTimer' = Wait(period)
    /\ UNCHANGED <<chip, unfed, nextFeed, unbeaten, period, paused, hog, event, hogs, stale>>

\* A pause, and the resume that stamps the node's beat (set_running).
PauseResume ==
    /\ chip = "run"
    /\ paused' = ~paused
    /\ unbeaten' = IF paused THEN 0 ELSE unbeaten
    /\ hbTimer' = Wait(period)
    /\ UNCHANGED <<chip, unfed, nextFeed, period, periodChanged, hog, event, hogs, stale>>

(* The requests of the HTTP workers, on the thread executor.               *)

SetPeriod ==
    /\ chip = "run" /\ hog = 0
    /\ \E p \in Periods : period' = p
    /\ periodChanged' = TRUE
    /\ UNCHANGED <<chip, unfed, nextFeed, unbeaten, hbTimer, paused, hog, event, hogs, stale>>

\* handle_fault: a hog is cut to HOG_MAX_MS.
Hog ==
    /\ chip = "run" /\ hog = 0
    /\ hog' \in 1..HogMax
    /\ hogs' = IF hogs = "none" /\ nextFeed > 0 THEN "one" ELSE "excess"
    /\ UNCHANGED <<chip, unfed, nextFeed, unbeaten, period, periodChanged, hbTimer, paused,
                   event, stale>>

Report ==
    /\ chip = "run" /\ ~event /\ event' = TRUE
    /\ UNCHANGED <<chip, unfed, nextFeed, unbeaten, period, periodChanged, hbTimer, paused,
                   hog, hogs, stale>>

\* One tick.  What is due is done first; the watchdog expires on its own.
Ticks ==
    /\ chip = "run"
    /\ nextFeed > 0 \/ hog > 0
    /\ paused \/ (hbTimer > 0 /\ ~periodChanged)
    /\ unfed' = unfed + 1
    /\ chip' = IF unfed' >= WdTimeout THEN "reset" ELSE "run"
    /\ nextFeed' = IF nextFeed > 0 THEN nextFeed - 1 ELSE 0
    /\ unbeaten' = IF ~paused /\ unbeaten <= BeatTimeout THEN unbeaten + 1 ELSE unbeaten
    /\ hbTimer' = IF ~paused /\ hbTimer > 0 THEN hbTimer - 1 ELSE hbTimer
    /\ hog' = IF hog > 0 THEN hog - 1 ELSE 0
    /\ UNCHANGED <<period, periodChanged, paused, event, hogs, stale>>

DogNext ==
    \/ Feed \/ TakeHeartEvent \/ HeartBeat \/ Reread \/ PauseResume
    \/ SetPeriod \/ Hog \/ Report \/ Ticks

DogSpec == DogInit /\ [][DogNext]_dogVars

DogTypeOK ==
    /\ chip \in {"run", "reset"} /\ unfed \in 0..WdTimeout
    /\ nextFeed \in 0..FeedEvery /\ unbeaten \in 0..(BeatTimeout + 1)
    /\ period \in Periods \union {1} /\ {periodChanged, paused, event} \subseteq BOOLEAN
    /\ hog \in 0..HogMax /\ stale \in BOOLEAN /\ hogs \in {"none", "one", "excess"}

----------------------------------------------------------------------------
(* Properties.                                                             *)

\* The watchdog bites only when a feed was withheld for a stale node: neither
\* "a stream of events" nor a hog cut to HOG_MAX_MS starves the feeder.  There is
\* no more slack than that: two hogs between two feeds, or one that begins when
\* the feed is due, are excepted.
BiteIsEarned == chip = "reset" => stale \/ hogs = "excess"
=============================================================================
