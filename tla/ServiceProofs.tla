---------------------------- MODULE ServiceProofs ----------------------------
(***************************************************************************)
(* What the supervisor's start of a node waits for, and what a fault put   *)
(* into a node does, for every size of the pass counter, every number of   *)
(* activations of the provider and every declaration of the node: a spawn  *)
(* retried after a fence pass finds the task's storage free, a resource is *)
(* in one place, and an ack that a wedge swallows is delivered once, by    *)
(* the task or by the injector, whichever of them takes the pending bit.   *)
(* Last, the nine services together: what is proved of each, here and in   *)
(* the modules this one extends, holds beside the others.                  *)
(***************************************************************************)
EXTENDS MCServices, SharingProofs, ClockProofs

----------------------------------------------------------------------------
(* The fence.                                                              *)

\* The task acks in the middle of a poll, which has not returned yet.
AckedIsPolled == old = "acked" => polling = "old"

\* From the moment the supervisor waits for the slot the old instance is down.
DownWhileStarted == fsup # "idle" => old # "run"

\* A pass counted since the snapshot is one that began after the ack.
CountedIsFree ==
    fsup \in {"request", "pass", "pass_wait"} /\ passes # seen => old = "free"

FenceInv ==
    /\ FenceTypeOK /\ AckedIsPolled /\ DownWhileStarted /\ CountedIsFree
    /\ PassFreesTask

\* A counted pass leaves the counter in its width.
LEMMA PassCounts ==
    ASSUME NEW p \in 0..(PassMod - 1)
    PROVE  (p + 1) % PassMod \in 0..(PassMod - 1)
BY PassModAssumption

\* The application's set() touches neither the task nor the supervisor.
LEMMA SetFenceInv ==
    ASSUME FenceInv, SetSlot \/ SetFence \/ SpawnFence \/ SetSignal
    PROVE  FenceInv'
<1>1. UNCHANGED <<fenceReq, passes, polling, old, fsup, seen>>
    BY DEF SetSlot, SetFence, SpawnFence, SetSignal, SetGo
<1>2. FenceTypeOK'
    BY DEF FenceInv, FenceTypeOK, SetSlot, SetFence, SpawnFence, SetSignal, SetGo
<1>. QED
    BY <1>1, <1>2 DEF FenceInv, AckedIsPolled, DownWhileStarted, CountedIsFree,
           PassFreesTask

\* The tier's executor polls one task at a time: when the fence is polled the
\* old instance is not, so it has not merely acked.
LEMMA TierFenceInv ==
    ASSUME FenceInv, Tier
    PROVE  FenceInv'
<1>1. FenceTypeOK'
    BY PassCounts DEF FenceInv, FenceTypeOK, Tier, TierGo, PollOld, AckInPoll,
           PollReturns, PollFence, CountPass
<1>2. UNCHANGED <<fsup, seen>>
    BY DEF Tier, TierGo, PollOld, AckInPoll, PollReturns, PollFence, CountPass
<1>3. CASE PollOld \/ AckInPoll
    BY <1>1, <1>2, <1>3 DEF FenceInv, AckedIsPolled, DownWhileStarted,
           CountedIsFree, PassFreesTask, FenceTypeOK, PollOld, AckInPoll, TierGo
<1>4. CASE PollReturns \/ PollFence
    BY <1>1, <1>2, <1>4 DEF FenceInv, AckedIsPolled, DownWhileStarted,
           CountedIsFree, PassFreesTask, FenceTypeOK, PollReturns, PollFence, TierGo
<1>5. CASE CountPass
    <2>1. old' = old /\ old # "acked"
        BY <1>5 DEF FenceInv, AckedIsPolled, CountPass, TierGo
    <2>2. fsup # "idle" => old = "free"
        BY <2>1 DEF FenceInv, FenceTypeOK, DownWhileStarted
    <2>. QED
        BY <1>1, <1>2, <2>1, <2>2 DEF FenceInv, AckedIsPolled, DownWhileStarted,
               CountedIsFree, PassFreesTask
<1>. QED
    BY <1>3, <1>4, <1>5 DEF Tier

\* The supervisor snapshots the count before it asks, and goes on when the
\* count has moved.
LEMMA FSupFenceInv ==
    ASSUME FenceInv, FSup
    PROVE  FenceInv'
<1>1. UNCHANGED <<spawner, setter, fenceUp, fenceLive, passes, polling>>
    BY DEF FSup, FSupGo, AwaitSlot, CheckSlot, SlotWake, SlotTimeout, SpawnOk,
           SpawnBusy, Snapshot, RequestPass, CheckPass, PassWake, PassDeadline
<1>2. CASE AwaitSlot \/ CheckSlot \/ SlotWake \/ SlotTimeout
    BY <1>1, <1>2 DEF FenceInv, FenceTypeOK, AckedIsPolled, DownWhileStarted,
           CountedIsFree, PassFreesTask, AwaitSlot, CheckSlot, SlotWake,
           SlotTimeout, FSupGo
<1>3. CASE SpawnOk \/ SpawnBusy
    BY <1>1, <1>3 DEF FenceInv, FenceTypeOK, AckedIsPolled, DownWhileStarted,
           CountedIsFree, PassFreesTask, SpawnOk, SpawnBusy, FSupGo
<1>4. CASE Snapshot \/ RequestPass
    BY <1>1, <1>4 DEF FenceInv, FenceTypeOK, AckedIsPolled, DownWhileStarted,
           CountedIsFree, PassFreesTask, Snapshot, RequestPass, FSupGo
<1>5. CASE CheckPass
    BY <1>1, <1>5 DEF FenceInv, FenceTypeOK, AckedIsPolled, DownWhileStarted,
           CountedIsFree, PassFreesTask, CheckPass, FSupGo
<1>6. CASE PassWake \/ PassDeadline
    BY <1>1, <1>6 DEF FenceInv, FenceTypeOK, AckedIsPolled, DownWhileStarted,
           CountedIsFree, PassFreesTask, PassWake, PassDeadline, FSupGo
<1>. QED
    BY <1>2, <1>3, <1>4, <1>5, <1>6 DEF FSup

\* The invariant holds initially, is kept by every step, and so always holds.
LEMMA FenceInvHolds == FenceInit /\ [][FenceNext]_fenceVars => []FenceInv
<1>1. FenceInit => FenceInv
    <2>1. SUFFICES ASSUME FenceInit PROVE FenceInv
        OBVIOUS
    <2>2. {spawner, fill, gateEvt, fenceUp, fenceLive, fenceReq} \subseteq BOOLEAN
        BY <2>1, Zenon DEF FenceInit
    <2>3. {passes, seen} \subseteq 0..(PassMod - 1)
        BY <2>1, PassModAssumption DEF FenceInit
    <2>. QED
        BY <2>1, <2>2, <2>3 DEF FenceInit, FenceInv, FenceTypeOK, AckedIsPolled,
               DownWhileStarted, CountedIsFree, PassFreesTask
<1>2. FenceInv /\ [FenceNext]_fenceVars => FenceInv'
    <2>1. SUFFICES ASSUME FenceInv, [FenceNext]_fenceVars PROVE FenceInv'
        OBVIOUS
    <2>2. CASE UNCHANGED fenceVars
        BY <2>1, <2>2 DEF FenceInv, FenceTypeOK, AckedIsPolled, DownWhileStarted,
           CountedIsFree, PassFreesTask, fenceVars
    <2>. QED
        BY <2>1, <2>2, SetFenceInv, TierFenceInv, FSupFenceInv DEF FenceNext
<1>. QED
    BY <1>1, <1>2, PTL

\* A spawn retried after a fence pass is not refused: the old instance's last
\* poll has returned, even where the pass was counted for an earlier request and
\* however often the 16-bit count has wrapped.
THEOREM PassFreesTaskHolds == FenceSpec => []PassFreesTask
<1>1. FenceInv => PassFreesTask
    BY DEF FenceInv
<1>. QED
    BY <1>1, FenceInvHolds, PTL DEF FenceSpec

\* A truth counted.
One(b) == IF b THEN 1 ELSE 0

\* The passes that are still to be counted for requests already made.
PassesDue == One(fenceReq = TRUE) + One(polling = "fence")

\* `k' passes were counted since the snapshot.
PassesSince(k) == passes = (seen + k) % PassMod

\* Between a snapshot and its request at most two passes are left over from
\* earlier requests; the request adds one.  A wait for it has the pass before
\* it, or has been told.
PassesBounded ==
    /\ fsup = "request" => \E k \in 0..2 : PassesSince(k) /\ k + PassesDue <= 2
    /\ fsup \in {"pass", "pass_wait"} =>
           \E k \in 0..3 :
               /\ PassesSince(k) /\ k + PassesDue <= 3
               /\ k = 0 => PassesDue > 0
               /\ k > 0 /\ fsup = "pass_wait" => gateEvt = TRUE

\* A filled slot that is waited for is announced.
SlotAnnounced == fsup = "slot_wait" /\ spawner = TRUE => fill = TRUE \/ setter # "out"

OwedInv == PassesBounded /\ SlotAnnounced

\* One pass more.
LEMMA PassAdds ==
    ASSUME PassMod > 3, NEW s \in 0..(PassMod - 1), NEW k \in 0..3
    PROVE  /\ (((s + k) % PassMod) + 1) % PassMod = (s + (k + 1)) % PassMod
           /\ (s + k) % PassMod = s <=> k = 0
<1>. DEFINE W(x) == IF x < PassMod THEN x ELSE x - PassMod
<1>1. ASSUME NEW x \in 0..(PassMod + PassMod - 1) PROVE x % PassMod = W(x)
    <2>1. CASE x < PassMod
        BY <2>1, PassModAssumption
    <2>2. CASE x >= PassMod
        <3>1. x = 1 * PassMod + (x - PassMod) /\ x - PassMod \in 0..(PassMod - 1)
            BY <2>2, PassModAssumption
        <3>2. x % PassMod = x - PassMod
            BY <3>1, PassModAssumption
        <3>3. W(x) = x - PassMod
            BY <2>2, PassModAssumption
        <3>. QED BY <3>2, <3>3
    <2>. QED BY <2>1, <2>2, PassModAssumption
<1>2. s + k \in 0..(PassMod + PassMod - 1) /\ s + (k + 1) \in 0..(PassMod + PassMod - 1)
    BY PassModAssumption
<1>3. (s + k) % PassMod = W(s + k) /\ (s + (k + 1)) % PassMod = W(s + (k + 1))
    BY <1>1, <1>2
<1>4. W(s + k) + 1 \in 0..(PassMod + PassMod - 1)
    BY PassModAssumption
<1>5. (W(s + k) + 1) % PassMod = W(W(s + k) + 1)
    BY <1>1, <1>4
<1>6. W(W(s + k) + 1) = W(s + (k + 1))
    BY PassModAssumption
<1>7. W(s + k) = s <=> k = 0
    BY PassModAssumption
<1>. HIDE DEF W
<1>8. (((s + k) % PassMod) + 1) % PassMod = (s + (k + 1)) % PassMod
    BY <1>3, <1>5, <1>6, Zenon
<1>9. (s + k) % PassMod = s <=> k = 0
    BY <1>3, <1>7, Zenon
<1>. QED BY <1>8, <1>9, Zenon

\* One pass counted is one pass less that is due.
LEMMA OneLess ==
    ASSUME NEW b \in Nat, NEW k \in 0..b, NEW d, NEW e \in Nat, d = e + 1, k + d <= b
    PROVE  k + 1 \in 0..b /\ (k + 1) + e <= b /\ k + 1 # 0
OBVIOUS

\* Where the passes are depends on these variables only.
LEMMA OwedKept ==
    ASSUME OwedInv, UNCHANGED <<spawner, fill, setter, passes, seen, fsup, fenceReq, polling>>,
           gateEvt = TRUE => gateEvt' = TRUE
    PROVE  OwedInv'
BY DEF OwedInv, PassesBounded, SlotAnnounced, PassesSince, PassesDue, One

\* set() announces what it fills.
LEMMA SetOwedInv ==
    ASSUME OwedInv, FenceInv, SetSlot \/ SetFence \/ SpawnFence \/ SetSignal
    PROVE  OwedInv'
<1>1. UNCHANGED <<passes, seen, fsup, fenceReq, polling>> /\ (gateEvt = TRUE => gateEvt' = TRUE)
    BY DEF SetSlot, SetFence, SpawnFence, SetSignal, SetGo
<1>2. PassesBounded'
    BY <1>1 DEF OwedInv, PassesBounded, PassesSince, PassesDue, One
<1>3. SlotAnnounced'
    BY <1>1 DEF OwedInv, SlotAnnounced, SetSlot, SetFence, SpawnFence, SetSignal, SetGo
<1>. QED BY <1>2, <1>3 DEF OwedInv

\* The fence takes one request and counts one pass for it.
LEMMA TierOwedInv ==
    ASSUME OwedInv, FenceInv, PassMod > 3, Tier
    PROVE  OwedInv'
<1>1. UNCHANGED <<spawner, fill, setter, fsup, seen>>
    BY DEF Tier, TierGo, PollOld, AckInPoll, PollReturns, PollFence, CountPass
<1>2. SlotAnnounced'
    BY <1>1 DEF OwedInv, SlotAnnounced
<1>3. CASE PollOld \/ AckInPoll \/ PollReturns
    <2>1. /\ UNCHANGED <<passes, fenceReq, gateEvt>>
          /\ polling # "fence" /\ polling' # "fence"
        BY <1>3 DEF TierGo, PollOld, AckInPoll, PollReturns
    <2>2. PassesDue' = PassesDue
        BY <2>1 DEF PassesDue, One
    <2>3. PassesBounded'
        BY <1>1, <2>1, <2>2 DEF OwedInv, PassesBounded, PassesSince
    <2>. QED BY <1>2, <2>3 DEF OwedInv
<1>4. CASE PollFence
    <2>1. UNCHANGED <<passes, gateEvt>>
        BY <1>4 DEF PollFence, TierGo
    <2>2. PassesDue' = PassesDue
        BY <1>4 DEF PollFence, TierGo, PassesDue, One, FenceInv, FenceTypeOK
    <2>3. PassesBounded'
        BY <1>1, <2>1, <2>2 DEF OwedInv, PassesBounded, PassesSince
    <2>. QED BY <1>2, <2>3 DEF OwedInv
<1>5. CASE CountPass
    <2>1. passes' = (passes + 1) % PassMod /\ gateEvt' = TRUE
        BY <1>5 DEF CountPass
    <2>0. PassesDue = PassesDue' + 1 /\ PassesDue' \in Nat
        BY <1>5 DEF CountPass, TierGo, PassesDue, One
    <2>2. seen \in 0..(PassMod - 1)
        BY DEF FenceInv, FenceTypeOK
    <2>3. ASSUME NEW k \in 0..3, PassesSince(k) PROVE PassesSince(k + 1)'
        BY <1>1, <2>1, <2>2, <2>3, PassAdds DEF PassesSince
    <2>4. ASSUME fsup = "request"
          PROVE  \E k \in 0..2 : PassesSince(k)' /\ k + PassesDue' <= 2
        <3>1. PICK k \in 0..2 : k + PassesDue <= 2 /\ PassesSince(k)
            BY <2>4 DEF OwedInv, PassesBounded
        <3>2. k + 1 \in 0..2 /\ (k + 1) + PassesDue' <= 2
            BY <2>0, <3>1, OneLess
        <3>3. k \in 0..3
            OBVIOUS
        <3>. QED BY <2>3, <3>1, <3>2, <3>3
    <2>5. ASSUME fsup \in {"pass", "pass_wait"}
          PROVE  \E k \in 0..3 :
                    /\ PassesSince(k)' /\ k + PassesDue' <= 3
                    /\ k = 0 => PassesDue' > 0
                    /\ k > 0 /\ fsup' = "pass_wait" => gateEvt' = TRUE
        <3>1. PICK k \in 0..3 : PassesSince(k) /\ k + PassesDue <= 3
            BY <2>5 DEF OwedInv, PassesBounded
        <3>2. k + 1 \in 0..3 /\ (k + 1) + PassesDue' <= 3 /\ k + 1 # 0
            BY <2>0, <3>1, OneLess
        <3>. QED BY <2>1, <2>3, <3>1, <3>2
    <2>6. PassesBounded'
        BY <1>1, <2>4, <2>5 DEF PassesBounded
    <2>. QED BY <1>2, <2>6 DEF OwedInv
<1>. QED BY <1>3, <1>4, <1>5 DEF Tier

\* The supervisor asks once for each snapshot, and parks only where the count has
\* not moved since.
LEMMA FSupOwedInv ==
    ASSUME OwedInv, FenceInv, PassMod > 3, FSup
    PROVE  OwedInv'
<1>1. UNCHANGED <<spawner, setter, fenceUp, fenceLive, passes, polling>>
    BY DEF FSup, FSupGo, AwaitSlot, CheckSlot, SlotWake, SlotTimeout, SpawnOk,
           SpawnBusy, Snapshot, RequestPass, CheckPass, PassWake, PassDeadline
<1>2. CASE AwaitSlot \/ CheckSlot \/ SlotWake \/ SlotTimeout \/ SpawnOk \/ SpawnBusy \/ PassDeadline
    <2>1. fsup' \notin {"request", "pass", "pass_wait"}
        BY <1>2 DEF FSupGo, AwaitSlot, CheckSlot, SlotWake, SlotTimeout, SpawnOk, SpawnBusy,
               PassDeadline
    <2>2. fsup' = "slot_wait" => spawner # TRUE
        BY <1>2 DEF FSupGo, AwaitSlot, CheckSlot, SlotWake, SlotTimeout, SpawnOk, SpawnBusy,
               PassDeadline
    <2>. QED BY <1>1, <2>1, <2>2 DEF OwedInv, PassesBounded, SlotAnnounced
<1>3. CASE Snapshot
    <2>1. fsup' = "request" /\ seen' = passes /\ UNCHANGED fenceReq
        BY <1>3 DEF Snapshot, FSupGo
    <2>2. PassesSince(0)'
        BY <1>1, <2>1, PassAdds DEF PassesSince, FenceInv, FenceTypeOK
    <2>3. 0 + PassesDue' <= 2
        BY <1>1, <2>1 DEF PassesDue, One
    <2>. QED BY <2>1, <2>2, <2>3 DEF OwedInv, PassesBounded, SlotAnnounced
<1>4. CASE RequestPass
    <2>1. /\ fsup = "request" /\ fsup' \in {"pass", "no_fence"} /\ UNCHANGED seen
          /\ fsup' = "pass" => fenceReq' = TRUE
        BY <1>4, Zenon DEF RequestPass, FSupGo, FenceInv, FenceTypeOK
    <2>2. PICK k \in 0..2 : PassesSince(k) /\ k + PassesDue <= 2
        BY <2>1 DEF OwedInv, PassesBounded
    <2>3. PassesSince(k)'
        BY <1>1, <2>1, <2>2 DEF PassesSince
    <2>4. fsup' = "pass" => k + PassesDue' <= 3 /\ PassesDue' > 0
        BY <1>1, <2>1, <2>2 DEF PassesDue, One
    <2>. QED BY <2>1, <2>2, <2>3, <2>4 DEF OwedInv, PassesBounded, SlotAnnounced
<1>5. CASE CheckPass
    <2>1. /\ fsup = "pass" /\ UNCHANGED <<seen, fenceReq>>
          /\ fsup' \in {"respawn", "pass_wait"} /\ (fsup' = "pass_wait" => passes = seen)
        BY <1>5 DEF CheckPass, FSupGo
    <2>2. PICK k \in 0..3 : PassesSince(k) /\ k + PassesDue <= 3 /\ (k = 0 => PassesDue > 0)
        BY <2>1 DEF OwedInv, PassesBounded
    <2>3. PassesSince(k)' /\ PassesDue' = PassesDue
        BY <1>1, <2>1, <2>2 DEF PassesSince, PassesDue
    <2>4. fsup' = "pass_wait" => k = 0
        BY <2>1, <2>2, PassAdds DEF PassesSince, FenceInv, FenceTypeOK
    <2>. QED BY <2>1, <2>2, <2>3, <2>4 DEF OwedInv, PassesBounded, SlotAnnounced
<1>6. CASE PassWake
    <2>1. /\ (fsup = "pass_wait" /\ fsup' = "pass") \/ (fsup = "no_fence" /\ fsup' = "spawn")
          /\ UNCHANGED <<seen, fenceReq>>
        BY <1>6 DEF PassWake, FSupGo
    <2>2. ASSUME fsup = "pass_wait" PROVE PassesBounded'
        <3>1. PICK k \in 0..3 : PassesSince(k) /\ k + PassesDue <= 3 /\ (k = 0 => PassesDue > 0)
            BY <2>2 DEF OwedInv, PassesBounded
        <3>2. PassesSince(k)' /\ PassesDue' = PassesDue
            BY <1>1, <2>1, <3>1 DEF PassesSince, PassesDue
        <3>. QED BY <2>1, <2>2, <3>1, <3>2 DEF PassesBounded
    <2>. QED BY <2>1, <2>2 DEF OwedInv, PassesBounded, SlotAnnounced
<1>. QED BY <1>2, <1>3, <1>4, <1>5, <1>6 DEF FSup

\* What the invariant says of the parked supervisor.
LEMMA PassOwed ==
    ASSUME OwedInv, FenceInv, PassMod > 3
    PROVE  PassIsOwed
<1>1. ASSUME fsup = "pass_wait"
      PROVE  gateEvt \/ (passes = seen /\ (fenceReq \/ polling = "fence"))
    <2>1. PICK k \in 0..3 :
               /\ PassesSince(k) /\ (k = 0 => PassesDue > 0)
               /\ k > 0 => gateEvt = TRUE
        BY <1>1 DEF OwedInv, PassesBounded
    <2>2. k = 0 => passes = seen
        BY <2>1, PassAdds DEF PassesSince, FenceInv, FenceTypeOK
    <2>3. PassesDue > 0 => fenceReq = TRUE \/ polling = "fence"
        BY DEF PassesDue, One
    <2>. QED BY <2>1, <2>2, <2>3
<1>2. fsup = "slot_wait" /\ spawner => fill \/ setter # "out"
    <2>1. spawner \in BOOLEAN
        BY DEF FenceInv, FenceTypeOK
    <2>. QED BY <2>1 DEF OwedInv, SlotAnnounced
<1>. QED BY <1>1, <1>2 DEF PassIsOwed

\* OwedInv holds in every reachable state.
LEMMA OwedInvHolds ==
    PassMod > 3 /\ FenceInit /\ [][FenceNext]_fenceVars => []OwedInv
<1>. SUFFICES ASSUME PassMod > 3 PROVE FenceInit /\ [][FenceNext]_fenceVars => []OwedInv
    OBVIOUS
<1>1. FenceInit => OwedInv
    BY DEF FenceInit, OwedInv, PassesBounded, SlotAnnounced
<1>2. OwedInv /\ FenceInv /\ [FenceNext]_fenceVars => OwedInv'
    <2>1. SUFFICES ASSUME OwedInv, FenceInv, [FenceNext]_fenceVars PROVE OwedInv'
        OBVIOUS
    <2>2. CASE UNCHANGED fenceVars
        BY <2>1, <2>2, OwedKept DEF fenceVars
    <2>. QED BY <2>1, <2>2, SetOwedInv, TierOwedInv, FSupOwedInv DEF FenceNext
<1>. QED BY <1>1, <1>2, FenceInvHolds, PTL

----------------------------------------------------------------------------
(* The resource slots.                                                     *)

\* What the shell holds at each of its steps: nothing outside an activation,
\* and while it takes, nothing of the entries it has not come to.
HeldInPlace ==
    /\ shell \in {"parked", "exit"} => held = Empty
    /\ shell = "take" => \A i \in at..2 : held[declared[i]] = 0
    /\ shell = "restore" => \A i \in 1..(at - 1) : held[declared[i]] = 0
    /\ shell = "restore" /\ kind # "lend" => held["RES"] = 0
    /\ gate = "launch" => shell = "parked"

\* A value in a slot that nobody restores is the provider's, which serves it.
ServedByProvider ==
    kind # "lend" /\ slot["RES"] # 0 => slot["RES"] = gen /\ prov = "serve"

\* The type invariant in two parts: the Boolean, and the rest, with the length of
\* the clause spelled out.
DataOK ==
    /\ declared \in {<<"DEV", "RES">>, <<"RES", "DEV">>} /\ Len(declared) = 2
    /\ kind \in ResKinds
    /\ slot \in [SlotName -> 0..MaxGen] /\ held \in [SlotName -> 0..MaxGen]
    /\ filled \in SUBSET SlotName
    /\ shell \in {"parked", "take", "work", "cleanup", "restore", "exit"}
    /\ at \in 1..2 /\ gateAt \in 1..2
    /\ gate \in {"idle", "check", "wait", "settle", "busy", "launch"}
    /\ prov \in {"down", "build", "serve", "reset"}
    /\ gen \in 0..MaxGen

SlotsInv ==
    /\ running \in BOOLEAN
    /\ DataOK /\ HeldInPlace /\ SingletonKeptBelow /\ ServedByProvider

\* The inductive invariant says all that the type invariant says.
LEMMA TypeFromInv == SlotsInv => SlotsTypeOK
<1>1. SUFFICES ASSUME SlotsInv PROVE SlotsTypeOK
    OBVIOUS
<1>2. running \in BOOLEAN
    BY <1>1 DEF SlotsInv
<1>3. DataOK
    BY <1>1 DEF SlotsInv
<1>. QED
    BY <1>2, <1>3 DEF DataOK, SlotsTypeOK

\* The invariant holds when main has moved the singleton in.
LEMMA InitSlotsInv == SlotsInit => SlotsInv
<1>1. SUFFICES ASSUME SlotsInit PROVE SlotsInv
    OBVIOUS
<1>2. slot["DEV"] = 1 /\ slot["RES"] = 0 /\ held["DEV"] = 0 /\ held = Empty
    BY <1>1 DEF SlotsInit, Empty, SlotName
<1>3. DataOK
    BY <1>1, MaxGenAssumption DEF SlotsInit, DataOK, Empty, SlotName
<1>4. running \in BOOLEAN
    BY <1>1, Zenon DEF SlotsInit
<1>. QED
    BY <1>1, <1>2, <1>3, <1>4 DEF SlotsInit, SlotsInv, HeldInPlace, SingletonKeptBelow,
           SingletonKept, ServedByProvider

\* The RUNNING flag is set and cleared, never anything else.
LEMMA RunningBoolean ==
    ASSUME running \in BOOLEAN, SlotsNext
    PROVE  running' \in BOOLEAN
<1>1. CASE SlotSup
    BY <1>1, Zenon DEF SlotSup, GateGo, StartConsumer, CheckGate, WakeGate,
       GateTimeout, Probe, ProbeAgain, LaunchConsumer
<1>2. CASE Shell
    BY <1>2, Zenon DEF Shell, ShellGo, TakeNext, LostResource, WorkerAcks, WorkerEnds,
       Restore, ExitAndPark
<1>3. CASE Provider
    BY <1>3, Zenon DEF Provider, ProvGo, StartProvider, ProvideRes, ReleaseProvided,
       ResetFilled
<1>. QED
    BY <1>1, <1>2, <1>3 DEF SlotsNext

\* The start touches no value; it launches a shell that is parked.
LEMMA SupSlotsInv ==
    ASSUME SlotsInv, SlotSup
    PROVE  SlotsInv'
<1>1. UNCHANGED <<declared, kind, slot, held, prov, gen>>
    BY DEF SlotSup, GateGo, StartConsumer, CheckGate, WakeGate, GateTimeout, Probe,
           ProbeAgain, LaunchConsumer
<1>2. DataOK'
    BY DEF SlotsInv, DataOK, SlotSup, GateGo, StartConsumer, CheckGate,
           WakeGate, GateTimeout, Probe, ProbeAgain, LaunchConsumer
<1>3. HeldInPlace'
    <2>1. CASE LaunchConsumer
        BY <1>1, <2>1 DEF SlotsInv, DataOK, HeldInPlace, LaunchConsumer, Empty,
               SlotName
    <2>2. CASE ~LaunchConsumer
        <3>1. UNCHANGED <<shell, at>> /\ (gate' = "launch" => shell = "parked")
            BY <2>2 DEF SlotSup, GateGo, StartConsumer, CheckGate, WakeGate,
                   GateTimeout, Probe, ProbeAgain
        <3>. QED
            BY <1>1, <3>1 DEF SlotsInv, HeldInPlace
    <2>. QED
        BY <2>1, <2>2
<1>. QED
    BY <1>1, <1>2, <1>3, RunningBoolean DEF SlotsNext, Shell, SlotsInv,
           SingletonKeptBelow, SingletonKept, ServedByProvider

\* A taken value moves from the slot to the shell, a shared one is copied.
LEMMA TakeSlotsInv ==
    ASSUME SlotsInv, TakeNext
    PROVE  SlotsInv' /\ NoLeftoverBelow
<1>. DEFINE r == declared[at]
<1>1. r \in SlotName /\ held[r] = 0 /\ slot[r] # 0
    BY DEF SlotsInv, DataOK, HeldInPlace, TakeNext, ShellGo, IsFilled, SlotName
<1>2. /\ held' = [held EXCEPT ![r] = slot[r]]
      /\ slot' = IF Kind(r) = "shared" THEN slot ELSE [slot EXCEPT ![r] = 0]
      /\ UNCHANGED <<declared, kind, gate, gateAt, prov, gen, filled, running>>
      /\ shell = "take"
    BY DEF TakeNext, ShellGo, TakeOut
<1>3. DataOK'
    BY <1>1, <1>2 DEF SlotsInv, DataOK, TakeNext, ShellGo
<1>4. HeldInPlace'
    BY <1>1, <1>2 DEF SlotsInv, DataOK, HeldInPlace, TakeNext, ShellGo, SlotName
<1>5. SingletonKeptBelow'
    BY <1>1, <1>2 DEF SlotsInv, DataOK, SingletonKeptBelow, SingletonKept, Kind,
           SlotName
<1>6. ServedByProvider'
    BY <1>1, <1>2 DEF SlotsInv, DataOK, ServedByProvider, SlotName
<1>7. NoLeftoverBelow
    BY <1>1, <1>2 DEF SlotsInv, DataOK, ServedByProvider, NoLeftoverBelow,
           SlotName
<1>. QED
    BY <1>3, <1>4, <1>5, <1>6, <1>7, RunningBoolean DEF SlotsNext, Shell, SlotsInv

\* A shell that finds a slot empty has taken no singleton declared after it.
LEMMA LostSlotsInv ==
    ASSUME SlotsInv, LostResource
    PROVE  SlotsInv'
<1>1. DataOK' /\ HeldInPlace'
    BY DEF SlotsInv, DataOK, HeldInPlace, LostResource, ShellGo, Empty, SlotName
<1>2. declared[1] = "RES" => held["DEV"] = 0 /\ held'["DEV"] = 0
    BY DEF SlotsInv, DataOK, HeldInPlace, LostResource, ShellGo, Empty, SlotName
<1>. QED
    BY <1>1, <1>2, RunningBoolean DEF SlotsNext, Shell, SlotsInv, LostResource,
           SingletonKeptBelow, SingletonKept, ServedByProvider, ShellGo

\* A restored value moves from the shell to its slot: the provider's own slot is
\* restored to only where it is lent.
LEMMA RestoreSlotsInv ==
    ASSUME SlotsInv, Restore
    PROVE  SlotsInv'
<1>. DEFINE r == declared[at]
<1>1. r \in SlotName
    BY DEF SlotsInv, DataOK, SlotName
<1>2. /\ held' = [held EXCEPT ![r] = 0]
      /\ slot' = IF held[r] # 0 THEN [slot EXCEPT ![r] = held[r]] ELSE slot
      /\ UNCHANGED <<declared, kind, gate, gateAt, prov, gen, running>>
      /\ shell = "restore"
    BY DEF Restore, ShellGo, Provide
<1>a. slot' \in [SlotName -> 0..MaxGen] /\ held' \in [SlotName -> 0..MaxGen]
    BY <1>1, <1>2, MaxGenAssumption DEF SlotsInv, DataOK
<1>b. filled' \in SUBSET SlotName
    BY <1>1 DEF SlotsInv, DataOK, Restore, Provide
<1>c. /\ at = 2 => shell' = "exit" /\ at' = 1
      /\ at = 1 => shell' = "restore" /\ at' = 2
      /\ at \in {1, 2}
    BY DEF SlotsInv, DataOK, Restore, ShellGo
<1>3. DataOK'
    BY <1>2, <1>a, <1>b, <1>c DEF SlotsInv, DataOK
<1>4. HeldInPlace'
    <2>1. kind # "lend" => held'["RES"] = 0
        BY <1>1, <1>2 DEF SlotsInv, DataOK, HeldInPlace, SlotName
    <2>2. \A i \in 1..at : held'[declared[i]] = 0
        BY <1>1, <1>2, <1>c DEF SlotsInv, DataOK, HeldInPlace, SlotName
    <2>3. at = 2 => held' = Empty
        <3>1. at = 2 => held'["DEV"] = 0 /\ held'["RES"] = 0
            BY <2>2 DEF SlotsInv, DataOK
        <3>. QED
            BY <1>a, <3>1 DEF Empty, SlotName
    <2>. QED
        BY <1>2, <1>c, <2>1, <2>2, <2>3 DEF SlotsInv, HeldInPlace
<1>5. SingletonKeptBelow'
    BY <1>1, <1>2 DEF SlotsInv, DataOK, SingletonKeptBelow, SingletonKept,
           SlotName
<1>6. ServedByProvider'
    BY <1>1, <1>2 DEF SlotsInv, DataOK, HeldInPlace, ServedByProvider, SlotName
<1>. QED
    BY <1>3, <1>4, <1>5, <1>6, RunningBoolean DEF SlotsNext, Shell, SlotsInv

\* The worker's end drops what was consumed and keeps what is lent.
LEMMA WorkSlotsInv ==
    ASSUME SlotsInv, WorkerAcks \/ WorkerEnds \/ ExitAndPark
    PROVE  SlotsInv'
<1>a. held' \in [SlotName -> 0..MaxGen]
    BY MaxGenAssumption DEF SlotsInv, DataOK, WorkerAcks, WorkerEnds, ExitAndPark
<1>1. DataOK'
    BY <1>a DEF SlotsInv, DataOK, WorkerAcks, WorkerEnds, ExitAndPark, ShellGo
<1>2. UNCHANGED <<declared, kind, slot, gate, prov, gen>> /\ held'["DEV"] = held["DEV"]
    BY DEF SlotsInv, DataOK, WorkerAcks, WorkerEnds, ExitAndPark, ShellGo, Kind,
           SlotName
<1>3. HeldInPlace'
    BY <1>2 DEF SlotsInv, DataOK, HeldInPlace, WorkerAcks, WorkerEnds,
           ExitAndPark, ShellGo, Kind, SlotName
<1>. QED
    BY <1>1, <1>2, <1>3, RunningBoolean DEF SlotsNext, Shell, SlotsInv,
           SingletonKeptBelow, SingletonKept, ServedByProvider

\* The provider fills RES with the value of its present activation, and clears
\* it when it stops; the singleton is not its business.
LEMMA ProviderSlotsInv ==
    ASSUME SlotsInv, Provider
    PROVE  SlotsInv'
<1>1. UNCHANGED <<declared, kind, held, shell, at, gate>>
    BY DEF Provider, ProvGo, StartProvider, ProvideRes, ReleaseProvided, ResetFilled
<1>a. slot' \in [SlotName -> 0..MaxGen] /\ gen' \in 0..MaxGen
    BY MaxGenAssumption DEF SlotsInv, DataOK, Provider, StartProvider, ProvideRes,
           ReleaseProvided, ResetFilled, Provide
<1>2. DataOK'
    BY <1>1, <1>a DEF SlotsInv, DataOK, Provider, ProvGo, StartProvider, ProvideRes,
           ReleaseProvided, ResetFilled, Provide, SlotName
<1>3. slot'["DEV"] = slot["DEV"]
    BY DEF SlotsInv, DataOK, Provider, ProvGo, StartProvider, ProvideRes,
           ReleaseProvided, ResetFilled, Provide, SlotName
<1>4. ServedByProvider'
    BY DEF SlotsInv, DataOK, ServedByProvider, Provider, ProvGo, StartProvider,
           ProvideRes, ReleaseProvided, ResetFilled, Provide, SlotName
<1>. QED
    BY <1>1, <1>2, <1>3, <1>4, RunningBoolean DEF SlotsNext, Shell, SlotsInv,
           HeldInPlace, SingletonKeptBelow, SingletonKept

\* Only TakeNext puts a value into the shell's hands.
LEMMA OnlyTakeTakes ==
    ASSUME SlotsInv, SlotsNext, ~TakeNext
    PROVE  NoLeftoverBelow
<1>1. held'["RES"] \in {held["RES"], 0}
    BY DEF SlotsInv, DataOK, SlotsNext, SlotSup, GateGo, StartConsumer, CheckGate,
           WakeGate, GateTimeout, Probe, ProbeAgain, LaunchConsumer, Shell, ShellGo,
           LostResource, WorkerAcks, WorkerEnds, Restore, ExitAndPark, Provider,
           ProvGo, StartProvider, ProvideRes, ReleaseProvided, ResetFilled, SlotName,
           Empty
<1>. QED
    BY <1>1 DEF NoLeftoverBelow

\* Every step keeps the invariant and takes no leftover.
LEMMA NextSlotsInv ==
    ASSUME SlotsInv, SlotsNext
    PROVE  SlotsInv' /\ NoLeftoverBelow
<1>1. SlotsInv'
    BY SupSlotsInv, TakeSlotsInv, LostSlotsInv, RestoreSlotsInv, WorkSlotsInv,
       ProviderSlotsInv DEF SlotsNext, Shell
<1>. QED
    BY <1>1, TakeSlotsInv, OnlyTakeTakes

\* The invariant holds in every behaviour.
LEMMA SlotsInvHolds == SlotsInit /\ [][SlotsNext]_slotVars => []SlotsInv
<1>1. SlotsInv /\ UNCHANGED slotVars => SlotsInv'
    BY DEF SlotsInv, DataOK, HeldInPlace, SingletonKeptBelow, SingletonKept,
           ServedByProvider, slotVars
<1>2. SlotsInv /\ [SlotsNext]_slotVars => SlotsInv'
    BY <1>1, NextSlotsInv
<1>. QED
    BY InitSlotsInv, <1>2, PTL

\* The type invariant of the slots.
THEOREM SlotsTypeCorrect == SlotsSpec => []SlotsTypeOK
BY SlotsInvHolds, TypeFromInv, PTL DEF SlotsSpec

\* No step of the supervisor, the shell or the provider loses or doubles the
\* singleton of a consumer that declares the provider's slot first, and no shell
\* takes a consumed or shared value whose provider has stopped, however many
\* activations both go through.
THEOREM SlotsAreOwnedHolds == SlotsSpec => SlotsAreOwned
<1>1. SlotsInv /\ [SlotsNext]_slotVars
          => [SingletonKeptBelow' /\ NoLeftoverBelow]_slotVars
    <2>1. SlotsInv' => SingletonKeptBelow'
        BY DEF SlotsInv
    <2>. QED
        BY <2>1, NextSlotsInv
<1>. QED
    BY <1>1, SlotsInvHolds, PTL DEF SlotsSpec, SlotsAreOwned

\* While a start waits at a gate, a slot it may rely on is filled together with
\* its signal, and only a provider that has emptied the slot resets it.
LEMMA FillLatchedStep ==
    ASSUME SlotsInv, FillIsLatched, [SlotsNext]_slotVars
    PROVE  FillIsLatched'
<1>1. UNCHANGED <<declared, kind>>
    BY DEF SlotsNext, SlotSup, Shell, Provider, slotVars, StartConsumer, CheckGate,
           WakeGate, GateTimeout, Probe, ProbeAgain, LaunchConsumer, GateGo, TakeNext,
           LostResource, WorkerAcks, WorkerEnds, Restore, ExitAndPark, ShellGo,
           StartProvider, ProvideRes, ReleaseProvided, ResetFilled, ProvGo
<1>. DEFINE r == declared[gateAt]
<1>2. r \in SlotName
    BY DEF SlotsInv, DataOK, SlotName
<1>3. CASE SlotSup
    <2>1. UNCHANGED slot
        BY <1>3 DEF SlotSup, StartConsumer, CheckGate, WakeGate, GateTimeout, Probe,
               ProbeAgain, LaunchConsumer, GateGo
    <2>2. gate' = "wait" => slot[r] = 0 /\ gateAt' = gateAt
        BY <1>3 DEF SlotSup, StartConsumer, CheckGate, WakeGate, GateTimeout, Probe,
               ProbeAgain, LaunchConsumer, GateGo, IsFilled
    <2>. QED
        BY <1>1, <2>1, <2>2 DEF FillIsLatched, IsFilled
<1>4. CASE Shell
    <2>1. UNCHANGED <<gate, gateAt>>
        BY <1>4 DEF Shell, TakeNext, LostResource, WorkerAcks, WorkerEnds, Restore,
               ExitAndPark, ShellGo
    <2>2. slot'[r] # 0 /\ r \notin filled' => slot[r] # 0 /\ r \notin filled
        <3>1. CASE TakeNext
            BY <1>2, <3>1 DEF TakeNext, TakeOut, SlotsInv, DataOK
        <3>2. CASE Restore
            <4>1. declared[at] \in SlotName
                BY DEF SlotsInv, DataOK, SlotName
            <4>. QED
                BY <1>2, <3>2, <4>1 DEF Restore, Provide, SlotsInv, DataOK
        <3>. QED
            BY <1>4, <3>1, <3>2 DEF Shell, LostResource, WorkerAcks, WorkerEnds, ExitAndPark
    <2>. QED
        BY <1>1, <2>1, <2>2 DEF FillIsLatched, IsFilled, OneFiller
<1>5. CASE Provider
    <2>1. UNCHANGED <<gate, gateAt>>
        BY <1>5 DEF Provider, StartProvider, ProvideRes, ReleaseProvided, ResetFilled,
               ProvGo
    <2>2. slot'[r] # 0 /\ r \notin filled' =>
              slot[r] # 0 /\ (r \notin filled \/ (r = "RES" /\ prov = "reset"))
        BY <1>2, <1>5 DEF Provider, StartProvider, ProvideRes, ReleaseProvided,
               ResetFilled, ProvGo, Provide, SlotsInv, DataOK, SlotName
    <2>3. kind # "lend" /\ prov = "reset" => slot["RES"] = 0
        BY DEF SlotsInv, ServedByProvider
    <2>. QED
        BY <1>1, <2>1, <2>2, <2>3 DEF FillIsLatched, IsFilled, OneFiller
<1>6. CASE UNCHANGED slotVars
    BY <1>6 DEF slotVars, FillIsLatched, IsFilled, OneFiller
<1>. QED
    BY <1>3, <1>4, <1>5, <1>6 DEF SlotsNext

\* No fill is lost: while a start waits for a slot that one side fills and the
\* slot is filled, the signal that wakes it is latched.
LEMMA FillIsLatchedHolds == SlotsInit /\ [][SlotsNext]_slotVars => []FillIsLatched
<1>1. SlotsInit => FillIsLatched
    BY DEF SlotsInit, FillIsLatched
<1>. QED
    BY <1>1, SlotsInvHolds, FillLatchedStep, PTL

----------------------------------------------------------------------------
(* Fault injection.                                                        *)

\* The type invariant, without the Booleans and the counters.
WordOK ==
    /\ injNode \in InjNodes
    /\ fault \in Fault
    /\ iflags \in SUBSET ({"RUNNING", "SHUTDOWN", "DROPPED", "COMPLETED"}
                             \union Pending)
    /\ grace \in {"off", "running", "over"}
    /\ itask \in {"wait", "worker", "crash_cas", "hog_cas", "look1", "pend",
                  "look2", "back", "settle", "cleanup", "done"}
    /\ call \in {"ack", "exit"}
    /\ inj \in {"idle", "replay", "settle", "wake"}

BooleansOK ==
    latch \in BOOLEAN /\ listens \in BOOLEAN /\ woken \in BOOLEAN
        /\ injExit \in BOOLEAN

\* How many acks an instance has made by where it is.
CallsAt ==
    /\ calls \in 0..2 /\ delivered \in Nat
    /\ itask \in {"wait", "worker", "crash_cas", "hog_cas"} => calls = 0
    /\ itask = "cleanup" => call = "ack"
    /\ itask = "done" => call = "exit"
    /\ call = "ack" => calls <= 1

\* A pending ack has somebody who will see it: the wedge's end, the replay
\* under way, or the task's second look.
PendingIsSeen ==
    "PENDING_ACK" \in iflags
        => fault = "wedge" \/ inj = "replay" \/ itask \in {"look2", "back"}

\* An ack past its pending bit is delivered, pending, or in the injector's hands;
\* so is an exit.
AckIsKept ==
    itask \in {"look2", "back", "cleanup", "done"} =>
        /\ "DROPPED" \in iflags \/ "PENDING_ACK" \in iflags \/ inj = "settle"
        /\ call = "exit" => \/ "COMPLETED" \in iflags
                            \/ Pending \subseteq iflags
                            \/ inj = "settle" /\ injExit = TRUE

\* The acks that are still to be delivered.
Owed ==
    One("PENDING_ACK" \in iflags) + One(inj = "settle")
        + One(itask \in {"look1", "pend", "settle"})

\* A replay that another instance's start overtook is the one ack too many.
AcksCounted == delivered + Owed <= calls + One(injNode.supCuts)

InjInv ==
    /\ WordOK /\ BooleansOK /\ CallsAt /\ PendingIsSeen /\ AckIsKept /\ AcksCounted

\* The flags a delivered ack leaves behind.
LEMMA DroppedFlags ==
    ASSUME NEW exit \in BOOLEAN, WordOK
    PROVE  /\ Dropped(exit) \in SUBSET ({"RUNNING", "SHUTDOWN", "DROPPED",
                                         "COMPLETED"} \union Pending)
           /\ "DROPPED" \in Dropped(exit)
           /\ exit => "COMPLETED" \in Dropped(exit)
           /\ "PENDING_ACK" \in Dropped(exit) <=> "PENDING_ACK" \in iflags
BY DEF Dropped, WordOK, Pending

\* The steps keep the Booleans Boolean.
LEMMA BooleansKept ==
    ASSUME BooleansOK, InjNext
    PROVE  BooleansOK'
<1>1. CASE InjTask
    BY <1>1, Zenon DEF BooleansOK, InjTask, PollStalled, Polled, PollCrash, CrashCas,
       PollHog, HogCas, GraceOver, PollWorker, WorkerPending, WorkerStops,
       WorkerReturns, Look1, Pend, Look2, TakeBack, Settled, CleanedUp, TaskAt, AckStep
<1>2. CASE WorkerWoken \/ RequestStop \/ StartAgain
    BY <1>2, Zenon DEF BooleansOK, WorkerWoken, RequestStop, StartAgain
<1>3. CASE Injector
    <2>1. ASSUME NEW f \in Fault \ {"none"}, InjectFault(f) PROVE BooleansOK'
        BY <2>1, Zenon DEF BooleansOK, InjectFault, InjAt
    <2>2. CASE ClearFault \/ ReplaySettled \/ WakeFault
        BY <2>2, Zenon DEF BooleansOK, ClearFault, ReplaySettled, WakeFault, InjAt
    <2>3. CASE Replay
        <3>1. injExit' \in BOOLEAN
            BY <2>3 DEF Replay
        <3>. QED
            BY <2>3, <3>1, Zenon DEF BooleansOK, Replay, InjAt
    <2>. QED
        BY <1>3, <2>1, <2>2, <2>3 DEF Injector
<1>. QED
    BY <1>1, <1>2, <1>3 DEF InjNext

\* The wrapper and the worker make no ack until the worker is over, and then
\* begin exactly one.
LEMMA PollInjInv ==
    ASSUME InjInv,
           \/ PollStalled \/ PollCrash \/ CrashCas \/ PollHog \/ HogCas
           \/ GraceOver \/ PollWorker \/ WorkerPending \/ WorkerStops
           \/ WorkerReturns \/ CleanedUp \/ WorkerWoken
    PROVE  WordOK' /\ CallsAt' /\ PendingIsSeen' /\ AckIsKept' /\ AcksCounted'
<1>. USE DEF InjInv, WordOK, CallsAt, PendingIsSeen, AckIsKept, AcksCounted, Owed,
             One, TaskAt, Polled, Fault
<1>1. CASE PollStalled \/ PollCrash \/ PollHog
    BY <1>1 DEF PollStalled, PollCrash, PollHog
<1>2. CASE HogCas
    BY <1>2 DEF HogCas
<1>a. CASE GraceOver \/ WorkerWoken
    BY <1>a DEF GraceOver, WorkerWoken
<1>b. CASE PollWorker \/ WorkerPending
    BY <1>b DEF PollWorker, WorkerPending
<1>3. CASE CrashCas
    BY <1>3 DEF CrashCas
<1>c. CASE WorkerStops \/ WorkerReturns
    <2>1. /\ itask = "worker" /\ itask' = "look1" /\ calls' = calls + 1
          /\ call' \in {"ack", "exit"}
          /\ UNCHANGED <<injNode, inj, injExit, fault, iflags, grace, delivered>>
        BY <1>c DEF WorkerStops, WorkerReturns
    <2>. QED
        BY <2>1
<1>4. CASE CleanedUp
    BY <1>4 DEF CleanedUp
<1>. QED
    BY <1>1, <1>2, <1>3, <1>4, <1>a, <1>b, <1>c

\* wedge_swallows and settle_dropped: the ack moves from the task to the pending
\* bit and back, or is delivered.
LEMMA AckInjInv ==
    ASSUME InjInv, Look1 \/ Pend \/ Look2 \/ TakeBack \/ Settled
    PROVE  WordOK' /\ CallsAt' /\ PendingIsSeen' /\ AckIsKept' /\ AcksCounted'
<1>. USE DEF InjInv, WordOK, CallsAt, PendingIsSeen, AckIsKept, AcksCounted, Owed,
             One, TaskAt, AckStep, AfterCall, Bits, Pending
<1>1. CASE Look1
    BY <1>1 DEF Look1
<1>2. CASE Pend
    BY <1>2 DEF Pend
<1>3. CASE Look2
    BY <1>3 DEF Look2
<1>4. CASE TakeBack
    BY <1>4 DEF TakeBack
<1>5. CASE Settled
    <2>1. /\ iflags' \in SUBSET ({"RUNNING", "SHUTDOWN", "DROPPED", "COMPLETED"}
                                     \union Pending)
          /\ "DROPPED" \in iflags'
          /\ call = "exit" => "COMPLETED" \in iflags'
          /\ "PENDING_ACK" \in iflags' <=> "PENDING_ACK" \in iflags
        BY <1>5, DroppedFlags DEF Settled
    <2>. QED
        BY <1>5, <2>1 DEF Settled
<1>. QED
    BY <1>1, <1>2, <1>3, <1>4, <1>5

\* The injector puts every pending bit it finds into its own hands, and delivers
\* what it holds.
LEMMA InjectorInjInv ==
    ASSUME InjInv, Injector
    PROVE  WordOK' /\ CallsAt' /\ PendingIsSeen' /\ AckIsKept' /\ AcksCounted'
<1>. USE DEF InjInv, WordOK, CallsAt, PendingIsSeen, AckIsKept, AcksCounted, Owed,
             One, InjAt, Pending, Fault
<1>1. ASSUME NEW f \in Fault \ {"none"}, InjectFault(f)
      PROVE  WordOK' /\ CallsAt' /\ PendingIsSeen' /\ AckIsKept' /\ AcksCounted'
    BY <1>1 DEF InjectFault
<1>2. CASE ClearFault
    BY <1>2 DEF ClearFault
<1>3. CASE Replay
    <2>1. /\ "PENDING_ACK" \notin iflags'
          /\ iflags' = iflags \ Pending
          /\ "PENDING_EXIT" \in iflags => injExit' = TRUE
        BY <1>3 DEF Replay
    <2>. QED
        BY <1>3, <2>1 DEF Replay
<1>4. CASE ReplaySettled
    <2>1. /\ iflags' \in SUBSET ({"RUNNING", "SHUTDOWN", "DROPPED", "COMPLETED"}
                                     \union Pending)
          /\ "DROPPED" \in iflags'
          /\ injExit => "COMPLETED" \in iflags'
          /\ "COMPLETED" \in iflags => "COMPLETED" \in iflags'
          /\ "PENDING_ACK" \in iflags' <=> "PENDING_ACK" \in iflags
          /\ Pending \subseteq iflags <=> Pending \subseteq iflags'
        BY <1>4, DroppedFlags DEF ReplaySettled, BooleansOK, Dropped
    <2>. QED
        BY <1>4, <2>1 DEF ReplaySettled
<1>5. CASE WakeFault
    BY <1>5 DEF WakeFault
<1>. QED
    BY <1>1, <1>2, <1>3, <1>4, <1>5 DEF Injector

\* A stop request touches no ack; a new instance starts with none made.
LEMMA SupInjInv ==
    ASSUME InjInv, RequestStop \/ StartAgain
    PROVE  WordOK' /\ CallsAt' /\ PendingIsSeen' /\ AckIsKept' /\ AcksCounted'
<1>. USE DEF InjInv, WordOK, CallsAt, PendingIsSeen, AckIsKept, AcksCounted, Owed,
             One, Pending
<1>1. CASE RequestStop
    BY <1>1 DEF RequestStop
<1>2. CASE StartAgain
    BY <1>2 DEF StartAgain
<1>. QED
    BY <1>1, <1>2

\* The invariant holds in every behaviour.
LEMMA InjInvHolds == InjInit /\ [][InjNext]_injVars => []InjInv
<1>1. InjInit => InjInv
    <2>1. SUFFICES ASSUME InjInit PROVE InjInv
        OBVIOUS
    <2>2. BooleansOK
        BY <2>1, Zenon DEF InjInit, BooleansOK
    <2>. QED
        BY <2>1, <2>2 DEF InjInit, InjInv, WordOK, CallsAt, PendingIsSeen, AckIsKept,
               AcksCounted, Owed, One, Fault, Pending
<1>2. InjInv /\ [InjNext]_injVars => InjInv'
    <2>1. SUFFICES ASSUME InjInv, [InjNext]_injVars PROVE InjInv'
        OBVIOUS
    <2>2. CASE InjNext
        <3>1. BooleansOK'
            BY <2>1, <2>2, BooleansKept DEF InjInv
        <3>. QED
            BY <2>1, <2>2, <3>1, PollInjInv, AckInjInv, InjectorInjInv, SupInjInv
               DEF InjNext, InjTask, InjInv
    <2>3. CASE UNCHANGED injVars
        BY <2>1, <2>3 DEF InjInv, WordOK, BooleansOK, CallsAt, PendingIsSeen,
               AckIsKept, AcksCounted, Owed, One, injVars
    <2>. QED
        BY <2>1, <2>2, <2>3
<1>. QED
    BY <1>1, <1>2, PTL

\* The inductive invariant says all that the type invariant says.
LEMMA InjTypeFromInv == InjInv => InjTypeOK
<1>1. SUFFICES ASSUME InjInv PROVE InjTypeOK
    OBVIOUS
<1>2. {latch, listens, woken, injExit} \subseteq BOOLEAN
    BY <1>1, Zenon DEF InjInv, BooleansOK
<1>3. calls \in 0..2 /\ delivered \in 0..3
    BY <1>1 DEF InjInv, CallsAt, AcksCounted, Owed, One
<1>. QED
    BY <1>1, <1>2, <1>3 DEF InjInv, WordOK, InjTypeOK

\* The type invariant: an instance acks at most twice, and at most one delivery
\* more than that, the replay a start overtook, is ever made.
THEOREM InjTypeCorrect == InjSpec => []InjTypeOK
BY InjTypeFromInv, InjInvHolds, PTL DEF InjSpec

\* No ack is lost: the part of AckExactlyOnce that AckIsKept is for.
LEMMA AckKeptOnce == InjInv => NoAckLost
BY DEF InjInv, WordOK, CallsAt, PendingIsSeen, AckIsKept, NoAckLost, Pending

\* Whatever order the task, the injector and the supervisor step in, an ack made
\* under a wedge is not lost once the wedge is gone, and is not delivered twice.
THEOREM AckExactlyOnceHolds == InjSpec => []AckExactlyOnce
<1>2. InjInv => AckDeliveredOnce
    BY DEF InjInv, CallsAt, AcksCounted, Owed, One, AckDeliveredOnce
<1>3. InjInv => AckExactlyOnce
    BY <1>2, AckKeptOnce DEF AckExactlyOnce
<1>. QED
    BY <1>3, InjInvHolds, PTL DEF InjSpec

\* A task that sleeps with nobody at work on its fault cannot hear a stop because of
\* that fault, or has left its waker and no stop is requested yet.
AsleepFor ==
    itask = "wait" /\ woken = FALSE /\ inj = "idle" =>
        \/ fault = "wedge"
        \/ fault = "hog" /\ grace = "running"
        \/ listens = TRUE /\ "SHUTDOWN" \notin iflags

\* Every step keeps AsleepFor.
LEMMA AsleepForStep ==
    ASSUME InjInv, AsleepFor, [InjNext]_injVars
    PROVE  AsleepFor'
<1>1. CASE PollStalled \/ PollCrash \/ PollHog \/ PollWorker \/ WorkerPending
    <2>1. CASE PollStalled
        BY <2>1 DEF PollStalled, Polled, TaskAt, AsleepFor
    <2>2. CASE PollHog
        BY <2>2 DEF PollHog, Polled, TaskAt, AsleepFor
    <2>3. CASE PollCrash \/ PollWorker
        BY <2>3 DEF PollCrash, PollWorker, Polled, TaskAt, AsleepFor
    <2>4. CASE WorkerPending
        <3>1. fault = "wedge" \/ ("SHUTDOWN" \notin iflags /\ listens' = TRUE)
            BY <2>4 DEF WorkerPending, StopVisible
        <3>2. UNCHANGED <<fault, iflags>>
            BY <2>4 DEF WorkerPending
        <3>. QED
            BY <3>1, <3>2 DEF AsleepFor
    <2>. QED
        BY <1>1, <2>1, <2>2, <2>3, <2>4
<1>2. CASE CrashCas \/ HogCas \/ WorkerStops \/ WorkerReturns \/ CleanedUp
           \/ Look1 \/ Pend \/ Look2 \/ TakeBack \/ Settled
    <2>1. itask' # "wait"
        BY <1>2 DEF CrashCas, HogCas, WorkerStops, WorkerReturns, CleanedUp, Look1, Pend,
               Look2, TakeBack, Settled, AckStep, TaskAt, AfterCall
    <2>. QED
        BY <2>1 DEF AsleepFor
<1>3. CASE GraceOver \/ WorkerWoken \/ StartAgain \/ WakeFault
    <2>1. woken' = TRUE
        BY <1>3 DEF GraceOver, WorkerWoken, StartAgain, WakeFault
    <2>. QED
        BY <2>1 DEF AsleepFor
<1>4. CASE RequestStop
    <2>1. /\ UNCHANGED <<itask, inj, fault, grace>>
          /\ woken' = (woken \/ listens)
        BY <1>4 DEF RequestStop
    <2>2. woken' = FALSE => woken = FALSE /\ listens # TRUE
        <3>1. woken \in BOOLEAN /\ listens \in BOOLEAN
            BY DEF InjInv, BooleansOK
        <3>. QED
            BY <2>1, <3>1, Zenon
    <2>. QED
        BY <2>1, <2>2 DEF AsleepFor
<1>5. CASE Injector /\ ~WakeFault
    <2>1. inj' # "idle"
        BY <1>5 DEF Injector, InjectFault, ClearFault, Replay, ReplaySettled, InjAt
    <2>. QED
        BY <2>1 DEF AsleepFor
<1>6. CASE UNCHANGED injVars
    BY <1>6 DEF injVars, AsleepFor
<1>. QED
    BY <1>1, <1>2, <1>3, <1>4, <1>5, <1>6 DEF InjNext, InjTask

\* No stop is slept through: once no fault is in place and no inject call is under
\* way, a task that is asked to stop is woken, stepping, or past its ack.
LEMMA StopIsOwedHolds == InjInit /\ [][InjNext]_injVars => []StopIsOwed
<1>1. InjInit => AsleepFor
    BY DEF InjInit, AsleepFor
<1>2. InjInv /\ AsleepFor => StopIsOwed
    <2>1. SUFFICES ASSUME InjInv, AsleepFor,
                          "SHUTDOWN" \in iflags, fault = "none", inj = "idle"
                   PROVE  "DROPPED" \in iflags \/ woken \/ itask \notin {"wait", "done"}
        BY DEF StopIsOwed
    <2>2. itask = "done" => "DROPPED" \in iflags
        BY <2>1, AckKeptOnce DEF NoAckLost
    <2>3. itask = "wait" => woken # FALSE
        BY <2>1 DEF AsleepFor
    <2>4. woken \in BOOLEAN
        BY <2>1 DEF InjInv, BooleansOK
    <2>. QED
        BY <2>2, <2>3, <2>4, Zenon
<1>. QED
    BY <1>1, <1>2, InjInvHolds, AsleepForStep, PTL

----------------------------------------------------------------------------
(* The services together.                                                  *)

\* A service starts as it says, whichever the turns are of.
LEMMA EachInit ==
    ServicesInit => /\ InjInit /\ SlotsInit /\ MonInit /\ FenceInit /\ RepInit
                    /\ BudgetInit /\ BackedInit /\ VetoInit /\ LeasedInit
BY DEF ServicesInit

\* A turn of one service is a step of that service and a stutter of the others.
LEMMA EachStep ==
    [ServicesNext]_servicesVars =>
        /\ [InjNext]_injVars /\ [SlotsNext]_slotVars /\ [MonNext]_monVars
        /\ [FenceNext]_fenceVars /\ [RepNext]_repVars /\ [BudgetNext]_budgetVars
        /\ [BackedNext]_backedVars /\ [VetoNext]_vetoVars /\ [LeasedNext]_leasedVars
BY DEF ServicesNext, InjTurn, SlotsTurn, MonTurn, FenceTurn, RepTurn, BudgetTurn,
       BackedTurn, VetoTurn, LeasedTurn, servicesVars

\* Every service keeps to its types, whatever runs beside it, for every number of
\* readers, slots, contributors and activations and every width of the counters.
THEOREM ServicesTypeCorrect == ServicesSpec => []ServicesTypeOK
<1>1. SlotsInv => SlotsTypeOK
    BY TypeFromInv
<1>2. FenceInv => FenceTypeOK
    BY DEF FenceInv
<1>3. LeasedInv => LeasedTypeOK
    BY DEF LeasedInv
<1>4. InjTypeOK /\ SlotsTypeOK /\ MonTypeOK /\ FenceTypeOK /\ RepTypeOK /\ BudgetTypeOK
          /\ BackedTypeOK /\ VetoTypeOK /\ LeasedTypeOK => ServicesTypeOK
    BY DEF ServicesTypeOK
<1>. QED
    BY <1>1, <1>2, <1>3, <1>4, EachInit, EachStep, InjTypeFromInv, InjInvHolds,
       SlotsInvHolds, FenceInvHolds, LeasedInvHolds, MonTypeHolds, RepTypeHolds,
       BudgetTypeHolds, BackedTypeHolds, VetoTypeHolds, PTL DEF ServicesSpec

\* No wake is lost, as far as that needs no fairness: in every reachable state,
\* whoever is parked on what has come is latched, or the actor that has to wake it
\* has begun to, for any number of readers, contributors and activations.  The
\* hypothesis is of the fence's pass counter: a wait that wraps within the passes
\* still due for earlier requests would take the wrapped count for its snapshot.
THEOREM WakesAreOwedHolds == PassMod > 3 => (ServicesSpec => []WakesAreOwed)
<1>. SUFFICES ASSUME PassMod > 3 PROVE ServicesSpec => []WakesAreOwed
    OBVIOUS
<1>1. OwedInv /\ FenceInv => PassIsOwed
    BY PassOwed
<1>2. ParkedInv => GrantIsSeen
    BY DEF ParkedInv
<1>3. FenceInit /\ [][FenceNext]_fenceVars => []OwedInv
    BY OwedInvHolds
<1>4. VetoInit /\ [][VetoNext]_vetoVars => []FlipIsSeen
    BY FlipIsSeenHolds DEF VetoSpec
<1>5. StopIsOwed /\ FillIsLatched /\ PassIsOwed /\ EpochIsLatched /\ DropIsOwed
          /\ LeavingIsOwed /\ GrantIsSeen /\ FlipIsSeen => WakesAreOwed
    BY DEF WakesAreOwed
<1>. QED
    BY <1>1, <1>2, <1>3, <1>4, <1>5, EachInit, EachStep, StopIsOwedHolds,
       FillIsLatchedHolds, FenceInvHolds, EpochIsLatchedHolds, DropIsOwedHolds,
       LeavingIsOwedHolds, ParkedInvHolds, PTL DEF ServicesSpec
=============================================================================
