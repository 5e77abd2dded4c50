----------------------------- MODULE ClockProofs -----------------------------
(***************************************************************************)
(* Time kept in ticks that wrap, for every width of the ticks and every    *)
(* budget below it: the restart budget, the stamped value and the veto     *)
(* gate, and the liveness monitor.                                         *)
(***************************************************************************)
EXTENDS Monitor, Report, Veto, TLAPS

----------------------------------------------------------------------------
(* Arithmetic.                                                             *)

\* The operators of FiniteSetsExt on the two-element sets the models use.
LEMMA MinOfTwo ==
    ASSUME NEW a \in Nat, NEW b \in Nat
    PROVE  Min({a, b}) = IF a <= b THEN a ELSE b
<1>1. \E x \in {a, b} : \A y \in {a, b} : x <= y
    OBVIOUS
<1>2. Min({a, b}) \in {a, b} /\ \A y \in {a, b} : Min({a, b}) <= y
    BY <1>1, Zenon DEF Min
<1>. QED
    BY <1>2

\* Likewise for the larger of two.
LEMMA MaxOfTwo ==
    ASSUME NEW a \in Nat, NEW b \in Nat
    PROVE  Max({a, b}) = IF a >= b THEN a ELSE b
<1>1. \E x \in {a, b} : \A y \in {a, b} : x >= y
    OBVIOUS
<1>2. Max({a, b}) \in {a, b} /\ \A y \in {a, b} : Max({a, b}) >= y
    BY <1>1, Zenon DEF Max
<1>. QED
    BY <1>2

\* A tick more in a counter that wraps at m.
LEMMA NextTick ==
    ASSUME NEW m \in Nat, m > 1, NEW t \in 0..(m - 1)
    PROVE  (t + 1) % m = IF t + 1 = m THEN 0 ELSE t + 1
<1>1. CASE t + 1 = m
    <2>1. m % m = 0
        OBVIOUS
    <2>. QED
        BY <1>1, <2>1
<1>2. CASE t + 1 < m
    BY <1>2
<1>. QED
    BY <1>1, <1>2

\* A counter that wraps stays below where it wraps.
LEMMA WrapsBelow ==
    ASSUME NEW m \in Nat \ {0}, NEW n \in 0..(m - 1)
    PROVE  (n + 1) % m \in 0..(m - 1)
<1>1. CASE n + 1 < m
    <2>1. n + 1 = 0 * m + (n + 1)
        OBVIOUS
    <2>. QED
        BY <1>1, <2>1
<1>2. CASE n + 1 = m
    <2>1. n + 1 = 1 * m + 0
        BY <1>2
    <2>. QED
        BY <2>1
<1>. QED
    BY <1>1, <1>2

\* A wrapping difference that does not wrap.
LEMMA WrappedDifference ==
    ASSUME NEW m \in Nat, m > 0, NEW a \in 0..(m - 1), NEW b \in 0..a
    PROVE  (m + a - b) % m = a - b
<1>1. m + a - b = 1 * m + (a - b) /\ a - b \in 0..(m - 1)
    OBVIOUS
<1>. QED
    BY <1>1

----------------------------------------------------------------------------
(* The restart budget.                                                     *)

\* Up to the wrap, the truncated age of the window is its age.
WindowInv ==
    /\ windowAge \in 0..(RTickMod - 1) /\ openFor \in 0..OpenCap
    /\ openFor < RTickMod => windowAge = openFor

\* Every step of the mailbox and the budget keeps WindowInv.
LEMMA WindowInvStep ==
    ASSUME WindowInv, [RepNext]_repVars
    PROVE  WindowInv'
<1>. USE ReportAssumption DEF OpenCap
<1>1. CASE TimePasses
    <2>1. openFor' = IF openFor + 1 <= OpenCap THEN openFor + 1 ELSE OpenCap
        BY <1>1, MinOfTwo DEF WindowInv, TimePasses
    <2>2. windowAge' = IF windowAge + 1 = RTickMod THEN 0 ELSE windowAge + 1
        BY <1>1, NextTick DEF WindowInv, TimePasses
    <2>. QED
        BY <2>1, <2>2 DEF WindowInv
<1>2. CASE OpenWindow
    BY <1>2 DEF WindowInv, OpenWindow
<1>3. CASE ~TimePasses /\ ~OpenWindow
    <2>1. UNCHANGED <<windowAge, openFor>>
        BY <1>3 DEF RepNext, Restart, Request, WaitControl, RefuseStorm, CountRestart,
               StopNoted, AckNoted, SpawnNoted, StartNoted, TakeEvent, EpochLook,
               EpochWoken, EpochAsk, ReaderGo, repVars
    <2>. QED
        BY <2>1 DEF WindowInv
<1>. QED
    BY <1>1, <1>2, <1>3

\* The restarts that were accepted, against the counter: as many as it counts are no
\* older than the window, the one that opened it and those before it no younger; and
\* what lies a budget further back is out of the window's length.
AcceptedInv ==
    /\ restarts \in 0..RMax /\ recent \in [Recent -> 0..(RWindow + 1)]
    /\ \A i \in Recent :
        /\ i <= restarts => recent[i] <= openFor
        /\ i >= restarts => recent[i] >= openFor \/ recent[i] > RWindow
        /\ restarts = 0 \/ i >= restarts + RMax => recent[i] > RWindow

\* No restart was accepted at first.
LEMMA AcceptedInvInit == RepInit => WindowInv /\ AcceptedInv
<1>1. SUFFICES ASSUME RepInit PROVE WindowInv /\ AcceptedInv
    OBVIOUS
<1>2. WindowInv
    BY <1>1, ReportAssumption DEF RepInit, WindowInv, OpenCap
<1>3. /\ restarts = 0 /\ recent = [i \in Recent |-> RWindow + 1] /\ openFor = 0
      /\ RMax \in Nat /\ RWindow \in Nat
    BY <1>1, ReportAssumption DEF RepInit
<1>4. recent \in [Recent -> 0..(RWindow + 1)] /\ \A i \in Recent : recent[i] = RWindow + 1
    BY <1>3
<1>5. restarts \in 0..RMax /\ \A i \in Recent : i \in Nat \ {0}
    BY <1>3 DEF Recent
<1>. QED
    BY <1>2, <1>3, <1>4, <1>5 DEF AcceptedInv

\* A restart that is accepted keeps AcceptedInv.
LEMMA AcceptKeepsAcceptedInv ==
    ASSUME WindowInv, AcceptedInv, OpenWindow \/ CountRestart
    PROVE  AcceptedInv'
<1>. USE ReportAssumption
<1>1. /\ recent' \in [Recent -> 0..(RWindow + 1)] /\ 1 \in Recent /\ recent'[1] = 0
      /\ \A i \in Recent : i # 1 => i - 1 \in Recent /\ recent'[i] = recent[i - 1]
    <2>1. recent' = [i \in Recent |-> IF i = 1 THEN 0 ELSE recent[i - 1]]
        BY DEF OpenWindow, CountRestart, Accept
    <2>2. 1 \in Recent /\ \A i \in Recent : i # 1 => i - 1 \in Recent
        BY DEF Recent
    <2>. QED
        BY <2>1, <2>2 DEF AcceptedInv
<1>2. CASE OpenWindow
    <2>1. restarts' = 1 /\ openFor' = 0
        BY <1>2 DEF OpenWindow
    <2>2. ASSUME NEW j \in Recent, j >= RMax PROVE recent[j] > RWindow
        <3>1. restarts = 0 \/ openFor > RWindow
            BY <1>2 DEF OpenWindow, WindowClosed, WindowInv, OpenCap
        <3>. QED
            BY <2>2, <3>1 DEF AcceptedInv, WindowInv, Recent
    <2>3. ASSUME NEW i \in Recent, i >= 1 + RMax PROVE recent'[i] > RWindow
        <3>1. i \in Nat /\ i # 1 /\ i - 1 >= RMax
            BY <2>3 DEF Recent
        <3>2. i - 1 \in Recent /\ recent'[i] = recent[i - 1]
            BY <1>1, <3>1
        <3>3. recent[i - 1] > RWindow
            BY <2>2, <3>1, <3>2
        <3>. QED
            BY <3>2, <3>3
    <2>4. ASSUME NEW i \in Recent
          PROVE  /\ i <= 1 => recent'[i] <= 0
                 /\ recent'[i] >= 0
        BY <1>1 DEF Recent
    <2>. QED
        BY <1>1, <2>1, <2>3, <2>4 DEF AcceptedInv
<1>3. CASE CountRestart
    <2>1. /\ restarts' = restarts + 1 /\ restarts \in 1..(RMax - 1)
          /\ openFor' = openFor /\ openFor \in Nat
        BY <1>3 DEF CountRestart, WindowClosed, AcceptedInv, WindowInv, OpenCap
    <2>2. ASSUME NEW i \in Recent
          PROVE  /\ i <= restarts' => recent'[i] <= openFor
                 /\ i >= restarts' => recent'[i] >= openFor \/ recent'[i] > RWindow
                 /\ i >= restarts' + RMax => recent'[i] > RWindow
        <3>1. CASE i = 1
            BY <1>1, <2>1, <3>1
        <3>2. CASE i # 1
            <4>1. i - 1 \in Recent /\ recent'[i] = recent[i - 1]
                BY <1>1, <3>2
            <4>2. /\ i - 1 <= restarts => recent[i - 1] <= openFor
                  /\ i - 1 >= restarts => recent[i - 1] >= openFor \/ recent[i - 1] > RWindow
                  /\ i - 1 >= restarts + RMax => recent[i - 1] > RWindow
                BY <4>1 DEF AcceptedInv
            <4>. QED
                BY <2>1, <4>1, <4>2 DEF Recent
        <3>. QED
            BY <3>1, <3>2
    <2>. QED
        BY <1>1, <2>1, <2>2 DEF AcceptedInv
<1>. QED
    BY <1>2, <1>3

\* Every step of the mailbox and the budget keeps AcceptedInv.
LEMMA AcceptedInvStep ==
    ASSUME WindowInv, AcceptedInv, [RepNext]_repVars
    PROVE  AcceptedInv'
<1>. USE ReportAssumption
<1>1. CASE OpenWindow \/ CountRestart
    BY <1>1, AcceptKeepsAcceptedInv
<1>2. CASE TimePasses
    <2>1. openFor' = IF openFor + 1 <= OpenCap THEN openFor + 1 ELSE OpenCap
        BY <1>2, MinOfTwo DEF WindowInv, TimePasses, OpenCap
    <2>2. recent' = [i \in Recent |-> IF recent[i] > RWindow THEN recent[i] ELSE recent[i] + 1]
        BY <1>2 DEF TimePasses
    <2>3. restarts' = restarts
        BY <1>2 DEF TimePasses
    <2>4. recent' \in [Recent -> 0..(RWindow + 1)]
        BY <2>2 DEF AcceptedInv
    <2>5. ASSUME NEW i \in Recent
          PROVE  /\ i <= restarts => recent'[i] <= openFor'
                 /\ i >= restarts => recent'[i] >= openFor' \/ recent'[i] > RWindow
                 /\ restarts = 0 \/ i >= restarts + RMax => recent'[i] > RWindow
        BY <2>1, <2>2 DEF AcceptedInv, WindowInv, OpenCap
    <2>. QED
        BY <2>3, <2>4, <2>5 DEF AcceptedInv
<1>3. CASE ~TimePasses /\ ~OpenWindow /\ ~CountRestart
    <2>1. UNCHANGED <<restarts, openFor, recent>>
        BY <1>3 DEF RepNext, Restart, Request, WaitControl, RefuseStorm, StopNoted, AckNoted,
               SpawnNoted, StartNoted, TakeEvent, EpochLook, EpochWoken, EpochAsk, ReaderGo,
               repVars
    <2>. QED
        BY <2>1 DEF AcceptedInv
<1>. QED
    BY <1>1, <1>2, <1>3

\* The budget bounds the restarts of any stretch of time as long as its window, for
\* every maximum, window and width of the ticks, and refuses only what it must.
THEOREM RestartsInBudgetHolds == RepSpec => RestartsInBudget
<1>1. RepInit => WindowInv /\ AcceptedInv
    BY AcceptedInvInit
<1>2. WindowInv /\ AcceptedInv /\ [RepNext]_repVars => WindowInv' /\ AcceptedInv'
    BY WindowInvStep, AcceptedInvStep
<1>3. AcceptedInv' => recent'[2 * RMax] > RWindow
    <2>1. 2 * RMax \in Recent
        BY ReportAssumption DEF Recent
    <2>. QED
        BY <2>1, ReportAssumption DEF AcceptedInv
<1>4. ASSUME WindowInv, AcceptedInv, RepNext, driver = "budget", driver' = "idle"
      PROVE  recent[RMax] <= RWindow \/ openFor >= RTickMod
    <2>1. RefuseStorm
        BY <1>4 DEF RepNext, Restart, DriverGo, Request, WaitControl, OpenWindow,
               CountRestart, StopNoted, AckNoted, SpawnNoted, StartNoted, TimePasses,
               TakeEvent, EpochLook, EpochWoken, EpochAsk, ReaderGo
    <2>2. restarts = RMax /\ windowAge <= RWindow /\ RMax \in Recent
        BY <1>4, <2>1, ReportAssumption
        DEF AcceptedInv, WindowInv, RefuseStorm, WindowClosed, Recent
    <2>. QED
        BY <1>4, <2>2, ReportAssumption DEF AcceptedInv, WindowInv, OpenCap
<1>5. WindowInv /\ AcceptedInv /\ WindowInv' /\ AcceptedInv' /\ [RepNext]_repVars
          => [/\ recent'[2 * RMax] > RWindow
              /\ driver = "budget" /\ driver' = "idle"
                    => recent[RMax] <= RWindow \/ openFor >= RTickMod]_repVars
    BY <1>3, <1>4
<1>. QED
    BY <1>1, <1>2, <1>5, PTL DEF RepSpec, RestartsInBudget

\* What the type invariant adds to WindowInv and AcceptedInv.
RepRest ==
    /\ mail \in 0..MailCap
    /\ driver \in {"idle", "budget", "stop", "acked", "spawn", "started"}
    /\ events \in 0..EventCap /\ lost \in 0..LostCap
    /\ epoch \in 0..(EpochMod - 1) /\ epochSeen \in 0..(EpochMod - 1)
    /\ epochReader \in {"work", "look", "park"}

\* Every step keeps RepRest: a full queue takes no event.
LEMMA RepRestStep ==
    ASSUME RepRest, [RepNext]_repVars
    PROVE  RepRest'
<1>. USE ReportAssumption
<1>1. ASSUME EmitLifecycle PROVE events' \in 0..EventCap /\ lost' \in 0..LostCap
    <2>1. lost' = IF events < EventCap THEN lost
                  ELSE IF lost + 1 <= LostCap THEN lost + 1 ELSE LostCap
        BY <1>1, MinOfTwo DEF EmitLifecycle, RepRest, LostCap
    <2>. QED
        BY <1>1, <2>1 DEF EmitLifecycle, RepRest, LostCap
<1>2. ASSUME NEW t, Note(t) PROVE events' \in 0..EventCap /\ lost' \in 0..LostCap
    BY <1>1, <1>2 DEF Note, RepRest
<1>3. CASE Request \/ TimePasses \/ TakeEvent \/ EpochLook \/ EpochWoken \/ EpochAsk
    BY <1>3 DEF RepRest, Request, TimePasses, TakeEvent, EpochLook, EpochWoken, EpochAsk,
       ReaderGo
<1>4. CASE WaitControl \/ OpenWindow \/ CountRestart
    BY <1>4 DEF RepRest, WaitControl, OpenWindow, CountRestart, DriverGo
<1>5. CASE RefuseStorm
    BY <1>1, <1>5 DEF RepRest, RefuseStorm, DriverGo
<1>6. CASE StopNoted \/ AckNoted \/ SpawnNoted
    <2>1. events' \in 0..EventCap /\ lost' \in 0..LostCap
        BY <1>2, <1>6 DEF StopNoted, AckNoted, SpawnNoted
    <2>. QED
        BY <1>6, <2>1 DEF RepRest, StopNoted, AckNoted, SpawnNoted, DriverGo
<1>7. CASE StartNoted
    <2>1. events' \in 0..EventCap /\ lost' \in 0..LostCap
        BY <1>2, <1>7 DEF StartNoted
    <2>2. epoch' \in 0..(EpochMod - 1)
        BY <1>7, WrapsBelow DEF StartNoted, RepRest
    <2>. QED
        BY <1>7, <2>1, <2>2 DEF RepRest, StartNoted, DriverGo
<1>8. CASE UNCHANGED repVars
    BY <1>8 DEF RepRest, repVars
<1>. QED
    BY <1>3, <1>4, <1>5, <1>6, <1>7, <1>8 DEF RepNext, Restart

\* The type invariant of the mailbox, the restart budget and the reports.
LEMMA RepTypeHolds == RepInit /\ [][RepNext]_repVars => []RepTypeOK
<1>. DEFINE Wake == epochWake \in BOOLEAN
<1>1. RepInit => RepRest /\ WindowInv /\ AcceptedInv
    BY ReportAssumption, AcceptedInvInit DEF RepInit, RepRest, LostCap
<1>2. RepInit => Wake
    BY Zenon DEF RepInit
<1>3. Wake /\ [RepNext]_repVars => Wake'
    BY Zenon DEF RepNext, Restart, WaitControl, OpenWindow, RefuseStorm, CountRestart,
       StopNoted, AckNoted, SpawnNoted, StartNoted, Request, TimePasses, TakeEvent,
       EpochLook, EpochWoken, EpochAsk, ReaderGo, repVars
<1>4. RepRest /\ WindowInv /\ AcceptedInv /\ Wake => RepTypeOK
    BY DEF RepRest, WindowInv, AcceptedInv, RepTypeOK
<1>. HIDE DEF Wake
<1>. QED
    BY <1>1, <1>2, <1>3, <1>4, RepRestStep, WindowInvStep, AcceptedInvStep, PTL

\* The epoch moves together with its wake, and a reader parks only over the
\* epoch it has seen.
LEMMA EpochIsLatchedHolds == RepInit /\ [][RepNext]_repVars => []EpochIsLatched
<1>1. RepInit => EpochIsLatched
    BY DEF RepInit, EpochIsLatched
<1>2. EpochIsLatched /\ [RepNext]_repVars => EpochIsLatched'
    <2>. SUFFICES ASSUME EpochIsLatched, [RepNext]_repVars PROVE EpochIsLatched'
        OBVIOUS
    <2>1. CASE Restart
        BY <2>1 DEF Restart, WaitControl, OpenWindow, RefuseStorm, CountRestart, StopNoted,
               AckNoted, SpawnNoted, StartNoted, DriverGo, EpochIsLatched
    <2>2. CASE EpochLook \/ EpochWoken \/ EpochAsk
        BY <2>2 DEF EpochLook, EpochWoken, EpochAsk, ReaderGo, EpochIsLatched
    <2>3. CASE Request \/ TimePasses \/ TakeEvent \/ UNCHANGED repVars
        BY <2>3 DEF Request, TimePasses, TakeEvent, repVars, EpochIsLatched
    <2>. QED
        BY <2>1, <2>2, <2>3 DEF RepNext
<1>. QED
    BY <1>1, <1>2, PTL

----------------------------------------------------------------------------
(* The veto gate.                                                          *)

\* A trip or a release of the gate never leaves the actuator parked: the call
\* that flips the gate is the one that signals, however the contributors' calls
\* interleave.
THEOREM FlipIsSeenHolds == VetoSpec => []FlipIsSeen
<1>1. VetoInit => FlipIsSeen
    BY DEF VetoInit, FlipIsSeen
<1>2. FlipIsSeen /\ [VetoNext]_vetoVars => FlipIsSeen'
    <2>1. SUFFICES ASSUME FlipIsSeen, [VetoNext]_vetoVars PROVE FlipIsSeen'
        OBVIOUS
    <2>2. ASSUME NEW s \in VetoSlots, AssertSlot(s) \/ ReleaseSlot(s)
          PROVE  FlipIsSeen'
        <3>1. UNCHANGED <<changed, actuator, waitsFor>> /\ flipper \subseteq flipper'
            BY <2>2 DEF AssertSlot, ReleaseSlot
        <3>2. (bits' # {}) = (bits # {}) \/ flipper' # {}
            BY <2>2 DEF AssertSlot, ReleaseSlot
        <3>. QED
            BY <2>1, <3>1, <3>2 DEF FlipIsSeen
    <2>3. ASSUME NEW s \in VetoSlots, Flipped(s) PROVE FlipIsSeen'
        BY <2>3 DEF FlipIsSeen, Flipped
    <2>4. CASE GateWait \/ GateLook \/ GateWoken
        BY <2>4 DEF FlipIsSeen, GateWait, GateLook, GateWoken
    <2>5. CASE Stamped \/ VTick \/ UNCHANGED vetoVars
        <3>1. UNCHANGED <<bits, flipper, changed, actuator, waitsFor>>
            BY <2>5 DEF Stamped, TakeWriteNow, StoreStamp, WriteFlag, PutValue, AskFresh,
                   TakeNow, LoadFresh, LoadStale, GetValue, VTick, gateVars, vetoVars
        <3>. QED
            BY <2>1, <3>1 DEF FlipIsSeen
    <2>. QED
        BY <2>1, <2>2, <2>3, <2>4, <2>5 DEF VetoNext, VetoGate
<1>. QED
    BY <1>1, <1>2, PTL DEF VetoSpec

----------------------------------------------------------------------------
(* The stamped value.                                                      *)

\* The numbers of the stamped value.
StampNumbers ==
    /\ stampAge0 \in 0..(VTickMod - 1) /\ realAge \in 0..VTickMod /\ valueAge \in 0..VTickMod
    /\ nowSkew \in 0..CallTicks /\ wAge \in [VWriters -> 0..CallTicks]
    /\ wtask \in [VWriters -> {"out", "now", "flag", "put"}]

\* A stamp has been stored.
Stored == written \/ \E w \in VWriters : wtask[w] \in {"flag", "put"}

\* The truncated age is the stamp's until it wraps; the value is no older than the
\* stamp, unless the stamp is ahead of it; a reader past the flag has seen a write;
\* and the value it was handed is recent.
StampInv ==
    /\ StampNumbers
    /\ realAge < VTickMod => stampAge0 = realAge
    /\ Stored => ahead \/ valueAge <= realAge
    /\ rtask \in {"now", "stamp", "some"} => written
    /\ FreshIsRecent

\* Nothing is written at first.
LEMMA StampInvInit == VetoInit => StampInv
BY VetoAssumption DEF VetoInit, StampInv, StampNumbers, Stored, FreshIsRecent

\* An age that is measured against a now the stamp may be ahead of.
LEMMA FreshStampIsYoung ==
    ASSUME StampNumbers, IsFresh, stampAge0 = realAge
    PROVE  realAge <= MaxAge + nowSkew
<1>. USE VetoAssumption
<1>1. CASE nowSkew <= realAge
    <2>1. (VTickMod + stampAge0 - nowSkew) % VTickMod = stampAge0 - nowSkew
        BY <1>1, WrappedDifference DEF StampNumbers
    <2>2. (VTickMod + stampAge0 - nowSkew) % VTickMod <= MaxAge
        BY DEF IsFresh
    <2>. QED
        BY <2>1, <2>2 DEF StampNumbers
<1>2. CASE nowSkew > realAge
    BY <1>2 DEF StampNumbers
<1>. QED
    BY <1>1, <1>2 DEF StampNumbers

\* Every step of a writer keeps StampInv.
LEMMA WriterKeepsStampInv ==
    ASSUME StampInv, NEW w \in VWriters,
           TakeWriteNow(w) \/ StoreStamp(w) \/ WriteFlag(w) \/ PutValue(w)
    PROVE  StampInv'
<1>. USE VetoAssumption
<1>1. CASE TakeWriteNow(w)
    <2>1. Stored' => Stored
        BY <1>1 DEF StampInv, StampNumbers, Stored, TakeWriteNow
    <2>. QED
        BY <1>1, <2>1 DEF StampInv, StampNumbers, FreshIsRecent, TakeWriteNow
<1>2. CASE StoreStamp(w)
    <2>1. StampNumbers'
        BY <1>2 DEF StampInv, StampNumbers, StoreStamp
    <2>. QED
        BY <1>2, <2>1 DEF StampInv, FreshIsRecent, StoreStamp
<1>3. CASE WriteFlag(w)
    <2>1. StampNumbers' /\ Stored
        BY <1>3 DEF StampInv, StampNumbers, Stored, WriteFlag
    <2>. QED
        BY <1>3, <2>1 DEF StampInv, FreshIsRecent, WriteFlag
<1>4. CASE PutValue(w)
    <2>1. StampNumbers' /\ valueAge' = 0
        BY <1>4 DEF StampInv, StampNumbers, PutValue
    <2>. QED
        BY <1>4, <2>1 DEF StampInv, StampNumbers, FreshIsRecent, PutValue
<1>. QED
    BY <1>1, <1>2, <1>3, <1>4

\* Every step of the reader keeps StampInv.
LEMMA ReaderKeepsStampInv ==
    ASSUME StampInv, AskFresh \/ TakeNow \/ LoadFresh \/ LoadStale \/ GetValue
    PROVE  StampInv'
<1>. USE VetoAssumption
<1>1. StampNumbers' /\ UNCHANGED <<stampAge0, realAge, valueAge, written, ahead>>
    BY DEF StampInv, StampNumbers, AskFresh, TakeNow, LoadFresh, LoadStale, GetValue
<1>2. Stored' <=> Stored
    BY DEF Stored, AskFresh, TakeNow, LoadFresh, LoadStale, GetValue
<1>3. rtask' \in {"now", "stamp", "some"} => written
    BY DEF StampInv, AskFresh, TakeNow, LoadFresh, LoadStale, GetValue
<1>4. FreshIsRecent'
    <2>1. CASE LoadFresh
        <3>1. Stored
            BY <2>1 DEF StampInv, Stored, LoadFresh
        <3>2. SUFFICES ASSUME ~torn', ~wrapped' PROVE valueAge <= MaxAge + nowSkew
            BY <2>1 DEF FreshIsRecent, LoadFresh
        <3>3. valueAge <= realAge
            BY <2>1, <3>1, <3>2 DEF StampInv, LoadFresh
        <3>4. stampAge0 = realAge
            <4>1. wrapped' = (realAge = VTickMod)
                BY <2>1 DEF LoadFresh
            <4>2. realAge # VTickMod
                BY <3>2, <4>1
            <4>. QED
                BY <4>2 DEF StampInv, StampNumbers
        <3>5. realAge <= MaxAge + nowSkew
            BY <2>1, <3>4, FreshStampIsYoung DEF StampInv, LoadFresh
        <3>. QED
            BY <3>3, <3>5 DEF StampInv, StampNumbers
    <2>2. CASE AskFresh \/ TakeNow \/ LoadStale \/ GetValue
        BY <2>2 DEF FreshIsRecent, AskFresh, TakeNow, LoadStale, GetValue
    <2>. QED
        BY <2>1, <2>2
<1>. QED
    BY <1>1, <1>2, <1>3, <1>4 DEF StampInv

\* Every step of the gate and the stamped value keeps StampInv.
LEMMA StampInvStep ==
    ASSUME StampInv, [VetoNext]_vetoVars
    PROVE  StampInv'
<1>. USE VetoAssumption
<1>1. CASE Stamped
    BY <1>1, WriterKeepsStampInv, ReaderKeepsStampInv DEF Stamped
<1>2. CASE VTick
    <2>1. /\ realAge' = IF realAge < VTickMod THEN realAge + 1 ELSE realAge
          /\ valueAge' = IF valueAge < VTickMod THEN valueAge + 1 ELSE valueAge
        BY <1>2 DEF VTick, Older
    <2>2. /\ stampAge0' \in 0..(VTickMod - 1)
          /\ stampAge0 + 1 < VTickMod => stampAge0' = stampAge0 + 1
        <3>1. stampAge0' = (stampAge0 + 1) % VTickMod /\ stampAge0 \in 0..(VTickMod - 1)
            BY <1>2 DEF VTick, StampInv, StampNumbers
        <3>. QED
            BY <3>1, WrapsBelow
    <2>3. StampNumbers'
        BY <1>2, <2>1, <2>2 DEF StampInv, StampNumbers, VTick
    <2>4. realAge' < VTickMod => stampAge0' = realAge'
        BY <2>1, <2>2 DEF StampInv, StampNumbers
    <2>5. Stored' <=> Stored
        BY <1>2 DEF Stored, VTick
    <2>6. Stored => ahead' \/ valueAge' <= realAge'
        BY <1>2, <2>1 DEF StampInv, StampNumbers, VTick
    <2>7. FreshIsRecent'
        BY <1>2, <2>1 DEF StampInv, StampNumbers, FreshIsRecent, VTick
    <2>. QED
        BY <1>2, <2>3, <2>4, <2>5, <2>6, <2>7 DEF StampInv, VTick
<1>3. CASE VetoGate \/ UNCHANGED vetoVars
    <2>1. UNCHANGED stampVars
        BY <1>3 DEF VetoGate, AssertSlot, ReleaseSlot, Flipped, GateWait, GateLook,
               GateWoken, vetoVars
    <2>. QED
        BY <2>1 DEF StampInv, StampNumbers, Stored, FreshIsRecent, stampVars
<1>. QED
    BY <1>1, <1>2, <1>3 DEF VetoNext

\* A value read_fresh hands out was put within max_age, for any number of writers,
\* any width of the ticks and any max_age.
THEOREM FreshIsRecentHolds == VetoSpec => []FreshIsRecent
<1>1. StampInv => FreshIsRecent
    BY DEF StampInv
<1>. QED
    BY <1>1, StampInvInit, StampInvStep, PTL DEF VetoSpec

\* What the type invariant adds to StampInv.
VetoRest ==
    /\ bits \subseteq VetoSlots /\ flipper \subseteq VetoSlots
    /\ actuator \in {"none", "work", "look", "park"}
    /\ rtask \in {"none", "out", "now", "stamp", "some"}

VetoFlags ==
    /\ changed \in BOOLEAN /\ waitsFor \in BOOLEAN /\ written \in BOOLEAN
    /\ ahead \in BOOLEAN /\ torn \in BOOLEAN /\ wrapped \in BOOLEAN

\* The flags stay Boolean.
LEMMA VetoFlagsStep ==
    ASSUME VetoFlags, [VetoNext]_vetoVars
    PROVE  VetoFlags'
<1>1. CASE VetoGate
    BY <1>1, Zenon DEF VetoFlags, VetoGate, AssertSlot, ReleaseSlot, Flipped, GateWait,
       GateLook, GateWoken, stampVars
<1>2. CASE LoadFresh
    <2>1. wrapped' \in BOOLEAN
        BY <1>2 DEF LoadFresh
    <2>. QED
        BY <1>2, <2>1, Zenon DEF VetoFlags, LoadFresh, gateVars
<1>3. ASSUME NEW w \in VWriters,
             TakeWriteNow(w) \/ StoreStamp(w) \/ WriteFlag(w) \/ PutValue(w)
      PROVE  VetoFlags'
    BY <1>3, Zenon DEF VetoFlags, TakeWriteNow, StoreStamp, WriteFlag, PutValue, gateVars
<1>4. CASE AskFresh \/ TakeNow \/ LoadStale \/ GetValue \/ VTick \/ UNCHANGED vetoVars
    BY <1>4, Zenon DEF VetoFlags, AskFresh, TakeNow, LoadStale, GetValue, VTick, gateVars,
       stampVars, vetoVars
<1>. QED
    BY <1>1, <1>2, <1>3, <1>4 DEF VetoNext, Stamped

\* Every step keeps VetoRest.
LEMMA VetoRestStep ==
    ASSUME VetoRest, [VetoNext]_vetoVars
    PROVE  VetoRest'
<1>1. CASE VetoGate
    BY <1>1 DEF VetoRest, VetoGate, AssertSlot, ReleaseSlot, Flipped, GateWait, GateLook,
           GateWoken, stampVars
<1>2. CASE Stamped \/ VTick
    BY <1>2 DEF VetoRest, Stamped, TakeWriteNow, StoreStamp, WriteFlag, PutValue, AskFresh,
           TakeNow, LoadFresh, LoadStale, GetValue, VTick, gateVars
<1>3. CASE UNCHANGED vetoVars
    BY <1>3 DEF VetoRest, gateVars, stampVars, vetoVars
<1>. QED
    BY <1>1, <1>2, <1>3 DEF VetoNext

\* The type invariant of the veto gate and the stamped value.
LEMMA VetoTypeHolds == VetoInit /\ [][VetoNext]_vetoVars => []VetoTypeOK
<1>1. VetoInit => VetoRest /\ VetoFlags
    <2>1. SUFFICES ASSUME VetoInit PROVE VetoRest /\ VetoFlags
        OBVIOUS
    <2>2. VetoFlags
        BY <2>1, Zenon DEF VetoInit, VetoFlags
    <2>3. VetoRest
        BY <2>1 DEF VetoInit, VetoRest
    <2>. QED
        BY <2>2, <2>3
<1>2. StampInv /\ VetoRest /\ VetoFlags => VetoTypeOK
    <2>1. SUFFICES ASSUME StampInv, VetoRest, VetoFlags PROVE VetoTypeOK
        OBVIOUS
    <2>2. {changed, waitsFor, written, ahead, torn, wrapped} \subseteq BOOLEAN
        BY <2>1, Zenon DEF VetoFlags
    <2>. QED
        BY <2>1, <2>2 DEF StampInv, StampNumbers, VetoRest, VetoTypeOK
<1>. QED
    BY <1>1, <1>2, StampInvInit, StampInvStep, VetoRestStep, VetoFlagsStep, PTL

----------------------------------------------------------------------------
(* The liveness monitor.                                                   *)

\* A look at a node sees a beat or a write, or neither since the last stamp.
Unseen == ~pendingBeat /\ ~WriteSeen

\* The numbers the monitor keeps.
MonNumbers ==
    /\ stampAge \in 0..(TickMod - 1)
    /\ strikes \in 0..Window /\ sleep \in 0..Budget /\ quiet \in 0..QuietCap

\* The stamp is never older than the silence.
StampIsYounger == up /\ Unseen => stampAge <= quiet

\* A beat is looked at before a budget has gone; from then on the stamp runs
\* with the silence, and each sweep that finds it old adds a strike.
SweepsInTime ==
    up /\ quiet < TickMod =>
        /\ ~Unseen => quiet + sleep <= Budget
        /\ Unseen => quiet <= stampAge + Budget
        /\ Unseen /\ strikes < Window
              => stampAge + sleep <= Budget + (strikes + 1) * Half

MonInv == MonNumbers /\ StampIsYounger /\ SweepsInTime

\* The sleeps the monitor chooses between.
LEMMA SleepBounds ==
    /\ Budget \in Nat \ {0} /\ Window \in Nat \ {0} /\ TickMod \in Nat /\ TickMod > 1
    /\ Half \in 1..Budget
    /\ Max({Budget \div READY_PROBE_DIVISOR, 1}) \in 1..Half
<1>1. Budget \in Nat \ {0} /\ Window \in Nat \ {0} /\ TickMod \in Nat
    BY MonitorAssumption
<1>2. TickMod > 1
    <2>1. (2 + Window) * Budget \in Nat /\ (2 + Window) * Budget >= 1
        BY <1>1
    <2>. QED
        BY <1>1, <2>1, MonitorAssumption
<1>3. Budget \div 2 \in Nat /\ Budget \div 2 <= Budget
    BY <1>1
<1>4. Budget \div 8 \in Nat /\ Budget \div 8 <= Budget \div 2
    BY <1>1
<1>5. Half = IF Budget \div 2 >= 1 THEN Budget \div 2 ELSE 1
    BY <1>3, MaxOfTwo DEF Half
<1>6. Max({Budget \div 8, 1}) = IF Budget \div 8 >= 1 THEN Budget \div 8 ELSE 1
    BY <1>4, MaxOfTwo
<1>. QED
    BY <1>1, <1>2, <1>3, <1>4, <1>5, <1>6 DEF READY_PROBE_DIVISOR

\* Each strike is worth half a budget.
LEMMA HalfSteps ==
    /\ \A n \in Nat : n * Half \in Nat /\ (n + 1) * Half = n * Half + Half
    /\ \A n \in 0..Window : n * Half <= Window * Half
BY SleepBounds

\* The node's own steps.
LEMMA NodeMonInv ==
    ASSUME MonInv, StartPoliced \/ StopPoliced \/ Beat \/ ObservedWrite \/ WaitHealth
    PROVE  MonInv'
<1>. USE SleepBounds DEF QuietCap
<1>1. CASE StartPoliced
    <2>1. /\ Unseen' /\ stampAge' = 0 /\ quiet' = 0
          /\ UNCHANGED <<strikes, sleep>>
        BY <1>1 DEF StartPoliced, Unseen, WriteSeen
    <2>2. (strikes + 1) * Half \in Nat
        BY HalfSteps DEF MonInv, MonNumbers
    <2>. QED
        BY <2>1, <2>2 DEF MonInv, MonNumbers, StampIsYounger, SweepsInTime
<1>2. CASE StopPoliced
    BY <1>2 DEF MonInv, MonNumbers, StampIsYounger, SweepsInTime, StopPoliced
<1>3. CASE Beat \/ ObservedWrite
    <2>1. ~Unseen' /\ quiet' = 0 /\ UNCHANGED <<stampAge, strikes, sleep>>
        BY <1>3 DEF Beat, ObservedWrite, Unseen, WriteSeen
    <2>. QED
        BY <2>1 DEF MonInv, MonNumbers, StampIsYounger, SweepsInTime
<1>4. CASE WaitHealth
    BY <1>4 DEF MonInv, MonNumbers, StampIsYounger, SweepsInTime, Unseen, WriteSeen,
           WaitHealth
<1>. QED
    BY <1>1, <1>2, <1>3, <1>4

\* A tick ages stamp and silence alike and brings the sweep nearer.
LEMMA TickMonInv ==
    ASSUME MonInv, Tick
    PROVE  MonInv'
<1>. USE SleepBounds DEF QuietCap
<1>1. quiet' = IF quiet + 1 <= TickMod THEN quiet + 1 ELSE TickMod
    BY MinOfTwo DEF MonInv, MonNumbers, Tick
<1>2. stampAge' = IF stampAge + 1 = TickMod THEN 0 ELSE stampAge + 1
    BY NextTick DEF MonInv, MonNumbers, Tick
<1>3. /\ Unseen' <=> Unseen
      /\ sleep \in Nat /\ sleep > 0 /\ sleep' = sleep - 1
      /\ UNCHANGED <<up, strikes>>
    BY DEF MonInv, MonNumbers, Tick, Unseen, WriteSeen
<1>4. MonNumbers' /\ StampIsYounger'
    BY <1>1, <1>2, <1>3 DEF MonInv, MonNumbers, StampIsYounger
<1>5. SweepsInTime'
    <2>1. SUFFICES ASSUME up, quiet + 1 < TickMod PROVE SweepsInTime'
        BY <1>1, <1>3 DEF MonInv, MonNumbers, SweepsInTime
    <2>2. (strikes + 1) * Half \in Nat
        BY HalfSteps DEF MonInv, MonNumbers
    <2>. QED
        BY <1>1, <1>2, <1>3, <2>1, <2>2
           DEF MonInv, MonNumbers, StampIsYounger, SweepsInTime
<1>. QED
    BY <1>4, <1>5 DEF MonInv

\* A sweep stamps what it saw and counts a strike when that is nothing.
LEMMA SweepMonInv ==
    ASSUME MonInv, SweepDown \/ SweepStale \/ SweepFresh
    PROVE  MonInv'
<1>. USE SleepBounds DEF QuietCap
<1>1. CASE SweepDown
    <2>1. ~up' /\ sleep' = Budget /\ strikes' = 0 /\ UNCHANGED <<stampAge, quiet>>
        BY <1>1 DEF SweepDown, SweepSleep, TicksUntilCheck
    <2>. QED
        BY <2>1 DEF MonInv, MonNumbers, StampIsYounger, SweepsInTime
<1>2. ASSUME SweepStale \/ SweepFresh PROVE MonInv'
    <2>. DEFINE stamp == IF WriteSeen THEN 0 ELSE TicksSinceBeat
                sl == TicksUntilCheck(TRUE, ready \/ WriteSeen, stamp)
    <2>1. /\ up /\ up' = up /\ sleep = 0 /\ quiet' = quiet
          /\ stampAge' = stamp /\ sleep' = sl /\ Unseen'
        <3>1. up /\ sleep = 0 /\ SweepSleep(TRUE)
            BY <1>2 DEF SweepStale, SweepFresh, IsStale
        <3>2. /\ up' = up /\ quiet' = quiet /\ stampAge' = stamp /\ sleep' = sl
              /\ pendingBeat' = FALSE /\ UNCHANGED <<observed, writes>>
              /\ writeMark' = IF observed THEN writes ELSE writeMark
            BY <3>1 DEF SweepSleep
        <3>3. Unseen'
            BY <3>2 DEF Unseen, WriteSeen
        <3>. QED
            BY <3>1, <3>2, <3>3
    <2>2. /\ stamp \in 0..(TickMod - 1)
          /\ Unseen => stamp = stampAge
          /\ ~Unseen => stamp = 0
        BY DEF MonInv, MonNumbers, Unseen, TicksSinceBeat
    <2>3. /\ sl \in 0..Budget
          /\ stamp >= Budget => sl <= Half
          /\ stamp <= Budget => stamp + sl <= Budget + Half
        BY <2>2, SleepBounds DEF TicksUntilCheck
    <2>. HIDE DEF stamp, sl
    <2>4. /\ strikes' \in 0..Window
          /\ \/ strikes' = 0 /\ stamp <= Budget
             \/ strikes' = strikes + 1 /\ stamp > Budget /\ Unseen
             \/ strikes' = Window
        <3>1. CASE SweepFresh
            <4>1. stamp <= Budget
                BY <3>1 DEF SweepFresh, IsStale, stamp, MonInv, MonNumbers,
                       TicksSinceBeat
            <4>. QED
                BY <3>1, <4>1 DEF SweepFresh
        <3>2. CASE SweepStale
            <4>1. strikes' = IF strikes + 1 <= Window THEN strikes + 1 ELSE Window
                BY <3>2, MinOfTwo DEF SweepStale, MonInv, MonNumbers
            <4>2. stamp > Budget /\ Unseen
                BY <3>2 DEF SweepStale, IsStale, stamp, Unseen, TicksSinceBeat
            <4>. QED
                BY <4>1, <4>2 DEF MonInv, MonNumbers
        <3>. QED
            BY <1>2, <3>1, <3>2
    <2>5. MonNumbers' /\ StampIsYounger'
        BY <2>1, <2>2, <2>3, <2>4 DEF MonInv, MonNumbers, StampIsYounger
    <2>6. SweepsInTime'
        <3>1. SUFFICES ASSUME quiet < TickMod
                       PROVE  /\ quiet <= stamp + Budget
                              /\ strikes' < Window
                                    => stamp + sl <= Budget + (strikes' + 1) * Half
            BY <2>1 DEF SweepsInTime
        <3>2. quiet <= stamp + Budget
            BY <2>1, <2>2, <3>1 DEF MonInv, MonNumbers, SweepsInTime
        <3>3. CASE strikes' = 0 /\ stamp <= Budget
            <4>1. (strikes' + 1) * Half = Half
                BY <3>3
            <4>. QED
                BY <2>3, <3>2, <3>3, <4>1
        <3>4. CASE strikes' = strikes + 1 /\ stamp > Budget /\ Unseen /\ strikes' < Window
            <4>1. strikes \in Nat /\ strikes < Window
                BY <3>4 DEF MonInv, MonNumbers
            <4>2. (strikes' + 1) * Half = (strikes + 1) * Half + Half
                BY <3>4, <4>1, HalfSteps
            <4>3. (strikes + 1) * Half \in Nat
                BY <4>1, HalfSteps
            <4>4. stamp <= Budget + (strikes + 1) * Half
                BY <2>1, <2>2, <3>1, <3>4, <4>1, <4>3 DEF MonInv, MonNumbers, SweepsInTime
            <4>. QED
                BY <2>2, <2>3, <3>2, <3>4, <4>2, <4>3, <4>4
        <3>. QED
            BY <2>4, <3>2, <3>3, <3>4
    <2>. QED
        BY <2>5, <2>6 DEF MonInv
<1>. QED
    BY <1>1, <1>2

\* The invariant holds in every behaviour.
LEMMA MonInvHolds == MonSpec => []MonInv
<1>1. MonInit => MonInv
    BY SleepBounds DEF MonInit, MonInv, MonNumbers, StampIsYounger, SweepsInTime,
       QuietCap
<1>2. MonInv /\ UNCHANGED monVars => MonInv'
    BY DEF MonInv, MonNumbers, StampIsYounger, SweepsInTime, Unseen, WriteSeen, monVars
<1>3. MonInv /\ [MonNext]_monVars => MonInv'
    BY <1>2, NodeMonInv, TickMonInv, SweepMonInv DEF MonNext
<1>. QED
    BY <1>1, <1>3, PTL DEF MonSpec

\* No false alarm and no stall missed: a strike is for a node that has been quiet
\* for longer than its budget, and one that stays quiet for longer than the
\* monitor's latency has all its strikes, for every budget and every window.
THEOREM MonitorIsHonestHolds == MonSpec => MonitorIsHonest
<1>1. MonInv /\ [MonNext]_monVars => [strikes' > strikes => quiet > Budget]_monVars
    <2>1. SUFFICES ASSUME MonInv, MonNext, strikes' > strikes PROVE quiet > Budget
        OBVIOUS
    <2>2. strikes \in Nat
        BY <2>1 DEF MonInv, MonNumbers
    <2>3. SweepStale
        <3>1. CASE \/ StartPoliced \/ StopPoliced \/ Beat \/ ObservedWrite \/ Tick
                   \/ WaitHealth
            <4>1. strikes' = strikes
                BY <3>1 DEF StartPoliced, StopPoliced, Beat, ObservedWrite, Tick,
                       WaitHealth
            <4>. QED
                BY <2>1, <2>2, <4>1
        <3>2. CASE SweepDown \/ SweepFresh
            <4>1. strikes' = 0
                BY <3>2 DEF SweepDown, SweepFresh
            <4>. QED
                BY <2>1, <2>2, <4>1
        <3>. QED
            BY <2>1, <3>1, <3>2 DEF MonNext
    <2>. QED
        BY <2>1, <2>3, SleepBounds DEF MonInv, MonNumbers, StampIsYounger, Unseen,
               SweepStale, IsStale, TicksSinceBeat, QuietCap
<1>2. MonInv => StallIsReported
    <2>1. SUFFICES ASSUME MonInv, up, ReportBound < quiet, quiet < TickMod,
                          strikes < Window
                   PROVE  FALSE
        BY SleepBounds DEF MonInv, MonNumbers, StallIsReported
    <2>2. /\ (strikes + 1) * Half \in Nat /\ Window * Half \in Nat
          /\ (strikes + 1) * Half <= Window * Half
        BY <2>1, HalfSteps, SleepBounds DEF MonInv, MonNumbers
    <2>3. stampAge + sleep <= Budget + (strikes + 1) * Half /\ quiet <= stampAge + Budget
        BY <2>1, <2>2, SleepBounds DEF MonInv, MonNumbers, SweepsInTime, ReportBound,
               QuietCap
    <2>. QED
        BY <2>1, <2>2, <2>3, SleepBounds DEF MonInv, MonNumbers, ReportBound, QuietCap
<1>. QED
    BY <1>1, <1>2, MonInvHolds, PTL DEF MonSpec, MonitorIsHonest, StrikeIsReal

\* What the type invariant adds to MonNumbers: the declaration and the flags ...
MonFlags ==
    /\ observed \in BOOLEAN /\ up \in BOOLEAN /\ pendingBeat \in BOOLEAN
    /\ ready \in BOOLEAN

\* ... and the observed writes and the queue of health events.
MonRest ==
    /\ writes \in 0..(WriteMod - 1) /\ writeMark \in 0..(WriteMod - 1)
    /\ health \in Seq({"Stale", "Recovered"}) /\ Len(health) <= HealthCap

\* The flags stay Boolean.
LEMMA MonFlagsStep ==
    ASSUME MonFlags, [MonNext]_monVars
    PROVE  MonFlags'
<1>1. CASE StartPoliced \/ StopPoliced \/ Beat \/ ObservedWrite \/ Tick \/ WaitHealth
    BY <1>1, Zenon DEF MonFlags, StartPoliced, StopPoliced, Beat, ObservedWrite, Tick,
       WaitHealth
<1>2. ASSUME NEW b \in BOOLEAN, SweepSleep(b) PROVE MonFlags'
    <2>1. WriteSeen \in BOOLEAN
        BY DEF WriteSeen
    <2>2. /\ UNCHANGED <<observed, up>>
          /\ \/ pendingBeat' = FALSE /\ ready' = (ready \/ WriteSeen)
             \/ UNCHANGED <<pendingBeat, ready>>
        BY <1>2, Zenon DEF SweepSleep
    <2>3. (ready \/ WriteSeen) \in BOOLEAN
        OBVIOUS
    <2>. QED
        BY <2>2, <2>3, Zenon DEF MonFlags
<1>3. CASE UNCHANGED monVars
    BY <1>3, Zenon DEF MonFlags, monVars
<1>. QED
    BY <1>1, <1>2, <1>3 DEF MonNext, SweepDown, SweepStale, SweepFresh

\* Every step keeps MonRest: a full queue takes no event.
LEMMA MonRestStep ==
    ASSUME MonRest, [MonNext]_monVars
    PROVE  MonRest'
<1>0. /\ WriteMod \in Nat \ {0} /\ HealthCap \in Nat
      /\ health \in Seq({"Stale", "Recovered"}) /\ Len(health) \in Nat
    BY MonitorAssumption DEF MonRest
<1>1. CASE StartPoliced \/ StopPoliced \/ Beat \/ Tick \/ UNCHANGED monVars
    BY <1>1 DEF MonRest, StartPoliced, StopPoliced, Beat, Tick, monVars
<1>2. CASE ObservedWrite
    <2>1. writes' \in 0..(WriteMod - 1)
        BY <1>0, <1>2, WrapsBelow DEF MonRest, ObservedWrite
    <2>. QED
        BY <1>2, <2>1 DEF MonRest, ObservedWrite
<1>3. CASE WaitHealth
    <2>1. /\ health' \in Seq({"Stale", "Recovered"})
          /\ Len(health') = Len(health) - 1
        BY <1>0, <1>3 DEF WaitHealth
    <2>. QED
        BY <1>0, <1>3, <2>1 DEF MonRest, WaitHealth
<1>4. ASSUME NEW b \in BOOLEAN, SweepSleep(b)
      PROVE  UNCHANGED writes /\ writeMark' \in 0..(WriteMod - 1)
    BY <1>4 DEF MonRest, SweepSleep
<1>5. ASSUME NEW k \in {"Stale", "Recovered"}, health' = Emit(k) \/ health' = health
      PROVE  health' \in Seq({"Stale", "Recovered"}) /\ Len(health') <= HealthCap
    <2>1. /\ Append(health, k) \in Seq({"Stale", "Recovered"})
          /\ Len(Append(health, k)) = Len(health) + 1
        BY <1>0
    <2>. QED
        BY <1>0, <1>5, <2>1 DEF MonRest, Emit
<1>6. CASE SweepDown \/ SweepStale \/ SweepFresh
    <2>1. /\ \E b \in BOOLEAN : SweepSleep(b)
          /\ \E k \in {"Stale", "Recovered"} : health' = Emit(k) \/ health' = health
        BY <1>6, Zenon DEF SweepDown, SweepStale, SweepFresh
    <2>. QED
        BY <1>4, <1>5, <2>1 DEF MonRest
<1>. QED
    BY <1>1, <1>2, <1>3, <1>6 DEF MonNext

\* The type invariant of the monitor: the strikes never pass the window, and the
\* queue of health events never its capacity.
LEMMA MonTypeHolds == MonInit /\ [][MonNext]_monVars => []MonTypeOK
<1>1. MonInit => MonFlags /\ MonRest
    <2>1. SUFFICES ASSUME MonInit PROVE MonFlags /\ MonRest
        OBVIOUS
    <2>2. MonFlags
        BY <2>1, Zenon DEF MonInit, MonFlags
    <2>3. MonRest
        BY <2>1, MonitorAssumption DEF MonInit, MonRest
    <2>. QED
        BY <2>2, <2>3
<1>2. MonInv /\ MonFlags /\ MonRest => MonTypeOK
    <2>1. SUFFICES ASSUME MonInv, MonFlags, MonRest PROVE MonTypeOK
        OBVIOUS
    <2>2. {observed, up, pendingBeat, ready} \subseteq BOOLEAN
        BY <2>1, Zenon DEF MonFlags
    <2>. QED
        BY <2>1, <2>2 DEF MonInv, MonNumbers, MonRest, MonTypeOK
<1>. QED
    BY <1>1, <1>2, MonInvHolds, MonFlagsStep, MonRestStep, PTL DEF MonSpec
=============================================================================
