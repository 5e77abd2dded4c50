--------------------------- MODULE SharingProofs ---------------------------
(***************************************************************************)
(* What tasks share: a Backed signal, whose producer retires; a budget,    *)
(* whose allocator divides it while its holders come and go; and a leased  *)
(* value, which is drained before its producer replaces it.                *)
(***************************************************************************)
EXTENDS Backed, Budget, Leased, Induction

----------------------------------------------------------------------------
(* The Backed signal.                                                      *)

\* The readers between admit_reader and the drop of their guard.
Inside == {r \in Readers : rd[r] # "out"}

\* openers counts them.
OpenersCounted ==
    /\ rd \in [Readers -> {"out", "ensure", "ask", "wait", "read"}]
    /\ openers = Cardinality(Inside)

\* Which readiness goes with which step of the producer.
ServesAt ==
    /\ backer = "off" <=> serves = "down"
    /\ backer \in {"init", "last", "retire", "retired"} => serves = "up"

\* Until somebody restarts the producer, its retirement is asked for once, and
\* from its last look on no reader is in.
RetireOnce ==
    /\ ctl \in Seq({"activate", "retire", "restart"})
    /\ again \in Nat
    /\ again = 0 =>
        /\ \A i \in 1..Len(ctl) : ctl[i] # "restart"
        /\ \A i \in 1..Len(ctl) : ctl[i] = "retire" => backer = "retired"
        /\ \A i, j \in 1..Len(ctl) :
              ctl[i] = "retire" /\ ctl[j] = "retire" => i = j
        /\ backer \in {"retire", "retired"} => \A r \in Readers : rd[r] # "read"

BackedInv == OpenersCounted /\ ServesAt /\ RetireOnce

\* The readers that are in can be counted.
LEMMA InsideCounted ==
    /\ IsFiniteSet(Inside) /\ Cardinality(Inside) \in Nat
    /\ Cardinality(Inside) <= Cardinality(Readers)
    /\ Cardinality(Inside) = 0 <=> Inside = {}
<1>1. IsFiniteSet(Inside) /\ Cardinality(Inside) <= Cardinality(Readers)
    BY BackedAssumption, FS_Subset DEF Inside
<1>. QED
    BY <1>1, FS_CardinalityType, FS_EmptySet

\* admit_reader and the guard's drop move the count with the reader.
LEMMA CountMoves ==
    ASSUME BackedInv, NEW r \in Readers, Admit(r) \/ DropOpen(r)
    PROVE  OpenersCounted'
<1>1. CASE Admit(r)
    <2>1. rd[r] = "out" /\ rd' = [rd EXCEPT ![r] = "ensure"] /\ openers' = openers + 1
        BY <1>1 DEF Admit, ReadGo
    <2>2. Inside' = Inside \union {r} /\ r \notin Inside
        BY <2>1 DEF BackedInv, OpenersCounted, Inside
    <2>3. Cardinality(Inside') = Cardinality(Inside) + 1
        BY <2>2, InsideCounted, FS_AddElement
    <2>. QED
        BY <2>1, <2>3 DEF BackedInv, OpenersCounted
<1>2. CASE DropOpen(r)
    <2>1. rd[r] # "out" /\ rd' = [rd EXCEPT ![r] = "out"] /\ openers' = openers - 1
        BY <1>2 DEF DropOpen, ReadGo
    <2>2. Inside' = Inside \ {r} /\ r \in Inside
        BY <2>1 DEF BackedInv, OpenersCounted, Inside
    <2>3. Cardinality(Inside') = Cardinality(Inside) - 1
        BY <2>2, InsideCounted, FS_RemoveElement
    <2>. QED
        BY <2>1, <2>3 DEF BackedInv, OpenersCounted
<1>. QED
    BY <1>1, <1>2

\* The other steps of a reader leave it in.
LEMMA CountStays ==
    ASSUME BackedInv, NEW r \in Readers, BackedReader(r)
    PROVE  OpenersCounted'
<1>1. \/ rd' = rd
      \/ \E to \in {"ensure", "ask", "wait", "read"} :
            rd[r] # "out" /\ rd' = [rd EXCEPT ![r] = to]
    BY DEF BackedReader, Ensure, AskActivate, WaitServing, SignalWatch, ReadGo
<1>2. rd' \in [Readers -> {"out", "ensure", "ask", "wait", "read"}] /\ Inside' = Inside
    BY <1>1 DEF BackedInv, OpenersCounted, Inside
<1>3. openers' = openers
    BY DEF BackedReader, Ensure, AskActivate, WaitServing, SignalWatch
<1>. QED
    BY <1>2, <1>3 DEF BackedInv, OpenersCounted

\* A reader gets in only past a producer that serves.
LEMMA ReaderBackedInv ==
    ASSUME BackedInv, NEW r \in Readers, Admit(r) \/ BackedReader(r) \/ DropOpen(r)
    PROVE  BackedInv'
<1>1. UNCHANGED <<serves, backer, again>>
    BY DEF Admit, BackedReader, Ensure, AskActivate, WaitServing, SignalWatch, DropOpen,
           ReadGo
<1>2. \A q \in Readers : rd'[q] = "read" => rd[q] = "read" \/ serves = "ready"
    BY DEF Admit, BackedReader, Ensure, AskActivate, WaitServing, SignalWatch, DropOpen,
           ReadGo, BackedInv, OpenersCounted, Serving
<1>3. ctl' = ctl \/ ctl' = Append(ctl, "activate")
    BY DEF Admit, BackedReader, Ensure, AskActivate, WaitServing, SignalWatch, DropOpen
<1>4. RetireOnce'
    <2>1. \A i \in 1..Len(ctl') :
              ctl'[i] = "activate" \/ (i \in 1..Len(ctl) /\ ctl'[i] = ctl[i])
        BY <1>3 DEF BackedInv, RetireOnce
    <2>2. ctl' \in Seq({"activate", "retire", "restart"})
        BY <1>3 DEF BackedInv, RetireOnce
    <2>. QED
        BY <1>1, <1>2, <2>1, <2>2 DEF BackedInv, RetireOnce, ServesAt
<1>5. ServesAt'
    BY <1>1 DEF BackedInv, ServesAt
<1>. QED
    BY <1>4, <1>5, CountMoves, CountStays DEF BackedInv

\* The producer retires after a look at the count with READY cleared.
LEMMA ProducerBackedInv ==
    ASSUME BackedInv, Producer
    PROVE  BackedInv'
<1>1. UNCHANGED <<openers, rd, again>>
    BY DEF Producer, ProducerReady, UnwatchedLook, UnwatchedWoken, UnwatchedReset, CooldownCut,
           CooldownOver, RetireClear, RetireLook, RetireAsk, ProdGo
<1>2. OpenersCounted'
    <2>1. Inside' = Inside
        BY <1>1 DEF Inside
    <2>. QED
        BY <1>1, <2>1 DEF BackedInv, OpenersCounted
<1>3. ServesAt'
    BY DEF BackedInv, ServesAt, Producer, ProducerReady, UnwatchedLook, UnwatchedWoken, UnwatchedReset,
           CooldownCut, CooldownOver, RetireClear, RetireLook, RetireAsk, ProdGo
<1>4. CASE RetireAsk
    <2>1. backer = "retire" /\ backer' = "retired" /\ ctl' = Append(ctl, "retire")
        BY <1>4 DEF RetireAsk, ProdGo
    <2>2. /\ ctl' \in Seq({"activate", "retire", "restart"})
          /\ Len(ctl') = Len(ctl) + 1 /\ ctl'[Len(ctl) + 1] = "retire"
          /\ \A i \in 1..Len(ctl) : ctl'[i] = ctl[i]
        BY <2>1 DEF BackedInv, RetireOnce
    <2>3. again = 0 => \A i \in 1..Len(ctl) : ctl[i] # "retire"
        BY <2>1 DEF BackedInv, RetireOnce
    <2>4. RetireOnce'
        BY <1>1, <2>1, <2>2, <2>3 DEF BackedInv, RetireOnce
    <2>. QED
        BY <1>2, <1>3, <2>4 DEF BackedInv
<1>5. CASE ~RetireAsk
    <2>1. ctl' = ctl /\ backer # "retired" /\ backer' # "retired"
        BY <1>5 DEF Producer, ProducerReady, UnwatchedLook, UnwatchedWoken, UnwatchedReset, CooldownCut,
               CooldownOver, RetireClear, RetireLook, ProdGo
    <2>2. backer' = "retire" => Inside = {}
        <3>1. backer' = "retire" => openers = 0
            BY <1>5 DEF Producer, ProducerReady, UnwatchedLook, UnwatchedWoken, UnwatchedReset,
                   CooldownCut, CooldownOver, RetireClear, RetireLook, ProdGo
        <3>. QED
            BY <3>1, InsideCounted DEF BackedInv, OpenersCounted
    <2>3. RetireOnce'
        BY <1>1, <2>1, <2>2 DEF BackedInv, RetireOnce, Inside
    <2>. QED
        BY <1>2, <1>3, <2>3 DEF BackedInv
<1>. QED
    BY <1>4, <1>5

\* The supervisor takes one command off the mailbox.
LEMMA ControlBackedInv ==
    ASSUME BackedInv, HandleControl
    PROVE  BackedInv'
<1>1. UNCHANGED <<openers, rd, again>> /\ ctl # <<>> /\ ctl' = Tail(ctl)
    BY DEF HandleControl
<1>2. OpenersCounted'
    <2>1. Inside' = Inside
        BY <1>1 DEF Inside
    <2>. QED
        BY <1>1, <2>1 DEF BackedInv, OpenersCounted
<1>3. /\ ctl' \in Seq({"activate", "retire", "restart"})
      /\ Len(ctl') = Len(ctl) - 1 /\ Len(ctl) \in Nat /\ Len(ctl) > 0
      /\ \A i \in 1..Len(ctl') : i + 1 \in 1..Len(ctl) /\ ctl'[i] = ctl[i + 1]
      /\ Head(ctl) = ctl[1]
    BY <1>1 DEF BackedInv, RetireOnce
<1>4. ServesAt'
    BY DEF BackedInv, ServesAt, HandleControl, Running
<1>5. RetireOnce'
    <2>1. SUFFICES ASSUME again = 0
                   PROVE  /\ \A i \in 1..Len(ctl') : ctl'[i] # "restart"
                          /\ \A i \in 1..Len(ctl') :
                                ctl'[i] = "retire" => backer' = "retired"
                          /\ \A i, j \in 1..Len(ctl') :
                                ctl'[i] = "retire" /\ ctl'[j] = "retire" => i = j
                          /\ backer' \in {"retire", "retired"}
                                => \A r \in Readers : rd[r] # "read"
        BY <1>1, <1>3 DEF BackedInv, RetireOnce
    <2>2. \A i \in 1..Len(ctl') : ctl'[i] # "restart"
        BY <1>3, <2>1 DEF BackedInv, RetireOnce
    <2>3. \A i, j \in 1..Len(ctl') : ctl'[i] = "retire" /\ ctl'[j] = "retire" => i = j
        BY <1>3, <2>1 DEF BackedInv, RetireOnce
    <2>4. CASE Head(ctl) = "retire"
        <3>1. \A i \in 1..Len(ctl') : ctl'[i] # "retire"
            BY <1>3, <2>1, <2>4 DEF BackedInv, RetireOnce
        <3>2. backer' = "off"
            BY <2>4 DEF HandleControl
        <3>. QED
            BY <2>2, <2>3, <3>1, <3>2
    <2>5. CASE Head(ctl) = "activate"
        <3>1. backer' = backer \/ (serves = "down" /\ backer' = "init")
            BY <2>5 DEF HandleControl, Running
        <3>2. \A i \in 1..Len(ctl') : ctl'[i] = "retire" => backer = "retired"
            BY <1>3, <2>1 DEF BackedInv, RetireOnce
        <3>. QED
            BY <2>1, <2>2, <2>3, <3>1, <3>2 DEF BackedInv, RetireOnce, ServesAt
    <2>. QED
        BY <1>3, <2>1, <2>4, <2>5 DEF BackedInv, RetireOnce
<1>. QED
    BY <1>2, <1>4, <1>5 DEF BackedInv

\* The invariant holds in every behaviour.
LEMMA BackedInvHolds == BackedInit /\ [][BackedNext]_backedVars => []BackedInv
<1>1. BackedInit => BackedInv
    <2>1. SUFFICES ASSUME BackedInit PROVE BackedInv
        OBVIOUS
    <2>2. Inside = {}
        BY <2>1 DEF BackedInit, Inside
    <2>3. Cardinality(Inside) = 0
        BY <2>2, FS_EmptySet
    <2>4. OpenersCounted
        BY <2>1, <2>3 DEF BackedInit, OpenersCounted
    <2>. QED
        BY <2>1, <2>4 DEF BackedInit, BackedInv, ServesAt, RetireOnce
<1>2. BackedInv /\ [BackedNext]_backedVars => BackedInv'
    <2>1. SUFFICES ASSUME BackedInv, [BackedNext]_backedVars PROVE BackedInv'
        OBVIOUS
    <2>2. CASE AskRestart \/ UNCHANGED backedVars
        <3>1. /\ UNCHANGED <<rd, openers, serves, backer>>
              /\ \/ again' = again + 1 /\ ctl' = Append(ctl, "restart")
                 \/ UNCHANGED <<again, ctl>>
            BY <2>2 DEF AskRestart, backedVars
        <3>2. Inside' = Inside
            BY <3>1 DEF Inside
        <3>3. RetireOnce'
            BY <2>1, <3>1 DEF BackedInv, RetireOnce
        <3>. QED
            BY <2>1, <3>1, <3>2, <3>3 DEF BackedInv, OpenersCounted, ServesAt
    <2>. QED
        BY <2>1, <2>2, ReaderBackedInv, ProducerBackedInv, ControlBackedInv
           DEF BackedNext
<1>. QED
    BY <1>1, <1>2, PTL

\* The retirement a producer asked for meets no reader that got in, however the
\* opens, the cooldown and the mailbox interleave, as long as nobody else has
\* restarted the producer.
THEOREM RetireIsRaceFreeHolds == BackedSpec => RetireIsRaceFree
<1>1. BackedInv =>
          (ctl # <<>> /\ Head(ctl) = "retire" /\ ctl' = Tail(ctl) /\ again = 0
              => \A r \in Readers : rd[r] # "read")
    <2>1. SUFFICES ASSUME BackedInv, ctl # <<>>, Head(ctl) = "retire", again = 0
                   PROVE  \A r \in Readers : rd[r] # "read"
        OBVIOUS
    <2>2. 1 \in 1..Len(ctl) /\ ctl[1] = "retire"
        BY <2>1 DEF BackedInv, RetireOnce
    <2>. QED
        BY <2>1, <2>2 DEF BackedInv, RetireOnce
<1>. QED
    BY <1>1, BackedInvHolds, PTL DEF BackedSpec, RetireIsRaceFree

\* What the type invariant adds to BackedInv.
BackedRest ==
    /\ serves \in {"down", "up", "ready"}
    /\ backer \in {"off", "init", "watch", "parked", "reset", "cool", "clear", "last",
                   "retire", "retired"}
    /\ watched \in BOOLEAN /\ asked \in BOOLEAN
    /\ owes \in SUBSET Readers /\ Len(ctl) <= CtlCap

\* Every step keeps BackedRest: the mailbox is written where it has room.
LEMMA BackedRestStep ==
    ASSUME BackedInv, BackedRest, [BackedNext]_backedVars
    PROVE  BackedRest'
<1>0. ctl \in Seq({"activate", "retire", "restart"}) /\ Len(ctl) \in Nat /\ CtlCap \in Nat
    BY BackedAssumption DEF BackedInv, RetireOnce
<1>1. ASSUME NEW r \in Readers, Admit(r) \/ BackedReader(r) \/ DropOpen(r)
      PROVE  BackedRest'
    <2>1. UNCHANGED <<serves, backer>>
        BY <1>1 DEF Admit, BackedReader, Ensure, AskActivate, WaitServing, SignalWatch,
               DropOpen, ReadGo
    <2>2. owes' \in SUBSET Readers
        BY <1>1 DEF BackedRest, Admit, BackedReader, Ensure, AskActivate, WaitServing,
               SignalWatch, DropOpen
    <2>3. watched' \in BOOLEAN
        BY <1>1, Zenon DEF BackedRest, Admit, BackedReader, Ensure, AskActivate, WaitServing,
               SignalWatch, DropOpen, ReadGo
    <2>4. asked' \in BOOLEAN
        <3>1. CASE Ensure(r) \/ WaitServing(r)
            BY <3>1 DEF Ensure, WaitServing
        <3>. QED
            BY <1>1, <3>1, Zenon DEF BackedRest, Admit, BackedReader, AskActivate,
                   SignalWatch, DropOpen
    <2>5. Len(ctl') <= CtlCap
        <3>1. ctl' = ctl \/ (Len(ctl) < CtlCap /\ ctl' = Append(ctl, "activate"))
            BY <1>1 DEF Admit, BackedReader, Ensure, AskActivate, WaitServing, SignalWatch,
                   DropOpen
        <3>2. ctl' = Append(ctl, "activate") => Len(ctl') = Len(ctl) + 1
            BY <1>0
        <3>. QED
            BY <1>0, <3>1, <3>2 DEF BackedRest
    <2>. QED
        BY <2>1, <2>2, <2>3, <2>4, <2>5 DEF BackedRest
<1>2. CASE Producer
    <2>1. UNCHANGED <<asked, owes>> /\ watched' \in BOOLEAN
        BY <1>2, Zenon DEF BackedRest, Producer, ProducerReady, UnwatchedLook, UnwatchedWoken,
               UnwatchedReset, CooldownCut, CooldownOver, RetireClear, RetireLook, RetireAsk,
               ProdGo
    <2>2. Len(ctl') <= CtlCap
        BY <1>0, <1>2 DEF BackedRest, Producer, ProducerReady, UnwatchedLook, UnwatchedWoken,
               UnwatchedReset, CooldownCut, CooldownOver, RetireClear, RetireLook, RetireAsk
    <2>3. /\ serves' \in {"down", "up", "ready"}
          /\ backer' \in {"off", "init", "watch", "parked", "reset", "cool", "clear", "last",
                          "retire", "retired"}
        BY <1>2 DEF BackedRest, Producer, ProducerReady, UnwatchedLook, UnwatchedWoken,
               UnwatchedReset, CooldownCut, CooldownOver, RetireClear, RetireLook, RetireAsk,
               ProdGo
    <2>. QED
        BY <2>1, <2>2, <2>3 DEF BackedRest
<1>3. CASE HandleControl
    <2>1. Len(ctl') <= CtlCap
        BY <1>0, <1>3 DEF BackedRest, HandleControl
    <2>. QED
        BY <1>3, <2>1 DEF BackedRest, HandleControl
<1>4. CASE AskRestart
    BY <1>0, <1>4 DEF BackedRest, AskRestart
<1>5. CASE UNCHANGED backedVars
    BY <1>5 DEF BackedRest, backedVars
<1>. QED
    BY <1>1, <1>2, <1>3, <1>4, <1>5 DEF BackedNext

\* The type invariant of the Backed signal: the count of openers never passes
\* the number of readers and the mailbox never its capacity.
LEMMA BackedTypeHolds == BackedInit /\ [][BackedNext]_backedVars => []BackedTypeOK
<1>1. BackedInit => BackedRest
    <2>1. SUFFICES ASSUME BackedInit PROVE BackedRest
        OBVIOUS
    <2>2. watched \in BOOLEAN /\ asked \in BOOLEAN
        BY <2>1, Zenon DEF BackedInit
    <2>3. Len(ctl) <= CtlCap
        BY <2>1, BackedAssumption DEF BackedInit
    <2>. QED
        BY <2>1, <2>2, <2>3 DEF BackedInit, BackedRest
<1>2. BackedInv /\ BackedRest => BackedTypeOK
    <2>1. SUFFICES ASSUME BackedInv, BackedRest PROVE BackedTypeOK
        OBVIOUS
    <2>2. openers \in 0..Cardinality(Readers)
        BY <2>1, InsideCounted, BackedAssumption, FS_CardinalityType
           DEF BackedInv, OpenersCounted
    <2>3. {watched, asked} \subseteq BOOLEAN
        BY <2>1, Zenon DEF BackedRest
    <2>. QED
        BY <2>1, <2>2, <2>3 DEF BackedTypeOK, BackedInv, BackedRest, OpenersCounted, RetireOnce
<1>. QED
    BY <1>1, <1>2, BackedInvHolds, BackedRestStep, PTL

\* The reader whose drop empties the count owes the signal, and the producer
\* parks only over a count that is not empty.
LEMMA LeavingIsOwedHolds == BackedInit /\ [][BackedNext]_backedVars => []LeavingIsOwed
<1>1. BackedInit => LeavingIsOwed
    BY DEF BackedInit, LeavingIsOwed
<1>2. BackedInv /\ LeavingIsOwed /\ [BackedNext]_backedVars => LeavingIsOwed'
    <2>. SUFFICES ASSUME BackedInv, LeavingIsOwed, [BackedNext]_backedVars
                  PROVE  LeavingIsOwed'
        OBVIOUS
    <2>0. openers \in Nat
        BY InsideCounted DEF BackedInv, OpenersCounted
    <2>1. ASSUME NEW r \in Readers, Admit(r) PROVE LeavingIsOwed'
        BY <2>0, <2>1 DEF Admit, LeavingIsOwed
    <2>2. ASSUME NEW r \in Readers, DropOpen(r) PROVE LeavingIsOwed'
        <3>1. openers' = 0 => r \in owes'
            BY <2>0, <2>2 DEF DropOpen
        <3>. QED
            BY <3>1 DEF LeavingIsOwed
    <2>3. ASSUME NEW r \in Readers, SignalWatch(r) PROVE LeavingIsOwed'
        BY <2>3 DEF SignalWatch, LeavingIsOwed
    <2>4. ASSUME NEW r \in Readers, Ensure(r) \/ AskActivate(r) \/ WaitServing(r)
          PROVE  LeavingIsOwed'
        BY <2>4 DEF Ensure, AskActivate, WaitServing, ReadGo, LeavingIsOwed
    <2>5. CASE Producer
        <3>1. backer' = "parked" => openers > 0 /\ openers' = openers
            BY <2>5 DEF Producer, ProducerReady, UnwatchedLook, UnwatchedWoken,
                   UnwatchedReset, CooldownCut, CooldownOver, RetireClear, RetireLook,
                   RetireAsk, ProdGo
        <3>. QED
            BY <2>0, <3>1 DEF LeavingIsOwed
    <2>6. CASE HandleControl
        BY <2>6 DEF HandleControl, LeavingIsOwed
    <2>7. CASE AskRestart \/ UNCHANGED backedVars
        BY <2>7 DEF AskRestart, backedVars, LeavingIsOwed
    <2>. QED
        BY <2>1, <2>2, <2>3, <2>4, <2>5, <2>6, <2>7 DEF BackedNext, BackedReader
<1>. QED
    BY <1>1, <1>2, BackedInvHolds, PTL

----------------------------------------------------------------------------
(* The budget.                                                             *)

\* Total is the sum Iter over the whole domain.
LEMMA TotalIsIter ==
    ASSUME NEW f
    PROVE  Total(f) = Iter(f, DOMAIN f)[DOMAIN f]
BY DEF Total, FoldFunction, FoldFunctionOnSet, MapThenFoldSet, Iter, Pick, Rest

\* A sum of naturals is a natural.
LEMMA TotalIsNat ==
    ASSUME NEW w \in [BSlot -> Nat]
    PROVE  Total(w) \in Nat /\ Total(w) = Iter(w, BSlot)[BSlot] /\ IsFiniteSet(BSlot)
<1>1. IsFiniteSet(BSlot)
    BY BudgetAssumption, FS_Interval DEF BSlot
<1>2. Total(w) = Iter(w, BSlot)[BSlot]
    <2>1. DOMAIN w = BSlot
        OBVIOUS
    <2>. QED BY <2>1, TotalIsIter
<1>3. Iter(w, BSlot) \in [SUBSET BSlot -> Nat]
    BY <1>1, IterDefined
<1>. QED
    BY <1>1, <1>2, <1>3

\* A product of integers that is no larger, with a positive factor.
LEMMA CancelFactor ==
    ASSUME NEW a \in Nat, a > 0, NEW x \in Nat, NEW y \in Nat, a * x <= a * y
    PROVE  x <= y
<1>1. SUFFICES ASSUME x > y PROVE FALSE
    OBVIOUS
<1>2. x - y \in Nat /\ x - y >= 1 /\ x = y + (x - y)
    BY <1>1
<1>3. PICK d \in Nat : d >= 1 /\ x = y + d
    BY <1>2
<1>4. a * x = a * y + a * d
    BY <1>3
<1>5. a * d >= a * 1
    BY <1>3
<1>6. a * y \in Nat /\ a * d \in Nat
    OBVIOUS
<1>. QED
    BY <1>4, <1>5, <1>6

\* FairShare::targets divides what there is: the shares never add up to more
\* than the capacity.
LEMMA TargetsFit ==
    ASSUME NEW c \in Nat, NEW w \in [BSlot -> Nat]
    PROVE  /\ Targets(c, w) \in [BSlot -> Nat]
           /\ Total(Targets(c, w)) <= c
<1>. DEFINE W == Total(w)
            floor == [i \in BSlot |-> (c * w[i]) \div W]
            left == c - Total(floor)
            A == {j \in BSlot : floor[j] < w[j]}
            U == {i \in A : Cardinality({j \in 1..i : j \in A}) <= left}
            t == [i \in BSlot |-> IF i \in U THEN floor[i] + 1 ELSE floor[i]]
<1>1. CASE W <= c
    <2>1. Targets(c, w) = w
        BY <1>1 DEF Targets
    <2>. QED BY <1>1, <2>1
<1>2. CASE ~(W <= c)
    <2>1. W \in Nat /\ W > 0 /\ W = Iter(w, BSlot)[BSlot] /\ IsFiniteSet(BSlot)
        BY <1>2, TotalIsNat
    <2>. HIDE DEF W
    <2>2. \A i \in BSlot : floor[i] \in Nat /\ W * floor[i] <= c * w[i]
        <3>1. \A b \in Nat : b \div W \in Nat /\ W * (b \div W) <= b
            BY <2>1
        <3>2. \A i \in BSlot : c * w[i] \in Nat
            OBVIOUS
        <3>. QED BY <3>1, <3>2
    <2>3. floor \in [BSlot -> Nat]
        BY <2>2
    <2>. HIDE DEF floor
    <2>4. Total(floor) \in Nat /\ Total(floor) <= c
        <3>1. Total(floor) \in Nat /\ Total(floor) = Iter(floor, BSlot)[BSlot]
            BY <2>3, TotalIsNat
        <3>2. W * Total(floor) <= c * W
            BY <2>1, <2>2, <2>3, <3>1, ScaledBound
        <3>3. c * W = W * c
            BY <2>1
        <3>. QED
            BY <2>1, <3>1, <3>2, <3>3, CancelFactor
    <2>5. left \in Nat
        BY <2>4
    <2>. HIDE DEF left
    <2>6. Targets(c, w) = t
        <3>1. Targets(c, w) =
                 [i \in BSlot |->
                     IF floor[i] < w[i]
                        /\ Cardinality({j \in 1..i : floor[j] < w[j]}) <= left
                     THEN floor[i] + 1 ELSE floor[i]]
            BY <1>2 DEF Targets, floor, left, W
        <3>2. \A i \in BSlot : {j \in 1..i : floor[j] < w[j]} = {j \in 1..i : j \in A}
            <4>1. \A i \in BSlot : 1..i \subseteq BSlot
                BY BudgetAssumption DEF BSlot
            <4>. QED BY <4>1
        <3>3. \A i \in BSlot : i \in U <=>
                 /\ floor[i] < w[i]
                 /\ Cardinality({j \in 1..i : floor[j] < w[j]}) <= left
            BY <3>2
        <3>. HIDE DEF U
        <3>. QED BY <3>1, <3>3
    <2>7. U \in SUBSET BSlot /\ Cardinality(U) <= left /\ IsFiniteSet(U)
        <3>1. BSlots \in Nat /\ A \in SUBSET (1..BSlots)
            BY BudgetAssumption DEF BSlot
        <3>2. U \in SUBSET BSlot
            OBVIOUS
        <3>. HIDE DEF A
        <3>. QED BY <2>5, <3>1, <3>2, FirstShort
    <2>. HIDE DEF U
    <2>8. t \in [BSlot -> Nat]
        BY <2>3
    <2>9. Total(t) = Total(floor) + Cardinality(U)
        <3>1. Iter(t, BSlot)[BSlot] = Iter(floor, BSlot)[BSlot] + Cardinality(U)
            BY <2>1, <2>3, <2>7, RaisedSum
        <3>. HIDE DEF t
        <3>. QED BY <3>1, <2>3, <2>8, TotalIsNat
    <2>10. Cardinality(U) \in Nat
        BY <2>7, FS_CardinalityType
    <2>. HIDE DEF t
    <2>11. Total(floor) + Cardinality(U) <= c
        BY <2>4, <2>7, <2>10 DEF left
    <2>. QED BY <2>6, <2>8, <2>9, <2>11
<1>. QED
    BY <1>1, <1>2

\* Nothing is wanted, nothing is shared out.
LEMMA TargetsOfNone ==
    ASSUME NEW c \in Nat PROVE Targets(c, None) = None
<1>1. None \in [BSlot -> Nat]
    BY DEF None
<1>2. Total(None) = Iter(None, BSlot)[BSlot] /\ IsFiniteSet(BSlot) /\ Total(None) \in Nat
    BY <1>1, TotalIsNat
<1>3. \A i \in BSlot : 1 * None[i] <= 0 * None[i]
    BY DEF None
<1>4. 1 * Total(None) <= 0 * Total(None)
    BY <1>1, <1>2, <1>3, ScaledBound
<1>5. Total(None) <= c
    BY <1>2, <1>4
<1>. QED
    BY <1>5 DEF Targets

\* The data.
BudgetDataOK ==
    /\ capacity \in Nat
    /\ wants \in [BSlot -> Nat] /\ grants \in [BSlot -> Nat]
    /\ snap \in [capacity : Nat, wants : [BSlot -> Nat], division : [BSlot -> Nat]]
    /\ user \in [BSlot -> {"none", "signal", "zero"}]
    /\ publish \in BSlot /\ zeroing \in BSlot

\* The allocator owes a look: it was signalled, or a call that will is under way.
Owes ==
    \/ watch
    \/ provider # "none"
    \/ \E i \in BSlot : user[i] # "none"

\* As long as it owes none, what it has read is what there is.
ReadIsCurrent ==
    /\ alloc \in {"wants", "grants", "publish", "stale"} /\ ~Owes =>
          snap.capacity = capacity
    /\ alloc \in {"grants", "publish", "stale"} /\ ~Owes => snap.wants = wants

\* A division that is not a step of a ramp is the policy's target.
DivisionIsTarget ==
    alloc \in {"publish", "stale"} /\ ~timer =>
        snap.division = Targets(snap.capacity, snap.wants)

\* What it has published stands.
PublishedStands ==
    /\ alloc = "publish" /\ ~Owes =>
          \A j \in BSlot : j < publish => grants[j] = snap.division[j]
    /\ alloc = "stale" /\ ~Owes => grants = snap.division

\* And so, back at its wait with nothing owed, the grants are the target.
SettledAtWait ==
    alloc = "wait" /\ ~timer /\ ~Owes => grants = Targets(capacity, wants)

BudgetInv ==
    /\ BudgetDataOK /\ ReadIsCurrent /\ DivisionIsTarget /\ PublishedStands
    /\ SettledAtWait

\* A step of the ramp stays below the target, and is reached when none is below.
LEMMA RampedBelow ==
    ASSUME NEW t \in [BSlot -> Nat], NEW g \in [BSlot -> Nat], NEW b
    PROVE  /\ Ramped(t, g, b) \in [BSlot -> Nat]
           /\ \A i \in BSlot : Ramped(t, g, b)[i] <= t[i]
<1>. GrowStep \in Nat
    BY BudgetAssumption
<1>. QED
    BY DEF Ramped

\* The calls of holders and provider: the allocator owes a look after each.
LEMMA CallsOwe ==
    ASSUME BudgetInv,
           \/ \E i \in BSlot : \/ \E n \in Wants : Want(i, n)
                               \/ Release(i) \/ ReleaseGrant(i) \/ UserSignal(i)
           \/ \E c \in Capacities : ProvideCapacity(c)
           \/ Clear \/ ClearGrant \/ ClearWakes \/ ProviderSignal
    PROVE  Owes' /\ BudgetDataOK' /\ UNCHANGED <<alloc, snap, timer>>
<1>. USE BudgetAssumption
<1>1. ASSUME NEW i \in BSlot, NEW n \in Wants, Want(i, n)
      PROVE  Owes' /\ BudgetDataOK' /\ UNCHANGED <<alloc, snap, timer>>
    BY <1>1 DEF Want, UserGo, AllocKept, Owes, BudgetInv, BudgetDataOK
<1>2. ASSUME NEW i \in BSlot, Release(i)
      PROVE  Owes' /\ BudgetDataOK' /\ UNCHANGED <<alloc, snap, timer>>
    BY <1>2 DEF Release, UserGo, AllocKept, Owes, BudgetInv, BudgetDataOK
<1>3. ASSUME NEW i \in BSlot, ReleaseGrant(i)
      PROVE  Owes' /\ BudgetDataOK' /\ UNCHANGED <<alloc, snap, timer>>
    BY <1>3 DEF ReleaseGrant, UserGo, AllocKept, Owes, BudgetInv, BudgetDataOK
<1>4. ASSUME NEW i \in BSlot, UserSignal(i)
      PROVE  Owes' /\ BudgetDataOK' /\ UNCHANGED <<alloc, snap, timer>>
    BY <1>4 DEF UserSignal, UserGo, AllocKept, Owes, BudgetInv, BudgetDataOK
<1>5. ASSUME NEW c \in Capacities, ProvideCapacity(c)
      PROVE  Owes' /\ BudgetDataOK' /\ UNCHANGED <<alloc, snap, timer>>
    BY <1>5 DEF ProvideCapacity, ProviderGo, AllocKept, Owes, BudgetInv, BudgetDataOK
<1>6. ASSUME Clear PROVE Owes' /\ BudgetDataOK' /\ UNCHANGED <<alloc, snap, timer>>
    BY <1>6 DEF Clear, ProviderGo, AllocKept, Owes, BudgetInv, BudgetDataOK, BSlot
<1>7. ASSUME ClearGrant PROVE Owes' /\ BudgetDataOK' /\ UNCHANGED <<alloc, snap, timer>>
    <2>1. zeroing' \in BSlot
        BY <1>7 DEF ClearGrant, BudgetInv, BudgetDataOK, BSlot
    <2>2. provider' # "none"
        BY <1>7 DEF ClearGrant, ProviderGo
    <2>. QED
        BY <1>7, <2>1, <2>2 DEF ClearGrant, ProviderGo, AllocKept, Owes, BudgetInv, BudgetDataOK
<1>8. ASSUME ClearWakes PROVE Owes' /\ BudgetDataOK' /\ UNCHANGED <<alloc, snap, timer>>
    BY <1>8 DEF ClearWakes, ProviderGo, AllocKept, Owes, BudgetInv, BudgetDataOK
<1>9. ASSUME ProviderSignal PROVE Owes' /\ BudgetDataOK' /\ UNCHANGED <<alloc, snap, timer>>
    BY <1>9 DEF ProviderSignal, ProviderGo, AllocKept, Owes, BudgetInv, BudgetDataOK
<1>. QED
    BY <1>1, <1>2, <1>3, <1>4, <1>5, <1>6, <1>7, <1>8, <1>9

\* What is read, divided and published.
LEMMA AllocatorStep ==
    ASSUME BudgetInv, Allocator
    PROVE  BudgetInv'
<1>. USE BudgetAssumption DEF BudgetInv
<1>1. CASE WaitChange
    BY <1>1 DEF WaitChange, AllocGo, BudgetDataOK, ReadIsCurrent, DivisionIsTarget,
                PublishedStands, SettledAtWait
<1>2. CASE ReadCapacity
    <2>1. snap' = [snap EXCEPT !.capacity = capacity]
        BY <1>2 DEF ReadCapacity
    <2>. QED
    BY <1>2, <2>1 DEF ReadCapacity, AllocGo, BudgetDataOK, ReadIsCurrent, DivisionIsTarget,
                PublishedStands, SettledAtWait
<1>3. CASE ReadWants
    <2>1. Owes' <=> Owes
        BY <1>3 DEF ReadWants, AllocGo, Owes
    <2>2. alloc = "wants" /\ alloc' = "grants"
        BY <1>3 DEF ReadWants, AllocGo
    <2>. QED
    BY <1>3, <2>1, <2>2 DEF ReadWants, AllocGo, BudgetDataOK, ReadIsCurrent, DivisionIsTarget,
                PublishedStands, SettledAtWait
<1>4. CASE Divide
    <2>. DEFINE t == Targets(snap.capacity, snap.wants)
                d == IF policy = "fair" THEN t ELSE Ramped(t, grants, due \/ ~timer)
    <2>1. t \in [BSlot -> Nat]
        BY TargetsFit DEF BudgetDataOK
    <2>. HIDE DEF t
    <2>2. d \in [BSlot -> Nat] /\ \A i \in BSlot : d[i] <= t[i]
        BY <2>1, RampedBelow DEF BudgetDataOK
    <2>. HIDE DEF d
    <2>3. /\ alloc = "grants" /\ alloc' = "publish" /\ publish' = 1
          /\ snap' = [snap EXCEPT !.division = d]
          /\ UNCHANGED <<capacity, wants, grants, watch, user, provider, zeroing>>
        BY <1>4 DEF Divide, AllocGo, t, d
    <2>4. timer' <=> \E i \in BSlot : d[i] < t[i]
        BY <1>4 DEF Divide, t, d
    <2>5. Owes' <=> Owes
        BY <2>3 DEF Owes
    <2>6. ~timer' => d = t
        <3>1. \A i \in BSlot : d[i] \in Nat /\ t[i] \in Nat
            BY <2>1, <2>2
        <3>2. ~timer' => \A i \in BSlot : d[i] = t[i]
            BY <2>2, <2>4, <3>1
        <3>. QED BY <2>1, <2>2, <3>2
    <2>7. /\ snap'.capacity = snap.capacity /\ snap'.wants = snap.wants
          /\ snap'.division = d
        BY <2>3 DEF BudgetDataOK
    <2>8. BudgetDataOK'
        <3>1. 1 \in BSlot
            BY DEF BSlot
        <3>2. snap' \in [capacity : Nat, wants : [BSlot -> Nat], division : [BSlot -> Nat]]
            BY <2>2, <2>3 DEF BudgetDataOK
        <3>. QED BY <2>3, <3>1, <3>2 DEF BudgetDataOK
    <2>9. DivisionIsTarget'
        BY <2>6, <2>7 DEF DivisionIsTarget, t
    <2>10. ReadIsCurrent'
        BY <2>3, <2>5, <2>7 DEF ReadIsCurrent
    <2>11. PublishedStands' /\ SettledAtWait'
        <3>1. \A j \in BSlot : ~(j < 1)
            BY DEF BSlot
        <3>. QED BY <2>3, <3>1 DEF PublishedStands, SettledAtWait
    <2>. QED
        BY <2>8, <2>9, <2>10, <2>11
<1>5. CASE Publish
    <2>1. /\ alloc = "publish"
          /\ alloc' = IF publish = BSlots THEN "stale" ELSE "publish"
          /\ grants' = [grants EXCEPT ![publish] = snap.division[publish]]
          /\ publish' = IF publish = BSlots THEN 1 ELSE publish + 1
          /\ UNCHANGED <<capacity, wants, watch, user, provider, zeroing, snap, timer>>
        BY <1>5 DEF Publish, AllocGo
    <2>2. Owes' <=> Owes
        BY <2>1 DEF Owes
    <2>3. BudgetDataOK'
        BY <2>1 DEF BudgetDataOK, BSlot
    <2>4. ~Owes => \A j \in BSlot : j <= publish => grants'[j] = snap.division[j]
        <3>1. ~Owes => \A j \in BSlot : j < publish => grants[j] = snap.division[j]
            BY <2>1 DEF PublishedStands
        <3>2. \A j \in BSlot : j <= publish => j < publish \/ j = publish
            BY DEF BSlot, BudgetDataOK
        <3>3. publish \in BSlot /\ grants \in [BSlot -> Nat]
            BY DEF BudgetDataOK
        <3>. QED
            BY <2>1, <3>1, <3>2, <3>3
    <2>5. PublishedStands'
        <3>1. CASE publish = BSlots
            <4>1. alloc' = "stale"
                BY <2>1, <3>1
            <4>2. \A j \in BSlot : j <= publish
                BY <3>1 DEF BSlot
            <4>3. ~Owes => grants' = snap.division
                <5>1. grants' \in [BSlot -> Nat] /\ snap.division \in [BSlot -> Nat]
                    BY <2>3 DEF BudgetDataOK
                <5>. QED BY <2>4, <4>2, <5>1
            <4>. QED
                BY <2>1, <2>2, <4>1, <4>3 DEF PublishedStands
        <3>2. CASE publish # BSlots
            <4>1. alloc' = "publish" /\ publish' = publish + 1
                BY <2>1, <3>2
            <4>2. \A j \in BSlot : j < publish' => j <= publish
                BY <4>1 DEF BSlot, BudgetDataOK
            <4>. QED
                BY <2>1, <2>2, <2>4, <4>1, <4>2 DEF PublishedStands
        <3>. QED BY <3>1, <3>2
    <2>. QED
        BY <2>1, <2>2, <2>3, <2>5 DEF ReadIsCurrent, DivisionIsTarget, SettledAtWait
<1>6. CASE CheckStale
    <2>1. /\ alloc = "stale" /\ alloc' = "wait" /\ snap' = Unread
          /\ UNCHANGED <<capacity, wants, grants, user, provider, zeroing, publish, timer>>
        BY <1>6 DEF CheckStale, AllocGo
    <2>2. watch' <=> watch \/ capacity # snap.capacity \/ wants # snap.wants
        BY <1>6 DEF CheckStale
    <2>3. ~Owes' => ~Owes /\ snap.capacity = capacity /\ snap.wants = wants
        BY <2>1, <2>2 DEF Owes
    <2>4. SettledAtWait'
        BY <2>1, <2>3 DEF SettledAtWait, PublishedStands, DivisionIsTarget
    <2>5. BudgetDataOK'
        BY <2>1 DEF BudgetDataOK, Unread, None
    <2>. QED
        BY <2>1, <2>4, <2>5 DEF ReadIsCurrent, DivisionIsTarget, PublishedStands
<1>. QED
    BY <1>1, <1>2, <1>3, <1>4, <1>5, <1>6 DEF Allocator

\* A call of a holder or of the provider owes a look; the rest is the allocator.
LEMMA BudgetInvStep ==
    ASSUME BudgetInv, [BudgetNext]_budgetVars
    PROVE  BudgetInv'
<1>1. CASE \/ \E i \in BSlot : \/ \E n \in Wants : Want(i, n)
                               \/ Release(i) \/ ReleaseGrant(i) \/ UserSignal(i)
           \/ \E c \in Capacities : ProvideCapacity(c)
           \/ Clear \/ ClearGrant \/ ClearWakes \/ ProviderSignal
    <2>1. Owes' /\ BudgetDataOK' /\ UNCHANGED <<alloc, snap, timer>>
        BY <1>1, CallsOwe
    <2>. QED
        BY <2>1 DEF BudgetInv, ReadIsCurrent, DivisionIsTarget, PublishedStands, SettledAtWait
<1>2. CASE Allocator
    BY <1>2, AllocatorStep
<1>3. CASE RampDue \/ Waiter \/ UNCHANGED budgetVars
    <2>1. UNCHANGED <<capacity, wants, grants, watch, user, provider, zeroing,
                      alloc, snap, publish, timer>>
        BY <1>3 DEF RampDue, Waiter, WaitGrant, CheckGrant, RegisterGrant,
                    RecheckGrant, WaiterGo, budgetVars
    <2>. QED
        BY <2>1 DEF BudgetInv, BudgetDataOK, Owes, ReadIsCurrent, DivisionIsTarget,
                    PublishedStands, SettledAtWait
<1>. QED
    BY <1>1, <1>2, <1>3 DEF BudgetNext

\* Nothing is wanted and nothing granted at first.
LEMMA BudgetInvInit == BudgetInit => BudgetInv
<1>. SUFFICES ASSUME BudgetInit PROVE BudgetInv
    OBVIOUS
<1>1. BudgetDataOK
    BY BudgetAssumption DEF BudgetInit, BudgetDataOK, None, Unread, BSlot
<1>2. SettledAtWait
    BY <1>1, TargetsOfNone DEF SettledAtWait, BudgetInit, BudgetDataOK
<1>. QED
    BY <1>1, <1>2 DEF BudgetInit, BudgetInv, ReadIsCurrent, DivisionIsTarget, PublishedStands

\* Whatever demands, releases, clears and capacities overlap a division, read
\* and published slot by slot: once everything is quiet the grants are the
\* policy's shares of the present wants and fit the capacity (Budget::rebalance
\* and its final comparison of what it read).
THEOREM BudgetSettledHolds == BudgetSpec => []BudgetSettled
<1>2. BudgetInv => BudgetSettled
    <2>. SUFFICES ASSUME BudgetInv, Quiescent
                  PROVE  grants = Targets(capacity, wants) /\ Total(grants) <= capacity
        BY DEF BudgetSettled
    <2>1. grants = Targets(capacity, wants)
        BY DEF Quiescent, Owes, BudgetInv, SettledAtWait
    <2>. QED
        BY <2>1, TargetsFit DEF BudgetInv, BudgetDataOK
<1>. QED
    BY <1>2, BudgetInvInit, BudgetInvStep, PTL DEF BudgetSpec

\* Whoever is parked is registered, and its grant is the one it saw.
ParkedInv ==
    /\ waiter = "park" => registered
    /\ GrantIsSeen

\* The waiter registers before its last look, and a wake that comes between the
\* two takes the registration away.
LEMMA ParkedInvHolds == BudgetInit /\ [][BudgetNext]_budgetVars => []ParkedInv
<1>. USE BudgetAssumption
<1>0. 1 \in BSlot
    BY DEF BSlot
<1>1. BudgetInit => ParkedInv
    BY <1>0 DEF BudgetInit, ParkedInv, GrantIsSeen, None
<1>2. BudgetInv /\ BudgetInv' /\ ParkedInv /\ [BudgetNext]_budgetVars => ParkedInv'
    <2>. SUFFICES ASSUME BudgetInv, BudgetInv', ParkedInv, [BudgetNext]_budgetVars
                  PROVE  ParkedInv'
        OBVIOUS
    <2>0. /\ grants \in [BSlot -> Nat] /\ grants' \in [BSlot -> Nat]
          /\ zeroing \in BSlot /\ publish \in BSlot
        BY DEF BudgetInv, BudgetDataOK
    <2>1. ASSUME NEW i \in BSlot, ReleaseGrant(i) PROVE ParkedInv'
        <3>1. quietZero' <=> quietZero \/ (i = 1 /\ grants[i] # 0)
            BY <2>1 DEF ReleaseGrant
        <3>2. grants'[1] = IF i = 1 THEN 0 ELSE grants[1]
            BY <2>0, <2>1, <1>0 DEF ReleaseGrant
        <3>. QED
            BY <2>1, <3>1, <3>2 DEF ReleaseGrant, UserGo, WaiterKept, ParkedInv, GrantIsSeen
    <2>2. CASE \/ \E i \in BSlot : \/ \E n \in Wants : Want(i, n)
                                   \/ Release(i) \/ UserSignal(i)
               \/ \E c \in Capacities : ProvideCapacity(c)
               \/ Clear \/ ProviderSignal \/ RampDue
               \/ WaitChange \/ ReadCapacity \/ ReadWants \/ Divide \/ CheckStale
               \/ UNCHANGED budgetVars
        <3>1. UNCHANGED <<grants, waiter, seen1, registered, quietZero>>
            BY <2>2 DEF Want, Release, UserSignal, UserGo, ProvideCapacity, Clear,
                 ProviderSignal, ProviderGo, RampDue, WaiterKept, WaitChange, ReadCapacity,
                 ReadWants, Divide, CheckStale, budgetVars
        <3>2. provider \in {"zero", "wake"} => provider' \in {"zero", "wake"}
            BY <2>2 DEF Want, Release, UserSignal, UserGo, ProvideCapacity, Clear,
                 ProviderSignal, ProviderGo, RampDue, WaitChange, ReadCapacity,
                 ReadWants, Divide, CheckStale, AllocGo, budgetVars
        <3>. QED
            BY <3>1, <3>2 DEF ParkedInv, GrantIsSeen
    <2>3. CASE ClearGrant
        BY <2>3, <1>0, <2>0 DEF ClearGrant, ProviderGo, WaiterKept, ParkedInv, GrantIsSeen
    <2>4. CASE ClearWakes
        BY <2>4 DEF ClearWakes, WakeClaimant, ProviderGo, ParkedInv, GrantIsSeen
    <2>5. CASE Publish
        <3>1. grants'[1] = IF publish = 1 THEN snap.division[1] ELSE grants[1]
            BY <2>5, <1>0, <2>0 DEF Publish
        <3>2. CASE publish = 1 /\ grants[1] # snap.division[1]
            BY <2>5, <3>2 DEF Publish, WakeClaimant, ParkedInv, GrantIsSeen
        <3>3. CASE ~(publish = 1 /\ grants[1] # snap.division[1])
            <4>1. grants'[1] = grants[1]
                BY <3>1, <3>3
            <4>. QED
                BY <2>5, <3>3, <4>1 DEF Publish, AllocGo, WaiterKept, ParkedInv, GrantIsSeen
        <3>. QED BY <3>2, <3>3
    <2>6. CASE Waiter
        BY <2>6 DEF Waiter, WaitGrant, CheckGrant, RegisterGrant, RecheckGrant, WaiterGo,
                    ParkedInv, GrantIsSeen
    <2>. QED
        BY <2>1, <2>2, <2>3, <2>4, <2>5, <2>6 DEF BudgetNext, Allocator
<1>. QED
    BY <1>1, <1>2, BudgetInvInit, BudgetInvStep, PTL

\* wait_grant_change loses no wake-up, whatever moves the grant between its
\* check, its registration and its park.
THEOREM GrantIsSeenHolds == BudgetSpec => []GrantIsSeen
<1>1. ParkedInv => GrantIsSeen
    BY DEF ParkedInv
<1>. QED
    BY <1>1, ParkedInvHolds, PTL DEF BudgetSpec

\* What the type invariant adds to BudgetDataOK.
BudgetRest ==
    /\ policy \in {"fair", "slow"}
    /\ capacity \in Capacities \union {0}
    /\ wants \in [BSlot -> Wants \union {0}]
    /\ provider \in {"none", "zero", "wake", "signal"}
    /\ alloc \in {"wait", "cap", "wants", "grants", "publish", "stale"}
    /\ waiter \in {"none", "off", "check", "register", "recheck", "park"}
    /\ bcalls \in 0..MaxCalls

BudgetFlags ==
    /\ watch \in BOOLEAN /\ timer \in BOOLEAN /\ due \in BOOLEAN
    /\ registered \in BOOLEAN /\ quietZero \in BOOLEAN

\* The flags stay Boolean.
LEMMA BudgetFlagsStep ==
    ASSUME BudgetFlags, [BudgetNext]_budgetVars
    PROVE  BudgetFlags'
<1>1. ASSUME NEW i \in BSlot, \/ \E n \in Wants : Want(i, n)
                              \/ Release(i) \/ UserSignal(i)
      PROVE  BudgetFlags'
    BY <1>1, Zenon DEF BudgetFlags, Want, Release, UserSignal, UserGo, AllocKept, WaiterKept
<1>2. ASSUME NEW i \in BSlot, ReleaseGrant(i) PROVE BudgetFlags'
    <2>1. quietZero' \in BOOLEAN
        BY <1>2 DEF ReleaseGrant
    <2>. QED
        BY <1>2, <2>1, Zenon DEF BudgetFlags, ReleaseGrant, UserGo, AllocKept, WaiterKept
<1>3. CASE (\E c \in Capacities : ProvideCapacity(c)) \/ Clear \/ ClearGrant \/ ClearWakes
           \/ ProviderSignal
    BY <1>3, Zenon DEF BudgetFlags, ProvideCapacity, Clear, ClearGrant, ClearWakes,
       ProviderSignal, ProviderGo, AllocKept, WaiterKept, WakeClaimant
<1>4. CASE WaitChange \/ ReadCapacity \/ ReadWants \/ RampDue \/ Waiter
    BY <1>4, Zenon DEF BudgetFlags, WaitChange, ReadCapacity, ReadWants, RampDue, Waiter,
       WaitGrant, CheckGrant, RegisterGrant, RecheckGrant, WaiterGo, AllocGo, WaiterKept
<1>5. CASE Divide
    <2>1. timer' \in BOOLEAN
        BY <1>5 DEF Divide
    <2>2. due' = (IF due \/ ~timer THEN FALSE ELSE due)
          /\ UNCHANGED <<watch, quietZero, registered>>
        BY <1>5, Zenon DEF Divide, WaiterKept
    <2>3. due' \in BOOLEAN
        BY <2>2, Zenon DEF BudgetFlags
    <2>. QED
        BY <2>1, <2>2, <2>3, Zenon DEF BudgetFlags
<1>6. CASE Publish
    BY <1>6, Zenon DEF BudgetFlags, Publish, WakeClaimant, WaiterKept
<1>7. CASE CheckStale
    <2>1. watch' \in BOOLEAN
        BY <1>7 DEF CheckStale
    <2>. QED
        BY <1>7, <2>1, Zenon DEF BudgetFlags, CheckStale, WaiterKept
<1>8. CASE UNCHANGED budgetVars
    BY <1>8, Zenon DEF BudgetFlags, budgetVars
<1>. QED
    BY <1>1, <1>2, <1>3, <1>4, <1>5, <1>6, <1>7, <1>8 DEF BudgetNext, Allocator

\* Demands and capacities come from the calls, and the steps from the code.
LEMMA BudgetRestStep ==
    ASSUME BudgetRest, [BudgetNext]_budgetVars
    PROVE  BudgetRest'
<1>. USE BudgetAssumption
<1>1. ASSUME NEW i \in BSlot, \/ \E n \in Wants : Want(i, n)
                              \/ Release(i) \/ ReleaseGrant(i) \/ UserSignal(i)
      PROVE  BudgetRest'
    <2>1. UNCHANGED <<policy, capacity, provider, alloc, waiter>>
        BY <1>1 DEF Want, Release, ReleaseGrant, UserSignal, UserGo, AllocKept, WaiterKept
    <2>2. wants' \in [BSlot -> Wants \union {0}] /\ bcalls' \in 0..MaxCalls
        BY <1>1 DEF BudgetRest, Want, Release, ReleaseGrant, UserSignal
    <2>. QED
        BY <2>1, <2>2 DEF BudgetRest
<1>2. CASE (\E c \in Capacities : ProvideCapacity(c)) \/ Clear \/ ClearGrant \/ ClearWakes
           \/ ProviderSignal
    <2>1. UNCHANGED <<policy, wants, alloc>>
        BY <1>2 DEF ProvideCapacity, Clear, ClearGrant, ClearWakes, ProviderSignal,
               ProviderGo, AllocKept
    <2>2. provider' \in {"none", "zero", "wake", "signal"}
        BY <1>2 DEF ProvideCapacity, Clear, ClearGrant, ClearWakes, ProviderSignal,
               ProviderGo
    <2>3. waiter' \in {"none", "off", "check", "register", "recheck", "park"}
        BY <1>2 DEF BudgetRest, ProvideCapacity, Clear, ClearGrant, ClearWakes,
               ProviderSignal, WaiterKept, WakeClaimant
    <2>4. capacity' \in Capacities \union {0} /\ bcalls' \in 0..MaxCalls
        BY <1>2 DEF BudgetRest, ProvideCapacity, Clear, ClearGrant, ClearWakes,
               ProviderSignal
    <2>. QED
        BY <2>1, <2>2, <2>3, <2>4 DEF BudgetRest
<1>3. CASE Allocator
    <2>1. UNCHANGED <<policy, capacity, wants, provider, bcalls>>
        BY <1>3, Zenon DEF Allocator, WaitChange, ReadCapacity, ReadWants, Divide, Publish,
               CheckStale, AllocGo
    <2>2. CASE Publish
        BY <2>1, <2>2 DEF Publish, BudgetRest, AllocGo, WaiterKept, WakeClaimant
    <2>3. CASE WaitChange \/ ReadCapacity \/ ReadWants \/ Divide \/ CheckStale
        <3>1. waiter' = waiter
            BY <2>3, Zenon DEF WaitChange, ReadCapacity, ReadWants, Divide, CheckStale,
                   WaiterKept
        <3>2. alloc' \in {"wait", "cap", "wants", "grants", "publish"}
            BY <2>3, Zenon DEF WaitChange, ReadCapacity, ReadWants, Divide, CheckStale,
                   AllocGo
        <3>. QED
            BY <2>1, <3>1, <3>2 DEF BudgetRest
    <2>. QED
        BY <1>3, <2>2, <2>3 DEF Allocator
<1>4. CASE RampDue \/ Waiter \/ UNCHANGED budgetVars
    <2>1. UNCHANGED <<policy, capacity, wants, provider, alloc, bcalls>>
        BY <1>4 DEF RampDue, Waiter, WaitGrant, CheckGrant, RegisterGrant, RecheckGrant,
               WaiterGo, budgetVars
    <2>2. waiter' \in {"none", "off", "check", "register", "recheck", "park"}
        BY <1>4 DEF RampDue, WaiterKept, Waiter, WaitGrant, CheckGrant, RegisterGrant,
               RecheckGrant, WaiterGo, budgetVars, BudgetRest
    <2>. QED
        BY <2>1, <2>2 DEF BudgetRest
<1>. QED
    BY <1>1, <1>2, <1>3, <1>4 DEF BudgetNext

\* The type invariant of the budget.
LEMMA BudgetTypeHolds == BudgetInit /\ [][BudgetNext]_budgetVars => []BudgetTypeOK
<1>1. BudgetInit => BudgetRest /\ BudgetFlags
    <2>1. SUFFICES ASSUME BudgetInit PROVE BudgetRest /\ BudgetFlags
        OBVIOUS
    <2>2. BudgetFlags
        BY <2>1, Zenon DEF BudgetInit, BudgetFlags
    <2>3. BudgetRest
        BY <2>1, BudgetAssumption DEF BudgetInit, BudgetRest, None
    <2>. QED
        BY <2>2, <2>3
<1>2. BudgetInv /\ BudgetRest /\ BudgetFlags => BudgetTypeOK
    <2>1. SUFFICES ASSUME BudgetInv, BudgetRest, BudgetFlags PROVE BudgetTypeOK
        OBVIOUS
    <2>2. {watch, timer, due, registered, quietZero} \subseteq BOOLEAN
        BY <2>1, Zenon DEF BudgetFlags
    <2>. QED
        BY <2>1, <2>2 DEF BudgetInv, BudgetDataOK, BudgetRest, BudgetTypeOK
<1>. QED
    BY <1>1, <1>2, BudgetInvInit, BudgetInvStep, BudgetRestStep, BudgetFlagsStep, PTL

----------------------------------------------------------------------------
(* Leased, for every finite set of readers and every position of the top   *)
(* bit above their number: the word is exact, and a drained value has no   *)
(* holder.  The invariant is inductive as it stands: that a lease is never *)
(* granted while the value is closed follows from the word alone.          *)

LeasedInv == LeasedTypeOK /\ WordIsExact /\ DrainedIsFree

\* The leases can be counted, and the count stays below the top bit.
LEMMA HoldersCounted ==
    /\ IsFiniteSet(Holders)
    /\ Cardinality(Holders) \in Nat
    /\ Cardinality(Holders) < CLOSED
    /\ Cardinality(Holders) = 0 <=> Holders = {}
<1>1. IsFiniteSet(Reader) /\ Cardinality(Reader) \in Nat
    BY LeasedAssumption, FS_CardinalityType
<1>2. Holders \in SUBSET Reader
    BY DEF Holders
<1>3. IsFiniteSet(Holders) /\ Cardinality(Holders) <= Cardinality(Reader)
    BY <1>1, <1>2, FS_Subset
<1>4. Cardinality(Holders) \in Nat
    BY <1>3, FS_CardinalityType
<1>5. Cardinality(Holders) = 0 <=> Holders = {}
    BY <1>3, FS_EmptySet
<1>. QED
    BY <1>1, <1>3, <1>4, <1>5, LeasedAssumption

\* What an exact word says: the top bit is the producer's, the rest the count.
LEMMA WordReads ==
    ASSUME WordIsExact
    PROVE  /\ IsClosed(state) <=> producer # "open"
           /\ Count(state) = Cardinality(Holders)
BY HoldersCounted, LeasedAssumption DEF WordIsExact, IsClosed, Count

\* A step that leaves the readers alone leaves the holders alone.
LEMMA SameHolders ==
    ASSUME UNCHANGED reader
    PROVE  Holders' = Holders
BY DEF Holders

\* LeasedTypeOK, WordIsExact and DrainedIsFree hold initially.
LEMMA InitLeasedInv == LeasedInit => LeasedInv
<1>1. SUFFICES ASSUME LeasedInit PROVE LeasedInv
    OBVIOUS
<1>2. LeasedTypeOK /\ DrainedIsFree
    BY <1>1 DEF LeasedInit, LeasedTypeOK, DrainedIsFree
<1>3. Holders = {}
    BY <1>1 DEF LeasedInit, Holders
<1>4. WordIsExact
    BY <1>1, <1>3, FS_EmptySet DEF LeasedInit, WordIsExact
<1>. QED
    BY <1>2, <1>4 DEF LeasedInv

\* A granted lease adds one holder, and only to a value that is open.
LEMMA ExchangeLeasedInv ==
    ASSUME LeasedInv, NEW r \in Reader, Exchange(r)
    PROVE  LeasedInv'
<1>a. IsClosed(state) <=> producer # "open"
    BY WordReads DEF LeasedInv
<1>1. producer = "open" /\ state = Cardinality(Holders)
    BY <1>a, HoldersCounted DEF LeasedInv, WordIsExact, Exchange
<1>2. LeasedTypeOK'
    BY DEF LeasedInv, LeasedTypeOK, Exchange
<1>3. Holders' = Holders \union {r} /\ r \notin Holders
    BY DEF LeasedInv, LeasedTypeOK, Exchange, Holders
<1>4. Cardinality(Holders') = Cardinality(Holders) + 1
    BY <1>3, HoldersCounted, FS_AddElement
<1>5. WordIsExact' /\ DrainedIsFree'
    BY <1>1, <1>4 DEF WordIsExact, DrainedIsFree, Exchange
<1>. QED
    BY <1>2, <1>5 DEF LeasedInv

\* A dropped lease removes one holder.
LEMMA DropLeasedInv ==
    ASSUME LeasedInv, NEW r \in Reader, Drop(r)
    PROVE  LeasedInv'
<1>1. Holders' = Holders \ {r} /\ r \in Holders
    BY DEF LeasedInv, LeasedTypeOK, Drop, Holders
<1>2. Cardinality(Holders') = Cardinality(Holders) - 1
    BY <1>1, HoldersCounted, FS_RemoveElement
<1>3. Cardinality(Holders) \in Nat /\ Cardinality(Holders) # 0
    BY <1>1, HoldersCounted
<1>4. WordIsExact'
    BY <1>2, <1>3, LeasedAssumption DEF LeasedInv, WordIsExact, Drop
<1>5. LeasedTypeOK'
    BY <1>3, LeasedAssumption DEF LeasedInv, LeasedTypeOK, WordIsExact, Drop
<1>6. DrainedIsFree'
    BY <1>1 DEF LeasedInv, DrainedIsFree, Drop
<1>. QED
    BY <1>4, <1>5, <1>6 DEF LeasedInv

\* The other steps of a reader change neither the word nor the holders.
LEMMA QuietReadLeasedInv ==
    ASSUME LeasedInv, NEW r \in Reader,
           Load(r) \/ Refused(r) \/ Retry(r) \/ DropSignal(r)
    PROVE  LeasedInv'
<1>1. LeasedTypeOK'
    BY DEF LeasedInv, LeasedTypeOK, Load, Refused, Retry, DropSignal
<1>2. Holders' = Holders
    BY DEF LeasedInv, LeasedTypeOK, Load, Refused, Retry, DropSignal, Holders
<1>3. state' = state /\ producer' = producer
    BY DEF Load, Refused, Retry, DropSignal
<1>4. WordIsExact' /\ DrainedIsFree'
    BY <1>2, <1>3 DEF LeasedInv, WordIsExact, DrainedIsFree
<1>. QED
    BY <1>1, <1>4 DEF LeasedInv

\* The producer never changes the holders; it sets and clears the top bit only.
LEMMA ProduceLeasedInv ==
    ASSUME LeasedInv, Produce
    PROVE  LeasedInv'
<1>1. UNCHANGED <<cur, reader>>
    BY DEF Produce, Close, CheckCount, WaitIdle, CancelDrain, ReopenReset,
           ReopenClear
<1>2. Holders' = Holders
    BY <1>1, SameHolders
<1>3. /\ IsClosed(state) <=> producer # "open"
      /\ Count(state) = Cardinality(Holders)
    BY WordReads DEF LeasedInv
<1>4. Cardinality(Holders) \in Nat /\ CLOSED \in Nat
    BY HoldersCounted, LeasedAssumption
<1>5. CASE Close
    <2>1. state' = Cardinality(Holders) + CLOSED /\ producer' = "check"
        BY <1>3, <1>4, <1>5 DEF LeasedInv, WordIsExact, Close
    <2>2. LeasedTypeOK'
        BY <1>1, <1>4, <1>5, <2>1 DEF LeasedInv, LeasedTypeOK, Close
    <2>. QED
        BY <1>2, <2>1, <2>2 DEF LeasedInv, WordIsExact, DrainedIsFree
<1>6. CASE CheckCount
    <2>1. LeasedTypeOK'
        BY <1>6 DEF LeasedInv, LeasedTypeOK, CheckCount
    <2>2. WordIsExact'
        BY <1>2, <1>6 DEF LeasedInv, WordIsExact, CheckCount
    <2>3. DrainedIsFree'
        BY <1>2, <1>3, <1>6, HoldersCounted DEF DrainedIsFree, CheckCount
    <2>. QED
        BY <2>1, <2>2, <2>3 DEF LeasedInv
<1>7. CASE WaitIdle \/ CancelDrain \/ ReopenReset
    <2>1. LeasedTypeOK'
        BY <1>7 DEF LeasedInv, LeasedTypeOK, WaitIdle, CancelDrain, ReopenReset
    <2>2. WordIsExact'
        BY <1>2, <1>7 DEF LeasedInv, WordIsExact, WaitIdle, CancelDrain, ReopenReset
    <2>3. DrainedIsFree'
        BY <1>7 DEF DrainedIsFree, WaitIdle, CancelDrain, ReopenReset
    <2>. QED
        BY <2>1, <2>2, <2>3 DEF LeasedInv
<1>8. CASE ReopenClear
    <2>1. state' = Cardinality(Holders) /\ producer' = "open"
        BY <1>3, <1>8 DEF ReopenClear
    <2>2. LeasedTypeOK'
        BY <1>1, <1>4, <1>8, <2>1 DEF LeasedInv, LeasedTypeOK, ReopenClear
    <2>. QED
        BY <1>2, <1>4, <2>1, <2>2 DEF LeasedInv, WordIsExact, DrainedIsFree
<1>. QED
    BY <1>5, <1>6, <1>7, <1>8 DEF Produce

\* Every step keeps the invariant.
LEMMA NextLeasedInv == LeasedInv /\ [LeasedNext]_leasedVars => LeasedInv'
<1>1. SUFFICES ASSUME LeasedInv, [LeasedNext]_leasedVars PROVE LeasedInv'
    OBVIOUS
<1>2. CASE Produce
    BY <1>1, <1>2, ProduceLeasedInv
<1>3. ASSUME NEW r \in Reader, Read(r) PROVE LeasedInv'
    BY <1>1, <1>3, ExchangeLeasedInv, DropLeasedInv, QuietReadLeasedInv DEF Read
<1>4. CASE UNCHANGED leasedVars
    <2>1. LeasedTypeOK' /\ Holders' = Holders /\ state' = state /\ producer' = producer
        BY <1>1, <1>4 DEF LeasedInv, LeasedTypeOK, Holders, leasedVars
    <2>. QED
        BY <1>1, <2>1 DEF LeasedInv, WordIsExact, DrainedIsFree
<1>. QED
    BY <1>1, <1>2, <1>3, <1>4 DEF LeasedNext

\* The invariant holds in every behaviour.
LEMMA LeasedInvHolds == LeasedInit /\ [][LeasedNext]_leasedVars => []LeasedInv
BY InitLeasedInv, NextLeasedInv, PTL

\* Type correctness.
THEOREM LeasedTypeCorrect == LeasedSpec => []LeasedTypeOK
<1>1. LeasedInv => LeasedTypeOK
    BY DEF LeasedInv
<1>. QED
    BY <1>1, LeasedInvHolds, PTL DEF LeasedSpec

\* Between the return of drain() and reopen() no task holds a lease, however
\* many tasks lease the value and from whatever executors.
THEOREM DrainedIsFreeHolds == LeasedSpec => []DrainedIsFree
<1>1. LeasedInv => DrainedIsFree
    BY DEF LeasedInv
<1>. QED
    BY <1>1, LeasedInvHolds, PTL DEF LeasedSpec

\* The word counts exactly the live leases and its top bit is the producer's:
\* with fewer than 2^31 tasks no lease ever carries into the closed bit.
THEOREM WordIsExactHolds == LeasedSpec => []WordIsExact
<1>1. LeasedInv => WordIsExact
    BY DEF LeasedInv
<1>. QED
    BY <1>1, LeasedInvHolds, PTL DEF LeasedSpec

\* The drop that empties the holders owes the signal, and a drain parks only over
\* a count that is not zero.
LEMMA DropIsOwedHolds == LeasedInit /\ [][LeasedNext]_leasedVars => []DropIsOwed
<1>1. LeasedInit => DropIsOwed
    BY DEF LeasedInit, DropIsOwed
<1>2. LeasedInv /\ DropIsOwed /\ [LeasedNext]_leasedVars => DropIsOwed'
    <2>. SUFFICES ASSUME LeasedInv, DropIsOwed, [LeasedNext]_leasedVars
                  PROVE  DropIsOwed'
        OBVIOUS
    <2>0. /\ reader \in [Reader -> {"out", "leasing", "held", "signalling"}]
          /\ Count(state) = Cardinality(Holders)
        BY WordReads DEF LeasedInv, LeasedTypeOK
    <2>1. ASSUME NEW r \in Reader, Drop(r) PROVE DropIsOwed'
        <3>1. Holders' = Holders \ {r} /\ r \in Holders
            BY <2>0, <2>1 DEF Drop, Holders
        <3>2. Cardinality(Holders') = Cardinality(Holders) - 1
            BY <3>1, HoldersCounted, FS_RemoveElement
        <3>3. Holders' = {} => Cardinality(Holders) = 1
            BY <3>2, HoldersCounted, FS_EmptySet
        <3>4. Holders' = {} => reader'[r] = "signalling"
            BY <2>0, <2>1, <3>3 DEF Drop
        <3>. QED
            BY <3>4 DEF DropIsOwed
    <2>2. ASSUME NEW r \in Reader, DropSignal(r) PROVE DropIsOwed'
        BY <2>2 DEF DropSignal, DropIsOwed
    <2>3. ASSUME NEW r \in Reader, Exchange(r) PROVE DropIsOwed'
        <3>1. r \in Holders'
            BY <2>0, <2>3 DEF Exchange, Holders
        <3>. QED
            BY <3>1 DEF DropIsOwed
    <2>4. ASSUME NEW r \in Reader, Load(r) \/ Refused(r) \/ Retry(r) PROVE DropIsOwed'
        <3>1. Holders' = Holders
            BY <2>0, <2>4 DEF Load, Refused, Retry, Holders
        <3>2. \A q \in Reader : reader[q] = "signalling" => reader'[q] = "signalling"
            BY <2>0, <2>4 DEF Load, Refused, Retry
        <3>3. UNCHANGED <<idle, producer>>
            BY <2>4 DEF Load, Refused, Retry
        <3>. QED
            BY <3>1, <3>2, <3>3 DEF DropIsOwed
    <2>5. CASE CheckCount
        <3>1. producer' = "wait" => Count(state) # 0
            BY <2>5 DEF CheckCount
        <3>2. Holders' = Holders
            BY <2>5 DEF CheckCount, Holders
        <3>. QED
            BY <2>0, <3>1, <3>2, HoldersCounted DEF DropIsOwed
    <2>6. CASE Close \/ WaitIdle \/ CancelDrain \/ ReopenReset \/ ReopenClear
        BY <2>6 DEF Close, WaitIdle, CancelDrain, ReopenReset, ReopenClear, DropIsOwed
    <2>7. CASE UNCHANGED leasedVars
        BY <2>7 DEF leasedVars, DropIsOwed, Holders
    <2>. QED
        BY <2>1, <2>2, <2>3, <2>4, <2>5, <2>6, <2>7 DEF LeasedNext, Produce, Read
<1>. QED
    BY <1>1, <1>2, LeasedInvHolds, PTL
=============================================================================
