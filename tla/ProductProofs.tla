---------------------------- MODULE ProductProofs ----------------------------
(***************************************************************************)
(* What is built on and around the supervisor.  The demo firmware, for     *)
(* every HTTP pool, every mailbox bound and every set of watchdog periods  *)
(* that leaves a hog room: an update never costs the device its image, and *)
(* the watchdog bites for a stale node only.  The dataflow attribute, for  *)
(* every body, every set of cfgs and every build: a call's index is that   *)
(* of its own signal.  The graph macro, for every declaration: the order   *)
(* it computes respects the dependencies, or there is a cycle, and what it *)
(* accepts hands each member bits and slots of its own.                    *)
(***************************************************************************)
EXTENDS Ota, Dog, Dataflow, Decl, Induction, SequenceTheorems, FiniteSetTheorems, TLAPS

----------------------------------------------------------------------------
(* The flash.                                                              *)

\* In reset nothing that lives in RAM is left.
OffIsClean ==
    power = "off" =>
        /\ net = "down" /\ ~ready /\ workers = {} /\ told = {} /\ sup = "off"
        /\ confirm = "off" /\ ota = "off"

\* What each partition holds: the one that boots is whole, and so is the one
\* that an armed or an unconfirmed swap would boot next.
Whole == active \in Images /\ (magic = "swap" => dfu \in Images)

\* What the OTA task knows of the flash from one step to the next.
OtaKnows ==
    /\ ota \in {"loaded", "drain"} => staged \in {Other(active), "torn"}
    /\ ota = "mark" => dfu = Other(active) /\ magic = "boot"

\* Which image is proven: the one NET was ready on, the one that is kept, the one an
\* armed swap leaves, the one an unconfirmed swap returns to.
Proven ==
    /\ ready \/ confirm = "held" => active \in proven
    /\ magic = "boot" => active \in proven
    /\ magic = "swap" /\ ~swapped => active \in proven
    /\ magic = "swap" /\ swapped => dfu \in proven

FlashInv ==
    /\ magic \in {"boot", "swap"} /\ power \in {"off", "on"}
    /\ OffIsClean /\ Whole /\ OtaKnows /\ Proven

\* The bootloader swaps whole images, and swaps back to a proven one.
LEMMA BootFlashInv ==
    ASSUME FlashInv, Bootloader
    PROVE  FlashInv'
<1>1. CASE magic = "swap"
    BY <1>1 DEF FlashInv, OffIsClean, Whole, OtaKnows, Proven, Bootloader,
           netVars
<1>2. CASE magic = "boot"
    BY <1>2 DEF FlashInv, OffIsClean, Whole, OtaKnows, Proven, Bootloader, netVars,
           flashVars
<1>. QED
    BY <1>1, <1>2 DEF FlashInv

\* A reset forgets what OTA was doing and leaves the flash as it is.
LEMMA ResetFlashInv ==
    ASSUME FlashInv, Reset
    PROVE  FlashInv'
BY DEF FlashInv, OffIsClean, Whole, OtaKnows, Proven, Reset, flashVars

\* The network's and the workers' steps leave the flash alone; a network that has
\* its address proves the active image.
LEMMA ServeFlashInv ==
    ASSUME FlashInv, Serve
    PROVE  FlashInv'
<1>1. UNCHANGED <<active, dfu, magic, swapped, power, staged, confirm, ota, sup>>
    BY DEF Serve, NetPublish, NetReady, NetDrained, Post, Quit, Grow, Shrink,
           ServeFrame, flashVars, graphVars
<1>2. /\ proven' = proven \/ proven' = proven \union {active}
      /\ ready' => ready \/ active \in proven'
    BY DEF Serve, NetPublish, NetReady, NetDrained, Post, Quit, Grow, Shrink,
           ServeFrame, netVars
<1>3. power = "on"
    BY DEF FlashInv, OffIsClean, Serve, NetPublish, NetReady, NetDrained, Post, Quit,
           Grow, Shrink
<1>. QED
    BY <1>1, <1>2, <1>3 DEF FlashInv, OffIsClean, Whole, OtaKnows, Proven

\* So do the supervisor's, which may start OTA and withdraw NET's readiness.
LEMMA GraphFlashInv ==
    ASSUME FlashInv, Graph
    PROVE  FlashInv'
<1>1. UNCHANGED <<active, dfu, magic, swapped, power, staged, confirm, proven>>
    BY DEF Graph, Command, TellWorkers, TellNet, Stopped, AckMissed, Started, StartNext,
           StartFault, GraphFrame, ServeFrame, flashVars
<1>2. ready' => ready
    BY DEF Graph, Command, TellWorkers, TellNet, Stopped, AckMissed, Started, StartNext,
           StartFault, Spawn
<1>3. ota' \in {ota, "ask"}
    BY DEF Graph, Command, TellWorkers, TellNet, Stopped, AckMissed, Started, StartNext,
           StartFault, Spawn
<1>4. power = "on"
    BY DEF FlashInv, OffIsClean, Graph, Command, TellWorkers, TellNet, Stopped, AckMissed,
           Started, StartNext, StartFault, Turn, Waves
<1>. QED
    BY <1>1, <1>2, <1>3, <1>4 DEF FlashInv, OffIsClean, Whole, OtaKnows, Proven

\* OTA arms the swap for the whole image it decoded, which is not the active one.
LEMMA OtaFlashInv ==
    ASSUME FlashInv, OtaTask
    PROVE  FlashInv'
<1>1. CASE AskHttp \/ PolledHttp
    BY <1>1 DEF FlashInv, OffIsClean, Whole, OtaKnows, Proven, AskHttp, PolledHttp,
           OpenSocket, OtaFrame, netVars, poolVars, graphVars, flashVars
<1>2. CASE Download \/ AskNet
    BY <1>2 DEF FlashInv, OffIsClean, Whole, OtaKnows, Proven, Download, AskNet, OtaFrame,
           netVars, poolVars, graphVars, flashVars
<1>3. CASE Decode
    BY <1>3 DEF FlashInv, OffIsClean, Whole, OtaKnows, Proven, Decode, OtaFrame,
           netVars, poolVars, graphVars
<1>4. CASE MarkUpdated
    BY <1>4 DEF FlashInv, OffIsClean, Whole, OtaKnows, Proven, MarkUpdated, netVars,
           poolVars, graphVars, Images, Other
<1>5. CASE OtaReset
    BY <1>5, ResetFlashInv DEF OtaReset
<1>. QED
    BY <1>1, <1>2, <1>3, <1>4, <1>5 DEF OtaTask

\* ota_confirm keeps an image that has been on the network.
LEMMA ConfirmFlashInv ==
    ASSUME FlashInv, Confirm
    PROVE  FlashInv'
<1>1. CASE ConfirmRun \/ ConfirmAsk \/ ConfirmOpen
    BY <1>1 DEF FlashInv, OffIsClean, Whole, OtaKnows, Proven, ConfirmRun, ConfirmAsk,
           ConfirmOpen, ConfirmFrame, netVars, poolVars, graphVars, flashVars, Waves
<1>2. CASE MarkBooted
    BY <1>2 DEF FlashInv, OffIsClean, Whole, OtaKnows, Proven, MarkBooted,
           ConfirmFrame, netVars, poolVars, graphVars
<1>. QED
    BY <1>1, <1>2 DEF Confirm

\* The invariant of the flash holds in every behaviour.
LEMMA FlashInvHolds == OtaSpec => []FlashInv
<1>1. OtaInit => FlashInv
    BY DEF OtaInit, FlashInv, OffIsClean, Whole, OtaKnows, Proven, Images
<1>2. FlashInv /\ UNCHANGED otaVars => FlashInv'
    BY DEF FlashInv, OffIsClean, Whole, OtaKnows, Proven, otaVars, flashVars, netVars,
           poolVars, graphVars
<1>3. FlashInv /\ [OtaNext]_otaVars => FlashInv'
    BY <1>2, BootFlashInv, ResetFlashInv, ServeFlashInv, GraphFlashInv, OtaFlashInv,
       ConfirmFlashInv
       DEF OtaNext, Crash
<1>. QED
    BY <1>1, <1>3, PTL DEF OtaSpec

\* Wherever a reset, a watchdog or a power cut lands in an update, the device
\* starts a whole image, has a whole one to fall back to, and keeps only one that
\* has been on the network.
THEOREM UpdateIsSafeHolds == OtaSpec => []UpdateIsSafe
<1>1. FlashInv => UpdateIsSafe
    BY DEF FlashInv, Whole, Proven, Images, UpdateIsSafe, NeverBricked, KeptIsProven
<1>. QED
    BY <1>1, FlashInvHolds, PTL

----------------------------------------------------------------------------
(* The sockets.                                                            *)

Commands == {"activate", "deactivate", "restart"} \X Nodes

\* What a start wave has yet to start is not disabled, and not detached.
StartsAsChosen ==
    sup \in Waves =>
        /\ "HTTP" \in starting => "HTTP" \notin disabled
        /\ "OTA" \in starting => ota = "off"

\* The pool's members that run are members, and the mailbox holds commands; once OTA
\* has its socket after the pool's stop was handled, the pool has nobody running, is
\* disabled, and is enabled by nothing in the mailbox.
SocketInv ==
    /\ workers \subseteq HTTP
    /\ otaMail \in Seq(Commands) /\ StartsAsChosen
    /\ otaHeld => ota = "receive" /\ (early \/ (workers = {} /\ PoolIsOut))

\* The running workers can be counted, and are no more than the pool.
LEMMA WorkersCounted ==
    ASSUME SocketInv
    PROVE  /\ Cardinality(workers) \in Nat /\ SOCKET_BUDGET \in Nat \ {0}
           /\ Cardinality(workers) <= SOCKET_BUDGET
           /\ workers = {} => Cardinality(workers) = 0
<1>1. IsFiniteSet(HTTP) /\ HTTP # {}
    BY OtaAssumption
<1>2. IsFiniteSet(workers) /\ Cardinality(workers) <= Cardinality(HTTP)
    BY <1>1, FS_Subset DEF SocketInv
<1>3. Cardinality(workers) \in Nat /\ Cardinality(HTTP) \in Nat
    BY <1>1, <1>2, FS_CardinalityType
<1>4. Cardinality(HTTP) # 0
    BY <1>1, FS_EmptySet
<1>5. workers = {} => Cardinality(workers) = 0
    BY FS_EmptySet
<1>. QED
    BY <1>2, <1>3, <1>4, <1>5 DEF SOCKET_BUDGET

\* A command that is sent comes last.
LEMMA SentIsLast ==
    ASSUME NEW c \in Commands, otaMail \in Seq(Commands), OtaSend(c)
    PROVE  /\ otaMail' \in Seq(Commands)
           /\ \A i \in 1..Len(otaMail') :
                 otaMail'[i] = c \/ (i \in 1..Len(otaMail) /\ otaMail'[i] = otaMail[i])
BY DEF OtaSend

\* The one that is taken was the first.
LEMMA TakenIsFirst ==
    ASSUME otaMail \in Seq(Commands), otaMail # <<>>, otaMail' = Tail(otaMail)
    PROVE  /\ otaMail' \in Seq(Commands)
           /\ 1 \in 1..Len(otaMail) /\ Head(otaMail) = otaMail[1]
           /\ \A i \in 1..Len(otaMail') :
                 i + 1 \in 1..Len(otaMail) /\ otaMail'[i] = otaMail[i + 1]
OBVIOUS

\* A pool that is out does not grow, and its last worker has posted its last command.
LEMMA ServeSocketInv ==
    ASSUME SocketInv, Serve
    PROVE  SocketInv'
<1>1. UNCHANGED <<otaHeld, early, disabled, ota, sup, starting>>
    BY DEF Serve, NetPublish, NetReady, NetDrained, Post, Quit, Grow, Shrink,
           ServeFrame, graphVars
<1>. StartsAsChosen'
    BY <1>1 DEF SocketInv, StartsAsChosen
<1>2. workers' \subseteq HTTP
    BY DEF SocketInv, Serve, NetPublish, NetReady, NetDrained, Post, Quit, Grow, Shrink,
           poolVars
<1>3. CASE Post
    <2>1. PICK op \in {"activate", "deactivate", "restart"}, n \in Nodes :
             OtaSend(<<op, n>>)
        BY <1>3 DEF Post
    <2>2. otaMail' \in Seq(Commands)
        BY <2>1, SentIsLast DEF SocketInv, Commands
    <2>3. workers # {}
        BY <1>3 DEF Post
    <2>. QED
        BY <1>1, <1>2, <2>2, <2>3 DEF SocketInv
<1>4. CASE \/ NetPublish \/ NetReady \/ NetDrained
           \/ \E w \in HTTP : Quit(w) \/ Grow(w) \/ Shrink(w)
    <2>1. otaMail' = otaMail
        BY <1>4 DEF NetPublish, NetReady, NetDrained, Quit, Grow, Shrink
    <2>2. workers = {} /\ PoolIsOut => workers' = {}
        BY <1>4 DEF NetPublish, NetReady, NetDrained, Quit, Grow, Shrink, poolVars,
               PoolIsOut
    <2>3. PoolIsOut => PoolIsOut'
        BY <1>1, <2>1 DEF PoolIsOut
    <2>. QED
        BY <1>1, <1>2, <2>1, <2>2, <2>3 DEF SocketInv
<1>. QED
    BY <1>3, <1>4 DEF Serve

\* Neither a command of the mailbox nor a start wave brings it back.
LEMMA GraphSocketInv ==
    ASSUME SocketInv, Graph
    PROVE  SocketInv'
<1>1. UNCHANGED <<otaHeld, early>> /\ (otaHeld => ota' = ota)
    BY DEF SocketInv, StartsAsChosen, Graph, Command, TellWorkers, TellNet, Stopped,
           AckMissed, Started, StartNext, StartFault, Turn, Spawn, GraphFrame, ServeFrame
<1>2. Floor \in HTTP
    BY OtaAssumption DEF Floor
<1>3. workers' \subseteq HTTP
    BY <1>2 DEF SocketInv, Graph, Command, TellWorkers, TellNet, Stopped, AckMissed,
           Started, StartNext, StartFault, Spawn, poolVars
<1>. StartsAsChosen'
    <2>1. CASE Command
        <3>1. PICK n \in Nodes :
                 ActivateNode(n) \/ DeactivateNode(n) \/ RestartNode(n)
            BY <2>1 DEF Command
        <3>. QED
            BY <2>1, <3>1 DEF Command, ActivateNode, DeactivateNode, RestartNode, Rerun,
                   Chosen, Detached, StartsAsChosen, Waves
    <2>2. CASE TellWorkers \/ TellNet \/ Stopped \/ AckMissed
        BY <2>2 DEF TellWorkers, TellNet, Stopped, AckMissed, Rerun, Chosen, Detached,
               graphVars, SocketInv, StartsAsChosen
    <2>3. CASE Started
        BY <2>3 DEF Started, Rerun, Chosen, Detached, SocketInv, StartsAsChosen, Waves
    <2>4. CASE \E n \in Nodes : StartNext(n) \/ StartFault(n)
        BY <2>4 DEF StartNext, StartFault, Turn, Spawn, Rerun, Chosen, Detached, SocketInv,
               StartsAsChosen, Waves
    <2>. QED
        BY <2>1, <2>2, <2>3, <2>4 DEF Graph
<1>4. CASE Command
    <2>1. otaMail # <<>> /\ otaMail' = Tail(otaMail) /\ workers' = workers
        BY <1>4 DEF Command, poolVars
    <2>2. /\ otaMail' \in Seq(Commands)
          /\ 1 \in 1..Len(otaMail) /\ Head(otaMail) = otaMail[1]
          /\ \A i \in 1..Len(otaMail') :
                i + 1 \in 1..Len(otaMail) /\ otaMail'[i] = otaMail[i + 1]
        BY <2>1, TakenIsFirst DEF SocketInv
    <2>3. ASSUME PoolIsOut PROVE "HTTP" \in disabled'
        <3>1. PICK n \in Nodes :
                 \/ Head(otaMail) = <<"activate", n>> /\ ActivateNode(n)
                 \/ DeactivateNode(n) \/ RestartNode(n)
            BY <1>4 DEF Command
        <3>2. CASE DeactivateNode(n) \/ RestartNode(n)
            BY <2>3, <3>2 DEF PoolIsOut, DeactivateNode, RestartNode
        <3>3. CASE Head(otaMail) = <<"activate", n>> /\ ActivateNode(n)
            <4>1. "HTTP" \notin Wanted(n)
                BY <2>2, <2>3, <3>3 DEF PoolIsOut
            <4>2. n # "HTTP"
                BY <4>1 DEF Wanted
            <4>3. disabled' = disabled
                        \ ((IF n \in Detached THEN {n} ELSE Wanted(n)) \ Detached)
                BY <3>3 DEF ActivateNode
            <4>. QED
                BY <2>3, <4>1, <4>2, <4>3 DEF PoolIsOut
        <3>. QED
            BY <3>1, <3>2, <3>3
    <2>4. PoolIsOut => PoolIsOut'
        BY <2>2, <2>3 DEF PoolIsOut, Wanted
    <2>. QED
        BY <1>1, <2>1, <2>2, <2>4 DEF SocketInv
<1>5. CASE \/ TellWorkers \/ TellNet \/ Stopped \/ AckMissed \/ Started
           \/ \E n \in Nodes : StartNext(n) \/ StartFault(n)
    <2>1. otaMail' = otaMail /\ disabled' = disabled
        BY <1>5 DEF TellWorkers, TellNet, Stopped, AckMissed, Started, StartNext,
               StartFault, graphVars
    <2>2. "HTTP" \in disabled => workers' = workers
        BY <1>5 DEF TellWorkers, TellNet, Stopped, AckMissed, Started, StartNext,
               StartFault, Turn, Spawn, poolVars, SocketInv, StartsAsChosen
    <2>3. PoolIsOut => PoolIsOut'
        BY <2>1 DEF PoolIsOut, Wanted
    <2>. QED
        BY <1>1, <1>3, <2>1, <2>2, <2>3 DEF SocketInv, PoolIsOut
<1>. QED
    BY <1>4, <1>5 DEF Graph

\* OTA opens its socket when it has seen no worker run, and closes it when the
\* download is over.
LEMMA OtaSocketInv ==
    ASSUME SocketInv, OtaTask
    PROVE  SocketInv'
<1>. StartsAsChosen'
    BY DEF OtaTask, AskHttp, PolledHttp, OpenSocket, Download, AskNet, Decode, MarkUpdated,
           OtaReset, Reset, OtaFrame, graphVars, SocketInv, StartsAsChosen, Waves
<1>1. CASE AskHttp \/ AskNet
    <2>1. workers' = workers /\ ~otaHeld /\ ~otaHeld'
        BY <1>1 DEF AskHttp, AskNet, OtaFrame, poolVars, SocketInv
    <2>2. PICK n \in Nodes : OtaSend(<<"deactivate", n>>)
        BY <1>1 DEF AskHttp, AskNet, Nodes
    <2>3. otaMail' \in Seq(Commands)
        BY <2>2, SentIsLast DEF SocketInv, Commands
    <2>. QED
        BY <2>1, <2>3 DEF SocketInv
<1>2. CASE PolledHttp
    <2>1. /\ workers = {} /\ workers' = workers
          /\ disabled' = disabled /\ otaMail' = otaMail
          /\ early' <=> ~PoolIsOut
          /\ otaHeld' => ota' = "receive"
        BY <1>2 DEF PolledHttp, OpenSocket, OtaFrame, poolVars, graphVars
    <2>2. PoolIsOut => PoolIsOut'
        BY <2>1 DEF PoolIsOut, Wanted
    <2>. QED
        BY <2>1, <2>2 DEF SocketInv
<1>3. CASE Download \/ Decode \/ MarkUpdated
    <2>1. UNCHANGED <<workers, otaMail>> /\ ~otaHeld'
        BY <1>3 DEF Download, Decode, MarkUpdated, OtaFrame, poolVars, SocketInv
    <2>. QED
        BY <2>1 DEF SocketInv
<1>4. CASE OtaReset
    BY <1>4 DEF OtaReset, Reset, SocketInv
<1>. QED
    BY <1>1, <1>2, <1>3, <1>4 DEF OtaTask

\* ota_confirm asks for NET only, which does not bring the pool with it.
LEMMA ConfirmSocketInv ==
    ASSUME SocketInv, Confirm
    PROVE  SocketInv'
<1>1. UNCHANGED <<workers, disabled, otaHeld, early, ota, sup, starting>>
    BY DEF Confirm, ConfirmRun, ConfirmAsk, ConfirmOpen, MarkBooted, ConfirmFrame,
           poolVars, graphVars
<1>. StartsAsChosen'
    BY <1>1 DEF SocketInv, StartsAsChosen
<1>2. CASE ConfirmAsk
    <2>1. OtaSend(<<"activate", "NET">>) /\ <<"activate", "NET">> \in Commands
        BY <1>2 DEF ConfirmAsk, Commands, Nodes
    <2>2. /\ otaMail' \in Seq(Commands)
          /\ \A i \in 1..Len(otaMail') :
                \/ otaMail'[i] = <<"activate", "NET">>
                \/ i \in 1..Len(otaMail) /\ otaMail'[i] = otaMail[i]
        BY <2>1, SentIsLast DEF SocketInv
    <2>3. "HTTP" \notin Wanted("NET")
        BY DEF Wanted, Deps
    <2>4. PoolIsOut => PoolIsOut'
        BY <1>1, <2>2, <2>3 DEF PoolIsOut, Wanted
    <2>. QED
        BY <1>1, <2>2, <2>4 DEF SocketInv
<1>3. CASE ConfirmRun \/ ConfirmOpen \/ MarkBooted
    <2>1. otaMail' = otaMail
        BY <1>3 DEF ConfirmRun, ConfirmOpen, MarkBooted
    <2>2. PoolIsOut => PoolIsOut'
        BY <1>1, <2>1 DEF PoolIsOut, Wanted
    <2>. QED
        BY <1>1, <2>1, <2>2 DEF SocketInv
<1>. QED
    BY <1>2, <1>3 DEF Confirm

\* The sockets stay in the budget of the stack, while workers post commands for any
\* node and waves fault and miss their deadlines, unless OTA polled the pool before
\* its stop was handled or with the pool's return already in the mailbox.
THEOREM SocketsInBudgetHolds == OtaSpec => []SocketsInBudgetBelow
<1>1. OtaInit => SocketInv
    BY DEF OtaInit, SocketInv, StartsAsChosen, Waves
<1>2. SocketInv /\ [OtaNext]_otaVars => SocketInv'
    <2>1. SUFFICES ASSUME SocketInv, [OtaNext]_otaVars PROVE SocketInv'
        OBVIOUS
    <2>2. CASE Bootloader \/ UNCHANGED otaVars
        <3>1. UNCHANGED <<workers, disabled, otaMail, otaHeld, early, ota>>
            BY <2>2 DEF Bootloader, poolVars, graphVars, otaVars
        <3>2. PoolIsOut => PoolIsOut'
            BY <3>1 DEF PoolIsOut, Wanted
        <3>3. StartsAsChosen'
            BY <2>1, <2>2 DEF Bootloader, Rerun, Chosen, Detached, poolVars, graphVars,
                   otaVars, SocketInv, StartsAsChosen
        <3>. QED
            BY <2>1, <3>1, <3>2, <3>3 DEF SocketInv
    <2>3. CASE Crash
        BY <2>3 DEF Crash, Reset, SocketInv, StartsAsChosen, Waves
    <2>. QED
        BY <2>1, <2>2, <2>3, ServeSocketInv, GraphSocketInv, OtaSocketInv,
           ConfirmSocketInv
           DEF OtaNext
<1>3. SocketInv => SocketsInBudgetBelow
    BY WorkersCounted DEF SocketInv, SocketsInBudgetBelow
<1>. QED
    BY <1>1, <1>2, <1>3, PTL DEF OtaSpec

----------------------------------------------------------------------------
(* The watchdog.                                                           *)

\* A watchdog last fed when due runs at most a feed period without a hog; one
\* hog that began before the feed was due delays it by what is left of the hog.
FedInTime ==
    ~stale /\ hogs # "excess" =>
        /\ chip = "run"
        /\ hogs = "none" => hog = 0
        /\ nextFeed > 0 \/ hogs = "none" => unfed + nextFeed <= FeedEvery
        /\ hogs = "one" => unfed + hog < FeedEvery + HogMax

DogInv ==
    /\ unfed \in Nat /\ nextFeed \in 0..FeedEvery /\ hog \in 0..HogMax
    /\ stale \in BOOLEAN /\ hogs \in {"none", "one", "excess"}
    /\ FedInTime

\* A feed that is due loads the watchdog, or is withheld for a stale node.
LEMMA FeedDogInv ==
    ASSUME DogInv, Feed
    PROVE  DogInv'
<1>1. /\ hog = 0 /\ hog' = hog /\ nextFeed' = FeedEvery /\ chip' = "run"
      /\ unfed' = IF FedNodesFresh THEN 0 ELSE unfed
      /\ hogs' = "none"
    BY DEF Feed
<1>2. stale' \in BOOLEAN /\ (FedNodesFresh \/ stale')
    BY Zenon DEF Feed
<1>. QED
    BY <1>1, <1>2, DogAssumption DEF DogInv, FedInTime

\* A hog that begins with the feed still to come is cut to what the timeout
\* leaves.
LEMMA HogDogInv ==
    ASSUME DogInv, Hog
    PROVE  DogInv'
BY DogAssumption DEF DogInv, FedInTime, Hog

\* Time passes for the watchdog, the feed and the hog alike.
LEMMA TickDogInv ==
    ASSUME DogInv, Ticks
    PROVE  DogInv'
BY DogAssumption DEF DogInv, FedInTime, Ticks

\* The watchdog bites only after a feed was withheld for a stale node, or after
\* more than one hog between two feeds.
THEOREM BiteIsEarnedHolds == DogSpec => []BiteIsEarned
<1>1. DogInit => DogInv
    <2>1. DogInit => stale \in BOOLEAN
        BY Zenon DEF DogInit
    <2>. QED
        BY <2>1, DogAssumption DEF DogInit, DogInv, FedInTime
<1>2. DogInv /\ [DogNext]_dogVars => DogInv'
    <2>1. SUFFICES ASSUME DogInv, [DogNext]_dogVars PROVE DogInv'
        OBVIOUS
    <2>2. CASE \/ TakeHeartEvent \/ HeartBeat \/ Reread \/ PauseResume
               \/ SetPeriod \/ Report \/ UNCHANGED dogVars
        BY <2>1, <2>2 DEF DogInv, FedInTime, TakeHeartEvent, HeartBeat, Reread,
               PauseResume, SetPeriod, Report, dogVars
    <2>. QED
        BY <2>1, <2>2, FeedDogInv, HogDogInv, TickDogInv DEF DogNext
<1>3. DogInv => BiteIsEarned
    BY DEF DogInv, FedInTime, BiteIsEarned
<1>. QED
    BY <1>1, <1>2, <1>3, PTL DEF DogSpec

----------------------------------------------------------------------------
(* Laying out a table.                                                     *)

\* The table after its first k entries, of which those in I are compiled.
LayStep(s, I, h, k) ==
    IF k = 0 THEN <<>> ELSE IF k \in I THEN Append(h[k - 1], s[k]) ELSE h[k - 1]

\* There is such a sequence of tables.
LEMMA LayExists ==
    ASSUME NEW V, NEW s \in Seq(V), NEW I
    PROVE  \E h \in [0..Len(s) -> Seq(V)] : \A k \in 0..Len(s) : h[k] = LayStep(s, I, h, k)
<1>. DEFINE N == Len(s)
            Good(h, n) == \A k \in 0..N : k <= n => h[k] = LayStep(s, I, h, k)
            P == {n \in Nat : \E h \in [0..N -> Seq(V)] : Good(h, n)}
<1>0. N \in Nat /\ \A k \in 1..N : s[k] \in V
    OBVIOUS
<1>. HIDE DEF N
<1>1. 0 \in P
    <2>. DEFINE h == [k \in 0..N |-> <<>>]
    <2>1. h \in [0..N -> Seq(V)]
        OBVIOUS
    <2>2. Good(h, 0)
        BY <1>0 DEF LayStep
    <2>. QED BY <2>1, <2>2
<1>2. ASSUME NEW n \in Nat, n \in P PROVE n + 1 \in P
    <2>1. PICK g \in [0..N -> Seq(V)] : Good(g, n)
        BY <1>2
    <2>. DEFINE h == [k \in 0..N |-> IF k = n + 1 THEN LayStep(s, I, g, k) ELSE g[k]]
    <2>2. ASSUME NEW k \in 0..N PROVE LayStep(s, I, g, k) \in Seq(V)
        <3>1. CASE k = 0 BY <3>1 DEF LayStep
        <3>2. CASE k > 0
            <4>1. k - 1 \in 0..N /\ k \in 1..N
                BY <1>0, <3>2
            <4>2. g[k - 1] \in Seq(V) /\ s[k] \in V
                BY <1>0, <4>1
            <4>3. Append(g[k - 1], s[k]) \in Seq(V)
                BY <4>2
            <4>. QED BY <3>2, <4>2, <4>3 DEF LayStep
        <3>. QED BY <1>0, <3>1, <3>2
    <2>3. h \in [0..N -> Seq(V)]
        BY <2>2
    <2>4. ASSUME NEW k \in 0..N, k <= n + 1 PROVE h[k] = LayStep(s, I, h, k)
        <3>1. k # 0 => h[k - 1] = g[k - 1]
            BY <1>0, <2>4
        <3>2. LayStep(s, I, h, k) = LayStep(s, I, g, k)
            <4>. HIDE DEF h
            <4>. QED BY <3>1 DEF LayStep
        <3>3. h[k] = LayStep(s, I, g, k)
            BY <1>0, <2>1, <2>4
        <3>. QED BY <3>2, <3>3
    <2>5. Good(h, n + 1)
        BY <2>4
    <2>. HIDE DEF h, Good
    <2>. QED BY <2>3, <2>5
<1>3. N \in P
    <2>. HIDE DEF P
    <2>. QED BY <1>0, <1>1, <1>2, NatSetInduction
<1>4. PICK h \in [0..N -> Seq(V)] : Good(h, N)
    BY <1>3
<1>5. \A k \in 0..N : h[k] = LayStep(s, I, h, k)
    BY <1>0, <1>4
<1>. QED BY <1>4, <1>5 DEF N

\* How many of the first k entries are compiled.
Before(I, k) == {j \in 1..k : j \in I}

\* One more entry, one more of them.
LEMMA BeforeGrows ==
    ASSUME NEW I, NEW k \in Nat
    PROVE  /\ Cardinality(Before(I, k)) \in Nat
           /\ Cardinality(Before(I, 0)) = 0
           /\ Cardinality(Before(I, k + 1)) =
                 IF k + 1 \in I THEN Cardinality(Before(I, k)) + 1 ELSE Cardinality(Before(I, k))
<1>1. IsFiniteSet(Before(I, k)) /\ k + 1 \notin Before(I, k)
    <2>1. IsFiniteSet(1..k) /\ Before(I, k) \in SUBSET (1..k)
        BY FS_Interval DEF Before
    <2>2. k + 1 \notin Before(I, k)
        BY DEF Before
    <2>. QED BY <2>1, <2>2, FS_Subset
<1>2. Before(I, 0) = {}
    BY DEF Before
<1>3. Before(I, k + 1) = IF k + 1 \in I THEN Before(I, k) \cup {k + 1} ELSE Before(I, k)
    BY DEF Before
<1>4. Cardinality(Before(I, k)) \in Nat
    BY <1>1, FS_CardinalityType
<1>5. Cardinality(Before(I, 0)) = 0
    BY <1>2, FS_EmptySet
<1>6. Cardinality(Before(I, k) \cup {k + 1}) = Cardinality(Before(I, k)) + 1
    BY <1>1, FS_AddElement
<1>. QED BY <1>3, <1>4, <1>5, <1>6

\* Entry e is found at `at' in table t.
Found(t, at, e) == at \in DOMAIN t /\ t[at] = e

\* A compiled entry is laid out right after those compiled before it.
LEMMA LaidAt ==
    ASSUME NEW V, NEW s \in Seq(V), NEW I,
           NEW h \in [0..Len(s) -> Seq(V)], \A k \in 0..Len(s) : h[k] = LayStep(s, I, h, k),
           NEW i \in 1..Len(s), i \in I
    PROVE  Found(h[Len(s)], 1 + Cardinality(Before(I, i - 1)), s[i])
<1>. DEFINE N == Len(s)
            C(k) == Cardinality(Before(I, k))
            At(k) == 1 + C(i - 1) \in 1..Len(h[k]) /\ h[k][1 + C(i - 1)] = s[i]
            P == {k \in Nat : k <= N => Len(h[k]) = C(k) /\ (k >= i => At(k))}
<1>0. N \in Nat /\ i \in Nat /\ i >= 1 /\ i <= N /\ \A k \in 1..N : s[k] \in V
    OBVIOUS
<1>. HIDE DEF N
<1>1. 0 \in P
    <2>1. h[0] = <<>>
        BY <1>0 DEF LayStep, N
    <2>2. C(0) = 0
        BY BeforeGrows
    <2>. QED BY <1>0, <2>1, <2>2
<1>2. ASSUME NEW k \in Nat, k \in P PROVE k + 1 \in P
    <2>. SUFFICES ASSUME k + 1 <= N
                  PROVE  Len(h[k + 1]) = C(k + 1) /\ (k + 1 >= i => At(k + 1))
        OBVIOUS
    <2>1. k \in 0..N /\ k + 1 \in 0..N /\ k + 1 \in 1..N /\ k + 1 # 0 /\ (k + 1) - 1 = k
        BY <1>0
    <2>2. h[k] \in Seq(V) /\ s[k + 1] \in V /\ Len(h[k]) = C(k) /\ (k >= i => At(k))
        BY <1>0, <1>2, <2>1 DEF N
    <2>3. h[k + 1] = IF k + 1 \in I THEN Append(h[k], s[k + 1]) ELSE h[k]
        <3>1. h[k + 1] = LayStep(s, I, h, k + 1)
            BY <2>1 DEF N
        <3>. QED BY <2>1, <3>1 DEF LayStep
    <2>4. C(k) \in Nat /\ C(k + 1) = IF k + 1 \in I THEN C(k) + 1 ELSE C(k)
        BY BeforeGrows
    <2>5. i - 1 \in Nat /\ C(i - 1) \in Nat
        BY <1>0, BeforeGrows
    <2>. HIDE DEF C
    <2>6. Len(h[k + 1]) = C(k + 1)
        <3>1. Len(Append(h[k], s[k + 1])) = Len(h[k]) + 1
            BY <2>2, AppendProperties
        <3>. QED BY <2>2, <2>3, <2>4, <3>1
    <2>7. CASE k >= i
        <3>1. At(k)
            BY <2>2, <2>7
        <3>2. Append(h[k], s[k + 1])[1 + C(i - 1)] = h[k][1 + C(i - 1)]
            BY <2>2, <2>5, <3>1
        <3>. QED BY <2>2, <2>3, <2>4, <2>5, <2>6, <3>1, <3>2
    <2>8. CASE k + 1 = i
        <3>1. i - 1 = k /\ k + 1 \in I
            BY <1>0, <2>8
        <3>2. Append(h[k], s[k + 1])[Len(h[k]) + 1] = s[k + 1]
            BY <2>2, AppendProperties
        <3>3. At(k + 1)
            BY <2>2, <2>3, <2>4, <2>6, <2>8, <3>1, <3>2
        <3>. QED BY <2>6, <3>3
    <2>9. CASE k + 1 < i
        BY <1>0, <2>6, <2>9
    <2>. QED BY <1>0, <2>7, <2>8, <2>9
<1>3. N \in P
    <2>. HIDE DEF P
    <2>. QED BY <1>0, <1>1, <1>2, NatSetInduction
<1>4. At(N) /\ h[N] \in Seq(V)
    BY <1>0, <1>3 DEF N
<1>. QED BY <1>4 DEF N, Found


\* An entry of the table, p, is entry i of the list, after those kept before it.
From(t, I, s, i, p) == i \in I /\ p = 1 + Cardinality(Before(I, i - 1)) /\ t[p] = s[i]

\* Nothing else is in the table.
LEMMA LaidFrom ==
    ASSUME NEW V, NEW s \in Seq(V), NEW I,
           NEW h \in [0..Len(s) -> Seq(V)], \A k \in 0..Len(s) : h[k] = LayStep(s, I, h, k)
    PROVE  /\ Len(h[Len(s)]) = Cardinality(Before(I, Len(s)))
           /\ \A p \in 1..Len(h[Len(s)]) : \E i \in 1..Len(s) : From(h[Len(s)], I, s, i, p)
<1>. DEFINE N == Len(s)
            C(k) == Cardinality(Before(I, k))
            All(k) == \A p \in 1..Len(h[k]) : \E i \in 1..k : From(h[k], I, s, i, p)
            P == {k \in Nat : k <= N => Len(h[k]) = C(k) /\ All(k)}
<1>0. N \in Nat /\ \A k \in 1..N : s[k] \in V
    OBVIOUS
<1>. HIDE DEF N
<1>1. 0 \in P
    <2>1. h[0] = <<>>
        BY <1>0 DEF LayStep, N
    <2>2. C(0) = 0
        BY BeforeGrows
    <2>. QED BY <1>0, <2>1, <2>2
<1>2. ASSUME NEW k \in Nat, k \in P PROVE k + 1 \in P
    <2>. SUFFICES ASSUME k + 1 <= N
                  PROVE  Len(h[k + 1]) = C(k + 1) /\ All(k + 1)
        OBVIOUS
    <2>1. k \in 0..N /\ k + 1 \in 0..N /\ k + 1 \in 1..N /\ k + 1 # 0 /\ (k + 1) - 1 = k
        BY <1>0
    <2>2. h[k] \in Seq(V) /\ s[k + 1] \in V /\ Len(h[k]) = C(k) /\ All(k)
        BY <1>0, <1>2, <2>1 DEF N
    <2>3. h[k + 1] = IF k + 1 \in I THEN Append(h[k], s[k + 1]) ELSE h[k]
        <3>1. h[k + 1] = LayStep(s, I, h, k + 1)
            BY <2>1 DEF N
        <3>. QED BY <2>1, <3>1 DEF LayStep
    <2>4. C(k) \in Nat /\ C(k + 1) = IF k + 1 \in I THEN C(k) + 1 ELSE C(k)
        BY BeforeGrows
    <2>5. CASE k + 1 \notin I
        <3>1. h[k + 1] = h[k] /\ C(k + 1) = C(k)
            BY <2>3, <2>4, <2>5
        <3>2. All(k + 1)
            BY <2>2, <3>1
        <3>. QED BY <2>2, <3>1, <3>2
    <2>6. CASE k + 1 \in I
        <3>. DEFINE t == Append(h[k], s[k + 1])
        <3>1. /\ Len(t) = Len(h[k]) + 1 /\ t[Len(h[k]) + 1] = s[k + 1]
              /\ \A p \in 1..Len(h[k]) : t[p] = h[k][p]
            BY <2>2, AppendProperties
        <3>2. h[k + 1] = t /\ C(k + 1) = C(k) + 1
            BY <2>3, <2>4, <2>6
        <3>. HIDE DEF t
        <3>3. ASSUME NEW p \in 1..Len(t) PROVE \E i \in 1..(k + 1) : From(t, I, s, i, p)
            <4>1. CASE p \in 1..Len(h[k])
                <5>1. PICK i \in 1..k : From(h[k], I, s, i, p)
                    BY <2>2, <4>1
                <5>2. From(t, I, s, i, p)
                    BY <3>1, <4>1, <5>1 DEF From
                <5>. QED BY <5>2
            <4>2. CASE p = Len(h[k]) + 1
                <5>1. p = 1 + C((k + 1) - 1)
                    BY <2>1, <2>2, <2>4, <4>2
                <5>2. From(t, I, s, k + 1, p)
                    BY <2>6, <3>1, <4>2, <5>1 DEF From
                <5>. QED BY <5>2
            <4>. QED BY <2>2, <3>1, <3>3, <4>1, <4>2
        <3>. QED BY <2>2, <2>4, <3>1, <3>2, <3>3
    <2>. QED BY <2>5, <2>6
<1>3. N \in P
    <2>. HIDE DEF P
    <2>. QED BY <1>0, <1>1, <1>2, NatSetInduction
<1>. QED BY <1>0, <1>3 DEF N

\* Kept is such a table.
LEMMA KeptIsLaid ==
    ASSUME NEW V, NEW list \in Seq(V), NEW I
    PROVE  \E h \in [0..Len(list) -> Seq(V)] :
               /\ \A k \in 0..Len(list) : h[k] = LayStep(list, I, h, k)
               /\ Kept(list, I) = h[Len(list)]
<1>. DEFINE N == Len(list)
            h == CHOOSE g : g = [k \in 0..N |->
                    IF k = 0 THEN <<>>
                    ELSE IF k \in I THEN Append(g[k - 1], list[k]) ELSE g[k - 1]]
<1>0. N \in Nat
    OBVIOUS
<1>1. Kept(list, I) = h[N]
    BY DEF Kept
<1>3. PICK g \in [0..N -> Seq(V)] : \A k \in 0..N : g[k] = LayStep(list, I, g, k)
    <2>. HIDE DEF h
    <2>. QED BY LayExists
<1>4. g = [k \in 0..N |->
            IF k = 0 THEN <<>>
            ELSE IF k \in I THEN Append(g[k - 1], list[k]) ELSE g[k - 1]]
    <2>. HIDE DEF h, N
    <2>. QED BY <1>3 DEF LayStep
<1>5. h = [k \in 0..N |->
            IF k = 0 THEN <<>>
            ELSE IF k \in I THEN Append(h[k - 1], list[k]) ELSE h[k - 1]]
    <2>. HIDE DEF N
    <2>. QED BY <1>4, Zenon
<1>6. \A k \in 0..N : h[k] = LayStep(list, I, h, k)
    <2>. HIDE DEF h, N
    <2>. QED BY <1>5 DEF LayStep
<1>7. h \in [0..N -> Seq(V)]
    <2>. DEFINE P == {k \in Nat : k <= N => h[k] \in Seq(V)}
    <2>. HIDE DEF h
    <2>1. 0 \in P
        <3>1. h[0] = <<>>
            <4>. HIDE DEF N
            <4>1. 0 \in 0..N
                BY <1>0
            <4>. QED BY <1>6, <4>1 DEF LayStep
        <3>2. h[0] \in Seq(V)
            BY <3>1
        <3>. QED BY <3>2
    <2>2. ASSUME NEW k \in Nat, k \in P PROVE k + 1 \in P
        <3>. SUFFICES ASSUME k + 1 <= N PROVE h[k + 1] \in Seq(V)
            OBVIOUS
        <3>1. k + 1 \in 0..N /\ k + 1 \in 1..N /\ k + 1 # 0 /\ (k + 1) - 1 = k /\ h[k] \in Seq(V)
            BY <1>0, <2>2
        <3>2. list[k + 1] \in V
            BY <3>1
        <3>3. h[k + 1] = IF k + 1 \in I THEN Append(h[k], list[k + 1]) ELSE h[k]
            BY <1>6, <3>1 DEF LayStep
        <3>4. Append(h[k], list[k + 1]) \in Seq(V)
            BY <3>1, <3>2, AppendProperties
        <3>. QED BY <3>1, <3>3, <3>4
    <2>3. Nat \subseteq P
        <3>. HIDE DEF P
        <3>. QED BY <2>1, <2>2, NatSetInduction
    <2>4. \A k \in 0..N : h[k] \in Seq(V)
        BY <2>3, <1>0
    <2>5. DOMAIN h = 0..N
        <3>. HIDE DEF N
        <3>. QED BY <1>5
    <2>6. h = [k \in 0..N |-> h[k]]
        <3>. HIDE DEF N
        <3>. QED BY <1>5, <2>5
    <2>. QED BY <2>4, <2>6
<1>. HIDE DEF h
<1>. QED BY <1>1, <1>6, <1>7

\* What Kept keeps: each of the entries it is to keep, after those kept before
\* it, and nothing else.
LEMMA KeptHolds ==
    ASSUME NEW V, NEW list \in Seq(V), NEW I
    PROVE  /\ Kept(list, I) \in Seq(V)
           /\ Len(Kept(list, I)) = Cardinality(Before(I, Len(list)))
           /\ \A i \in 1..Len(list) : i \in I =>
                  Found(Kept(list, I), 1 + Cardinality(Before(I, i - 1)), list[i])
           /\ \A p \in 1..Len(Kept(list, I)) :
                  \E i \in 1..Len(list) : From(Kept(list, I), I, list, i, p)
<1>1. PICK h \in [0..Len(list) -> Seq(V)] :
               /\ \A k \in 0..Len(list) : h[k] = LayStep(list, I, h, k)
               /\ Kept(list, I) = h[Len(list)]
    BY KeptIsLaid
<1>2. Kept(list, I) \in Seq(V)
    BY <1>1
<1>3. /\ Len(Kept(list, I)) = Cardinality(Before(I, Len(list)))
      /\ \A p \in 1..Len(Kept(list, I)) :
             \E i \in 1..Len(list) : From(Kept(list, I), I, list, i, p)
    <2>1. /\ Len(h[Len(list)]) = Cardinality(Before(I, Len(list)))
          /\ \A p \in 1..Len(h[Len(list)]) :
                 \E i \in 1..Len(list) : From(h[Len(list)], I, list, i, p)
        BY <1>1, LaidFrom
    <2>. QED BY <1>1, <2>1
<1>4. ASSUME NEW i \in 1..Len(list), i \in I
      PROVE  Found(Kept(list, I), 1 + Cardinality(Before(I, i - 1)), list[i])
    BY <1>1, <1>4, LaidAt
<1>. QED BY <1>2, <1>3, <1>4

\* derived_prefix_expr counts what the compiler lays out: a compiled entry of a
\* table is found at its prefix.
LEMMA PrefixIsPlace ==
    ASSUME NEW V, NEW list \in Seq(V), NEW F, NEW i \in 1..Len(list), Included(list[i], F)
    PROVE  Found(Layout(list, F), 1 + Prefix(list, i, F), list[i])
<1>. DEFINE I == {k \in DOMAIN list : Included(list[k], F)}
<1>1. i \in I /\ \A j \in 1..Len(list) : j \in I <=> Included(list[j], F)
    OBVIOUS
<1>2. Layout(list, F) = Kept(list, I)
    BY DEF Layout
<1>. HIDE DEF I
<1>3. Found(Kept(list, I), 1 + Cardinality(Before(I, i - 1)), list[i])
    BY <1>1, KeptHolds
<1>4. Prefix(list, i, F) = Cardinality(Before(I, i - 1))
    <2>1. \A j \in 1..(i - 1) : j \in 1..Len(list)
        OBVIOUS
    <2>2. {j \in 1..(i - 1) : Included(list[j], F)} = Before(I, i - 1)
        BY <1>1, <2>1 DEF Before
    <2>. QED BY <2>2 DEF Prefix
<1>. QED BY <1>2, <1>3, <1>4

----------------------------------------------------------------------------
(* Recording a call.                                                       *)

Entry == [path : Signals, alts : SUBSET SUBSET CallFlags]

\* One entry per path.
Distinct(list) == \A j, k \in DOMAIN list : list[j].path = list[k].path => j = k

\* The table has an entry for path, compiled wherever all of cfgs hold.
Names(list, path, cfgs) ==
    \E k \in DOMAIN list : list[k].path = path /\ \E alt \in list[k].alts : alt \subseteq cfgs

\* record_derived names the call, keeps what was named and repeats no path.
LEMMA RecordNames ==
    ASSUME NEW list \in Seq(Entry), Distinct(list),
           NEW path \in Signals, NEW cfgs \in SUBSET CallFlags
    PROVE  LET new == RecordDerived(list, path, cfgs)
           IN  /\ new \in Seq(Entry) /\ Distinct(new)
               /\ \A g : cfgs \subseteq g => Names(new, path, g)
               /\ \A p, g : Names(list, p, g) => Names(new, p, g)
<1>. DEFINE new == RecordDerived(list, path, cfgs)
<1>0. Len(list) \in Nat /\ DOMAIN list = 1..Len(list) /\ \A k \in DOMAIN list : list[k] \in Entry
    OBVIOUS
<1>1. CASE \E k \in DOMAIN list : list[k].path = path
    <2>. DEFINE up(e) == IF e.path = path THEN [e EXCEPT !.alts = @ \cup {cfgs}] ELSE e
    <2>1. new = [k \in DOMAIN list |-> up(list[k])]
        BY <1>1 DEF RecordDerived
    <2>2. ASSUME NEW e \in Entry
          PROVE  /\ up(e) \in Entry /\ up(e).path = e.path /\ e.alts \subseteq up(e).alts
                 /\ e.path = path => cfgs \in up(e).alts
        BY DEF Entry
    <2>. HIDE DEF new, up
    <2>3. DOMAIN new = DOMAIN list /\ \A k \in DOMAIN list : new[k] = up(list[k])
        BY <2>1
    <2>4. \A k \in DOMAIN list : new[k] \in Entry /\ new[k].path = list[k].path
                                  /\ list[k].alts \subseteq new[k].alts
                                  /\ (list[k].path = path => cfgs \in new[k].alts)
        BY <1>0, <2>2, <2>3
    <2>5. new \in Seq(Entry)
        <3>1. new = [k \in 1..Len(list) |-> new[k]]
            BY <1>0, <2>1, <2>3
        <3>. QED BY <1>0, <2>4, <3>1
    <2>6. Distinct(new)
        BY <2>3, <2>4 DEF Distinct
    <2>7. \A g : cfgs \subseteq g => Names(new, path, g)
        BY <1>1, <2>3, <2>4 DEF Names
    <2>8. \A p, g : Names(list, p, g) => Names(new, p, g)
        BY <2>3, <2>4 DEF Names
    <2>. QED BY <2>5, <2>6, <2>7, <2>8 DEF new
<1>2. CASE ~\E k \in DOMAIN list : list[k].path = path
    <2>. DEFINE e == [path |-> path, alts |-> {cfgs}]
    <2>1. new = Append(list, e)
        BY <1>2 DEF RecordDerived
    <2>2. e \in Entry /\ e.path = path /\ cfgs \in e.alts
        BY DEF Entry
    <2>. HIDE DEF new, e
    <2>3. /\ new \in Seq(Entry) /\ Len(new) = Len(list) + 1
          /\ new[Len(list) + 1] = e /\ \A k \in 1..Len(list) : new[k] = list[k]
        BY <2>1, <2>2, AppendProperties
    <2>4. DOMAIN new = 1..(Len(list) + 1) /\ DOMAIN list \subseteq DOMAIN new
        BY <1>0, <2>3
    <2>5. Distinct(new)
        <3>1. SUFFICES ASSUME NEW j \in DOMAIN new, NEW k \in DOMAIN new, new[j].path = new[k].path
                       PROVE  j = k
            BY DEF Distinct
        <3>2. \A i \in DOMAIN new : i = Len(list) + 1 \/ i \in DOMAIN list
            BY <1>0, <2>4
        <3>3. \A i \in DOMAIN list : new[i].path = list[i].path /\ list[i].path # path
            BY <1>0, <1>2, <2>3
        <3>4. new[Len(list) + 1].path = path
            BY <2>2, <2>3
        <3>. QED BY <3>1, <3>2, <3>3, <3>4 DEF Distinct
    <2>6. \A g : cfgs \subseteq g => Names(new, path, g)
        BY <1>0, <2>2, <2>3, <2>4 DEF Names
    <2>7. \A p, g : Names(list, p, g) => Names(new, p, g)
        BY <1>0, <2>3, <2>4 DEF Names
    <2>. QED BY <2>3, <2>5, <2>6, <2>7 DEF new
<1>. QED BY <1>1, <1>2

\* A call of direction w recorded in the tables t.
LEMMA TableRecords ==
    ASSUME NEW D, NEW t \in [D -> Seq(Entry)], \A w \in D : Distinct(t[w]),
           NEW w \in D, NEW path \in Signals, NEW cfgs \in SUBSET CallFlags
    PROVE  LET u == [t EXCEPT ![w] = RecordDerived(@, path, cfgs)]
           IN  /\ u \in [D -> Seq(Entry)] /\ \A x \in D : Distinct(u[x])
               /\ \A g : cfgs \subseteq g => Names(u[w], path, g)
               /\ \A x \in D : \A p, g : Names(t[x], p, g) => Names(u[x], p, g)
<1>. DEFINE new == RecordDerived(t[w], path, cfgs)
            u == [t EXCEPT ![w] = RecordDerived(@, path, cfgs)]
<1>1. /\ new \in Seq(Entry) /\ Distinct(new)
      /\ \A g : cfgs \subseteq g => Names(new, path, g)
      /\ \A p, g : Names(t[w], p, g) => Names(new, p, g)
    BY RecordNames
<1>2. u = [t EXCEPT ![w] = new]
    OBVIOUS
<1>. HIDE DEF new
<1>3. u \in [D -> Seq(Entry)] /\ \A x \in D : u[x] = IF x = w THEN new ELSE t[x]
    BY <1>1, <1>2
<1>. HIDE DEF u
<1>4. (\A x \in D : Distinct(u[x])) /\ u[w] = new
    BY <1>1, <1>3
<1>5. \A x \in D : \A p, g : Names(t[x], p, g) => Names(u[x], p, g)
    BY <1>1, <1>3
<1>6. \A g : cfgs \subseteq g => Names(u[w], path, g)
    BY <1>1, <1>4
<1>. QED BY <1>3, <1>4, <1>5, <1>6 DEF u

----------------------------------------------------------------------------
(* The invariant.                                                          *)

Level == [walk : SUBSET CallFlags, real : SUBSET CallFlags]

\* What the walker believes governs a call does: at every open group, and for
\* the group around one, whose predicates the walker returns to at a brace.
ScopeInv ==
    /\ scope \in Seq(Level) /\ Len(scope) >= 1
    /\ \A k \in 1..Len(scope) : scope[k].walk \subseteq scope[k].real
    /\ \A k \in 1..(Len(scope) - 1) : scope[k].walk \subseteq scope[k + 1].real

TableInv(t) == t \in [BOOLEAN -> Seq(Entry)] /\ \A w \in BOOLEAN : Distinct(t[w])

CallInv ==
    /\ verbCalls \subseteq [write : BOOLEAN, path : Signals, cfgs : SUBSET CallFlags]
    /\ \A c \in verbCalls : /\ Names(derived[c.write], c.path, c.cfgs)
                            /\ Names(bundle[c.write], c.path, c.cfgs \cup fnCfgs)
    /\ step = "verbs" => verbCalls = {}

DataInv ==
    /\ verbs \in [DOMAIN verbs -> BOOLEAN]
    /\ fnCfgs \in SUBSET CallFlags
    /\ step \in {"verbs", "body", "emitted", "rejected"}
    /\ ScopeInv
    /\ TableInv(derived) /\ TableInv(bundle)
    /\ CallInv

\* Before the first attribute the tables and the calls are empty.
LEMMA DataInitInv == DataInit => DataInv
<1>. SUFFICES ASSUME DataInit PROVE DataInv
    OBVIOUS
<1>1. verbs \in [DOMAIN verbs -> BOOLEAN]
    BY DEF DataInit
<1>2. ScopeInv
    BY DEF DataInit, ScopeInv, Bare, Level
<1>3. TableInv(NoTable)
    <2>1. <<>> \in Seq(Entry) /\ Distinct(<<>>)
        BY DEF Distinct
    <2>2. \A w \in BOOLEAN : NoTable[w] = <<>>
        BY Zenon DEF NoTable
    <2>3. NoTable \in [BOOLEAN -> Seq(Entry)]
        BY <2>1, Zenon DEF NoTable
    <2>. QED BY <2>1, <2>2, <2>3, Zenon DEF TableInv
<1>4. CallInv
    BY DEF DataInit, CallInv
<1>. QED BY <1>1, <1>2, <1>3, <1>4 DEF DataInit, DataInv

\* The calls keep their entries when neither tables nor fn change.
LEMMA CallsKept ==
    ASSUME CallInv, UNCHANGED <<derived, bundle, verbCalls, fnCfgs>>, step' = "verbs" => step = "verbs"
    PROVE  CallInv'
    BY Zenon DEF CallInv

\* A step that leaves the tables and the fn alone.
LEMMA QuietKept ==
    ASSUME DataInv, ScopeInv', UNCHANGED <<verbs, fnCfgs, derived, bundle, verbCalls>>,
           step' \in {"verbs", "body", "emitted", "rejected"}, step' = "verbs" => step = "verbs"
    PROVE  DataInv'
<1>1. CallInv'
    BY CallsKept DEF DataInv
<1>. QED BY <1>1 DEF DataInv, TableInv

\* A step that opens and closes no group.
LEMMA ScopeSame ==
    ASSUME ScopeInv, scope' = scope PROVE ScopeInv'
    BY DEF ScopeInv

\* A custom verb has a direction.
LEMMA RegisterVerbInv ==
    ASSUME DataInv, NEW v, NEW w \in BOOLEAN, RegisterVerb(v, w) PROVE DataInv'
<1>1. CallInv' /\ ScopeInv'
    BY CallsKept, ScopeSame DEF DataInv, RegisterVerb
<1>2. verbs' \in [DOMAIN verbs' -> BOOLEAN]
    <2>1. CASE v \in Known
        BY <2>1, Zenon DEF DataInv, RegisterVerb
    <2>2. CASE v \notin Known
        <3>1. verbs' = [u \in DOMAIN verbs \cup {v} |-> IF u = v THEN w ELSE verbs[u]]
            BY <2>2, Zenon DEF RegisterVerb
        <3>2. \A u \in DOMAIN verbs : verbs[u] \in BOOLEAN
            BY Zenon DEF DataInv
        <3>3. \A u \in DOMAIN verbs \cup {v} : (IF u = v THEN w ELSE verbs[u]) \in BOOLEAN
            BY <3>2, Zenon
        <3>4. verbs' \in [DOMAIN verbs \cup {v} -> BOOLEAN]
            BY <3>1, <3>3, Zenon
        <3>5. DOMAIN verbs' = DOMAIN verbs \cup {v}
            BY <3>4, Zenon
        <3>. QED BY <3>4, <3>5, Zenon
    <2>. QED BY <2>1, <2>2
<1>3. step' \in {"verbs", "rejected"}
    BY DEF RegisterVerb
<1>. QED BY <1>1, <1>2, <1>3 DEF DataInv, RegisterVerb, TableInv

\* The fn's own cfgs come before its first call.
LEMMA OpenBodyInv ==
    ASSUME DataInv, NEW cfgs \in SUBSET CallFlags, OpenBody(cfgs) PROVE DataInv'
<1>1. verbCalls = {} /\ verbCalls' = {} /\ step' = "body"
    BY DEF DataInv, CallInv, OpenBody
<1>2. CallInv'
    BY <1>1 DEF CallInv
<1>3. ScopeInv'
    BY ScopeSame DEF DataInv, OpenBody
<1>. QED BY <1>1, <1>2, <1>3 DEF DataInv, OpenBody, TableInv

\* The next fn starts with no calls; the bundle keeps its table.
LEMMA NextFnInv ==
    ASSUME DataInv, NextFn PROVE DataInv'
<1>1. TableInv(NoTable)
    <2>1. <<>> \in Seq(Entry) /\ Distinct(<<>>)
        BY DEF Distinct
    <2>2. \A w \in BOOLEAN : NoTable[w] = <<>>
        BY Zenon DEF NoTable
    <2>3. NoTable \in [BOOLEAN -> Seq(Entry)]
        BY <2>1, Zenon DEF NoTable
    <2>. QED BY <2>1, <2>2, <2>3, Zenon DEF TableInv
<1>2. CallInv'
    BY DEF CallInv, NextFn
<1>3. ScopeInv'
    BY DEF NextFn, ScopeInv, Bare, Level
<1>4. verbs' \in [DOMAIN verbs' -> BOOLEAN]
    BY DEF NextFn
<1>. QED BY <1>1, <1>2, <1>3, <1>4 DEF DataInv, NextFn, TableInv

\* The tables are emitted as they are.
LEMMA CloseBodyInv ==
    ASSUME DataInv, CloseBody PROVE DataInv'
<1>1. ScopeInv'
    BY ScopeSame DEF DataInv, CloseBody
<1>. QED BY <1>1, QuietKept DEF CloseBody

\* A step that changes only the open groups.
LEMMA TokenKept ==
    ASSUME DataInv, Token, Quiet, ScopeInv' PROVE DataInv'
    BY QuietKept DEF Token, Quiet, DataInv

\* A cfg governs what follows it, for walker and compiler alike.
LEMMA AttributeInv ==
    ASSUME DataInv, NEW p \in CallFlags, Attribute(p) PROVE DataInv'
<1>. DEFINE n == Len(scope)
            top == [walk |-> scope[n].walk \cup {p}, real |-> scope[n].real \cup {p}]
<1>1. scope \in Seq(Level) /\ n \in Nat /\ n >= 1 /\ scope[n] \in Level
    BY DEF DataInv, ScopeInv
<1>2. scope' = [scope EXCEPT ![n] = top]
    BY <1>1 DEF Attribute, Group
<1>3. top \in Level /\ top.walk = scope[n].walk \cup {p} /\ top.real = scope[n].real \cup {p}
    BY <1>1 DEF Level
<1>4. ScopeInv'
    <2>. HIDE DEF top
    <2>1. scope' \in Seq(Level) /\ Len(scope') = n /\ scope'[n] = top
          /\ \A k \in 1..n : k # n => scope'[k] = scope[k]
        BY <1>1, <1>2, <1>3
    <2>2. \A k \in 1..n : scope'[k].walk \subseteq scope'[k].real
        BY <1>1, <1>3, <2>1 DEF DataInv, ScopeInv
    <2>3. \A k \in 1..(n - 1) : scope'[k].walk \subseteq scope'[k + 1].real
        BY <1>1, <1>3, <2>1 DEF DataInv, ScopeInv
    <2>. QED BY <1>1, <2>1, <2>2, <2>3 DEF ScopeInv
<1>. QED BY <1>4, TokenKept DEF Attribute

\* A group starts with what governs it.
LEMMA OpenGroupInv ==
    ASSUME DataInv, OpenGroup PROVE DataInv'
<1>. DEFINE n == Len(scope)
<1>1. scope \in Seq(Level) /\ n \in Nat /\ n >= 1 /\ scope[n] \in Level
    BY DEF DataInv, ScopeInv
<1>2. scope' = Append(scope, scope[n])
    BY DEF OpenGroup, Group
<1>3. scope' \in Seq(Level) /\ Len(scope') = n + 1 /\ scope'[n + 1] = scope[n]
      /\ \A k \in 1..n : scope'[k] = scope[k]
    BY <1>1, <1>2, AppendProperties
<1>4. ScopeInv'
    BY <1>1, <1>3 DEF DataInv, ScopeInv
<1>. QED BY <1>4, TokenKept DEF OpenGroup

\* The walker never ends a statement too late: it falls back on the predicates
\* of the group around, which still govern.
LEMMA SeparatorInv ==
    ASSUME DataInv, NEW ends \in BOOLEAN, Separator(ends) PROVE DataInv'
<1>. DEFINE n == Len(scope)
            outer == IF n = 1 THEN {} ELSE scope[n - 1].walk
            real == IF n = 1 THEN {} ELSE scope[n - 1].real
            top == [walk |-> outer, real |-> IF ends THEN real ELSE scope[n].real]
<1>1. scope \in Seq(Level) /\ n \in Nat /\ n >= 1 /\ scope[n] \in Level
    BY DEF DataInv, ScopeInv
<1>2. scope' = [scope EXCEPT ![n] = top]
    BY <1>1 DEF Separator, Group
<1>3. /\ outer \in SUBSET CallFlags /\ real \in SUBSET CallFlags
      /\ outer \subseteq real /\ outer \subseteq scope[n].real
      /\ n > 1 => outer = scope[n - 1].walk
    <2>1. CASE n = 1
        <3>1. outer = {} /\ real = {}
            BY <2>1
        <3>. HIDE DEF outer, real
        <3>. QED BY <2>1, <3>1
    <2>2. CASE n > 1
        <3>1. outer = scope[n - 1].walk /\ real = scope[n - 1].real
            <4>. HIDE DEF n
            <4>. QED BY <2>2
        <3>2. n - 1 \in 1..Len(scope) /\ n - 1 \in 1..(Len(scope) - 1) /\ (n - 1) + 1 = n
            BY <1>1, <2>2
        <3>3. scope[n - 1] \in Level
            BY <1>1, <3>2
        <3>4. /\ scope[n - 1].walk \subseteq scope[n - 1].real
              /\ scope[n - 1].walk \subseteq scope[n].real
            BY <3>2 DEF DataInv, ScopeInv
        <3>5. scope[n - 1].walk \in SUBSET CallFlags /\ scope[n - 1].real \in SUBSET CallFlags
            <4>. HIDE DEF n
            <4>. QED BY <3>3 DEF Level
        <3>. QED BY <3>1, <3>4, <3>5, Zenon
    <2>3. n = 1 \/ n > 1
        <3>. HIDE DEF n
        <3>. QED BY <1>1
    <2>. QED BY <2>1, <2>2, <2>3, Zenon
<1>. HIDE DEF outer, real
<1>4. top \in Level /\ top.walk = outer /\ (top.real = real \/ top.real = scope[n].real)
    <2>1. scope[n].real \in SUBSET CallFlags
        BY <1>1 DEF Level
    <2>. HIDE DEF n
    <2>. QED BY <1>3, <2>1 DEF Level
<1>5. ScopeInv'
    <2>. HIDE DEF top
    <2>1. scope' \in Seq(Level) /\ Len(scope') = n /\ scope'[n] = top
          /\ \A k \in 1..n : k # n => scope'[k] = scope[k]
        BY <1>1, <1>2, <1>4
    <2>2. \A k \in 1..n : scope'[k].walk \subseteq scope'[k].real
        BY <1>1, <1>3, <1>4, <2>1 DEF DataInv, ScopeInv
    <2>3. \A k \in 1..(n - 1) : scope'[k].walk \subseteq scope'[k + 1].real
        BY <1>1, <1>3, <1>4, <2>1 DEF DataInv, ScopeInv
    <2>. QED BY <1>1, <2>1, <2>2, <2>3 DEF ScopeInv
<1>. QED BY <1>5, TokenKept DEF Separator

\* The same at a closing brace, where it falls back by one group more.
LEMMA CloseGroupInv ==
    ASSUME DataInv, NEW brace \in BOOLEAN, NEW ends \in BOOLEAN, CloseGroup(brace, ends)
    PROVE  DataInv'
<1>. DEFINE n == Len(scope)
            outer == IF n = 2 THEN {} ELSE scope[n - 2].walk
            real == IF n = 2 THEN {} ELSE scope[n - 2].real
            up == scope[n - 1]
            top == [walk |-> IF brace THEN outer ELSE up.walk,
                    real |-> IF ends THEN real ELSE up.real]
            low == SubSeq(scope, 1, n - 2)
<1>1. scope \in Seq(Level) /\ n \in Nat /\ n >= 2 /\ (ends => brace)
    BY DEF DataInv, ScopeInv, CloseGroup, Group
<1>2. scope' = Append(low, top)
    BY <1>1 DEF CloseGroup, Group
<1>3. /\ outer \in SUBSET CallFlags /\ real \in SUBSET CallFlags
      /\ outer \subseteq real /\ outer \subseteq up.real
      /\ n > 2 => outer = scope[n - 2].walk
    <2>1. CASE n = 2
        <3>1. outer = {} /\ real = {}
            BY <2>1
        <3>. HIDE DEF outer, real
        <3>. QED BY <2>1, <3>1
    <2>2. CASE n > 2
        <3>1. outer = scope[n - 2].walk /\ real = scope[n - 2].real
            <4>. HIDE DEF n
            <4>. QED BY <2>2
        <3>2. n - 2 \in 1..Len(scope) /\ n - 2 \in 1..(Len(scope) - 1) /\ (n - 2) + 1 = n - 1
            BY <1>1, <2>2
        <3>3. scope[n - 2] \in Level
            BY <1>1, <3>2
        <3>4. /\ scope[n - 2].walk \subseteq scope[n - 2].real
              /\ scope[n - 2].walk \subseteq scope[n - 1].real
            BY <3>2 DEF DataInv, ScopeInv
        <3>5. scope[n - 2].walk \in SUBSET CallFlags /\ scope[n - 2].real \in SUBSET CallFlags
            <4>. HIDE DEF n
            <4>. QED BY <3>3 DEF Level
        <3>. QED BY <3>1, <3>4, <3>5, Zenon
    <2>3. n = 2 \/ n > 2
        <3>. HIDE DEF n
        <3>. QED BY <1>1
    <2>. QED BY <2>1, <2>2, <2>3, Zenon
<1>4. /\ up \in Level /\ up.walk \in SUBSET CallFlags /\ up.real \in SUBSET CallFlags
      /\ up.walk \subseteq up.real
    <2>1. n - 1 \in 1..Len(scope)
        BY <1>1
    <2>2. scope[n - 1] \in Level /\ scope[n - 1].walk \subseteq scope[n - 1].real
        BY <1>1, <2>1 DEF DataInv, ScopeInv
    <2>. HIDE DEF n
    <2>. QED BY <2>2 DEF Level
<1>. HIDE DEF outer, real, up
<1>5. top \in Level /\ outer \subseteq top.real /\ top.walk \subseteq top.real
    BY <1>1, <1>3, <1>4 DEF Level
<1>6. low \in Seq(Level) /\ Len(low) = n - 2 /\ \A k \in 1..(n - 2) : low[k] = scope[k]
    <2>1. \A k \in 1..(n - 2) : scope[k] \in Level
        BY <1>1
    <2>2. 1 \in Int /\ n - 2 \in Int /\ (n - 2) - 1 + 1 = n - 2
        BY <1>1
    <2>. HIDE DEF n
    <2>3. /\ low \in Seq(Level)
          /\ Len(low) = IF 1 <= n - 2 THEN (n - 2) - 1 + 1 ELSE 0
          /\ \A k \in 1..((n - 2) - 1 + 1) : low[k] = scope[1 + k - 1]
        BY <2>1, <2>2, SubSeqProperties
    <2>4. \A k \in 1..(n - 2) : 1 + k - 1 = k
        OBVIOUS
    <2>. HIDE DEF low
    <2>. QED BY <1>1, <2>2, <2>3, <2>4
<1>7. ScopeInv'
    <2>. HIDE DEF top, low
    <2>1. scope' \in Seq(Level) /\ Len(scope') = n - 1 /\ scope'[n - 1] = top
          /\ \A k \in 1..(n - 2) : scope'[k] = scope[k]
        BY <1>1, <1>2, <1>5, <1>6, AppendProperties
    <2>2. \A k \in 1..(n - 1) : scope'[k].walk \subseteq scope'[k].real
        BY <1>1, <1>5, <2>1 DEF DataInv, ScopeInv
    <2>3. ASSUME NEW k \in 1..(n - 2) PROVE scope'[k].walk \subseteq scope'[k + 1].real
        <3>1. CASE k = n - 2
            BY <1>1, <1>3, <1>5, <2>1, <3>1
        <3>2. CASE k # n - 2
            <4>1. k + 1 \in 1..(n - 2) /\ k \in 1..(Len(scope) - 1)
                BY <1>1, <3>2
            <4>2. scope[k].walk \subseteq scope[k + 1].real
                BY <4>1 DEF DataInv, ScopeInv
            <4>. QED BY <2>1, <4>1, <4>2
        <3>. QED BY <3>1, <3>2
    <2>. QED BY <1>1, <2>1, <2>2, <2>3 DEF ScopeInv
<1>. QED BY <1>7, TokenKept DEF CloseGroup

\* The walker's belief about the innermost group.
LEMMA TopGroup ==
    ASSUME ScopeInv
    PROVE  scope[Group] \in Level /\ scope[Group].walk \subseteq scope[Group].real
<1>1. Group \in 1..Len(scope)
    BY DEF ScopeInv, Group
<1>. QED BY <1>1 DEF ScopeInv

\* A call is recorded under predicates that are implied where it is compiled.
LEMMA VerbCallInv ==
    ASSUME DataInv, NEW v \in Known, NEW path \in Signals \cup {""}, VerbCall(v, path)
    PROVE  DataInv'
<1>. DEFINE w == Direction(v)
            cfgs == scope[Group].walk
            call == [write |-> w, path |-> path, cfgs |-> scope[Group].real]
<1>0. ScopeInv' /\ scope[Group] \in Level /\ scope[Group].walk \subseteq scope[Group].real
    <2>1. ScopeInv'
        BY ScopeSame DEF DataInv, VerbCall
    <2>2. scope[Group] \in Level /\ scope[Group].walk \subseteq scope[Group].real
        BY TopGroup DEF DataInv
    <2>. QED BY <2>1, <2>2
<1>1. CASE step' = "rejected" /\ UNCHANGED <<derived, bundle, verbCalls>>
    BY <1>0, <1>1, QuietKept DEF VerbCall, Token
<1>2. CASE /\ path # ""
           /\ derived' = [derived EXCEPT ![w] = RecordDerived(@, path, cfgs)]
           /\ bundle' = [bundle EXCEPT ![w] = RecordDerived(@, path, fnCfgs \cup cfgs)]
           /\ verbCalls' = verbCalls \cup {call}
           /\ UNCHANGED step
    <2>1. w \in BOOLEAN
        BY Zenon DEF DataInv, Direction, Known
    <2>2. /\ cfgs \in SUBSET CallFlags /\ fnCfgs \cup cfgs \in SUBSET CallFlags
          /\ scope[Group].real \in SUBSET CallFlags /\ path \in Signals
        BY <1>0, <1>2 DEF DataInv, Level
    <2>. HIDE DEF w, cfgs
    <2>3. /\ TableInv(derived')
          /\ \A g : cfgs \subseteq g => Names(derived'[w], path, g)
          /\ \A x \in BOOLEAN : \A p, g : Names(derived[x], p, g) => Names(derived'[x], p, g)
        <3>. DEFINE D == BOOLEAN
        <3>1. derived \in [D -> Seq(Entry)] /\ (\A x \in D : Distinct(derived[x])) /\ w \in D
            BY <2>1 DEF DataInv, TableInv
        <3>2. TableInv(derived') <=> derived' \in [D -> Seq(Entry)] /\ \A x \in D : Distinct(derived'[x])
            BY DEF TableInv
        <3>. HIDE DEF D
        <3>3. /\ derived' \in [D -> Seq(Entry)] /\ \A x \in D : Distinct(derived'[x])
              /\ \A g : cfgs \subseteq g => Names(derived'[w], path, g)
              /\ \A x \in D : \A p, g : Names(derived[x], p, g) => Names(derived'[x], p, g)
            BY <1>2, <2>2, <3>1, TableRecords
        <3>. QED BY <3>2, <3>3 DEF D
    <2>4. /\ TableInv(bundle')
          /\ \A g : fnCfgs \cup cfgs \subseteq g => Names(bundle'[w], path, g)
          /\ \A x \in BOOLEAN : \A p, g : Names(bundle[x], p, g) => Names(bundle'[x], p, g)
        <3>. DEFINE D == BOOLEAN
        <3>1. bundle \in [D -> Seq(Entry)] /\ (\A x \in D : Distinct(bundle[x])) /\ w \in D
            BY <2>1 DEF DataInv, TableInv
        <3>2. TableInv(bundle') <=> bundle' \in [D -> Seq(Entry)] /\ \A x \in D : Distinct(bundle'[x])
            BY DEF TableInv
        <3>. HIDE DEF D
        <3>. DEFINE both == fnCfgs \cup cfgs
        <3>3. both \in SUBSET CallFlags /\ bundle' = [bundle EXCEPT ![w] = RecordDerived(@, path, both)]
            BY <1>2, <2>2
        <3>. HIDE DEF both
        <3>4. /\ bundle' \in [D -> Seq(Entry)] /\ \A x \in D : Distinct(bundle'[x])
              /\ \A g : both \subseteq g => Names(bundle'[w], path, g)
              /\ \A x \in D : \A p, g : Names(bundle[x], p, g) => Names(bundle'[x], p, g)
            BY <2>2, <3>1, <3>3, TableRecords
        <3>. QED BY <3>2, <3>4 DEF D, both
    <2>5. /\ step' = "body" /\ fnCfgs' = fnCfgs /\ verbs' = verbs
        BY <1>2 DEF VerbCall, Token
    <2>6. call \in [write : BOOLEAN, path : Signals, cfgs : SUBSET CallFlags]
        BY <2>1, <2>2
    <2>7. /\ Names(derived'[w], path, scope[Group].real)
          /\ Names(bundle'[w], path, scope[Group].real \cup fnCfgs)
        <3>1. cfgs \subseteq scope[Group].real
              /\ fnCfgs \cup cfgs \subseteq scope[Group].real \cup fnCfgs
            BY <1>0 DEF cfgs
        <3>. QED BY <2>3, <2>4, <3>1
    <2>8. call.write = w /\ call.path = path /\ call.cfgs = scope[Group].real
        OBVIOUS
    <2>. HIDE DEF call
    <2>9. ASSUME NEW c \in verbCalls'
          PROVE  Names(derived'[c.write], c.path, c.cfgs)
                 /\ Names(bundle'[c.write], c.path, c.cfgs \cup fnCfgs)
        <3>1. CASE c = call
            BY <2>7, <2>8, <3>1
        <3>2. CASE c \in verbCalls
            <4>1. c.write \in BOOLEAN /\ Names(derived[c.write], c.path, c.cfgs)
                  /\ Names(bundle[c.write], c.path, c.cfgs \cup fnCfgs)
                BY <3>2 DEF DataInv, CallInv
            <4>. QED BY <2>3, <2>4, <4>1, Zenon
        <3>. QED BY <1>2, <3>1, <3>2
    <2>10. CallInv'
        <3>1. verbCalls' \subseteq [write : BOOLEAN, path : Signals, cfgs : SUBSET CallFlags]
            BY <1>2, <2>6 DEF DataInv, CallInv
        <3>. QED BY <2>5, <2>9, <3>1 DEF CallInv
    <2>11. TableInv(derived)' /\ TableInv(bundle)'
        BY <2>3, <2>4 DEF TableInv
    <2>. QED BY <1>0, <2>5, <2>10, <2>11 DEF DataInv
<1>. QED BY <1>1, <1>2 DEF VerbCall

\* Every step.
LEMMA DataNextInv == DataInv /\ [DataNext]_dataVars => DataInv'
<1>. SUFFICES ASSUME DataInv, [DataNext]_dataVars PROVE DataInv'
    OBVIOUS
<1>1. CASE UNCHANGED dataVars
    BY <1>1, QuietKept, ScopeSame DEF dataVars, DataInv
<1>. QED BY <1>1, RegisterVerbInv, OpenBodyInv, AttributeInv, VerbCallInv, OpenGroupInv,
            CloseGroupInv, SeparatorInv, CloseBodyInv, NextFnInv DEF DataNext

\* The entry of a call is where it was rewritten to look for it.
LEMMA NamedIsFound ==
    ASSUME NEW list \in Seq(Entry), Distinct(list), NEW path, NEW cfgs, NEW F,
           cfgs \subseteq F, Names(list, path, cfgs)
    PROVE  LET at == 1 + Prefix(list, Place(list, path), F)
           IN  at \in DOMAIN Layout(list, F) /\ Layout(list, F)[at].path = path
<1>1. PICK k \in DOMAIN list : list[k].path = path /\ \E alt \in list[k].alts : alt \subseteq cfgs
    BY DEF Names
<1>2. Place(list, path) = k
    BY <1>1 DEF Place, Distinct
<1>3. Included(list[k], F) /\ k \in 1..Len(list)
    BY <1>1 DEF Included
<1>4. Found(Layout(list, F), 1 + Prefix(list, k, F), list[k])
    BY <1>3, PrefixIsPlace
<1>. QED BY <1>1, <1>2, <1>4 DEF Found

\* Every call reports its own signal, whatever the flags, the verbs and the
\* bodies: the walker over-approximates where a call is compiled (ScopeInv), the
\* tables name every call recorded (CallInv) once, and a prefix is a place.
THEOREM IndexIsOwnHolds == DataSpec => []IndexIsOwn
<1>1. DataInv => IndexIsOwn
    <2>. SUFFICES ASSUME DataInv, step = "emitted", NEW F \in SUBSET CallFlags,
                         NEW c \in verbCalls, c.cfgs \cup fnCfgs \subseteq F
                  PROVE  LET list == derived[c.write]
                             laid == Layout(list, F)
                             at   == 1 + Prefix(list, Place(list, c.path), F)
                         IN  /\ at \in DOMAIN laid
                             /\ laid[at].path = c.path
                             /\ \E k \in DOMAIN Layout(bundle[c.write], F) :
                                    Layout(bundle[c.write], F)[k].path = c.path
        BY DEF IndexIsOwn
    <2>1. /\ c.write \in BOOLEAN
          /\ Names(derived[c.write], c.path, c.cfgs)
          /\ Names(bundle[c.write], c.path, c.cfgs \cup fnCfgs)
        BY DEF DataInv, CallInv
    <2>2. /\ derived[c.write] \in Seq(Entry) /\ Distinct(derived[c.write])
          /\ bundle[c.write] \in Seq(Entry) /\ Distinct(bundle[c.write])
        BY <2>1, Zenon DEF DataInv, TableInv
    <2>3. c.cfgs \subseteq F
        OBVIOUS
    <2>4. LET at == 1 + Prefix(derived[c.write], Place(derived[c.write], c.path), F)
          IN  at \in DOMAIN Layout(derived[c.write], F) /\ Layout(derived[c.write], F)[at].path = c.path
        BY <2>1, <2>2, <2>3, NamedIsFound
    <2>5. LET at == 1 + Prefix(bundle[c.write], Place(bundle[c.write], c.path), F)
          IN  at \in DOMAIN Layout(bundle[c.write], F) /\ Layout(bundle[c.write], F)[at].path = c.path
        BY <2>1, <2>2, NamedIsFound
    <2>. QED BY <2>4, <2>5
<1>. QED BY <1>1, DataInitInv, DataNextInv, PTL DEF DataSpec

----------------------------------------------------------------------------
(* Sums over sets.                                                         *)

\* SumFunctionOnSet is that sum.
LEMMA SumIsIter ==
    ASSUME NEW f, NEW S
    PROVE  SumFunctionOnSet(f, S) = Iter(f, S)[S]
BY DEF SumFunctionOnSet, FoldFunctionOnSet, MapThenFoldSet, Iter, Pick, Rest

\* The sum over a set depends on what the function is there.
LEMMA IterAgrees ==
    ASSUME NEW B, IsFiniteSet(B), NEW A \in SUBSET B, NEW f, NEW g,
           \A x \in B : g[x] \in Nat, \A x \in A : f[x] = g[x]
    PROVE  Iter(f, A)[A] = Iter(g, B)[A]
<1>. DEFINE F == Iter(f, A)  G == Iter(g, B)
<1>1. IsFiniteSet(A) /\ \A x \in A : f[x] \in Nat
    BY FS_Subset
<1>2. \A s \in SUBSET A : F[s] = Step(f, F, s)
    BY <1>1, IterDefined
<1>3. \A s \in SUBSET B : G[s] = Step(g, G, s)
    BY IterDefined
<1>. HIDE DEF F, G
<1>. DEFINE P == {s \in SUBSET A : F[s] = G[s]}
<1>4. {} \in P
    BY <1>2, <1>3 DEF Step
<1>5. ASSUME NEW s \in SUBSET A, s # {}, Rest(s) \in P PROVE s \in P
    <2>1. Pick(s) \in A /\ s \in SUBSET B
        BY <1>1, <1>5, RestSmaller
    <2>2. F[s] = f[Pick(s)] + F[Rest(s)] /\ G[s] = g[Pick(s)] + G[Rest(s)]
        BY <1>2, <1>3, <1>5, <2>1 DEF Step
    <2>. QED BY <1>5, <2>1, <2>2
<1>6. A \in P
    <2>. HIDE DEF P
    <2>. QED BY <1>1, <1>4, <1>5, SubsetInduction
<1>. QED BY <1>6 DEF F, G

\* Any element may be added last.
LEMMA IterAdds ==
    ASSUME NEW S, IsFiniteSet(S), NEW f, \A x \in S : f[x] \in Nat,
           NEW t \in SUBSET S, NEW e \in t
    PROVE  Iter(f, S)[t] = f[e] + Iter(f, S)[t \ {e}]
<1>. DEFINE F == Iter(f, S)
            Adds(s) == \A x \in s : F[s] = f[x] + F[s \ {x}]
            P == {n \in Nat : \A s \in SUBSET S : Cardinality(s) <= n => Adds(s)}
<1>0. \A s \in SUBSET S : IsFiniteSet(s) /\ Cardinality(s) \in Nat
                           /\ (Cardinality(s) = 0 <=> s = {})
    BY FS_Subset, FS_CardinalityType, FS_EmptySet
<1>1. F \in [SUBSET S -> Nat] /\ \A s \in SUBSET S : F[s] = Step(f, F, s)
    BY IterDefined
<1>. HIDE DEF F
<1>2. 0 \in P
    BY <1>0
<1>3. ASSUME NEW n \in Nat, n \in P PROVE n + 1 \in P
    <2>1. SUFFICES ASSUME NEW s \in SUBSET S, Cardinality(s) <= n + 1, NEW x \in s
                   PROVE  F[s] = f[x] + F[s \ {x}]
        OBVIOUS
    <2>. DEFINE p == Pick(s)
    <2>2. p \in s /\ p \in S /\ Rest(s) = s \ {p} /\ F[s] = f[p] + F[s \ {p}]
        <3>1. s # {}
            OBVIOUS
        <3>. QED BY <1>1, <3>1, RestSmaller DEF Step, Rest
    <2>. HIDE DEF p
    <2>3. CASE x = p
        BY <2>2, <2>3
    <2>4. CASE x # p
        <3>1. /\ s \ {x} \in SUBSET S /\ s \ {p} \in SUBSET S
              /\ p \in s \ {x} /\ x \in s \ {p} /\ (s \ {x}) \ {p} = (s \ {p}) \ {x}
            BY <2>2, <2>4
        <3>2. Cardinality(s \ {x}) <= n /\ Cardinality(s \ {p}) <= n
            <4>1. Cardinality(s \ {x}) = Cardinality(s) - 1
                BY <1>0, <2>1, FS_RemoveElement
            <4>2. Cardinality(s \ {p}) = Cardinality(s) - 1
                BY <1>0, <2>1, <2>2, FS_RemoveElement
            <4>. QED BY <1>0, <2>1, <4>1, <4>2
        <3>3. F[s \ {x}] = f[p] + F[(s \ {x}) \ {p}] /\ F[s \ {p}] = f[x] + F[(s \ {p}) \ {x}]
            BY <1>3, <3>1, <3>2
        <3>4. f[p] \in Nat /\ f[x] \in Nat /\ F[(s \ {x}) \ {p}] \in Nat
            <4>1. (s \ {x}) \ {p} \in SUBSET S
                OBVIOUS
            <4>. QED BY <1>1, <2>1, <2>2, <4>1
        <3>5. F[s] = f[p] + (f[x] + F[(s \ {x}) \ {p}])
            BY <2>2, <3>1, <3>3
        <3>6. \A a, b, c \in Nat : a + (b + c) = b + (a + c)
            OBVIOUS
        <3>7. F[s] = f[x] + (f[p] + F[(s \ {x}) \ {p}])
            BY <3>4, <3>5, <3>6
        <3>. QED BY <3>3, <3>7
    <2>. QED BY <2>3, <2>4
<1>4. Cardinality(t) \in P
    <2>. HIDE DEF P
    <2>1. Nat \subseteq P
        BY <1>2, <1>3, NatSetInduction
    <2>. QED BY <1>0, <2>1
<1>5. F[t] = f[e] + F[t \ {e}]
    BY <1>0, <1>4
<1>. QED BY <1>5 DEF F

\* More elements, a larger sum.
LEMMA IterGrows ==
    ASSUME NEW S, IsFiniteSet(S), NEW f, \A x \in S : f[x] \in Nat, NEW A \in SUBSET S
    PROVE  Iter(f, S)[A] <= Iter(f, S)[S]
<1>. DEFINE F == Iter(f, S)
            D == S \ A
            P == {s \in SUBSET D : F[A] <= F[A \cup s]}
<1>0. F \in [SUBSET S -> Nat]
    BY IterDefined
<1>1. \A s \in SUBSET S : \A x \in s : F[s] = f[x] + F[s \ {x}]
    <2>. SUFFICES ASSUME NEW s \in SUBSET S, NEW x \in s PROVE F[s] = f[x] + F[s \ {x}]
        OBVIOUS
    <2>. HIDE DEF P, D
    <2>. QED BY IterAdds
<1>2. IsFiniteSet(D)
    BY FS_Subset
<1>. HIDE DEF F
<1>3. {} \in P
    <2>1. A \cup {} = A
        OBVIOUS
    <2>. QED BY <1>0, <2>1
<1>4. ASSUME NEW s \in SUBSET D, s # {}, Rest(s) \in P PROVE s \in P
    <2>. DEFINE p == Pick(s)
    <2>1. p \in s /\ Rest(s) = s \ {p}
        BY <1>2, <1>4, RestSmaller DEF Rest
    <2>. HIDE DEF p
    <2>2. (A \cup s) \ {p} = A \cup Rest(s) /\ p \in A \cup s /\ A \cup s \in SUBSET S
          /\ A \cup Rest(s) \in SUBSET S /\ p \in S
        BY <2>1
    <2>3. F[A \cup s] = f[p] + F[A \cup Rest(s)]
        BY <1>1, <2>2
    <2>4. F[A \cup Rest(s)] \in Nat /\ F[A] \in Nat /\ f[p] \in Nat
        BY <1>0, <2>2
    <2>. QED BY <1>4, <2>3, <2>4
<1>5. D \in P
    <2>. HIDE DEF P
    <2>. QED BY <1>2, <1>3, <1>4, SubsetInduction
<1>6. A \cup D = S
    OBVIOUS
<1>. QED BY <1>5, <1>6 DEF F

\* A sum over part of a finite set leaves room for any other element of it.
LEMMA SumGrows ==
    ASSUME NEW B, IsFiniteSet(B), NEW A \in SUBSET B, NEW e \in B, e \notin A, NEW f, NEW g,
           \A x \in B : g[x] \in Nat, \A x \in A : f[x] = g[x]
    PROVE  /\ SumFunctionOnSet(f, A) \in Nat /\ SumFunctionOnSet(g, B) \in Nat
           /\ SumFunctionOnSet(f, A) + g[e] <= SumFunctionOnSet(g, B)
           /\ B = A \cup {e} => SumFunctionOnSet(g, B) = SumFunctionOnSet(f, A) + g[e]
<1>. DEFINE G == Iter(g, B)  C == A \cup {e}
<1>1. SumFunctionOnSet(f, A) = G[A] /\ SumFunctionOnSet(g, B) = G[B]
    BY SumIsIter, IterAgrees
<1>2. G \in [SUBSET B -> Nat]
    BY IterDefined
<1>3. C \in SUBSET B /\ e \in C /\ C \ {e} = A /\ B \in SUBSET B
    OBVIOUS
<1>4. G[C] = g[e] + G[C \ {e}]
    <2>. HIDE DEF C
    <2>. QED BY <1>3, IterAdds
<1>5. G[C] <= G[B]
    <2>. HIDE DEF C
    <2>. QED BY <1>3, IterGrows
<1>. HIDE DEF G
<1>6. G[A] \in Nat /\ G[B] \in Nat /\ G[C] \in Nat /\ g[e] \in Nat
    BY <1>2, <1>3
<1>7. G[C] = g[e] + G[A]
    BY <1>3, <1>4
<1>8. G[A] + g[e] <= G[B] /\ (B = C => G[B] = G[A] + g[e])
    <2>. HIDE DEF C
    <2>. QED BY <1>5, <1>6, <1>7
<1>. QED BY <1>1, <1>6, <1>8

----------------------------------------------------------------------------
(* The topological sort of a table T of N rows.                            *)

\* A loop from 1 to N that keeps what is in S: each member of S once.
LEMMA KeptOfAll ==
    ASSUME NEW N \in Nat, NEW S \in SUBSET (1..N)
    PROVE  LET a == Kept([s \in 1..N |-> s], S) IN
           /\ a \in Seq(1..N) /\ IsInjective(a)
           /\ \A p \in 1..Len(a) : a[p] \in S
           /\ \A s \in S : \E p \in 1..Len(a) : a[p] = s
<1>. DEFINE id == [s \in 1..N |-> s]
            a == Kept(id, S)
<1>1. id \in Seq(1..N) /\ Len(id) = N /\ \A s \in 1..N : id[s] = s
    OBVIOUS
<1>. HIDE DEF id
<1>2. /\ a \in Seq(1..N)
      /\ \A i \in 1..N : i \in S => Found(a, 1 + Cardinality(Before(S, i - 1)), id[i])
      /\ \A p \in 1..Len(a) : \E i \in 1..N : From(a, S, id, i, p)
    BY <1>1, KeptHolds
<1>. HIDE DEF a
<1>3. \A p \in 1..Len(a) : a[p] \in S /\ p = 1 + Cardinality(Before(S, a[p] - 1))
    BY <1>1, <1>2 DEF From
<1>4. \A s \in S : \E p \in 1..Len(a) : a[p] = s
    BY <1>1, <1>2 DEF Found
<1>5. IsInjective(a)
    <2>1. DOMAIN a = 1..Len(a)
        BY <1>2
    <2>. QED BY <2>1, <1>3 DEF IsInjective
<1>. QED BY <1>2, <1>3, <1>4, <1>5 DEF a, id

\* The rows of the slots of line L are in the part o of it, each before its slot.
RowsBefore(T, L, o) ==
    \A k \in 1..Len(L) : \A i \in 1..Len(T[L[k]]) :
        \E j \in 1..Len(o) : j < k /\ L[j] = T[L[k]][i]

\* Where the sort is: o is produced, q waits to be, and d counts for each other
\* slot the entries of its row that are not in o.
SortAt(N, T, d, q, o) ==
    /\ d \in [1..N -> Nat] /\ q \in Seq(1..N) /\ o \in Seq(1..N)
    /\ IsInjective(o \o q)
    /\ RowsBefore(T, o \o q, o)
    /\ \A s \in Range(o \o q) : d[s] = 0
    /\ \A s \in (1..N) \ Range(o \o q) :
           d[s] # 0 /\ d[s] + Cardinality(Range(T[s]) \cap Range(o)) = Len(T[s])

\* The range of a sequence.
LEMMA RangeIs ==
    ASSUME NEW V, NEW t \in Seq(V)
    PROVE  /\ Range(t) \in SUBSET V
           /\ \A x : x \in Range(t) <=> \E k \in 1..Len(t) : t[k] = x
BY DEF Range

\* A row has at most as many members as entries, and as many if none is double.
LEMMA RowCount ==
    ASSUME NEW V, NEW t \in Seq(V)
    PROVE  /\ IsFiniteSet(Range(t)) /\ Cardinality(Range(t)) \in Nat
           /\ Cardinality(Range(t)) <= Len(t)
           /\ IsInjective(t) => Cardinality(Range(t)) = Len(t)
<1>1. Len(t) \in Nat /\ DOMAIN t = 1..Len(t)
    OBVIOUS
<1>2. IsFiniteSet(1..Len(t)) /\ Cardinality(1..Len(t)) = Len(t)
    BY <1>1, FS_Interval
<1>3. t \in Surjection(1..Len(t), Range(t))
    BY <1>1 DEF Surjection, Range
<1>4. IsFiniteSet(Range(t)) /\ Cardinality(Range(t)) <= Len(t)
    BY <1>2, <1>3, FS_Surjection DEF ExistsSurjection
<1>5. ASSUME IsInjective(t) PROVE Cardinality(Range(t)) = Len(t)
    <2>1. t \in Bijection(1..Len(t), Range(t))
        BY <1>1, <1>3, <1>5 DEF Bijection, Injection, Surjection
    <2>2. ExistsBijection(1..Len(t), Range(t))
        BY <2>1 DEF ExistsBijection
    <2>. QED BY <1>2, <2>2, FS_Bijection
<1>. QED BY <1>4, <1>5, FS_CardinalityType

\* A line o, q of which the first of q is produced and n is added.
NextLine(o, q, n) == Append(o, Head(q)) \o (Tail(q) \o n)

\* It is the line o, q with n behind it.
Grown(V, o, q, n) == NextLine(o, q, n) = (o \o q) \o n

\* It is.
LEMMA LineGrows ==
    ASSUME NEW V, NEW o \in Seq(V), NEW q \in Seq(V), q # <<>>, NEW n \in Seq(V)
    PROVE  Grown(V, o, q, n)
<1>1. o \o q = Append(o, Head(q)) \o Tail(q)
    <2>. DEFINE a == o \o q  b == Append(o, Head(q)) \o Tail(q)
    <2>1. Head(q) \in V /\ Tail(q) \in Seq(V) /\ Len(q) \in Nat /\ Len(q) >= 1
        OBVIOUS
    <2>2. Append(o, Head(q)) \in Seq(V) /\ Len(Append(o, Head(q))) = Len(o) + 1
        BY <2>1
    <2>3. a \in Seq(V) /\ b \in Seq(V) /\ Len(a) = Len(b)
        BY <2>1, <2>2
    <2>4. ASSUME NEW k \in 1..Len(a) PROVE a[k] = b[k]
        <3>. DEFINE c == Append(o, Head(q))  t == Tail(q)
        <3>1. /\ Len(t) = Len(q) - 1 /\ Head(q) = q[1]
              /\ \A j \in 1..Len(t) : t[j] = q[j + 1]
            <4>1. Len(t) = Len(q) - 1 /\ \A j \in 1..Len(t) : t[j] = q[j + 1]
                BY HeadTailProperties
            <4>2. Head(q) = q[1]
                OBVIOUS
            <4>. QED BY <4>1, <4>2
        <3>2. c[Len(o) + 1] = Head(q) /\ \A j \in 1..Len(o) : c[j] = o[j]
            BY <2>1, AppendProperties
        <3>3. Len(c) = Len(o) + 1 /\ c \in Seq(V) /\ t \in Seq(V)
            BY <2>1, <2>2
        <3>. HIDE DEF c, t
        <3>4. /\ \A j \in 1..(Len(o) + Len(q)) : a[j] = IF j <= Len(o) THEN o[j] ELSE q[j - Len(o)]
              /\ Len(a) = Len(o) + Len(q)
            BY ConcatProperties
        <3>5. \A j \in 1..(Len(c) + Len(t)) : (c \o t)[j] = IF j <= Len(c) THEN c[j] ELSE t[j - Len(c)]
            BY <3>3, ConcatProperties
        <3>6. b = c \o t
            BY DEF c, t
        <3>. HIDE DEF a, b
        <3>7. Len(o) \in Nat /\ k \in 1..(Len(c) + Len(t)) /\ k \in Nat
            BY <2>1, <3>1, <3>3, <3>4
        <3>8. CASE k <= Len(o)
            <4>1. k \in 1..Len(o) /\ k <= Len(c) /\ k \in 1..(Len(o) + Len(q))
                BY <2>1, <3>3, <3>7, <3>8
            <4>. QED BY <3>2, <3>4, <3>5, <3>6, <3>7, <3>8, <4>1
        <3>9. CASE k = Len(o) + 1
            BY <3>1, <3>2, <3>3, <3>4, <3>5, <3>6, <3>7, <3>9, <2>1
        <3>10. CASE k > Len(o) + 1
            <4>1. /\ k - Len(c) \in 1..Len(t) /\ (k - Len(c)) + 1 = k - Len(o)
                  /\ ~(k <= Len(c)) /\ ~(k <= Len(o))
                BY <3>1, <3>3, <3>4, <3>7, <3>10, <2>1
            <4>. QED BY <3>1, <3>4, <3>5, <3>6, <3>7, <4>1
        <3>. QED BY <3>7, <3>8, <3>9, <3>10
    <2>. HIDE DEF a, b
    <2>5. a = b
        BY <2>3, <2>4, SeqEqual
    <2>. QED BY <2>5 DEF a, b
<1>2. Append(o, Head(q)) \in Seq(V) /\ Tail(q) \in Seq(V) /\ Tail(q) \o n \in Seq(V)
    OBVIOUS
<1>3. Append(o, Head(q)) \o (Tail(q) \o n) = (Append(o, Head(q)) \o Tail(q)) \o n
    BY <1>2, ConcatAssociative
<1>. QED BY <1>1, <1>3, Zenon DEF NextLine, Grown

\* A line L with new slots n behind it.
LEMMA LineExtends ==
    ASSUME NEW V, NEW L \in Seq(V), NEW n \in Seq(V), IsInjective(L), IsInjective(n),
           \A p \in 1..Len(n) : n[p] \notin Range(L)
    PROVE  /\ L \o n \in Seq(V) /\ IsInjective(L \o n)
           /\ Len(L \o n) = Len(L) + Len(n)
           /\ \A k \in 1..Len(L) : (L \o n)[k] = L[k]
           /\ \A k \in 1..Len(n) : (L \o n)[Len(L) + k] = n[k]
           /\ \A x : x \in Range(L \o n) <=> x \in Range(L) \/ \E p \in 1..Len(n) : n[p] = x
<1>. DEFINE m == L \o n
<1>1. /\ m \in Seq(V) /\ Len(m) = Len(L) + Len(n)
      /\ \A k \in 1..Len(L) : m[k] = L[k]
      /\ \A k \in 1..Len(n) : m[Len(L) + k] = n[k]
      /\ Len(L) \in Nat /\ Len(n) \in Nat
    OBVIOUS
<1>. HIDE DEF m
<1>2. \A k \in 1..Len(m) : \/ k \in 1..Len(L) /\ m[k] = L[k]
                           \/ k - Len(L) \in 1..Len(n) /\ m[k] = n[k - Len(L)]
    <2>1. ASSUME NEW k \in 1..Len(m), k \notin 1..Len(L)
          PROVE  k - Len(L) \in 1..Len(n) /\ m[k] = n[k - Len(L)]
        <3>1. k - Len(L) \in 1..Len(n) /\ Len(L) + (k - Len(L)) = k
            BY <1>1, <2>1
        <3>. QED BY <1>1, <3>1
    <2>. QED BY <1>1, <2>1
<1>3. \A k \in 1..Len(L) : L[k] \in Range(L)
    BY DEF Range
<1>4. \A x : x \in Range(m) <=> x \in Range(L) \/ \E p \in 1..Len(n) : n[p] = x
    <2>1. ASSUME NEW x, x \in Range(m)
          PROVE  x \in Range(L) \/ \E p \in 1..Len(n) : n[p] = x
        <3>1. PICK k \in 1..Len(m) : m[k] = x
            BY <1>1, <2>1, RangeIs
        <3>. QED BY <1>2, <1>3, <3>1
    <2>2. ASSUME NEW x, x \in Range(L) PROVE x \in Range(m)
        <3>1. PICK k \in 1..Len(L) : L[k] = x
            BY <2>2, RangeIs
        <3>2. k \in 1..Len(m) /\ m[k] = x
            BY <1>1, <3>1
        <3>. QED BY <1>1, <3>2, RangeIs
    <2>3. ASSUME NEW p \in 1..Len(n) PROVE n[p] \in Range(m)
        <3>1. Len(L) + p \in 1..Len(m)
            <4>1. p \in Nat /\ 1 <= p /\ p <= Len(n)
                BY <1>1
            <4>2. Len(L) + p \in Int /\ 1 <= Len(L) + p /\ Len(L) + p <= Len(L) + Len(n)
                BY <1>1, <4>1
            <4>. QED BY <1>1, <4>2
        <3>2. m[Len(L) + p] = n[p]
            BY <1>1
        <3>. QED BY <1>1, <3>1, <3>2, RangeIs
    <2>. QED BY <2>1, <2>2, <2>3
<1>5. IsInjective(m)
    <2>1. DOMAIN m = 1..Len(m) /\ DOMAIN L = 1..Len(L) /\ DOMAIN n = 1..Len(n)
        BY <1>1
    <2>2. SUFFICES ASSUME NEW j \in 1..Len(m), NEW k \in 1..Len(m), m[j] = m[k] PROVE j = k
        BY <2>1 DEF IsInjective
    <2>3. CASE j \in 1..Len(L) /\ k \in 1..Len(L)
        BY <1>1, <2>1, <2>2, <2>3 DEF IsInjective
    <2>4. CASE j \notin 1..Len(L) /\ k \notin 1..Len(L)
        <3>1. n[j - Len(L)] = n[k - Len(L)] /\ {j - Len(L), k - Len(L)} \subseteq 1..Len(n)
            BY <1>2, <2>2, <2>4
        <3>2. j - Len(L) = k - Len(L)
            BY <2>1, <3>1 DEF IsInjective
        <3>. QED BY <1>1, <3>2
    <2>5. CASE j \in 1..Len(L) /\ k \notin 1..Len(L)
        BY <1>2, <1>3, <2>2, <2>5
    <2>6. CASE j \notin 1..Len(L) /\ k \in 1..Len(L)
        BY <1>2, <1>3, <2>2, <2>6
    <2>. QED BY <2>3, <2>4, <2>5, <2>6
<1>. QED BY <1>1, <1>4, <1>5 DEF m

\* The slots that wait for slot x, and their counts without it.
Waiting(N, T, d, x) == {s \in 1..N : d[s] # 0 /\ \E k \in DOMAIN T[s] : T[s][k] = x}
Lowered(N, d, W) == [s \in 1..N |-> IF s \in W THEN d[s] - 1 ELSE d[s]]
Freed(d, W) == {s \in W : d[s] = 1}

\* One turn of the loop.
LEMMA VisitKeeps ==
    ASSUME NEW N \in Nat, NEW T \in [1..N -> Seq(1..N)], NEW d, NEW q, NEW o,
           SortAt(N, T, d, q, o), q # <<>>
    PROVE  LET W == Waiting(N, T, d, Head(q))
           IN  SortAt(N, T, Lowered(N, d, W),
                      Tail(q) \o Kept([s \in 1..N |-> s], Freed(d, W)), Append(o, Head(q)))
<1>. DEFINE W == Waiting(N, T, d, Head(q))
            e == Lowered(N, d, W)
            R == Freed(d, W)
            n == Kept([s \in 1..N |-> s], R)
            L == o \o q
            p == Append(o, Head(q))
            M == L \o n
            In(s) == Range(T[s]) \cap Range(o)
<1>. HIDE DEF W, e, R, n, M
<1>1. /\ d \in [1..N -> Nat] /\ q \in Seq(1..N) /\ o \in Seq(1..N) /\ L \in Seq(1..N)
      /\ IsInjective(L) /\ RowsBefore(T, L, o)
      /\ \A s \in Range(L) : d[s] = 0
      /\ \A s \in (1..N) \ Range(L) : d[s] # 0 /\ d[s] + Cardinality(In(s)) = Len(T[s])
    <2>1. d \in [1..N -> Nat] /\ q \in Seq(1..N) /\ o \in Seq(1..N)
        BY DEF SortAt
    <2>2. L \in Seq(1..N)
        BY <2>1, ConcatProperties
    <2>3. /\ IsInjective(L) /\ RowsBefore(T, L, o)
          /\ \A s \in Range(L) : d[s] = 0
          /\ \A s \in (1..N) \ Range(L) : d[s] # 0 /\ d[s] + Cardinality(In(s)) = Len(T[s])
        BY Zenon DEF SortAt
    <2>. QED BY <2>1, <2>2, <2>3, Zenon
<1>2. /\ R \in SUBSET (1..N)
      /\ \A s \in R : s \in W /\ d[s] = 1
      /\ \A s \in W : d[s] = 1 => s \in R
      /\ \A s \in W : s \in 1..N /\ d[s] # 0
    BY DEF Freed, Waiting, R, W
<1>e. \A s \in 1..N : e[s] = IF s \in W THEN d[s] - 1 ELSE d[s]
    BY DEF Lowered, e
<1>3. /\ n \in Seq(1..N) /\ IsInjective(n)
      /\ \A k \in 1..Len(n) : n[k] \in R
      /\ \A s \in R : \E k \in 1..Len(n) : n[k] = s
    BY <1>2, KeptOfAll DEF n
<1>4. /\ p \in Seq(1..N) /\ Tail(q) \o n \in Seq(1..N) /\ p \o (Tail(q) \o n) = M
      /\ L[Len(o) + 1] = Head(q) /\ \A k \in 1..Len(o) : L[k] = o[k]
    <2>. HIDE DEF n
    <2>1. q \in Seq(1..N) /\ o \in Seq(1..N) /\ n \in Seq(1..N)
        BY <1>1, <1>3
    <2>2. p \in Seq(1..N) /\ Tail(q) \o n \in Seq(1..N)
        BY <2>1
    <2>4. p \o (Tail(q) \o n) = L \o n
        <3>1. Grown(1..N, o, q, n)
            BY <2>1, LineGrows, Zenon
        <3>2. NextLine(o, q, n) = (o \o q) \o n
            BY <3>1, Zenon DEF Grown
        <3>. QED BY <3>2, Zenon DEF NextLine
    <2>3. L[Len(o) + 1] = Head(q) /\ \A k \in 1..Len(o) : L[k] = o[k]
        BY <2>1
    <2>. QED BY <2>2, <2>3, <2>4, Zenon DEF M
<1>5. Head(q) \in 1..N /\ Len(L) = Len(o) + Len(q) /\ Len(q) \in Nat /\ Len(q) >= 1
      /\ Len(o) \in Nat /\ Len(p) = Len(o) + 1
    BY <1>1
<1>6. \A s \in R : s \notin Range(L) /\ d[s] = 1
    BY <1>1, <1>2
<1>7. /\ M \in Seq(1..N) /\ IsInjective(M) /\ Len(M) = Len(L) + Len(n)
      /\ \A k \in 1..Len(L) : M[k] = L[k]
      /\ \A k \in 1..Len(n) : M[Len(L) + k] = n[k]
      /\ \A x : x \in Range(M) <=> x \in Range(L) \/ \E k \in 1..Len(n) : n[k] = x
    <2>1. \A k \in 1..Len(n) : n[k] \notin Range(L)
        BY <1>3, <1>6
    <2>. HIDE DEF n, L
    <2>. QED BY <1>1, <1>3, <2>1, LineExtends DEF M
<1>8. \A x : x \in Range(p) <=> x \in Range(o) \/ x = Head(q)
    <2>1. \A k \in 1..Len(o) : p[k] = o[k]
        BY <1>1, <1>5, AppendProperties
    <2>2. p[Len(o) + 1] = Head(q)
        BY <1>1, <1>5, AppendProperties
    <2>. HIDE DEF p
    <2>3. ASSUME NEW x, x \in Range(p) PROVE x \in Range(o) \/ x = Head(q)
        <3>1. PICK k \in 1..Len(p) : p[k] = x
            BY <1>4, <2>3, RangeIs
        <3>2. CASE k \in 1..Len(o)
            BY <1>1, <2>1, <3>1, <3>2, RangeIs
        <3>3. CASE k = Len(o) + 1
            BY <2>2, <3>1, <3>3
        <3>4. k \in 1..Len(o) \/ k = Len(o) + 1
            <4>1. k \in 1..(Len(o) + 1)
                BY <1>5, <3>1 DEF p
            <4>2. Len(o) \in Nat
                BY <1>1
            <4>. HIDE DEF L, p
            <4>. QED BY <4>1, <4>2
        <3>. QED BY <3>2, <3>3, <3>4
    <2>4. ASSUME NEW x, x \in Range(o) PROVE x \in Range(p)
        <3>1. PICK k \in 1..Len(o) : o[k] = x
            BY <1>1, <2>4, RangeIs
        <3>2. k \in 1..Len(p) /\ p[k] = x
            BY <1>5, <2>1, <3>1
        <3>. QED BY <1>4, <3>2, RangeIs
    <2>5. Head(q) \in Range(p)
        <3>1. Len(o) + 1 \in 1..Len(p)
            BY <1>5
        <3>. QED BY <1>4, <2>2, <3>1, RangeIs
    <2>. QED BY <2>3, <2>4, <2>5
<1>9. Head(q) \notin Range(o) /\ Head(q) \in Range(L)
    <2>1. Len(o) + 1 \in 1..Len(L) /\ DOMAIN L = 1..Len(L)
        BY <1>1, <1>5
    <2>. HIDE DEF L
    <2>2. Head(q) \in Range(L)
        BY <1>1, <1>4, <2>1, RangeIs
    <2>3. ASSUME Head(q) \in Range(o) PROVE FALSE
        <3>1. PICK k \in 1..Len(o) : o[k] = Head(q)
            BY <1>1, <2>3, RangeIs
        <3>2. k \in 1..Len(L) /\ L[k] = L[Len(o) + 1] /\ k # Len(o) + 1
            <4>1. L[k] = o[k] /\ L[Len(o) + 1] = Head(q)
                BY <1>4
            <4>2. k \in 1..Len(L) /\ k # Len(o) + 1
                BY <1>5
            <4>. QED BY <3>1, <4>1, <4>2
        <3>. QED BY <1>1, <2>1, <3>2 DEF IsInjective
    <2>. QED BY <2>2, <2>3
<1>10. ASSUME NEW s \in (1..N) \ Range(L)
       PROVE  /\ Cardinality(In(s)) \in Nat
              /\ s \in W <=> Head(q) \in Range(T[s])
              /\ Cardinality(Range(T[s]) \cap Range(p)) =
                    IF s \in W THEN Cardinality(In(s)) + 1 ELSE Cardinality(In(s))
    <2>1. T[s] \in Seq(1..N) /\ IsFiniteSet(Range(T[s]))
        BY RowCount
    <2>2. s \in W <=> Head(q) \in Range(T[s])
        BY <1>1, <2>1 DEF Range, Waiting, W
    <2>3. IsFiniteSet(In(s)) /\ Cardinality(In(s)) \in Nat /\ Head(q) \notin In(s)
        BY <1>9, <2>1, FS_Intersection, FS_CardinalityType
    <2>4. Range(T[s]) \cap Range(p) = IF s \in W THEN In(s) \cup {Head(q)} ELSE In(s)
        <3>. HIDE DEF p
        <3>. QED BY <1>8, <2>2
    <2>5. Cardinality(In(s) \cup {Head(q)}) = Cardinality(In(s)) + 1
        <3>. HIDE DEF In
        <3>. QED BY <2>3, FS_AddElement
    <2>. QED BY <2>2, <2>3, <2>4, <2>5
<1>11. e \in [1..N -> Nat]
    <2>1. \A s \in 1..N : (IF s \in W THEN d[s] - 1 ELSE d[s]) \in Nat
        BY <1>1, <1>2
    <2>. QED BY <2>1 DEF Lowered, e
<1>12. \A s \in Range(M) : e[s] = 0
    <2>1. ASSUME NEW s \in Range(L) PROVE e[s] = 0
        <3>1. s \in 1..N /\ d[s] = 0
            BY <1>1, RangeIs
        <3>. QED BY <1>e, <1>2, <3>1
    <2>2. \A s \in R : e[s] = 0
        BY <1>e, <1>1, <1>2
    <2>3. \A s \in Range(M) : s \in Range(L) \/ s \in R
        <3>. HIDE DEF M, L, n, R
        <3>. QED BY <1>3, <1>7
    <2>. HIDE DEF M, L, n, R
    <2>. QED BY <2>1, <2>2, <2>3
<1>13. ASSUME NEW s \in (1..N) \ Range(M)
       PROVE  e[s] # 0 /\ e[s] + Cardinality(Range(T[s]) \cap Range(p)) = Len(T[s])
    <2>1. s \notin Range(L) /\ s \notin R
        <3>. HIDE DEF M, L, n, R
        <3>. QED BY <1>3, <1>7
    <2>2. d[s] \in Nat /\ d[s] # 0 /\ d[s] + Cardinality(In(s)) = Len(T[s])
        BY <1>1, <2>1
    <2>3. CASE s \in W
        <3>1. e[s] = d[s] - 1 /\ d[s] # 1
            BY <1>e, <1>2, <2>1, <2>3
        <3>2. /\ Cardinality(In(s)) \in Nat
              /\ Cardinality(Range(T[s]) \cap Range(p)) = Cardinality(In(s)) + 1
            <4>. HIDE DEF p, In
            <4>. QED BY <1>10, <2>1, <2>3
        <3>. HIDE DEF p, In
        <3>3. e[s] # 0
            BY <2>2, <3>1
        <3>4. e[s] + Cardinality(Range(T[s]) \cap Range(p)) = (d[s] - 1) + (Cardinality(In(s)) + 1)
            BY <3>1, <3>2
        <3>5. (d[s] - 1) + (Cardinality(In(s)) + 1) = d[s] + Cardinality(In(s))
            BY <2>2, <3>2
        <3>. QED BY <2>2, <3>3, <3>4, <3>5
    <2>4. CASE s \notin W
        <3>1. e[s] = d[s]
            BY <1>e, <2>4
        <3>. QED BY <1>10, <2>1, <2>2, <2>4, <3>1
    <2>. QED BY <2>3, <2>4
<1>14. RowsBefore(T, M, p)
    <2>1. SUFFICES ASSUME NEW k \in 1..Len(M), NEW i \in 1..Len(T[M[k]])
                   PROVE  \E j \in 1..Len(p) : j < k /\ M[j] = T[M[k]][i]
        <3>. HIDE DEF M, p
        <3>. QED BY DEF RowsBefore
    <2>2. \A j \in 1..Len(p) : j \in 1..Len(L) /\ M[j] = L[j]
        <3>1. \A j \in 1..Len(p) : j \in 1..Len(L)
            <4>1. Len(p) <= Len(L) /\ Len(p) \in Nat /\ Len(L) \in Nat
                <5>. HIDE DEF L, p
                <5>. QED BY <1>5
            <4>. HIDE DEF L, p
            <4>. QED BY <4>1
        <3>. HIDE DEF M, L, p
        <3>. QED BY <1>7, <3>1
    <2>3. CASE k \in 1..Len(L)
        <3>1. M[k] = L[k]
            BY <1>7, <2>3
        <3>2. PICK j \in 1..Len(o) : j < k /\ L[j] = T[L[k]][i]
            BY <1>1, <2>1, <2>3, <3>1 DEF RowsBefore
        <3>3. j \in 1..Len(p)
            <4>. HIDE DEF p
            <4>. QED BY <1>5
        <3>. HIDE DEF M, L, p
        <3>. QED BY <2>2, <3>1, <3>2, <3>3
    <2>4. CASE k \notin 1..Len(L)
        <3>. DEFINE s == M[k]
        <3>1. s \in R
            <4>1. k - Len(L) \in 1..Len(n) /\ Len(L) + (k - Len(L)) = k
                <5>. HIDE DEF M, L, n
                <5>. QED BY <1>1, <1>3, <1>7, <2>1, <2>4
            <4>. HIDE DEF M, L, n, R
            <4>. QED BY <1>3, <1>7, <4>1
        <3>2. s \in (1..N) \ Range(L) /\ s \in W /\ d[s] = 1
            <4>. HIDE DEF s
            <4>. QED BY <1>2, <1>6, <3>1
        <3>. HIDE DEF s
        <3>3. Cardinality(Range(T[s]) \cap Range(p)) = Len(T[s])
            <4>. HIDE DEF p
            <4>1. 1 + Cardinality(In(s)) = Len(T[s])
                BY <1>1, <3>2
            <4>2. /\ Cardinality(In(s)) \in Nat
                  /\ Cardinality(Range(T[s]) \cap Range(p)) = Cardinality(In(s)) + 1
                <5>. HIDE DEF In
                <5>. QED BY <1>10, <3>2
            <4>. HIDE DEF In
            <4>. QED BY <4>1, <4>2
        <3>4. T[s] \in Seq(1..N)
            BY <3>2
        <3>5. Range(T[s]) \subseteq Range(p)
            <4>. HIDE DEF p
            <4>1. /\ IsFiniteSet(Range(T[s])) /\ Cardinality(Range(T[s])) \in Nat
                  /\ Cardinality(Range(T[s])) <= Len(T[s])
                BY <3>4, RowCount
            <4>. DEFINE A == Range(T[s])  B == Range(T[s]) \cap Range(p)
            <4>2. B \in SUBSET A /\ Cardinality(B) = Len(T[s])
                BY <3>3
            <4>3. Cardinality(B) <= Cardinality(A) /\ (Cardinality(A) = Cardinality(B) => A = B)
                <5>. HIDE DEF A, B
                <5>. QED BY <4>1, <4>2, FS_Subset DEF A
            <4>4. A = B
                BY <3>4, <4>1, <4>2, <4>3
            <4>. QED BY <4>4
        <3>6. T[s][i] \in Range(p)
            <4>1. i \in 1..Len(T[s])
                BY <2>1 DEF s
            <4>. QED BY <3>4, <3>5, <4>1, RangeIs
        <3>7. PICK j \in 1..Len(p) : p[j] = T[s][i]
            <4>1. p \in Seq(1..N)
                BY <1>4
            <4>. HIDE DEF p, L
            <4>. QED BY <3>6, <4>1, RangeIs
        <3>8. p[j] = L[j]
            <4>1. CASE j \in 1..Len(o)
                <5>1. p[j] = o[j]
                    BY <1>1, <1>5, <4>1, AppendProperties
                <5>. QED BY <1>4, <4>1, <5>1
            <4>2. CASE j = Len(o) + 1
                <5>1. p[j] = Head(q)
                    BY <1>1, <1>5, <4>2, AppendProperties
                <5>. QED BY <1>4, <4>2, <5>1
            <4>. QED BY <1>5, <3>7, <4>1, <4>2
        <3>9. j < k
            <4>. HIDE DEF L, M, p
            <4>. QED BY <1>1, <1>5, <2>1, <2>2, <2>4, <3>7
        <3>10. M[j] = T[M[k]][i]
            <4>. HIDE DEF L, M, p
            <4>. QED BY <2>2, <3>7, <3>8 DEF s
        <3>. QED BY <3>9, <3>10
    <2>. QED BY <2>3, <2>4
<1>. HIDE DEF M, L, n, p, In, e, R, W
<1>15. SortAt(N, T, e, Tail(q) \o n, p)
    BY <1>4, <1>7, <1>11, <1>12, <1>13, <1>14 DEF SortAt
<1>. QED BY <1>15 DEF n, p, e, R, W

\* The sort begins: the counts are the lengths of the rows, which fit.
LEMMA SeedStarts ==
    ASSUME NEW N \in Nat, NEW T \in [1..N -> Seq(1..N)], NEW m \in Nat,
           \A s \in 1..N : Len(T[s]) < m
    PROVE  SortAt(N, T, [s \in 1..N |-> Len(T[s]) % m],
                  Kept([s \in 1..N |-> s], {s \in 1..N : Len(T[s]) % m = 0}), <<>>)
<1>. DEFINE S == {s \in 1..N : Len(T[s]) % m = 0}
            d == [s \in 1..N |-> Len(T[s]) % m]
            q == Kept([s \in 1..N |-> s], S)
<1>1. ASSUME NEW s \in 1..N PROVE Len(T[s]) \in Nat /\ Len(T[s]) % m = Len(T[s])
    <2>1. Len(T[s]) \in Nat /\ Len(T[s]) < m
        OBVIOUS
    <2>2. \A x \in Nat : x < m => x % m = x
        OBVIOUS
    <2>. QED BY <2>1, <2>2
<1>2. d \in [1..N -> Nat] /\ \A s \in 1..N : d[s] = Len(T[s]) /\ (s \in S <=> Len(T[s]) = 0)
    BY <1>1
<1>3. S \in SUBSET (1..N)
    OBVIOUS
<1>. HIDE DEF S, d
<1>4. /\ q \in Seq(1..N) /\ IsInjective(q)
      /\ \A p \in 1..Len(q) : q[p] \in S
      /\ \A s \in S : \E p \in 1..Len(q) : q[p] = s
    BY <1>3, KeptOfAll
<1>. HIDE DEF q
<1>5. <<>> \o q = q /\ <<>> \in Seq(1..N)
    BY <1>4, ConcatEmptySeq
<1>6. \A s : s \in Range(q) <=> s \in S
    <2>1. \A s : s \in Range(q) <=> \E p \in 1..Len(q) : q[p] = s
        BY <1>4, RangeIs
    <2>. QED BY <1>4, <2>1
<1>7. RowsBefore(T, q, <<>>)
    <2>1. \A k \in 1..Len(q) : Len(T[q[k]]) = 0
        BY <1>2, <1>3, <1>4
    <2>. QED BY <2>1 DEF RowsBefore
<1>8. \A s \in 1..N : Cardinality(Range(T[s]) \cap Range(<<>>)) = 0
    <2>1. Range(<<>>) = {}
        BY DEF Range
    <2>2. \A s \in 1..N : Range(T[s]) \cap Range(<<>>) = {}
        BY <2>1
    <2>. QED BY <2>2, FS_EmptySet
<1>9. SortAt(N, T, d, q, <<>>)
    <2>1. \A s \in Range(q) : d[s] = 0
        BY <1>2, <1>3, <1>6
    <2>2. ASSUME NEW s \in (1..N) \ Range(q)
          PROVE  d[s] # 0 /\ d[s] + Cardinality(Range(T[s]) \cap Range(<<>>)) = Len(T[s])
        <3>1. s \in 1..N /\ s \notin S
            BY <1>6
        <3>2. d[s] = Len(T[s]) /\ Len(T[s]) \in Nat /\ Len(T[s]) # 0
            BY <1>1, <1>2, <3>1
        <3>3. Cardinality(Range(T[s]) \cap Range(<<>>)) = 0
            BY <1>8, <3>1
        <3>. QED BY <3>2, <3>3
    <2>. QED BY <1>2, <1>4, <1>5, <1>7, <2>1, <2>2 DEF SortAt
<1>. QED BY <1>9 DEF d, q, S

\* The place of slot x in the order o is before that of slot y.
Ahead(o, x, y) == \E j, k \in 1..Len(o) : j < k /\ o[j] = x /\ o[k] = y

\* Every slot has one place in the order, after those of its row.
Sorted(N, T, o) ==
    /\ IsInjective(o)
    /\ \A s \in 1..N : \E k \in 1..Len(o) : o[k] = s
    /\ \A s \in 1..N : \A i \in 1..Len(T[s]) : Ahead(o, T[s][i], s)

\* Nothing is left to visit, and every slot was: it has one place, after those
\* of its row.
LEMMA SortedIsRight ==
    ASSUME NEW N \in Nat, NEW T \in [1..N -> Seq(1..N)], NEW d, NEW o,
           SortAt(N, T, d, <<>>, o), Len(o) = N
    PROVE  Sorted(N, T, o)
<1>1. o \in Seq(1..N) /\ IsInjective(o) /\ RowsBefore(T, o, o)
    BY ConcatEmptySeq DEF SortAt
<1>2. /\ IsFiniteSet(Range(o)) /\ Cardinality(Range(o)) = N
      /\ Range(o) \in SUBSET (1..N)
    BY <1>1, RowCount, RangeIs
<1>3. IsFiniteSet(1..N) /\ Cardinality(1..N) = N
    BY FS_Interval
<1>4. Range(o) = 1..N
    BY <1>2, <1>3, FS_Subset
<1>5. \A s \in 1..N : \E k \in 1..Len(o) : o[k] = s
    BY <1>1, <1>4, RangeIs
<1>6. ASSUME NEW s \in 1..N, NEW i \in 1..Len(T[s]) PROVE Ahead(o, T[s][i], s)
    <2>1. PICK k \in 1..Len(o) : o[k] = s
        BY <1>5
    <2>2. PICK j \in 1..Len(o) : j < k /\ o[j] = T[s][i]
        BY <1>1, <2>1 DEF RowsBefore
    <2>. QED BY <2>1, <2>2 DEF Ahead
<1>. QED BY <1>1, <1>5, <1>6 DEF Sorted

\* Nothing is left to visit, and some slot was not: what was not is a set in
\* which each depends on another, or has an entry twice.
LEMMA UnsortedIsCycle ==
    ASSUME NEW N \in Nat, NEW T \in [1..N -> Seq(1..N)], NEW d, NEW o,
           SortAt(N, T, d, <<>>, o), Len(o) # N
    PROVE  \/ \E S \in SUBSET (1..N) \ {{}} :
                  \A s \in S : \E k \in DOMAIN T[s] : T[s][k] \in S
           \/ \E s \in 1..N : ~IsInjective(T[s])
<1>. DEFINE S == (1..N) \ Range(o)
<1>1. /\ d \in [1..N -> Nat] /\ o \in Seq(1..N) /\ IsInjective(o)
      /\ \A s \in S : d[s] # 0 /\ d[s] + Cardinality(Range(T[s]) \cap Range(o)) = Len(T[s])
    BY ConcatEmptySeq DEF SortAt
<1>2. S # {}
    <2>1. SUFFICES ASSUME S = {} PROVE FALSE
        OBVIOUS
    <2>2. Range(o) = 1..N
        BY <1>1, <2>1, RangeIs
    <2>3. Cardinality(Range(o)) = Len(o)
        BY <1>1, RowCount
    <2>4. Cardinality(1..N) = N
        BY FS_Interval
    <2>. QED BY <2>2, <2>3, <2>4
<1>3. ASSUME NEW s \in S, IsInjective(T[s]) PROVE \E k \in DOMAIN T[s] : T[s][k] \in S
    <2>1. SUFFICES ASSUME \A k \in DOMAIN T[s] : T[s][k] \notin S PROVE FALSE
        OBVIOUS
    <2>2. T[s] \in Seq(1..N) /\ s \in 1..N
        OBVIOUS
    <2>3. Range(T[s]) \cap Range(o) = Range(T[s])
        BY <2>1, <2>2 DEF Range
    <2>4. Cardinality(Range(T[s])) = Len(T[s]) /\ Len(T[s]) \in Nat
        BY <1>3, <2>2, RowCount
    <2>5. d[s] \in Nat /\ d[s] # 0
        BY <1>1, <2>2
    <2>6. d[s] + Len(T[s]) = Len(T[s])
        BY <1>1, <2>3, <2>4
    <2>. QED BY <2>4, <2>5, <2>6
<1>. QED BY <1>2, <1>3

----------------------------------------------------------------------------
(* The declaration.                                                        *)

\* What a tuple is, and what Append makes of one.
LEMMA TupleFacts ==
    ASSUME NEW s, IsTuple(s), NEW x
    PROVE  /\ Len(s) \in Nat /\ DOMAIN s = 1..Len(s)
           /\ IsTuple(Append(s, x))
           /\ DOMAIN Append(s, x) = 1..(Len(s) + 1)
           /\ Append(s, x)[Len(s) + 1] = x
           /\ \A k \in 1..Len(s) : Append(s, x)[k] = s[k]
<1>. DEFINE V == Range(s) \cup {x}  t == Append(s, x)
<1>1. s \in Seq(V)
    BY DEF IsTuple
<1>2. x \in V
    OBVIOUS
<1>. HIDE DEF V
<1>3. /\ Len(s) \in Nat /\ DOMAIN s = 1..Len(s) /\ DOMAIN t = 1..(Len(s) + 1)
      /\ t \in Seq(V) /\ Len(t) = Len(s) + 1
      /\ t[Len(s) + 1] = x /\ \A k \in 1..Len(s) : t[k] = s[k]
    BY <1>1, <1>2
<1>4. t \in Seq(Range(t))
    BY <1>3 DEF Range
<1>. QED BY <1>3, <1>4 DEF IsTuple

\* A function on 1..n is one.
LEMMA MadeTuple ==
    ASSUME NEW n \in Nat, NEW f, f = [k \in 1..n |-> f[k]]
    PROVE  IsTuple(f) /\ Len(f) = n
<1>. DEFINE V == {f[k] : k \in 1..n}
<1>1. f \in Seq(V) /\ Len(f) = n
    OBVIOUS
<1>2. Range(f) = V
    BY DEF Range
<1>. QED BY <1>1, <1>2 DEF IsTuple

\* Clause kw of an item is written at most once.
Once(it, kw) ==
    \A i, k \in DOMAIN it.clauses : it.clauses[i].kw = kw /\ it.clauses[k].kw = kw => i = k

\* A clause of one item is a clause of another.
SameClause(a, b, kw) ==
    /\ Once(b, kw) /\ Has(a, kw) = Has(b, kw)
    /\ Has(a, kw) => TheClause(a, kw) = TheClause(b, kw)
    /\ Listed(a, kw) = Listed(b, kw)

\* The clause that is there is the one.
LEMMA ClauseIs ==
    ASSUME NEW it, NEW kw, Once(it, kw), NEW i \in DOMAIN it.clauses, it.clauses[i].kw = kw
    PROVE  Has(it, kw) /\ TheClause(it, kw) = it.clauses[i]
<1>. DEFINE j == CHOOSE k \in DOMAIN it.clauses : it.clauses[k].kw = kw
<1>1. j \in DOMAIN it.clauses /\ it.clauses[j].kw = kw
    BY Zenon
<1>2. j = i
    BY <1>1 DEF Once
<1>3. TheClause(it, kw) = it.clauses[j]
    BY DEF TheClause
<1>. QED BY <1>2, <1>3 DEF Has

\* An executor: clause leaves the others alone.
LEMMA OthersKept ==
    ASSUME NEW it, NEW e, NEW kw, kw # "executor", IsTuple(it.clauses), Once(it, kw)
    PROVE  SameClause(it, OnExecutor(it, e), kw)
<1>. DEFINE c == [kw |-> "executor", cfg |-> "", arg |-> e]
            n == OnExecutor(it, e)
            a == it.clauses
            b == Append(a, c)
<1>1. n.clauses = b /\ c.kw = "executor"
    BY DEF OnExecutor
<1>. HIDE DEF n, c
<1>2. /\ Len(a) \in Nat /\ DOMAIN a = 1..Len(a) /\ DOMAIN b = 1..(Len(a) + 1)
      /\ b[Len(a) + 1] = c /\ \A k \in 1..Len(a) : b[k] = a[k]
    BY TupleFacts
<1>. HIDE DEF b
<1>3. \A i \in DOMAIN b : b[i].kw = kw => i \in DOMAIN a /\ b[i] = a[i]
    BY <1>1, <1>2
<1>4. \A i \in DOMAIN a : i \in DOMAIN b /\ b[i] = a[i]
    BY <1>2
<1>5. Once(n, kw)
    BY <1>1, <1>3 DEF Once
<1>6. Has(it, kw) = Has(n, kw)
    BY <1>1, <1>3, <1>4 DEF Has
<1>7. ASSUME Has(it, kw) PROVE TheClause(it, kw) = TheClause(n, kw)
    <2>1. PICK i \in DOMAIN a : a[i].kw = kw
        BY <1>7 DEF Has
    <2>2. TheClause(it, kw) = a[i]
        BY <2>1, ClauseIs
    <2>3. i \in DOMAIN n.clauses /\ n.clauses[i] = a[i]
        BY <1>1, <1>4
    <2>4. TheClause(n, kw) = a[i]
        BY <1>5, <2>1, <2>3, ClauseIs
    <2>. QED BY <2>2, <2>4
<1>8. Listed(it, kw) = Listed(n, kw)
    BY <1>6, <1>7 DEF Listed
<1>. QED BY <1>5, <1>6, <1>7, <1>8 DEF SameClause, n

\* Every item of the menu lists fewer dependencies than an in_degree counts, and
\* every pool has a member.
MenuFits ==
    \A m \in DOMAIN DeclMenu :
        LET it == DeclMenu[m] IN
        it.kind \in {"node", "pool"} =>
            Len(Listed(it, "deps")) < IdxMod /\ (it.kind = "pool" => it.modes # <<>>)

\* The clauses an item is asked for are written once.
ClausesOnce(it) ==
    /\ IsTuple(it.clauses)
    /\ \A kw \in {"deps", "resources", "writes", "beat_timeout", "ready_on_write"} : Once(it, kw)

ListsAre(it) ==
    /\ \A kw \in {"deps", "resources", "writes"} : IsTuple(Listed(it, kw))
    /\ Len(Listed(it, "deps")) < IdxMod

MembersAre(it) == it.kind = "pool" => Len(it.modes) \in Nat \ {0}

\* It writes a signal once, and a node names a resource once.
ToldApart(it) ==
    /\ \A i, k \in DOMAIN Listed(it, "writes") :
           Display(Listed(it, "writes")[i]) = Display(Listed(it, "writes")[k]) => i = k
    /\ it.kind = "node" =>
           \A i, k \in DOMAIN Listed(it, "resources") :
               Listed(it, "resources")[i].name = Listed(it, "resources")[k].name => i = k

\* What asserts the readiness of a ready_on_write node is there when it is.
Driven(it) ==
    Has(it, "ready_on_write") =>
        /\ it.kind = "node" /\ Has(it, "beat_timeout")
        /\ TheClause(it, "beat_timeout").cfg # "" =>
               TheClause(it, "ready_on_write").cfg = TheClause(it, "beat_timeout").cfg
        /\ \E i \in DOMAIN Listed(it, "writes") :
               {"observed", "beat"} \subseteq Listed(it, "writes")[i].marks

GoodItem(it) ==
    it.kind \in {"node", "pool"} =>
        ClausesOnce(it) /\ ListsAre(it) /\ MembersAre(it) /\ ToldApart(it) /\ Driven(it)

\* The empty list.
LEMMA EmptyTuple == IsTuple(<<>>) /\ DOMAIN <<>> = {} /\ Len(<<>>) = 0
<1>1. <<>> \in Seq({}) /\ DOMAIN <<>> = {} /\ Len(<<>>) = 0
    OBVIOUS
<1>2. Range(<<>>) = {}
    BY <1>1 DEF Range
<1>. QED BY <1>1, <1>2 DEF IsTuple

\* An item that parse_node or parse_pool accepts is good.
LEMMA ParsedIsGood ==
    ASSUME MenuFits, NEW m \in DOMAIN DeclMenu, ItemOk(DeclMenu[m])
    PROVE  GoodItem(DeclMenu[m])
<1>. DEFINE it == DeclMenu[m]
<1>. SUFFICES ASSUME it.kind \in {"node", "pool"}
              PROVE  ClausesOnce(it) /\ ListsAre(it) /\ MembersAre(it) /\ ToldApart(it) /\ Driven(it)
    BY DEF GoodItem
<1>1. /\ IsTuple(it.modes) /\ IsTuple(it.clauses)
      /\ \A i \in DOMAIN it.clauses :
             it.clauses[i].kw \in {"deps", "resources", "writes"} => IsTuple(it.clauses[i].arg)
    BY DeclAssumption, Zenon
<1>2. Len(Listed(it, "deps")) < IdxMod /\ (it.kind = "pool" => it.modes # <<>>)
    BY DEF MenuFits
<1>3. ClausesOk(it) /\ ListsOk(it) /\ IF it.kind = "pool" THEN PoolOk(it) ELSE NodeOk(it)
    <2>1. it.kind \notin {"executor", "default"}
        OBVIOUS
    <2>. QED BY <2>1, Zenon DEF ItemOk
<1>. HIDE DEF it
<1>4. ClausesOnce(it)
    BY <1>1, <1>3 DEF ClausesOnce, Once, ClausesOk
<1>5. \A kw \in {"deps", "resources", "writes"} : IsTuple(Listed(it, kw))
    <2>. TAKE kw \in {"deps", "resources", "writes"}
    <2>1. CASE Has(it, kw)
        <3>1. PICK i \in DOMAIN it.clauses : it.clauses[i].kw = kw
            BY <2>1 DEF Has
        <3>2. Once(it, kw)
            BY <1>4 DEF ClausesOnce
        <3>3. TheClause(it, kw) = it.clauses[i]
            BY <3>1, <3>2, ClauseIs
        <3>4. Listed(it, kw) = it.clauses[i].arg
            BY <2>1, <3>3 DEF Listed
        <3>. QED BY <1>1, <3>1, <3>4
    <2>2. CASE ~Has(it, kw)
        BY <2>2, EmptyTuple DEF Listed
    <2>. QED BY <2>1, <2>2
<1>6. ListsAre(it)
    BY <1>2, <1>5 DEF ListsAre
<1>7. MembersAre(it)
    <2>1. it.modes \in Seq(Range(it.modes))
        BY <1>1 DEF IsTuple
    <2>2. it.modes # <<>> => Len(it.modes) \in Nat \ {0}
        BY <2>1
    <2>. QED BY <1>2, <2>2 DEF MembersAre
<1>8. ToldApart(it)
    <2>1. ASSUME NEW i \in DOMAIN Listed(it, "writes"), NEW k \in DOMAIN Listed(it, "writes"), i # k
          PROVE  Display(Listed(it, "writes")[i]) # Display(Listed(it, "writes")[k])
        <3>1. Has(it, "writes")
            BY EmptyTuple, <2>1 DEF Listed
        <3>2. SignalListOk(Listed(it, "writes"))
            BY <1>3, <3>1 DEF ListsOk
        <3>. DEFINE ss == Listed(it, "writes")
        <3>. HIDE DEF ss
        <3>3. SignalListOk(ss) /\ i \in DOMAIN ss /\ k \in DOMAIN ss
            BY <2>1, <3>2 DEF ss
        <3>4. Display(ss[i]) # Display(ss[k])
            BY <2>1, <3>3, Zenon DEF SignalListOk
        <3>. QED BY <3>4 DEF ss
    <2>2. ASSUME it.kind = "node", NEW i \in DOMAIN Listed(it, "resources"),
                 NEW k \in DOMAIN Listed(it, "resources"),
                 Listed(it, "resources")[i].name = Listed(it, "resources")[k].name
          PROVE  i = k
        <3>1. Has(it, "resources")
            BY EmptyTuple, <2>2 DEF Listed
        <3>2. NodeOk(it)
            BY <1>3, <2>2
        <3>3. ResourceListOk(Listed(it, "resources"))
            BY <3>1, <3>2, Zenon DEF NodeOk
        <3>. QED BY <2>2, <3>3, Zenon DEF ResourceListOk
    <2>. QED BY <2>1, <2>2 DEF ToldApart
<1>9. Driven(it)
    <2>. SUFFICES ASSUME Has(it, "ready_on_write") PROVE it.kind = "node" /\ BeatClausesOk(it)
        BY DEF Driven, BeatClausesOk
    <2>1. PICK i \in DOMAIN it.clauses : it.clauses[i].kw = "ready_on_write"
        BY DEF Has
    <2>2. "ready_on_write" \in ClauseNames(it)
        BY <1>3, <2>1 DEF ClausesOk
    <2>3. it.kind # "pool"
        BY <2>2 DEF ClauseNames, CommonClauses, PoolClauses
    <2>4. NodeOk(it)
        BY <1>3, <2>3
    <2>. QED BY <2>3, <2>4, Zenon DEF NodeOk
<1>. QED BY <1>4, <1>6, <1>7, <1>8, <1>9 DEF it

\* apply_default_executor leaves it good.
LEMMA ExecutorIsGood ==
    ASSUME NEW it, GoodItem(it), NEW e
    PROVE  GoodItem(OnExecutor(it, e))
<1>. DEFINE n == OnExecutor(it, e)
            Kws == {"deps", "resources", "writes", "beat_timeout", "ready_on_write"}
<1>0. n.kind = it.kind /\ n.modes = it.modes
    BY DEF OnExecutor
<1>1. SUFFICES ASSUME it.kind \in {"node", "pool"}
               PROVE  ClausesOnce(n) /\ ListsAre(n) /\ MembersAre(n) /\ ToldApart(n) /\ Driven(n)
    BY <1>0 DEF GoodItem
<1>2. ClausesOnce(it) /\ ListsAre(it) /\ MembersAre(it) /\ ToldApart(it) /\ Driven(it)
    BY <1>1 DEF GoodItem
<1>3. \A kw \in Kws : SameClause(it, n, kw)
    <2>1. \A kw \in Kws : kw # "executor"
        OBVIOUS
    <2>. QED BY <1>2, <2>1, OthersKept DEF ClausesOnce
<1>4. IsTuple(n.clauses)
    <2>. DEFINE c == [kw |-> "executor", cfg |-> "", arg |-> e]
    <2>1. n.clauses = Append(it.clauses, c)
        BY DEF OnExecutor
    <2>. HIDE DEF c, n
    <2>. QED BY <1>2, <2>1, TupleFacts DEF ClausesOnce
<1>. HIDE DEF n
<1>5. ClausesOnce(n)
    BY <1>3, <1>4 DEF ClausesOnce, SameClause
<1>6. /\ \A kw \in Kws : Listed(it, kw) = Listed(n, kw)
      /\ \A kw \in Kws : Has(it, kw) = Has(n, kw)
      /\ \A kw \in Kws : Has(it, kw) => TheClause(it, kw) = TheClause(n, kw)
    BY <1>3 DEF SameClause
<1>7. /\ Listed(it, "deps") = Listed(n, "deps") /\ Listed(it, "writes") = Listed(n, "writes")
      /\ Listed(it, "resources") = Listed(n, "resources")
      /\ Has(it, "ready_on_write") = Has(n, "ready_on_write")
      /\ Has(it, "beat_timeout") = Has(n, "beat_timeout")
      /\ Has(it, "beat_timeout") => TheClause(it, "beat_timeout") = TheClause(n, "beat_timeout")
      /\ Has(it, "ready_on_write") =>
            TheClause(it, "ready_on_write") = TheClause(n, "ready_on_write")
    BY <1>6
<1>8. ListsAre(n)
    BY <1>2, <1>7 DEF ListsAre
<1>9. MembersAre(n) /\ ToldApart(n)
    BY <1>0, <1>2, <1>7 DEF MembersAre, ToldApart
<1>10. Driven(n)
    BY <1>0, <1>2, <1>7 DEF Driven
<1>. QED BY <1>5, <1>8, <1>9, <1>10

----------------------------------------------------------------------------
(* The slots.                                                              *)

Parsed == IsTuple(decl) /\ \A i \in DOMAIN decl : GoodItem(decl[i])

\* The items that have slots, and how many.
LEMMA CountsAre ==
    ASSUME Parsed
    PROVE  /\ Len(decl) \in Nat /\ Owners \in SUBSET (1..Len(decl)) /\ IsFiniteSet(Owners)
           /\ \A i \in Owners : GoodItem(decl[i]) /\ decl[i].kind \in {"node", "pool"}
           /\ \A i \in Owners : MemberCount(i) \in Nat \ {0} /\ MemberCounts[i] = MemberCount(i)
<1>1. Len(decl) \in Nat /\ DOMAIN decl = 1..Len(decl)
    BY TupleFacts DEF Parsed
<1>2. Owners \in SUBSET (1..Len(decl)) /\ IsFiniteSet(Owners)
    <2>1. Owners \in SUBSET (1..Len(decl))
        BY <1>1 DEF Owners
    <2>2. IsFiniteSet(1..Len(decl))
        BY <1>1, FS_Interval
    <2>. QED BY <2>1, <2>2, FS_Subset
<1>3. \A i \in Owners : GoodItem(decl[i]) /\ decl[i].kind \in {"node", "pool"}
    BY DEF Owners, Parsed
<1>4. \A i \in Owners : MemberCount(i) \in Nat \ {0}
    BY <1>3 DEF MemberCount, GoodItem, MembersAre
<1>. QED BY <1>1, <1>2, <1>3, <1>4 DEF MemberCounts

\* The slots of the items before the n-th.
Upto(n) == SumFunctionOnSet(MemberCounts, {k \in Owners : k < n})

\* The slots of an item come right after those of the items before it.
LEMMA UptoGrows ==
    ASSUME Parsed, NEW i \in Owners, NEW n \in Nat, i < n
    PROVE  /\ Upto(i) \in Nat /\ Upto(n) \in Nat
           /\ Upto(i) + MemberCount(i) <= Upto(n)
           /\ n = i + 1 => Upto(n) = Upto(i) + MemberCount(i)
<1>. DEFINE A == {k \in Owners : k < i}  B == {k \in Owners : k < n}
<1>1. i \in Nat /\ Owners \subseteq Nat /\ IsFiniteSet(Owners)
    BY CountsAre
<1>0. /\ \A k : k \in A <=> (k \in Owners /\ k < i)
      /\ \A k : k \in B <=> (k \in Owners /\ k < n)
    OBVIOUS
<1>. HIDE DEF A, B
<1>2. A \in SUBSET B /\ i \in B /\ i \notin A /\ B \in SUBSET Owners
    <2>1. \A k \in Owners : k < i => k < n
        BY <1>1
    <2>2. ~(i < i)
        BY <1>1
    <2>. QED BY <1>0, <2>1, <2>2, Zenon
<1>3. IsFiniteSet(B) /\ \A x \in B : MemberCounts[x] \in Nat
    BY <1>1, <1>2, CountsAre, FS_Subset
<1>4. n = i + 1 => B = A \cup {i}
    <2>1. \A k \in Owners : n = i + 1 => (k < n <=> k < i \/ k = i)
        BY <1>1
    <2>. QED BY <1>0, <2>1
<1>5. Upto(i) = SumFunctionOnSet(MemberCounts, A) /\ Upto(n) = SumFunctionOnSet(MemberCounts, B)
    BY DEF Upto, A, B
<1>6. /\ SumFunctionOnSet(MemberCounts, A) \in Nat /\ SumFunctionOnSet(MemberCounts, B) \in Nat
      /\ SumFunctionOnSet(MemberCounts, A) + MemberCounts[i] <= SumFunctionOnSet(MemberCounts, B)
      /\ B = A \cup {i} =>
            SumFunctionOnSet(MemberCounts, B) = SumFunctionOnSet(MemberCounts, A) + MemberCounts[i]
    BY <1>2, <1>3, SumGrows
<1>7. MemberCounts[i] = MemberCount(i)
    BY CountsAre
<1>. QED BY <1>4, <1>5, <1>6, <1>7

\* No item is past the last, and none before the first.
LEMMA UptoEnds ==
    ASSUME Parsed
    PROVE  /\ Upto(0) = 0 /\ Upto(Len(decl) + 1) = SlotCount /\ SlotCount \in Nat
           /\ \A n \in Nat : n \notin Owners => Upto(n + 1) = Upto(n)
           /\ \A i : SlotOf(i) = 1 + Upto(i)
<1>1. Len(decl) \in Nat /\ Owners \in SUBSET (1..Len(decl)) /\ IsFiniteSet(Owners)
    BY CountsAre
<1>2. {k \in Owners : k < 0} = {} /\ {k \in Owners : k < Len(decl) + 1} = Owners
    <2>1. \A k \in Owners : ~(k < 0) /\ k < Len(decl) + 1
        BY <1>1
    <2>. QED BY <2>1, Zenon
<1>3. SumFunctionOnSet(MemberCounts, {}) = 0
    <2>1. IsFiniteSet({}) /\ {} \in SUBSET {}
        BY FS_EmptySet
    <2>2. Iter(MemberCounts, {})[{}] = Step(MemberCounts, Iter(MemberCounts, {}), {})
        BY <2>1, IterDefined
    <2>. QED BY <2>2, SumIsIter DEF Step
<1>4. Upto(0) = 0 /\ Upto(Len(decl) + 1) = SlotCount
    BY <1>2, <1>3 DEF Upto, SlotCount
<1>5. SlotCount \in Nat
    <2>1. \A x \in Owners : MemberCounts[x] \in Nat
        BY CountsAre
    <2>2. Iter(MemberCounts, Owners) \in [SUBSET Owners -> Nat]
        BY <1>1, <2>1, IterDefined
    <2>3. Iter(MemberCounts, Owners)[Owners] \in Nat
        BY <2>2
    <2>. QED BY <2>3, SumIsIter DEF SlotCount
<1>6. ASSUME NEW n \in Nat, n \notin Owners PROVE Upto(n + 1) = Upto(n)
    <2>0. \A k \in Owners : k < n + 1 <=> k < n
        BY <1>1, <1>6
    <2>1. {k \in Owners : k < n + 1} = {k \in Owners : k < n}
        BY <2>0, Zenon
    <2>. QED BY <2>1 DEF Upto
<1>. QED BY <1>4, <1>5, <1>6 DEF SlotOf, Upto

\* The slots of item i.
RangeOf(i) == SlotOf(i)..(SlotOf(i) + MemberCount(i) - 1)

\* Each slot is one item's.
LEMMA SlotsAreShared ==
    ASSUME Parsed
    PROVE  /\ \A i \in Owners : SlotOf(i) \in Nat /\ SlotOf(i) \in RangeOf(i) /\ RangeOf(i) \subseteq Slots
           /\ \A i, j \in Owners : i # j => RangeOf(i) \cap RangeOf(j) = {}
           /\ \A s \in Slots : \E i \in Owners : s \in RangeOf(i)
<1>1. /\ Len(decl) \in Nat /\ Owners \in SUBSET (1..Len(decl))
      /\ \A i \in Owners : MemberCount(i) \in Nat \ {0}
    BY CountsAre
<1>2. \A i \in Owners : SlotOf(i) = 1 + Upto(i) /\ Upto(i) \in Nat /\ i < Len(decl) + 1
    BY <1>1, UptoGrows, UptoEnds
<1>3. ASSUME NEW i \in Owners
      PROVE  SlotOf(i) \in Nat /\ SlotOf(i) \in RangeOf(i) /\ RangeOf(i) \subseteq Slots
    <2>1. Upto(i) + MemberCount(i) <= SlotCount /\ SlotCount \in Nat
        BY <1>1, <1>2, UptoGrows, UptoEnds
    <2>. QED BY <1>1, <1>2, <2>1 DEF RangeOf, Slots
<1>4. ASSUME NEW i \in Owners, NEW j \in Owners, i < j PROVE RangeOf(i) \cap RangeOf(j) = {}
    <2>1. Upto(i) + MemberCount(i) <= Upto(j)
        BY <1>1, <1>4, UptoGrows
    <2>. QED BY <1>1, <1>2, <2>1 DEF RangeOf
<1>5. \A i, j \in Owners : i # j => RangeOf(i) \cap RangeOf(j) = {}
    BY <1>1, <1>4
<1>. DEFINE P == {n \in Nat : Upto(n) \in Nat /\ \A s \in 1..Upto(n) : \E i \in Owners : s \in RangeOf(i)}
<1>6. 0 \in P
    BY UptoEnds
<1>7. ASSUME NEW n \in Nat, n \in P PROVE n + 1 \in P
    <2>1. CASE n \notin Owners
        BY <1>7, <2>1, UptoEnds
    <2>2. CASE n \in Owners
        <3>1. Upto(n + 1) = Upto(n) + MemberCount(n)
            BY <2>2, UptoGrows
        <3>2. Upto(n) \in Nat /\ MemberCount(n) \in Nat /\ SlotOf(n) = 1 + Upto(n)
            BY <1>1, <1>2, <2>2
        <3>3. ASSUME NEW s \in 1..Upto(n + 1) PROVE \E i \in Owners : s \in RangeOf(i)
            <4>1. CASE s <= Upto(n)
                BY <1>7, <3>1, <3>2, <4>1
            <4>2. CASE ~(s <= Upto(n))
                <5>1. s \in RangeOf(n)
                    BY <3>1, <3>2, <4>2 DEF RangeOf
                <5>. QED BY <2>2, <5>1
            <4>. QED BY <4>1, <4>2
        <3>. QED BY <3>1, <3>2, <3>3
    <2>. QED BY <2>1, <2>2
<1>8. Len(decl) + 1 \in P
    <2>. HIDE DEF P
    <2>1. Nat \subseteq P
        BY <1>6, <1>7, NatSetInduction
    <2>. QED BY <1>1, <2>1
<1>9. \A s \in Slots : \E i \in Owners : s \in RangeOf(i)
    BY <1>8, UptoEnds DEF Slots
<1>. QED BY <1>3, <1>5, <1>9

----------------------------------------------------------------------------
(* The table of dependencies.                                              *)

\* The item a slot belongs to.
LEMMA ItemIs ==
    ASSUME Parsed
    PROVE  /\ \A i \in Owners : \A s \in RangeOf(i) : ItemOf(s) = i
           /\ \A s \in Slots : ItemOf(s) \in Owners /\ s \in RangeOf(ItemOf(s))
<1>1. \A s : ItemOf(s) = CHOOSE i \in Owners : s \in RangeOf(i)
    BY DEF ItemOf, RangeOf
<1>2. ASSUME NEW i \in Owners, NEW s \in RangeOf(i) PROVE ItemOf(s) = i
    <2>1. \A j \in Owners : s \in RangeOf(j) => j = i
        BY SlotsAreShared
    <2>. QED BY <1>1, <2>1, Zenon
<1>3. ASSUME NEW s \in Slots PROVE ItemOf(s) \in Owners /\ s \in RangeOf(ItemOf(s))
    <2>1. PICK i \in Owners : s \in RangeOf(i)
        BY SlotsAreShared
    <2>2. ItemOf(s) = i
        BY <1>2, <2>1
    <2>. QED BY <2>1, <2>2
<1>. QED BY <1>2, <1>3

\* The row of a slot: the dependencies of its item whose #[cfg] is on.
LEMMA CompiledIs ==
    ASSUME Parsed, NEW i \in Owners, NEW s \in RangeOf(i)
    PROVE  LET ds == Listed(decl[i], "deps") IN
           /\ Len(Compiled(s)) \in Nat /\ Len(Compiled(s)) < IdxMod
           /\ DOMAIN Compiled(s) = 1..Len(Compiled(s))
           /\ \A k \in DOMAIN Compiled(s) : \E l \in DOMAIN ds : Compiled(s)[k] = ds[l]
           /\ \A l \in DOMAIN ds : Active(ds[l].cfg) =>
                  \E k \in DOMAIN Compiled(s) : Compiled(s)[k] = ds[l]
<1>. DEFINE ds == Listed(decl[i], "deps")
            V == Range(ds)
            I == {k \in DOMAIN ds : Active(ds[k].cfg)}
            t == Kept(ds, I)
<1>1. ds \in Seq(V) /\ Len(ds) < IdxMod
    BY CountsAre DEF GoodItem, ListsAre, IsTuple
<1>2. Compiled(s) = t
    BY ItemIs DEF Compiled
<1>3. \A l \in DOMAIN ds : Active(ds[l].cfg) => l \in I
    OBVIOUS
<1>. HIDE DEF ds, V, I
<1>4. /\ t \in Seq(V) /\ Len(t) = Cardinality(Before(I, Len(ds)))
      /\ \A l \in 1..Len(ds) : l \in I => Found(t, 1 + Cardinality(Before(I, l - 1)), ds[l])
      /\ \A p \in 1..Len(t) : \E l \in 1..Len(ds) : From(t, I, ds, l, p)
    BY <1>1, KeptHolds
<1>. HIDE DEF t
<1>5. DOMAIN ds = 1..Len(ds) /\ Len(ds) \in Nat /\ DOMAIN t = 1..Len(t) /\ Len(t) \in Nat
    BY <1>1, <1>4
<1>6. Len(t) < IdxMod
    <2>. DEFINE n == Len(ds)
    <2>0. n \in Nat
        BY <1>5
    <2>. HIDE DEF n
    <2>1. IsFiniteSet(1..n) /\ Cardinality(1..n) = n
        BY <2>0, FS_Interval
    <2>. USE DEF n
    <2>2. Before(I, Len(ds)) \in SUBSET (1..Len(ds))
        BY DEF Before
    <2>3. Cardinality(Before(I, Len(ds))) <= Cardinality(1..Len(ds))
        BY <2>1, <2>2, FS_Subset
    <2>. QED BY <1>1, <1>4, <1>5, <2>1, <2>3, DeclAssumption
<1>7. \A k \in DOMAIN t : \E l \in DOMAIN ds : t[k] = ds[l]
    BY <1>4, <1>5 DEF From
<1>8. \A l \in DOMAIN ds : l \in I => \E k \in DOMAIN t : t[k] = ds[l]
    BY <1>4, <1>5 DEF Found
<1>. QED BY <1>2, <1>3, <1>5, <1>6, <1>7, <1>8 DEF ds

NamesOnce == \A i, k \in Owners : decl[i].name = decl[k].name => i = k

\* The table T has, in the row of each slot of an item, the slots of its
\* dependencies.
RowsListed(T) ==
    \A i \in Owners : \A k \in DOMAIN Listed(decl[i], "deps") :
        Active(Listed(decl[i], "deps")[k].cfg) =>
            \A s \in RangeOf(i) : \A p \in Named(Listed(decl[i], "deps")[k].to) :
                \E j \in 1..Len(T[s]) : T[s][j] = SlotOf(p)

\* The table fits the sort and says what was declared.
LEMMA TableIs ==
    ASSUME Parsed, TablesOk, NamesOnce
    PROVE  /\ DepTable \in [Slots -> Seq(Slots)]
           /\ \A s \in Slots : Len(DepTable[s]) < IdxMod
           /\ RowsListed(DepTable)
<1>. DEFINE Row(s) == [k \in DOMAIN Compiled(s) |->
                          SlotOf(CHOOSE i \in Named(Compiled(s)[k].to) : TRUE)]
<1>1. DepTable = [s \in Slots |-> Row(s)]
    BY DEF DepTable
<1>2. ASSUME NEW i \in Owners, NEW s \in RangeOf(i), NEW k \in DOMAIN Compiled(s)
      PROVE  Row(s)[k] \in Slots /\ \A p \in Named(Compiled(s)[k].to) : Row(s)[k] = SlotOf(p)
    <2>. DEFINE N == Named(Compiled(s)[k].to)
                c == CHOOSE j \in N : TRUE
    <2>1. N # {}
        BY <1>2, CompiledIs DEF TablesOk
    <2>2. c \in N
        BY <2>1, Zenon
    <2>3. N \subseteq Owners /\ \A p \in N : p = c
        BY <2>2 DEF Named, NamesOnce
    <2>4. Row(s)[k] = SlotOf(c)
        OBVIOUS
    <2>5. SlotOf(c) \in Slots
        BY <2>2, <2>3, SlotsAreShared
    <2>. HIDE DEF N, c
    <2>6. Row(s)[k] \in Slots /\ \A p \in N : Row(s)[k] = SlotOf(p)
        BY <2>3, <2>4, <2>5
    <2>. QED BY <2>6 DEF N
<1>3. ASSUME NEW s \in Slots PROVE Row(s) \in Seq(Slots) /\ Len(Row(s)) < IdxMod
    <2>. DEFINE n == Len(Compiled(s))
    <2>1. ItemOf(s) \in Owners /\ s \in RangeOf(ItemOf(s))
        BY ItemIs
    <2>2. n \in Nat /\ n < IdxMod /\ DOMAIN Compiled(s) = 1..n
        BY <2>1, CompiledIs
    <2>3. \A k \in 1..n : Row(s)[k] \in Slots
        BY <1>2, <2>1, <2>2
    <2>4. Row(s) = [k \in 1..n |-> Row(s)[k]]
        BY <2>2
    <2>. HIDE DEF Row, n
    <2>5. Row(s) \in [1..n -> Slots]
        BY <2>3, <2>4
    <2>. QED BY <2>2, <2>5
<1>4. ASSUME NEW i \in Owners, NEW l \in DOMAIN Listed(decl[i], "deps"),
             Active(Listed(decl[i], "deps")[l].cfg), NEW s \in RangeOf(i),
             NEW p \in Named(Listed(decl[i], "deps")[l].to)
      PROVE  s \in Slots /\ \E j \in 1..Len(Row(s)) : Row(s)[j] = SlotOf(p)
    <2>1. PICK k \in DOMAIN Compiled(s) : Compiled(s)[k] = Listed(decl[i], "deps")[l]
        BY <1>4, CompiledIs
    <2>2. Row(s)[k] = SlotOf(p)
        BY <1>2, <2>1
    <2>3. s \in Slots
        BY SlotsAreShared
    <2>4. k \in DOMAIN Row(s)
        BY <2>1
    <2>. HIDE DEF Row
    <2>5. DOMAIN Row(s) = 1..Len(Row(s))
        BY <1>3, <2>3
    <2>. QED BY <2>2, <2>3, <2>4, <2>5
<1>. HIDE DEF Row
<1>. QED BY <1>1, <1>3, <1>4 DEF RowsListed

----------------------------------------------------------------------------
(* Claims and vetoes.                                                      *)

\* Finitely many finite sets.
LEMMA FiniteUnion ==
    ASSUME NEW S, IsFiniteSet(S), NEW F, \A x \in S : IsFiniteSet(F[x])
    PROVE  IsFiniteSet(UNION {F[x] : x \in S})
<1>. DEFINE U(s) == UNION {F[x] : x \in s}
            P == {s \in SUBSET S : IsFiniteSet(U(s))}
<1>1. {} \in P
    <2>1. U({}) = {}
        OBVIOUS
    <2>. QED BY <2>1, FS_EmptySet
<1>2. ASSUME NEW s \in SUBSET S, s # {}, Rest(s) \in P PROVE s \in P
    <2>1. Pick(s) \in s /\ Pick(s) \in S
        BY <1>2, RestSmaller
    <2>2. U(s) = U(Rest(s)) \cup F[Pick(s)]
        BY <2>1 DEF Rest
    <2>3. IsFiniteSet(U(Rest(s))) /\ IsFiniteSet(F[Pick(s)])
        BY <1>2, <2>1
    <2>. HIDE DEF U
    <2>4. IsFiniteSet(U(s))
        BY <2>2, <2>3, FS_Union
    <2>. QED BY <2>4
<1>3. S \in P
    <2>. HIDE DEF P
    <2>. QED BY <1>1, <1>2, SubsetInduction
<1>. QED BY <1>3

\* The entries of a clause over all items.
Spread(K) == UNION {{i} \X K[i] : i \in Owners}

\* There are finitely many.
LEMMA SpreadIs ==
    ASSUME Parsed, NEW K, \A i \in Owners : IsFiniteSet(K[i])
    PROVE  /\ IsFiniteSet(Spread(K))
           /\ \A e : e \in Spread(K) <=>
                  (e = <<e[1], e[2]>> /\ e[1] \in Owners /\ e[2] \in K[e[1]])
<1>. DEFINE F == [i \in Owners |-> {i} \X K[i]]
<1>1. \A i \in Owners : IsFiniteSet(F[i])
    <2>. TAKE i \in Owners
    <2>1. IsFiniteSet({i}) /\ IsFiniteSet(K[i])
        BY FS_Singleton
    <2>2. IsFiniteSet({i} \X K[i])
        BY <2>1, FS_Product
    <2>. QED BY <2>2
<1>2. Spread(K) = UNION {F[i] : i \in Owners}
    BY DEF Spread
<1>. HIDE DEF F
<1>3. IsFiniteSet(Spread(K))
    BY <1>1, <1>2, CountsAre, FiniteUnion
<1>4. ASSUME NEW e, e \in Spread(K)
      PROVE  e = <<e[1], e[2]>> /\ e[1] \in Owners /\ e[2] \in K[e[1]]
    BY <1>4 DEF Spread
<1>5. ASSUME NEW e, e = <<e[1], e[2]>>, e[1] \in Owners, e[2] \in K[e[1]]
      PROVE  e \in Spread(K)
    <2>1. e \in {e[1]} \X K[e[1]]
        BY <1>5
    <2>. QED BY <1>5, <2>1 DEF Spread
<1>. QED BY <1>3, <1>4, <1>5

\* Every resources: entry, and every veto entry.
LEMMA EntriesAre ==
    ASSUME Parsed
    PROVE  /\ IsFiniteSet(Entries)
           /\ \A e : e \in Entries <=>
                  (/\ e = <<e[1], e[2]>> /\ e[1] \in Owners
                   /\ e[2] \in DOMAIN Listed(decl[e[1]], "resources"))
           /\ \A i \in Owners : \E n \in Nat : DOMAIN Listed(decl[i], "resources") = 1..n
           /\ IsFiniteSet(Vetoes)
           /\ \A e \in Vetoes : /\ e = <<e[1], e[2]>> /\ e[1] \in Owners
                                /\ e[2] \in DOMAIN Listed(decl[e[1]], "writes")
<1>. DEFINE K == [i \in Owners |-> DOMAIN Listed(decl[i], "resources")]
            W == [i \in Owners |-> {k \in DOMAIN Listed(decl[i], "writes") :
                                       "veto" \in Listed(decl[i], "writes")[k].marks}]
<1>1. \A i \in Owners : IsTuple(Listed(decl[i], "resources")) /\ IsTuple(Listed(decl[i], "writes"))
    BY CountsAre DEF GoodItem, ListsAre
<1>2. \A i \in Owners : /\ \E n \in Nat : DOMAIN Listed(decl[i], "resources") = 1..n
                        /\ \E n \in Nat : DOMAIN Listed(decl[i], "writes") = 1..n
    BY <1>1, TupleFacts
<1>3. \A n \in Nat : IsFiniteSet(1..n)
    BY FS_Interval
<1>4. \A i \in Owners : IsFiniteSet(DOMAIN Listed(decl[i], "resources"))
                        /\ IsFiniteSet(DOMAIN Listed(decl[i], "writes"))
    BY <1>2, <1>3
<1>5. \A i \in Owners : IsFiniteSet(K[i]) /\ IsFiniteSet(W[i])
    <2>1. \A i \in Owners : W[i] \in SUBSET DOMAIN Listed(decl[i], "writes")
        OBVIOUS
    <2>2. \A i \in Owners : IsFiniteSet(W[i])
        <3>. HIDE DEF W
        <3>. QED BY <1>4, <2>1, FS_Subset
    <2>. QED BY <1>4, <2>2
<1>6. Entries = Spread(K) /\ Vetoes = Spread(W)
    BY DEF Entries, Vetoes, Spread
<1>7. \A i \in Owners : /\ K[i] = DOMAIN Listed(decl[i], "resources")
                        /\ W[i] \subseteq DOMAIN Listed(decl[i], "writes")
    OBVIOUS
<1>. HIDE DEF K, W
<1>8. /\ IsFiniteSet(Spread(K)) /\ IsFiniteSet(Spread(W))
      /\ \A e : e \in Spread(K) <=> (e = <<e[1], e[2]>> /\ e[1] \in Owners /\ e[2] \in K[e[1]])
      /\ \A e : e \in Spread(W) <=> (e = <<e[1], e[2]>> /\ e[1] \in Owners /\ e[2] \in W[e[1]])
    BY <1>5, SpreadIs
<1>9. \A e : e \in Entries <=> (/\ e = <<e[1], e[2]>> /\ e[1] \in Owners
                                /\ e[2] \in DOMAIN Listed(decl[e[1]], "resources"))
    BY <1>6, <1>7, <1>8, Zenon
<1>10. \A e \in Vetoes : /\ e = <<e[1], e[2]>> /\ e[1] \in Owners
                         /\ e[2] \in DOMAIN Listed(decl[e[1]], "writes")
    BY <1>6, <1>7, <1>8, Zenon
<1>. QED BY <1>2, <1>6, <1>8, <1>9, <1>10

\* The members of more entries.
LEMMA MembersGrow ==
    ASSUME Parsed, NEW B, IsFiniteSet(B), \A x \in B : x[1] \in Owners,
           NEW A \in SUBSET B, NEW e \in B, e \notin A
    PROVE  /\ Members(A) \in Nat /\ Members(B) \in Nat
           /\ Members(A) + MemberCount(e[1]) <= Members(B)
<1>. DEFINE f == [x \in A |-> MemberCount(x[1])]  g == [x \in B |-> MemberCount(x[1])]
<1>1. /\ \A x \in A : f[x] = g[x]
      /\ g[e] = MemberCount(e[1])
    OBVIOUS
<1>2. \A x \in B : g[x] \in Nat
    BY CountsAre
<1>3. Members(A) = SumFunctionOnSet(f, A) /\ Members(B) = SumFunctionOnSet(g, B)
    BY DEF Members
<1>. HIDE DEF f, g
<1>4. /\ SumFunctionOnSet(f, A) \in Nat /\ SumFunctionOnSet(g, B) \in Nat
      /\ SumFunctionOnSet(f, A) + g[e] <= SumFunctionOnSet(g, B)
    BY <1>1, <1>2, SumGrows
<1>. QED BY <1>1, <1>3, <1>4

\* A set of positions that is not empty has a last one.
LEMMA LastOf ==
    ASSUME NEW n \in Nat, NEW K \in SUBSET (1..n), K # {}
    PROVE  \E k \in K : \A l \in K : l <= k
<1>. DEFINE T == {n - k : k \in K}
<1>1. T \subseteq Nat /\ T # {}
    <2>1. \A k \in K : n - k \in Nat
        OBVIOUS
    <2>2. PICK k \in K : TRUE
        OBVIOUS
    <2>3. n - k \in T
        BY <2>2
    <2>. QED BY <2>1, <2>3
<1>2. PICK t \in T : \A u \in T : t <= u
    <2>. HIDE DEF T
    <2>. QED BY <1>1, LeastNat
<1>3. PICK k \in K : t = n - k
    BY <1>2
<1>4. ASSUME NEW l \in K PROVE l <= k
    <2>1. n - l \in T
        OBVIOUS
    <2>2. n - k <= n - l
        BY <1>2, <1>3, <2>1
    <2>. QED BY <2>2
<1>. QED BY <1>4

\* The claims taken before those of entry e.
Earlier(e) ==
    {f \in Claims(e) :
        \E g \in Claims(e) : g[1] = e[1] /\ (f[1] < g[1] \/ (f[1] = g[1] /\ f[2] < g[2]))}

\* The slots an item claims of a budget are below those of the items after it.
LEMMA ClaimsAhead ==
    ASSUME Parsed, NEW e \in Entries, NEW f \in Entries, e[1] < f[1], Res(e).name = Res(f).name,
           KindOf(Res(e)) = "Divisible", KindOf(Res(f)) = "Divisible"
    PROVE  /\ ClaimBase(e) \in Nat /\ ClaimBase(f) \in Nat
           /\ ClaimBase(e) + MemberCount(e[1]) <= ClaimBase(f)
<1>. DEFINE C == Claims(e)
            i == e[1]
            K == {k \in DOMAIN Listed(decl[i], "resources") : <<i, k>> \in C}
<1>1. Claims(f) = C /\ e \in C /\ f \in C /\ C \in SUBSET Entries
    BY DEF Claims
<1>2. /\ \A g \in C : g = <<g[1], g[2]>> /\ g[1] \in Nat /\ g[1] \in Owners
                      /\ g[2] \in DOMAIN Listed(decl[g[1]], "resources")
      /\ IsFiniteSet(C)
    <2>1. Owners \subseteq Nat
        BY CountsAre
    <2>2. \A g \in C : g = <<g[1], g[2]>> /\ g[1] \in Owners
                       /\ g[2] \in DOMAIN Listed(decl[g[1]], "resources")
        BY <1>1, EntriesAre
    <2>3. IsFiniteSet(C)
        BY <1>1, EntriesAre, FS_Subset
    <2>. HIDE DEF C
    <2>. QED BY <2>1, <2>2, <2>3
<1>3. PICK n \in Nat : DOMAIN Listed(decl[i], "resources") = 1..n
    BY <1>1, <1>2, EntriesAre
<1>. HIDE DEF C, i
<1>0. i = e[1]
    BY DEF i
<1>4. e[2] \in K /\ K \in SUBSET (1..n)
    BY <1>0, <1>1, <1>2, <1>3
<1>5. PICK k \in K : \A l \in K : l <= k
    <2>. HIDE DEF K
    <2>. QED BY <1>4, LastOf
<1>. DEFINE last == <<i, k>>
<1>6. last \in C /\ last[1] = i /\ last[2] = k /\ k \in Nat
    BY <1>4, <1>5
<1>7. \A g \in C : g[1] = i => g[2] \in K /\ g[2] <= k /\ g[2] \in Nat
    <2>. TAKE g \in C
    <2>1. g[1] = i => g[2] \in K
        BY <1>2
    <2>. HIDE DEF K
    <2>2. \A l \in K : l <= k /\ l \in Nat
        BY <1>4, <1>5
    <2>. QED BY <2>1, <2>2
<1>. HIDE DEF last, K
<1>8. last \notin Earlier(e)
    <2>1. ASSUME NEW g \in C, g[1] = e[1], last[1] < g[1] \/ (last[1] = g[1] /\ last[2] < g[2])
          PROVE  FALSE
        BY <1>0, <1>2, <1>6, <1>7, <2>1
    <2>. QED BY <2>1 DEF Earlier, C
<1>9. \A h \in C : h[1] < f[1] => h \in Earlier(f)
    BY <1>1 DEF Earlier
<1>10. ASSUME NEW h \in Earlier(e) PROVE h \in C /\ h[1] < f[1]
    <2>1. PICK g \in C : g[1] = e[1] /\ (h[1] < g[1] \/ (h[1] = g[1] /\ h[2] < g[2]))
        BY DEF Earlier, C
    <2>2. h \in C
        BY DEF Earlier, C
    <2>3. h[1] \in Nat /\ e[1] \in Nat /\ f[1] \in Nat /\ h[1] <= e[1]
        BY <1>1, <1>2, <2>1, <2>2
    <2>. QED BY <2>2, <2>3
<1>11. Earlier(e) \in SUBSET Earlier(f) /\ last \in Earlier(f)
    BY <1>0, <1>6, <1>9, <1>10
<1>12. Earlier(f) \in SUBSET C /\ IsFiniteSet(Earlier(f))
    <2>1. Earlier(f) \in SUBSET C
        BY <1>1 DEF Earlier
    <2>. QED BY <1>2, <2>1, FS_Subset
<1>13. \A x \in Earlier(f) : x[1] \in Owners
    BY <1>2, <1>12
<1>14. /\ Members(Earlier(e)) \in Nat /\ Members(Earlier(f)) \in Nat
       /\ Members(Earlier(e)) + MemberCount(last[1]) <= Members(Earlier(f))
    BY <1>8, <1>11, <1>12, <1>13, MembersGrow
<1>15. ClaimBase(e) = Members(Earlier(e)) /\ ClaimBase(f) = Members(Earlier(f))
    BY DEF ClaimBase, Earlier
<1>. QED BY <1>0, <1>6, <1>14, <1>15

\* The bits an item has in a veto gate are below those of the items after it.
LEMMA VetoesAhead ==
    ASSUME Parsed, NEW e \in Vetoes, NEW f \in Vetoes, e[1] < f[1],
           Display(Gate(e)) = Display(Gate(f))
    PROVE  /\ VetoBase(e) \in Nat /\ VetoBase(f) \in Nat
           /\ VetoBase(e) + MemberCount(e[1]) <= VetoBase(f)
<1>. DEFINE A == {g \in Vetoes : Display(Gate(g)) = Display(Gate(e)) /\ g[1] < e[1]}
            B == {g \in Vetoes : Display(Gate(g)) = Display(Gate(f)) /\ g[1] < f[1]}
<1>1. \A g \in Vetoes : g[1] \in Nat /\ g[1] \in Owners
    BY EntriesAre, CountsAre
<1>2. \A g \in Vetoes : (g[1] < e[1] => g[1] < f[1]) /\ ~(e[1] < e[1])
    BY <1>1
<1>3. A \in SUBSET B /\ e \in B /\ e \notin A /\ B \in SUBSET Vetoes
    BY <1>2, Zenon
<1>4. VetoBase(e) = Members(A) /\ VetoBase(f) = Members(B)
    BY DEF VetoBase
<1>. HIDE DEF A, B
<1>5. IsFiniteSet(B) /\ \A x \in B : x[1] \in Owners
    BY <1>1, <1>3, EntriesAre, FS_Subset
<1>. QED BY <1>3, <1>4, <1>5, MembersGrow

----------------------------------------------------------------------------
(* What is accepted.                                                       *)

\* No two members have a claimant slot or a veto bit in common.
Apart(a, m, b, n) == \A x \in 0..(m - 1), y \in 0..(n - 1) : a + x # b + y

\* Two ranges one of which is below the other have nothing in common.
LEMMA BelowIsApart ==
    ASSUME NEW a \in Nat, NEW m \in Nat, NEW b \in Nat, NEW n \in Nat,
           a + m <= b \/ b + n <= a
    PROVE  Apart(a, m, b, n)
BY DEF Apart

ClaimsApart ==
    \A e, f \in Entries :
        /\ e # f
        /\ KindOf(Res(e)) = "Divisible"
        /\ Res(e).name = Res(f).name
        /\ ~(e[1] = f[1] /\ decl[e[1]].kind = "pool")
        => Apart(ClaimBase(e), MemberCount(e[1]), ClaimBase(f), MemberCount(f[1]))

VetoesApart ==
    \A e, f \in Vetoes :
        e # f /\ Stem(Gate(e)) = Stem(Gate(f)) =>
            Apart(VetoBase(e), MemberCount(e[1]), VetoBase(f), MemberCount(f[1]))

\* The claims of a graph whose slot names are accepted.
LEMMA ClaimsAreApart ==
    ASSUME Parsed, SlotNamesOk
    PROVE  ClaimsApart
<1>. SUFFICES ASSUME NEW e \in Entries, NEW f \in Entries, e # f, KindOf(Res(e)) = "Divisible",
                     Res(e).name = Res(f).name, ~(e[1] = f[1] /\ decl[e[1]].kind = "pool")
              PROVE  Apart(ClaimBase(e), MemberCount(e[1]), ClaimBase(f), MemberCount(f[1]))
    BY DEF ClaimsApart
<1>1. KindOf(Res(f)) = "Divisible"
    BY DEF SlotNamesOk
<1>2. /\ e = <<e[1], e[2]>> /\ f = <<f[1], f[2]>>
      /\ e[1] \in Owners /\ f[1] \in Owners
      /\ e[2] \in DOMAIN Listed(decl[e[1]], "resources")
      /\ f[2] \in DOMAIN Listed(decl[f[1]], "resources")
    BY EntriesAre
<1>3. e[1] \in Nat /\ f[1] \in Nat /\ MemberCount(e[1]) \in Nat /\ MemberCount(f[1]) \in Nat
    BY <1>2, CountsAre
<1>4. e[1] # f[1]
    <2>. SUFFICES ASSUME e[1] = f[1] PROVE FALSE
        OBVIOUS
    <2>1. decl[e[1]].kind = "node" /\ GoodItem(decl[e[1]])
        BY <1>2, CountsAre
    <2>2. ToldApart(decl[e[1]])
        BY <2>1 DEF GoodItem
    <2>3. e[2] = f[2]
        BY <1>2, <2>1, <2>2 DEF ToldApart, Res
    <2>. QED BY <1>2, <2>3
<1>5. CASE e[1] < f[1]
    BY <1>1, <1>3, <1>5, ClaimsAhead, BelowIsApart
<1>6. CASE f[1] < e[1]
    BY <1>1, <1>3, <1>6, ClaimsAhead, BelowIsApart
<1>. QED BY <1>3, <1>4, <1>5, <1>6

\* The bits of a graph whose vetoes are accepted.
LEMMA VetoesAreApart ==
    ASSUME Parsed, VetoesOk
    PROVE  VetoesApart
<1>. SUFFICES ASSUME NEW e \in Vetoes, NEW f \in Vetoes, e # f, Stem(Gate(e)) = Stem(Gate(f))
              PROVE  Apart(VetoBase(e), MemberCount(e[1]), VetoBase(f), MemberCount(f[1]))
    BY DEF VetoesApart
<1>1. Display(Gate(e)) = Display(Gate(f))
    BY DEF VetoesOk
<1>2. /\ e = <<e[1], e[2]>> /\ f = <<f[1], f[2]>>
      /\ e[1] \in Owners /\ f[1] \in Owners
      /\ e[2] \in DOMAIN Listed(decl[e[1]], "writes")
      /\ f[2] \in DOMAIN Listed(decl[f[1]], "writes")
    BY EntriesAre
<1>3. e[1] \in Nat /\ f[1] \in Nat /\ MemberCount(e[1]) \in Nat /\ MemberCount(f[1]) \in Nat
    BY <1>2, CountsAre
<1>4. e[1] # f[1]
    <2>. SUFFICES ASSUME e[1] = f[1] PROVE FALSE
        OBVIOUS
    <2>1. ToldApart(decl[e[1]])
        BY <1>2, CountsAre DEF GoodItem
    <2>2. e[2] = f[2]
        BY <1>1, <1>2, <2>1 DEF ToldApart, Gate
    <2>. QED BY <1>2, <2>2
<1>5. CASE e[1] < f[1]
    BY <1>1, <1>3, <1>5, VetoesAhead, BelowIsApart
<1>6. CASE f[1] < e[1]
    BY <1>1, <1>3, <1>6, VetoesAhead, BelowIsApart
<1>. QED BY <1>3, <1>4, <1>5, <1>6

\* ReadyIsDrivenBelow, whatever the stage.
ReadyDriven ==
    \A i \in Owners :
        Has(decl[i], "ready_on_write") /\ Active(TheClause(decl[i], "ready_on_write").cfg) =>
            /\ Has(decl[i], "beat_timeout")
            /\ Active(TheClause(decl[i], "beat_timeout").cfg)
            /\ {"BEATS", "OBSERVED"} \subseteq Shape
            /\ \E k \in DOMAIN Listed(decl[i], "writes") :
                   {"observed", "beat"} \subseteq Listed(decl[i], "writes")[k].marks

\* It holds of every good item.
LEMMA ReadyIsDriven ==
    ASSUME Parsed
    PROVE  ReadyDriven
<1>. SUFFICES ASSUME NEW i \in Owners, Has(decl[i], "ready_on_write"),
                     Active(TheClause(decl[i], "ready_on_write").cfg)
              PROVE  /\ Has(decl[i], "beat_timeout")
                     /\ Active(TheClause(decl[i], "beat_timeout").cfg)
                     /\ {"BEATS", "OBSERVED"} \subseteq Shape
                     /\ \E k \in DOMAIN Listed(decl[i], "writes") :
                            {"observed", "beat"} \subseteq Listed(decl[i], "writes")[k].marks
    BY DEF ReadyDriven
<1>1. /\ decl[i].kind = "node" /\ Has(decl[i], "beat_timeout")
      /\ TheClause(decl[i], "beat_timeout").cfg # "" =>
             TheClause(decl[i], "ready_on_write").cfg = TheClause(decl[i], "beat_timeout").cfg
      /\ \E k \in DOMAIN Listed(decl[i], "writes") :
             {"observed", "beat"} \subseteq Listed(decl[i], "writes")[k].marks
    BY CountsAre DEF GoodItem, Driven
<1>2. Active(TheClause(decl[i], "beat_timeout").cfg)
    BY <1>1 DEF Active
<1>3. "BEATS" \in ShapeOf(decl[i]) /\ "OBSERVED" \in ShapeOf(decl[i])
    BY <1>1 DEF ShapeOf
<1>4. {"BEATS", "OBSERVED"} \subseteq Shape
    BY <1>3 DEF Shape
<1>. QED BY <1>1, <1>2, <1>4

----------------------------------------------------------------------------
(* The invariant.                                                          *)

\* What expand has made sure of, for the table T it emits.
Accepted(T) ==
    /\ ClaimsApart /\ VetoesApart
    /\ T \in [Slots -> Seq(Slots)] /\ (\A s \in Slots : Len(T[s]) < IdxMod)
    /\ RowsListed(T)

DeclInv ==
    /\ Parsed
    /\ stage \in {"seed", "sort", "built", "cycle"} => Accepted(deps)
    /\ stage \in {"parse", "expand", "seed"} => order = <<>>
    /\ stage = "sort" => SortAt(SlotCount, deps, indeg, queue, order)
    /\ stage \in {"built", "cycle"} => SortAt(SlotCount, deps, indeg, <<>>, order)
    /\ stage = "built" => Len(order) = SlotCount
    /\ stage = "cycle" => Len(order) # SlotCount

\* It depends on the declaration and the build only.
LEMMA AcceptedMoves ==
    ASSUME UNCHANGED <<decl, flags>>, NEW STATE T, T = deps'
    PROVE  /\ Accepted(T) => Accepted(deps)'
           /\ SlotCount' = SlotCount /\ Slots' = Slots /\ (Parsed => Parsed')
<1>1. Owners' = Owners
    BY DEF Owners
<1>2. \A i : MemberCount(i)' = MemberCount(i)
    BY DEF MemberCount
<1>3. MemberCounts' = MemberCounts
    BY <1>1, <1>2 DEF MemberCounts
<1>4. SlotCount' = SlotCount /\ Slots' = Slots /\ \A i : SlotOf(i)' = SlotOf(i)
    BY <1>1, <1>3 DEF SlotCount, Slots, SlotOf
<1>5. Parsed => Parsed'
    BY DEF Parsed
<1>6. Entries' = Entries /\ Vetoes' = Vetoes
    BY <1>1 DEF Entries, Vetoes
<1>7. \A e : Res(e)' = Res(e) /\ Gate(e)' = Gate(e)
    BY DEF Res, Gate
<1>8. \A S : Members(S)' = Members(S)
    BY <1>2 DEF Members
<1>9. \A e : Claims(e)' = Claims(e)
    BY <1>6, <1>7 DEF Claims
<1>10. \A e : ClaimBase(e)' = ClaimBase(e)
    BY <1>8, <1>9 DEF ClaimBase
<1>11. \A e : VetoBase(e)' = VetoBase(e)
    BY <1>6, <1>7, <1>8 DEF VetoBase
<1>12. ClaimsApart => ClaimsApart'
    BY <1>2, <1>6, <1>7, <1>10 DEF ClaimsApart
<1>13. VetoesApart => VetoesApart'
    BY <1>2, <1>6, <1>7, <1>11 DEF VetoesApart
<1>14. RowsListed(T) => RowsListed(deps)'
    <2>1. \A i : RangeOf(i)' = RangeOf(i)
        BY <1>2, <1>4 DEF RangeOf
    <2>2. ASSUME RowsListed(T), NEW i \in Owners', NEW k \in DOMAIN Listed(decl[i], "deps")',
                 Active(Listed(decl[i], "deps")[k].cfg)', NEW s \in RangeOf(i)',
                 NEW p \in Named(Listed(decl[i], "deps")[k].to)'
          PROVE  \E j \in 1..Len(deps[s])' : deps[s][j]' = SlotOf(p)'
        <3>1. i \in Owners /\ k \in DOMAIN Listed(decl[i], "deps") /\ s \in RangeOf(i)
            BY <1>1, <2>1
        <3>2. Active(Listed(decl[i], "deps")[k].cfg)
            BY <2>2 DEF Active
        <3>3. p \in Named(Listed(decl[i], "deps")[k].to)
            BY <1>1 DEF Named
        <3>4. PICK j \in 1..Len(T[s]) : T[s][j] = SlotOf(p)
            BY <2>2, <3>1, <3>2, <3>3 DEF RowsListed
        <3>. QED BY <1>4, <3>4
    <2>. QED BY <2>2 DEF RowsListed
<1>. QED BY <1>4, <1>5, <1>12, <1>13, <1>14 DEF Accepted

\* GraphSpec::parse keeps the invariant.
LEMMA ParseInv ==
    ASSUME MenuFits, DeclInv, ParseItem \/ EndParse
    PROVE  DeclInv'
<1>0. Parsed /\ stage = "parse" /\ order = <<>>
    BY DEF DeclInv, ParseItem, EndParse
<1>1. stage' \in {"parse", "expand", "rejected"} /\ order' = order
    BY <1>0 DEF ParseItem, EndParse, UnsortedVars
<1>2. Parsed'
    <2>0. IsTuple(decl) /\ (\A i \in DOMAIN decl : GoodItem(decl[i])) /\ Len(decl) \in Nat
          /\ DOMAIN decl = 1..Len(decl)
        BY <1>0, TupleFacts DEF Parsed
    <2>1. CASE ParseItem
        <3>1. PICK m \in DOMAIN DeclMenu : IF ItemOk(DeclMenu[m]) THEN decl' = Append(decl, DeclMenu[m])
                                                             ELSE UNCHANGED decl
            BY <2>1 DEF ParseItem
        <3>2. CASE ItemOk(DeclMenu[m])
            <4>1. GoodItem(DeclMenu[m]) /\ decl' = Append(decl, DeclMenu[m])
                BY <3>1, <3>2, ParsedIsGood
            <4>. DEFINE x == DeclMenu[m]
            <4>. HIDE DEF x
            <4>2. /\ IsTuple(Append(decl, x)) /\ DOMAIN Append(decl, x) = 1..(Len(decl) + 1)
                  /\ Append(decl, x)[Len(decl) + 1] = x
                  /\ \A k \in 1..Len(decl) : Append(decl, x)[k] = decl[k]
                BY <2>0, TupleFacts
            <4>3. decl' = Append(decl, x) /\ GoodItem(x)
                BY <4>1 DEF x
            <4>4. \A k \in 1..(Len(decl) + 1) : k \in 1..Len(decl) \/ k = Len(decl) + 1
                BY <2>0
            <4>5. \A k \in DOMAIN decl' : GoodItem(decl'[k])
                BY <2>0, <4>2, <4>3, <4>4
            <4>. QED BY <4>2, <4>3, <4>5 DEF Parsed
        <3>3. CASE ~ItemOk(DeclMenu[m])
            <4>1. decl' = decl
                BY <3>1, <3>3
            <4>. QED BY <1>0, <4>1 DEF Parsed
        <3>. QED BY <3>2, <3>3
    <2>2. CASE EndParse
        <3>. DEFINE d == ApplyDefaultExecutor(decl)
        <3>1. decl' = d
            BY <2>2 DEF EndParse
        <3>. DEFINE e == decl[CHOOSE j \in Defaults(decl) : TRUE].name
        <3>2. /\ DOMAIN d = DOMAIN decl /\ d = [k \in DOMAIN decl |-> d[k]]
              /\ \A k \in DOMAIN decl : d[k] = decl[k] \/ d[k] = OnExecutor(decl[k], e)
            <4>. HIDE DEF e
            <4>1. d = [k \in DOMAIN decl |->
                          IF /\ Defaults(decl) # {}
                             /\ decl[k].kind \in {"node", "pool"}
                             /\ ~Has(decl[k], "executor")
                             /\ Eligible(decl[k])
                          THEN OnExecutor(decl[k], e) ELSE decl[k]]
                BY DEF ApplyDefaultExecutor, e
            <4>. HIDE DEF d
            <4>. QED BY <4>1
        <3>. HIDE DEF e
        <3>. HIDE DEF d
        <3>3. IsTuple(d)
            BY <2>0, <3>2, MadeTuple
        <3>4. \A k \in DOMAIN d : GoodItem(d[k])
            BY <2>0, <3>2, ExecutorIsGood
        <3>. QED BY <3>1, <3>3, <3>4 DEF Parsed
    <2>. QED BY <2>1, <2>2
<1>. QED BY <1>0, <1>1, <1>2 DEF DeclInv

\* So does expand.
LEMMA ExpandInv ==
    ASSUME DeclInv, Expand
    PROVE  DeclInv'
<1>0. Parsed /\ stage = "expand" /\ order = <<>> /\ order' = order /\ UNCHANGED <<flags, decl>>
    BY DEF DeclInv, Expand
<1>1. Parsed'
    BY <1>0 DEF Parsed
<1>2. CASE stage' = "seed"
    <2>1. SlotNamesOk /\ VetoesOk /\ EmitOk /\ TablesOk /\ deps' = DepTable
        BY <1>2 DEF Expand
    <2>2. NamesOnce
        BY <2>1, Zenon DEF EmitOk, NamesOnce
    <2>3. Accepted(DepTable)
        BY <1>0, <2>1, <2>2, TableIs, ClaimsAreApart, VetoesAreApart DEF Accepted
    <2>4. Accepted(deps)'
        BY <1>0, <2>1, <2>3, AcceptedMoves
    <2>. QED BY <1>0, <1>1, <1>2, <2>4 DEF DeclInv
<1>3. CASE stage' = "rejected"
    BY <1>1, <1>3 DEF DeclInv
<1>. QED BY <1>2, <1>3 DEF Expand

\* So does the sort.
LEMMA SortInv ==
    ASSUME DeclInv, SortSeed \/ SortVisit \/ SortEnd
    PROVE  DeclInv'
<1>0. /\ UNCHANGED <<decl, flags, deps>> /\ Parsed /\ Accepted(deps)
    BY DEF DeclInv, SortSeed, SortVisit, SortEnd, UnsortedVars
<1>1. Parsed' /\ Accepted(deps)' /\ SlotCount' = SlotCount /\ deps' = deps
    BY <1>0, AcceptedMoves
<1>2. /\ SlotCount \in Nat /\ Slots = 1..SlotCount
      /\ deps \in [Slots -> Seq(Slots)] /\ \A s \in Slots : Len(deps[s]) < IdxMod
    BY <1>0, UptoEnds DEF Slots, Accepted
<1>3. CASE SortSeed
    <2>1. order' = <<>> /\ stage' = "sort"
        BY <1>3 DEF DeclInv, SortSeed
    <2>2. /\ indeg' = [s \in 1..SlotCount |-> Len(deps[s]) % IdxMod]
          /\ queue' = Kept([s \in 1..SlotCount |-> s], {s \in 1..SlotCount : Len(deps[s]) % IdxMod = 0})
        BY <1>2, <1>3 DEF SortSeed, Ascending
    <2>3. SortAt(SlotCount, deps, indeg', queue', order')
        BY <1>2, <2>1, <2>2, SeedStarts, DeclAssumption
    <2>. QED BY <1>1, <2>1, <2>3 DEF DeclInv
<1>4. CASE SortVisit
    <2>. DEFINE W == Waiting(SlotCount, deps, indeg, Head(queue))
    <2>1. stage = "sort" /\ stage' = "sort" /\ queue # <<>> /\ SortAt(SlotCount, deps, indeg, queue, order)
        BY <1>4 DEF DeclInv, SortVisit
    <2>2. /\ order' = Append(order, Head(queue))
          /\ indeg' = Lowered(SlotCount, indeg, W)
          /\ queue' = Tail(queue) \o Kept([s \in 1..SlotCount |-> s], Freed(indeg, W))
        BY <1>2, <1>4, Zenon DEF SortVisit, Waiting, Lowered, Freed, Ascending
    <2>3. SortAt(SlotCount, deps, indeg', queue', order')
        BY <1>2, <2>1, <2>2, VisitKeeps
    <2>. QED BY <1>1, <2>1, <2>3 DEF DeclInv
<1>5. CASE SortEnd
    <2>1. /\ SortAt(SlotCount, deps, indeg, <<>>, order)
          /\ order' = order /\ indeg' = indeg
          /\ stage' = IF Len(order) = SlotCount THEN "built" ELSE "cycle"
        BY <1>5 DEF DeclInv, SortEnd, UnsortedVars
    <2>. QED BY <1>1, <2>1 DEF DeclInv
<1>. QED BY <1>3, <1>4, <1>5

\* It always holds.
LEMMA DeclHolds == MenuFits /\ DeclSpec => []DeclInv
<1>. SUFFICES ASSUME MenuFits PROVE DeclSpec => []DeclInv
    OBVIOUS
<1>1. DeclInit => DeclInv
    BY EmptyTuple DEF DeclInit, DeclInv, Parsed
<1>2. DeclInv /\ [DeclNext]_declVars => DeclInv'
    <2>. SUFFICES ASSUME DeclInv, [DeclNext]_declVars PROVE DeclInv'
        OBVIOUS
    <2>1. CASE UNCHANGED declVars
        <3>1. UNCHANGED <<flags, decl, stage, deps, indeg, queue, order>>
            BY <2>1 DEF declVars
        <3>2. Parsed' /\ SlotCount' = SlotCount /\ (Accepted(deps) => Accepted(deps)')
            BY <3>1, AcceptedMoves DEF DeclInv
        <3>. QED BY <3>1, <3>2 DEF DeclInv
    <2>. QED BY <2>1, ParseInv, ExpandInv, SortInv DEF DeclNext
<1>. QED BY <1>1, <1>2, PTL DEF DeclSpec

\* For every menu that fits, every declaration of any length and every build: a
\* graph that builds has its slots in an order that respects every declared
\* dependency, and a build refused for a cycle has one, or a doubled entry.
THEOREM SortIsRightHolds == MenuFits /\ DeclSpec => []SortIsRight
<1>1. DeclInv => SortIsRight
    <2>. SUFFICES ASSUME DeclInv PROVE SortIsRight
        OBVIOUS
    <2>0. Parsed /\ SlotCount \in Nat /\ Slots = 1..SlotCount
        BY UptoEnds DEF DeclInv, Slots
    <2>1. ASSUME stage = "built"
          PROVE  /\ \A s \in Slots : Cardinality({k \in DOMAIN order : order[k] = s}) = 1
                 /\ \A i \in Owners : \A k \in DOMAIN Listed(decl[i], "deps") :
                        LET d == Listed(decl[i], "deps")[k] IN
                        Active(d.cfg) =>
                            \A m \in 0..(MemberCount(i) - 1) : \A p \in Named(d.to) :
                                Position(SlotOf(p)) < Position(SlotOf(i) + m)
        <3>1. /\ SortAt(SlotCount, deps, indeg, <<>>, order) /\ Len(order) = SlotCount
              /\ deps \in [1..SlotCount -> Seq(1..SlotCount)] /\ RowsListed(deps)
            BY <2>0, <2>1 DEF DeclInv, Accepted
        <3>2. /\ IsInjective(order)
              /\ \A s \in 1..SlotCount : \E k \in 1..Len(order) : order[k] = s
              /\ \A s \in 1..SlotCount : \A i \in 1..Len(deps[s]) : Ahead(order, deps[s][i], s)
            <4>1. Sorted(SlotCount, deps, order)
                BY <2>0, <3>1, SortedIsRight
            <4>. QED BY <4>1 DEF Sorted
        <3>3. DOMAIN order = 1..Len(order) /\ Len(order) \in Nat
            BY <3>1 DEF SortAt
        <3>4. ASSUME NEW k \in 1..Len(order) PROVE Position(order[k]) = k
            <4>1. \A j \in DOMAIN order : order[j] = order[k] => j = k
                BY <3>2, <3>3 DEF IsInjective
            <4>2. k \in DOMAIN order
                BY <3>3
            <4>. QED BY <4>1, <4>2, Zenon DEF Position
        <3>5. ASSUME NEW s \in Slots PROVE Cardinality({k \in DOMAIN order : order[k] = s}) = 1
            <4>1. PICK k \in 1..Len(order) : order[k] = s
                BY <2>0, <3>2
            <4>2. {j \in DOMAIN order : order[j] = s} = {k}
                BY <3>2, <3>3, <4>1 DEF IsInjective
            <4>. QED BY <4>2, FS_Singleton
        <3>6. ASSUME NEW i \in Owners, NEW k \in DOMAIN Listed(decl[i], "deps"),
                     Active(Listed(decl[i], "deps")[k].cfg), NEW m \in 0..(MemberCount(i) - 1),
                     NEW p \in Named(Listed(decl[i], "deps")[k].to)
              PROVE  Position(SlotOf(p)) < Position(SlotOf(i) + m)
            <4>. DEFINE s == SlotOf(i) + m
            <4>1. s \in RangeOf(i) /\ s \in Slots
                <5>1. SlotOf(i) \in Nat /\ RangeOf(i) \subseteq Slots /\ MemberCount(i) \in Nat
                    BY <2>0, SlotsAreShared, CountsAre
                <5>2. s \in RangeOf(i)
                    BY <5>1 DEF RangeOf
                <5>. QED BY <5>1, <5>2
            <4>. HIDE DEF s
            <4>2. PICK j \in 1..Len(deps[s]) : deps[s][j] = SlotOf(p)
                BY <3>1, <3>6, <4>1 DEF RowsListed
            <4>3. Ahead(order, SlotOf(p), s)
                BY <2>0, <3>2, <4>1, <4>2
            <4>4. PICK a \in 1..Len(order), b \in 1..Len(order) :
                      a < b /\ order[a] = SlotOf(p) /\ order[b] = s
                BY <4>3 DEF Ahead
            <4>5. Position(SlotOf(p)) = a /\ Position(s) = b
                BY <3>4, <4>4
            <4>. QED BY <4>4, <4>5 DEF s
        <3>. QED BY <3>5, <3>6
    <2>2. ASSUME stage = "cycle"
          PROVE  \/ \E S \in SUBSET Slots \ {{}} :
                        \A s \in S : \E k \in DOMAIN deps[s] : deps[s][k] \in S
                 \/ \E s \in Slots : \E k, l \in DOMAIN deps[s] : k # l /\ deps[s][k] = deps[s][l]
        <3>1. /\ SortAt(SlotCount, deps, indeg, <<>>, order) /\ Len(order) # SlotCount
              /\ deps \in [1..SlotCount -> Seq(1..SlotCount)]
            BY <2>0, <2>2 DEF DeclInv, Accepted
        <3>2. \/ \E S \in SUBSET (1..SlotCount) \ {{}} :
                     \A s \in S : \E k \in DOMAIN deps[s] : deps[s][k] \in S
              \/ \E s \in 1..SlotCount : ~IsInjective(deps[s])
            BY <2>0, <3>1, UnsortedIsCycle
        <3>. QED BY <2>0, <3>2 DEF IsInjective
    <2>. QED BY <2>1, <2>2 DEF SortIsRight
<1>. QED BY <1>1, DeclHolds, PTL

\* For the same menus, declarations and builds: what the macro accepts, it has
\* wired up, with claimant slots and veto bits nobody shares and a monitor for
\* every node that is made ready by its writes.
THEOREM AcceptedIsSoundHolds == MenuFits /\ DeclSpec => []AcceptedIsSound
<1>1. DeclInv => BitsAreDisjoint
    BY DEF DeclInv, Accepted, BitsAreDisjoint, ClaimsApart, VetoesApart, Apart
<1>2. DeclInv => ReadyIsDrivenBelow
    BY ReadyIsDriven DEF DeclInv, ReadyDriven, ReadyIsDrivenBelow
<1>. QED BY <1>1, <1>2, DeclHolds, PTL DEF AcceptedIsSound

============================================================================
