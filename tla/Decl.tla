------------------------------- MODULE Decl -------------------------------
(***************************************************************************)
(* How supervisor_graph! turns a declaration into the tables the           *)
(* supervisor runs on: GraphSpec::parse and the clause rules of            *)
(* supervisor-syntax, the feature gate, the graph-wide slot plans, the     *)
(* dependency tables, and the topological sort the compiler evaluates.     *)
(*                                                                         *)
(* An item is [kind, name, cfg, modes, clauses]; a clause is [kw, cfg,     *)
(* arg].  A #[cfg] is the name of one flag, "" for none; `flags' is the    *)
(* set of flags of this build.  Wording and spans of the errors, and the   *)
(* tokens emitted for a node that is accepted, are left out: what the      *)
(* emitted shell and glue do is in Slots.tla and Handshake.tla.            *)
(***************************************************************************)
EXTENDS Integers, Sequences, FiniteSets, Functions, Tables

CONSTANTS DeclMenu,      \* the items a declaration is written from, a tuple
          MaxItems,      \* bound: items of one declaration
          DeclFlags,     \* the flags the items' cfgs name
          Features,      \* the crate features this build enables
          MaxClaims,     \* claimant slots of a budget (256 in the code)
          MaxVeto,       \* contributors of a veto gate (32 in the code)
          IdxMod         \* width of an index of the graph (256 in the code)

IsTuple(s) == s \in Seq(Range(s))

\* The menu is syntax: lists are lists, and an item has the parts of its kind.
ASSUME DeclAssumption ==
    /\ IsTuple(DeclMenu) /\ MaxItems \in Nat /\ IdxMod \in Nat \ {0}
    /\ \A m \in DOMAIN DeclMenu :
           LET it == DeclMenu[m] IN
           it.kind \in {"node", "pool"} =>
               /\ IsTuple(it.modes) /\ IsTuple(it.clauses)
               /\ \A i \in DOMAIN it.clauses :
                      it.clauses[i].kw \in {"deps", "resources", "writes"} =>
                          IsTuple(it.clauses[i].arg)

VARIABLES flags,         \* the flags of this build
          decl,          \* the items parsed so far
          stage,         \* what the macro does next, or how it ended
          deps,          \* slot |-> the slots it depends on (DEPS)
          indeg,         \* in_degree of topo_sort_const
          queue,         \* its queue
          order          \* the order produced so far

declVars == <<flags, decl, stage, deps, indeg, queue, order>>

Active(cfg) == cfg = "" \/ cfg \in flags

---------------------------------------------------------------------------
\* Clauses

Has(it, kw) == \E i \in DOMAIN it.clauses : it.clauses[i].kw = kw

TheClause(it, kw) ==
    it.clauses[CHOOSE i \in DOMAIN it.clauses : it.clauses[i].kw = kw]

\* What clause `kw' lists, the empty list when it is absent.
Listed(it, kw) == IF Has(it, kw) THEN TheClause(it, kw).arg ELSE <<>>

CommonClauses == {"spawn", "task", "executor", "resources", "reads", "writes", "state",
                  "slot_timeout", "ack_timeout", "discover", "dataflow", "cancel"}
NodeClauses == {"deps", "disabled", "ready_on_write", "beat_timeout", "beat_window",
                "enabled_if", "restart_budget", "exit", "provides"}
PoolClauses == {"deps", "policy", "min", "max"}

ClauseNames(it) ==
    CommonClauses \cup (IF it.kind = "pool" THEN PoolClauses ELSE NodeClauses)

Gateable(it) ==
    {"slot_timeout", "ack_timeout", "discover"} \cup
    (IF it.kind = "pool" THEN {}
     ELSE {"beat_timeout", "beat_window", "enabled_if", "restart_budget",
           "ready_on_write", "disabled"})

\* Every clause is known and written once (exit: and provides: may repeat:
\* the last exit: stands and the provides: lists add up, and no item of the
\* menu writes either twice),
\* and only a clause that shapes no table carries a #[cfg].
ClausesOk(it) ==
    \A i \in DOMAIN it.clauses :
        LET c == it.clauses[i] IN
        /\ c.kw \in ClauseNames(it)
        /\ c.cfg # "" => c.kw \in Gateable(it)
        /\ c.kw \notin {"exit", "provides"} =>
               \A k \in DOMAIN it.clauses : it.clauses[k].kw = c.kw => k = i

\* A dependency is [to, cfg, marks].
DepListOk(ds) == \A i \in DOMAIN ds : "bound" \in ds[i].marks => "ready" \in ds[i].marks

\* A signal is [path, element, cfg, marks]; its path is the tuple of its
\* segments, its element "" when it names no element of an array.
Display(s) == <<s.path, s.element>>

SignalListOk(ss) ==
    /\ ss # <<>>
    /\ \A i \in DOMAIN ss : ss[i].marks \cap {"via", "beat"} # {} => "observed" \in ss[i].marks
    /\ \A i, k \in DOMAIN ss : i # k =>
           /\ Display(ss[i]) # Display(ss[k])
           /\ ss[i].path = ss[k].path => (ss[i].element = "") = (ss[k].element = "")

\* A resource is [name, cfg, marks, ty].
ResourceOk(r) ==
    /\ ~({"consume", "shared"} \subseteq r.marks)
    /\ "divisible" \in r.marks => r.marks \cap {"local", "consume", "shared"} = {}
    /\ "serialized" \in r.marks => "shared" \in r.marks

KindOf(r) ==
    CASE "divisible" \in r.marks -> "Divisible"
      [] "shared"    \in r.marks -> "Shared"
      [] "consume"   \in r.marks -> "Consume"
      [] OTHER                   -> "Lend"

TakeKind(r) == KindOf(r) \in {"Lend", "Consume"}

ListsOk(it) ==
    /\ DepListOk(Listed(it, "deps"))
    /\ \A kw \in {"reads", "writes"} : Has(it, kw) => SignalListOk(Listed(it, kw))
    /\ \A i \in DOMAIN Listed(it, "resources") : ResourceOk(Listed(it, "resources")[i])
    /\ \A kw \in {"slot_timeout", "ack_timeout"} :
           Has(it, kw) => TheClause(it, kw).arg >= 1
    /\ ~(Has(it, "task") /\ Has(it, "spawn"))

---------------------------------------------------------------------------
\* Items

\* Faulty variant: the #[cfg]s of the three clauses are not compared.
BeatClausesUngated(it) ==
    /\ Has(it, "beat_window") => Has(it, "beat_timeout")
    /\ Has(it, "ready_on_write") => Has(it, "beat_timeout")

\* beat_window:, ready_on_write and beat_timeout: are compiled together.
BeatClausesOk(it) ==
    /\ Has(it, "beat_timeout") => TheClause(it, "beat_timeout").arg >= 1
    /\ Has(it, "beat_window") =>
           /\ Has(it, "beat_timeout")
           /\ TheClause(it, "beat_window").arg \in 1..255
    /\ Has(it, "beat_timeout") =>
           LET gate == TheClause(it, "beat_timeout").cfg
           IN  gate # "" => \A kw \in {"beat_window", "ready_on_write"} :
                                Has(it, kw) => TheClause(it, kw).cfg = gate
    /\ Has(it, "ready_on_write") =>
           /\ Has(it, "beat_timeout")
           /\ \E i \in DOMAIN Listed(it, "writes") :
                  {"observed", "beat"} \subseteq Listed(it, "writes")[i].marks

\* Beside `discover' an entry only adds markers, and there is a fn to scan.
DiscoverOk(it) ==
    Has(it, "discover") =>
        /\ Has(it, "task") \/ Has(it, "spawn")
        /\ \A kw \in {"reads", "writes"} : \A i \in DOMAIN Listed(it, kw) :
               Listed(it, kw)[i].marks \cap {"observed", "beat", "veto"} # {}

\* A node names each of its resources once.
ResourceListOk(rs) ==
    rs # <<>> /\ \A i, k \in DOMAIN rs : rs[i].name = rs[k].name => i = k

\* A provider names each slot once.
ProvidesListOk(ps) ==
    ps # <<>> /\ \A i, k \in DOMAIN ps : ps[i] = ps[k] => i = k

\* A restart budget is a u16 of restarts, and a window that is not empty.
RestartBudgetOk(rb) == rb[1] \in 1..65535 /\ rb[2] >= 1

NodeOk(it) ==
    /\ BeatClausesOk(it)
    /\ DiscoverOk(it)
    /\ \A i \in DOMAIN Listed(it, "reads") :
           Listed(it, "reads")[i].marks \cap {"beat", "veto"} = {}
    /\ \A kw \in {"resources", "state", "exit", "cancel"} : Has(it, kw) => Has(it, "task")
    /\ Has(it, "resources") => ResourceListOk(Listed(it, "resources"))
    /\ Has(it, "cancel") => it.modes[1] # "Pause"
    /\ Has(it, "restart_budget") => RestartBudgetOk(TheClause(it, "restart_budget").arg)
    /\ Has(it, "provides") => ProvidesListOk(Listed(it, "provides"))

PoolOk(it) ==
    /\ \A i \in DOMAIN Listed(it, "resources") :
           LET r == Listed(it, "resources")[i]
           IN  "local" \in r.marks => "shared" \in r.marks
    /\ Has(it, "task") \/ Has(it, "spawn")
    /\ \A kw \in {"policy", "min", "max"} : Has(it, kw)
    /\ Has(it, "cancel") =>
           Has(it, "task") /\ \A i \in DOMAIN it.modes : it.modes[i] # "Pause"

Defaults(items) == {i \in DOMAIN items : items[i].kind = "default"}

\* A default executor is declared once, ungated, at the compose site.
ExecutorOk(it) ==
    it.kind = "default" => it.cfg = "" /\ ~it.fragment /\ Defaults(decl) = {}

ItemOk(it) ==
    IF it.kind \in {"executor", "default"} THEN ExecutorOk(it)
    ELSE /\ ClausesOk(it)
         /\ ListsOk(it)
         /\ IF it.kind = "pool" THEN PoolOk(it) ELSE NodeOk(it)

\* What the spawn glue can be built from: the argument of task: and spawn: is
\* "path", "call" or "closure".
Eligible(it) ==
    \/ Has(it, "task")
    \/ Has(it, "spawn") /\ TheClause(it, "spawn").arg \in {"path", "call"}

\* Item `it' with the clause executor: e.
OnExecutor(it, e) ==
    [kind |-> it.kind, name |-> it.name, cfg |-> it.cfg, modes |-> it.modes,
     clauses |-> Append(it.clauses, [kw |-> "executor", cfg |-> "", arg |-> e])]

\* apply_default_executor, which completes the parse.
ApplyDefaultExecutor(items) ==
    [i \in DOMAIN items |->
        IF /\ Defaults(items) # {}
           /\ items[i].kind \in {"node", "pool"}
           /\ ~Has(items[i], "executor")
           /\ Eligible(items[i])
        THEN OnExecutor(items[i], items[CHOOSE d \in Defaults(items) : TRUE].name)
        ELSE items[i]]

---------------------------------------------------------------------------
\* The feature gate

ClauseFeatures(c) ==
    CASE c.kw = "deps" ->
            UNION {IF "bound" \in c.arg[i].marks THEN {"readiness", "bound-deps"}
                   ELSE IF "ready" \in c.arg[i].marks THEN {"readiness"} ELSE {}
                   : i \in DOMAIN c.arg}
      [] c.kw \in {"reads", "writes"} ->
            {"coupling"} \cup
            UNION {(IF "observed" \in c.arg[i].marks THEN {"coupling-observe"} ELSE {}) \cup
                   (IF "veto" \in c.arg[i].marks THEN {"veto"} ELSE {}) : i \in DOMAIN c.arg}
      [] c.kw = "resources" ->
            UNION {(IF "local" \in c.arg[i].marks THEN {"local-resources"} ELSE {}) \cup
                   (IF "divisible" \in c.arg[i].marks THEN {"budget"} ELSE {})
                   : i \in DOMAIN c.arg}
      [] c.kw \in {"beat_timeout", "beat_window"} -> {"liveness-monitor"}
      [] c.kw = "ready_on_write" -> {"coupling-observe", "readiness"}
      [] c.kw = "enabled_if" -> {"enabled-if"}
      [] c.kw = "restart_budget" -> {"restart-intensity"}
      [] c.kw \in {"discover", "dataflow"} -> {"dataflow"}
      [] c.kw = "state" -> {"heap-state"}
      [] OTHER -> {}

\* A clause behind a #[cfg] fails only where it is compiled.
GateOk(it) ==
    \/ it.kind \in {"executor", "default"}
    \/ /\ it.kind = "pool" => "pool" \in Features
       /\ \A i \in DOMAIN it.clauses :
              LET c == it.clauses[i] IN
              \/ ClauseFeatures(c) \subseteq Features
              \/ c.cfg # "" /\ ~(Active(c.cfg) /\ Active(it.cfg))

---------------------------------------------------------------------------
\* Graph-wide plans

ExecutorNames == {decl[i].name : i \in {k \in DOMAIN decl : decl[k].kind \in {"executor", "default"}}}
Owners == {i \in DOMAIN decl : decl[i].kind \in {"node", "pool"}}

\* The executor item `i' runs on, "" for the supervisor's own.
RunsOn(i) == IF Has(decl[i], "executor") THEN TheClause(decl[i], "executor").arg ELSE ""

MemberCount(i) == IF decl[i].kind = "pool" THEN Len(decl[i].modes) ELSE 1

\* Every resources: entry of the graph, and every veto entry of a writes:.
Entries == UNION {{i} \X DOMAIN Listed(decl[i], "resources") : i \in Owners}
Res(e) == Listed(decl[e[1]], "resources")[e[2]]
Vetoes == UNION {{i} \X {k \in DOMAIN Listed(decl[i], "writes") :
                             "veto" \in Listed(decl[i], "writes")[k].marks} : i \in Owners}
Gate(e) == Listed(decl[e[1]], "writes")[e[2]]
Stem(s) == <<s.path[Len(s.path)], s.element>>

Members(entries) == SumFunctionOnSet([e \in entries |-> MemberCount(e[1])], entries)

\* The claims on the budget that entry `e' names.
Claims(e) ==
    {f \in Entries : Res(f).name = Res(e).name /\ KindOf(Res(f)) = "Divisible"}

\* claim_bases: the first claimant slot of entry `e', after those taken before
\* the last entry of its owner for the same budget (a pool may repeat one, and
\* the map keeps what was put last).
ClaimBase(e) ==
    Members({f \in Claims(e) :
        \E g \in Claims(e) : g[1] = e[1] /\ (f[1] < g[1] \/ (f[1] = g[1] /\ f[2] < g[2]))})

\* veto_bases: the same for a gate, by the text that names it.
VetoBase(e) ==
    Members({f \in Vetoes : Display(Gate(f)) = Display(Gate(e)) /\ f[1] < e[1]})

\* Take-kind slots have one declaration; shared and divisible slots repeat
\* with one shape, a serialized one on one executor.
SlotNamesOk ==
    \A e \in Entries :
        /\ Res(e).name \notin ExecutorNames
        /\ \A f \in Entries : Res(f).name = Res(e).name /\ f # e =>
               /\ ~TakeKind(Res(e)) /\ ~TakeKind(Res(f))
               /\ KindOf(Res(e)) = KindOf(Res(f))
               /\ KindOf(Res(e)) = "Shared" =>
                      Res(e).marks = Res(f).marks /\ Res(e).ty = Res(f).ty
               /\ "serialized" \in Res(e).marks => RunsOn(e[1]) = RunsOn(f[1])

\* Every declaration and every provider of a `local' slot runs on one executor.
LocalOk ==
    \A e \in Entries : "local" \in Res(e).marks =>
        \A i \in Owners :
            \/ \E k \in DOMAIN Listed(decl[i], "resources") :
                   Listed(decl[i], "resources")[k].name = Res(e).name
            \/ \E k \in DOMAIN Listed(decl[i], "provides") :
                   Listed(decl[i], "provides")[k] = Res(e).name
            => RunsOn(i) = RunsOn(e[1])

BudgetsOk ==
    \A e \in Entries : KindOf(Res(e)) = "Divisible" =>
        ClaimBase(e) + MemberCount(e[1]) <= MaxClaims

\* Faulty variant: gates are told apart by their text alone.
VetoesBySpelling == \A e \in Vetoes : VetoBase(e) + MemberCount(e[1]) <= MaxVeto

\* One spelling per veto gate, and no more writers than bits.
VetoesOk ==
    \A e \in Vetoes :
        /\ VetoBase(e) + MemberCount(e[1]) <= MaxVeto
        /\ \A f \in Vetoes : Stem(Gate(f)) = Stem(Gate(e)) => Display(Gate(f)) = Display(Gate(e))

---------------------------------------------------------------------------
\* Emission

\* provides: names a slot of the graph that is not a pool's array.
ProvidesOk(i) ==
    \A k \in DOMAIN Listed(decl[i], "provides") :
        LET named == {e \in Entries : Res(e).name = Listed(decl[i], "provides")[k]} IN
        /\ named # {}
        /\ LET first == CHOOSE e \in named : \A f \in named : e[1] <= f[1]
           IN  ~(decl[first[1]].kind = "pool" /\ TakeKind(Res(first)))

\* The spawn glue: an executor needs a spawn the macro builds.
SpawnGlueOk(i) ==
    LET it == decl[i] IN
    /\ RunsOn(i) # "" => RunsOn(i) \in ExecutorNames /\ Eligible(it)
    /\ Has(it, "task") => TheClause(it, "task").arg \in {"path", "call"}
    /\ Has(it, "discover") => Eligible(it)

\* The literal bounds of a pool, and what needs its shell.
BoundsOk(i) ==
    decl[i].kind = "pool" =>
        /\ TheClause(decl[i], "min").arg <= TheClause(decl[i], "max").arg
        /\ TheClause(decl[i], "max").arg <= MemberCount(i)
        /\ Listed(decl[i], "resources") # <<>> \/ Has(decl[i], "state") => Has(decl[i], "task")

MemberCounts == [i \in Owners |-> MemberCount(i)]

\* The slot of the first member of item `i': the floor of a pool.
SlotOf(i) == 1 + SumFunctionOnSet(MemberCounts, {k \in Owners : k < i})
SlotCount == SumFunctionOnSet(MemberCounts, Owners)
Slots == 1..SlotCount

EmitOk ==
    /\ \A i \in Owners : SpawnGlueOk(i) /\ ProvidesOk(i) /\ BoundsOk(i)
    /\ \A i, k \in Owners : decl[i].name = decl[k].name => i = k
    /\ SlotCount <= IdxMod

ItemOf(s) == CHOOSE i \in Owners : s \in SlotOf(i)..(SlotOf(i) + MemberCount(i) - 1)
Named(name) == {i \in Owners : decl[i].name = name}

\* slot_tables: a dependency is declared, and once for each #[cfg].
TablesOk ==
    \A i \in Owners :
        LET ds == Listed(decl[i], "deps") IN
        \A k \in DOMAIN ds :
            /\ Named(ds[k].to) # {}
            /\ \A l \in DOMAIN ds : ds[l].to = ds[k].to /\ ds[l].cfg = ds[k].cfg => l = k

\* The dependencies compiled into the table of slot `s', in order.
Compiled(s) ==
    LET ds == Listed(decl[ItemOf(s)], "deps")
    IN  Kept(ds, {k \in DOMAIN ds : Active(ds[k].cfg)})
DepTable ==
    [s \in Slots |->
        [k \in DOMAIN Compiled(s) |-> SlotOf(CHOOSE i \in Named(Compiled(s)[k].to) : TRUE)]]

\* shape_bits: the parts of the supervisor this graph compiles in.  #[cfg]s
\* are not looked at, so a bit may only be one too many.
ShapeOf(it) ==
    LET bit(name, set)    == IF set THEN {name} ELSE {}
        marked(kws, mark) == \E kw \in kws : \E k \in DOMAIN Listed(it, kw) :
                                 mark \in Listed(it, kw)[k].marks
        mode(name)        == \E k \in DOMAIN it.modes : it.modes[k] = name
    IN  UNION {bit("READY_DEPS", marked({"deps"}, "ready") \/ marked({"deps"}, "bound")),
               bit("BOUND_DEPS", marked({"deps"}, "bound")),
               bit("EXEC_SLOTS", Has(it, "executor")),
               bit("RESOURCES", Listed(it, "resources") # <<>>),
               bit("CLAIMS", marked({"resources"}, "divisible")),
               bit("PAUSE", mode("Pause")),
               bit("ON_DEMAND", mode("OnDemand")),
               bit("BEATS", it.kind = "node" /\ Has(it, "beat_timeout")),
               bit("OBSERVED", \/ marked({"reads", "writes"}, "observed")
                               \/ it.kind = "node" /\ Has(it, "ready_on_write")),
               bit("POOLS", it.kind = "pool")}
Shape == UNION {ShapeOf(decl[i]) : i \in Owners}

---------------------------------------------------------------------------
DeclInit ==
    /\ flags \in SUBSET DeclFlags
    /\ decl = <<>>
    /\ stage = "parse"
    /\ deps = <<>> /\ indeg = <<>> /\ queue = <<>> /\ order = <<>>

UnsortedVars == <<deps, indeg, queue, order>>

\* GraphSpec::parse reads one more item.
ParseItem ==
    /\ stage = "parse"
    /\ Len(decl) < MaxItems
    /\ \E m \in DOMAIN DeclMenu :
           IF ItemOk(DeclMenu[m])
           THEN decl' = Append(decl, DeclMenu[m]) /\ UNCHANGED stage
           ELSE stage' = "rejected" /\ UNCHANGED decl
    /\ UNCHANGED <<flags, UnsortedVars>>

\* The end of the input.
EndParse ==
    /\ stage = "parse"
    /\ decl # <<>>
    /\ decl' = ApplyDefaultExecutor(decl)
    /\ stage' = "expand"
    /\ UNCHANGED <<flags, UnsortedVars>>

\* expand, up to the tables it emits.
Expand ==
    /\ stage = "expand"
    /\ IF /\ \A i \in DOMAIN decl : GateOk(decl[i])
          /\ SlotNamesOk /\ LocalOk /\ BudgetsOk /\ VetoesOk /\ EmitOk /\ TablesOk
       THEN deps' = DepTable /\ stage' = "seed"
       ELSE stage' = "rejected" /\ UNCHANGED deps
    /\ UNCHANGED <<flags, decl, indeg, queue, order>>

\* The slots in S as a loop from the first slot to the last comes by them.
Ascending(S) == Kept([s \in Slots |-> s], S)

\* Faulty variant: in_degree counts that a slot has dependencies, not how many.
SeedOnce ==
    /\ stage = "seed"
    /\ indeg' = [s \in Slots |-> IF deps[s] = <<>> THEN 0 ELSE 1]
    /\ queue' = Ascending({s \in Slots : deps[s] = <<>>})
    /\ stage' = "sort"
    /\ UNCHANGED <<flags, decl, deps, order>>

\* topo_sort_const: in_degree is the length of the row, as a u8.
SortSeed ==
    /\ stage = "seed"
    /\ indeg' = [s \in Slots |-> Len(deps[s]) % IdxMod]
    /\ queue' = Ascending({s \in Slots : Len(deps[s]) % IdxMod = 0})
    /\ stage' = "sort"
    /\ UNCHANGED <<flags, decl, deps, order>>

\* One turn of its loop: the head is produced, and each slot that depends on
\* it loses one from its in_degree.
SortVisit ==
    /\ stage = "sort"
    /\ queue # <<>>
    /\ LET node    == Head(queue)
           waiting == {s \in Slots : /\ indeg[s] # 0
                                     /\ \E k \in DOMAIN deps[s] : deps[s][k] = node}
       IN  /\ order' = Append(order, node)
           /\ indeg' = [s \in Slots |-> IF s \in waiting THEN indeg[s] - 1 ELSE indeg[s]]
           /\ queue' = Tail(queue) \o Ascending({s \in waiting : indeg[s] = 1})
    /\ UNCHANGED <<flags, decl, stage, deps>>

\* The const panic that fails the build on a cycle.
SortEnd ==
    /\ stage = "sort"
    /\ queue = <<>>
    /\ stage' = IF Len(order) = SlotCount THEN "built" ELSE "cycle"
    /\ UNCHANGED <<flags, decl, UnsortedVars>>

DeclNext == ParseItem \/ EndParse \/ Expand \/ SortSeed \/ SortVisit \/ SortEnd

DeclSpec == DeclInit /\ [][DeclNext]_declVars

---------------------------------------------------------------------------
\* The stages the macro and the compiler pass through.
DeclTypeOK ==
    /\ flags \subseteq DeclFlags
    /\ stage \in {"parse", "expand", "seed", "sort", "built", "cycle", "rejected"}
    /\ Len(decl) <= MaxItems
    /\ \A k \in DOMAIN order : order[k] \in Slots

Position(s) == CHOOSE k \in DOMAIN order : order[k] = s

\* The sort is right both ways.  A graph that builds has one place in its
\* order for each slot, after every slot it was declared to depend on (a
\* pool stands for its floor member).  A build refused for a cycle has one:
\* a set of slots each of which depends on another of the set - or lists one
\* provider twice under two #[cfg]s that are both on, which topo_sort_const
\* counts twice and releases once.
SortIsRight ==
    /\ stage = "built" =>
           /\ \A s \in Slots : Cardinality({k \in DOMAIN order : order[k] = s}) = 1
           /\ \A i \in Owners : \A k \in DOMAIN Listed(decl[i], "deps") :
                  LET d == Listed(decl[i], "deps")[k] IN
                  Active(d.cfg) =>
                      \A m \in 0..(MemberCount(i) - 1) : \A p \in Named(d.to) :
                          Position(SlotOf(p)) < Position(SlotOf(i) + m)
    /\ stage = "cycle" =>
           \/ \E S \in SUBSET Slots \ {{}} :
                  \A s \in S : \E k \in DOMAIN deps[s] : deps[s][k] \in S
           \/ \E s \in Slots : \E k, l \in DOMAIN deps[s] : k # l /\ deps[s][k] = deps[s][l]

\* No two holders share a bit or a share.  In a graph that builds, the
\* members of all the items that claim from one budget hold different slots
\* of it, the writers of one veto gate different bits, whatever text each
\* used to name the gate (two paths that end alike may be one static).  A
\* pool that lists one budget twice claims once in each of its members.
BitsAreDisjoint ==
    stage = "built" =>
        /\ \A e, f \in Entries :
               /\ e # f
               /\ KindOf(Res(e)) = "Divisible"
               /\ Res(e).name = Res(f).name
               /\ ~(e[1] = f[1] /\ decl[e[1]].kind = "pool")
               => \A m \in 0..(MemberCount(e[1]) - 1), n \in 0..(MemberCount(f[1]) - 1) :
                      ClaimBase(e) + m # ClaimBase(f) + n
        /\ \A e, f \in Vetoes :
               e # f /\ Stem(Gate(e)) = Stem(Gate(f)) =>
                   \A m \in 0..(MemberCount(e[1]) - 1), n \in 0..(MemberCount(f[1]) - 1) :
                       VetoBase(e) + m # VetoBase(f) + n

\* A node whose readiness the monitor asserts is visited by the monitor: in a
\* graph that builds, a compiled ready_on_write has a compiled beat budget and
\* a compiled `observed beat' write, and the sweep and its polling of the
\* written signals are part of the supervisor's shape, so that the dependents
\* gated on it can start.  It is stated for writes: entries that carry no #[cfg] of their own,
\* since parse_node does not look at theirs.
ReadyIsDrivenBelow ==
    stage = "built" =>
        \A i \in Owners :
            /\ Has(decl[i], "ready_on_write")
            /\ Active(TheClause(decl[i], "ready_on_write").cfg)
            /\ \A k \in DOMAIN Listed(decl[i], "writes") : Listed(decl[i], "writes")[k].cfg = ""
            => /\ Has(decl[i], "beat_timeout")
               /\ Active(TheClause(decl[i], "beat_timeout").cfg)
               /\ {"BEATS", "OBSERVED"} \subseteq Shape
               /\ \E k \in DOMAIN Listed(decl[i], "writes") :
                      {"observed", "beat"} \subseteq Listed(decl[i], "writes")[k].marks

\* What the macro accepts, it has wired up.
AcceptedIsSound == BitsAreDisjoint /\ ReadyIsDrivenBelow
============================================================================
