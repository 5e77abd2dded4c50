------------------------------ MODULE MCProduct ------------------------------
(* What is built on the supervisor and around it, in one model: the demo      *)
(* firmware's update and its watchdog, the macro's declarations and the       *)
(* dataflow attribute.  `focus' picks in the initial state the one that runs; *)
(* they share no variable.                                                    *)
EXTENDS Ota, Dog, Decl, Dataflow

VARIABLE focus

productVars == <<focus, otaVars, dogVars, declVars, dataVars>>

----------------------------------------------------------------------------
\* The items declarations are written from: small ones, each there for a rule
\* of the macro, that together make graphs with gated, doubled and circular
\* dependencies, pools, shared slots, budgets, vetoes and refused clauses.
Cl(kw, arg) == [kw |-> kw, cfg |-> "", arg |-> arg]
Gated(kw, arg) == [kw |-> kw, cfg |-> "f", arg |-> arg]

Node(name, clauses) ==
    [kind |-> "node", name |-> name, cfg |-> "", modes |-> <<"Terminate">>, clauses |-> clauses]
Paused(name, clauses) == [Node(name, clauses) EXCEPT !.modes = <<"Pause">>]
Pool2(name, clauses) ==
    [kind |-> "pool", name |-> name, cfg |-> "", modes |-> <<"Terminate", "OnDemand">>,
     clauses |-> <<Cl("task", "path"), Cl("policy", "ondemand"), Cl("min", 1), Cl("max", 2)>>
                 \o clauses]
Exec(kind) == [kind |-> kind, name |-> "E", cfg |-> "", fragment |-> FALSE]

On(to) == [to |-> to, cfg |-> "", marks |-> {}]
Task == Cl("task", "path")
Trip(path) == [path |-> path, element |-> "", cfg |-> "", marks |-> {"veto"}]
BeatWrite == [path |-> <<"SIG">>, element |-> "", cfg |-> "", marks |-> {"observed", "beat"}]
Resource(name, marks) == [name |-> name, cfg |-> "", marks |-> marks, ty |-> "T"]

Menu == <<
    Node("A", <<Task>>),
    Node("A", <<Task, Cl("deps", <<On("B")>>), Cl("writes", <<Trip(<<"TRIP">>)>>)>>),
    Node("B", <<Task, Cl("deps", <<On("A"), [On("A") EXCEPT !.cfg = "f"]>>)>>),
    Node("B", <<Task, Cl("deps", <<[On("P") EXCEPT !.marks = {"ready"}]>>),
                Cl("resources", <<Resource("R", {"divisible"})>>),
                Cl("writes", <<Trip(<<"crate", "TRIP">>)>>)>>),
    Pool2("P", <<Cl("deps", <<On("A")>>), Cl("resources", <<Resource("R", {"divisible"})>>),
                 Cl("writes", <<Trip(<<"TRIP">>)>>)>>),
    Pool2("P", <<Cl("deps", <<On("B")>>), Cl("resources", <<Resource("R", {"divisible"})>>)>>),
    Pool2("P", <<Cl("resources", <<Resource("R", {"divisible"}), Resource("R", {"divisible"})>>)>>),
    Exec("executor"),
    Exec("default"),
    Node("A", <<Task, Cl("executor", "E"), Cl("resources", <<Resource("L", {"local"})>>)>>),
    Node("B", <<Cl("spawn", "path"), Cl("provides", <<"L">>)>>),
    Node("C", <<Task, Cl("resources", <<Resource("M", {"shared", "serialized"})>>)>>),
    Node("B", <<Task, Cl("executor", "E"),
                Cl("resources", <<Resource("M", {"shared", "serialized"})>>)>>),
    Node("C", <<Task, Gated("beat_timeout", 1), Gated("ready_on_write", TRUE),
                Cl("writes", <<BeatWrite>>)>>),
    Node("C", <<Task, Gated("beat_timeout", 1), Cl("ready_on_write", TRUE),
                Cl("writes", <<BeatWrite>>)>>),
    Node("C", <<Task, Cl("deps", <<[On("A") EXCEPT !.marks = {"bound"}]>>)>>),
    Node("C", <<Task, Task>>),
    Paused("C", <<Task, Cl("cancel", TRUE)>>),
    Node("C", <<Task, Cl("deps", <<On("A"), On("B")>>)>>),
    Node("C", <<Gated("task", "path")>>),
    Node("C", <<Task, Cl("enabled_if", "flag")>>),
    Node("C", <<Task, Gated("enabled_if", "flag")>>) >>

----------------------------------------------------------------------------
ProductInit ==
    /\ focus \in {"ota", "dog", "decl", "dataflow"}
    /\ OtaInit
    /\ DogInit
    /\ DeclInit
    /\ DataInit
    /\ focus # "decl" => flags = {}

OtaTurn ==
    /\ focus = "ota"
    /\ OtaNext
    /\ UNCHANGED <<focus, dogVars, declVars, dataVars>>

DogTurn ==
    /\ focus = "dog"
    /\ DogNext
    /\ UNCHANGED <<focus, otaVars, declVars, dataVars>>

DeclTurn ==
    /\ focus = "decl"
    /\ DeclNext
    /\ UNCHANGED <<focus, otaVars, dogVars, dataVars>>

DataTurn ==
    /\ focus = "dataflow"
    /\ DataNext
    /\ UNCHANGED <<focus, otaVars, dogVars, declVars>>

ProductNext == OtaTurn \/ DogTurn \/ DeclTurn \/ DataTurn

ProductSpec == ProductInit /\ [][ProductNext]_productVars

=============================================================================
