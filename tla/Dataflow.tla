----------------------------- MODULE Dataflow -----------------------------
(***************************************************************************)
(* #[dataflow]: the walk over a fn's body that finds the verb calls on its *)
(* TaskNode, the coupling tables derived from them, and the index of a     *)
(* table each call is rewritten to.  The entries are #[cfg]-gated like the *)
(* calls, so the index is the number of compiled entries before the call's *)
(* own (derived_prefix_expr), and a table of a #[dataflow_bundle] joins    *)
(* those of the fns of its module.                                         *)
(*                                                                         *)
(* The body is written as it is walked: each action reads one more token   *)
(* of a body the compiler accepts.  `scope' holds, per open group, the     *)
(* predicates the walker believes govern the next call (walk) and those    *)
(* that do (real).                                                         *)
(***************************************************************************)
EXTENDS Integers, Sequences, FiniteSets, Tables

CONSTANTS Signals,       \* the paths calls name
          CallFlags,     \* the cfg predicates a body may use
          UserVerbs,     \* methods of an extension trait, and built-in names
          DataFeatures,  \* the crate features this build enables
          MaxTokens      \* bound: tokens of a module's bodies

VARIABLES verbs,         \* custom verb |-> TRUE when it writes (VerbTable)
          fnCfgs,        \* the cfgs on the fn being walked
          scope,         \* the stack of open groups
          derived,       \* direction |-> the fn's table, [path, alts] per entry
          bundle,        \* direction |-> the bundle's table
          verbCalls,     \* the calls of this fn
          tokens,        \* tokens read
          step           \* "verbs", "body", "emitted" or "rejected"

dataVars == <<verbs, fnCfgs, scope, derived, bundle, verbCalls, tokens, step>>

Reads  == {"get", "reader", "open", "lease"}
Writes == {"put", "writer", "beat_put", "beat_writer", "retire", "veto"}

\* VerbTable::direction: TRUE for a write; only known verbs have one.
Known == Reads \cup Writes \cup DOMAIN verbs
Direction(v) == IF v \in Writes THEN TRUE ELSE IF v \in Reads THEN FALSE ELSE verbs[v]

\* The features that add a verb to TaskNode.
VerbFeatures(v) ==
    CASE v \in {"beat_put", "beat_writer"} -> {"liveness"}
      [] v \in {"open", "lease"}           -> {"data-deps"}
      [] v = "retire"                      -> {"data-deps", "readiness"}
      [] v = "veto"                        -> {"veto"}
      [] OTHER                             -> {}

NoTable == [w \in BOOLEAN |-> <<>>]
Bare == <<[walk |-> {}, real |-> {}]>>
Group == Len(scope)

DataInit ==
    /\ verbs = <<>> /\ fnCfgs = {} /\ scope = Bare
    /\ derived = NoTable /\ bundle = NoTable
    /\ verbCalls = {} /\ tokens = 0 /\ step = "verbs"

---------------------------------------------------------------------------
\* The tables

\* Faulty variant: a second call of a signal leaves the entry as the first
\* one gated it.
RecordFirst(list, path, cfgs) ==
    IF \E k \in DOMAIN list : list[k].path = path THEN list
    ELSE Append(list, [path |-> path, alts |-> {cfgs}])

\* record_derived: one entry per path, gated on any of its calls' predicates.
RecordDerived(list, path, cfgs) ==
    IF \E k \in DOMAIN list : list[k].path = path
    THEN [k \in DOMAIN list |->
             IF list[k].path = path THEN [list[k] EXCEPT !.alts = @ \cup {cfgs}] ELSE list[k]]
    ELSE Append(list, [path |-> path, alts |-> {cfgs}])

\* derived_predicate, in the build with the flags F.
Included(entry, F) == \E alt \in entry.alts : alt \subseteq F

\* derived_prefix_expr: the number of entries of list compiled before entry k.
Prefix(list, k, F) == Cardinality({j \in 1..(k - 1) : Included(list[j], F)})

\* The table as the compiler lays it out in the build with the flags F.
Layout(list, F) == Kept(list, {k \in DOMAIN list : Included(list[k], F)})

---------------------------------------------------------------------------
\* #[dataflow(read(..), write(..))]: VerbTable::add.
RegisterVerb(v, w) ==
    /\ step = "verbs"
    /\ IF v \in Known
       THEN step' = "rejected" /\ UNCHANGED verbs
       ELSE verbs' = [u \in DOMAIN verbs \cup {v} |-> IF u = v THEN w ELSE verbs[u]] /\ UNCHANGED step
    /\ UNCHANGED <<fnCfgs, scope, derived, bundle, verbCalls, tokens>>

\* The attributes of the fn have been read.
OpenBody(cfgs) ==
    /\ step = "verbs"
    /\ fnCfgs' = cfgs
    /\ step' = "body"
    /\ UNCHANGED <<verbs, scope, derived, bundle, verbCalls, tokens>>

Token ==
    /\ step = "body"
    /\ tokens < MaxTokens
    /\ tokens' = tokens + 1
    /\ UNCHANGED <<verbs, fnCfgs>>

Quiet == UNCHANGED <<derived, bundle, verbCalls, step>>

\* `#[cfg(p)]' before a statement, an arm or an expression.
Attribute(p) ==
    /\ Token
    /\ scope' = [scope EXCEPT ![Group] = [walk |-> @.walk \cup {p}, real |-> @.real \cup {p}]]
    /\ Quiet

\* `node.verb(&PATH, ..': rewrite_first_arg and the two callbacks of
\* dataflow_expand.  A first argument that is no literal path is refused, and
\* so is an ungated call of a verb this build has not.
VerbCall(v, path) ==
    /\ Token
    /\ v \in Known
    /\ LET w    == Direction(v)
           cfgs == scope[Group].walk
       IN  IF path = "" \/ (cfgs = {} /\ ~(VerbFeatures(v) \subseteq DataFeatures))
           THEN step' = "rejected" /\ UNCHANGED <<derived, bundle, verbCalls>>
           ELSE /\ derived' = [derived EXCEPT ![w] = RecordDerived(@, path, cfgs)]
                /\ bundle' = [bundle EXCEPT ![w] = RecordDerived(@, path, fnCfgs \cup cfgs)]
                /\ verbCalls' = verbCalls \cup {[write |-> w, path |-> path, cfgs |-> scope[Group].real]}
                /\ UNCHANGED step
    /\ UNCHANGED scope

\* A group opens: what governs it governs its contents.
OpenGroup ==
    /\ Token
    /\ scope' = Append(scope, scope[Group])
    /\ Quiet

\* A group closes.  A brace that neither an `else' nor a method call follows
\* ends the statement for the walker; `ends' says whether it does.
CloseGroup(brace, ends) ==
    /\ Token
    /\ Group > 1
    /\ ends => brace
    /\ LET outer == IF Group = 2 THEN {} ELSE scope[Group - 2].walk
           real  == IF Group = 2 THEN {} ELSE scope[Group - 2].real
           up    == scope[Group - 1]
       IN  scope' = Append(SubSeq(scope, 1, Group - 2),
                           [walk |-> IF brace THEN outer ELSE up.walk,
                            real |-> IF ends THEN real ELSE up.real])
    /\ Quiet

\* A `;' or a `,', or a nested fn, which is skipped with its body.  It ends the
\* statement for the walker; the comma of a generic argument list (ends = FALSE)
\* does not end it for the compiler.
Separator(ends) ==
    /\ Token
    /\ LET outer == IF Group = 1 THEN {} ELSE scope[Group - 1].walk
           real  == IF Group = 1 THEN {} ELSE scope[Group - 1].real
       IN  scope' = [scope EXCEPT ![Group] =
                        [walk |-> outer, real |-> IF ends THEN real ELSE @.real]]
    /\ Quiet

\* The body ends: the tables are emitted.
CloseBody ==
    /\ step = "body"
    /\ Group = 1
    /\ step' = "emitted"
    /\ UNCHANGED <<verbs, fnCfgs, scope, derived, bundle, verbCalls, tokens>>

\* #[dataflow_bundle] goes on to the next fn of the module.
NextFn ==
    /\ step = "emitted"
    /\ tokens < MaxTokens
    /\ derived' = NoTable /\ verbCalls' = {} /\ scope' = Bare
    /\ step' = "verbs"
    /\ verbs' = <<>>
    /\ UNCHANGED <<fnCfgs, bundle, tokens>>

DataNext ==
    \/ \E v \in UserVerbs, w \in BOOLEAN : RegisterVerb(v, w)
    \/ \E cfgs \in SUBSET CallFlags : OpenBody(cfgs)
    \/ \E p \in CallFlags : Attribute(p)
    \/ \E v \in Known, path \in Signals \cup {""} : VerbCall(v, path)
    \/ OpenGroup
    \/ \E brace, ends \in BOOLEAN : CloseGroup(brace, ends)
    \/ \E ends \in BOOLEAN : Separator(ends)
    \/ CloseBody
    \/ NextFn

DataSpec == DataInit /\ [][DataNext]_dataVars

---------------------------------------------------------------------------
\* Tables hold one entry per path.
DataTypeOK ==
    /\ step \in {"verbs", "body", "emitted", "rejected"}
    /\ \A w \in BOOLEAN, t \in {derived, bundle} :
           \A j, k \in DOMAIN t[w] : t[w][j].path = t[w][k].path => j = k

Place(list, path) == CHOOSE k \in DOMAIN list : list[k].path = path

\* Every call reports its own signal.  In every build, a call that is compiled
\* finds, at the index it was rewritten to, an entry for the path it names:
\* the entry is compiled wherever one of its calls is, and the cfg-aware
\* prefix counts exactly the entries laid out before it.  The table of the
\* bundle names it too.
IndexIsOwn ==
    step = "emitted" =>
        \A F \in SUBSET CallFlags, c \in verbCalls :
            c.cfgs \cup fnCfgs \subseteq F =>
                LET list == derived[c.write]
                    laid == Layout(list, F)
                    at   == 1 + Prefix(list, Place(list, c.path), F)
                IN  /\ at \in DOMAIN laid
                    /\ laid[at].path = c.path
                    /\ \E k \in DOMAIN Layout(bundle[c.write], F) :
                           Layout(bundle[c.write], F)[k].path = c.path
============================================================================
