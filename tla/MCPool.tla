------------------------------- MODULE MCPool -------------------------------
(* Small pools for module Pool.                                            *)
EXTENDS Pool

None == [n \in Node |-> {}]

\* A link, and over it a pool of a floor member and two more.
PoolNode  == {"link", "m0", "m1", "m2"}
PoolOrder == <<"link", "m0", "m1", "m2">>
PoolMode  == [link |-> "Terminate", m0 |-> "Terminate", m1 |-> "OnDemand",
              m2 |-> "OnDemand"]
PoolDeps  == [n \in PoolNode |-> IF n = "link" THEN {} ELSE {"link"}]

\* A radio whose readiness comes and goes, a link bound to it, and a pool that
\* depends on the link.
RadioNode  == {"radio", "link", "m0", "m1"}
RadioOrder == <<"radio", "link", "m0", "m1">>
RadioMode  == [radio |-> "Terminate", link |-> "Terminate", m0 |-> "Terminate",
               m1 |-> "OnDemand"]
RadioDeps  == [radio |-> {}, link |-> {"radio"}, m0 |-> {"link"},
               m1 |-> {"link"}]
RadioBound == [n \in RadioNode |-> IF n = "link" THEN {"radio"} ELSE {}]
=============================================================================
