---------------------------- MODULE MCSupervisor ----------------------------
(* Small graphs for module Supervisor.                                     *)
EXTENDS Supervisor

None == [n \in Node |-> {}]

\* A radio that asserts readiness, a client that waits for it and may return
\* by itself, a Pause worker over the client, and a publisher without any edge
\* whose shutdown drains the worker.
CtlNode      == {"radio", "client", "worker", "publisher"}
CtlOrder     == <<"radio", "client", "worker", "publisher">>
CtlMode      == [n \in CtlNode |-> IF n = "worker" THEN "Pause" ELSE "Terminate"]
CtlDeps      == [radio |-> {}, client |-> {"radio"}, worker |-> {"client"},
                 publisher |-> {}]
CtlReadyDeps == [CtlDeps EXCEPT !.worker = {}]
CtlDrains    == [n \in CtlNode |-> IF n = "publisher" THEN {"worker"} ELSE {}]

\* A link whose readiness comes and goes; bound to it a service, a Pause
\* worker over the service, and a pool member.
BindNode      == {"link", "service", "worker", "member"}
BindOrder     == <<"link", "service", "worker", "member">>
BindMode      == [link |-> "Terminate", service |-> "Terminate",
                  worker |-> "Pause", member |-> "OnDemand"]
BindDeps      == [link |-> {}, service |-> {"link"}, worker |-> {"service"},
                  member |-> {"link"}]
BindBoundDeps == [BindDeps EXCEPT !.worker = {}]

\* A Pause worker bound to the link.
PauseNode  == {"link", "worker"}
PauseOrder == <<"link", "worker">>
PauseMode  == [link |-> "Terminate", worker |-> "Pause"]
PauseDeps  == [link |-> {}, worker |-> {"link"}]
=============================================================================
