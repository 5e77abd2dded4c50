---------------------------- MODULE MCHandshake ----------------------------
(* Every node declaration on every combination of executors.               *)
EXTENDS Handshake

MCCfgs ==
    [mode : {"Terminate", "Pause"}, shell : {"task", "spawn"},
     preempts : SUBSET {<<"sup", "task">>, <<"task", "sup">>}]

\* The `task:` nodes among them.
ShellCfgs == {c \in MCCfgs : c.shell = "task"}
=============================================================================
