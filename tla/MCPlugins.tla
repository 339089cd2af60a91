------------------------------ MODULE MCPlugins ------------------------------
(* Files and scripts of plugins, for the model checker.                    *)
EXTENDS Plugins

CONSTANTS Low, High, AlsoHigh

\* Two scripts share a priority.
MCPriority == [v \in Versions |-> IF v = Low THEN 10 ELSE 90]
=============================================================================
