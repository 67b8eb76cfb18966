------------------------------ MODULE MCSimEvents ------------------------------
(* One event, of class "tick"; a listener asks for it alone or with "halt",     *)
(* which nobody publishes.                                                      *)
EXTENDS SimEvents, TLC

CONSTANTS r, a, b, driver, none, bell

MCTask == {r, a, b}
MCEvent == {bell}
MCType == {"tick", "halt"}
MCInterests == {{"halt"}, MCType}
MCIsA == [e \in MCEvent |-> {"tick"}]
MCPriorities == {IDLE, NORMAL}
================================================================================
