----------------------------- MODULE MCTerminal -----------------------------
(* Instances of Terminal for TLC: current inputs on the first ports.       *)
EXTENDS Terminal

CONSTANT V1

MCTypes == [c \in 0 .. nChNum - 1 |-> "CUR"]
MCPorts == [c \in 0 .. nChNum - 1 |-> c + 1]
MCValue == {Zero, V1}
=============================================================================
