------------------------------ MODULE MCWsLink ------------------------------
(* Instances of WsLink for TLC: the bounds are given in the .cfg files.    *)
EXTENDS WsLink
=============================================================================
