------------------------------- MODULE MCPortMap -------------------------------
(* Ports that collide modulo 4 and modulo 8, enough to make the table grow; and, *)
(* for the code's own capacity of 8, seven ports of which one is negative.       *)
EXTENDS PortMap

Colliding == {1, 2, 5, 3, 9}
Signed    == {1, 2, 3, 4, 5, 6, -3}
================================================================================
