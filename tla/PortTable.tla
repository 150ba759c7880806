------------------------------- MODULE PortTable -------------------------------
(* What vm/port.h promises: a map from open ports to the loop that owns each. *)
CONSTANTS Port, Loop, None

VARIABLES owner, routed

vars == <<owner, routed>>

Init ==
  /\ owner = [p \in Port |-> None]
  /\ routed = None

(* "Allocate a new unique port." *)
CreatePort(p, l) ==
  /\ owner[p] = None
  /\ owner' = [owner EXCEPT ![p] = l]
  /\ UNCHANGED routed

PostMessage(p) ==
  /\ routed' = owner[p]
  /\ UNCHANGED owner

ClosePort(p) ==
  /\ owner' = [owner EXCEPT ![p] = None]
  /\ UNCHANGED routed

CloseAllPorts(l) ==
  /\ owner' = [p \in Port |-> IF owner[p] = l THEN None ELSE owner[p]]
  /\ UNCHANGED routed

Next ==
  \/ \E p \in Port : PostMessage(p) \/ ClosePort(p)
  \/ \E p \in Port, l \in Loop : CreatePort(p, l)
  \/ \E l \in Loop : CloseAllPorts(l)

Spec == Init /\ [][Next]_vars
===============================================================================
