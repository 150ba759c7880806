------------------------------- MODULE MCIsolates -------------------------------
(* Two isolates: with messages and a port, or with a SIGINT. *)
EXTENDS Isolates

MCQuotas == {[messages |-> 3, ports |-> 1, interrupts |-> 0],
             [messages |-> 2, ports |-> 0, interrupts |-> 1]}
MCQuotasExit == {[messages |-> 2, ports |-> 1, interrupts |-> 0]}
===============================================================================
