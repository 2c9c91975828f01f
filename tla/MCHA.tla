-------------------------------- MODULE MCHA --------------------------------
(* Two nodes: either outranks the other, or they are equal; equal nodes also *)
(* with a clock that is ahead, and with one that does not know its address.  *)
EXTENDS HA

Level == [n \in Nodes |-> 1]
Plain(p) == [prio |-> p, known |-> Nodes, clock |-> [n \in Nodes |-> 0]]

AllSettings ==
    {Plain(Level), Plain([Level EXCEPT ![1] = 2]), Plain([Level EXCEPT ![2] = 2]),
     [Plain(Level) EXCEPT !.clock[1] = 1], [Plain(Level) EXCEPT !.known = Nodes \ {1}]}
=============================================================================
