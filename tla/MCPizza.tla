------------------------------- MODULE MCPizza ------------------------------
(* Orders for the pizza monitor: none, a negative one, and enough to fill, *)
(* to grow and to leave part of a queue of two slots.                      *)
EXTENDS Pizza

MCNumPizzas == -1 .. 4
=============================================================================
