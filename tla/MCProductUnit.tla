--------------------------- MODULE MCProductUnit ---------------------------
(* Product-units over three basic-units, powers to the edge of a short.    *)
EXTENDS ProductUnit

MCPowers == {-2, 128}
=============================================================================
