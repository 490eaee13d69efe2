--------------------------- MODULE MCPillarGateway ---------------------------
(* PillarGateway with interchangeable clients. *)
EXTENDS PillarGateway, TLC

Symmetry == Permutations(Clients)
=============================================================================
