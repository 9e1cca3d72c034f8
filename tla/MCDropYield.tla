---------------------------- MODULE MCDropYield ----------------------------
(* Two peers, so that a yield meant for one can land on the other.        *)
EXTENDS DropYield

MCPeers == {"p1", "p2"}
=============================================================================
