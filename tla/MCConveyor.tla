---------------------------- MODULE MCConveyor ----------------------------
(* One peer; a receiver and a sender on each side, the client side's      *)
(* logger and the server side's senders helper.  Every slot but the       *)
(* server line's logger slot has a task that can hold it when the          *)
(* supervisor tries to drop the peer.                                      *)
EXTENDS Conveyor, TLC

MCPeers == {"p1"}
MCPeerOrder == <<"p1">>
MCReceivers == {"rc", "rs"}
MCSenders == {"sc", "ss"}
MCLoggers == {"lc"}
MCHelpers == {"hs"}
MCSide == [w \in {"rc", "sc", "lc"} |-> "client"] @@
          [w \in {"rs", "ss", "hs"} |-> "server"]
=============================================================================
