------------------------- MODULE MCResourceWaiter -------------------------
(* One consumer (a receiver), one or two producers (a logger, a sender)   *)
(* and the supervisor.                                                    *)
EXTENDS ResourceWaiter

MCConsumers == {"recv"}
MCProducers == {"logger"}
MCTasks == MCConsumers \cup MCProducers
MCNotifiers == MCTasks \cup {"superviser"}

MCProducers2 == {"logger", "sender"}
MCTasks2 == MCConsumers \cup MCProducers2
MCNotifiers2 == MCTasks2 \cup {"superviser"}
=============================================================================
