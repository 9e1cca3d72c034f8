---------------------------- MODULE MCConnector ----------------------------
(* connector_t::add_peer with the retry bound of the code (i < 5).        *)
EXTENDS Connector

MCRetryLimit == 5
=============================================================================
