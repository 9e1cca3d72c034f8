----------------------------- MODULE MCPgFrames -----------------------------
(***************************************************************************)
(* Message streams for PgFrames.  MaxData stands for max_data_size (1 MiB) *)
(* and is 12 bytes here: the largest fixed-size message (a cancel request: *)
(* code, pid, key) fits, and a 14-byte payload exceeds it.  Payload bytes  *)
(* other than typeless codes are 1, which is no message type: a decoder    *)
(* that loses framing fails check_type at once.                            *)
(***************************************************************************)
EXTENDS PgFrames

Ones(n) == [i \in 1..n |-> 1]

(* A message whose length field counts itself and its payload. *)
Msg(tb, body) == [tb |-> tb, body |-> body, len |-> 4 + Len(body)]

Startup == Msg(0, StartupCode \o Ones(2))
Ssl == Msg(0, SslCode)
Gss == Msg(0, GssCode)
Cancel == Msg(0, CancelCode \o Ones(8))
Query == Msg(QueryId, Ones(2))
Parse == Msg(ParseId, Ones(3))
BigExecute == Msg(ExecuteId, Ones(14))
CopyData == Msg(CopyDataId, Ones(3))
Passw == Msg(PasswId, Ones(2))
Sync == Msg(SyncId, <<>>)
Flush == Msg(FlushId, <<>>)
Terminate == Msg(TerminateId, <<>>)

(* Every kind of message the decoder tells apart: typeless (each code),   *)
(* parsed, skipped and empty typed ones, and a parsed one over MaxData.   *)
MCStreams ==
  { <<Startup, Query, Sync>>,
    <<Ssl, Parse, CopyData, Terminate>>,
    <<Gss, Cancel, BigExecute, Passw, Flush>> }

(* A startup message over max_data_size, then a Sync (see README, retired *)
(* runs: DecodedAsSent fails on it).                                       *)
MCBigStartup == { <<Msg(0, StartupCode \o Ones(16)), Sync>> }

(* A CopyData message with a length field of 0, and a password message     *)
(* with 0xFFFFFFFF (BE4(-1)), each followed by a Sync: size_ becomes -4    *)
(* and -5.                                                                  *)
MCBadLength ==
  { <<[CopyData EXCEPT !.len = 0], Sync>>,
    <<Query, [Passw EXCEPT !.len = -1], Sync>> }
=============================================================================
