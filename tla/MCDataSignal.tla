---------------------------- MODULE MCDataSignal ----------------------------
(* Two readers (reader_num_ 0 and 1, threading level 2), two receivers,   *)
(* two lines.                                                             *)
EXTENDS DataSignal

MCReaders == {0, 1}
MCReceivers == {"recv1", "recv2"}
=============================================================================
