------------------------------- MODULE FanOut -------------------------------
(***************************************************************************)
(* What a transfer line promises its readers (spec section 4.2, 5):        *)
(* one writer appends to a byte stream and each lane independently        *)
(* receives the stream in order, each byte once, never ahead of the        *)
(* writer.  Buffer refines this with stream = its committed bytes and      *)
(* got = what each lane's reader has taken.                                *)
(***************************************************************************)
EXTENDS Naturals, Sequences

CONSTANTS Lanes, Values, MaxChunk

VARIABLES stream, got

Init ==
  /\ stream = <<>>
  /\ got = [l \in Lanes |-> <<>>]

(* The writer makes a chunk of bytes visible to every lane. *)
Commit ==
  /\ \E k \in 1..MaxChunk : \E s \in [1..k -> Values] : stream' = stream \o s
  /\ UNCHANGED got

(* Lane l receives the next bytes of the stream it has not yet received. *)
Deliver(l) ==
  /\ \E k \in 1..(Len(stream) - Len(got[l])) :
       got' = [got EXCEPT ![l] = SubSeq(stream, 1, Len(got[l]) + k)]
  /\ UNCHANGED stream

Next == Commit \/ \E l \in Lanes : Deliver(l)

Safety == Init /\ [][Next]_<<stream, got>>
=============================================================================
