------------------------------ MODULE MCBuffer ------------------------------
(* Model-checking instance of Buffer: two lanes (sender and logger, as     *)
(* proxy.h's lanes_cnt), pages of 2 bytes, a 2-page prefilled cache and a  *)
(* third block the pager can create beyond it.                             *)
EXTENDS Buffer

MCLanes == {"sender", "logger"}
MCBlocks == 1..4
=============================================================================
