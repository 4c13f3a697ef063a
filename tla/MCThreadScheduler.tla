------------------------- MODULE MCThreadScheduler -------------------------
(* TLC instance: two clients, two tasks; a clock of 3 bits, so that the    *)
(* time 6 is more than INT64_MAX away and makes the timeout negative.      *)
EXTENDS ThreadScheduler
=============================================================================
