------------------------------- MODULE MCBus -------------------------------
(* TLC instance: one slot in the buffer, so that the second message is     *)
(* allocated, discards the first one or finds the queue empty.  Two        *)
(* listeners of one address, so that one of them may send while the other  *)
(* waits for the message, and one of them listens to ALL as well.          *)
EXTENDS Bus

CONSTANTS c1, c2, l1, l2, a1

MCClient == {c1, c2}
MCListener == {l1, l2}
MCAddress == {a1, ALL}
MCSubscription == {<<a1, l1>>, <<a1, l2>>, <<ALL, l1>>}
=============================================================================
