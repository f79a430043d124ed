--------------------------- MODULE MCAudioEngine ---------------------------
(* Settings for TLC: talking with a key, listening only, a microphone test. *)
EXTENDS AudioEngine

Talk == [enabled |-> TRUE, muted |-> FALSE, deafened |-> FALSE, ptt |-> TRUE, monitor |-> FALSE]

MCRequests == {Talk, [Talk EXCEPT !.muted = TRUE], [Talk EXCEPT !.monitor = TRUE]}
=============================================================================
