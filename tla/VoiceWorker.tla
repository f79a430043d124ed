----------------------------- MODULE VoiceWorker -----------------------------
(***************************************************************************)
(* What the ring and the stall guard of one member's voice sender share:   *)
(* the worker that runs sendVoiceSource, and the member's connection       *)
(* (internal/nativewire/transport.go).                                     *)
(***************************************************************************)
VARIABLES worker,  \* the send worker, one of Stages
          open     \* the connection's context is not done

\* In pop before q.mu, in pop on its select, with a packet in hand, inside
\* SendDatagram, or returned.
Stages == {"look", "wait", "held", "sending", "done"}
=============================================================================
