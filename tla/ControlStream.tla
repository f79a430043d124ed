---------------------------- MODULE ControlStream ----------------------------
(***************************************************************************)
(* What a Noise session promises of one direction of its control stream    *)
(* (docs/noise-protocol.md, "Each direction has one outstanding chunk"):   *)
(* chunks are read in the order they were written, each once, and a chunk  *)
(* is only reported as written after the other end has retained it.        *)
(***************************************************************************)
EXTENDS Naturals, Sequences

CONSTANT Data

VARIABLES stream,     \* the chunks put on the wire, in order
          retained,   \* how many of them the receiver holds or has held
          delivered,  \* the chunks its application has read
          acked       \* how many the sender knows to be retained

cvars == <<stream, retained, delivered, acked>>

CInit == stream = <<>> /\ retained = 0 /\ delivered = <<>> /\ acked = 0

\* One outstanding chunk: the next one waits for the last one's ACK.
Commit(d) ==
    /\ acked = Len(stream)
    /\ stream' = Append(stream, d)
    /\ UNCHANGED <<retained, delivered, acked>>

Retain ==
    /\ retained < Len(stream)
    /\ retained' = retained + 1
    /\ UNCHANGED <<stream, delivered, acked>>

Confirm ==
    /\ acked < retained
    /\ acked' = acked + 1
    /\ UNCHANGED <<stream, retained, delivered>>

Take ==
    /\ Len(delivered) < retained
    /\ delivered' = Append(delivered, stream[Len(delivered) + 1])
    /\ UNCHANGED <<stream, retained, acked>>

CNext == (\E d \in Data : Commit(d)) \/ Retain \/ Confirm \/ Take

CSpec == CInit /\ [][CNext]_cvars
=============================================================================
