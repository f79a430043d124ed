------------------------------ MODULE VoiceQueue ------------------------------
(***************************************************************************)
(* What a voice ring promises: a bounded queue that replaces its oldest    *)
(* voice when full, hands packets to one consumer in order, and holds      *)
(* nothing once closed.                                                    *)
(***************************************************************************)
EXTENDS Naturals, Sequences

CONSTANTS Packets, Capacity

VARIABLES queue, open, taken

qvars == <<queue, open, taken>>

QInit == queue = <<>> /\ open = TRUE /\ taken = <<>>

QPush(x) ==
    /\ open
    /\ queue' = IF Len(queue) = Capacity THEN Append(Tail(queue), x)
                ELSE Append(queue, x)
    /\ UNCHANGED <<open, taken>>

QPop ==
    /\ open
    /\ queue # <<>>
    /\ taken' = Append(taken, Head(queue))
    /\ queue' = Tail(queue)
    /\ UNCHANGED open

QClose ==
    /\ open' = FALSE
    /\ queue' = <<>>
    /\ UNCHANGED taken

QNext == (\E x \in Packets : QPush(x)) \/ QPop \/ QClose

QSpec == QInit /\ [][QNext]_qvars
=============================================================================
