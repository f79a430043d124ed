------------------------------ MODULE PcmQueue ------------------------------
(***************************************************************************)
(* What a ring between an audio callback and the audio worker promises: a  *)
(* bounded queue.  Its one writer appends a piece, its one reader takes a  *)
(* piece from the front, and nothing else ever happens to it.              *)
(***************************************************************************)
EXTENDS Naturals, Sequences

CONSTANTS Rings, Size(_)

VARIABLES queue,  \* what each ring holds
          last    \* the piece taken last from each ring

QInit == queue = [r \in Rings |-> <<>>] /\ last = [r \in Rings |-> <<>>]

Others(r) == \A s \in Rings \ {r} : queue'[s] = queue[s] /\ last'[s] = last[s]

QPut(r) ==
    /\ Len(queue[r]) < Len(queue'[r]) /\ Len(queue'[r]) <= Size(r)
    /\ SubSeq(queue'[r], 1, Len(queue[r])) = queue[r]
    /\ last'[r] = last[r]
    /\ Others(r)

QTake(r) ==
    /\ \E n \in 1 .. Len(queue[r]) :
          /\ last'[r] = SubSeq(queue[r], 1, n)
          /\ queue'[r] = SubSeq(queue[r], n + 1, Len(queue[r]))
    /\ Others(r)

QSpec == QInit /\ [][\E r \in Rings : QPut(r) \/ QTake(r)]_<<queue, last>>
=============================================================================
