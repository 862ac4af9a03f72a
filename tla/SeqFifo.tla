------------------------------- MODULE SeqFifo -------------------------------
(***************************************************************************)
(* What seq_queue.h promises: a first-in first-out queue of numElems       *)
(* elements in which a put overwrites the last element if it is full.      *)
(***************************************************************************)
EXTENDS Naturals, Sequences, SequencesExt

CONSTANTS numElems, Values

VARIABLES
  contents,  \* the elements, the oldest first
  got        \* the element that the last successful get returned

Init == contents = <<>> /\ got \in Values

Put(v) ==
  /\ contents' = IF Len(contents) < numElems THEN Append(contents, v)
                                             ELSE Append(Front(contents), v)
  /\ UNCHANGED got

Get ==
  /\ contents # <<>>
  /\ got' = Head(contents) /\ contents' = Tail(contents)

Flush == contents' = <<>> /\ UNCHANGED got

Next == (\E v \in Values : Put(v)) \/ Get \/ Flush

Spec == Init /\ [][Next]_<<contents, got>>
=============================================================================
