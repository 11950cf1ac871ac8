----------------------------- MODULE BoundedFifo -----------------------------
(***************************************************************************)
(* What include/ingest_queue.h promises: a first-in first-out queue of at  *)
(* most Capacity frames.  A push appends, a pop removes the oldest frame   *)
(* and hands it to the caller, clear forgets the contents.  A call that    *)
(* returns false (queue full, queue empty) changes nothing here.           *)
(***************************************************************************)
EXTENDS Naturals, Sequences

CONSTANTS Capacity,   \* frames the queue can hold
          Frames,     \* the frames callers may push
          NoFrame     \* what taken holds before the first pop

VARIABLES items,      \* the queued frames, oldest first
          taken       \* the frame the last successful pop handed out

fifoVars == <<items, taken>>

FifoInit == items = <<>> /\ taken = NoFrame

Push(f) == /\ Len(items) < Capacity
           /\ items' = Append(items, f)
           /\ UNCHANGED taken

Pop == /\ items # <<>>
       /\ taken' = Head(items)
       /\ items' = Tail(items)

Clear == items' = <<>> /\ UNCHANGED taken

FifoNext == (\E f \in Frames : Push(f)) \/ Pop \/ Clear

FifoSpec == FifoInit /\ [][FifoNext]_fifoVars
==============================================================================
