---------------------------- MODULE BoundedQueue ----------------------------
(***************************************************************************)
(* What lib/telem/ring.h promises of the telemetry ring: a FIFO of at most *)
(* Depth records; a push into a full one is refused and counted, "never    *)
(* overwrites unread data and never blocks"; a pop hands out the oldest.   *)
(***************************************************************************)
EXTENDS Naturals, Sequences

CONSTANTS Depth, Record

VARIABLES
    queue,  \* the records queued, oldest first
    drops,  \* pushes refused
    taken   \* the records popped last: none yet, or one

vars == <<queue, drops, taken>>

Init == queue = <<>> /\ drops = 0 /\ taken = <<>>

Push ==
    /\ Len(queue) < Depth
    /\ \E rec \in Record : queue' = Append(queue, rec)
    /\ UNCHANGED <<drops, taken>>

Refuse ==
    /\ Len(queue) = Depth
    /\ drops' = drops + 1
    /\ UNCHANGED <<queue, taken>>

Pop ==
    /\ queue # <<>>
    /\ taken' = <<Head(queue)>>
    /\ queue' = Tail(queue)
    /\ UNCHANGED drops

Next == Push \/ Refuse \/ Pop

Spec == Init /\ [][Next]_vars
=============================================================================
