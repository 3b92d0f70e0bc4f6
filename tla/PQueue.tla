------------------------------- MODULE PQueue -------------------------------
(***************************************************************************)
(* The pseudo-queue of src/src/cli/modes/pqueue.h.  Frame ids are always   *)
(* handed out in ring order, so the queue is a cursor into parallel arrays *)
(* with limit entries and holds no elements.                               *)
(***************************************************************************)
EXTENDS Naturals

\* The first id, the value pqueue_init gives the cursor.
pqueue_first == 0

\* Mutant of pqueue_next: the ring is one id too long.
pqueue_next_le(curr, limit) == IF curr + 1 <= limit THEN curr + 1 ELSE 0

\* The id after curr in a ring of limit ids.
pqueue_next(curr, limit) == IF curr + 1 < limit THEN curr + 1 ELSE 0

=============================================================================
