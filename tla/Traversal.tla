----------------------------- MODULE Traversal ------------------------------
(***************************************************************************)
(* What walk_parallel (src/walk.rs) promises its caller, without workers,  *)
(* queues or counters: the visitor sees each entry at most once, a child   *)
(* only after the directory that lists it, and never one that is excluded  *)
(* or out of scope; errors may hide entries; and the call returns either   *)
(* after a Quit verdict or when nothing that is due is left.               *)
(***************************************************************************)
EXTENDS FiniteSets

CONSTANTS Path, Root, Parent, Readable, Excluded

VARIABLES emitted, lost, stopped, returned

avars == <<emitted, lost, stopped, returned>>

\* A root is always due; a child is due once its directory has been emitted.
Due(q) == \/ q \in Root
          \/ q \notin Excluded /\ Parent[q] \in emitted \cap Readable

AInit == emitted = {} /\ lost = {} /\ stopped = FALSE /\ returned = FALSE

\* One visitor call; its verdict may stop the walk. Workers that were already
\* reading a directory go on emitting after another worker's Quit.
Emit(q) ==
    /\ ~returned /\ q \in Path \ (emitted \cup lost) /\ Due(q)
    /\ emitted' = emitted \cup {q}
    /\ stopped' \in {stopped, TRUE}
    /\ UNCHANGED <<lost, returned>>

\* An error hides entries that were never emitted.
Lose ==
    /\ ~returned
    /\ lost' \in SUBSET (Path \ emitted) /\ lost \subseteq lost'
    /\ UNCHANGED <<emitted, stopped, returned>>

Return ==
    /\ stopped \/ \A q \in Path : Due(q) => q \in emitted \cup lost
    /\ returned' = TRUE
    /\ UNCHANGED <<emitted, lost, stopped>>

ANext == (\E q \in Path : Emit(q)) \/ Lose \/ Return

ASpec == AInit /\ [][ANext]_avars
=============================================================================
