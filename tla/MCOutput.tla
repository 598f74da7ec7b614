------------------------------ MODULE MCOutput ------------------------------
(* Entries for Output: e1..e5 match the filters, x does not.               *)
EXTENDS Output

MCMatching == {"e1", "e2", "e3", "e4", "e5"}
MCEntry    == MCMatching \cup {"x"}

Run(t, n, fails) == [threads |-> t, maxResults |-> n, sinkMayFail |-> fails]

\* two workers over a channel of two batches without a cap, with a cap inside
\* the first batch and one inside a later batch; one worker over a rendezvous
\* channel into a sink that may fail
DrainSetups == {Run(3, n, FALSE) : n \in {0, 1, 3}} \cup {Run(1, n, TRUE) : n \in {0, 2}}
FailingSetups == {Run(3, 0, TRUE)}
CappedSetups == {Run(2, 1, FALSE)}
=============================================================================
