----------------------------- MODULE MCPipeline -----------------------------
(* A root with two subdirectories of one file each; all but f match. The   *)
(* cap is met in the first batch, unless the print thread is slower than   *)
(* the walk, and then the run is one without a cap.                        *)
EXTENDS Pipeline

MCPath   == {"a", "b", "f", "c", "g"}
MCRoots  == <<"a">>
MCParent == [a |-> None, b |-> "a", c |-> "a", f |-> "b", g |-> "c"]
MCDepth  == [a |-> 0, b |-> 1, c |-> 1, f |-> 2, g |-> 2]
MCAbove  == [a |-> {}, b |-> {"a"}, c |-> {"a"}, f |-> {"a", "b"}, g |-> {"a", "c"}]
MCRootOf == [p \in MCPath |-> "a"]
MCType   == [p \in MCPath |-> IF p \in {"f", "g"} THEN "Other" ELSE "Dir"]
MCId     == [a |-> 1, b |-> 2, c |-> 3, f |-> None, g |-> None]
MCDev    == [p \in MCPath |-> 1]
MCMatching == MCPath \ {"f"}
MCSetups == {[threads |-> 3, maxResults |-> 1, sinkMayFail |-> FALSE]}
=============================================================================
