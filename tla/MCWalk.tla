------------------------------ MODULE MCWalk --------------------------------
(* Small trees for Walk, written as tables of entry occurrences            *)
(* <<path, parent, d_type, directory opened, device>>. Directory numbers   *)
(* that repeat down a path are the same directory met again.               *)
EXTENDS Walk

Paths(T)     == {r[1] : r \in T}
Row(T, p)    == CHOOSE r \in T : r[1] = p
Column(T, i) == [p \in Paths(T) |-> Row(T, p)[i]]

RECURSIVE Chain(_, _)
Chain(T, p) == IF Row(T, p)[2] = None THEN <<p>>
               ELSE Append(Chain(T, Row(T, p)[2]), p)

Depths(T)  == [p \in Paths(T) |-> Len(Chain(T, p)) - 1]
Aboves(T)  == [p \in Paths(T) |-> Range(Front(Chain(T, p)))]
RootOfs(T) == [p \in Paths(T) |-> Head(Chain(T, p))]

-----------------------------------------------------------------------------
(* Loop: root r is directory 1; its subdirectory d (2) holds a link back   *)
(* to r, unrolled twice, a mount point on device 2 and an excluded         *)
(* directory; l is a link to a file; root s names directory 2 again.       *)
LoopTree ==
    { <<"r", None, "Dir", 1, 1>>,
      <<"r/l", "r", "Symlink", None, 1>>,
      <<"r/d", "r", "Dir", 2, 1>>,
      <<"r/d/mnt", "r/d", "Dir", 3, 2>>,
      <<"r/d/mnt/g", "r/d/mnt", "Other", None, 2>>,
      <<"r/d/x", "r/d", "Dir", 4, 1>>,
      <<"r/d/x/h", "r/d/x", "Other", None, 1>>,
      <<"r/d/up", "r/d", "Symlink", 1, 1>>,
      <<"r/d/up/d", "r/d/up", "Dir", 2, 1>>,
      <<"s", None, "Dir", 2, 1>>,
      <<"s/x", "s", "Dir", 4, 1>>,
      <<"s/up", "s", "Symlink", 1, 1>>,
      <<"s/up/d", "s/up", "Dir", 2, 1>>,
      <<"s/up/d/up", "s/up/d", "Symlink", 1, 1>> }
LoopRoots  == <<"r", "s">>
LoopPath   == Paths(LoopTree)
LoopParent == Column(LoopTree, 2)
LoopType   == Column(LoopTree, 3)
LoopId     == Column(LoopTree, 4)
LoopDev    == Column(LoopTree, 5)
LoopDepth  == Depths(LoopTree)
LoopAbove  == Aboves(LoopTree)
LoopRootOf == RootOfs(LoopTree)
LoopExcl   == {"r/d/x", "s/x"}
-----------------------------------------------------------------------------
(* Plain: two nested directories beside a third, and a root that was       *)
(* replaced by a file after the command line was parsed; a/b and that root *)
(* are the ones whose calls may fail.                                      *)
PlainTree ==
    { <<"a", None, "Dir", 1, 1>>,
      <<"a/b", "a", "Dir", 2, 1>>,
      <<"a/b/c", "a/b", "Dir", 3, 1>>,
      <<"a/b/c/e", "a/b/c", "Other", None, 1>>,
      <<"a/d", "a", "Dir", 4, 1>>,
      <<"a/d/f", "a/d", "Other", None, 1>>,
      <<"z", None, "Other", None, 1>> }
PlainRoots  == <<"z", "a">>
PlainPath   == Paths(PlainTree)
PlainParent == Column(PlainTree, 2)
PlainType   == Column(PlainTree, 3)
PlainId     == Column(PlainTree, 4)
PlainDev    == Column(PlainTree, 5)
PlainDepth  == Depths(PlainTree)
PlainAbove  == Aboves(PlainTree)
PlainRootOf == RootOfs(PlainTree)
PlainFlaky == {"a/b", "z"}

-----------------------------------------------------------------------------
(* Wide: many subdirectories, each with one of its own, so that a walk     *)
(* that is not depth-first holds them all open.                            *)
WideTree ==
    { <<"w", None, "Dir", 1, 1>>,
      <<"w/1", "w", "Dir", 11, 1>>,
      <<"w/2", "w", "Dir", 12, 1>>,
      <<"w/3", "w", "Dir", 13, 1>>,
      <<"w/4", "w", "Dir", 14, 1>>,
      <<"w/5", "w", "Dir", 15, 1>>,
      <<"w/1/s", "w/1", "Dir", 21, 1>>,
      <<"w/2/s", "w/2", "Dir", 22, 1>>,
      <<"w/3/s", "w/3", "Dir", 23, 1>>,
      <<"w/4/s", "w/4", "Dir", 24, 1>>,
      <<"w/5/s", "w/5", "Dir", 25, 1>> }
WideRoots  == <<"w">>
WidePath   == Paths(WideTree)
WideParent == Column(WideTree, 2)
WideType   == Column(WideTree, 3)
WideId     == Column(WideTree, 4)
WideDev    == Column(WideTree, 5)
WideDepth  == Depths(WideTree)
WideAbove  == Aboves(WideTree)
WideRootOf == RootOfs(WideTree)
=============================================================================
