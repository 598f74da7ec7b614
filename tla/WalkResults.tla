----------------------------- MODULE WalkResults -----------------------------
(***************************************************************************)
(* What the invariant of WalkTasks leads to. First the promise: the walk   *)
(* leaves nothing out and implements the sequential Traversal, because     *)
(* whatever is due and not yet noted is in somebody's hands until it is    *)
(* visited or lost to an error. Then the descriptors: every queued or held *)
(* task keeps its parent directory open, and only the LIFO order of the    *)
(* deques bounds how many that are.                                        *)
(***************************************************************************)
EXTENDS WalkTasks

USE DEF queues, scan, reading, history

-----------------------------------------------------------------------------
(* What is owed                                                            *)

\* What the walk owes the visitor: Complete's condition
Owed(q) == \/ IsRoot(q)
           \/ Parent[q] \in visited /\ Expandable(Parent[q]) /\ q \notin Excluded

\* The path whose task leads to q
Via(q) == IF IsRoot(q) THEN q ELSE Parent[q]

\* A root walk_parallel has yet to enqueue
InLoop(q) == \E k \in nextRoot .. Len(Roots) : Roots[k] = q
InQueue(q) == \E t \in Waiting : t.path = Via(q)

\* w is about to visit q, or to read the directory that lists it.
InWork(w, q) ==
    IF IsRoot(q) THEN pc[w] = "self" /\ task[w].path = q
    ELSE \/ pc[w] \in UnreadPc /\ task[w].path = Parent[q]
         \/ pc[w] \in StreamPc /\ q \in todo[w]
         \/ pc[w] = "visit" /\ entry[w] = q

InHand(q) == InLoop(q) \/ InQueue(q) \/ \E w \in Worker : InWork(w, q)

\* Unless the walk quits, nothing that is owed is out of everybody's hands.
Covered == ~quit => \A q \in Path : Owed(q) => q \in Gone \/ InHand(q)

CompleteInv == TaskInv /\ Covered
-----------------------------------------------------------------------------
(* Nothing is dropped                                                      *)

\* A worker without a task gets one only from find_task.
LEMMA FromIdle ==
    ASSUME TypeOK, NEW w \in Worker, Step(w), ~Busy(w), Busy(w)'
    PROVE  \E t \in Waiting : Take(w, t)
<1>0. DOMAIN pc = Worker
  BY DEF TypeOK
<1>1. CASE Pop(w) \/ Steal(w) \/ StealBatchAndPop(w)
  BY <1>1, TakesWaiting
<1>2. CASE CheckQuit(w) \/ PopNone(w) \/ InjectorMiss(w) \/ StealMiss(w) \/ ScanEnd(w) \/ LoadPending(w)
  BY <1>0, <1>2 DEF CheckQuit, PopNone, InjectorMiss, StealMiss, ScanEnd, LoadPending, Goto,
     Busy, BusyPc
<1>3. CASE Opening(w) \/ Reading(w)
  <2>1. Busy(w)
    BY <1>3 DEF Opening, Reading, VisitRoot, CheckDepth, Acquire, AcquireAborted, Open, OpenFails,
       OpenExhausted, OpenAbs, OpenAbsExhausted, ReadFrom, ReadFromFails, NextEntry, SkipEntry,
       ReadError, EndOfDir, Visit, FetchAdd, Push, FetchSub, Busy, BusyPc
  <2> QED BY <2>1
<1> QED BY <1>1, <1>2, <1>3 DEF Step, Finding

\* A worker keeps its task until it is done with it.
LEMMA TaskKept ==
    ASSUME TypeOK, NEW w \in Worker, Step(w), Busy(w), Busy(w)'
    PROVE  task' = task
<1>1. CASE Finding(w)
  <2>1. ~Busy(w)
    BY <1>1 DEF Finding, CheckQuit, Pop, PopNone, StealBatchAndPop, InjectorMiss, Steal,
       StealMiss, ScanEnd, LoadPending, Busy, BusyPc
  <2> QED BY <2>1
<1>2. CASE FetchSub(w)
  BY <1>2 DEF FetchSub, Goto, TypeOK, Busy, BusyPc
<1>3. CASE (Opening(w) \/ Reading(w)) /\ ~FetchSub(w)
  BY <1>3, Zenon DEF Opening, Reading, VisitRoot, CheckDepth, Acquire, AcquireAborted, Open,
     OpenFails, OpenExhausted, OpenAbs, OpenAbsExhausted, Opened, GiveUp, ReadFrom, ReadFromFails,
     NextEntry, SkipEntry, ReadError, EndOfDir, Visit, FetchAdd, Push
<1> QED BY <1>1, <1>2, <1>3 DEF Step

\* A waiting task goes on waiting, or its path is the one its taker starts with.
LEMMA WaitingNext ==
    ASSUME TypeOK, TypeOK', Scope, TasksUnique, NEW w \in Worker, Step(w), NEW t \in Waiting
    PROVE  \/ t \in Waiting'
           \/ task'[w] = t /\ pc'[w] = IF IsRoot(t.path) THEN "self" ELSE "descend"
<1>1. PICK a, i : i # 0 /\ Holds(a, i, t)
  BY ByPlace DEF PartsByPlace
<1>2. GoodTask(t)
  BY <1>1, ByPlace DEF PartsByPlace, Scope
<1>3. t.parent = None <=> IsRoot(t.path)
  BY <1>2, RootIff DEF GoodTask, Task
<1>4. CASE Shuffled(w)
  <2>1. CASE \E b, j : Holds(b, j, t)' /\ j # 0
    BY <2>1, PlacesNext DEF PartsByPlace
  <2>2. CASE Busy(w)' /\ t = task'[w]
    <3>1. CASE Busy(w)
      <4>1. Holds(w, 0, t)
        <5>1. task[w] = t
          BY <2>2, <3>1, TaskKept
        <5> QED BY <3>1, <5>1, HoldsIs DEF FourKinds
      <4> QED BY <1>1, <4>1, ByPlace DEF PartsByPlace
    <3>2. CASE ~Busy(w)
      <4>1. PICK u : Take(w, u)
        BY <2>2, <3>2, FromIdle
      <4>2. task'[w] = u /\ pc'[w] = IF u.parent = None THEN "self" ELSE "descend"
        BY <4>1 DEF Take, Goto, TypeOK
      <4> QED BY <1>3, <2>2, <4>2
    <3> QED BY <3>1, <3>2
  <2> QED BY <1>1, <1>4, <2>1, <2>2 DEF Shuffled
<1>5. CASE Visit(w) /\ pc'[w] = "add"
  <2>1. PICK c : Adds(w, -1, c)
    BY <1>5, VisitAdds
  <2>2. Holds(a, i, t)'
    BY <1>1, <2>1 DEF Adds
  <2> QED BY <1>1, <2>2, PlacesNext DEF PartsByPlace
<1> QED BY <1>4, <1>5, StepMoves

\* The task of a busy worker agrees with the tree.
LEMMA HeldGood ==
    ASSUME TypeOK, Scope, NEW w \in Worker, Busy(w)
    PROVE  GoodTask(task[w]) /\ task[w].path \in Path
<1>1. Holds(w, 0, task[w])
  BY HoldsIs DEF FourKinds
<1>2. GoodTask(task[w])
  BY <1>1, ByPlace DEF PartsByPlace, Scope
<1> QED BY <1>2 DEF GoodTask, Task

\* What is in w's hands is noted by its next step or stays there: descend's early
\* returns either give the entries up or leave a directory that is out of scope.
LEMMA WorkNext ==
    ASSUME TypeOK, TypeOK', Scope, NEW w \in Worker, Step(w), ~quit', ~quit,
           NEW q \in Path, Owed(q), InWork(w, q)
    PROVE  q \in Gone' \/ InWork(w, q)'
<1>0. /\ DOMAIN pc = Worker /\ DOMAIN task = Worker /\ DOMAIN entry = Worker /\ DOMAIN todo = Worker
      /\ InTree(w)
  BY DEF TypeOK, Scope
<1>1. Busy(w) /\ pc[w] \in UnreadPc \cup StreamPc
  BY DEF InWork, Busy, BusyPc, UnreadPc, StreamPc
<1>2. GoodTask(task[w]) /\ task[w].path \in Path
  BY <1>1, HeldGood
<1>3. ~IsRoot(q) => Expandable(Parent[q]) /\ q \notin Excluded /\ q \in Kids(Parent[q])
  BY DEF Owed, Kids
<1> USE <1>0 DEF Goto, UnreadPc, StreamPc
<1>4. CASE Finding(w) \/ FetchSub(w)
  BY <1>1, <1>4 DEF Finding, CheckQuit, Pop, PopNone, StealBatchAndPop, InjectorMiss, Steal,
     StealMiss, ScanEnd, LoadPending, FetchSub
<1>5. CASE VisitRoot(w)
  <2>1. /\ pc[w] = "self" /\ task' = task /\ visited' = visited \cup {task[w].path}
        /\ pc'[w] = "descend"
    BY <1>5 DEF VisitRoot
  <2> QED BY <2>1 DEF InWork, Gone
<1>6. CASE CheckDepth(w)
  <2>1. /\ pc[w] = "descend" /\ task' = task
        /\ pc'[w] \in {"throttle", "open"} \/ (MaxDepth # None /\ task[w].depth >= MaxDepth)
    BY <1>6 DEF CheckDepth
  <2>2. ~IsRoot(q) /\ task[w].path = Parent[q]
    BY <2>1 DEF InWork
  <2>3. MaxDepth # None => ~(task[w].depth >= MaxDepth)
    <3>1. MaxDepth # None => Depth[Parent[q]] < MaxDepth
      BY <1>3, <2>2 DEF Expandable
    <3>2. task[w].depth = Depth[Parent[q]] /\ task[w].depth \in Nat
      BY <1>2, <2>2 DEF GoodTask, Task
    <3> QED BY <3>1, <3>2, ArgsAssumption
  <2> QED BY <2>1, <2>2, <2>3 DEF InWork
<1>7. CASE Acquire(w) \/ AcquireAborted(w)
  <2>1. pc[w] = "throttle" /\ pc'[w] = "open" /\ task' = task
    BY <1>7 DEF Acquire, AcquireAborted
  <2> QED BY <2>1 DEF InWork
<1>8. CASE Open(w) \/ OpenAbs(w)
  <2>1. /\ pc[w] \in {"open", "openabs"} /\ task' = task
        /\ pc'[w] = IF Pruned(task[w]) THEN "sub" ELSE "stream"
    BY <1>8 DEF Open, OpenAbs, Opened
  <2>2. ~IsRoot(q) /\ task[w].path = Parent[q]
    BY <2>1 DEF InWork
  <2>3. ~Pruned(task[w])
    <3>1. PICK t, p : t = task[w] /\ p = Parent[q]
      OBVIOUS
    <3>2. GoodTask(t) /\ t.path = p /\ Expandable(p)
      BY <1>2, <1>3, <2>2, <3>1
    <3>3. ~Pruned(t)
      BY <3>2 DEF GoodTask, Expandable, Pruned
    <3> QED BY <3>1, <3>3
  <2> QED BY <2>1, <2>2, <2>3 DEF InWork
<1>9. CASE OpenFails(w) \/ OpenExhausted(w) \/ OpenAbsExhausted(w) \/ ReadFromFails(w)
  <2>1. /\ pc[w] \in {"open", "openabs", "stream"} /\ task' = task
        /\ pc'[w] = "openabs" \/ lost' = lost \cup Kids(task[w].path)
    BY <1>9 DEF OpenFails, OpenExhausted, OpenAbsExhausted, ReadFromFails, GiveUp
  <2>2. ~IsRoot(q) /\ task[w].path = Parent[q]
    BY <2>1 DEF InWork
  <2> QED BY <1>3, <2>1, <2>2 DEF InWork, Gone
<1>10. CASE ReadFrom(w)
  <2>1. pc[w] = "stream" /\ pc'[w] = "read" /\ task' = task /\ todo'[w] = Kids(task[w].path)
    BY <1>10 DEF ReadFrom
  <2> QED BY <1>3, <2>1 DEF InWork
<1>11. CASE NextEntry(w)
  <2>1. PICK x \in todo[w] :
           /\ todo'[w] = todo[w] \ {x} /\ pc[w] = "read"
           /\ IF x \in Excluded THEN pc' = pc ELSE pc'[w] = "visit" /\ entry'[w] = x
    BY <1>11 DEF NextEntry
  <2>2. ~IsRoot(q) /\ q \in todo[w]
    BY <2>1 DEF InWork
  <2> QED BY <1>3, <2>1, <2>2 DEF InWork
<1>12. CASE SkipEntry(w) \/ ReadError(w) \/ EndOfDir(w)
  <2>1. /\ pc[w] = "read"
        /\ \/ pc'[w] = "read" /\ \E x \in todo[w] : todo'[w] = todo[w] \ {x} /\ lost' = lost \cup {x}
           \/ lost' = lost \cup todo[w]
           \/ todo[w] = {}
    BY <1>12 DEF SkipEntry, ReadError, EndOfDir
  <2>2. ~IsRoot(q) /\ q \in todo[w]
    BY <2>1 DEF InWork
  <2> QED BY <2>1, <2>2 DEF InWork, Gone
<1>13. CASE Visit(w)
  <2>1. /\ pc[w] = "visit" /\ pc'[w] \in {"add", "read"} /\ todo' = todo
        /\ visited' = visited \cup {entry[w]}
    BY <1>13 DEF Visit
  <2>2. ~IsRoot(q) /\ (q \in todo[w] \/ q = entry[w])
    BY <2>1 DEF InWork
  <2> QED BY <2>1, <2>2 DEF InWork, Gone
<1>14. CASE FetchAdd(w) \/ Push(w)
  <2>1. pc[w] \in {"add", "push"} /\ pc'[w] \in {"push", "read"} /\ todo' = todo
    BY <1>14 DEF FetchAdd, Push
  <2>2. ~IsRoot(q) /\ q \in todo[w]
    BY <2>1 DEF InWork
  <2> QED BY <2>1, <2>2 DEF InWork
<1> QED BY <1>4, <1>5, <1>6, <1>7, <1>8, <1>9, <1>10, <1>11, <1>12, <1>13, <1>14
        DEF Step, Opening, Reading

\* A visit that makes entries due takes charge of them: enqueue_children leaves
\* out no directory that descend would read.
LEMMA OwedNew ==
    ASSUME TypeOK, TypeOK', Scope, NEW w \in Worker, Step(w), ~quit', InTree(w), Progress(w),
           NEW q \in Path, Owed(q)', ~Owed(q)
    PROVE  InWork(w, q)' \/ InQueue(q)'
<1>0. DOMAIN pc = Worker
  BY DEF TypeOK
<1>1. /\ ~IsRoot(q) /\ Expandable(Parent[q]) /\ Parent[q] \in visited' /\ Parent[q] \notin visited
  BY DEF Owed, Expandable
<1>2. CASE VisitRoot(w)
  <2>1. task'[w].path = Parent[q] /\ pc'[w] = "descend"
    BY <1>0, <1>1, <1>2 DEF VisitRoot, Goto
  <2> QED BY <1>1, <2>1 DEF InWork, UnreadPc
<1>3. CASE Visit(w)
  <2>1. PICK d : d = entry[w]
    OBVIOUS
  <2>2. /\ pc[w] = "visit" /\ Busy(w) /\ d = Parent[q] /\ d \in Kids(task[w].path)
        /\ pc'[w] = IF Enqueues(w) THEN "add" ELSE "read"
    BY <1>0, <1>1, <1>3, <2>1 DEF Visit, Goto, InTree, Busy, BusyPc
  <2>3. /\ GoodTask(task[w]) /\ task[w].path \in Path
    BY <2>2, HeldGood
  <2>4. Depth[d] = task[w].depth + 1 /\ ~IsRoot(d)
    BY <2>2, <2>3, KidFacts DEF GoodTask
  <2>5. Enqueues(w)
    BY <1>1, <2>1, <2>2, <2>4 DEF Enqueues, Expandable
  <2>6. PICK c : c = ChildTask(w)
    OBVIOUS
  <2>7. Adds(w, -1, c) /\ c.path = d
    BY <1>3, <2>1, <2>2, <2>5, <2>6, VisitAdds DEF ChildTask
  <2>8. c \in Waiting'
    <3>1. Holds(w, -1, c)' /\ -1 # 0
      BY <2>7 DEF Adds
    <3> QED BY <3>1, PlacesNext DEF PartsByPlace
  <2> QED BY <1>1, <2>2, <2>7, <2>8 DEF InQueue, Via
<1>4. CASE ~VisitRoot(w) /\ ~Visit(w)
  <2>1. visited' = visited
    BY <1>4, Zenon DEF Step, Finding, Opening, Reading, CheckQuit, Pop, PopNone,
       StealBatchAndPop, InjectorMiss, Steal, StealMiss, ScanEnd, LoadPending, Take, CheckDepth,
       Acquire, AcquireAborted, Open, OpenFails, OpenExhausted, OpenAbs, OpenAbsExhausted,
       ReadFrom, ReadFromFails, Opened, GiveUp, NextEntry, SkipEntry, ReadError, EndOfDir,
       FetchAdd, Push, FetchSub
  <2> QED BY <1>1, <2>1
<1> QED BY <1>2, <1>3, <1>4

\* A step of a worker leaves nothing uncovered.
LEMMA CoveredStep ==
    ASSUME TypeOK, TypeOK', Scope, Visits, Covered, NEW w \in Worker, Step(w)
    PROVE  Covered'
<1> SUFFICES ASSUME ~quit', NEW q \in Path, Owed(q)'
             PROVE  q \in Gone' \/ InHand(q)'
  BY DEF Covered
<1>0. ~quit
  BY QuitSticks DEF Next
<1>1. TasksUnique /\ InTree(w) /\ Progress(w)
  BY DEF Visits, Scope
<1>2. Notes(w) /\ Local(w)
  BY <1>1, StepNotes, StepLocal
<1>3. Gone \subseteq Gone'
  BY <1>2 DEF Notes, Gone
<1>4. CASE ~Owed(q)
  BY <1>1, <1>4, OwedNew DEF InHand
<1>5. CASE Owed(q) /\ q \in Gone
  BY <1>3, <1>5
<1>6. CASE Owed(q) /\ InLoop(q)
  BY <1>2, <1>6 DEF Local, InLoop, InHand
<1>7. CASE Owed(q) /\ InQueue(q)
  <2>1. PICK t \in Waiting : t.path = Via(q)
    BY <1>7 DEF InQueue
  <2>2. CASE t \in Waiting'
    BY <2>1, <2>2 DEF InHand, InQueue, Via
  <2>3. CASE task'[w] = t /\ pc'[w] = IF IsRoot(t.path) THEN "self" ELSE "descend"
    <3>1. InWork(w, q)'
      BY <2>1, <2>3 DEF InWork, Via, UnreadPc
    <3> QED BY <3>1 DEF InHand
  <2> QED BY <1>1, <2>2, <2>3, WaitingNext
<1>8. ASSUME Owed(q), NEW v \in Worker, InWork(v, q) PROVE q \in Gone' \/ InHand(q)'
  <2>1. CASE v = w
    BY <1>0, <1>8, <2>1, WorkNext DEF InHand
  <2>2. CASE v # w
    <3>1. InWork(v, q)'
      BY <1>2, <1>8, <2>2 DEF InWork, Local
    <3> QED BY <3>1 DEF InHand
  <2> QED BY <2>1, <2>2
<1>9. Owed(q) => q \in Gone \/ InHand(q)
  BY <1>0 DEF Covered
<1> QED BY <1>4, <1>5, <1>6, <1>7, <1>8, <1>9 DEF InHand

\* Nor does a step of walk_parallel's own loop, or of the limiter's clock.
LEMMA CoveredOther ==
    ASSUME TypeOK, TypeOK', Covered,
           EnqueueRoot \/ SkipRoot \/ Spawn \/ Refill \/ Returned \/ UNCHANGED vars
    PROVE  Covered'
<1>1. /\ quit' = quit /\ visited' = visited /\ Gone \subseteq Gone'
      /\ task' = task /\ entry' = entry /\ todo' = todo
      /\ \A v \in Worker : pc'[v] = pc[v] \/ (pc[v] = "new" /\ pc'[v] = "top")
  BY DEF EnqueueRoot, SkipRoot, Spawn, Refill, Returned, vars, Gone, TypeOK
<1> SUFFICES ASSUME ~quit, NEW q \in Path, Owed(q), InHand(q), q \notin Gone
             PROVE  q \in Gone' \/ InHand(q)'
  BY <1>1 DEF Covered, Owed
<1>2. CASE \E v \in Worker : InWork(v, q)
  <2>1. PICK v \in Worker : InWork(v, q)
    BY <1>2
  <2>2. InWork(v, q)'
    BY <1>1, <2>1 DEF InWork, UnreadPc, StreamPc
  <2> QED BY <2>2 DEF InHand
<1>3. CASE InQueue(q)
  <2>1. PICK t \in Waiting : t.path = Via(q)
    BY <1>3 DEF InQueue
  <2>2. PICK a, i : i # 0 /\ Holds(a, i, t)
    BY <2>1, ByPlace DEF PartsByPlace
  <2>3. Holds(a, i, t)'
    <3>1. CASE EnqueueRoot
      <4>1. PICK j, c : Adds(0, j, c)
        BY <3>1, EnqueueRootAdds
      <4> QED BY <2>2, <4>1 DEF Adds
    <3>2. CASE ~EnqueueRoot
      BY <2>2, <3>2, OtherMoves DEF Still
    <3> QED BY <3>1, <3>2
  <2>4. t \in Waiting'
    BY <2>2, <2>3, PlacesNext DEF PartsByPlace
  <2> QED BY <2>1, <2>4 DEF InHand, InQueue, Via
<1>4. CASE InLoop(q)
  <2>1. PICK k \in nextRoot .. Len(Roots) : Roots[k] = q
    BY <1>4 DEF InLoop
  <2>2. nextRoot \in Nat /\ Len(Roots) \in Nat
    BY TreeAssumption, LenProperties DEF TypeOK
  <2>3. CASE nextRoot' = nextRoot
    BY <2>1, <2>3 DEF InHand, InLoop
  <2>4. CASE nextRoot' = nextRoot + 1 /\ k # nextRoot
    <3>1. k \in nextRoot' .. Len(Roots)
      BY <2>1, <2>2, <2>4
    <3> QED BY <2>1, <3>1 DEF InHand, InLoop
  <2>5. CASE SkipRoot /\ k = nextRoot
    BY <2>1, <2>5 DEF SkipRoot, Gone
  <2>6. CASE EnqueueRoot /\ k = nextRoot
    <3>1. IsRoot(q)
      <4>1. DOMAIN Roots = 1 .. Len(Roots)
        BY TreeAssumption, LenProperties
      <4>2. k \in 1 .. Len(Roots)
        BY <2>1, <2>2 DEF TypeOK
      <4> QED BY <2>1, <4>1, <4>2 DEF IsRoot, Range
    <3>2. PICK c : c = RootTask(q)
      OBVIOUS
    <3>3. PICK j : Adds(0, j, c)
      BY <2>1, <2>6, <3>2, EnqueueRootAdds
    <3>4. c \in Waiting' /\ c.path = q
      BY <3>2, <3>3, PlacesNext DEF Adds, PartsByPlace, RootTask
    <3> QED BY <3>1, <3>4 DEF InHand, InQueue, Via
  <2> QED BY <2>3, <2>4, <2>5, <2>6 DEF EnqueueRoot, SkipRoot, Spawn, Refill, Returned, vars
<1> QED BY <1>2, <1>3, <1>4 DEF InHand

\* At the start every entry that is owed is a root of the loop.
LEMMA CoveredInit == Init => Covered
<1> SUFFICES ASSUME Init, NEW q \in Path, IsRoot(q) PROVE InLoop(q)
  BY DEF Init, Covered, Owed, InHand
<1>1. DOMAIN Roots = 1 .. Len(Roots)
  BY TreeAssumption, LenProperties
<1> QED BY <1>1 DEF Init, InLoop, IsRoot, Range

\* Every run keeps what is owed covered.
THEOREM CompleteInvariant == Init /\ [][Next]_vars => []CompleteInv
<1>1. Init => CompleteInv
  BY TaskInit, CoveredInit DEF CompleteInv
<1>2. CompleteInv /\ [Next]_vars => CompleteInv'
  <2> SUFFICES ASSUME CompleteInv, [Next]_vars PROVE CompleteInv'
    OBVIOUS
  <2>1. TaskInv'
    BY TaskNext DEF CompleteInv
  <2>2. TypeOK /\ TypeOK' /\ Scope /\ Visits /\ Covered
    BY <2>1 DEF CompleteInv, TaskInv, WalkInv
  <2>3. Covered'
    <3>1. CASE \E w \in Worker : Step(w)
      BY <2>2, <3>1, CoveredStep
    <3>2. CASE EnqueueRoot \/ SkipRoot \/ Spawn \/ Refill \/ Returned \/ UNCHANGED vars
      BY <2>2, <3>2, CoveredOther
    <3> QED BY <3>1, <3>2 DEF Next
  <2> QED BY <2>1, <2>3 DEF CompleteInv
<1> QED BY <1>1, <1>2, PTL

\* When every worker has left without a Quit, nobody has anything in hand.
LEMMA NothingLeft ==
    ASSUME CompleteInv, AllDone, ~quit, NEW q \in Path, Owed(q)
    PROVE  q \in Gone
<1>0. TypeOK /\ NoEarlyExit /\ NotYetSpawned /\ Covered
  BY DEF CompleteInv, TaskInv, WalkInv
<1>1. 1 \in Worker /\ pc[1] = "done"
  BY WorkerType DEF AllDone
<1>2. Slots = {}
  BY <1>0, <1>1 DEF NoEarlyExit
<1>3. ~InLoop(q)
  <2>1. nextRoot \in Nat /\ Len(Roots) \in Nat
    BY <1>0, TreeAssumption, LenProperties DEF TypeOK
  <2>2. ~(nextRoot <= Len(Roots))
    BY <1>0, <1>1 DEF NotYetSpawned
  <2> QED BY <2>1, <2>2 DEF InLoop
<1>4. ~InQueue(q)
  <2> SUFFICES ASSUME NEW t \in Waiting PROVE FALSE
    BY DEF InQueue
  <2>1. PICK a, i : i # 0 /\ Holds(a, i, t)
    BY ByPlace DEF PartsByPlace
  <2>2. \A v \in Worker : ~Adding(v)
    BY DEF AllDone, Adding
  <2>3. (a = 0 /\ i \in 1 .. Len(injector)) \/ (a \in Worker /\ i \in 1 .. Len(deque[a]))
    BY <1>0, <2>1, <2>2, HoldsIs DEF FourKinds
  <2>4. Slot(a, i) \in Slots
    BY <2>3 DEF Slots, SlotSet
  <2> QED BY <1>2, <2>4
<1>5. \A v \in Worker : ~InWork(v, q)
  BY DEF AllDone, InWork, UnreadPc, StreamPc
<1> QED BY <1>0, <1>3, <1>4, <1>5 DEF Covered, InHand

\* walk_parallel returns without a Quit only when every root and every entry of
\* an in-scope directory was visited, excluded or hidden by an error: stealing,
\* the limiter and the early exits of descend drop nothing.
THEOREM CompleteCorrect == Spec => []Complete
<1>1. CompleteInv => Complete
  BY NothingLeft DEF Complete, Owed, Gone
<1> QED BY <1>1, CompleteInvariant, PTL DEF Spec
-----------------------------------------------------------------------------
(* The refinement                                                          *)

\* A step that shows nothing: same history, same flag, and the walk has
\* returned after it if and only if it had before.
Silent == visited' = visited /\ lost' = lost /\ quit' = quit /\ AllDone' = AllDone

\* A visitor call implements Emit.
LEMMA VisitEmits ==
    ASSUME CompleteInv, NEW w \in Worker, VisitRoot(w) \/ Visit(w)
    PROVE  \E q \in Path : Abstract!Emit(q)
<1>0. TypeOK /\ InTree(w) /\ Progress(w) /\ Scope
  BY DEF CompleteInv, TaskInv, WalkInv, Scope, Visits
<1>1. DOMAIN pc = Worker /\ quit \in BOOLEAN
  BY <1>0 DEF TypeOK
<1>2. ~AllDone /\ AllDone' = AllDone
  <2>1. pc[w] # "done" /\ pc'[w] # "done"
    BY <1>1 DEF VisitRoot, Visit, Goto
  <2> QED BY <2>1 DEF AllDone
<1>3. quit' \in {quit, TRUE} /\ lost' = lost
  BY <1>1 DEF VisitRoot, Visit
<1>4. Busy(w)
  BY DEF VisitRoot, Visit, Busy, BusyPc
<1>5. task[w].path \in Path
  BY <1>0, <1>4, HeldGood
<1>6. CASE VisitRoot(w)
  <2>1. /\ task[w].path \in Path \ (visited \cup lost) /\ task[w].path \in Range(Roots)
        /\ visited' = visited \cup {task[w].path}
    BY <1>0, <1>5, <1>6 DEF VisitRoot, InTree, Progress, IsRoot, Gone
  <2> QED BY <1>2, <1>3, <2>1 DEF Abstract!Emit, Abstract!Due
<1>7. CASE Visit(w)
  <2>1. /\ pc[w] = "visit" /\ entry[w] \in Kids(task[w].path) \ Excluded
        /\ entry[w] \notin visited \cup lost
        /\ Expandable(task[w].path) /\ task[w].path \in visited
        /\ visited' = visited \cup {entry[w]}
    BY <1>0, <1>4, <1>7 DEF Visit, InTree, Progress, Gone, AnchorPc, StreamPc
  <2>2. entry[w] \in Path /\ Parent[entry[w]] = task[w].path
    BY <2>1 DEF Kids
  <2>3. Parent[entry[w]] \in visited \cap ReadableDirs
    BY <1>5, <2>1, <2>2 DEF ReadableDirs
  <2> QED BY <1>2, <1>3, <2>1, <2>2, <2>3 DEF Abstract!Emit, Abstract!Due
<1> QED BY <1>6, <1>7

\* An error, wherever it strikes, implements Lose.
LEMMA ErrorLoses ==
    ASSUME CompleteInv, CompleteInv', NEW w \in Worker,
           \/ OpenFails(w) \/ OpenExhausted(w) \/ OpenAbsExhausted(w) \/ ReadFromFails(w)
           \/ SkipEntry(w) \/ ReadError(w)
    PROVE  Abstract!Lose
<1>0. TypeOK /\ TypeOK' /\ InTree(w) /\ Progress(w) /\ visited' \cap lost' = {}
  BY DEF CompleteInv, TaskInv, WalkInv, Scope, Visits
<1>1. DOMAIN pc = Worker
  BY <1>0 DEF TypeOK
<1>2. ~AllDone /\ AllDone' = AllDone
  <2>1. pc[w] # "done" /\ pc'[w] # "done"
    BY <1>1 DEF OpenFails, OpenExhausted, OpenAbsExhausted, ReadFromFails, GiveUp, SkipEntry,
       ReadError, Goto
  <2> QED BY <2>1 DEF AllDone
<1>3. visited' = visited /\ quit' = quit /\ lost \subseteq lost'
  BY DEF OpenFails, OpenExhausted, OpenAbsExhausted, ReadFromFails, GiveUp, SkipEntry, ReadError
<1>4. lost' \subseteq Path \ visited
  BY <1>0, <1>3 DEF TypeOK
<1> QED BY <1>2, <1>3, <1>4 DEF Abstract!Lose

\* A root that is skipped does, too.
LEMMA SkipRootLoses ==
    ASSUME CompleteInv, CompleteInv', SkipRoot
    PROVE  Abstract!Lose
<1>0. TypeOK' /\ NotYetSpawned /\ visited' \cap lost' = {}
  BY DEF CompleteInv, TaskInv, WalkInv, Visits
<1>1. ~AllDone /\ AllDone' = AllDone
  <2>1. 1 \in Worker /\ pc[1] = "new" /\ pc' = pc
    BY <1>0, WorkerType DEF SkipRoot, NotYetSpawned
  <2> QED BY <2>1 DEF AllDone
<1>2. visited' = visited /\ quit' = quit /\ lost \subseteq lost'
  BY DEF SkipRoot
<1>3. lost' \subseteq Path \ visited
  BY <1>0, <1>2 DEF TypeOK
<1> QED BY <1>1, <1>2, <1>3 DEF Abstract!Lose

\* Nothing is owed once the walk is over.
Settled == AllDone /\ ~quit => \A q \in Path : Owed(q) => q \in Gone

\* So it is in the state a step leads to.
LEMMA SettledNext == CompleteInv' => Settled'
<1>1. CompleteInv => Settled
  BY NothingLeft DEF Settled
<1> QED BY <1>1, PTL

\* Every other step is silent, or is the last worker's exit and implements Return.
LEMMA LastExitReturns ==
    ASSUME CompleteInv, CompleteInv', visited' = visited, lost' = lost, quit' = quit,
           AllDone => AllDone'
    PROVE  Abstract!Return \/ Silent
<1>1. CASE AllDone' = AllDone
  BY <1>1 DEF Silent
<1>2. CASE AllDone' # AllDone
  <2>1. AllDone' = TRUE
    BY <1>2 DEF AllDone
  <2>2. ASSUME ~quit PROVE \A q \in Path : Owed(q)' => q \in Gone'
    BY <2>1, <2>2, SettledNext DEF Settled
  <2>3. quit \/ \A q \in Path : Abstract!Due(q) => q \in visited \cup lost
    BY <2>2 DEF Abstract!Due, Owed, Gone, IsRoot, ReadableDirs, Expandable
  <2> QED BY <2>1, <2>3 DEF Abstract!Return
<1> QED BY <1>1, <1>2

\* The steps that neither visit nor lose anything.
LEMMA OtherSteps ==
    ASSUME CompleteInv, CompleteInv', [Next]_vars, ~SkipRoot,
           \A w \in Worker : /\ ~VisitRoot(w) /\ ~Visit(w) /\ ~OpenFails(w) /\ ~OpenExhausted(w)
                             /\ ~OpenAbsExhausted(w) /\ ~ReadFromFails(w) /\ ~SkipEntry(w)
                             /\ ~ReadError(w)
    PROVE  Abstract!Return \/ Silent
<1>0. TypeOK /\ 1 \in Worker
  BY WorkerType DEF CompleteInv, TaskInv, WalkInv
<1>1. CASE EnqueueRoot \/ Refill \/ Returned \/ UNCHANGED vars
  <2>1. visited' = visited /\ lost' = lost /\ quit' = quit /\ pc' = pc
    BY <1>1 DEF EnqueueRoot, Refill, Returned, vars
  <2>2. AllDone => AllDone'
    BY <2>1 DEF AllDone
  <2> QED BY <2>1, <2>2, LastExitReturns
<1>2. CASE Spawn
  <2>1. visited' = visited /\ lost' = lost /\ quit' = quit /\ ~AllDone
    BY <1>0, <1>2 DEF Spawn, AllDone
  <2> QED BY <2>1, LastExitReturns
<1>3. ASSUME NEW w \in Worker, Step(w) PROVE Abstract!Return \/ Silent
  <2>1. /\ visited' = visited /\ lost' = lost /\ quit' = quit
    BY <1>3, Zenon DEF Step, Finding, Opening, Reading, CheckQuit, Pop, PopNone,
       StealBatchAndPop, InjectorMiss, Steal, StealMiss, ScanEnd, LoadPending, Take, CheckDepth,
       Acquire, AcquireAborted, Open, OpenAbs, ReadFrom, Opened, NextEntry, EndOfDir,
       FetchAdd, Push, FetchSub
  <2>2. pc[w] # "done"
    BY <1>3 DEF Step, Finding, Opening, Reading, CheckQuit, Pop, PopNone, StealBatchAndPop,
       InjectorMiss, Steal, StealMiss, ScanEnd, LoadPending, VisitRoot, CheckDepth, Acquire,
       AcquireAborted, Open, OpenFails, OpenExhausted, OpenAbs, OpenAbsExhausted, ReadFrom,
       ReadFromFails, NextEntry, SkipEntry, ReadError, EndOfDir, Visit, FetchAdd, Push, FetchSub
  <2>3. ~AllDone
    BY <2>2 DEF AllDone
  <2> QED BY <2>1, <2>3, LastExitReturns
<1> QED BY <1>1, <1>2, <1>3 DEF Next

\* walk_parallel implements the sequential promise of Traversal: its visitor
\* calls are Emit steps, its I/O errors Lose steps, the exit of its last worker
\* the Return step, and all its queueing, stealing and counting is invisible.
THEOREM ImplementsCorrect == Spec => Implements
<1>1. Init => Abstract!AInit
  <2>1. 1 \in Worker
    BY WorkerType
  <2>2. Init => AllDone = FALSE
    BY <2>1 DEF Init, AllDone
  <2> QED BY <2>2 DEF Init, Abstract!AInit
<1>2. CompleteInv /\ CompleteInv' /\ [Next]_vars => [Abstract!ANext]_(Abstract!avars)
  <2> SUFFICES ASSUME CompleteInv, CompleteInv', [Next]_vars
               PROVE  [Abstract!ANext]_(Abstract!avars)
    OBVIOUS
  <2>1. CASE \E w \in Worker : VisitRoot(w) \/ Visit(w)
    <3>1. \E q \in Path : Abstract!Emit(q)
      BY <2>1, VisitEmits
    <3> QED BY <3>1 DEF Abstract!ANext
  <2>2. CASE \E w \in Worker : \/ OpenFails(w) \/ OpenExhausted(w) \/ OpenAbsExhausted(w)
                               \/ ReadFromFails(w) \/ SkipEntry(w) \/ ReadError(w)
    <3>1. Abstract!Lose
      BY <2>2, ErrorLoses
    <3> QED BY <3>1 DEF Abstract!ANext
  <2>3. CASE SkipRoot
    <3>1. Abstract!Lose
      BY <2>3, SkipRootLoses
    <3> QED BY <3>1 DEF Abstract!ANext
  <2>4. CASE Abstract!Return \/ Silent
    BY <2>4 DEF Abstract!ANext, Abstract!avars, Silent
  <2> QED BY <2>1, <2>2, <2>3, <2>4, OtherSteps
<1> QED BY <1>1, <1>2, CompleteInvariant, PTL DEF Spec, Implements, Abstract!ASpec

-----------------------------------------------------------------------------
(* The descriptors                                                         *)

\* The ancestors of p are a chain: one per depth, all above p.
Chain(p) ==
    /\ \A x \in Above[p] : Depth[x] < Depth[p]
    /\ \A x, y \in Above[p] : Depth[x] = Depth[y] => x = y

\* What t pins is an ancestor of p.
PinsAbove(t, p) == t.parent = None \/ t.parent \in Above[p]

EmptyPc == {"inject", "scan", "load"}

\* A worker's deque is a stack along one path of the tree: every task lies below
\* the directories that the older ones pin, and so does the task it works on.
Stack(w) ==
    /\ \A i \in 1 .. Len(deque[w]) : Chain(deque[w][i].path)
    /\ \A i, j \in 1 .. Len(deque[w]) :
          i < j => PinsAbove(deque[w][i], deque[w][j].path)
    /\ Busy(w) =>
          /\ Chain(task[w].path)
          /\ \A i \in 1 .. Len(deque[w]) :
                PinsAbove(deque[w][i], task[w].path) \/ deque[w][i].parent = task[w].path
    /\ pc[w] \in EmptyPc => deque[w] = <<>>

\* The injector holds the tasks of roots, which pin nothing.
RootsOnly == \A i \in 1 .. Len(injector) : IsRoot(injector[i].path)

FdInv == TaskInv /\ RootsOnly /\ \A w \in Worker : Stack(w)
-----------------------------------------------------------------------------
(* Finite sets of naturals                                                 *)

HasMax(S) == \E x \in S : \A y \in S : x >= y

\* A finite set of naturals has a greatest element: a smallest one without would
\* lose an element and still be without.
LEMMA FiniteHasMax ==
    ASSUME NEW S \in SUBSET Nat, IsFiniteSet(S), S # {}
    PROVE  HasMax(S)
<1> DEFINE T == {U \in FiniteSubsetsOf(Nat) : U # {} /\ ~HasMax(U)}
<1> SUFFICES ASSUME ~HasMax(S) PROVE FALSE
  OBVIOUS
<1>1. S \in T
  BY DEF FiniteSubsetsOf
<1>2. PICK U \in T : \A V \in T : ~(<<V, U>> \in StrictSubsetOrdering(Nat))
  <2>1. IsWellFoundedOn(StrictSubsetOrdering(Nat), FiniteSubsetsOf(Nat))
    BY FS_StrictSubsetOrderingWellFounded
  <2>2. T \subseteq FiniteSubsetsOf(Nat) /\ T # {}
    BY <1>1
  <2> HIDE DEF T
  <2> QED BY <2>1, <2>2, WFMin
<1>3. U \in SUBSET Nat /\ IsFiniteSet(U) /\ U # {} /\ ~HasMax(U)
  BY DEF FiniteSubsetsOf
<1>4. PICK x \in U : TRUE
  BY <1>3
<1>5. IsFiniteSet(U \ {x})
  BY <1>3, FS_RemoveElement
<1>6. <<U \ {x}, U>> \in StrictSubsetOrdering(Nat)
  BY <1>3, <1>4 DEF StrictSubsetOrdering
<1>7. U \ {x} \notin T
  BY <1>2, <1>6
<1>8. U \ {x} = {} \/ HasMax(U \ {x})
  BY <1>3, <1>5, <1>7 DEF FiniteSubsetsOf
<1>9. HasMax(U)
  BY <1>3, <1>4, <1>8 DEF HasMax
<1> QED BY <1>3, <1>9

\* DirDepth is a natural number that no readable directory exceeds.
LEMMA DirDepthBounds == DirDepth \in Nat /\ \A p \in ReadableDirs : Depth[p] <= DirDepth
<1> DEFINE D == {Depth[p] : p \in ReadableDirs}
           S == {0} \cup D
<1>1. D \in SUBSET Nat /\ IsFiniteSet(D)
  <2>1. IsFiniteSet(ReadableDirs) /\ ReadableDirs \subseteq Path
    BY TreeAssumption, FS_Subset DEF ReadableDirs
  <2>2. [p \in ReadableDirs |-> Depth[p]] \in Surjection(ReadableDirs, D)
    BY DEF Surjection
  <2>3. IsFiniteSet(D)
    <3> HIDE DEF D
    <3> QED BY <2>1, <2>2, FS_Surjection
  <2> QED BY <2>1, <2>3, TreeAssumption
<1>2. S \in SUBSET Nat /\ IsFiniteSet(S) /\ S # {}
  <2> HIDE DEF D
  <2>1. IsFiniteSet(D \cup {0})
    BY <1>1, FS_AddElement
  <2>2. S = D \cup {0}
    OBVIOUS
  <2> QED BY <1>1, <2>1, <2>2
<1>3. HasMax(S)
  <2> HIDE DEF S
  <2> QED BY <1>2, FiniteHasMax
<1>4. DirDepth = CHOOSE x \in S : \A y \in S : x >= y
  BY DEF DirDepth, Max
<1>5. DirDepth \in S /\ \A y \in S : DirDepth >= y
  <2> HIDE DEF S
  <2> QED BY <1>3, <1>4 DEF HasMax
<1>6. \A p \in ReadableDirs : Depth[p] \in S
  OBVIOUS
<1> HIDE DEF S
<1> QED BY <1>2, <1>5, <1>6
-----------------------------------------------------------------------------
(* Counting                                                                *)

\* The directories kept open by w's stream and by the tasks in its hands
Pinned(w) ==
    ((IF pc[w] \in AnchorPc THEN {task[w].path} ELSE {})
     \cup (IF Busy(w) THEN {task[w].parent} ELSE {})
     \cup {deque[w][i].parent : i \in 1 .. Len(deque[w])}) \ {None}

\* What a good task pins is readable, and above the task's path.
LEMMA GoodPins ==
    ASSUME NEW t, GoodTask(t), t.parent # None
    PROVE  t.parent \in ReadableDirs /\ t.parent \in Above[t.path]
<1>1. t.path \in Path /\ t.parent = Parent[t.path] /\ ~IsRoot(t.path)
  BY RootIff DEF GoodTask, Task
<1>2. Parent[t.path] \in Path /\ Above[t.path] = Above[Parent[t.path]] \cup {Parent[t.path]}
  BY <1>1, TreeAssumption
<1> QED BY <1>1, <1>2 DEF GoodTask, ReadableDirs

\* The tasks in a worker's hands are good.
LEMMA HandsGood ==
    ASSUME TypeOK, Scope, NEW w \in Worker
    PROVE  /\ Busy(w) => GoodTask(task[w])
           /\ \A i \in 1 .. Len(deque[w]) : GoodTask(deque[w][i])
           /\ \A i \in 1 .. Len(injector) : GoodTask(injector[i])
<1>1. \A a, i, t : Holds(a, i, t) => GoodTask(t)
  BY ByPlace DEF PartsByPlace, Scope
<1>2. FourKinds
  BY HoldsIs
<1>3. Busy(w) => Holds(w, 0, task[w])
  BY <1>2 DEF FourKinds
<1>4. \A i \in 1 .. Len(deque[w]) : Holds(w, i, deque[w][i])
  BY <1>2 DEF FourKinds
<1>5. \A i \in 1 .. Len(injector) : Holds(0, i, injector[i])
  BY <1>2 DEF FourKinds
<1> QED BY <1>1, <1>3, <1>4, <1>5

\* A worker pins at most one directory of each depth.
LEMMA OnePerDepth ==
    ASSUME FdInv, NEW w \in Worker
    PROVE  /\ Pinned(w) \subseteq ReadableDirs
           /\ \A x, y \in Pinned(w) : Depth[x] = Depth[y] => x = y
<1>0. TypeOK /\ Scope /\ Stack(w) /\ InTree(w)
  BY DEF FdInv, TaskInv, WalkInv, Scope
<1>1. /\ Busy(w) => GoodTask(task[w]) /\ task[w].path \in Path
      /\ \A i \in 1 .. Len(deque[w]) : GoodTask(deque[w][i])
  BY <1>0, HandsGood DEF GoodTask, Task
<1>2. pc[w] \in AnchorPc => Busy(w) /\ Expandable(task[w].path)
  BY <1>0 DEF InTree, AnchorPc, StreamPc, Busy, BusyPc
<1>3. Pinned(w) \subseteq ReadableDirs
  <2> SUFFICES ASSUME NEW x \in Pinned(w) PROVE x \in ReadableDirs
    OBVIOUS
  <2>1. CASE pc[w] \in AnchorPc /\ x = task[w].path
    BY <1>1, <1>2, <2>1 DEF ReadableDirs
  <2>2. CASE Busy(w) /\ x = task[w].parent
    BY <1>1, <2>2, GoodPins DEF Pinned
  <2>3. CASE \E i \in 1 .. Len(deque[w]) : x = deque[w][i].parent
    BY <1>1, <2>3, GoodPins DEF Pinned
  <2> QED BY <2>1, <2>2, <2>3 DEF Pinned
<1>4. PICK C : /\ Pinned(w) \subseteq C
               /\ \A x, y \in C : Depth[x] = Depth[y] => x = y
  <2>1. CASE Busy(w)
    <3>1. PICK p : p = task[w].path
      OBVIOUS
    <3>2. /\ \A x \in Above[p] : Depth[x] < Depth[p]
          /\ \A x, y \in Above[p] : Depth[x] = Depth[y] => x = y
      BY <1>0, <2>1, <3>1 DEF Stack, Chain
    <3>3. Depth[p] \in Nat
      BY <1>1, <2>1, <3>1, TreeAssumption
    <3>4. \A x, y \in Above[p] \cup {p} : Depth[x] = Depth[y] => x = y
      BY <3>2, <3>3
    <3>5. task[w].parent # None => task[w].parent \in Above[p]
      BY <1>1, <2>1, <3>1, GoodPins
    <3>6. \A i \in 1 .. Len(deque[w]) : deque[w][i].parent \in Above[p] \cup {p, None}
      BY <1>0, <2>1, <3>1 DEF Stack, PinsAbove
    <3>7. Pinned(w) \subseteq Above[p] \cup {p}
      BY <3>1, <3>5, <3>6 DEF Pinned
    <3> QED BY <3>4, <3>7
  <2>2. CASE ~Busy(w)
    <3>0. Len(deque[w]) \in Nat
      BY <1>0, LenProperties DEF TypeOK
    <3>1. Pinned(w) = {deque[w][i].parent : i \in 1 .. Len(deque[w])} \ {None}
      BY <1>2, <2>2 DEF Pinned
    <3>2. CASE Len(deque[w]) = 0
      <4>1. Pinned(w) \subseteq {}
        BY <3>1, <3>2
      <4> QED BY <4>1
    <3>3. CASE Len(deque[w]) # 0
      <4>1. PICK n, p : n = Len(deque[w]) /\ p = deque[w][n].path
        OBVIOUS
      <4>2. n \in Nat /\ n \in 1 .. n
        BY <3>0, <3>3, <4>1
      <4>3. \A x, y \in Above[p] : Depth[x] = Depth[y] => x = y
        BY <1>0, <4>1, <4>2 DEF Stack, Chain
      <4>4. ASSUME NEW i \in 1 .. n PROVE deque[w][i].parent \in Above[p] \cup {None}
        <5>1. CASE i = n
          BY <1>1, <4>1, <4>2, <5>1, GoodPins
        <5>2. CASE i < n
          BY <1>0, <4>1, <4>2, <5>2 DEF Stack, PinsAbove
        <5> QED BY <4>2, <5>1, <5>2
      <4>5. Pinned(w) \subseteq Above[p]
        BY <3>1, <4>1, <4>4
      <4> QED BY <4>3, <4>5
    <3> QED BY <3>2, <3>3
  <2> QED BY <2>1, <2>2
<1> QED BY <1>3, <1>4

\* Every open directory is pinned by some worker.
LEMMA OpenArePinned ==
    ASSUME FdInv
    PROVE  \A x \in OpenDirs : \E w \in Worker : x \in Pinned(w)
<1>0. TypeOK /\ Scope /\ RootsOnly /\ 1 \in Worker
  BY WorkerType DEF FdInv, TaskInv, WalkInv
<1> SUFFICES ASSUME NEW x \in OpenDirs PROVE \E w \in Worker : x \in Pinned(w)
  OBVIOUS
<1>1. CASE \E w \in Worker : pc[w] \in AnchorPc /\ x = task[w].path
  <2>1. PICK w \in Worker : pc[w] \in AnchorPc /\ x = task[w].path
    BY <1>1
  <2>2. Busy(w)
    BY <2>1 DEF AnchorPc, StreamPc, Busy, BusyPc
  <2>3. x \in Path
    BY <1>0, <2>1, <2>2, HandsGood DEF GoodTask, Task
  <2>4. x # None
    BY <2>3, TreeAssumption
  <2> QED BY <2>1, <2>4 DEF Pinned
<1>2. CASE x # None /\ \E t \in QueuedTask \cup HeldTask : x = t.parent
  <2>1. PICK t \in QueuedTask \cup HeldTask : x = t.parent
    BY <1>2
  <2>2. CASE t \in HeldTask
    <3>1. PICK w \in Worker : Busy(w) /\ t = task[w]
      BY <2>2 DEF HeldTask
    <3> QED BY <1>2, <2>1, <3>1 DEF Pinned
  <2>3. CASE t \in Range(injector)
    <3>1. PICK i \in 1 .. Len(injector) : t = injector[i]
      BY <1>0, <2>3, LenProperties DEF TypeOK, Range
    <3>2. GoodTask(t) /\ IsRoot(t.path)
      BY <1>0, <3>1, HandsGood DEF RootsOnly
    <3>3. t.parent = None
      BY <3>2, RootFacts DEF GoodTask, Task
    <3> QED BY <1>2, <2>1, <3>3
  <2>4. CASE \E w \in Worker : t \in Range(deque[w])
    <3>1. PICK w \in Worker : t \in Range(deque[w])
      BY <2>4
    <3>2. PICK i \in 1 .. Len(deque[w]) : t = deque[w][i]
      BY <1>0, <3>1, LenProperties DEF TypeOK, Range
    <3> QED BY <1>2, <2>1, <3>1, <3>2 DEF Pinned
  <2> QED BY <2>1, <2>2, <2>3, <2>4 DEF QueuedTask
<1> QED BY <1>1, <1>2 DEF OpenDirs

\* The descriptors open at one time: a directory per worker and depth, and a
\* stream per worker.
LEMMA FdInvBounds == FdInv => FdBound
<1> SUFFICES ASSUME FdInv PROVE FdBound
  OBVIOUS
<1> DEFINE P == Worker \X (0 .. DirDepth)
           owner(x) == CHOOSE w \in Worker : x \in Pinned(w)
           f == [x \in OpenDirs |-> <<owner(x), Depth[x]>>]
<1>0. NWorkers \in Nat \ {0} /\ Worker = 1 .. NWorkers /\ DirDepth \in Nat
  BY WorkerType, DirDepthBounds
<1>1. IsFiniteSet(Worker) /\ Cardinality(Worker) = NWorkers
  BY <1>0, FS_Interval
<1>2. IsFiniteSet(0 .. DirDepth) /\ Cardinality(0 .. DirDepth) = DirDepth + 1
  BY <1>0, FS_Interval
<1>3. IsFiniteSet(P) /\ Cardinality(P) = NWorkers * (DirDepth + 1)
  BY <1>1, <1>2, FS_Product
<1>4. \A x \in OpenDirs : owner(x) \in Worker /\ x \in Pinned(owner(x))
  BY OpenArePinned
<1>5. \A x \in OpenDirs : Depth[x] \in 0 .. DirDepth
  <2> SUFFICES ASSUME NEW x \in OpenDirs PROVE Depth[x] \in 0 .. DirDepth
    OBVIOUS
  <2>1. PICK w \in Worker : x \in Pinned(w)
    BY OpenArePinned
  <2>2. x \in ReadableDirs /\ x \in Path
    BY <2>1, OnePerDepth DEF ReadableDirs
  <2>3. Depth[x] \in Nat /\ Depth[x] <= DirDepth
    BY <2>2, DirDepthBounds, TreeAssumption
  <2> QED BY <1>0, <2>3
<1> HIDE DEF owner
<1>6. f \in [OpenDirs -> P]
  BY <1>4, <1>5
<1>7. ASSUME NEW x \in OpenDirs, NEW y \in OpenDirs, f[x] = f[y] PROVE x = y
  <2>1. owner(x) = owner(y) /\ Depth[x] = Depth[y]
    BY <1>7
  <2>2. owner(x) \in Worker /\ x \in Pinned(owner(x)) /\ y \in Pinned(owner(x))
    BY <1>4, <2>1
  <2> QED BY <2>1, <2>2, OnePerDepth
<1> HIDE DEF f, P
<1>8. f \in Injection(OpenDirs, P)
  BY <1>6, <1>7 DEF Injection, IsInjective
<1>9. IsFiniteSet(OpenDirs) /\ Cardinality(OpenDirs) <= NWorkers * (DirDepth + 1)
  BY <1>3, <1>8, FS_Injection
<1>10. Cardinality(OpenDirs) \in Nat
  BY <1>9, FS_CardinalityType
<1>11. IsFiniteSet(Streams) /\ Cardinality(Streams) <= NWorkers
  BY <1>1, FS_Subset DEF Streams
<1>12. Cardinality(Streams) \in Nat
  BY <1>11, FS_CardinalityType
<1>13. NWorkers * (DirDepth + 1) + NWorkers = NWorkers * (DirDepth + 2)
  BY <1>0
<1>14. NWorkers * (DirDepth + 1) \in Nat /\ NWorkers * (DirDepth + 2) \in Nat
  BY <1>0
<1> QED BY <1>0, <1>9, <1>10, <1>11, <1>12, <1>13, <1>14 DEF FdBound, OpenFds
-----------------------------------------------------------------------------
(* The stacks are kept                                                     *)

\* A root has no ancestors.
LEMMA RootChain ==
    ASSUME NEW t, GoodTask(t), IsRoot(t.path)
    PROVE  t.parent = None /\ Chain(t.path)
<1>1. t.path \in Path /\ t.parent = Parent[t.path]
  BY DEF GoodTask, Task
<1> QED BY <1>1, RootFacts DEF Chain

\* The chain of an entry is that of its directory and the directory itself.
LEMMA KidChain ==
    ASSUME NEW p \in Path, NEW q \in Kids(p), Chain(p)
    PROVE  Chain(q) /\ Above[q] = Above[p] \cup {p}
<1>1. Depth[q] = Depth[p] + 1 /\ Above[q] = Above[p] \cup {p}
  BY KidFacts
<1>2. Depth \in [Path -> Nat] /\ Above[p] \subseteq Path
  BY TreeAssumption
<1>3. Depth[p] \in Nat /\ \A x \in Above[p] : Depth[x] \in Nat /\ Depth[x] < Depth[p]
  BY <1>2 DEF Chain
<1>4. \A x, y \in Above[p] : Depth[x] = Depth[y] => x = y
  BY DEF Chain
<1>5. \A x \in Above[q] : Depth[x] < Depth[q]
  BY <1>1, <1>3
<1>6. \A x, y \in Above[q] : Depth[x] = Depth[y] => x = y
  BY <1>1, <1>3, <1>4
<1> QED BY <1>1, <1>5, <1>6 DEF Chain

\* A worker whose deque and task stay as they are keeps its stack.
LEMMA StackSame ==
    ASSUME NEW v \in Worker, Stack(v), deque'[v] = deque[v],
           Busy(v)' => Busy(v) /\ task'[v] = task[v],
           pc'[v] \in EmptyPc => deque[v] = <<>>
    PROVE  Stack(v)'
BY DEF Stack

\* local.pop() leaves the tasks below the one it answers.
LEMMA StackPop ==
    ASSUME TypeOK, NEW w \in Worker, Stack(w), Pop(w)
    PROVE  Stack(w)'
<1>1. PICK n : n = Len(deque[w])
  OBVIOUS
<1>2. deque[w] \in Seq(Task) /\ deque[w] # <<>> /\ n \in Nat \ {0}
  BY <1>1, FrontLast DEF Pop, TypeOK
<1>3. /\ Len(Front(deque[w])) = n - 1
      /\ \A i \in 1 .. n - 1 : Front(deque[w])[i] = deque[w][i]
      /\ Last(deque[w]) = deque[w][n]
  <2>1. \A i \in 1 .. n - 1 : Front(deque[w])[i] = deque[w][i]
    BY <1>1, <1>2, SubSeqProperties DEF Front
  <2> QED BY <1>1, <1>2, <2>1, FrontLast DEF Last
<1>4. /\ deque'[w] = Front(deque[w]) /\ task'[w] = deque[w][n] /\ pc'[w] \in {"self", "descend"}
  <2>1. DOMAIN deque = Worker /\ DOMAIN task = Worker /\ DOMAIN pc = Worker
    BY DEF TypeOK
  <2> QED BY <1>3, <2>1 DEF Pop, Take, Goto
<1>5. /\ Len(deque'[w]) = n - 1 /\ \A i \in 1 .. n - 1 : deque'[w][i] = deque[w][i]
  BY <1>3, <1>4
<1>6. /\ \A i \in 1 .. n : Chain(deque[w][i].path)
      /\ \A i, j \in 1 .. n : i < j => PinsAbove(deque[w][i], deque[w][j].path)
  BY <1>1 DEF Stack
<1>7. /\ \A i \in 1 .. n - 1 : i \in 1 .. n /\ i < n
      /\ n \in 1 .. n
  BY <1>2
<1> QED BY <1>4, <1>5, <1>6, <1>7 DEF Stack, EmptyPc

\* A thief starts a stack of its own with one task; its victim's loses its oldest.
LEMMA StackSteal ==
    ASSUME TypeOK, NEW w \in Worker, Steal(w), NEW u \in Worker, u = victim[w],
           Stack(w), Stack(u)
    PROVE  Stack(w)' /\ Stack(u)' /\ \A v \in Worker : v # u => deque'[v] = deque[v]
<1>0. u = victim[w]
  OBVIOUS
<1>1. PICK n : n = Len(deque[u])
  OBVIOUS
<1>2. deque[w] = <<>> /\ u # w
  BY <1>0 DEF Steal, Stack, EmptyPc
<1>3. deque[u] \in Seq(Task) /\ deque[u] # <<>> /\ n \in Nat \ {0}
  BY <1>0, <1>1, FrontLast DEF Steal, TypeOK
<1>4. /\ Len(Tail(deque[u])) = n - 1
      /\ \A i \in 1 .. n - 1 : Tail(deque[u])[i] = deque[u][i + 1]
      /\ Head(deque[u]) = deque[u][1]
  BY <1>1, <1>3, HeadTailProperties
<1>5. /\ deque'[u] = Tail(deque[u]) /\ \A v \in Worker : v # u => deque'[v] = deque[v]
      /\ task'[w] = deque[u][1] /\ pc'[w] \in {"self", "descend"}
      /\ pc'[u] = pc[u] /\ task'[u] = task[u]
  <2>1. DOMAIN deque = Worker /\ DOMAIN task = Worker /\ DOMAIN pc = Worker
    BY DEF TypeOK
  <2> QED BY <1>0, <1>2, <1>4, <2>1 DEF Steal, Take, Goto
<1>6. /\ \A i \in 1 .. n : Chain(deque[u][i].path)
      /\ \A i, j \in 1 .. n : i < j => PinsAbove(deque[u][i], deque[u][j].path)
  BY <1>0, <1>1 DEF Stack
<1>7. Stack(w)'
  <2>1. deque'[w] = <<>> /\ Len(<<>>) = 0
    BY <1>2, <1>5, EmptySeq
  <2>2. Chain(task'[w].path)
    BY <1>3, <1>5, <1>6
  <2> QED BY <1>5, <2>1, <2>2 DEF Stack, EmptyPc
<1>8. Stack(u)'
  <2>1. \A i \in 1 .. n - 1 : i + 1 \in 1 .. n
    BY <1>3
  <2>2. \A i \in 1 .. n - 1 : deque'[u][i] = deque[u][i + 1]
    BY <1>4, <1>5
  <2>3. \A i, j \in 1 .. n - 1 : i < j => i + 1 < j + 1
    BY <1>3
  <2>4. Len(deque'[u]) = n - 1
    BY <1>4, <1>5
  <2>5. \A i \in 1 .. n - 1 : Chain(deque'[u][i].path)
    BY <1>6, <2>1, <2>2
  <2>6. \A i, j \in 1 .. n - 1 : i < j => PinsAbove(deque'[u][i], deque'[u][j].path)
    BY <1>6, <2>1, <2>2, <2>3
  <2>7. Busy(u) => /\ Chain(task[u].path)
                   /\ \A i \in 1 .. n - 1 : \/ PinsAbove(deque'[u][i], task[u].path)
                                            \/ deque'[u][i].parent = task[u].path
    BY <1>0, <1>1, <2>1, <2>2 DEF Stack
  <2>8. pc[u] \notin EmptyPc
    BY <1>0, <1>3 DEF Stack
  <2> QED BY <1>5, <2>4, <2>5, <2>6, <2>7, <2>8 DEF Stack, Busy
<1> QED BY <1>0, <1>5, <1>7, <1>8

\* A batch from the injector is a stack of roots.
LEMMA StackBatch ==
    ASSUME TypeOK, Scope, RootsOnly, NEW w \in Worker, Stack(w), StealBatchAndPop(w)
    PROVE  Stack(w)' /\ RootsOnly'
<1>0. PICK n : n = Len(injector)
  OBVIOUS
<1>1. /\ injector \in Seq(Task) /\ injector # <<>> /\ n \in Nat \ {0}
      /\ deque[w] \in Seq(Task) /\ deque[w] = <<>> /\ Len(deque[w]) = 0
  BY <1>0, FrontLast, EmptySeq DEF StealBatchAndPop, TypeOK, Stack, EmptyPc
<1>2. PICK k \in 0 .. n - 1 :
         /\ deque' = [deque EXCEPT ![w] = deque[w] \o Reverse(SubSeq(injector, 2, k + 1))]
         /\ injector' = SubSeq(injector, k + 2, Len(injector))
  BY <1>0 DEF StealBatchAndPop
<1>3. /\ deque'[w] = deque[w] \o Reverse(SubSeq(injector, 2, k + 1))
      /\ task'[w] = Head(injector) /\ pc'[w] \in {"self", "descend"}
  <2>1. DOMAIN deque = Worker /\ DOMAIN task = Worker /\ DOMAIN pc = Worker
    BY DEF TypeOK
  <2> QED BY <1>2, <2>1 DEF StealBatchAndPop, Take, Goto
<1>4. /\ Len(injector') = n - (k + 1) /\ \A i \in 1 .. n - (k + 1) : injector'[i] = injector[i + k + 1]
      /\ Len(deque'[w]) = 0 + k /\ \A i \in 0 + 1 .. 0 + k : deque'[w][i] = injector[0 + k + 2 - i]
      /\ task'[w] = injector[1]
  <2>1. k \in 0 .. Len(injector) - 1
    BY <1>0
  <2>2. BatchOutcome(injector, k, deque[w])
    BY <1>1, <2>1, BatchElements, Zenon
  <2>3. Head(injector) = injector[1]
    BY <1>1
  <2> QED BY <1>0, <1>1, <1>2, <1>3, <2>2, <2>3, Zenon DEF BatchOutcome
<1>5. \A i \in 1 .. n : /\ injector[i].parent = None /\ Chain(injector[i].path)
                        /\ IsRoot(injector[i].path)
  BY <1>0, HandsGood, RootChain DEF RootsOnly
<1>6. \A i \in 1 .. k : k + 2 - i \in 1 .. n /\ deque'[w][i] = injector[k + 2 - i]
  BY <1>1, <1>4
<1>7. \A i \in 1 .. k : deque'[w][i].parent = None /\ Chain(deque'[w][i].path)
  BY <1>5, <1>6
<1>8. RootsOnly'
  <2>1. \A i \in 1 .. n - (k + 1) : i + k + 1 \in 1 .. n
    BY <1>1
  <2> QED BY <1>4, <1>5, <2>1 DEF RootsOnly
<1>9. Len(deque'[w]) = k /\ Chain(task'[w].path)
  BY <1>1, <1>4, <1>5
<1> QED BY <1>3, <1>7, <1>8, <1>9 DEF Stack, PinsAbove, EmptyPc

\* A pushed task lies below its directory, as that lies below the older pins.
LEMMA StackPush ==
    ASSUME TypeOK, Scope, NEW w \in Worker, Stack(w), Push(w)
    PROVE  Stack(w)'
<1>0. PICK n, c, p, q : n = Len(deque[w]) /\ c = ChildTask(w) /\ p = task[w].path /\ q = entry[w]
  OBVIOUS
<1>1. n \in Nat /\ deque[w] \in Seq(Task) /\ c \in Task
  BY <1>0, ChildTaskType, LenProperties DEF Push, TypeOK
<1>2. deque'[w] = Append(deque[w], c) /\ task' = task /\ pc[w] = "push" /\ pc'[w] = "read" /\ Busy(w)
  BY <1>0 DEF Push, Goto, TypeOK, Busy, BusyPc
<1>3. /\ Len(deque'[w]) = n + 1 /\ deque'[w][n + 1] = c
      /\ \A i \in 1 .. n : deque'[w][i] = deque[w][i]
  BY <1>0, <1>1, <1>2, AppendProperties
<1>4. p \in Path /\ q \in Kids(p) /\ c.path = q /\ c.parent = p
  BY <1>0, <1>2, HandsGood DEF Scope, InTree, GoodTask, Task, ChildTask
<1>5. /\ Chain(p) /\ \A i \in 1 .. n : Chain(deque[w][i].path)
      /\ \A i, j \in 1 .. n : i < j => PinsAbove(deque[w][i], deque[w][j].path)
      /\ \A i \in 1 .. n : PinsAbove(deque[w][i], p) \/ deque[w][i].parent = p
  BY <1>0, <1>2 DEF Stack
<1>6. Chain(q) /\ Above[q] = Above[p] \cup {p}
  BY <1>4, <1>5, KidChain
<1>7. \A i \in 1 .. n : PinsAbove(deque[w][i], q)
  BY <1>5, <1>6 DEF PinsAbove
<1>8. \A i \in 1 .. n + 1 : i \in 1 .. n \/ i = n + 1
  BY <1>1
<1>9. \A i \in 1 .. n : ~(n + 1 < i)
  BY <1>1
<1>10. \A i, j \in 1 .. n + 1 : i < j => PinsAbove(deque'[w][i], deque'[w][j].path)
  BY <1>1, <1>3, <1>4, <1>5, <1>7, <1>8, <1>9
<1>11. \A i \in 1 .. n + 1 : Chain(deque'[w][i].path)
  BY <1>3, <1>4, <1>5, <1>6, <1>8
<1>12. \A i \in 1 .. n + 1 : PinsAbove(deque'[w][i], p) \/ deque'[w][i].parent = p
  BY <1>3, <1>4, <1>5, <1>8
<1> QED BY <1>0, <1>2, <1>3, <1>5, <1>10, <1>11, <1>12 DEF Stack, EmptyPc

\* The other steps of a worker touch no queue.
LEMMA StackOther ==
    ASSUME TypeOK, NEW w \in Worker, Stack(w), Step(w), ~Pop(w), ~Steal(w),
           ~StealBatchAndPop(w), ~Push(w)
    PROVE  Stack(w)' /\ deque' = deque /\ injector' = injector
<1>0. DOMAIN pc = Worker /\ DOMAIN task = Worker
  BY DEF TypeOK
<1>1. deque' = deque /\ injector' = injector
  BY Zenon DEF Step, Finding, Opening, Reading, CheckQuit, PopNone, InjectorMiss, StealMiss,
     ScanEnd, LoadPending, VisitRoot, CheckDepth, Acquire, AcquireAborted, Open, OpenFails,
     OpenExhausted, OpenAbs, OpenAbsExhausted, ReadFrom, ReadFromFails, Opened, GiveUp, NextEntry,
     SkipEntry, ReadError, EndOfDir, Visit, FetchAdd, FetchSub
<1>2. CASE CheckQuit(w) \/ PopNone(w) \/ InjectorMiss(w) \/ StealMiss(w) \/ ScanEnd(w) \/ LoadPending(w)
  <2>1. ~Busy(w)' /\ (pc'[w] \in EmptyPc => deque[w] = <<>>)
    BY <1>0, <1>2 DEF CheckQuit, PopNone, InjectorMiss, StealMiss, ScanEnd, LoadPending, Goto,
       Busy, BusyPc, Stack, EmptyPc
  <2> QED BY <1>1, <2>1, StackSame
<1>3. CASE FetchSub(w)
  <2>1. ~Busy(w)' /\ pc'[w] \notin EmptyPc
    BY <1>0, <1>3 DEF FetchSub, Goto, Busy, BusyPc, EmptyPc
  <2> QED BY <1>1, <2>1, StackSame
<1>4. CASE (Opening(w) \/ Reading(w)) /\ ~FetchSub(w)
  <2>1. task' = task
    BY <1>4, Zenon DEF Opening, Reading, VisitRoot, CheckDepth, Acquire, AcquireAborted, Open,
       OpenFails, OpenExhausted, OpenAbs, OpenAbsExhausted, Opened, GiveUp, ReadFrom,
       ReadFromFails, NextEntry, SkipEntry, ReadError, EndOfDir, Visit, FetchAdd
  <2>2. Busy(w)
    BY <1>4 DEF Opening, Reading, VisitRoot, CheckDepth, Acquire, AcquireAborted, Open, OpenFails,
       OpenExhausted, OpenAbs, OpenAbsExhausted, ReadFrom, ReadFromFails, NextEntry, SkipEntry,
       ReadError, EndOfDir, Visit, FetchAdd, Push, FetchSub, Busy, BusyPc
  <2>3. pc'[w] \notin EmptyPc
    <3> USE <1>0 DEF Goto, EmptyPc
    <3>1. CASE VisitRoot(w) \/ CheckDepth(w) \/ Acquire(w) \/ AcquireAborted(w) \/ ReadFrom(w)
      BY <3>1 DEF VisitRoot, CheckDepth, Acquire, AcquireAborted, ReadFrom
    <3>2. CASE \/ Open(w) \/ OpenFails(w) \/ OpenExhausted(w) \/ OpenAbs(w) \/ OpenAbsExhausted(w)
               \/ ReadFromFails(w)
      BY <3>2 DEF Open, OpenFails, OpenExhausted, OpenAbs, OpenAbsExhausted, ReadFromFails,
         Opened, GiveUp
    <3>3. CASE \/ NextEntry(w) \/ SkipEntry(w) \/ ReadError(w) \/ EndOfDir(w) \/ Visit(w)
               \/ FetchAdd(w)
      BY <3>3 DEF NextEntry, SkipEntry, ReadError, EndOfDir, Visit, FetchAdd
    <3> QED BY <1>4, <3>1, <3>2, <3>3 DEF Opening, Reading
  <2> QED BY <1>1, <2>1, <2>2, <2>3, StackSame
<1> QED BY <1>1, <1>2, <1>3, <1>4 DEF Step, Finding, Opening, Reading

\* A step of w leaves every other worker but its victim its stack.
LEMMA StackStep ==
    ASSUME TypeOK, Scope, RootsOnly, \A v \in Worker : Stack(v), NEW w \in Worker, Step(w)
    PROVE  RootsOnly' /\ \A v \in Worker : Stack(v)'
<1>1. Local(w)
  BY StepLocal
<1>2. ASSUME NEW v \in Worker, v # w, deque'[v] = deque[v] PROVE Stack(v)'
  BY <1>1, <1>2, StackSame DEF Local, Busy, Stack
<1>3. CASE Pop(w)
  <2>1. /\ injector' = injector /\ \A v \in Worker : v # w => deque'[v] = deque[v]
    BY <1>3 DEF Pop, TypeOK
  <2>2. Stack(w)'
    BY <1>3, StackPop
  <2> QED BY <1>2, <2>1, <2>2 DEF RootsOnly
<1>4. CASE Steal(w)
  <2>1. PICK u \in Worker : u = victim[w]
    BY <1>4 DEF Steal
  <2>2. Stack(w)' /\ Stack(u)' /\ \A v \in Worker : v # u => deque'[v] = deque[v]
    BY <1>4, <2>1, StackSteal
  <2>3. injector' = injector
    BY <1>4 DEF Steal
  <2> QED BY <1>2, <2>2, <2>3 DEF RootsOnly
<1>5. CASE StealBatchAndPop(w)
  <2>1. \A v \in Worker : v # w => deque'[v] = deque[v]
    BY <1>5 DEF StealBatchAndPop, TypeOK
  <2>2. Stack(w)' /\ RootsOnly'
    BY <1>5, StackBatch
  <2> QED BY <1>2, <2>1, <2>2
<1>6. CASE Push(w)
  <2>1. injector' = injector /\ \A v \in Worker : v # w => deque'[v] = deque[v]
    BY <1>6 DEF Push, TypeOK
  <2>2. Stack(w)'
    BY <1>6, StackPush
  <2> QED BY <1>2, <2>1, <2>2 DEF RootsOnly
<1>7. CASE ~Pop(w) /\ ~Steal(w) /\ ~StealBatchAndPop(w) /\ ~Push(w)
  <2>1. Stack(w)' /\ deque' = deque /\ injector' = injector
    BY <1>7, StackOther
  <2> QED BY <1>2, <2>1 DEF RootsOnly
<1> QED BY <1>3, <1>4, <1>5, <1>6, <1>7

\* Every step of every thread preserves the invariant.
LEMMA FdNext == FdInv /\ [Next]_vars => FdInv'
<1> SUFFICES ASSUME FdInv, [Next]_vars PROVE FdInv'
  OBVIOUS
<1>1. TaskInv'
  BY TaskNext DEF FdInv
<1>2. TypeOK /\ Scope /\ RootsOnly /\ \A v \in Worker : Stack(v)
  BY DEF FdInv, TaskInv, WalkInv
<1>3. CASE EnqueueRoot
  <2>1. PICK n, r : n = Len(injector) /\ r = Roots[nextRoot]
    OBVIOUS
  <2>2. r \in Path /\ IsRoot(r)
    BY <1>2, <1>3, <2>1, NextRootType DEF EnqueueRoot
  <2>3. injector' = Append(injector, RootTask(r)) /\ injector \in Seq(Task) /\ RootTask(r) \in Task
    BY <1>2, <1>3, <2>1, <2>2, RootTaskType DEF EnqueueRoot, TypeOK
  <2>4. /\ n \in Nat /\ Len(injector') = n + 1 /\ injector'[n + 1] = RootTask(r)
        /\ \A i \in 1 .. n : injector'[i] = injector[i]
    BY <2>1, <2>3, AppendProperties, LenProperties
  <2>5. RootTask(r).path = r
    BY DEF RootTask
  <2>6. \A i \in 1 .. n + 1 : i \in 1 .. n \/ i = n + 1
    BY <2>4
  <2>7. RootsOnly'
    BY <1>2, <2>1, <2>2, <2>4, <2>5, <2>6 DEF RootsOnly
  <2>8. deque' = deque /\ task' = task /\ pc' = pc
    BY <1>3 DEF EnqueueRoot
  <2>9. \A v \in Worker : Stack(v)'
    BY <1>2, <2>8 DEF Stack, Busy
  <2> QED BY <1>1, <2>7, <2>9 DEF FdInv
<1>4. CASE SkipRoot \/ Spawn \/ Refill \/ Returned \/ UNCHANGED vars
  <2>1. /\ deque' = deque /\ task' = task /\ injector' = injector
        /\ pc' = pc \/ \A v \in Worker : pc'[v] = "top"
    BY <1>4 DEF SkipRoot, Spawn, Refill, Returned, vars
  <2>2. \A v \in Worker : Stack(v)'
    BY <1>2, <2>1 DEF Stack, Busy, BusyPc, EmptyPc
  <2> QED BY <1>1, <1>2, <2>1, <2>2 DEF FdInv, RootsOnly
<1>5. CASE \E w \in Worker : Step(w)
  BY <1>1, <1>2, <1>5, StackStep DEF FdInv
<1> QED BY <1>3, <1>4, <1>5 DEF Next

\* Every deque of every run is a stack along one path.
THEOREM FdInvariant == Init /\ [][Next]_vars => []FdInv
<1>1. Init => FdInv
  <2> SUFFICES ASSUME Init PROVE FdInv
    OBVIOUS
  <2>1. TaskInv
    BY TaskInit
  <2>2. /\ injector = <<>> /\ Len(<<>>) = 0
        /\ \A v \in Worker : deque[v] = <<>> /\ pc[v] = "new"
    BY EmptySeq DEF Init
  <2>3. RootsOnly /\ \A v \in Worker : Stack(v)
    BY <2>2 DEF RootsOnly, Stack, Busy, BusyPc, EmptyPc
  <2> QED BY <2>1, <2>3 DEF FdInv
<1> QED BY <1>1, FdNext, PTL

\* The walk holds at most one directory per worker and level, and one stream per
\* worker, open: the LIFO deques keep the frontier along one path per worker,
\* however wide the tree is and whatever is stolen.
THEOREM FdBoundCorrect == Spec => []FdBound
BY FdInvariant, FdInvBounds, PTL DEF Spec
-----------------------------------------------------------------------------
(* Nothing is lost for want of a descriptor                                *)

\* raise_nofile_limit got at least what the frontier needs.
EnoughFds == FdLimit > NWorkers * (DirDepth + 2)

\* Then a descriptor is always free.
LEMMA AlwaysFree == EnoughFds /\ FdInv => FdFree
<1> SUFFICES ASSUME EnoughFds, FdInv PROVE FdFree
  OBVIOUS
<1>1. OpenFds <= NWorkers * (DirDepth + 2)
  BY FdInvBounds DEF FdBound
<1>2. NWorkers \in Nat /\ DirDepth \in Nat /\ FdLimit \in Nat
  BY WorkerType, DirDepthBounds, ArgsAssumption
<1>3. NWorkers * (DirDepth + 2) \in Nat
  BY <1>2
<1>4. OpenFds \in Nat
  <2>1. IsFiniteSet(OpenDirs)
    <3>1. OpenDirs \subseteq Path
      BY OpenArePinned, OnePerDepth DEF ReadableDirs
    <3> QED BY <3>1, TreeAssumption, FS_Subset
  <2>2. IsFiniteSet(Streams)
    BY WorkerType, FS_Interval, FS_Subset DEF Streams
  <2> QED BY <2>1, <2>2, FS_CardinalityType DEF OpenFds
<1> QED BY <1>1, <1>2, <1>3, <1>4 DEF EnoughFds, FdFree

\* What a good task cannot open has no entries.
LEMMA UnopenableEmpty ==
    ASSUME NEW t, GoodTask(t), ~Openable(t)
    PROVE  Kids(t.path) = {}
<1>1. t.path \in Path /\ (t.follow <=> IsRoot(t.path) \/ Type[t.path] = "Symlink")
  BY DEF GoodTask, Task
<1>2. Id[t.path] = None
  BY <1>1 DEF Openable
<1> QED BY <1>1, <1>2, EntryAssumption

\* With a descriptor free, only an error of a flaky entry loses anything.
LEMMA LosslessNext == FdInv /\ FdFree /\ Lossless /\ [Next]_vars => Lossless'
<1> SUFFICES ASSUME FdInv, FdFree, Lossless, [Next]_vars PROVE Lossless'
  OBVIOUS
<1>0. TypeOK /\ Scope
  BY DEF FdInv, TaskInv, WalkInv
<1>1. CASE SkipRoot
  BY <1>1 DEF SkipRoot, Lossless
<1>2. CASE EnqueueRoot \/ Spawn \/ Refill \/ Returned \/ UNCHANGED vars
  <2>1. lost' = lost
    BY <1>2 DEF EnqueueRoot, Spawn, Refill, Returned, vars
  <2> QED BY <2>1 DEF Lossless
<1>3. ASSUME NEW w \in Worker, Step(w) PROVE Lossless'
  <2>1. CASE OpenFails(w)
    <3>1. Busy(w) /\ lost' = lost \cup Kids(task[w].path) /\ (~Openable(task[w]) \/ task[w].path \in Flaky)
      BY <2>1 DEF OpenFails, GiveUp, Busy, BusyPc
    <3>2. GoodTask(task[w])
      BY <1>0, <3>1, HandsGood
    <3>3. Kids(task[w].path) = {} \/ task[w].path \in Flaky
      BY <3>1, <3>2, UnopenableEmpty
    <3> QED BY <3>1, <3>3 DEF Lossless, Kids
  <2>2. CASE OpenExhausted(w) \/ OpenAbsExhausted(w)
    BY <2>2 DEF OpenExhausted, OpenAbsExhausted
  <2>3. CASE ReadFromFails(w)
    BY <2>3 DEF ReadFromFails, GiveUp, Lossless, Kids
  <2>4. CASE SkipEntry(w)
    BY <2>4 DEF SkipEntry, Lossless
  <2>5. CASE ReadError(w)
    <3>1. todo[w] \subseteq Kids(task[w].path)
      BY <1>0, <2>5 DEF ReadError, Scope, InTree, StreamPc
    <3> QED BY <2>5, <3>1 DEF ReadError, Lossless, Kids
  <2>6. CASE /\ ~OpenFails(w) /\ ~OpenExhausted(w) /\ ~OpenAbsExhausted(w) /\ ~ReadFromFails(w)
             /\ ~SkipEntry(w) /\ ~ReadError(w)
    <3>1. lost' = lost
      BY <1>3, <2>6, Zenon DEF Step, Finding, Opening, Reading, CheckQuit, Pop, PopNone,
         StealBatchAndPop, InjectorMiss, Steal, StealMiss, ScanEnd, LoadPending, Take, VisitRoot,
         CheckDepth, Acquire, AcquireAborted, Open, OpenAbs, ReadFrom, Opened, NextEntry,
         EndOfDir, Visit, FetchAdd, Push, FetchSub
    <3> QED BY <3>1 DEF Lossless
  <2> QED BY <2>1, <2>2, <2>3, <2>4, <2>5, <2>6
<1> QED BY <1>1, <1>2, <1>3 DEF Next

\* With descriptors for the frontier, which raise_nofile_limit asks for, neither
\* the anchored opens nor the streams ever run out: entries go missing only
\* where a system call failed for another reason.
THEOREM LosslessCorrect == EnoughFds /\ Spec => []Lossless
<1> SUFFICES ASSUME EnoughFds PROVE Spec => []Lossless
  OBVIOUS
<1>1. Init => Lossless
  BY DEF Init, Lossless
<1>2. FdInv => FdFree
  BY AlwaysFree
<1> QED BY <1>1, <1>2, LosslessNext, FdInvariant, PTL DEF Spec
=============================================================================
