------------------------------ MODULE WalkTasks ------------------------------
(***************************************************************************)
(* Proofs that work stealing neither duplicates nor invents work: what a   *)
(* task carries is what the tree says of its path, no two tasks have the   *)
(* same path, and so no entry reaches the visitor twice.                   *)
(***************************************************************************)
EXTENDS WalkProofs

\* The workers that are turning an entry into a task
Adding(w) == pc[w] \in {"add", "push"}

\* The places that hold a task: as in Slots, and (w, -1) from the moment the
\* visitor has returned.
Places == SlotSet(Len(injector), QLen, BusySet, {w \in Worker : Adding(w)})

TaskAt(a, i) ==
    IF a = 0 THEN injector[i]
    ELSE IF i = 0 THEN task[a]
    ELSE IF i = -1 THEN ChildTask(a)
    ELSE deque[a][i]

Waiting == {TaskAt(x[1], x[2]) : x \in {y \in Places : y[2] # 0}}

-----------------------------------------------------------------------------
(* The inductive invariant                                                 *)

\* What a task carries agrees with its place in the tree.
GoodTask(t) ==
    /\ t \in Task
    /\ t.parent = Parent[t.path] /\ t.depth = Depth[t.path]
    /\ t.rootDev = Dev[RootOf[t.path]]
    /\ t.ancestors = IF FollowSymlinks THEN {Id[a] : a \in Above[t.path]} ELSE {}
    /\ t.follow <=> IsRoot(t.path) \/ Type[t.path] = "Symlink"
    /\ IsRoot(t.path) \/ DescendsInto(t.path)
    /\ ~IsRoot(t.path) => Expandable(Parent[t.path])

TasksGood == \A x \in Places : GoodTask(TaskAt(x[1], x[2]))

\* No two places hold a task for the same path.
TasksUnique ==
    \A x, y \in Places : TaskAt(x[1], x[2]).path = TaskAt(y[1], y[2]).path => x = y

\* Where each worker is in the tree
BelowLimit == {"throttle", "open", "openabs"} \cup AnchorPc
InTree(w) ==
    /\ pc[w] = "self" => IsRoot(task[w].path)
    /\ pc[w] \in BelowLimit /\ MaxDepth # None => task[w].depth < MaxDepth
    /\ pc[w] \in AnchorPc => Expandable(task[w].path)
    /\ pc[w] \in StreamPc => todo[w] \subseteq Kids(task[w].path)
    /\ pc[w] \in {"visit", "add", "push"} => entry[w] \in Kids(task[w].path) \ Excluded
    /\ Adding(w) => Enqueues(w)

Scope == TasksGood /\ \A w \in Worker : InTree(w)

\* What the walk is done with, and what it has not looked at
Gone == visited \cup lost
Fresh(S) == S \cap Gone = {}
UnreadPc == {"self", "descend", "throttle", "open", "openabs", "stream"}

\* How far each worker got with its task
Progress(w) ==
    /\ pc[w] = "self" => task[w].path \notin Gone
    /\ Busy(w) /\ pc[w] # "self" => task[w].path \in visited
    /\ pc[w] \in UnreadPc => Fresh(Kids(task[w].path))
    /\ pc[w] \in StreamPc => Fresh(todo[w])
    /\ pc[w] = "visit" => entry[w] \notin Gone \cup todo[w]
    /\ Adding(w) => entry[w] \in visited

\* A waiting task has not been started.
WaitingFresh ==
    \A t \in Waiting : /\ Fresh(Kids(t.path))
                       /\ IF IsRoot(t.path) THEN t.path \notin Gone ELSE t.path \in visited

\* The roots walk_parallel has yet to enqueue
RootsAhead ==
    \A k \in nextRoot .. Len(Roots) :
        /\ Roots[k] \notin Gone
        /\ \A x \in Places : TaskAt(x[1], x[2]).path # Roots[k]

\* Nothing is visited or given up before the directory that lists it.
ParentsFirst == \A q \in Gone : IsRoot(q) \/ Parent[q] \in visited

Visits ==
    /\ TasksUnique /\ (\A w \in Worker : Progress(w)) /\ WaitingFresh /\ RootsAhead
    /\ ParentsFirst /\ visited \cap lost = {}

TaskInv == WalkInv /\ Scope /\ Visits
-----------------------------------------------------------------------------
(* Places, one at a time                                                   *)

Holds(a, i, t) == Slot(a, i) \in Places /\ t = TaskAt(a, i)

\* The four kinds of place: the injector, a deque, a worker's current task and
\* the task a worker is about to push.
FourKinds ==
    \A a, i, t :
        Holds(a, i, t) <=>
            \/ a = 0 /\ i \in 1 .. Len(injector) /\ t = injector[i]
            \/ a \in Worker /\ i \in 1 .. Len(deque[a]) /\ t = deque[a][i]
            \/ a \in Worker /\ i = 0 /\ Busy(a) /\ t = task[a]
            \/ a \in Worker /\ i = -1 /\ Adding(a) /\ t = ChildTask(a)

\* A place is of one of the four kinds.
LEMMA HoldsIs == TypeOK => FourKinds
<1> SUFFICES ASSUME TypeOK, NEW a, NEW i, NEW t
             PROVE  Holds(a, i, t) <=>
                       \/ a = 0 /\ i \in 1 .. Len(injector) /\ t = injector[i]
                       \/ a \in Worker /\ i \in 1 .. Len(deque[a]) /\ t = deque[a][i]
                       \/ a \in Worker /\ i = 0 /\ Busy(a) /\ t = task[a]
                       \/ a \in Worker /\ i = -1 /\ Adding(a) /\ t = ChildTask(a)
  BY DEF FourKinds
<1> DEFINE A == {w \in Worker : Adding(w)}
<1>1. SlotArgs(Len(injector), QLen, BusySet, AddSet)
  BY SlotsAre
<1>2. Slot(a, i) \in Places <=>
         \/ a = 0 /\ i \in 1 .. Len(injector)
         \/ a \in Worker /\ i \in 1 .. QLen[a]
         \/ a \in BusySet /\ i = 0
         \/ a \in A /\ i = -1
  <2>1. A \in SUBSET Worker
    OBVIOUS
  <2>2. Places = SlotSet(Len(injector), QLen, BusySet, A)
    BY Zenon DEF Places
  <2> HIDE DEF A
  <2> QED BY <1>1, <2>1, <2>2, PairInSlotSet DEF SlotArgs
<1>3. 0 \notin Worker
  BY WorkerType
<1>4. a \in BusySet <=> a \in Worker /\ Busy(a)
  BY DEF BusySet
<1>5. a \in Worker => QLen[a] = Len(deque[a])
  BY DEF QLen
<1>6. i \in 1 .. Len(deque[a]) => i # 0 /\ i # -1
  OBVIOUS
<1> QED BY <1>2, <1>3, <1>4, <1>5, <1>6 DEF Holds, TaskAt

\* Every place is a pair.
LEMMA PlacePair == \A x \in Places : x = Slot(x[1], x[2])
<1> SUFFICES ASSUME NEW x \in Places PROVE x = Slot(x[1], x[2])
  OBVIOUS
<1>1. \E a, i : x = Slot(a, i)
  BY InSlotSet DEF Places
<1> QED BY <1>1 DEF Slot

\* The invariant's parts, said of places.
PartsByPlace ==
    /\ TasksGood <=> \A a, i, t : Holds(a, i, t) => GoodTask(t)
    /\ TasksUnique <=> \A a, i, t, b, j, u :
          Holds(a, i, t) /\ Holds(b, j, u) /\ t.path = u.path => a = b /\ i = j
    /\ \A t : t \in Waiting <=> \E a, i : i # 0 /\ Holds(a, i, t)
    /\ \A p : (\A x \in Places : TaskAt(x[1], x[2]).path # p)
               <=> \A a, i, t : Holds(a, i, t) => t.path # p

\* They may be.
LEMMA ByPlace == PartsByPlace
<1>0. \A a, i : Slot(a, i)[1] = a /\ Slot(a, i)[2] = i
  BY DEF Slot
<1>1. TasksGood <=> \A a, i, t : Holds(a, i, t) => GoodTask(t)
  BY <1>0, PlacePair DEF TasksGood, Holds
<1>2. TasksUnique <=> \A a, i, t, b, j, u :
         Holds(a, i, t) /\ Holds(b, j, u) /\ t.path = u.path => a = b /\ i = j
  <2>1. ASSUME TasksUnique, NEW a, NEW i, NEW t, NEW b, NEW j, NEW u,
               Holds(a, i, t), Holds(b, j, u), t.path = u.path
        PROVE  a = b /\ i = j
    BY <1>0, <2>1, SlotInj DEF TasksUnique, Holds
  <2>2. ASSUME \A a, i, t, b, j, u :
                  Holds(a, i, t) /\ Holds(b, j, u) /\ t.path = u.path => a = b /\ i = j
        PROVE  TasksUnique
    BY <1>0, <2>2, PlacePair DEF TasksUnique, Holds
  <2> QED BY <2>1, <2>2
<1>3. \A t : t \in Waiting <=> \E a, i : i # 0 /\ Holds(a, i, t)
  <2> TAKE t
  <2>1. ASSUME t \in Waiting PROVE \E a, i : i # 0 /\ Holds(a, i, t)
    <3>1. PICK x \in Places : x[2] # 0 /\ t = TaskAt(x[1], x[2])
      BY <2>1 DEF Waiting
    <3> QED BY <3>1, PlacePair DEF Holds
  <2>2. ASSUME NEW a, NEW i, i # 0, Holds(a, i, t) PROVE t \in Waiting
    BY <1>0, <2>2 DEF Holds, Waiting
  <2> QED BY <2>1, <2>2
<1>4. \A p : (\A x \in Places : TaskAt(x[1], x[2]).path # p)
             <=> \A a, i, t : Holds(a, i, t) => t.path # p
  BY <1>0, PlacePair DEF Holds
<1> QED BY <1>1, <1>2, <1>3, <1>4 DEF PartsByPlace

\* Both in the next state.
LEMMA PlacesNext == PartsByPlace' /\ (TypeOK' => FourKinds')
BY ByPlace, HoldsIs, PTL
-----------------------------------------------------------------------------
(* How a step moves tasks                                                  *)

USE DEF queues, scan, reading, history

\* Every task stays where it is.
Still == \A a, i, t : Holds(a, i, t)' <=> Holds(a, i, t)

\* It does if the queues and the workers' tasks stay as they are.
LEMMA StillIf ==
    ASSUME TypeOK, TypeOK', injector' = injector, deque' = deque, task' = task,
           \A v \in Worker : /\ Busy(v)' <=> Busy(v)
                             /\ Adding(v)' <=> Adding(v)
                             /\ Adding(v) => entry'[v] = entry[v]
    PROVE  Still
<1>1. \A v \in Worker : Adding(v) => ChildTask(v)' = ChildTask(v)
  BY DEF ChildTask
<1> QED BY <1>1, HoldsIs, PlacesNext DEF FourKinds, Still

\* A step of w leaves the other workers' variables alone.
Local(w) ==
    /\ nextRoot' = nextRoot
    /\ \A v \in Worker \ {w} : /\ pc'[v] = pc[v] /\ task'[v] = task[v]
                               /\ entry'[v] = entry[v] /\ todo'[v] = todo[v]

\* So does every step of a worker.
LEMMA StepLocal ==
    ASSUME TypeOK, NEW w \in Worker, Step(w)
    PROVE  Local(w)
<1>0. DOMAIN pc = Worker /\ DOMAIN task = Worker /\ DOMAIN entry = Worker /\ DOMAIN todo = Worker
  BY DEF TypeOK
<1> USE <1>0 DEF Local, Goto
<1>1. CASE CheckQuit(w) \/ PopNone(w) \/ InjectorMiss(w) \/ StealMiss(w) \/ ScanEnd(w) \/ LoadPending(w)
  BY <1>1 DEF CheckQuit, PopNone, InjectorMiss, StealMiss, ScanEnd, LoadPending
<1>2. CASE Pop(w) \/ StealBatchAndPop(w) \/ Steal(w)
  <2>1. PICK t : Take(w, t)
    BY <1>2 DEF Pop, StealBatchAndPop, Steal
  <2> QED BY <2>1 DEF Take
<1>3. CASE VisitRoot(w) \/ CheckDepth(w) \/ Acquire(w) \/ AcquireAborted(w)
  BY <1>3 DEF VisitRoot, CheckDepth, Acquire, AcquireAborted
<1>4. CASE Open(w) \/ OpenFails(w) \/ OpenExhausted(w) \/ OpenAbs(w) \/ OpenAbsExhausted(w)
  BY <1>4 DEF Open, OpenFails, OpenExhausted, OpenAbs, OpenAbsExhausted, Opened, GiveUp
<1>5. CASE ReadFrom(w) \/ ReadFromFails(w) \/ EndOfDir(w) \/ ReadError(w) \/ SkipEntry(w)
  BY <1>5 DEF ReadFrom, ReadFromFails, EndOfDir, ReadError, SkipEntry, GiveUp
<1>6. CASE NextEntry(w)
  BY <1>6 DEF NextEntry
<1>7. CASE Visit(w)
  BY <1>7 DEF Visit
<1>8. CASE FetchAdd(w) \/ Push(w) \/ FetchSub(w)
  BY <1>8 DEF FetchAdd, Push, FetchSub
<1> QED BY <1>1, <1>2, <1>3, <1>4, <1>5, <1>6, <1>7, <1>8 DEF Step, Finding, Opening, Reading

\* The steps that move no task: all but taking, pushing and finishing one, and
\* the visit of an entry that becomes one.
LEMMA StillStep ==
    ASSUME TypeOK, TypeOK', NEW w \in Worker, Quiet(w), Adding(w)' <=> Adding(w)
    PROVE  Still
<1>1. injector' = injector /\ deque' = deque /\ task' = task
  BY Zenon DEF Quiet, CheckQuit, PopNone, InjectorMiss, StealMiss, ScanEnd, LoadPending,
     VisitRoot, CheckDepth, Acquire, AcquireAborted, Open, OpenFails, OpenExhausted, OpenAbs,
     OpenAbsExhausted, ReadFrom, ReadFromFails, NextEntry, SkipEntry, ReadError, EndOfDir,
     Visit, Opened, GiveUp
<1>2. Local(w)
  BY StepLocal DEF Quiet, Step, Finding, Opening, Reading
<1>3. ~Adding(w)
  BY DEF Adding, Quiet, CheckQuit, PopNone, InjectorMiss, StealMiss, ScanEnd, LoadPending,
     VisitRoot, CheckDepth, Acquire, AcquireAborted, Open, OpenFails, OpenExhausted, OpenAbs,
     OpenAbsExhausted, ReadFrom, ReadFromFails, NextEntry, SkipEntry, ReadError, EndOfDir, Visit
<1>4. Busy(w)' <=> Busy(w)
  <2>0. DOMAIN pc = Worker
    BY DEF TypeOK
  <2> USE <2>0
  <2>1. CASE CheckQuit(w) \/ PopNone(w) \/ InjectorMiss(w) \/ StealMiss(w) \/ ScanEnd(w) \/ LoadPending(w)
    BY <2>1 DEF CheckQuit, PopNone, InjectorMiss, StealMiss, ScanEnd, LoadPending, Goto,
       Busy, BusyPc
  <2>2. CASE VisitRoot(w) \/ CheckDepth(w) \/ Acquire(w) \/ AcquireAborted(w)
    BY <2>2 DEF VisitRoot, CheckDepth, Acquire, AcquireAborted, Goto, Busy, BusyPc
  <2>3. CASE Open(w) \/ OpenFails(w) \/ OpenExhausted(w) \/ OpenAbs(w) \/ OpenAbsExhausted(w)
    BY <2>3 DEF Open, OpenFails, OpenExhausted, OpenAbs, OpenAbsExhausted, Opened, GiveUp, Goto,
       Busy, BusyPc
  <2>4. CASE ReadFrom(w) \/ ReadFromFails(w) \/ EndOfDir(w) \/ ReadError(w) \/ SkipEntry(w)
    BY <2>4 DEF ReadFrom, ReadFromFails, EndOfDir, ReadError, SkipEntry, GiveUp, Goto,
       Busy, BusyPc
  <2>5. CASE NextEntry(w) \/ Visit(w)
    BY <2>5 DEF NextEntry, Visit, Goto, Busy, BusyPc
  <2> QED BY <2>1, <2>2, <2>3, <2>4, <2>5 DEF Quiet
<1>5. \A v \in Worker : /\ Busy(v)' <=> Busy(v)
                        /\ Adding(v)' <=> Adding(v)
                        /\ Adding(v) => entry'[v] = entry[v]
  BY <1>2, <1>3, <1>4 DEF Local, Busy, Adding
<1> QED BY <1>1, <1>5, StillIf

\* What a step of w that only moves tasks does: no task is invented, none is
\* lost (a waiting one may now be held by w), none is doubled.
Shuffled(w) ==
    /\ \A a, i, t : Holds(a, i, t)' => \E b, j : Holds(b, j, t) /\ (i # 0 => j # 0)
    /\ \A a, i, t : Holds(a, i, t) /\ i # 0 =>
          (\E b, j : Holds(b, j, t)' /\ j # 0) \/ (Busy(w)' /\ t = task'[w])
    /\ TasksUnique => TasksUnique'

\* The owner pops the last task of its deque.
LEMMA PopShuffles ==
    ASSUME TypeOK, TypeOK', NEW w \in Worker, Pop(w)
    PROVE  Shuffled(w)
<1> DEFINE n == Len(deque[w])
<1>1. deque[w] \in Seq(Task) /\ deque[w] # <<>> /\ n \in Nat \ {0}
  BY FrontLast DEF Pop, TypeOK
<1>2. /\ Len(Front(deque[w])) = n - 1
      /\ \A i \in 1 .. n - 1 : Front(deque[w])[i] = deque[w][i]
      /\ Last(deque[w]) = deque[w][n]
  <2>1. \A i \in 1 .. n - 1 : Front(deque[w])[i] = deque[w][i]
    BY <1>1, SubSeqProperties DEF Front
  <2> QED BY <1>1, <2>1, FrontLast DEF Last
<1>3. /\ deque'[w] = Front(deque[w]) /\ \A v \in Worker \ {w} : deque'[v] = deque[v]
      /\ injector' = injector /\ task'[w] = Last(deque[w])
      /\ \A v \in Worker \ {w} : task'[v] = task[v]
      /\ Busy(w)' /\ ~Busy(w) /\ ~Adding(w)' /\ ~Adding(w)
      /\ \A v \in Worker \ {w} : (Busy(v)' <=> Busy(v)) /\ (Adding(v)' <=> Adding(v))
      /\ \A v \in Worker \ {w} : ChildTask(v)' = ChildTask(v)
  <2>1. DOMAIN deque = Worker /\ DOMAIN task = Worker /\ DOMAIN pc = Worker
    BY DEF TypeOK
  <2> QED BY <2>1 DEF Pop, Take, Goto, Busy, BusyPc, Adding, ChildTask
<1>4. \A a, i, t : Holds(a, i, t)' <=>
         IF a = w /\ i = 0 THEN t = deque[w][n] ELSE Holds(a, i, t) /\ ~(a = w /\ i = n)
  <2> TAKE a, i, t
  <2>1. FourKinds /\ FourKinds'
    BY HoldsIs, PlacesNext
  <2>2. 0 \notin Worker
    BY WorkerType
  <2>3. CASE a # w
    BY <1>3, <2>1, <2>2, <2>3 DEF FourKinds
  <2>4. CASE a = w
    BY <1>1, <1>2, <1>3, <2>1, <2>2, <2>4 DEF FourKinds
  <2> QED BY <2>3, <2>4
<1>5. Holds(w, n, deque[w][n])
  BY <1>1, HoldsIs DEF FourKinds
<1>6. n # 0 /\ \A t : ~Holds(w, 0, t)
  BY <1>1, <1>3, HoldsIs, WorkerType DEF FourKinds
<1>7. task'[w] = deque[w][n] /\ Busy(w)'
  BY <1>2, <1>3
<1>8. \A t : Holds(w, n, t) => t = deque[w][n]
  BY <1>5 DEF Holds
<1> HIDE DEF n
<1>9. TasksUnique => TasksUnique'
  BY <1>4, <1>5, <1>6, ByPlace, PlacesNext DEF PartsByPlace
<1> QED BY <1>4, <1>5, <1>6, <1>7, <1>8, <1>9 DEF Shuffled

\* A thief takes the first task of its victim's deque.
LEMMA StealShuffles ==
    ASSUME TypeOK, TypeOK', NEW w \in Worker, Steal(w)
    PROVE  Shuffled(w)
<1>0. PICK v \in Worker : v = victim[w]
  BY DEF Steal
<1>n. PICK n : n = Len(deque[v])
  OBVIOUS
<1>1. v \in Worker /\ deque[v] \in Seq(Task) /\ deque[v] # <<>> /\ n \in Nat \ {0}
  BY <1>0, <1>n, FrontLast DEF Steal, TypeOK
<1>2. /\ Len(Tail(deque[v])) = n - 1
      /\ \A i \in 1 .. n - 1 : Tail(deque[v])[i] = deque[v][i + 1]
      /\ Head(deque[v]) = deque[v][1]
  BY <1>1, <1>n, HeadTailProperties
<1>3. /\ deque'[v] = Tail(deque[v]) /\ \A u \in Worker \ {v} : deque'[u] = deque[u]
      /\ injector' = injector /\ task'[w] = Head(deque[v])
      /\ \A u \in Worker \ {w} : task'[u] = task[u]
      /\ Busy(w)' /\ ~Busy(w) /\ ~Adding(w)' /\ ~Adding(w)
      /\ \A u \in Worker \ {w} : (Busy(u)' <=> Busy(u)) /\ (Adding(u)' <=> Adding(u))
      /\ \A u \in Worker \ {w} : ChildTask(u)' = ChildTask(u)
  <2>1. DOMAIN deque = Worker /\ DOMAIN task = Worker /\ DOMAIN pc = Worker
    BY DEF TypeOK
  <2> QED BY <1>0, <1>1, <2>1 DEF Steal, Take, Goto, Busy, BusyPc, Adding, ChildTask
<1> DEFINE fi(a, i) == IF a = v /\ i \in 1 .. n THEN i + 1 ELSE i
<1>4. \A a, i, t : Holds(a, i, t)' <=>
         IF a = w /\ i = 0 THEN t = deque[v][1]
         ELSE /\ Holds(a, fi(a, i), t)
              /\ a = v => i # n
  <2> TAKE a, i, t
  <2>1. FourKinds /\ FourKinds'
    BY HoldsIs, PlacesNext
  <2>2. 0 \notin Worker
    BY WorkerType
  <2> USE <1>n
  <2>0. /\ Holds(v, i, t)' <=>
              \/ i \in 1 .. Len(deque'[v]) /\ t = deque'[v][i]
              \/ i = 0 /\ Busy(v)' /\ t = task'[v]
              \/ i = -1 /\ Adding(v)' /\ t = ChildTask(v)'
        /\ \A k : Holds(v, k, t) <=>
              \/ k \in 1 .. Len(deque[v]) /\ t = deque[v][k]
              \/ k = 0 /\ Busy(v) /\ t = task[v]
              \/ k = -1 /\ Adding(v) /\ t = ChildTask(v)
        /\ Len(deque'[v]) = n - 1
    <3>1. v # 0 /\ v \in Worker
      BY <1>1, <2>2
    <3>2. Len(deque'[v]) = n - 1
      BY <1>2, <1>3
    <3>3. Holds(v, i, t)' <=>
              \/ i \in 1 .. Len(deque'[v]) /\ t = deque'[v][i]
              \/ i = 0 /\ Busy(v)' /\ t = task'[v]
              \/ i = -1 /\ Adding(v)' /\ t = ChildTask(v)'
      BY <3>1, <2>1 DEF FourKinds
    <3>4. \A k : Holds(v, k, t) <=>
              \/ k \in 1 .. Len(deque[v]) /\ t = deque[v][k]
              \/ k = 0 /\ Busy(v) /\ t = task[v]
              \/ k = -1 /\ Adding(v) /\ t = ChildTask(v)
      BY <3>1, <2>1 DEF FourKinds
    <3> QED BY <3>2, <3>3, <3>4
  <2>3. CASE a # v
    BY <1>2, <1>3, <2>1, <2>2, <2>3 DEF FourKinds
  <2>4. CASE a = v /\ i \in 1 .. n
    <3>1. i + 1 # 0 /\ i + 1 # -1 /\ i # 0 /\ i # -1 /\ a # 0
      BY <1>1, <2>2, <2>4
    <3>2. i \in 1 .. n - 1 <=> i # n /\ i + 1 \in 1 .. n
      BY <1>1, <2>4
    <3>3. Holds(v, i, t)' <=> i \in 1 .. n - 1 /\ t = Tail(deque[v])[i]
      BY <1>3, <2>0, <2>4, <3>1
    <3>4. Holds(v, i + 1, t) <=> i + 1 \in 1 .. n /\ t = deque[v][i + 1]
      BY <2>0, <2>4, <3>1
    <3>5. fi(a, i) = i + 1
      BY <2>4
    <3> HIDE DEF fi
    <3> QED BY <1>2, <2>4, <3>1, <3>2, <3>3, <3>4, <3>5
  <2>5. CASE a = v /\ i \notin 1 .. n
    <3>1. i \notin 1 .. n - 1 /\ n # 0 /\ n # -1 /\ a # 0 /\ n \in 1 .. n
      BY <1>1, <2>2, <2>5
    <3>2. Holds(v, i, t)' <=> \/ i = 0 /\ Busy(v)' /\ t = task'[v]
                              \/ i = -1 /\ Adding(v)' /\ t = ChildTask(v)'
      BY <2>0, <2>5, <3>1
    <3>3. Holds(v, i, t) <=> \/ i = 0 /\ Busy(v) /\ t = task[v]
                             \/ i = -1 /\ Adding(v) /\ t = ChildTask(v)
      BY <2>0, <2>5, <3>1
    <3>4. fi(a, i) = i
      BY <2>5
    <3> HIDE DEF fi
    <3> QED BY <1>1, <1>2, <1>3, <2>5, <3>1, <3>2, <3>3, <3>4
  <2> QED BY <2>3, <2>4, <2>5
<1>5. Holds(v, 1, deque[v][1])
  BY <1>1, <1>n, HoldsIs DEF FourKinds
<1>6. /\ \A t : ~Holds(w, 0, t)
      /\ \A t : Holds(v, 1, t) => t = deque[v][1]
  <2>1. \A t : ~Holds(w, 0, t)
    BY <1>3, HoldsIs, WorkerType DEF FourKinds
  <2> QED BY <2>1, <1>5 DEF Holds
<1>7. task'[w] = deque[v][1] /\ Busy(w)'
  BY <1>2, <1>3
<1>8. ASSUME TasksUnique PROVE TasksUnique'
  <2>1. ASSUME NEW a, NEW i, NEW t, NEW b, NEW j, NEW u,
               Holds(a, i, t)', Holds(b, j, u)', t.path = u.path
        PROVE  a = b /\ i = j
    <3>1. \A c, k, x, d, m, y :
             Holds(c, k, x) /\ Holds(d, m, y) /\ x.path = y.path => c = d /\ k = m
      BY <1>8, ByPlace DEF PartsByPlace
    <3>2. \A c, k : c = v => fi(c, k) # 1
      BY <1>1
    <3>3. CASE a = w /\ i = 0
      BY <1>4, <1>5, <2>1, <3>1, <3>2, <3>3
    <3>4. CASE b = w /\ j = 0
      BY <1>4, <1>5, <2>1, <3>1, <3>2, <3>4
    <3>5. CASE ~(a = w /\ i = 0) /\ ~(b = w /\ j = 0)
      <4>1. a = b /\ fi(a, i) = fi(b, j)
        BY <1>4, <2>1, <3>1, <3>5
      <4>2. ASSUME a = v PROVE i = j
        BY <1>1, <1>4, <2>1, <3>5, <4>1, <4>2
      <4> QED BY <4>1, <4>2
    <3> QED BY <3>3, <3>4, <3>5
  <2> QED BY <2>1, PlacesNext DEF PartsByPlace
<1>9. ASSUME NEW a, NEW i, NEW t, Holds(a, i, t), i # 0
       PROVE  (\E b, j : Holds(b, j, t)' /\ j # 0) \/ t = deque[v][1]
  <2>1. CASE a # v
    BY <1>4, <1>9, <2>1
  <2>2. CASE a = v /\ i = 1
    BY <1>6, <1>9, <2>2
  <2>3. CASE a = v /\ i \in 2 .. n
    <3>1. i - 1 \in 1 .. n /\ i - 1 # n /\ i - 1 # 0 /\ fi(v, i - 1) = i
      BY <1>1, <2>3
    <3>2. Holds(v, i - 1, t)'
      BY <1>4, <1>9, <2>3, <3>1
    <3> QED BY <3>1, <3>2
  <2>4. CASE a = v /\ i \notin 1 .. n
    <3>1. i # n /\ fi(a, i) = i
      BY <1>1, <2>4
    <3> HIDE DEF fi
    <3>2. Holds(a, i, t)'
      BY <1>4, <1>9, <3>1
    <3> QED BY <3>2, <1>9
  <2>5. i \in 1 .. n => i = 1 \/ i \in 2 .. n
    BY <1>1
  <2> QED BY <2>1, <2>2, <2>3, <2>4, <2>5
<1>10. ASSUME NEW a, NEW i, NEW t, Holds(a, i, t)'
       PROVE  \E b, j : Holds(b, j, t) /\ (i # 0 => j # 0)
  <2>1. i # 0 => fi(a, i) # 0
    BY <1>1
  <2> QED BY <1>4, <1>5, <1>10, <2>1
<1> QED BY <1>7, <1>8, <1>9, <1>10 DEF Shuffled

\* What a batch steal leaves in the injector and adds to the deque, one by one
BatchOutcome(s, k, d) ==
    LET grown == d \o Reverse(SubSeq(s, 2, k + 1))
        left == SubSeq(s, k + 2, Len(s))
    IN  /\ Len(grown) = Len(d) + k /\ Len(left) = Len(s) - (k + 1)
        /\ \A i \in 1 .. Len(d) : grown[i] = d[i]
        /\ \A i \in Len(d) + 1 .. Len(d) + k : grown[i] = s[Len(d) + k + 2 - i]
        /\ \A i \in 1 .. Len(s) - (k + 1) : left[i] = s[i + k + 1]

\* The batch arrives in reverse order, the rest of the queue moves up.
LEMMA BatchElements ==
    ASSUME NEW S, NEW s \in Seq(S), s # <<>>, NEW k \in 0 .. Len(s) - 1, NEW d \in Seq(S)
    PROVE  BatchOutcome(s, k, d)
<1> DEFINE m == SubSeq(s, 2, k + 1)
<1>1. Len(s) \in Nat \ {0} /\ \A i \in 1 .. Len(s) : s[i] \in S
  BY EmptySeq, ElementOfSeq
<1>2. m \in Seq(S) /\ Len(m) = k /\ \A i \in 1 .. k : m[i] = s[i + 1]
  <2>1. \A i \in 2 .. k + 1 : s[i] \in S
    BY <1>1
  <2> QED BY <1>1, <2>1, SubSeqProperties
<1>3. \A i \in 1 .. Len(s) - (k + 1) : SubSeq(s, k + 2, Len(s))[i] = s[i + k + 1]
  <2>1. \A i \in k + 2 .. Len(s) : s[i] \in S
    BY <1>1
  <2> QED BY <1>1, <2>1, SubSeqProperties
<1> HIDE DEF m
<1>4. Reverse(m) \in Seq(S) /\ Len(Reverse(m)) = k /\ \A i \in 1 .. k : Reverse(m)[i] = m[k + 1 - i]
  <2>1. \A i \in 1 .. k : m[i] \in S
    BY <1>2, ElementOfSeq
  <2>2. Reverse(m) \in [1 .. k -> S]
    BY <1>2, <2>1 DEF Reverse
  <2>3. Reverse(m) \in Seq(S)
    BY <2>2, <1>1, SeqDef
  <2>4. \A i \in 1 .. k : Reverse(m)[i] = m[k + 1 - i]
    BY <1>2 DEF Reverse
  <2> QED BY <2>2, <2>3, <2>4, <1>1, LenProperties
<1>5. \A i \in 1 .. Len(d) + k :
         (d \o Reverse(m))[i] = IF i <= Len(d) THEN d[i] ELSE Reverse(m)[i - Len(d)]
  BY <1>4, ConcatProperties
<1>6. Len(d) \in Nat
  BY LenProperties
<1>7. \A i \in 1 .. Len(d) : (d \o Reverse(m))[i] = d[i]
  BY <1>1, <1>5, <1>6
<1>8. ASSUME NEW i \in Len(d) + 1 .. Len(d) + k
      PROVE  (d \o Reverse(m))[i] = s[Len(d) + k + 2 - i]
  <2>1. i - Len(d) \in 1 .. k /\ k + 1 - (i - Len(d)) \in 1 .. k /\ ~(i <= Len(d)) /\ i \in 1 .. Len(d) + k
    BY <1>6
  <2>2. k + 1 - (i - Len(d)) + 1 = Len(d) + k + 2 - i
    BY <1>6
  <2>3. (d \o Reverse(m))[i] = Reverse(m)[i - Len(d)]
    BY <1>5, <2>1
  <2>4. Reverse(m)[i - Len(d)] = m[k + 1 - (i - Len(d))]
    BY <1>4, <2>1
  <2>5. m[k + 1 - (i - Len(d))] = s[k + 1 - (i - Len(d)) + 1]
    BY <1>2, <2>1
  <2> QED BY <2>2, <2>3, <2>4, <2>5
<1>9. /\ Len(d \o Reverse(SubSeq(s, 2, k + 1))) = Len(d) + k
      /\ Len(SubSeq(s, k + 2, Len(s))) = Len(s) - (k + 1)
  BY BatchMove
<1> QED BY <1>3, <1>7, <1>8, <1>9 DEF m, BatchOutcome

\* A batch steal takes the oldest root and moves k more to the thief's deque.
LEMMA BatchShuffles ==
    ASSUME TypeOK, TypeOK', NEW w \in Worker, StealBatchAndPop(w)
    PROVE  Shuffled(w)
<1>0. PICK n, m : n = Len(injector) /\ m = Len(deque[w])
  OBVIOUS
<1>1. /\ injector \in Seq(Task) /\ injector # <<>> /\ deque[w] \in Seq(Task)
      /\ n \in Nat \ {0} /\ m \in Nat
  BY <1>0, FrontLast, LenProperties DEF StealBatchAndPop, TypeOK
<1>2. PICK k \in 0 .. n - 1 :
         /\ deque' = [deque EXCEPT ![w] = deque[w] \o Reverse(SubSeq(injector, 2, k + 1))]
         /\ injector' = SubSeq(injector, k + 2, Len(injector))
  BY <1>0 DEF StealBatchAndPop
<1>3. /\ deque'[w] = deque[w] \o Reverse(SubSeq(injector, 2, k + 1))
      /\ \A v \in Worker \ {w} : deque'[v] = deque[v] /\ task'[v] = task[v]
      /\ task'[w] = Head(injector)
      /\ Busy(w)' /\ ~Busy(w) /\ ~Adding(w)' /\ ~Adding(w)
      /\ \A v \in Worker \ {w} : (Busy(v)' <=> Busy(v)) /\ (Adding(v)' <=> Adding(v))
      /\ \A v \in Worker \ {w} : ChildTask(v)' = ChildTask(v)
  <2>1. DOMAIN deque = Worker /\ DOMAIN task = Worker /\ DOMAIN pc = Worker
    BY DEF TypeOK
  <2> QED BY <1>2, <2>1 DEF StealBatchAndPop, Take, Goto, Busy, BusyPc, Adding, ChildTask
<1>4. /\ Len(injector') = n - (k + 1) /\ \A i \in 1 .. n - (k + 1) : injector'[i] = injector[i + k + 1]
      /\ Len(deque'[w]) = m + k /\ \A i \in 1 .. m : deque'[w][i] = deque[w][i]
      /\ \A i \in m + 1 .. m + k : deque'[w][i] = injector[m + k + 2 - i]
      /\ task'[w] = injector[1]
  <2>1. k \in 0 .. Len(injector) - 1
    BY <1>0
  <2>2. BatchOutcome(injector, k, deque[w])
    BY <1>1, <2>1, BatchElements, Zenon
  <2>3. Head(injector) = injector[1]
    BY <1>1
  <2> QED BY <1>0, <1>2, <1>3, <2>2, <2>3, Zenon DEF BatchOutcome
<1> DEFINE moved(a, i) == a = w /\ i \in m + 1 .. m + k
           fa(a, i) == IF (a = w /\ i = 0) \/ moved(a, i) THEN 0 ELSE a
           fi(a, i) == IF a = w /\ i = 0 THEN 1
                       ELSE IF moved(a, i) THEN m + k + 2 - i
                       ELSE IF a = 0 THEN i + k + 1 ELSE i
           inside(a, i) == a = 0 => i \in 1 .. n - (k + 1)
<1>5. FourKinds /\ FourKinds' /\ 0 \notin Worker
  BY HoldsIs, PlacesNext, WorkerType
<1>6. \A i \in 1 .. n : Holds(0, i, injector[i]) /\ \A t : Holds(0, i, t) => t = injector[i]
  BY <1>0, <1>5 DEF FourKinds
<1>7. \A i \in 1 .. m : \A t : Holds(w, i, t) => t = deque[w][i]
  BY <1>0, <1>1, <1>5 DEF FourKinds
<1>8. \A a, i, t : Holds(a, i, t)' => inside(a, i) /\ Holds(fa(a, i), fi(a, i), t)
  <2> SUFFICES ASSUME NEW a, NEW i, NEW t, Holds(a, i, t)'
               PROVE  inside(a, i) /\ Holds(fa(a, i), fi(a, i), t)
    OBVIOUS
  <2>1. CASE a = 0
    <3>1. i \in 1 .. n - (k + 1) /\ t = injector[i + k + 1]
      BY <1>4, <1>5, <2>1 DEF FourKinds
    <3>2. i + k + 1 \in 1 .. n
      BY <1>1, <3>1
    <3>3. fa(a, i) = 0 /\ fi(a, i) = i + k + 1
      BY <1>5, <2>1
    <3> QED BY <1>6, <2>1, <3>1, <3>2, <3>3
  <2>2. CASE a = w
    <3>0. (i \in 1 .. m + k /\ t = deque'[w][i]) \/ (i = 0 /\ t = injector[1])
      <4>1. /\ w # 0 /\ ~Adding(w)'
            /\ Len(deque'[w]) = m + k /\ task'[w] = injector[1]
        BY <1>3, <1>4, <1>5
      <4>2. Holds(w, i, t)'
        BY <2>2
      <4>3. \/ w = 0 /\ i \in 1 .. Len(injector') /\ t = injector'[i]
            \/ i \in 1 .. Len(deque'[w]) /\ t = deque'[w][i]
            \/ i = 0 /\ Busy(w)' /\ t = task'[w]
            \/ i = -1 /\ Adding(w)' /\ t = ChildTask(w)'
        BY <1>5, <4>2 DEF FourKinds
      <4> QED BY <4>1, <4>3
    <3>1. CASE i = 0 /\ t = injector[1]
      BY <1>1, <1>5, <1>6, <2>2, <3>1
    <3>2. CASE i \in m + 1 .. m + k /\ t = deque'[w][i]
      <4>1. i # 0 /\ m + k + 2 - i \in 1 .. n
        BY <1>1, <3>2
      <4>2. t = injector[m + k + 2 - i]
        BY <1>4, <3>2
      <4>3. fa(a, i) = 0 /\ fi(a, i) = m + k + 2 - i
        BY <2>2, <3>2, <4>1
      <4>4. inside(a, i)
        BY <1>5, <2>2
      <4> QED BY <1>6, <4>1, <4>2, <4>3, <4>4
    <3>3. CASE i \in 1 .. m /\ t = deque'[w][i]
      <4>1. i # 0 /\ i \notin m + 1 .. m + k /\ a # 0
        BY <1>1, <1>5, <2>2, <3>3
      <4>2. Holds(w, i, t)
        BY <1>0, <1>4, <1>5, <3>3 DEF FourKinds
      <4> QED BY <2>2, <4>1, <4>2
    <3>4. i \in 1 .. m + k => i \in 1 .. m \/ i \in m + 1 .. m + k
      BY <1>1
    <3> QED BY <3>0, <3>1, <3>2, <3>3, <3>4
  <2>3. CASE a # 0 /\ a # w
    <3>1. Holds(a, i, t)
      BY <1>3, <1>5, <2>3 DEF FourKinds
    <3> QED BY <2>3, <3>1
  <2> QED BY <2>1, <2>2, <2>3
<1>9. \A a, i, b, j : /\ inside(a, i) /\ inside(b, j)
                      /\ fa(a, i) = fa(b, j) /\ fi(a, i) = fi(b, j)
                      => a = b /\ i = j
  <2>1. \A c, x : inside(c, x) /\ fa(c, x) = 0 =>
           \/ c = w /\ x = 0 /\ fi(c, x) = 1
           \/ c = w /\ x \in m + 1 .. m + k /\ fi(c, x) = m + k + 2 - x
           \/ c = 0 /\ x \in 1 .. n - (k + 1) /\ fi(c, x) = x + k + 1
    BY <1>1, <1>5
  <2>2. \A c, x : fa(c, x) # 0 => fa(c, x) = c /\ fi(c, x) = x
    BY <1>1, <1>5
  <2> HIDE DEF fa, fi, inside
  <2>3. ASSUME NEW a, NEW i, NEW b, NEW j, inside(a, i), inside(b, j),
               fa(a, i) = fa(b, j), fi(a, i) = fi(b, j)
        PROVE  a = b /\ i = j
    <3>1. CASE fa(a, i) # 0
      BY <2>2, <2>3, <3>1
    <3>2. CASE fa(a, i) = 0
      <4>1. \/ a = w /\ i = 0 /\ fi(a, i) = 1
            \/ a = w /\ i \in m + 1 .. m + k /\ fi(a, i) = m + k + 2 - i
            \/ a = 0 /\ i \in 1 .. n - (k + 1) /\ fi(a, i) = i + k + 1
        BY <2>1, <2>3, <3>2
      <4>2. \/ b = w /\ j = 0 /\ fi(a, i) = 1
            \/ b = w /\ j \in m + 1 .. m + k /\ fi(a, i) = m + k + 2 - j
            \/ b = 0 /\ j \in 1 .. n - (k + 1) /\ fi(a, i) = j + k + 1
        BY <2>1, <2>3, <3>2
      <4> QED BY <1>1, <4>1, <4>2
    <3> QED BY <3>1, <3>2
  <2> QED BY <2>3
<1>10. \A a, i : i # 0 /\ inside(a, i) => fi(a, i) # 0
  BY <1>1
<1>11. ASSUME NEW a, NEW i, NEW t, Holds(a, i, t), i # 0
       PROVE  (\E b, j : Holds(b, j, t)' /\ j # 0) \/ t = injector[1]
  <2>1. CASE a = 0
    <3>1. i \in 1 .. n /\ t = injector[i]
      BY <1>0, <1>5, <1>11, <2>1 DEF FourKinds
    <3>2. CASE i = 1
      BY <3>1, <3>2
    <3>3. CASE i \in 2 .. k + 1
      <4>1. /\ m + k + 2 - i \in m + 1 .. m + k /\ m + k + 2 - (m + k + 2 - i) = i
            /\ m + k + 2 - i # 0 /\ m + k + 2 - i \in 1 .. m + k
        BY <1>1, <3>3
      <4>2. t = deque'[w][m + k + 2 - i]
        BY <1>4, <3>1, <4>1
      <4>3. Holds(w, m + k + 2 - i, t)'
        BY <1>4, <1>5, <4>1, <4>2 DEF FourKinds
      <4> QED BY <4>1, <4>3
    <3>4. CASE i \in k + 2 .. n
      <4>1. i - (k + 1) \in 1 .. n - (k + 1) /\ i - (k + 1) + k + 1 = i /\ i - (k + 1) # 0
        BY <1>1, <3>4
      <4>2. t = injector'[i - (k + 1)]
        BY <1>4, <3>1, <4>1
      <4>3. Holds(0, i - (k + 1), t)'
        BY <1>4, <1>5, <4>1, <4>2 DEF FourKinds
      <4> QED BY <4>1, <4>3
    <3> QED BY <1>1, <3>1, <3>2, <3>3, <3>4
  <2>2. CASE a = w
    <3>1. i \in 1 .. m /\ t = deque[w][i]
      BY <1>0, <1>3, <1>5, <1>11, <2>2 DEF FourKinds
    <3>2. i \in 1 .. m + k /\ t = deque'[w][i]
      BY <1>1, <1>4, <3>1
    <3>3. Holds(w, i, t)'
      BY <1>4, <1>5, <3>2 DEF FourKinds
    <3> QED BY <3>3, <1>11
  <2>3. CASE a # 0 /\ a # w
    <3>1. Holds(a, i, t)'
      BY <1>3, <1>5, <1>11, <2>3 DEF FourKinds
    <3> QED BY <3>1, <1>11
  <2> QED BY <2>1, <2>2, <2>3
<1> HIDE DEF fa, fi, inside
<1>12. TasksUnique => TasksUnique'
  BY <1>8, <1>9, ByPlace, PlacesNext DEF PartsByPlace
<1>13. \A a, i, t : Holds(a, i, t)' => \E b, j : Holds(b, j, t) /\ (i # 0 => j # 0)
  BY <1>8, <1>10
<1> QED BY <1>3, <1>4, <1>11, <1>12, <1>13 DEF Shuffled

\* local.push makes the announced task visible to thieves.
LEMMA PushShuffles ==
    ASSUME TypeOK, TypeOK', NEW w \in Worker, Push(w)
    PROVE  Shuffled(w)
<1>0. PICK n : n = Len(deque[w])
  OBVIOUS
<1>1. n \in Nat /\ deque[w] \in Seq(Task) /\ ChildTask(w) \in Task
  BY <1>0, ChildTaskType, LenProperties DEF Push, TypeOK
<1>2. /\ deque'[w] = Append(deque[w], ChildTask(w))
      /\ \A v \in Worker \ {w} : deque'[v] = deque[v] /\ ChildTask(v)' = ChildTask(v)
      /\ injector' = injector /\ task' = task
      /\ Adding(w) /\ ~Adding(w)' /\ Busy(w) /\ Busy(w)'
      /\ \A v \in Worker \ {w} : (Busy(v)' <=> Busy(v)) /\ (Adding(v)' <=> Adding(v))
  <2>1. DOMAIN deque = Worker /\ DOMAIN entry = Worker /\ DOMAIN pc = Worker
    BY DEF TypeOK
  <2> QED BY <2>1 DEF Push, Goto, Busy, BusyPc, Adding, ChildTask
<1>3. /\ Len(deque'[w]) = n + 1 /\ deque'[w][n + 1] = ChildTask(w)
      /\ \A i \in 1 .. n : deque'[w][i] = deque[w][i]
  BY <1>0, <1>1, <1>2, AppendProperties
<1>4. FourKinds /\ FourKinds' /\ 0 \notin Worker
  BY HoldsIs, PlacesNext, WorkerType
<1>5. \A i, t : Holds(w, i, t)' <=> \/ i \in 1 .. n + 1 /\ t = deque'[w][i]
                                    \/ i = 0 /\ t = task[w]
  <2>1. \A i, t : Holds(w, i, t)' <=> \/ i \in 1 .. Len(deque'[w]) /\ t = deque'[w][i]
                                      \/ i = 0 /\ Busy(w)' /\ t = task'[w]
                                      \/ i = -1 /\ Adding(w)' /\ t = ChildTask(w)'
    BY <1>4 DEF FourKinds
  <2> QED BY <1>2, <1>3, <2>1
<1>6. \A i, t : Holds(w, i, t) <=> \/ i \in 1 .. n /\ t = deque[w][i]
                                   \/ i = 0 /\ t = task[w]
                                   \/ i = -1 /\ t = ChildTask(w)
  <2>1. \A i, t : Holds(w, i, t) <=> \/ i \in 1 .. Len(deque[w]) /\ t = deque[w][i]
                                     \/ i = 0 /\ Busy(w) /\ t = task[w]
                                     \/ i = -1 /\ Adding(w) /\ t = ChildTask(w)
    BY <1>4 DEF FourKinds
  <2> QED BY <1>0, <1>2, <2>1
<1>7. \A a, i, t : Holds(a, i, t)' <=>
         IF a = w /\ i = n + 1 THEN t = ChildTask(w)
         ELSE Holds(a, i, t) /\ ~(a = w /\ i = -1)
  <2> TAKE a, i, t
  <2>1. CASE a = w
    BY <1>1, <1>3, <1>5, <1>6, <2>1
  <2>2. CASE a # w
    BY <1>2, <1>4, <2>2 DEF FourKinds
  <2> QED BY <2>1, <2>2
<1>8. Holds(w, -1, ChildTask(w)) /\ (\A t : Holds(w, -1, t) => t = ChildTask(w))
  BY <1>6
<1>9. n + 1 # 0 /\ \A t : ~Holds(w, n + 1, t)
  BY <1>1, <1>6
<1>10. TasksUnique => TasksUnique'
  BY <1>7, <1>8, <1>9, ByPlace, PlacesNext DEF PartsByPlace
<1>11. ASSUME NEW a, NEW i, NEW t, Holds(a, i, t), i # 0
       PROVE  \E b, j : Holds(b, j, t)' /\ j # 0
  <2>1. CASE a = w /\ i = -1
    <3>1. Holds(w, n + 1, t)'
      BY <1>7, <1>8, <1>11, <2>1
    <3> QED BY <3>1, <1>9
  <2>2. CASE ~(a = w /\ i = -1)
    <3>1. Holds(a, i, t)'
      BY <1>7, <1>9, <1>11, <2>2
    <3> QED BY <3>1, <1>11
  <2> QED BY <2>1, <2>2
<1>12. \A a, i, t : Holds(a, i, t)' => \E b, j : Holds(b, j, t) /\ (i # 0 => j # 0)
  BY <1>7, <1>8
<1> QED BY <1>10, <1>11, <1>12 DEF Shuffled

\* fetch_sub drops the task its worker held, and no other.
LEMMA FetchSubShuffles ==
    ASSUME TypeOK, TypeOK', NEW w \in Worker, FetchSub(w)
    PROVE  Shuffled(w)
<1>1. /\ injector' = injector /\ deque' = deque /\ entry' = entry
      /\ \A v \in Worker \ {w} : task'[v] = task[v] /\ pc'[v] = pc[v]
      /\ pc[w] = "sub" /\ pc'[w] = "top"
  BY DEF FetchSub, Goto, TypeOK
<1>2. /\ \A v \in Worker \ {w} : /\ Busy(v)' <=> Busy(v)
                                 /\ Adding(v)' <=> Adding(v)
                                 /\ ChildTask(v)' = ChildTask(v)
      /\ ~Busy(w)' /\ ~Adding(w) /\ ~Adding(w)'
  BY <1>1 DEF Busy, BusyPc, Adding, ChildTask
<1>3. FourKinds /\ FourKinds' /\ 0 \notin Worker
  BY HoldsIs, PlacesNext, WorkerType
<1>4. ASSUME NEW a, NEW i, NEW t
      PROVE  Holds(a, i, t)' <=> Holds(a, i, t) /\ ~(a = w /\ i = 0)
  <2>1. CASE a = w
    BY <1>1, <1>2, <1>3, <2>1 DEF FourKinds
  <2>2. CASE a # w
    BY <1>1, <1>2, <1>3, <2>2 DEF FourKinds
  <2> QED BY <2>1, <2>2
<1>5. TasksUnique => TasksUnique'
  BY <1>4, ByPlace, PlacesNext DEF PartsByPlace
<1> QED BY <1>4, <1>5 DEF Shuffled

\* A step that moves nothing is a special case.
LEMMA StillShuffles ==
    ASSUME NEW w, Still
    PROVE  Shuffled(w)
BY ByPlace, PlacesNext DEF Still, Shuffled, PartsByPlace

\* One new task t at a place of its own, which was free
Adds(b, j, t) ==
    /\ j # 0 /\ \A u : ~Holds(b, j, u)
    /\ \A a, i, u : Holds(a, i, u)' <=> Holds(a, i, u) \/ (a = b /\ i = j /\ u = t)

\* walk_parallel adds the task of the next root.
LEMMA EnqueueRootAdds ==
    ASSUME TypeOK, TypeOK', EnqueueRoot
    PROVE  Adds(0, Len(injector) + 1, RootTask(Roots[nextRoot]))
<1>0. PICK n, t : n = Len(injector) /\ t = RootTask(Roots[nextRoot])
  OBVIOUS
<1>1. t \in Task
  <2>1. Len(Roots) \in Nat /\ nextRoot \in 1 .. Len(Roots)
    BY TreeAssumption, LenProperties DEF EnqueueRoot, TypeOK
  <2>2. Roots[nextRoot] \in Path
    BY <2>1, TreeAssumption, ElementOfSeq
  <2> QED BY <1>0, <2>2, RootTaskType
<1>2. /\ n \in Nat /\ Len(injector') = n + 1 /\ injector'[n + 1] = t
      /\ \A i \in 1 .. n : injector'[i] = injector[i]
  BY <1>0, <1>1, AppendProperties, LenProperties DEF EnqueueRoot, TypeOK
<1>3. /\ deque' = deque /\ task' = task
      /\ \A v \in Worker : /\ Busy(v)' <=> Busy(v)
                           /\ Adding(v)' <=> Adding(v)
                           /\ ChildTask(v)' = ChildTask(v)
  BY DEF EnqueueRoot, Busy, Adding, ChildTask
<1>4. FourKinds /\ FourKinds' /\ 0 \notin Worker
  BY HoldsIs, PlacesNext, WorkerType
<1>5. ASSUME NEW a, NEW i, NEW u
      PROVE  Holds(a, i, u)' <=> Holds(a, i, u) \/ (a = 0 /\ i = n + 1 /\ u = t)
  <2>1. CASE a = 0
    <3>1. Holds(0, i, u)' <=> i \in 1 .. n + 1 /\ u = injector'[i]
      BY <1>2, <1>4 DEF FourKinds
    <3>2. Holds(0, i, u) <=> i \in 1 .. n /\ u = injector[i]
      BY <1>0, <1>4 DEF FourKinds
    <3>3. i \in 1 .. n + 1 <=> i \in 1 .. n \/ i = n + 1
      BY <1>2
    <3> QED BY <1>2, <2>1, <3>1, <3>2, <3>3
  <2>2. CASE a # 0
    BY <1>3, <1>4, <2>2 DEF FourKinds
  <2> QED BY <2>1, <2>2
<1>6. n + 1 # 0 /\ \A u : ~Holds(0, n + 1, u)
  BY <1>0, <1>2, <1>4 DEF FourKinds
<1>7. Adds(0, n + 1, t)
  BY <1>5, <1>6 DEF Adds
<1> QED BY <1>0, <1>7

\* The visit of a directory adds the task for it.
LEMMA VisitAdds ==
    ASSUME TypeOK, TypeOK', NEW w \in Worker, Visit(w), pc'[w] = "add"
    PROVE  Adds(w, -1, ChildTask(w)) /\ Enqueues(w) /\ entry'[w] = entry[w] /\ task' = task
<1>1. /\ injector' = injector /\ deque' = deque /\ task' = task
      /\ \A v \in Worker : entry'[v] = entry[v]
      /\ \A v \in Worker \ {w} : pc'[v] = pc[v]
      /\ pc[w] = "visit"
  BY DEF Visit, Goto, TypeOK
<1>2. Enqueues(w)
  BY DEF Visit, Goto, TypeOK
<1>3. /\ \A v \in Worker : ChildTask(v)' = ChildTask(v) /\ (Busy(v)' <=> Busy(v))
      /\ \A v \in Worker \ {w} : Adding(v)' <=> Adding(v)
      /\ Adding(w)' /\ ~Adding(w)
  BY <1>1 DEF ChildTask, Busy, BusyPc, Adding
<1>4. FourKinds /\ FourKinds' /\ 0 \notin Worker
  BY HoldsIs, PlacesNext, WorkerType
<1>5. ASSUME NEW a, NEW i, NEW u
      PROVE  Holds(a, i, u)' <=> Holds(a, i, u) \/ (a = w /\ i = -1 /\ u = ChildTask(w))
  <2>1. CASE a = w
    BY <1>1, <1>3, <1>4, <2>1 DEF FourKinds
  <2>2. CASE a # w
    BY <1>1, <1>3, <1>4, <2>2 DEF FourKinds
  <2> QED BY <2>1, <2>2
<1>6. \A u : ~Holds(w, -1, u)
  BY <1>3, <1>4 DEF FourKinds
<1>7. Adds(w, -1, ChildTask(w))
  <2>1. -1 # 0
    OBVIOUS
  <2> QED BY <1>5, <1>6, <2>1 DEF Adds
<1> QED BY <1>1, <1>2, <1>7

\* Every step of a worker moves tasks about, unless it adds the one it visited.
LEMMA StepMoves ==
    ASSUME TypeOK, TypeOK', NEW w \in Worker, Step(w)
    PROVE  Shuffled(w) \/ (Visit(w) /\ pc'[w] = "add")
<1>1. CASE Pop(w) \/ Steal(w) \/ StealBatchAndPop(w)
  BY <1>1, PopShuffles, StealShuffles, BatchShuffles
<1>2. CASE Push(w) \/ FetchSub(w)
  BY <1>2, PushShuffles, FetchSubShuffles
<1>3. CASE FetchAdd(w)
  <2>1. /\ injector' = injector /\ deque' = deque /\ task' = task /\ entry' = entry
        /\ \A v \in Worker : (Busy(v)' <=> Busy(v)) /\ (Adding(v)' <=> Adding(v))
    BY <1>3 DEF FetchAdd, Goto, TypeOK, Busy, BusyPc, Adding
  <2> QED BY <2>1, StillIf, StillShuffles
<1>4. CASE Quiet(w) /\ ~(Visit(w) /\ pc'[w] = "add")
  <2>1. ~Adding(w) /\ ~Adding(w)'
    <3>1. DOMAIN pc = Worker
      BY DEF TypeOK
    <3> USE <3>1 DEF Adding, Goto
    <3>2. CASE CheckQuit(w) \/ PopNone(w) \/ InjectorMiss(w) \/ StealMiss(w) \/ ScanEnd(w) \/ LoadPending(w)
      BY <3>2 DEF CheckQuit, PopNone, InjectorMiss, StealMiss, ScanEnd, LoadPending
    <3>3. CASE VisitRoot(w) \/ CheckDepth(w) \/ Acquire(w) \/ AcquireAborted(w)
      BY <3>3 DEF VisitRoot, CheckDepth, Acquire, AcquireAborted
    <3>4. CASE Open(w) \/ OpenFails(w) \/ OpenExhausted(w) \/ OpenAbs(w) \/ OpenAbsExhausted(w)
      BY <3>4 DEF Open, OpenFails, OpenExhausted, OpenAbs, OpenAbsExhausted, Opened, GiveUp
    <3>5. CASE ReadFrom(w) \/ ReadFromFails(w) \/ EndOfDir(w) \/ ReadError(w) \/ SkipEntry(w)
      BY <3>5 DEF ReadFrom, ReadFromFails, EndOfDir, ReadError, SkipEntry, GiveUp
    <3>6. CASE NextEntry(w) \/ Visit(w)
      BY <1>4, <3>6 DEF NextEntry, Visit
    <3> QED BY <1>4, <3>2, <3>3, <3>4, <3>5, <3>6 DEF Quiet
  <2> QED BY <1>4, <2>1, StillStep, StillShuffles
<1> QED BY <1>1, <1>2, <1>3, <1>4 DEF Step, Finding, Opening, Reading, Quiet

\* The other steps move nothing, apart from EnqueueRoot.
LEMMA OtherMoves ==
    ASSUME TypeOK, TypeOK', SkipRoot \/ Spawn \/ Refill \/ Returned \/ UNCHANGED vars
    PROVE  Still
<1>1. /\ injector' = injector /\ deque' = deque /\ task' = task /\ entry' = entry
  BY DEF SkipRoot, Spawn, Refill, Returned, vars
<1>2. \A v \in Worker : (Busy(v)' <=> Busy(v)) /\ (Adding(v)' <=> Adding(v))
  BY DEF SkipRoot, Spawn, Refill, Returned, vars, Busy, BusyPc, Adding
<1> QED BY <1>1, <1>2, StillIf
-----------------------------------------------------------------------------
(* Scope                                                                   *)

\* What the tree says of an entry below another.
LEMMA KidFacts ==
    ASSUME NEW p \in Path, NEW q \in Kids(p)
    PROVE  /\ q \in Path /\ ~IsRoot(q) /\ Parent[q] = p
           /\ Depth[q] = Depth[p] + 1 /\ Above[q] = Above[p] \cup {p}
           /\ RootOf[q] = RootOf[p] /\ p \in Path
<1>1. q \in Path /\ Parent[q] = p
  BY DEF Kids
<1> QED BY <1>1, TreeAssumption

\* A root has no directory above it.
LEMMA RootFacts ==
    ASSUME NEW r \in Path, IsRoot(r)
    PROVE  Parent[r] = None /\ Depth[r] = 0 /\ Above[r] = {} /\ RootOf[r] = r
BY TreeAssumption

\* It is the only kind of path that has none.
LEMMA RootIff ==
    ASSUME NEW p \in Path
    PROVE  IsRoot(p) <=> Parent[p] = None
<1>1. CASE IsRoot(p)
  BY <1>1, RootFacts
<1>2. CASE ~IsRoot(p)
  <2>1. Parent[p] \in Path /\ None \notin Path
    BY <1>2, TreeAssumption
  <2> QED BY <1>2, <2>1
<1> QED BY <1>1, <1>2

\* The entries of two directories are not the same.
LEMMA KidsApart ==
    ASSUME NEW p, NEW q, p # q
    PROVE  Kids(p) \cap Kids(q) = {}
BY DEF Kids

\* The next root is a path, one of the roots.
LEMMA NextRootType ==
    ASSUME TypeOK, nextRoot <= Len(Roots)
    PROVE  /\ nextRoot \in 1 .. Len(Roots) /\ Len(Roots) \in Nat
           /\ Roots[nextRoot] \in Path /\ IsRoot(Roots[nextRoot])
<1>1. Len(Roots) \in Nat /\ nextRoot \in 1 .. Len(Roots)
  BY TreeAssumption, LenProperties DEF TypeOK
<1>2. Roots[nextRoot] \in Path
  BY <1>1, TreeAssumption, ElementOfSeq
<1>3. DOMAIN Roots = 1 .. Len(Roots)
  BY TreeAssumption, LenProperties
<1> QED BY <1>1, <1>2, <1>3 DEF IsRoot, Range

\* walk_parallel's tasks agree with the tree.
LEMMA RootTaskGood ==
    ASSUME NEW r \in Path, IsRoot(r)
    PROVE  GoodTask(RootTask(r))
<1>1. RootTask(r) \in Task
  BY RootTaskType
<1>2. {Id[a] : a \in Above[r]} = {}
  BY RootFacts
<1> QED BY <1>1, <1>2, RootFacts DEF GoodTask, RootTask

\* So do the ones descend makes of a directory that is in scope.
LEMMA ChildTaskGood ==
    ASSUME TypeOK, NEW w \in Worker, Busy(w), GoodTask(task[w]), Expandable(task[w].path),
           entry[w] \in Kids(task[w].path), Enqueues(w)
    PROVE  GoodTask(ChildTask(w))
<1>0. task[w].path \in Path /\ entry[w] \in Path
  BY DEF GoodTask, Task, Kids
<1>1. ChildTask(w) \in Task
  <2>1. Id[task[w].path] \in Range(Id)
    BY <1>0, EntryAssumption DEF Range
  <2> QED BY <1>0, <2>1 DEF GoodTask, ChildTask, Task
<1>2. PICK p, q : p = task[w].path /\ q = entry[w]
  OBVIOUS
<1>3. /\ q \in Path /\ ~IsRoot(q) /\ Parent[q] = p
      /\ Depth[q] = Depth[p] + 1 /\ Above[q] = Above[p] \cup {p}
      /\ RootOf[q] = RootOf[p] /\ p \in Path
  BY <1>0, <1>2, KidFacts
<1>4. {Id[a] : a \in Above[q]} = {Id[a] : a \in Above[p]} \cup {Id[p]}
  BY <1>3
<1>5. /\ task[w].depth = Depth[p] /\ task[w].rootDev = Dev[RootOf[p]]
      /\ task[w].ancestors = IF FollowSymlinks THEN {Id[a] : a \in Above[p]} ELSE {}
  BY <1>2 DEF GoodTask
<1>6. DescendsInto(q)
  BY <1>2 DEF Enqueues
<1>7. /\ ChildTask(w).path = q /\ ChildTask(w).parent = p
      /\ ChildTask(w).follow = (Type[q] = "Symlink") /\ ChildTask(w).depth = Depth[q]
      /\ ChildTask(w).rootDev = Dev[RootOf[q]]
      /\ ChildTask(w).ancestors = IF FollowSymlinks THEN {Id[a] : a \in Above[q]} ELSE {}
  BY <1>2, <1>3, <1>4, <1>5 DEF ChildTask
<1> QED BY <1>1, <1>2, <1>3, <1>6, <1>7 DEF GoodTask

\* The tasks of the next state agree with the tree.
LEMMA TasksGoodNext ==
    ASSUME TypeOK, TypeOK', Scope, [Next]_vars
    PROVE  TasksGood'
<1>1. \A a, i, t : Holds(a, i, t) => GoodTask(t)
  BY ByPlace DEF PartsByPlace, Scope
<1> SUFFICES ASSUME NEW a, NEW i, NEW t, Holds(a, i, t)' PROVE GoodTask(t)
  BY PlacesNext DEF PartsByPlace, GoodTask
<1>2. CASE EnqueueRoot
  <2>1. PICK r : r = Roots[nextRoot]
    OBVIOUS
  <2>2. GoodTask(RootTask(r))
    BY <1>2, <2>1, NextRootType, RootTaskGood DEF EnqueueRoot
  <2>3. PICK j : Adds(0, j, RootTask(r))
    BY <1>2, <2>1, EnqueueRootAdds
  <2> QED BY <1>1, <2>2, <2>3 DEF Adds
<1>3. CASE SkipRoot \/ Spawn \/ Refill \/ Returned \/ UNCHANGED vars
  BY <1>1, <1>3, OtherMoves DEF Still
<1>4. ASSUME NEW w \in Worker, Step(w) PROVE GoodTask(t)
  <2>1. CASE Shuffled(w)
    BY <1>1, <2>1 DEF Shuffled
  <2>2. CASE Visit(w) /\ pc'[w] = "add"
    <3>0. PICK c : c = ChildTask(w)
      OBVIOUS
    <3>1. Adds(w, -1, c) /\ Enqueues(w)
      BY <2>2, <3>0, VisitAdds
    <3>2. pc[w] = "visit" /\ Busy(w)
      BY <2>2 DEF Visit, Busy, BusyPc
    <3>3. Holds(w, 0, task[w])
      BY <3>2, HoldsIs DEF FourKinds
    <3>4. Expandable(task[w].path) /\ entry[w] \in Kids(task[w].path)
      BY <3>2 DEF Scope, InTree, AnchorPc, StreamPc
    <3>5. GoodTask(c)
      BY <1>1, <3>0, <3>1, <3>2, <3>3, <3>4, ChildTaskGood
    <3> QED BY <1>1, <3>1, <3>5 DEF Adds
  <2> QED BY <1>4, <2>1, <2>2, StepMoves
<1> QED BY <1>2, <1>3, <1>4 DEF Next

\* A worker's place in the tree, after its own step.
LEMMA InTreeNext ==
    ASSUME TypeOK, TypeOK', Scope, TasksGood', NEW w \in Worker, Step(w)
    PROVE  InTree(w)'
<1>0. /\ DOMAIN pc = Worker /\ DOMAIN task = Worker /\ DOMAIN entry = Worker /\ DOMAIN todo = Worker
      /\ InTree(w)
  BY DEF TypeOK, Scope
<1>1. Busy(w) => GoodTask(task[w])
  <2>1. Busy(w) => Holds(w, 0, task[w])
    BY HoldsIs DEF FourKinds
  <2> QED BY <2>1, ByPlace DEF PartsByPlace, Scope
<1>2. Busy(w)' => GoodTask(task'[w])
  <2>1. PICK u : u = task'[w]
    OBVIOUS
  <2>2. Busy(w)' => Holds(w, 0, u)'
    BY <2>1, PlacesNext DEF FourKinds
  <2>3. Holds(w, 0, u)' => GoodTask(u)
    BY PlacesNext DEF PartsByPlace, GoodTask
  <2> QED BY <2>1, <2>2, <2>3
<1> USE <1>0 DEF InTree, Goto, BelowLimit, AnchorPc, StreamPc, Adding
<1>3. CASE CheckQuit(w) \/ PopNone(w) \/ InjectorMiss(w) \/ StealMiss(w) \/ ScanEnd(w) \/ LoadPending(w)
  BY <1>3 DEF CheckQuit, PopNone, InjectorMiss, StealMiss, ScanEnd, LoadPending
<1>4. CASE Pop(w) \/ StealBatchAndPop(w) \/ Steal(w)
  <2>1. PICK t : Take(w, t)
    BY <1>4 DEF Pop, StealBatchAndPop, Steal
  <2>2. task'[w] = t /\ pc'[w] = IF t.parent = None THEN "self" ELSE "descend"
    BY <2>1 DEF Take
  <2>3. Busy(w)'
    BY <2>2 DEF Busy, BusyPc
  <2>4. t.parent = Parent[t.path] /\ t.path \in Path
    BY <1>2, <2>2, <2>3 DEF GoodTask, Task
  <2>5. t.parent = None => IsRoot(t.path)
    BY <2>4, RootIff
  <2> QED BY <2>2, <2>5
<1>5. CASE VisitRoot(w) \/ Acquire(w) \/ AcquireAborted(w)
  BY <1>5 DEF VisitRoot, Acquire, AcquireAborted
<1>6. CASE CheckDepth(w)
  <2>1. Busy(w)
    BY <1>6 DEF CheckDepth, Busy, BusyPc
  <2>2. task[w].depth \in Nat
    BY <1>1, <2>1 DEF GoodTask, Task
  <2> QED BY <1>6, <2>2, ArgsAssumption DEF CheckDepth
<1>7. CASE OpenFails(w) \/ OpenExhausted(w) \/ OpenAbsExhausted(w) \/ ReadFromFails(w)
  BY <1>7 DEF OpenFails, OpenExhausted, OpenAbsExhausted, ReadFromFails, GiveUp
<1>8. CASE Open(w) \/ OpenAbs(w)
  <2>1. Opened(w) /\ Busy(w) /\ (MaxDepth # None => task[w].depth < MaxDepth)
    BY <1>8 DEF Open, OpenAbs, Busy, BusyPc
  <2>2. ASSUME ~Pruned(task[w]) PROVE Expandable(task[w].path)
    <3>1. PICK t : t = task[w]
      OBVIOUS
    <3>2. GoodTask(t) /\ Openable(t) /\ ~Pruned(t) /\ (MaxDepth # None => t.depth < MaxDepth)
      BY <1>1, <2>1, <2>2, <3>1 DEF Opened
    <3>3. FollowSymlinks => \A a \in Above[t.path] : Id[a] # Id[t.path]
      BY <3>2 DEF GoodTask, Pruned
    <3>4. Expandable(t.path)
      BY <3>2, <3>3 DEF GoodTask, Openable, Pruned, Expandable
    <3> QED BY <3>1, <3>4
  <2>3. task' = task /\ todo' = todo /\ entry' = entry
        /\ pc'[w] = IF Pruned(task[w]) THEN "sub" ELSE "stream"
    BY <2>1 DEF Opened
  <2>4. Expandable(task[w].path)' <=> Expandable(task[w].path)
    BY <2>3 DEF Expandable
  <2> QED BY <2>1, <2>2, <2>3, <2>4
<1>9. CASE ReadFrom(w)
  <2>1. /\ pc[w] = "stream" /\ pc'[w] = "read" /\ task' = task
        /\ todo'[w] = Kids(task[w].path)
    BY <1>9 DEF ReadFrom
  <2> QED BY <2>1
<1>10. CASE NextEntry(w) \/ SkipEntry(w) \/ ReadError(w) \/ EndOfDir(w)
  <2>1. /\ pc[w] = "read" /\ task' = task /\ todo'[w] \subseteq todo[w]
        /\ pc'[w] \in {"read", "visit", "sub"}
        /\ pc'[w] = "visit" => entry'[w] \in todo[w] \ Excluded
    BY <1>10 DEF NextEntry, SkipEntry, ReadError, EndOfDir
  <2> QED BY <2>1
<1>11. CASE Visit(w)
  <2>1. /\ pc[w] = "visit" /\ task' = task /\ todo' = todo
        /\ pc'[w] \in {"read", "add", "sub"}
        /\ pc'[w] = "add" => entry'[w] = entry[w] /\ Enqueues(w)
    BY <1>11 DEF Visit
  <2> QED BY <2>1 DEF Enqueues
<1>12. CASE FetchAdd(w) \/ Push(w) \/ FetchSub(w)
  BY <1>12 DEF FetchAdd, Push, FetchSub, Enqueues
<1> QED BY <1>3, <1>4, <1>5, <1>6, <1>7, <1>8, <1>9, <1>10, <1>11, <1>12
        DEF Step, Finding, Opening, Reading

\* Every step preserves Scope.
LEMMA ScopeNext ==
    ASSUME TypeOK, TypeOK', Scope, [Next]_vars
    PROVE  Scope'
<1>1. TasksGood'
  BY TasksGoodNext
<1>2. ASSUME NEW v \in Worker, pc'[v] = pc[v], task'[v] = task[v],
             entry'[v] = entry[v], todo'[v] = todo[v]
      PROVE  InTree(v)'
  BY <1>2 DEF Scope, InTree, Adding, Enqueues
<1>3. CASE EnqueueRoot \/ SkipRoot \/ Refill \/ Returned \/ UNCHANGED vars
  <2>1. pc' = pc /\ task' = task /\ entry' = entry /\ todo' = todo
    BY <1>3 DEF EnqueueRoot, SkipRoot, Refill, Returned, vars
  <2> QED BY <1>1, <1>2, <2>1 DEF Scope
<1>4. CASE Spawn
  <2>1. \A v \in Worker : pc'[v] = "top"
    BY <1>4 DEF Spawn
  <2>2. \A v \in Worker : InTree(v)'
    BY <2>1 DEF InTree, Adding, BelowLimit, AnchorPc, StreamPc
  <2> QED BY <1>1, <2>2 DEF Scope
<1>5. ASSUME NEW w \in Worker, Step(w) PROVE Scope'
  <2>1. Local(w)
    BY <1>5, StepLocal
  <2>2. InTree(w)'
    BY <1>1, <1>5, InTreeNext
  <2>3. \A v \in Worker : v # w => InTree(v)'
    BY <1>2, <2>1 DEF Local
  <2> QED BY <1>1, <2>2, <2>3 DEF Scope
<1> QED BY <1>3, <1>4, <1>5 DEF Next
-----------------------------------------------------------------------------
(* Visits                                                                  *)

\* What the next step of w may visit or give up
Reach(w) ==
    IF pc[w] = "self" THEN {task[w].path}
    ELSE IF Busy(w) THEN Kids(task[w].path) ELSE {}

\* A step of w that visits q, or gives up the entries of S, or neither
Notes(w) ==
    \/ visited' = visited /\ lost' = lost
    \/ \E q \in Reach(w) : q \notin Gone /\ visited' = visited \cup {q} /\ lost' = lost
    \/ \E S \in SUBSET Reach(w) : Fresh(S) /\ visited' = visited /\ lost' = lost \cup S

\* A worker notes only what its task reaches, and nothing twice.
LEMMA StepNotes ==
    ASSUME TypeOK, NEW w \in Worker, InTree(w), Progress(w), Step(w)
    PROVE  Notes(w)
<1>1. CASE Finding(w)
  <2>1. visited' = visited /\ lost' = lost
    BY <1>1, Zenon DEF Finding, CheckQuit, Pop, PopNone, StealBatchAndPop, InjectorMiss, Steal,
       StealMiss, ScanEnd, LoadPending, Take
  <2> QED BY <2>1 DEF Notes
<1>2. CASE \/ CheckDepth(w) \/ Acquire(w) \/ AcquireAborted(w) \/ Open(w) \/ OpenAbs(w) \/ ReadFrom(w)
           \/ NextEntry(w) \/ EndOfDir(w) \/ FetchAdd(w) \/ Push(w) \/ FetchSub(w)
  <2>1. visited' = visited /\ lost' = lost
    BY <1>2, Zenon DEF CheckDepth, Acquire, AcquireAborted, Open, OpenAbs, Opened, ReadFrom,
       NextEntry, EndOfDir, FetchAdd, Push, FetchSub
  <2> QED BY <2>1 DEF Notes
<1>3. CASE VisitRoot(w)
  <2>1. task[w].path \in Reach(w) /\ task[w].path \notin Gone
    BY <1>3 DEF VisitRoot, Reach, Progress
  <2> QED BY <1>3, <2>1 DEF VisitRoot, Notes
<1>4. CASE OpenFails(w) \/ OpenExhausted(w) \/ OpenAbsExhausted(w) \/ ReadFromFails(w)
  <2>1. pc[w] \in {"open", "openabs", "stream"}
    BY <1>4 DEF OpenFails, OpenExhausted, OpenAbsExhausted, ReadFromFails
  <2>2. Kids(task[w].path) \subseteq Reach(w) /\ Fresh(Kids(task[w].path))
    BY <2>1 DEF Reach, Busy, BusyPc, Progress, UnreadPc
  <2>3. CASE GiveUp(w)
    BY <2>2, <2>3 DEF GiveUp, Notes
  <2>4. CASE ~GiveUp(w)
    BY <1>4, <2>4 DEF OpenFails, OpenExhausted, OpenAbsExhausted, ReadFromFails, Notes
  <2> QED BY <2>3, <2>4
<1>5. CASE SkipEntry(w) \/ ReadError(w)
  <2>1. pc[w] = "read" /\ todo[w] \subseteq Reach(w) /\ Fresh(todo[w])
    BY <1>5 DEF SkipEntry, ReadError, Reach, Busy, BusyPc, Progress, InTree, StreamPc
  <2>2. CASE ReadError(w)
    BY <2>1, <2>2 DEF ReadError, Notes
  <2>3. CASE SkipEntry(w)
    <3>1. PICK q \in todo[w] : lost' = lost \cup {q}
      BY <2>3 DEF SkipEntry
    <3>2. {q} \in SUBSET Reach(w) /\ Fresh({q}) /\ visited' = visited
      BY <2>1, <2>3, <3>1 DEF SkipEntry, Fresh
    <3> QED BY <3>1, <3>2 DEF Notes
  <2> QED BY <1>5, <2>2, <2>3
<1>6. CASE Visit(w)
  <2>1. entry[w] \in Reach(w) /\ entry[w] \notin Gone
    BY <1>6 DEF Visit, Reach, Busy, BusyPc, Progress, InTree
  <2> QED BY <1>6, <2>1 DEF Visit, Notes
<1> QED BY <1>1, <1>2, <1>3, <1>4, <1>5, <1>6 DEF Step, Opening, Reading

\* Nothing else than w's own task is within its reach.
LEMMA ReachOwn ==
    ASSUME TypeOK, Scope, TasksUnique, NEW w \in Worker, NEW a, NEW i, NEW t,
           Holds(a, i, t), ~(a = w /\ i = 0)
    PROVE  Kids(t.path) \cap Reach(w) = {} /\ (IsRoot(t.path) => t.path \notin Reach(w))
<1>1. CASE ~Busy(w)
  BY <1>1 DEF Reach, Busy, BusyPc
<1>2. CASE Busy(w)
  <2>1. Holds(w, 0, task[w])
    BY <1>2, HoldsIs DEF FourKinds
  <2>2. GoodTask(task[w]) /\ GoodTask(t) /\ t.path # task[w].path
    BY <2>1, ByPlace DEF PartsByPlace, Scope
  <2>3. t.path \in Path /\ task[w].path \in Path
    BY <2>2 DEF GoodTask, Task
  <2>4. PICK p, q : p = t.path /\ q = task[w].path
    OBVIOUS
  <2>5. Kids(p) \cap Kids(q) = {} /\ (\A x \in Kids(p) : ~IsRoot(x)) /\ (\A x \in Kids(q) : ~IsRoot(x))
    BY <2>2, <2>3, <2>4, KidsApart, KidFacts
  <2>6. pc[w] = "self" => IsRoot(q)
    BY <2>4 DEF Scope, InTree
  <2> QED BY <1>2, <2>2, <2>4, <2>5, <2>6 DEF Reach
<1> QED BY <1>1, <1>2

\* A task for an entry below a root exists only once the entry was visited.
LEMMA HeldVisited ==
    ASSUME TypeOK, Scope, Visits, NEW a, NEW i, NEW t, Holds(a, i, t), ~IsRoot(t.path)
    PROVE  t.path \in visited
<1>1. CASE i # 0
  <2>1. t \in Waiting
    BY <1>1, ByPlace DEF PartsByPlace
  <2> QED BY <2>1 DEF Visits, WaitingFresh
<1>2. CASE i = 0
  <2>1. a \in Worker /\ Busy(a) /\ t = task[a]
    BY <1>2, HoldsIs DEF FourKinds
  <2>2. pc[a] # "self"
    BY <2>1 DEF Scope, InTree
  <2> QED BY <2>1, <2>2 DEF Visits, Progress
<1> QED BY <1>1, <1>2

\* What w notes leaves the other tasks, waiting or held, as fresh as they were.
LEMMA OthersFresh ==
    ASSUME TypeOK, Scope, TasksUnique, NEW w \in Worker, Notes(w), NEW a, NEW i, NEW t,
           Holds(a, i, t), ~(a = w /\ i = 0)
    PROVE  /\ visited \subseteq visited' /\ Gone \subseteq Gone'
           /\ \A S : S \subseteq Kids(t.path) /\ Fresh(S) => Fresh(S)'
           /\ IsRoot(t.path) /\ t.path \notin Gone => t.path \notin Gone'
<1>1. visited \subseteq visited' /\ Gone \subseteq Gone' /\ Gone' \subseteq Gone \cup Reach(w)
  BY DEF Notes, Gone
<1>2. Kids(t.path) \cap Reach(w) = {} /\ (IsRoot(t.path) => t.path \notin Reach(w))
  BY ReachOwn
<1>3. ASSUME NEW S, S \subseteq Kids(t.path), Fresh(S) PROVE Fresh(S)'
  BY <1>1, <1>2, <1>3 DEF Fresh
<1> QED BY <1>1, <1>2, <1>3

\* find_task answers with a task that was waiting.
LEMMA TakesWaiting ==
    ASSUME TypeOK, NEW w \in Worker, Pop(w) \/ Steal(w) \/ StealBatchAndPop(w)
    PROVE  \E t \in Waiting : Take(w, t)
<1>1. \A a, i, t : i # 0 /\ Holds(a, i, t) => t \in Waiting
  BY ByPlace DEF PartsByPlace
<1>2. FourKinds
  BY HoldsIs
<1>3. CASE Pop(w)
  <2>1. PICK n : n = Len(deque[w])
    OBVIOUS
  <2>2. n \in Nat \ {0} /\ Last(deque[w]) = deque[w][n]
    BY <1>3, <2>1, FrontLast DEF Pop, TypeOK, Last
  <2>3. Holds(w, n, deque[w][n])
    BY <1>2, <2>1, <2>2 DEF FourKinds
  <2> QED BY <1>1, <1>3, <2>2, <2>3 DEF Pop
<1>4. CASE Steal(w)
  <2>1. PICK v \in Worker : v = victim[w]
    BY <1>4 DEF Steal
  <2>2. deque[v] \in Seq(Task) /\ deque[v] # <<>>
    BY <1>4, <2>1 DEF Steal, TypeOK
  <2>3. Len(deque[v]) \in Nat \ {0} /\ Head(deque[v]) = deque[v][1]
    BY <2>2, HeadTailProperties, EmptySeq, LenProperties
  <2>4. Holds(v, 1, deque[v][1])
    BY <1>2, <2>3 DEF FourKinds
  <2>5. deque[v][1] \in Waiting
    BY <1>1, <2>4
  <2> QED BY <1>4, <2>1, <2>3, <2>5 DEF Steal
<1>5. CASE StealBatchAndPop(w)
  <2>1. injector \in Seq(Task) /\ injector # <<>>
    BY <1>5 DEF StealBatchAndPop, TypeOK
  <2>2. Len(injector) \in Nat \ {0} /\ Head(injector) = injector[1]
    BY <2>1, HeadTailProperties, EmptySeq, LenProperties
  <2>3. Holds(0, 1, injector[1])
    BY <1>2, <2>2 DEF FourKinds
  <2>4. injector[1] \in Waiting
    BY <1>1, <2>3
  <2> QED BY <1>5, <2>2, <2>4 DEF StealBatchAndPop
<1> QED BY <1>3, <1>4, <1>5

\* No entry lists itself.
LEMMA NotOwnKid ==
    ASSUME NEW p \in Path
    PROVE  p \notin Kids(p)
<1>1. Depth[p] \in Nat
  BY TreeAssumption
<1> SUFFICES ASSUME p \in Kids(p) PROVE FALSE
  OBVIOUS
<1>2. Depth[p] = Depth[p] + 1
  BY KidFacts
<1> QED BY <1>1, <1>2

\* A worker's progress, after its own step.
LEMMA ProgressNext ==
    ASSUME TypeOK, TypeOK', Scope, Visits, NEW w \in Worker, Step(w)
    PROVE  Progress(w)'
<1>0. /\ DOMAIN pc = Worker /\ DOMAIN task = Worker /\ DOMAIN entry = Worker /\ DOMAIN todo = Worker
      /\ InTree(w) /\ Progress(w)
  BY DEF TypeOK, Scope, Visits
<1> USE <1>0 DEF Progress, Goto, Busy, BusyPc, UnreadPc, StreamPc, Adding
<1>1. CASE CheckQuit(w) \/ PopNone(w) \/ InjectorMiss(w) \/ StealMiss(w) \/ ScanEnd(w) \/ LoadPending(w)
  BY <1>1 DEF CheckQuit, PopNone, InjectorMiss, StealMiss, ScanEnd, LoadPending
<1>2. CASE Pop(w) \/ StealBatchAndPop(w) \/ Steal(w)
  <2>1. PICK t \in Waiting : Take(w, t)
    BY <1>2, TakesWaiting
  <2>2. /\ task'[w] = t /\ pc'[w] = IF t.parent = None THEN "self" ELSE "descend"
        /\ Gone' = Gone /\ visited' = visited
    BY <2>1 DEF Take, Gone
  <2>3. Fresh(Kids(t.path)) /\ IF IsRoot(t.path) THEN t.path \notin Gone ELSE t.path \in visited
    BY <2>1 DEF Visits, WaitingFresh
  <2>4. GoodTask(t)
    BY <2>1, ByPlace DEF PartsByPlace, Scope
  <2>5. t.parent = None <=> IsRoot(t.path)
    BY <2>4, RootIff DEF GoodTask, Task
  <2> QED BY <2>2, <2>3, <2>5 DEF Fresh
<1>3. CASE VisitRoot(w)
  <2>1. /\ pc[w] = "self" /\ pc'[w] \in {"sub", "descend"} /\ task' = task
        /\ visited' = visited \cup {task[w].path} /\ lost' = lost
    BY <1>3 DEF VisitRoot
  <2>2. task[w].path \in Path
    BY <2>1 DEF TypeOK, Task
  <2>3. task[w].path \notin Kids(task[w].path)
    BY <2>2, NotOwnKid
  <2> QED BY <2>1, <2>3 DEF Fresh, Gone
<1>4. CASE \/ CheckDepth(w) \/ Acquire(w) \/ AcquireAborted(w) \/ Open(w) \/ OpenAbs(w)
  <2>1. /\ pc[w] \in UnreadPc \ {"self"} /\ pc'[w] \in (UnreadPc \ {"self"}) \cup {"sub"}
        /\ task' = task /\ visited' = visited /\ lost' = lost
    BY <1>4 DEF CheckDepth, Acquire, AcquireAborted, Open, OpenAbs, Opened
  <2> QED BY <2>1 DEF Fresh, Gone
<1>5. CASE OpenFails(w) \/ OpenExhausted(w) \/ OpenAbsExhausted(w) \/ ReadFromFails(w)
  <2>1. /\ pc[w] \in UnreadPc \ {"self"} /\ task' = task /\ visited' = visited
        /\ pc'[w] = "sub" \/ (pc'[w] = "openabs" /\ lost' = lost)
    BY <1>5 DEF OpenFails, OpenExhausted, OpenAbsExhausted, ReadFromFails, GiveUp
  <2> QED BY <2>1 DEF Fresh, Gone
<1>6. CASE ReadFrom(w)
  BY <1>6 DEF ReadFrom, Fresh, Gone
<1>7. CASE NextEntry(w)
  <2>1. PICK q \in todo[w] :
           /\ todo'[w] = todo[w] \ {q} /\ pc[w] = "read" /\ task' = task
           /\ visited' = visited /\ lost' = lost
           /\ pc'[w] = "read" \/ (pc'[w] = "visit" /\ entry'[w] = q)
    BY <1>7 DEF NextEntry
  <2> QED BY <2>1 DEF Fresh, Gone
<1>8. CASE SkipEntry(w)
  <2>1. PICK q \in todo[w] :
           /\ todo'[w] = todo[w] \ {q} /\ pc[w] = "read" /\ pc'[w] = "read" /\ task' = task
           /\ visited' = visited /\ lost' = lost \cup {q}
    BY <1>8 DEF SkipEntry
  <2> QED BY <2>1 DEF Fresh, Gone
<1>9. CASE ReadError(w) \/ EndOfDir(w)
  BY <1>9 DEF ReadError, EndOfDir
<1>10. CASE Visit(w)
  <2>1. /\ pc[w] = "visit" /\ task' = task /\ todo' = todo
        /\ visited' = visited \cup {entry[w]} /\ lost' = lost
        /\ pc'[w] \in {"read", "add", "sub"} /\ (pc'[w] = "add" => entry'[w] = entry[w])
    BY <1>10 DEF Visit
  <2> QED BY <2>1 DEF Fresh, Gone
<1>11. CASE FetchAdd(w) \/ Push(w)
  BY <1>11 DEF FetchAdd, Push, Fresh, Gone
<1>12. CASE FetchSub(w)
  BY <1>12 DEF FetchSub
<1> QED BY <1>1, <1>2, <1>3, <1>4, <1>5, <1>6, <1>7, <1>8, <1>9, <1>10, <1>11, <1>12
        DEF Step, Finding, Opening, Reading

\* Visits, part by part, after a step of a worker.
LEMMA VisitsStep ==
    ASSUME TypeOK, TypeOK', NotYetSpawned, Scope, Visits, NEW w \in Worker, Step(w)
    PROVE  Visits'
<1>0. /\ TasksUnique /\ WaitingFresh /\ ParentsFirst /\ visited \cap lost = {}
      /\ \A v \in Worker : Progress(v) /\ InTree(v)
  BY DEF Visits, Scope
<1>1. Notes(w) /\ Local(w)
  BY <1>0, StepNotes, StepLocal
<1>2. /\ visited \subseteq visited' /\ Gone \subseteq Gone' /\ Gone' \subseteq Gone \cup Reach(w)
      /\ visited' \cap lost' = {}
  BY <1>0, <1>1 DEF Notes, Gone, Fresh
<1>3. ASSUME NEW v \in Worker PROVE Progress(v)'
  <2>1. CASE v = w
    BY <2>1, ProgressNext
  <2>2. CASE v # w /\ ~Busy(v)
    BY <1>1, <2>2 DEF Local, Progress, Busy, BusyPc, UnreadPc, StreamPc, Adding
  <2>3. CASE v # w /\ Busy(v)
    <3>1. PICK t : t = task[v]
      OBVIOUS
    <3>2. Holds(v, 0, t)
      BY <2>3, <3>1, HoldsIs DEF FourKinds
    <3>3. /\ \A S : S \subseteq Kids(t.path) /\ Fresh(S) => Fresh(S)'
          /\ IsRoot(t.path) /\ t.path \notin Gone => t.path \notin Gone'
      BY <1>0, <1>1, <2>3, <3>2, OthersFresh
    <3>4. pc[v] = "visit" => entry[v] \notin Gone'
      <4>1. pc[v] = "visit" => {entry[v]} \subseteq Kids(t.path) /\ Fresh({entry[v]})
        BY <1>0, <3>1 DEF InTree, Progress, Fresh
      <4>2. PICK S : S = {entry[v]}
        OBVIOUS
      <4>3. pc[v] = "visit" => Fresh(S)'
        BY <3>3, <4>1, <4>2
      <4> QED BY <4>2, <4>3 DEF Fresh
    <3>5. pc[v] \in StreamPc => todo[v] \cap Gone' = {}
      <4>1. PICK S : S = todo[v]
        OBVIOUS
      <4>2. pc[v] \in StreamPc => Fresh(S)'
        BY <1>0, <3>1, <3>3, <4>1 DEF InTree, Progress
      <4> QED BY <4>1, <4>2 DEF Fresh
    <3>6. pc[v] \in UnreadPc => Kids(t.path) \cap Gone' = {}
      BY <1>0, <3>1, <3>3 DEF Progress, Fresh
    <3>7. pc[v] = "self" => t.path \notin Gone'
      BY <1>0, <3>1, <3>3 DEF InTree, Progress
    <3>8. pc'[v] = pc[v] /\ task'[v] = t /\ entry'[v] = entry[v] /\ todo'[v] = todo[v]
      BY <1>1, <2>3, <3>1 DEF Local
    <3> QED BY <1>0, <1>2, <3>1, <3>4, <3>5, <3>6, <3>7, <3>8 DEF Progress, Busy, Adding, Fresh
  <2> QED BY <2>1, <2>2, <2>3
<1>4. ParentsFirst'
  <2> SUFFICES ASSUME NEW q \in Gone', ~IsRoot(q) PROVE Parent[q] \in visited'
    BY DEF ParentsFirst
  <2>1. CASE q \in Gone
    BY <1>0, <1>2, <2>1 DEF ParentsFirst
  <2>2. CASE q \in Reach(w)
    <3>1. pc[w] # "self" /\ Busy(w) /\ q \in Kids(task[w].path)
      BY <1>0, <2>2 DEF Reach, InTree
    <3> QED BY <1>0, <1>2, <3>1 DEF Progress, Kids
  <2> QED BY <1>2, <2>1, <2>2
<1>5. RootsAhead'
  <2>1. pc[w] # "new"
    BY DEF Step, Finding, Opening, Reading, CheckQuit, Pop, PopNone, StealBatchAndPop,
       InjectorMiss, Steal, StealMiss, ScanEnd, LoadPending, VisitRoot, CheckDepth, Acquire,
       AcquireAborted, Open, OpenFails, OpenExhausted, OpenAbs, OpenAbsExhausted, ReadFrom,
       ReadFromFails, NextEntry, SkipEntry, ReadError, EndOfDir, Visit, FetchAdd, Push, FetchSub
  <2>2. nextRoot \in Nat /\ Len(Roots) \in Nat
    BY TreeAssumption, LenProperties DEF TypeOK
  <2>3. nextRoot' = nextRoot /\ ~(nextRoot <= Len(Roots))
    BY <1>1, <2>1 DEF Local, NotYetSpawned
  <2> QED BY <2>2, <2>3 DEF RootsAhead
<1>6. ASSUME NEW t \in Waiting
      PROVE  /\ Fresh(Kids(t.path))'
             /\ IF IsRoot(t.path) THEN t.path \notin Gone' ELSE t.path \in visited'
  <2>1. PICK a, i : i # 0 /\ Holds(a, i, t)
    BY <1>6, ByPlace DEF PartsByPlace
  <2>2. /\ \A S : S \subseteq Kids(t.path) /\ Fresh(S) => Fresh(S)'
        /\ IsRoot(t.path) /\ t.path \notin Gone => t.path \notin Gone'
    BY <1>0, <1>1, <2>1, OthersFresh
  <2>3. Fresh(Kids(t.path)) /\ IF IsRoot(t.path) THEN t.path \notin Gone ELSE t.path \in visited
    BY <1>0, <1>6 DEF WaitingFresh
  <2> QED BY <1>2, <2>2, <2>3
<1>7. CASE Shuffled(w)
  <2>1. \A t \in Waiting' : t \in Waiting
    BY <1>7, ByPlace, PlacesNext DEF PartsByPlace, Shuffled
  <2>2. TasksUnique'
    BY <1>0, <1>7 DEF Shuffled
  <2>3. WaitingFresh'
    BY <1>6, <2>1 DEF WaitingFresh, Fresh
  <2> QED BY <1>2, <1>3, <1>4, <1>5, <2>2, <2>3 DEF Visits
<1>8. CASE Visit(w) /\ pc'[w] = "add"
  <2>1. PICK c, q : c = ChildTask(w) /\ q = entry[w]
    OBVIOUS
  <2>2. Adds(w, -1, c)
    BY <1>8, <2>1, VisitAdds
  <2>3. /\ c.path = q /\ q \in Kids(task[w].path) /\ q \notin Gone /\ q \in visited'
        /\ Gone' = Gone \cup {q}
    BY <1>0, <1>8, <2>1 DEF ChildTask, Visit, InTree, Progress, Gone
  <2>4. q \in Path /\ ~IsRoot(q)
    <3>1. Busy(w) /\ task[w].path \in Path
      BY <1>8 DEF Visit, Busy, BusyPc, TypeOK, Task
    <3> QED BY <2>3, <3>1, KidFacts
  <2>5. Fresh(Kids(q))'
    <3>1. Kids(q) \cap Gone = {}
      <4> SUFFICES ASSUME NEW x \in Kids(q), x \in Gone PROVE FALSE
        OBVIOUS
      <4>1. ~IsRoot(x) /\ Parent[x] = q
        BY <2>4, KidFacts
      <4> QED BY <1>0, <2>3, <4>1 DEF ParentsFirst, Gone
    <3>2. q \notin Kids(q)
      BY <2>4, NotOwnKid
    <3> QED BY <2>3, <3>1, <3>2 DEF Fresh
  <2>6. WaitingFresh'
    <3>1. \A t \in Waiting' : t \in Waiting \/ t = c
      BY <2>2, ByPlace, PlacesNext DEF PartsByPlace, Adds
    <3>2. Fresh(Kids(c.path))' /\ ~IsRoot(c.path) /\ c.path \in visited'
      BY <2>3, <2>4, <2>5 DEF Fresh
    <3>3. ASSUME NEW t \in Waiting'
          PROVE  /\ Fresh(Kids(t.path))'
                 /\ IF IsRoot(t.path) THEN t.path \notin Gone' ELSE t.path \in visited'
      BY <1>6, <3>1, <3>2
    <3> QED BY <3>3 DEF WaitingFresh, Fresh
  <2>7. \A a, i, t : Holds(a, i, t) => t.path # q
    BY <2>3, <2>4, HeldVisited DEF Gone
  <2>8. TasksUnique'
    <3>1. \A a, i, t, b, j, u :
             Holds(a, i, t) /\ Holds(b, j, u) /\ t.path = u.path => a = b /\ i = j
      BY <1>0, ByPlace DEF PartsByPlace
    <3>2. \A a, i, t, b, j, u :
             Holds(a, i, t)' /\ Holds(b, j, u)' /\ t.path = u.path => a = b /\ i = j
      BY <2>2, <2>3, <2>7, <3>1 DEF Adds
    <3> QED BY <3>2, PlacesNext DEF PartsByPlace
  <2> QED BY <1>2, <1>3, <1>4, <1>5, <2>6, <2>8 DEF Visits
<1> QED BY <1>7, <1>8, StepMoves

\* The root loop notes nothing but the roots it skips.
LEMMA VisitsRoots ==
    ASSUME TypeOK, TypeOK', Scope, Visits, EnqueueRoot \/ SkipRoot
    PROVE  Visits'
<1>0. /\ TasksUnique /\ WaitingFresh /\ ParentsFirst /\ RootsAhead /\ visited \cap lost = {}
      /\ \A v \in Worker : Progress(v) /\ InTree(v)
  BY DEF Visits, Scope
<1>1. PICK r : r = Roots[nextRoot]
  OBVIOUS
<1>2. /\ nextRoot \in 1 .. Len(Roots) /\ Len(Roots) \in Nat /\ nextRoot' = nextRoot + 1
      /\ r \in Path /\ IsRoot(r)
  BY <1>1, NextRootType DEF EnqueueRoot, SkipRoot
<1>3. /\ pc' = pc /\ task' = task /\ entry' = entry /\ todo' = todo /\ visited' = visited
      /\ Gone \subseteq Gone' /\ Gone' \subseteq Gone \cup {r}
  BY <1>1 DEF EnqueueRoot, SkipRoot, Gone
<1>4. r \notin Gone /\ \A a, i, t : Holds(a, i, t) => t.path # r
  <2>1. nextRoot \in nextRoot .. Len(Roots)
    BY <1>2
  <2> QED BY <1>0, <1>1, <2>1, ByPlace DEF RootsAhead, PartsByPlace
<1>5. \A k \in nextRoot' .. Len(Roots) : k \in nextRoot .. Len(Roots) /\ Roots[k] # r
  <2>1. \A x, y \in 1 .. Len(Roots) : x # y => Roots[x] # Roots[y]
    BY TreeAssumption, LenProperties DEF IsInjective
  <2> QED BY <1>1, <1>2, <2>1
<1>6. \A p \in Path : r \notin Kids(p)
  BY <1>2, KidFacts
<1>7. ASSUME NEW p \in Path, NEW S, S \subseteq Kids(p), Fresh(S) PROVE Fresh(S)'
  BY <1>3, <1>6, <1>7 DEF Fresh
<1>8. ASSUME NEW a, NEW i, NEW t, Holds(a, i, t)
      PROVE  /\ t.path \in Path /\ t.path # r
             /\ \A S : S \subseteq Kids(t.path) /\ Fresh(S) => Fresh(S)'
             /\ t.path \notin Gone => t.path \notin Gone'
  <2>1. GoodTask(t)
    BY <1>8, ByPlace DEF PartsByPlace, Scope
  <2>2. t.path \in Path
    BY <2>1 DEF GoodTask, Task
  <2>3. t.path # r
    BY <1>4, <1>8
  <2> QED BY <1>3, <1>7, <2>2, <2>3
<1>9. ASSUME NEW v \in Worker PROVE Progress(v)'
  <2>1. CASE ~Busy(v)
    BY <1>3, <2>1 DEF Progress, Busy, BusyPc, UnreadPc, StreamPc, Adding
  <2>2. CASE Busy(v)
    <3>1. PICK t : t = task[v]
      OBVIOUS
    <3>2. Holds(v, 0, t)
      BY <2>2, <3>1, HoldsIs DEF FourKinds
    <3>3. /\ t.path \in Path /\ t.path \notin Gone => t.path \notin Gone'
          /\ \A S : S \subseteq Kids(t.path) /\ Fresh(S) => Fresh(S)'
      BY <1>8, <3>2
    <3>4. pc[v] = "visit" => entry[v] \notin Gone'
      BY <1>0, <1>3, <1>6, <3>1, <1>8, <3>2 DEF InTree, Progress
    <3>5. pc[v] \in StreamPc => todo[v] \cap Gone' = {}
      <4>1. PICK S : S = todo[v]
        OBVIOUS
      <4>2. pc[v] \in StreamPc => Fresh(S)'
        BY <1>0, <3>1, <3>3, <4>1 DEF InTree, Progress
      <4> QED BY <4>1, <4>2 DEF Fresh
    <3>6. pc[v] \in UnreadPc => Kids(t.path) \cap Gone' = {}
      BY <1>0, <3>1, <3>3 DEF Progress, Fresh
    <3>7. pc[v] = "self" => t.path \notin Gone'
      BY <1>0, <3>1, <1>8, <3>2 DEF Progress
    <3> QED BY <1>0, <1>3, <3>1, <3>4, <3>5, <3>6, <3>7 DEF Progress, Busy, Adding, Fresh
  <2> QED BY <2>1, <2>2
<1>10. ParentsFirst' /\ visited' \cap lost' = {}
  <2>1. visited' \cap lost' = {}
    BY <1>0, <1>1, <1>3, <1>4 DEF EnqueueRoot, SkipRoot, Gone
  <2> QED BY <1>0, <1>2, <1>3, <2>1 DEF ParentsFirst
<1>11. ASSUME NEW t \in Waiting
       PROVE  /\ Fresh(Kids(t.path))'
              /\ IF IsRoot(t.path) THEN t.path \notin Gone' ELSE t.path \in visited'
  <2>1. PICK a, i : i # 0 /\ Holds(a, i, t)
    BY <1>11, ByPlace DEF PartsByPlace
  <2>2. Fresh(Kids(t.path)) /\ IF IsRoot(t.path) THEN t.path \notin Gone ELSE t.path \in visited
    BY <1>0, <1>11 DEF WaitingFresh
  <2>3. Fresh(Kids(t.path))' /\ (t.path \notin Gone => t.path \notin Gone')
    BY <1>8, <2>1, <2>2
  <2> QED BY <1>3, <2>2, <2>3
<1>12. \A k \in nextRoot' .. Len(Roots) :
          Roots[k] \notin Gone' /\ \A a, i, t : Holds(a, i, t) => t.path # Roots[k]
  BY <1>0, <1>3, <1>5, ByPlace DEF RootsAhead, PartsByPlace
<1>13. CASE SkipRoot
  <2>1. Still
    BY <1>13, OtherMoves
  <2>2. \A t : t \in Waiting' <=> t \in Waiting
    BY <2>1, ByPlace, PlacesNext DEF PartsByPlace, Still
  <2>3. WaitingFresh'
    BY <1>11, <2>2 DEF WaitingFresh, Fresh
  <2>4. TasksUnique'
    BY <1>0, <2>1, ByPlace, PlacesNext DEF PartsByPlace, Still
  <2>5. RootsAhead'
    <3>1. \A k \in nextRoot' .. Len(Roots) : \A a, i, t : Holds(a, i, t)' => t.path # Roots[k]
      BY <1>12, <2>1 DEF Still
    <3> QED BY <1>12, <3>1, PlacesNext DEF PartsByPlace, RootsAhead
  <2> QED BY <1>9, <1>10, <2>3, <2>4, <2>5 DEF Visits
<1>14. CASE EnqueueRoot
  <2>1. PICK c, n : c = RootTask(r) /\ n = Len(injector) + 1
    OBVIOUS
  <2>2. Adds(0, n, c) /\ c.path = r /\ Gone' = Gone
    BY <1>1, <1>14, <2>1, EnqueueRootAdds DEF RootTask, EnqueueRoot, Gone
  <2>3. Fresh(Kids(r))'
    <3> SUFFICES ASSUME NEW x \in Kids(r), x \in Gone PROVE FALSE
      BY <2>2 DEF Fresh
    <3>1. ~IsRoot(x) /\ Parent[x] = r
      BY <1>2, KidFacts
    <3> QED BY <1>0, <1>4, <3>1 DEF ParentsFirst, Gone
  <2>4. WaitingFresh'
    <3>1. \A t \in Waiting' : t \in Waiting \/ t = c
      BY <2>2, ByPlace, PlacesNext DEF PartsByPlace, Adds
    <3>2. Fresh(Kids(c.path))' /\ IsRoot(c.path) /\ c.path \notin Gone'
      BY <1>2, <1>4, <2>2, <2>3 DEF Fresh
    <3>3. ASSUME NEW t \in Waiting'
          PROVE  /\ Fresh(Kids(t.path))'
                 /\ IF IsRoot(t.path) THEN t.path \notin Gone' ELSE t.path \in visited'
      BY <1>11, <3>1, <3>2
    <3> QED BY <3>3 DEF WaitingFresh, Fresh
  <2>5. TasksUnique'
    <3>1. \A a, i, t, b, j, u :
             Holds(a, i, t) /\ Holds(b, j, u) /\ t.path = u.path => a = b /\ i = j
      BY <1>0, ByPlace DEF PartsByPlace
    <3>2. \A a, i, t, b, j, u :
             Holds(a, i, t)' /\ Holds(b, j, u)' /\ t.path = u.path => a = b /\ i = j
      BY <1>4, <2>2, <3>1 DEF Adds
    <3> QED BY <3>2, PlacesNext DEF PartsByPlace
  <2>6. RootsAhead'
    <3>1. \A k \in nextRoot' .. Len(Roots) : \A a, i, t : Holds(a, i, t)' => t.path # Roots[k]
      BY <1>5, <1>12, <2>2 DEF Adds
    <3> QED BY <1>12, <3>1, PlacesNext DEF PartsByPlace, RootsAhead
  <2> QED BY <1>9, <1>10, <2>4, <2>5, <2>6 DEF Visits
<1> QED BY <1>13, <1>14

\* The remaining steps note nothing.
LEMMA VisitsOther ==
    ASSUME TypeOK, TypeOK', Visits, Spawn \/ Refill \/ Returned \/ UNCHANGED vars
    PROVE  Visits'
<1>1. Still
  BY OtherMoves
<1>2. /\ nextRoot' = nextRoot /\ visited' = visited /\ lost' = lost /\ Gone' = Gone
      /\ task' = task /\ entry' = entry /\ todo' = todo
      /\ \A v \in Worker : pc'[v] = pc[v] \/ pc'[v] = "top"
  BY DEF Spawn, Refill, Returned, vars, Gone
<1>3. \A t : t \in Waiting' <=> t \in Waiting
  BY <1>1, ByPlace, PlacesNext DEF PartsByPlace, Still
<1>4. WaitingFresh'
  BY <1>2, <1>3 DEF Visits, WaitingFresh, Fresh
<1>5. TasksUnique'
  BY <1>1, ByPlace, PlacesNext DEF Visits, PartsByPlace, Still
<1>6. RootsAhead'
  <2>1. \A k \in nextRoot .. Len(Roots) :
           Roots[k] \notin Gone /\ \A a, i, t : Holds(a, i, t)' => t.path # Roots[k]
    BY <1>1, ByPlace DEF Visits, RootsAhead, PartsByPlace, Still
  <2> QED BY <1>2, <2>1, PlacesNext DEF PartsByPlace, RootsAhead
<1>7. \A v \in Worker : Progress(v)'
  BY <1>2 DEF Visits, Progress, Busy, BusyPc, UnreadPc, StreamPc, Adding, Fresh
<1>8. ParentsFirst' /\ visited' \cap lost' = {}
  BY <1>2 DEF Visits, ParentsFirst
<1> QED BY <1>4, <1>5, <1>6, <1>7, <1>8 DEF Visits
-----------------------------------------------------------------------------
(* Theorems                                                                *)

\* Nothing is held, visited or lost when walk_parallel starts.
LEMMA TaskInit == Init => TaskInv
<1> SUFFICES ASSUME Init PROVE TaskInv
  OBVIOUS
<1>1. WalkInv
  BY InvInit
<1>2. /\ \A v \in Worker : pc[v] = "new" /\ deque[v] = <<>>
      /\ Gone = {} /\ injector = <<>> /\ visited = {} /\ lost = {}
  BY DEF Init, Gone
<1>3. \A a, i, t : ~Holds(a, i, t)
  <2>1. FourKinds
    BY <1>1, HoldsIs DEF WalkInv
  <2>2. \A v \in Worker : ~Busy(v) /\ ~Adding(v)
    BY <1>2 DEF Busy, BusyPc, Adding
  <2> QED BY <1>2, <2>1, <2>2 DEF FourKinds
<1>4. TasksGood /\ TasksUnique /\ WaitingFresh /\ RootsAhead
  BY <1>2, <1>3, ByPlace DEF PartsByPlace, WaitingFresh, RootsAhead
<1>5. \A v \in Worker : InTree(v) /\ Progress(v)
  BY <1>2 DEF InTree, Progress, Busy, BusyPc, UnreadPc, StreamPc, AnchorPc, BelowLimit, Adding
<1>6. ParentsFirst /\ visited \cap lost = {}
  BY <1>2 DEF ParentsFirst
<1> QED BY <1>1, <1>4, <1>5, <1>6 DEF TaskInv, Scope, Visits

\* Every step of every thread preserves the invariant.
LEMMA TaskNext == TaskInv /\ [Next]_vars => TaskInv'
<1> SUFFICES ASSUME TaskInv, [Next]_vars PROVE TaskInv'
  OBVIOUS
<1>1. WalkInv'
  BY InvNext DEF TaskInv
<1>2. TypeOK /\ TypeOK' /\ NotYetSpawned /\ Scope /\ Visits
  BY <1>1 DEF TaskInv, WalkInv
<1>3. Scope'
  BY <1>2, ScopeNext
<1>4. Visits'
  <2>1. CASE EnqueueRoot \/ SkipRoot
    BY <1>2, <2>1, VisitsRoots
  <2>2. CASE Spawn \/ Refill \/ Returned \/ UNCHANGED vars
    BY <1>2, <2>2, VisitsOther
  <2>3. CASE \E w \in Worker : Step(w)
    BY <1>2, <2>3, VisitsStep
  <2> QED BY <2>1, <2>2, <2>3 DEF Next
<1> QED BY <1>1, <1>3, <1>4 DEF TaskInv

\* Tasks agree with the tree, are unique and wait for entries nobody has looked
\* at, whatever moves them from worker to worker.
THEOREM TaskInvariant == Init /\ [][Next]_vars => []TaskInv
BY TaskInit, TaskNext, PTL

\* descend reads only directories that are in scope: the depth, root device and
\* ancestors carried by a task that was pushed, stolen and popped by different
\* workers decide as if they were computed from the path.
THEOREM ScopeCorrect == Spec => []InScope
<1>1. TaskInv => InScope
  BY DEF TaskInv, Scope, InTree, InScope, AnchorPc
<1> QED BY <1>1, TaskInvariant, PTL DEF Spec

\* What two workers hand to the visitor is never the same.
LEMMA VisitingApart ==
    ASSUME TaskInv, NEW w \in Worker, NEW v \in Worker, w # v
    PROVE  Visiting(w) \cap Visiting(v) = {}
<1>0. TypeOK /\ Scope /\ TasksUnique
  BY DEF TaskInv, WalkInv, Visits
<1>1. Visiting(w) \subseteq Reach(w)
  BY <1>0 DEF Visiting, Reach, Scope, InTree, Busy, BusyPc
<1>2. CASE ~Busy(v)
  BY <1>2 DEF Visiting, Busy, BusyPc
<1>3. CASE Busy(v)
  <2>1. PICK t : t = task[v]
    OBVIOUS
  <2>2. Holds(v, 0, t)
    BY <1>0, <1>3, <2>1, HoldsIs DEF FourKinds
  <2>3. Kids(t.path) \cap Reach(w) = {} /\ (IsRoot(t.path) => t.path \notin Reach(w))
    BY <1>0, <2>2, ReachOwn
  <2> QED BY <1>0, <1>1, <2>1, <2>3 DEF Visiting, Scope, InTree
<1> QED BY <1>2, <1>3

\* Work stealing never duplicates: no entry is given to the visitor twice, by the
\* same worker or by two of them.
THEOREM VisitOnceCorrect == Spec => []VisitOnce
<1>1. TaskInv => VisitOnce
  <2> SUFFICES ASSUME TaskInv, NEW w \in Worker
               PROVE  /\ Visiting(w) \cap visited = {}
                      /\ \A v \in Worker \ {w} : Visiting(w) \cap Visiting(v) = {}
    BY DEF VisitOnce
  <2>1. Visiting(w) \cap visited = {}
    BY DEF TaskInv, Visits, Progress, Visiting, Gone
  <2>2. \A v \in Worker \ {w} : Visiting(w) \cap Visiting(v) = {}
    BY VisitingApart
  <2> QED BY <2>1, <2>2
<1> QED BY <1>1, TaskInvariant, PTL DEF Spec

\* What a step visits it visits for the first time, and nothing is ever both
\* visited and given up.
VisitsNew == visited \subseteq visited' /\ lost \subseteq lost' /\ visited' \cap lost' = {}

\* The walk's history only grows, and its two parts stay apart.
THEOREM HistoryGrows == Spec => [][VisitsNew]_vars
<1>1. TaskInv /\ TaskInv' /\ [Next]_vars => VisitsNew
  <2> SUFFICES ASSUME TaskInv, TaskInv', [Next]_vars PROVE VisitsNew
    OBVIOUS
  <2>1. visited' \cap lost' = {}
    BY DEF TaskInv, Visits
  <2>2. CASE EnqueueRoot \/ SkipRoot \/ Spawn \/ Refill \/ Returned \/ UNCHANGED vars
    BY <2>1, <2>2 DEF VisitsNew, EnqueueRoot, SkipRoot, Spawn, Refill, Returned, vars
  <2>3. ASSUME NEW w \in Worker, Step(w) PROVE VisitsNew
    <3>1. TypeOK /\ InTree(w) /\ Progress(w)
      BY DEF TaskInv, WalkInv, Scope, Visits
    <3>2. Notes(w)
      BY <2>3, <3>1, StepNotes
    <3> QED BY <2>1, <3>2 DEF Notes, VisitsNew
  <2> QED BY <2>2, <2>3 DEF Next
<1> QED BY <1>1, TaskInvariant, PTL DEF Spec
=============================================================================
