----------------------------- MODULE WalkProofs -----------------------------
(***************************************************************************)
(* Proofs about Walk for every tree, every number of workers and every     *)
(* combination of arguments.                                               *)
(***************************************************************************)
EXTENDS Walk, FiniteSetTheorems, FunctionTheorems, SequenceTheorems, TLAPS

(* Facts about the queue operations.                                       *)

\* Popping the owner's end shortens the deque by one and yields a task.
LEMMA FrontLast ==
    ASSUME NEW S, NEW s \in Seq(S), s # <<>>
    PROVE  /\ Front(s) \in Seq(S) /\ Len(Front(s)) = Len(s) - 1
           /\ Last(s) \in S /\ Len(s) \in Nat \ {0}
<1>1. Len(s) \in Nat \ {0} /\ \A i \in 1 .. Len(s) : s[i] \in S
  BY EmptySeq, ElementOfSeq
<1>2. \A i \in 1 .. Len(s) - 1 : s[i] \in S
  BY <1>1
<1>3. Front(s) \in Seq(S) /\ Len(Front(s)) = Len(s) - 1
  <2>1. /\ SubSeq(s, 1, Len(s) - 1) \in Seq(S)
        /\ Len(SubSeq(s, 1, Len(s) - 1)) = IF 1 <= Len(s) - 1 THEN Len(s) - 1 - 1 + 1 ELSE 0
    BY <1>1, <1>2, SubSeqProperties
  <2>2. \A n \in Nat \ {0} : (IF 1 <= n - 1 THEN n - 1 - 1 + 1 ELSE 0) = n - 1
    OBVIOUS
  <2> QED BY <1>1, <2>1, <2>2, Zenon DEF Front
<1>4. Last(s) \in S
  BY <1>1 DEF Last
<1> QED BY <1>1, <1>3, <1>4

\* What a batch steal moves, and what it leaves.
LEMMA BatchMove ==
    ASSUME NEW S, NEW s \in Seq(S), s # <<>>, NEW k \in 0 .. Len(s) - 1,
           NEW d \in Seq(S)
    PROVE  /\ d \o Reverse(SubSeq(s, 2, k + 1)) \in Seq(S)
           /\ Len(d \o Reverse(SubSeq(s, 2, k + 1))) = Len(d) + k
           /\ SubSeq(s, k + 2, Len(s)) \in Seq(S)
           /\ Len(SubSeq(s, k + 2, Len(s))) = Len(s) - (k + 1)
<1> DEFINE m == SubSeq(s, 2, k + 1)
           r == SubSeq(s, k + 2, Len(s))
<1>1. Len(s) \in Nat \ {0} /\ \A i \in 1 .. Len(s) : s[i] \in S
  BY EmptySeq, ElementOfSeq
<1>2. m \in Seq(S) /\ Len(m) = k
  <2>1. \A i \in 2 .. k + 1 : s[i] \in S
    BY <1>1
  <2> QED BY <1>1, <2>1, SubSeqProperties
<1>3. r \in Seq(S) /\ Len(r) = Len(s) - (k + 1)
  <2>1. \A i \in k + 2 .. Len(s) : s[i] \in S
    BY <1>1
  <2> QED BY <1>1, <2>1, SubSeqProperties
<1>4. Reverse(m) \in Seq(S) /\ Len(Reverse(m)) = k
  <2> HIDE DEF m
  <2>1. \A i \in 1 .. k : m[i] \in S
    BY <1>2, ElementOfSeq
  <2>2. Reverse(m) \in [1 .. k -> S]
    BY <1>2, <2>1 DEF Reverse
  <2>3. Reverse(m) \in Seq(S)
    BY <2>2, <1>1, SeqDef
  <2> QED BY <2>2, <2>3, <1>1, LenProperties
<1> HIDE DEF m, r
<1>5. d \o Reverse(m) \in Seq(S) /\ Len(d \o Reverse(m)) = Len(d) + k
  BY <1>4, ConcatProperties
<1> QED BY <1>3, <1>5 DEF m, r
-----------------------------------------------------------------------------
(* Type correctness                                                        *)

USE DEF queues, scan, reading, history

\* walk_parallel always has at least one worker, also with --threads 1.
LEMMA WorkerType == NWorkers \in Nat \ {0} /\ Worker = 1 .. NWorkers
BY ArgsAssumption DEF NWorkers, Worker

\* The task walk_parallel enqueues for a root is well formed.
LEMMA RootTaskType ==
    ASSUME NEW r \in Path
    PROVE  RootTask(r) \in Task
<1>1. Dev[r] \in Range(Dev)
  BY EntryAssumption DEF Range
<1> QED BY <1>1 DEF RootTask, Task

\* So is the task descend pushes for a subdirectory.
LEMMA ChildTaskType ==
    ASSUME TypeOK, NEW w \in Worker, pc[w] = "push"
    PROVE  ChildTask(w) \in Task
<1>1. task[w] \in Task /\ entry[w] \in Path
  BY DEF TypeOK, Busy, BusyPc
<1>2. Id[task[w].path] \in Range(Id)
  BY <1>1, EntryAssumption DEF Task, Range
<1> QED BY <1>1, <1>2 DEF ChildTask, Task

\* The state walk_parallel starts from has the right types.
LEMMA TypeInit == Init => TypeOK
<1> SUFFICES ASSUME Init PROVE TypeOK
  OBVIOUS
<1>1. Len(Roots) \in Nat
  BY TreeAssumption, LenProperties
<1>2. \A w \in Worker : ~Busy(w)
  BY DEF Init, Busy, BusyPc
<1>3. injector \in Seq(Task) /\ deque \in [Worker -> Seq(Task)]
  BY EmptySeq DEF Init
<1>4. quit \in BOOLEAN /\ retry \in [Worker -> BOOLEAN]
  BY Zenon DEF Init
<1>5. nextRoot \in 1 .. Len(Roots) + 1 /\ tokens \in 0 .. Rate /\ pending \in Nat
  BY <1>1, ArgsAssumption DEF Init
<1>6. /\ pc \in [Worker -> BusyPc \cup IdlePc] /\ task \in [Worker -> Task \cup {None}]
      /\ todo \in [Worker -> SUBSET Path] /\ entry \in [Worker -> Path \cup {None}]
      /\ \A w \in Worker : pc[w] \notin {"visit", "add", "push"}
      /\ visited \subseteq Path /\ lost \subseteq Path
  BY DEF Init, IdlePc
<1>7. victim \in [Worker -> 1 .. NWorkers + 1]
  BY WorkerType DEF Init
<1> QED BY <1>2, <1>3, <1>4, <1>5, <1>6, <1>7 DEF TypeOK

\* Every step keeps the types, provided the counter does not go negative (which
\* PendingAccounts is needed for).
LEMMA TypeNext ==
    ASSUME TypeOK, [Next]_vars, pending' \in Nat
    PROVE  TypeOK'
<1> USE WorkerType
<1> DEFINE Pc == BusyPc \cup IdlePc
<1>1. CASE EnqueueRoot
  <2>1. Len(Roots) \in Nat /\ nextRoot \in 1 .. Len(Roots)
    BY <1>1, TreeAssumption, LenProperties DEF EnqueueRoot, TypeOK
  <2>2. Roots[nextRoot] \in Path
    BY <2>1, TreeAssumption, ElementOfSeq
  <2>3. injector' \in Seq(Task)
    BY <1>1, <2>2, RootTaskType, AppendProperties DEF EnqueueRoot, TypeOK
  <2>4. nextRoot' \in 1 .. Len(Roots) + 1
    BY <1>1, <2>1 DEF EnqueueRoot
  <2> QED BY <1>1, <2>3, <2>4 DEF EnqueueRoot, TypeOK, Busy
<1>2. CASE SkipRoot
  <2>1. Len(Roots) \in Nat /\ nextRoot \in 1 .. Len(Roots)
    BY <1>2, TreeAssumption, LenProperties DEF SkipRoot, TypeOK
  <2>2. Roots[nextRoot] \in Path
    BY <2>1, TreeAssumption, ElementOfSeq
  <2>3. nextRoot' \in 1 .. Len(Roots) + 1
    BY <1>2, <2>1 DEF SkipRoot
  <2> QED BY <1>2, <2>2, <2>3 DEF SkipRoot, TypeOK, Busy
<1>3. CASE Spawn
  BY <1>3 DEF Spawn, TypeOK, Busy, BusyPc, IdlePc
<1>4. CASE Refill
  BY <1>4, ArgsAssumption DEF Refill, TypeOK, Busy
<1>5. CASE Returned \/ UNCHANGED vars
  BY <1>5 DEF Returned, vars, TypeOK, Busy
<1>6. ASSUME NEW w \in Worker, Step(w)
      PROVE  TypeOK'
  <2>1. CASE CheckQuit(w)
    BY <2>1 DEF CheckQuit, Goto, TypeOK, Busy, BusyPc, IdlePc
  <2>2. CASE PopNone(w)
    BY <2>2 DEF PopNone, Goto, TypeOK, Busy, BusyPc, IdlePc
  <2>3. CASE InjectorMiss(w)
    <3>1. retry' \in [Worker -> BOOLEAN]
      BY <2>3, Zenon DEF InjectorMiss, TypeOK
    <3>2. victim' \in [Worker -> 1 .. NWorkers + 1]
      <4>1. victim' = [victim EXCEPT ![w] = 1] /\ victim \in [Worker -> 1 .. NWorkers + 1]
        BY <2>3, Zenon DEF InjectorMiss, TypeOK
      <4> QED BY <4>1
    <3>3. injector' \in Seq(Task) /\ deque' \in [Worker -> Seq(Task)]
      BY <2>3 DEF InjectorMiss, TypeOK
    <3>4. /\ pc' \in [Worker -> BusyPc \cup IdlePc]
          /\ \A v \in Worker : Busy(v)' => Busy(v) /\ pc'[v] = pc[v]
          /\ \A v \in Worker : pc'[v] \in {"visit", "add", "push"} => pc'[v] = pc[v]
      BY <2>3 DEF InjectorMiss, Goto, TypeOK, Busy, BusyPc, IdlePc
    <3> QED BY <2>3, <3>1, <3>2, <3>3, <3>4 DEF InjectorMiss, TypeOK
  <2>4. CASE StealMiss(w)
    <3>1. retry' \in [Worker -> BOOLEAN]
      BY <2>4, Zenon DEF StealMiss, TypeOK
    <3>2. victim' \in [Worker -> 1 .. NWorkers + 1]
      <4>1. /\ victim \in [Worker -> 1 .. NWorkers + 1] /\ victim[w] \in Worker
            /\ victim' = [victim EXCEPT ![w] = @ + 1]
        BY <2>4, Zenon DEF StealMiss, TypeOK
      <4> QED BY <4>1
    <3> QED BY <2>4, <3>1, <3>2 DEF StealMiss, TypeOK, Busy, BusyPc, IdlePc
  <2>5. CASE ScanEnd(w)
    BY <2>5 DEF ScanEnd, Goto, TypeOK, Busy, BusyPc, IdlePc
  <2>6. CASE LoadPending(w)
    BY <2>6 DEF LoadPending, Goto, TypeOK, Busy, BusyPc, IdlePc
  <2>7. CASE VisitRoot(w)
    <3>1. quit' \in BOOLEAN
      BY <2>7, Zenon DEF VisitRoot, TypeOK
    <3>2. task[w] \in Task /\ task[w].path \in Path
      BY <2>7 DEF VisitRoot, Task, TypeOK, Busy, BusyPc, IdlePc
    <3> QED BY <2>7, <3>1, <3>2 DEF VisitRoot, Goto, TypeOK, Busy, BusyPc, IdlePc
  <2>8. CASE CheckDepth(w)
    BY <2>8 DEF CheckDepth, Goto, TypeOK, Busy, BusyPc, IdlePc
  <2>9. CASE Acquire(w)
    <3>1. tokens' \in 0 .. Rate
      BY <2>9, ArgsAssumption DEF Acquire, TypeOK
    <3> QED BY <2>9, <3>1 DEF Acquire, Goto, TypeOK, Busy, BusyPc, IdlePc
  <2>10. CASE AcquireAborted(w)
    BY <2>10 DEF AcquireAborted, Goto, TypeOK, Busy, BusyPc, IdlePc
  <2>11. CASE Open(w)
    BY <2>11 DEF Open, Opened, Goto, TypeOK, Busy, BusyPc, IdlePc
  <2>12. CASE OpenFails(w)
    BY <2>12 DEF OpenFails, GiveUp, Kids, Goto, TypeOK, Busy, BusyPc, IdlePc
  <2>13. CASE OpenExhausted(w)
    BY <2>13 DEF OpenExhausted, GiveUp, Kids, Goto, TypeOK, Busy, BusyPc, IdlePc
  <2>14. CASE OpenAbs(w)
    BY <2>14 DEF OpenAbs, Opened, Goto, TypeOK, Busy, BusyPc, IdlePc
  <2>15. CASE OpenAbsExhausted(w)
    BY <2>15 DEF OpenAbsExhausted, GiveUp, Kids, Goto, TypeOK, Busy, BusyPc, IdlePc
  <2>16. CASE ReadFrom(w)
    BY <2>16 DEF ReadFrom, Kids, Goto, TypeOK, Busy, BusyPc, IdlePc
  <2>17. CASE ReadFromFails(w)
    BY <2>17 DEF ReadFromFails, GiveUp, Kids, Goto, TypeOK, Busy, BusyPc, IdlePc
  <2>18. CASE NextEntry(w)
    <3>1. PICK q \in todo[w] :
             /\ todo' = [todo EXCEPT ![w] = @ \ {q}]
             /\ IF q \in Excluded THEN UNCHANGED <<pc, entry>>
                ELSE Goto(w, "visit") /\ entry' = [entry EXCEPT ![w] = q]
      BY <2>18 DEF NextEntry
    <3>2. q \in Path
      BY <3>1 DEF TypeOK
    <3>3. CASE q \in Excluded
      BY <2>18, <3>1, <3>3 DEF NextEntry, TypeOK, Busy, BusyPc, IdlePc
    <3>4. CASE q \notin Excluded
      <4>1. /\ todo' \in [Worker -> SUBSET Path] /\ entry' \in [Worker -> Path \cup {None}]
            /\ entry'[w] = q /\ \A v \in Worker \ {w} : entry'[v] = entry[v]
        BY <3>1, <3>2, <3>4 DEF TypeOK
      <4>2. /\ pc' \in [Worker -> BusyPc \cup IdlePc] /\ pc'[w] = "visit"
            /\ \A v \in Worker \ {w} : pc'[v] = pc[v]
        BY <3>1, <3>4 DEF Goto, TypeOK, Busy, BusyPc, IdlePc
      <4>3. pc[w] = "read" /\ task' = task
        BY <2>18 DEF NextEntry
      <4> QED BY <2>18, <3>2, <4>1, <4>2, <4>3 DEF NextEntry, TypeOK, Busy, BusyPc, IdlePc
    <3> QED BY <3>3, <3>4
  <2>19. CASE SkipEntry(w)
    BY <2>19 DEF SkipEntry, TypeOK, Busy, BusyPc, IdlePc
  <2>20. CASE ReadError(w)
    BY <2>20 DEF ReadError, Goto, TypeOK, Busy, BusyPc, IdlePc
  <2>21. CASE EndOfDir(w)
    BY <2>21 DEF EndOfDir, Goto, TypeOK, Busy, BusyPc, IdlePc
  <2>22. CASE Visit(w)
    BY <2>22 DEF Visit, Goto, TypeOK, Busy, BusyPc, IdlePc
  <2>23. CASE FetchAdd(w)
    BY <2>23 DEF FetchAdd, Goto, TypeOK, Busy, BusyPc, IdlePc
  <2>24. CASE FetchSub(w)
    BY <2>24 DEF FetchSub, Goto, TypeOK, Busy, BusyPc, IdlePc
  <2>25. CASE Pop(w)
    <3>1. /\ Last(deque[w]) \in Task /\ Front(deque[w]) \in Seq(Task)
      BY <2>25, FrontLast DEF Pop, TypeOK
    <3>2. deque' \in [Worker -> Seq(Task)]
      BY <2>25, <3>1 DEF Pop, TypeOK
    <3> QED BY <2>25, <3>1, <3>2 DEF Pop, Take, Goto, TypeOK, Busy, BusyPc, IdlePc
  <2>26. CASE StealBatchAndPop(w)
    <3>1. Head(injector) \in Task
      BY <2>26, HeadTailProperties DEF StealBatchAndPop, TypeOK
    <3>2. PICK k \in 0 .. Len(injector) - 1 :
             /\ deque' = [deque EXCEPT ![w] = deque[w] \o Reverse(SubSeq(injector, 2, k + 1))]
             /\ injector' = SubSeq(injector, k + 2, Len(injector))
      BY <2>26 DEF StealBatchAndPop
    <3>3. /\ deque[w] \o Reverse(SubSeq(injector, 2, k + 1)) \in Seq(Task)
          /\ SubSeq(injector, k + 2, Len(injector)) \in Seq(Task)
      BY <2>26, BatchMove DEF StealBatchAndPop, TypeOK
    <3>4. deque' \in [Worker -> Seq(Task)] /\ injector' \in Seq(Task)
      BY <3>2, <3>3, Zenon DEF TypeOK
    <3>5. retry' \in [Worker -> BOOLEAN]
      BY <2>26, Zenon DEF StealBatchAndPop, TypeOK
    <3> QED BY <2>26, <3>1, <3>4, <3>5 DEF StealBatchAndPop, Take, Goto, TypeOK, Busy, BusyPc, IdlePc
  <2>27. CASE Steal(w)
    <3>1. /\ Head(deque[victim[w]]) \in Task /\ Tail(deque[victim[w]]) \in Seq(Task)
      BY <2>27, HeadTailProperties DEF Steal, TypeOK
    <3>2. deque' \in [Worker -> Seq(Task)]
      BY <2>27, <3>1, Zenon DEF Steal, TypeOK
    <3>3. retry' \in [Worker -> BOOLEAN]
      BY <2>27, Zenon DEF Steal, TypeOK
    <3>4. victim' \in [Worker -> 1 .. NWorkers + 1]
      BY <2>27 DEF Steal, TypeOK
    <3>5. injector' \in Seq(Task)
      BY <2>27 DEF Steal, TypeOK
    <3>6. Take(w, Head(deque[victim[w]]))
      BY <2>27 DEF Steal
    <3> HIDE <2>27
    <3> QED BY <3>1, <3>2, <3>3, <3>4, <3>5, <3>6 DEF Take, Goto, TypeOK, Busy, BusyPc, IdlePc
  <2>28. CASE Push(w)
    <3>1. Append(deque[w], ChildTask(w)) \in Seq(Task)
      BY <2>28, ChildTaskType, AppendProperties DEF Push, TypeOK
    <3>2. deque' \in [Worker -> Seq(Task)]
      BY <2>28, <3>1, Zenon DEF Push, TypeOK
    <3> QED BY <2>28, <3>2 DEF Push, Goto, TypeOK, Busy, BusyPc, IdlePc
  <2> QED BY <1>6, <2>1, <2>2, <2>3, <2>4, <2>5, <2>6, <2>7, <2>8, <2>9, <2>10, <2>11, <2>12, <2>13, <2>14, <2>15, <2>16, <2>17, <2>18, <2>19, <2>20, <2>21, <2>22, <2>23, <2>24, <2>25, <2>26, <2>27, <2>28 DEF Step, Finding, Opening, Reading
<1> QED BY <1>1, <1>2, <1>3, <1>4, <1>5, <1>6 DEF Next
-----------------------------------------------------------------------------
(* The slots of outstanding tasks, as a function of the queue lengths and  *)
(* of the workers that hold or are about to push a task                    *)

\* Slots are pairs: equal only when both components are.
LEMMA SlotInj == \A a, b, i, j : Slot(a, i) = Slot(b, j) <=> a = b /\ i = j
BY DEF Slot

\* the ranges the arguments of SlotSet have in every state
SlotArgs(n, len, busy, adding) ==
    /\ n \in Nat /\ len \in [Worker -> Nat]
    /\ busy \in SUBSET Worker /\ adding \in SUBSET Worker

\* l differs from len at w only, where it is x
SetLen(len, l, w, x) ==
    /\ l \in [Worker -> Nat] /\ l[w] = x
    /\ \A v \in Worker \ {w} : l[v] = len[v]

\* What it means to be a slot: in the injector, in a deque, held, or between
\* fetch_add and push.
LEMMA InSlotSet ==
    ASSUME NEW n, NEW len, NEW busy, NEW adding, NEW x
    PROVE  x \in SlotSet(n, len, busy, adding) <=>
              \/ \E i \in 1 .. n : x = Slot(0, i)
              \/ \E w \in Worker : \E i \in 1 .. len[w] : x = Slot(w, i)
              \/ \E w \in busy : x = Slot(w, 0)
              \/ \E w \in adding : x = Slot(w, -1)
BY DEF SlotSet

\* The same for a pair, without an existential.
LEMMA PairInSlotSet ==
    ASSUME NEW n \in Nat, NEW len \in [Worker -> Nat],
           NEW busy \in SUBSET Worker, NEW adding \in SUBSET Worker, NEW a, NEW i
    PROVE  Slot(a, i) \in SlotSet(n, len, busy, adding) <=>
              \/ a = 0 /\ i \in 1 .. n
              \/ a \in Worker /\ i \in 1 .. len[a]
              \/ a \in busy /\ i = 0
              \/ a \in adding /\ i = -1
BY SlotInj, InSlotSet

\* A root pushed into the injector, or a fetch_add before a push, is one new slot.
LEMMA SlotAdded ==
    \A n, len, busy, adding : SlotArgs(n, len, busy, adding) =>
           /\ Slot(0, n + 1) \notin SlotSet(n, len, busy, adding)
           /\ SlotSet(n + 1, len, busy, adding) = SlotSet(n, len, busy, adding) \cup {Slot(0, n + 1)}
           /\ \A w \in Worker \ adding :
                 /\ Slot(w, -1) \notin SlotSet(n, len, busy, adding)
                 /\ SlotSet(n, len, busy, adding \cup {w})
                       = SlotSet(n, len, busy, adding) \cup {Slot(w, -1)}
<1> TAKE n, len, busy, adding
<1> HAVE SlotArgs(n, len, busy, adding)
<1> USE DEF SlotArgs
<1>1. Slot(0, n + 1) \notin SlotSet(n, len, busy, adding)
  BY PairInSlotSet, WorkerType
<1>2. 1 .. (n + 1) = (1 .. n) \cup {n + 1}
  OBVIOUS
<1>3. SlotSet(n + 1, len, busy, adding) = SlotSet(n, len, busy, adding) \cup {Slot(0, n + 1)}
  BY <1>2 DEF SlotSet
<1>4. ASSUME NEW w \in Worker \ adding
      PROVE  /\ Slot(w, -1) \notin SlotSet(n, len, busy, adding)
             /\ SlotSet(n, len, busy, adding \cup {w})
                   = SlotSet(n, len, busy, adding) \cup {Slot(w, -1)}
  <2>1. Slot(w, -1) \notin SlotSet(n, len, busy, adding)
    BY PairInSlotSet, WorkerType
  <2>2. SlotSet(n, len, busy, adding \cup {w}) = SlotSet(n, len, busy, adding) \cup {Slot(w, -1)}
    BY DEF SlotSet
  <2> QED BY <2>1, <2>2
<1> QED BY <1>1, <1>3, <1>4

\* fetch_sub ends exactly the slot its worker held.
LEMMA SlotFreed ==
    \A n, len, busy, adding : SlotArgs(n, len, busy, adding) =>
       \A w \in busy :
           /\ Slot(w, 0) \in SlotSet(n, len, busy, adding)
           /\ SlotSet(n, len, busy \ {w}, adding)
                 = SlotSet(n, len, busy, adding) \ {Slot(w, 0)}
<1> TAKE n, len, busy, adding
<1> HAVE SlotArgs(n, len, busy, adding)
<1> USE DEF SlotArgs
<1> TAKE w \in busy
<1> DEFINE S == SlotSet(n, len, busy, adding)
           T == SlotSet(n, len, busy \ {w}, adding)
<1>1. Slot(w, 0) \in S
  BY PairInSlotSet
<1>2. Slot(w, 0) \notin T
  <2>1. busy \ {w} \in SUBSET Worker
    OBVIOUS
  <2>2. 0 \notin 1 .. len[w] /\ w # 0
    BY WorkerType
  <2> QED BY <2>1, <2>2, PairInSlotSet
<1>3. S = T \cup {Slot(w, 0)}
  BY DEF SlotSet
<1> QED BY <1>1, <1>2, <1>3, Zenon

\* Moving a task from one slot to another leaves their number alone.
LEMMA MoveSlot ==
    ASSUME NEW S, IsFiniteSet(S), NEW x \in S, NEW y, y \notin S
    PROVE  /\ IsFiniteSet((S \ {x}) \cup {y})
           /\ Cardinality((S \ {x}) \cup {y}) = Cardinality(S)
<1>1. /\ IsFiniteSet(S \ {x})
      /\ Cardinality(S \ {x}) = Cardinality(S) - 1
  BY FS_RemoveElement
<1>2. y \notin S \ {x}
  OBVIOUS
<1>3. /\ IsFiniteSet((S \ {x}) \cup {y})
      /\ Cardinality((S \ {x}) \cup {y}) = Cardinality(S \ {x}) + 1
  BY <1>1, <1>2, FS_AddElement
<1>4. Cardinality(S) \in Nat
  BY FS_CardinalityType
<1> QED BY <1>1, <1>3, <1>4

\* One task more at the end of a deque is one slot more.
LEMMA DequeGrows ==
    ASSUME NEW n, NEW busy, NEW adding, NEW w \in Worker,
           NEW len \in [Worker -> Nat], NEW l \in [Worker -> Nat],
           l[w] = len[w] + 1, \A v \in Worker \ {w} : l[v] = len[v]
    PROVE  SlotSet(n, l, busy, adding) = SlotSet(n, len, busy, adding) \cup {Slot(w, l[w])}
<1> DEFINE InDeque(f, x) == \E v \in Worker : \E i \in 1 .. f[v] : x = Slot(v, i)
<1>1. len[w] \in Nat
  OBVIOUS
<1>2. \A i : i \in 1 .. l[w] <=> i \in 1 .. len[w] \/ i = l[w]
  BY <1>1
<1>3. ASSUME NEW x PROVE InDeque(l, x) <=> InDeque(len, x) \/ x = Slot(w, l[w])
  <2>1. ASSUME InDeque(l, x) PROVE InDeque(len, x) \/ x = Slot(w, l[w])
    BY <2>1, <1>2
  <2>2. ASSUME InDeque(len, x) PROVE InDeque(l, x)
    BY <2>2, <1>2
  <2>3. ASSUME x = Slot(w, l[w]) PROVE InDeque(l, x)
    BY <2>3, <1>2
  <2> QED BY <2>1, <2>2, <2>3
<1>4. \A f, x : x \in SlotSet(n, f, busy, adding) <=>
              \/ \E i \in 1 .. n : x = Slot(0, i)
              \/ InDeque(f, x)
              \/ \E v \in busy : x = Slot(v, 0)
              \/ \E v \in adding : x = Slot(v, -1)
  BY InSlotSet
<1> HIDE DEF InDeque
<1>5. \A x : x \in SlotSet(n, l, busy, adding)
                <=> x \in SlotSet(n, len, busy, adding) \/ x = Slot(w, l[w])
  BY <1>3, <1>4, Zenon
<1> QED BY <1>5

\* local.push turns the slot that fetch_add announced into a deque slot.
LEMMA SlotPushed ==
    \A n, len, busy, adding, l, x : SlotArgs(n, len, busy, adding) =>
       \A w \in adding : SetLen(len, l, w, x) /\ x = len[w] + 1 =>
           (IsFiniteSet(SlotSet(n, len, busy, adding)) =>
              /\ IsFiniteSet(SlotSet(n, l, busy, adding \ {w}))
              /\ Cardinality(SlotSet(n, l, busy, adding \ {w}))
                    = Cardinality(SlotSet(n, len, busy, adding)))
<1> TAKE n, len, busy, adding, l, x
<1> HAVE SlotArgs(n, len, busy, adding)
<1> USE DEF SlotArgs
<1> TAKE w \in adding
<1> HAVE SetLen(len, l, w, x) /\ x = len[w] + 1
<1> HAVE IsFiniteSet(SlotSet(n, len, busy, adding))
<1> DEFINE S == SlotSet(n, len, busy, adding)
           U == SlotSet(n, len, busy, adding \ {w})
           T == SlotSet(n, l, busy, adding \ {w})
<1>1. Slot(w, -1) \in S
  BY PairInSlotSet
<1>2. Slot(w, len[w] + 1) \notin S
  BY PairInSlotSet, WorkerType
<1>3. Slot(w, -1) \notin U
  <2>1. adding \ {w} \in SUBSET Worker
    OBVIOUS
  <2>2. -1 \notin 1 .. len[w] /\ w # 0
    BY WorkerType
  <2> QED BY <2>1, <2>2, PairInSlotSet
<1>4. S = U \cup {Slot(w, -1)}
  BY DEF SlotSet
<1>5. T = U \cup {Slot(w, len[w] + 1)}
  <2>1. /\ l \in [Worker -> Nat] /\ l[w] = len[w] + 1
        /\ \A v \in Worker \ {w} : l[v] = len[v]
    BY DEF SetLen
  <2> QED BY <2>1, DequeGrows
<1> HIDE DEF S, T, U
<1>6. T = (S \ {Slot(w, -1)}) \cup {Slot(w, len[w] + 1)}
  BY <1>3, <1>4, <1>5
<1>7. IsFiniteSet(S)
  BY DEF S
<1>8. IsFiniteSet(T) /\ Cardinality(T) = Cardinality(S)
  BY <1>1, <1>2, <1>6, <1>7, MoveSlot
<1> QED BY <1>8 DEF S, T

\* A pop or a steal turns a deque slot into the slot its taker holds.
LEMMA SlotTaken ==
    \A n, len, busy, adding, l, x : SlotArgs(n, len, busy, adding) =>
       \A w \in Worker \ busy, v \in Worker : SetLen(len, l, v, x) /\ len[v] # 0 /\ x = len[v] - 1 =>
           (IsFiniteSet(SlotSet(n, len, busy, adding)) =>
              /\ IsFiniteSet(SlotSet(n, l, busy \cup {w}, adding))
              /\ Cardinality(SlotSet(n, l, busy \cup {w}, adding))
                    = Cardinality(SlotSet(n, len, busy, adding)))
<1> TAKE n, len, busy, adding, l, x
<1> HAVE SlotArgs(n, len, busy, adding)
<1> USE DEF SlotArgs
<1> TAKE w \in Worker \ busy, v \in Worker
<1> HAVE SetLen(len, l, v, x) /\ len[v] # 0 /\ x = len[v] - 1
<1> HAVE IsFiniteSet(SlotSet(n, len, busy, adding))
<1> DEFINE S == SlotSet(n, len, busy, adding)
           U == SlotSet(n, l, busy, adding)
           T == SlotSet(n, l, busy \cup {w}, adding)
<1>1. Slot(v, len[v]) \in S
  <2>1. len[v] \in 1 .. len[v]
    OBVIOUS
  <2> QED BY <2>1, PairInSlotSet
<1>2. Slot(w, 0) \notin S
  BY PairInSlotSet, WorkerType
<1>3. Slot(v, len[v]) \notin U
  <2>1. l \in [Worker -> Nat] /\ l[v] = len[v] - 1
    BY DEF SetLen
  <2>2. len[v] \in Nat /\ len[v] # 0 /\ len[v] # -1 /\ v # 0 /\ len[v] \notin 1 .. l[v]
    BY <2>1, WorkerType
  <2> QED BY <2>1, <2>2, PairInSlotSet
<1>4. S = U \cup {Slot(v, len[v])}
  <2>1. /\ l \in [Worker -> Nat] /\ len[v] = l[v] + 1
        /\ \A u \in Worker \ {v} : len[u] = l[u]
    BY DEF SetLen
  <2> QED BY <2>1, DequeGrows
<1>5. T = U \cup {Slot(w, 0)}
  BY DEF SlotSet
<1> HIDE DEF S, T, U
<1>6. T = (S \ {Slot(v, len[v])}) \cup {Slot(w, 0)}
  BY <1>3, <1>4, <1>5
<1>7. IsFiniteSet(S)
  BY DEF S
<1>8. IsFiniteSet(T) /\ Cardinality(T) = Cardinality(S)
  BY <1>1, <1>2, <1>6, <1>7, MoveSlot
<1> QED BY <1>8 DEF S, T

\* a batch of k + 1 tasks leaves m of n
BatchOf(n, m, k) == k \in 0 .. n - 1 /\ m = n - (k + 1)

\* steal_batch_and_pop renames k + 1 injector slots: the taker holds one, its
\* deque the other k. The bijection sends the i-th last injector slot to the
\* i-th new one.
LEMMA SlotBatch ==
    \A n, len, busy, adding, l, z, m : SlotArgs(n, len, busy, adding) =>
       \A w \in Worker \ busy : \A k :
           BatchOf(n, m, k) /\ SetLen(len, l, w, z) /\ z = len[w] + k =>
           (IsFiniteSet(SlotSet(n, len, busy, adding)) =>
              /\ IsFiniteSet(SlotSet(m, l, busy \cup {w}, adding))
              /\ Cardinality(SlotSet(m, l, busy \cup {w}, adding))
                    = Cardinality(SlotSet(n, len, busy, adding)))
<1> TAKE n, len, busy, adding, l, z, m
<1> HAVE SlotArgs(n, len, busy, adding)
<1> USE DEF SlotArgs
<1> TAKE w \in Worker \ busy
<1> TAKE k
<1> HAVE BatchOf(n, m, k) /\ SetLen(len, l, w, z) /\ z = len[w] + k
<1> USE DEF BatchOf
<1> HAVE IsFiniteSet(SlotSet(n, len, busy, adding))
<1> DEFINE S == SlotSet(n, len, busy, adding)
           T == SlotSet(m, l, busy \cup {w}, adding)
           U == SlotSet(m, len, busy, adding)
           to(j) == IF j = 0 THEN 0 ELSE len[w] + j
           f == [j \in 0 .. k |-> Slot(0, n - j)]
           g == [j \in 0 .. k |-> Slot(w, to(j))]
           R == {Slot(0, n - j) : j \in 0 .. k}
           A == {Slot(w, to(j)) : j \in 0 .. k}
<1>1. /\ l \in [Worker -> Nat] /\ l[w] = len[w] + k
      /\ \A v \in Worker \ {w} : l[v] = len[v]
      /\ m \in Nat /\ len[w] \in Nat
  BY DEF SetLen
<1>2. S = U \cup R
  <2>1. \A i : i \in 1 .. n <=> i \in 1 .. m \/ \E j \in 0 .. k : i = n - j
    <3>1. ASSUME NEW i \in 1 .. n, i \notin 1 .. m PROVE n - i \in 0 .. k /\ i = n - (n - i)
      BY <3>1
    <3>2. \A i \in 1 .. m : i \in 1 .. n
      OBVIOUS
    <3>3. \A j \in 0 .. k : n - j \in 1 .. n
      OBVIOUS
    <3> QED BY <3>1, <3>2, <3>3
  <2>2. \A x : (\E i \in 1 .. n : x = Slot(0, i))
               <=> (\E i \in 1 .. m : x = Slot(0, i)) \/ x \in R
    BY <2>1
  <2> HIDE DEF R
  <2>3. ASSUME NEW x PROVE x \in S <=> x \in U \/ x \in R
    BY <2>2, InSlotSet
  <2> QED BY <2>3
<1>3. T = U \cup A
  <2>1. \A i : i \in 1 .. l[w] <=> i \in 1 .. len[w] \/ \E j \in 1 .. k : i = to(j)
    <3>1. ASSUME NEW i \in 1 .. l[w], i \notin 1 .. len[w]
          PROVE  i - len[w] \in 1 .. k /\ i = to(i - len[w])
      BY <3>1, <1>1
    <3>2. \A i \in 1 .. len[w] : i \in 1 .. l[w]
      BY <1>1
    <3>3. \A j \in 1 .. k : to(j) \in 1 .. l[w]
      BY <1>1
    <3> QED BY <3>1, <3>2, <3>3
  <2>2. \A x : x \in A <=> x = Slot(w, 0) \/ \E j \in 1 .. k : x = Slot(w, to(j))
    <3>1. 0 .. k = {0} \cup (1 .. k) /\ to(0) = 0
      OBVIOUS
    <3> HIDE DEF to
    <3> QED BY <3>1
  <2> HIDE DEF A, to
  <2>3. ASSUME NEW x
        PROVE  (\E v \in Worker : \E i \in 1 .. l[v] : x = Slot(v, i))
                  <=> \/ \E v \in Worker : \E i \in 1 .. len[v] : x = Slot(v, i)
                      \/ \E j \in 1 .. k : x = Slot(w, to(j))
    <3>1. ASSUME NEW v \in Worker, NEW i \in 1 .. l[v], x = Slot(v, i)
          PROVE  \/ \E u \in Worker : \E h \in 1 .. len[u] : x = Slot(u, h)
                 \/ \E j \in 1 .. k : x = Slot(w, to(j))
      BY <3>1, <2>1, <1>1
    <3>2. ASSUME NEW v \in Worker, NEW i \in 1 .. len[v], x = Slot(v, i)
          PROVE  \E u \in Worker : \E h \in 1 .. l[u] : x = Slot(u, h)
      BY <3>2, <2>1, <1>1
    <3>3. ASSUME NEW j \in 1 .. k, x = Slot(w, to(j))
          PROVE  \E u \in Worker : \E h \in 1 .. l[u] : x = Slot(u, h)
      BY <3>3, <2>1
    <3> QED BY <3>1, <3>2, <3>3
  <2>4. ASSUME NEW x PROVE x \in T <=> x \in U \/ x \in A
    <3>1. (\E v \in busy \cup {w} : x = Slot(v, 0))
             <=> (\E v \in busy : x = Slot(v, 0)) \/ x = Slot(w, 0)
      OBVIOUS
    <3>2. x \in T <=> \/ \E i \in 1 .. m : x = Slot(0, i)
                      \/ \E v \in Worker : \E i \in 1 .. l[v] : x = Slot(v, i)
                      \/ \E v \in busy \cup {w} : x = Slot(v, 0)
                      \/ \E v \in adding : x = Slot(v, -1)
      BY InSlotSet
    <3>3. x \in U <=> \/ \E i \in 1 .. m : x = Slot(0, i)
                      \/ \E v \in Worker : \E i \in 1 .. len[v] : x = Slot(v, i)
                      \/ \E v \in busy : x = Slot(v, 0)
                      \/ \E v \in adding : x = Slot(v, -1)
      BY InSlotSet
    <3>4. x \in A <=> x = Slot(w, 0) \/ \E j \in 1 .. k : x = Slot(w, to(j))
      BY <2>2
    <3> HIDE DEF T, U
    <3> QED BY <3>1, <3>2, <3>3, <3>4, <2>3
  <2> QED BY <2>4
<1>4. U \cap R = {}
  <2>1. \A j \in 0 .. k : Slot(0, n - j) \notin U
    <3>1. \A j \in 0 .. k : n - j \notin 1 .. m /\ n - j # 0 /\ n - j # -1
      OBVIOUS
    <3>2. 0 \notin Worker
      BY WorkerType
    <3> QED BY <1>1, <3>1, <3>2, PairInSlotSet
  <2> QED BY <2>1
<1>5. U \cap A = {}
  <2>1. \A j \in 0 .. k : Slot(w, to(j)) \notin U
    <3>1. \A j \in 0 .. k : /\ to(j) \notin 1 .. len[w] /\ to(j) # -1
                            /\ to(j) = 0 => w \notin busy
      BY <1>1
    <3>2. w # 0
      BY WorkerType
    <3>3. \A j \in 0 .. k : to(j) = 0 => w \notin busy
      OBVIOUS
    <3> HIDE DEF to
    <3> QED BY <1>1, <3>1, <3>2, <3>3, PairInSlotSet
  <2> QED BY <2>1
<1>6. IsFiniteSet(R) /\ IsFiniteSet(A) /\ Cardinality(R) = Cardinality(A)
  <2>1. f \in [0 .. k -> R] /\ \A r \in R : \E j \in 0 .. k : f[j] = r
    OBVIOUS
  <2>2. g \in [0 .. k -> A] /\ \A a \in A : \E j \in 0 .. k : g[j] = a
    <3> HIDE DEF to
    <3> QED OBVIOUS
  <2>3. \A i, j \in 0 .. k : f[i] = f[j] => i = j
    BY SlotInj
  <2>4. \A i, j \in 0 .. k : g[i] = g[j] => i = j
    <3>1. \A i, j \in 0 .. k : to(i) = to(j) => i = j
      BY <1>1
    <3> HIDE DEF to
    <3> QED BY <3>1, SlotInj
  <2>5. IsFiniteSet(0 .. k)
    BY FS_Interval
  <2> HIDE DEF f, g, R, A
  <2>6. f \in Bijection(0 .. k, R)
    BY <2>1, <2>3, Fun_IsBij
  <2>7. g \in Bijection(0 .. k, A)
    BY <2>2, <2>4, Fun_IsBij
  <2>8. ExistsBijection(0 .. k, R) /\ ExistsBijection(0 .. k, A)
    BY <2>6, <2>7 DEF ExistsBijection
  <2> QED BY <2>5, <2>8, FS_Bijection
<1>7. IsFiniteSet(U)
  BY <1>2, FS_Subset
<1> HIDE DEF S, T, U, R, A
<1>8. Cardinality(U \cup R) = Cardinality(U) + Cardinality(R) - Cardinality(U \cap R)
  BY <1>6, <1>7, FS_Union
<1>9. /\ IsFiniteSet(U \cup A)
      /\ Cardinality(U \cup A) = Cardinality(U) + Cardinality(A) - Cardinality(U \cap A)
  BY <1>6, <1>7, FS_Union
<1>10. IsFiniteSet(T) /\ Cardinality(T) = Cardinality(S)
  BY <1>2, <1>3, <1>4, <1>5, <1>6, <1>8, <1>9
<1> QED BY <1>10 DEF S, T
-----------------------------------------------------------------------------
(* The counter matches the slots                                           *)

QLen == [w \in Worker |-> Len(deque[w])]
BusySet == {w \in Worker : Busy(w)}
AddSet == {w \in Worker : pc[w] = "push"}

\* The slots of a state and the types of what they are computed from
LEMMA SlotsAre ==
    /\ Slots = SlotSet(Len(injector), QLen, BusySet, AddSet)
    /\ TypeOK => SlotArgs(Len(injector), QLen, BusySet, AddSet)
<1>1. Slots = SlotSet(Len(injector), QLen, BusySet, AddSet)
  BY Zenon DEF Slots, QLen, BusySet, AddSet
<1>2. BusySet \in SUBSET Worker /\ AddSet \in SUBSET Worker
  BY DEF BusySet, AddSet
<1>3. ASSUME TypeOK PROVE Len(injector) \in Nat /\ QLen \in [Worker -> Nat]
  BY <1>3, LenProperties DEF TypeOK, QLen
<1> QED BY <1>1, <1>2, <1>3, Zenon DEF SlotArgs

\* The same after a step.
LEMMA SlotsAreNext == Slots' = SlotSet(Len(injector'), QLen', BusySet', AddSet')
BY Zenon DEF Slots, SlotSet, QLen, BusySet, AddSet

\* A step that leaves the queues, the busy workers and the ones between
\* fetch_add and push alone leaves the slots alone.
LEMMA SlotsKept ==
    ASSUME injector' = injector, deque' = deque,
           \A v \in Worker : /\ pc'[v] \in BusyPc <=> pc[v] \in BusyPc
                             /\ pc'[v] = "push" <=> pc[v] = "push"
    PROVE  Slots' = Slots
<1>1. BusySet' = BusySet /\ AddSet' = AddSet
  BY DEF BusySet, AddSet, Busy
<1>2. QLen' = QLen
  BY DEF QLen
<1> QED BY <1>1, <1>2, SlotsAre, SlotsAreNext

\* What one step does to the slots and to the counter
Accounted ==
    /\ IsFiniteSet(Slots')
    /\ \/ pending' = pending /\ Cardinality(Slots') = Cardinality(Slots)
       \/ /\ pending' = pending + 1 /\ Cardinality(Slots') = Cardinality(Slots) + 1
          /\ Slots # {} \/ nextRoot <= Len(Roots)
       \/ /\ pending' = pending - 1 /\ Cardinality(Slots') = Cardinality(Slots) - 1
          /\ Slots # {}

\* The root loop of walk_parallel: one fetch_add, one push.
LEMMA EnqueueRootAccounted ==
    ASSUME TypeOK, IsFiniteSet(Slots), EnqueueRoot
    PROVE  Accounted
<1>0. /\ Slots = SlotSet(Len(injector), QLen, BusySet, AddSet)
      /\ SlotArgs(Len(injector), QLen, BusySet, AddSet)
  BY SlotsAre
<1>1. Len(injector') = Len(injector) + 1
  <2>1. Len(Roots) \in Nat /\ nextRoot \in 1 .. Len(Roots)
    BY TreeAssumption, LenProperties DEF EnqueueRoot, TypeOK
  <2>2. Roots[nextRoot] \in Path
    BY <2>1, TreeAssumption, ElementOfSeq
  <2> QED BY <2>2, RootTaskType, AppendProperties DEF EnqueueRoot, TypeOK
<1>2. QLen' = QLen /\ BusySet' = BusySet /\ AddSet' = AddSet
  BY DEF EnqueueRoot, QLen, BusySet, AddSet, Busy
<1>3. Slots' = SlotSet(Len(injector) + 1, QLen, BusySet, AddSet)
  BY <1>1, <1>2, SlotsAreNext, Zenon
<1>4. /\ Slot(0, Len(injector) + 1) \notin Slots
      /\ Slots' = Slots \cup {Slot(0, Len(injector) + 1)}
  BY <1>3, <1>0, SlotAdded
<1>5. IsFiniteSet(Slots') /\ Cardinality(Slots') = Cardinality(Slots) + 1
  BY <1>4, FS_AddElement
<1> QED BY <1>5 DEF Accounted, EnqueueRoot

\* descend counts the child before it is visible to any thief.
LEMMA FetchAddAccounted ==
    ASSUME TypeOK, IsFiniteSet(Slots), NEW w \in Worker, FetchAdd(w)
    PROVE  Accounted
<1>0. /\ Slots = SlotSet(Len(injector), QLen, BusySet, AddSet)
      /\ SlotArgs(Len(injector), QLen, BusySet, AddSet)
  BY SlotsAre
<1>1. /\ QLen' = QLen /\ BusySet' = BusySet /\ AddSet' = AddSet \cup {w}
      /\ Len(injector') = Len(injector) /\ w \notin AddSet /\ w \in BusySet
  BY DEF FetchAdd, Goto, TypeOK, QLen, BusySet, AddSet, Busy, BusyPc
<1>2. Slots' = SlotSet(Len(injector), QLen, BusySet, AddSet \cup {w})
  BY <1>1, SlotsAreNext, Zenon
<1>3. Slot(w, -1) \notin Slots /\ Slots' = Slots \cup {Slot(w, -1)}
  BY <1>1, <1>2, <1>0, SlotAdded
<1>4. Slot(w, 0) \in Slots
  BY <1>1, <1>0, PairInSlotSet DEF SlotArgs
<1>5. IsFiniteSet(Slots') /\ Cardinality(Slots') = Cardinality(Slots) + 1
  BY <1>3, FS_AddElement
<1> QED BY <1>4, <1>5 DEF Accounted, FetchAdd

\* run_worker counts a task out once, after process.
LEMMA FetchSubAccounted ==
    ASSUME TypeOK, IsFiniteSet(Slots), NEW w \in Worker, FetchSub(w)
    PROVE  Accounted
<1>0. /\ Slots = SlotSet(Len(injector), QLen, BusySet, AddSet)
      /\ SlotArgs(Len(injector), QLen, BusySet, AddSet)
  BY SlotsAre
<1>1. /\ QLen' = QLen /\ BusySet' = BusySet \ {w} /\ AddSet' = AddSet
      /\ Len(injector') = Len(injector) /\ w \in BusySet
  BY DEF FetchSub, Goto, TypeOK, QLen, BusySet, AddSet, Busy, BusyPc
<1>2. Slots' = SlotSet(Len(injector), QLen, BusySet \ {w}, AddSet)
  BY <1>1, SlotsAreNext, Zenon
<1>3. Slot(w, 0) \in Slots /\ Slots' = Slots \ {Slot(w, 0)}
  BY <1>1, <1>2, <1>0, SlotFreed
<1>4. IsFiniteSet(Slots') /\ Cardinality(Slots') = Cardinality(Slots) - 1
  BY <1>3, FS_RemoveElement
<1> QED BY <1>3, <1>4 DEF Accounted, FetchSub

\* The push itself changes no count.
LEMMA PushAccounted ==
    ASSUME TypeOK, IsFiniteSet(Slots), NEW w \in Worker, Push(w)
    PROVE  Accounted
<1>0. /\ Slots = SlotSet(Len(injector), QLen, BusySet, AddSet)
      /\ SlotArgs(Len(injector), QLen, BusySet, AddSet)
  BY SlotsAre
<1>1. Len(Append(deque[w], ChildTask(w))) = QLen[w] + 1
  BY ChildTaskType, AppendProperties DEF Push, TypeOK, QLen
<1>2. SetLen(QLen, QLen', w, QLen[w] + 1)
  <2>1. deque' = [deque EXCEPT ![w] = Append(deque[w], ChildTask(w))] /\ DOMAIN deque = Worker
    BY DEF Push, TypeOK
  <2>2. \A v \in Worker : Len(deque'[v]) = IF v = w THEN QLen[w] + 1 ELSE Len(deque[v])
    BY <1>1, <2>1, Zenon
  <2> QED BY <1>0, <2>2 DEF SetLen, SlotArgs, QLen
<1>3. /\ BusySet' = BusySet /\ AddSet' = AddSet \ {w}
      /\ Len(injector') = Len(injector) /\ w \in AddSet
  BY DEF Push, Goto, TypeOK, BusySet, AddSet, Busy, BusyPc
<1>4. Slots' = SlotSet(Len(injector), QLen', BusySet, AddSet \ {w})
  BY <1>2, <1>3, SlotsAreNext, Zenon
<1>5. IsFiniteSet(Slots') /\ Cardinality(Slots') = Cardinality(Slots)
  BY <1>0, <1>2, <1>3, <1>4, SlotPushed
<1> QED BY <1>5 DEF Accounted, Push

\* A task that leaves a deque (popped by its owner or stolen) is held by w.
LEMMA TakeAccounted ==
    ASSUME TypeOK, IsFiniteSet(Slots), NEW w \in Worker, NEW v \in Worker, NEW t, NEW d,
           pc[w] \in IdlePc, Take(w, t), injector' = injector, deque[v] # <<>>,
           deque' = [deque EXCEPT ![v] = d], Len(d) = Len(deque[v]) - 1
    PROVE  Accounted
<1>0. /\ Slots = SlotSet(Len(injector), QLen, BusySet, AddSet)
      /\ SlotArgs(Len(injector), QLen, BusySet, AddSet)
  BY SlotsAre
<1>1. Len(deque[v]) \in Nat \ {0} /\ QLen[v] = Len(deque[v])
  BY EmptySeq DEF TypeOK, QLen
<1>2. SetLen(QLen, QLen', v, QLen[v] - 1)
  <2>1. \A u \in Worker : Len(deque'[u]) = IF u = v THEN QLen[v] - 1 ELSE Len(deque[u])
    BY <1>1, Zenon DEF TypeOK
  <2> QED BY <1>0, <2>1 DEF SetLen, SlotArgs, QLen
<1>3. /\ BusySet' = BusySet \cup {w} /\ AddSet' = AddSet
      /\ Len(injector') = Len(injector) /\ w \in Worker \ BusySet
  BY DEF Take, Goto, TypeOK, BusySet, AddSet, Busy, BusyPc, IdlePc
<1>4. Slots' = SlotSet(Len(injector), QLen', BusySet \cup {w}, AddSet)
  BY <1>2, <1>3, SlotsAreNext, Zenon
<1>5. QLen[v] # 0
  BY <1>1
<1>6. IsFiniteSet(Slots') /\ Cardinality(Slots') = Cardinality(Slots)
  BY <1>0, <1>2, <1>3, <1>4, <1>5, SlotTaken
<1> QED BY <1>6 DEF Accounted, Take

\* steal_batch_and_pop moves tasks and changes no count.
LEMMA BatchAccounted ==
    ASSUME TypeOK, IsFiniteSet(Slots), NEW w \in Worker, StealBatchAndPop(w)
    PROVE  Accounted
<1>0. /\ Slots = SlotSet(Len(injector), QLen, BusySet, AddSet)
      /\ SlotArgs(Len(injector), QLen, BusySet, AddSet)
  BY SlotsAre
<1>1. PICK k \in 0 .. Len(injector) - 1 :
         /\ deque' = [deque EXCEPT ![w] = deque[w] \o Reverse(SubSeq(injector, 2, k + 1))]
         /\ injector' = SubSeq(injector, k + 2, Len(injector))
  BY DEF StealBatchAndPop
<1>2. /\ Len(injector) \in Nat \ {0} /\ Len(injector') = Len(injector) - (k + 1)
      /\ Len(deque[w] \o Reverse(SubSeq(injector, 2, k + 1))) = QLen[w] + k
  <2>1. injector \in Seq(Task) /\ injector # <<>> /\ deque[w] \in Seq(Task)
    BY DEF StealBatchAndPop, TypeOK
  <2>2. /\ Len(deque[w] \o Reverse(SubSeq(injector, 2, k + 1))) = Len(deque[w]) + k
        /\ Len(SubSeq(injector, k + 2, Len(injector))) = Len(injector) - (k + 1)
    <3>1. \A s, d \in Seq(Task) : s # <<>> => \A j \in 0 .. Len(s) - 1 :
             /\ Len(d \o Reverse(SubSeq(s, 2, j + 1))) = Len(d) + j
             /\ Len(SubSeq(s, j + 2, Len(s))) = Len(s) - (j + 1)
      BY BatchMove
    <3> QED BY <2>1, <3>1
  <2>3. Len(injector) \in Nat \ {0}
    BY <2>1, EmptySeq
  <2>4. QLen[w] = Len(deque[w])
    BY DEF QLen
  <2> QED BY <1>1, <2>2, <2>3, <2>4, Zenon
<1>3. SetLen(QLen, QLen', w, QLen[w] + k)
  <2>1. \A u \in Worker : Len(deque'[u]) = IF u = w THEN QLen[w] + k ELSE Len(deque[u])
    BY <1>1, <1>2, Zenon DEF TypeOK
  <2> QED BY <1>0, <2>1 DEF SetLen, SlotArgs, QLen
<1>4. BusySet' = BusySet \cup {w} /\ AddSet' = AddSet /\ w \in Worker \ BusySet
  BY DEF StealBatchAndPop, Take, Goto, TypeOK, BusySet, AddSet, Busy, BusyPc
<1>5. Slots' = SlotSet(Len(injector'), QLen', BusySet \cup {w}, AddSet)
  BY <1>4, SlotsAreNext, Zenon
<1>6. IsFiniteSet(Slots') /\ Cardinality(Slots') = Cardinality(Slots)
  <2>1. Len(injector') = Len(injector) - (k + 1) /\ w \in Worker \ BusySet
    BY <1>2, <1>4
  <2>2. BatchOf(Len(injector), Len(injector'), k)
    BY <2>1 DEF BatchOf
  <2> QED BY <1>0, <1>3, <1>5, <2>1, <2>2, SlotBatch
<1> QED BY <1>6 DEF Accounted, StealBatchAndPop, Take

\* A worker's step outside the queues and the counter
Quiet(w) ==
    \/ CheckQuit(w) \/ PopNone(w) \/ InjectorMiss(w) \/ StealMiss(w) \/ ScanEnd(w)
    \/ LoadPending(w) \/ VisitRoot(w) \/ CheckDepth(w) \/ Acquire(w) \/ AcquireAborted(w)
    \/ Open(w) \/ OpenFails(w) \/ OpenExhausted(w) \/ OpenAbs(w) \/ OpenAbsExhausted(w)
    \/ ReadFrom(w) \/ ReadFromFails(w) \/ NextEntry(w) \/ SkipEntry(w) \/ ReadError(w)
    \/ EndOfDir(w) \/ Visit(w)

\* None of the other steps of a worker touches the counter or the slots.
LEMMA QuietAccounted ==
    ASSUME TypeOK, IsFiniteSet(Slots), NEW w \in Worker, Quiet(w)
    PROVE  Accounted
<1>1. /\ injector' = injector /\ deque' = deque /\ pending' = pending
      /\ \A v \in Worker : /\ pc'[v] \in BusyPc <=> pc[v] \in BusyPc
                           /\ pc'[v] = "push" <=> pc[v] = "push"
  <2>1. CASE CheckQuit(w)
    BY <2>1 DEF CheckQuit, Goto, TypeOK, BusyPc, IdlePc
  <2>2. CASE PopNone(w)
    BY <2>2 DEF PopNone, Goto, TypeOK, BusyPc, IdlePc
  <2>3. CASE InjectorMiss(w)
    BY <2>3 DEF InjectorMiss, Goto, TypeOK, BusyPc, IdlePc
  <2>4. CASE StealMiss(w)
    BY <2>4 DEF StealMiss, Goto, TypeOK, BusyPc, IdlePc
  <2>5. CASE ScanEnd(w)
    BY <2>5 DEF ScanEnd, Goto, TypeOK, BusyPc, IdlePc
  <2>6. CASE LoadPending(w)
    BY <2>6 DEF LoadPending, Goto, TypeOK, BusyPc, IdlePc
  <2>7. CASE VisitRoot(w)
    BY <2>7 DEF VisitRoot, Goto, TypeOK, BusyPc, IdlePc
  <2>8. CASE CheckDepth(w)
    BY <2>8 DEF CheckDepth, Goto, TypeOK, BusyPc, IdlePc
  <2>9. CASE Acquire(w)
    BY <2>9 DEF Acquire, Goto, TypeOK, BusyPc, IdlePc
  <2>10. CASE AcquireAborted(w)
    BY <2>10 DEF AcquireAborted, Goto, TypeOK, BusyPc, IdlePc
  <2>11. CASE Open(w)
    BY <2>11 DEF Open, Opened, Goto, TypeOK, BusyPc, IdlePc
  <2>12. CASE OpenFails(w)
    BY <2>12 DEF OpenFails, GiveUp, Goto, TypeOK, BusyPc, IdlePc
  <2>13. CASE OpenExhausted(w)
    BY <2>13 DEF OpenExhausted, GiveUp, Goto, TypeOK, BusyPc, IdlePc
  <2>14. CASE OpenAbs(w)
    BY <2>14 DEF OpenAbs, Opened, Goto, TypeOK, BusyPc, IdlePc
  <2>15. CASE OpenAbsExhausted(w)
    BY <2>15 DEF OpenAbsExhausted, GiveUp, Goto, TypeOK, BusyPc, IdlePc
  <2>16. CASE ReadFrom(w)
    BY <2>16 DEF ReadFrom, Goto, TypeOK, BusyPc, IdlePc
  <2>17. CASE ReadFromFails(w)
    BY <2>17 DEF ReadFromFails, GiveUp, Goto, TypeOK, BusyPc, IdlePc
  <2>18. CASE NextEntry(w)
    BY <2>18 DEF NextEntry, Goto, TypeOK, BusyPc, IdlePc
  <2>19. CASE SkipEntry(w)
    BY <2>19 DEF SkipEntry, Goto, TypeOK, BusyPc, IdlePc
  <2>20. CASE ReadError(w)
    BY <2>20 DEF ReadError, Goto, TypeOK, BusyPc, IdlePc
  <2>21. CASE EndOfDir(w)
    BY <2>21 DEF EndOfDir, Goto, TypeOK, BusyPc, IdlePc
  <2>22. CASE Visit(w)
    BY <2>22 DEF Visit, Goto, TypeOK, BusyPc, IdlePc
  <2> QED BY <2>1, <2>2, <2>3, <2>4, <2>5, <2>6, <2>7, <2>8, <2>9, <2>10, <2>11, <2>12, <2>13, <2>14, <2>15, <2>16, <2>17, <2>18, <2>19, <2>20, <2>21, <2>22 DEF Quiet
<1> QED BY <1>1, SlotsKept DEF Accounted

\* Every step keeps the counter equal to the number of slots.
LEMMA NextAccounted ==
    ASSUME TypeOK, IsFiniteSet(Slots), [Next]_vars
    PROVE  Accounted
<1>1. CASE EnqueueRoot
  BY <1>1, EnqueueRootAccounted
<1>2. CASE SkipRoot \/ Refill \/ Returned \/ UNCHANGED vars
  <2>1. injector' = injector /\ deque' = deque /\ pending' = pending /\ pc' = pc
    BY <1>2 DEF SkipRoot, Refill, Returned, vars
  <2> QED BY <2>1, SlotsKept DEF Accounted
<1>3. CASE Spawn
  <2>1. /\ injector' = injector /\ deque' = deque /\ pending' = pending
        /\ \A v \in Worker : /\ pc'[v] \in BusyPc <=> pc[v] \in BusyPc
                             /\ pc'[v] = "push" <=> pc[v] = "push"
    BY <1>3 DEF Spawn, TypeOK, BusyPc
  <2> QED BY <2>1, SlotsKept DEF Accounted
<1>4. ASSUME NEW w \in Worker, Step(w)
      PROVE  Accounted
  <2>1. CASE Quiet(w)
    BY <2>1, QuietAccounted
  <2>2. CASE Pop(w)
    <3>1. /\ pc[w] \in IdlePc /\ deque[w] # <<>> /\ injector' = injector
          /\ Take(w, Last(deque[w])) /\ deque' = [deque EXCEPT ![w] = Front(deque[w])]
      BY <2>2 DEF Pop, IdlePc
    <3>2. Len(Front(deque[w])) = Len(deque[w]) - 1
      BY <3>1, FrontLast DEF TypeOK
    <3> QED BY <3>1, <3>2, TakeAccounted
  <2>3. CASE Steal(w)
    <3>1. /\ pc[w] \in IdlePc /\ victim[w] \in Worker /\ deque[victim[w]] # <<>>
          /\ injector' = injector /\ Take(w, Head(deque[victim[w]]))
          /\ deque' = [deque EXCEPT ![victim[w]] = Tail(deque[victim[w]])]
      BY <2>3 DEF Steal, IdlePc
    <3>2. Len(Tail(deque[victim[w]])) = Len(deque[victim[w]]) - 1
      BY <3>1, HeadTailProperties DEF TypeOK
    <3> QED BY <3>1, <3>2, TakeAccounted
  <2>4. CASE StealBatchAndPop(w)
    BY <2>4, BatchAccounted
  <2>5. CASE FetchAdd(w)
    BY <2>5, FetchAddAccounted
  <2>6. CASE Push(w)
    BY <2>6, PushAccounted
  <2>7. CASE FetchSub(w)
    BY <2>7, FetchSubAccounted
  <2> QED BY <1>4, <2>1, <2>2, <2>3, <2>4, <2>5, <2>6, <2>7
          DEF Step, Finding, Opening, Reading, Quiet
<1> QED BY <1>1, <1>2, <1>3, <1>4 DEF Next
-----------------------------------------------------------------------------
(* The inductive invariant                                                 *)

\* No worker runs before the last root is enqueued.
NotYetSpawned == nextRoot <= Len(Roots) => \A w \in Worker : pc[w] = "new"

WalkInv ==
    TypeOK /\ IsFiniteSet(Slots) /\ PendingAccounts /\ NoEarlyExit /\ NotYetSpawned

\* The invariant holds before the first root.
LEMMA InvInit == Init => WalkInv
<1> SUFFICES ASSUME Init PROVE WalkInv
  OBVIOUS
<1>1. TypeOK
  BY TypeInit
<1>2. Slots = {}
  <2>1. Len(injector) = 0 /\ BusySet = {} /\ AddSet = {} /\ \A w \in Worker : QLen[w] = 0
    BY EmptySeq DEF Init, BusySet, AddSet, QLen, Busy, BusyPc
  <2>2. \A x : x \notin SlotSet(Len(injector), QLen, BusySet, AddSet)
    BY <2>1, InSlotSet
  <2> QED BY <2>2, SlotsAre
<1>3. IsFiniteSet(Slots) /\ PendingAccounts
  BY <1>2, FS_EmptySet DEF Init, PendingAccounts
<1>4. NoEarlyExit /\ NotYetSpawned
  BY <1>2 DEF NoEarlyExit, NotYetSpawned, Init
<1> QED BY <1>1, <1>3, <1>4 DEF WalkInv

\* A worker reaches "done" only by CheckQuit or LoadPending.
LEMMA DoneSteps ==
    ASSUME TypeOK, [Next]_vars, NEW w \in Worker, pc'[w] = "done", pc[w] # "done"
    PROVE  quit' \/ (pending = 0 /\ pending' = pending)
<1>1. CASE EnqueueRoot \/ SkipRoot \/ Spawn \/ Refill \/ Returned \/ UNCHANGED vars
  BY <1>1 DEF EnqueueRoot, SkipRoot, Spawn, Refill, Returned, vars
<1>2. ASSUME NEW v \in Worker, Step(v)
      PROVE  quit' \/ (pending = 0 /\ pending' = pending)
  <2>1. CASE CheckQuit(v)
    BY <2>1 DEF CheckQuit, Goto, TypeOK
  <2>2. CASE LoadPending(v)
    BY <2>2 DEF LoadPending, Goto, TypeOK
  <2>3. CASE Finding(v) /\ ~CheckQuit(v) /\ ~LoadPending(v)
    BY <2>3 DEF Finding, Pop, PopNone, StealBatchAndPop, InjectorMiss, Steal, StealMiss,
                ScanEnd, Take, Goto, TypeOK
  <2>4. CASE Opening(v)
    BY <2>4 DEF Opening, VisitRoot, CheckDepth, Acquire, AcquireAborted, Open, OpenFails,
                OpenExhausted, OpenAbs, OpenAbsExhausted, ReadFrom, ReadFromFails,
                Opened, GiveUp, Goto, TypeOK
  <2>5. CASE Reading(v)
    BY <2>5 DEF Reading, NextEntry, SkipEntry, ReadError, EndOfDir, Visit, FetchAdd, Push,
                FetchSub, Goto, TypeOK
  <2> QED BY <1>2, <2>1, <2>2, <2>3, <2>4, <2>5 DEF Step
<1> QED BY <1>1, <1>2 DEF Next

\* quit is never reset.
LEMMA QuitSticks ==
    ASSUME TypeOK, [Next]_vars, quit
    PROVE  quit'
<1>1. CASE EnqueueRoot \/ SkipRoot \/ Spawn \/ Refill \/ Returned \/ UNCHANGED vars
  BY <1>1, Zenon DEF EnqueueRoot, SkipRoot, Spawn, Refill, Returned, vars
<1>2. ASSUME NEW w \in Worker, Step(w) PROVE quit'
  <2>1. CASE VisitRoot(w) \/ Visit(w)
    BY <2>1, Zenon DEF VisitRoot, Visit
  <2>2. CASE ~VisitRoot(w) /\ ~Visit(w)
    <3>1. quit' = quit
      BY <1>2, <2>2, Zenon DEF Step, Finding, Opening, Reading, CheckQuit, Pop, PopNone,
         StealBatchAndPop, InjectorMiss, Steal, StealMiss, ScanEnd, LoadPending, Take,
         CheckDepth, Acquire, AcquireAborted, Open, OpenFails, OpenExhausted, OpenAbs,
         OpenAbsExhausted, ReadFrom, ReadFromFails, Opened, GiveUp, NextEntry, SkipEntry,
         ReadError, EndOfDir, FetchAdd, Push, FetchSub
    <3> QED BY <3>1
  <2> QED BY <2>1, <2>2
<1> QED BY <1>1, <1>2, Zenon DEF Next

\* thread::scope starts after the root loop.
LEMMA SpawnedNext ==
    ASSUME TypeOK, [Next]_vars, NotYetSpawned
    PROVE  NotYetSpawned'
<1>1. nextRoot \in Nat /\ Len(Roots) \in Nat
  BY TreeAssumption, LenProperties DEF TypeOK
<1>2. CASE EnqueueRoot \/ SkipRoot
  BY <1>1, <1>2 DEF EnqueueRoot, SkipRoot, NotYetSpawned
<1>3. CASE Spawn \/ Refill \/ Returned \/ UNCHANGED vars
  BY <1>1, <1>3 DEF Spawn, Refill, Returned, vars, NotYetSpawned
<1>4. ASSUME NEW w \in Worker, Step(w) PROVE NotYetSpawned'
  <2>1. pc[w] # "new"
    BY <1>4 DEF Step, Finding, Opening, Reading, CheckQuit, Pop, PopNone, StealBatchAndPop,
         InjectorMiss, Steal, StealMiss, ScanEnd, LoadPending, VisitRoot, CheckDepth, Acquire,
         AcquireAborted, Open, OpenFails, OpenExhausted, OpenAbs, OpenAbsExhausted, ReadFrom,
         ReadFromFails, NextEntry, SkipEntry, ReadError, EndOfDir, Visit, FetchAdd, Push, FetchSub
  <2>2. nextRoot' = nextRoot
    BY <1>4, Zenon DEF Step, Finding, Opening, Reading, CheckQuit, Pop, PopNone,
         StealBatchAndPop, InjectorMiss, Steal, StealMiss, ScanEnd, LoadPending, Take,
         VisitRoot, CheckDepth, Acquire, AcquireAborted, Open, OpenFails, OpenExhausted,
         OpenAbs, OpenAbsExhausted, ReadFrom, ReadFromFails, Opened, GiveUp, NextEntry,
         SkipEntry, ReadError, EndOfDir, Visit, FetchAdd, Push, FetchSub
  <2> QED BY <2>1, <2>2 DEF NotYetSpawned
<1> QED BY <1>2, <1>3, <1>4 DEF Next

\* Every step of every thread preserves the invariant.
LEMMA InvNext == WalkInv /\ [Next]_vars => WalkInv'
<1> SUFFICES ASSUME WalkInv, [Next]_vars PROVE WalkInv'
  OBVIOUS
<1>1. /\ TypeOK /\ IsFiniteSet(Slots) /\ pending = Cardinality(Slots)
      /\ NoEarlyExit /\ NotYetSpawned
  BY DEF WalkInv, PendingAccounts
<1>2. Accounted
  BY <1>1, NextAccounted
<1>3. /\ IsFiniteSet(Slots') /\ pending' = Cardinality(Slots')
      /\ Slots = {} /\ nextRoot > Len(Roots) => pending' = pending
  <2>1. Cardinality(Slots) \in Nat
    BY <1>1, FS_CardinalityType
  <2>2. nextRoot \in Nat /\ Len(Roots) \in Nat
    BY <1>1, TreeAssumption, LenProperties DEF TypeOK
  <2> QED BY <1>1, <1>2, <2>1, <2>2 DEF Accounted
<1>4. pending' \in Nat
  BY <1>3, FS_CardinalityType
<1>5. TypeOK'
  BY <1>1, <1>4, TypeNext
<1>6. NotYetSpawned'
  BY <1>1, SpawnedNext
<1>7. NoEarlyExit'
  <2> SUFFICES ASSUME NEW w \in Worker, pc'[w] = "done", ~quit' PROVE Slots' = {}
    BY DEF NoEarlyExit
  <2>1. ~quit
    BY <1>1, QuitSticks
  <2>2. pending = 0 /\ pending' = pending
    <3>1. CASE pc[w] = "done"
      <4>1. Slots = {}
        BY <1>1, <2>1, <3>1 DEF NoEarlyExit
      <4>2. nextRoot > Len(Roots)
        <5>1. nextRoot \in Nat /\ Len(Roots) \in Nat
          BY <1>1, TreeAssumption, LenProperties DEF TypeOK
        <5> QED BY <1>1, <3>1, <5>1 DEF NotYetSpawned
      <4> QED BY <1>1, <1>3, <4>1, <4>2, FS_EmptySet
    <3>2. CASE pc[w] # "done"
      BY <1>1, <3>2, DoneSteps
    <3> QED BY <3>1, <3>2
  <2>3. Cardinality(Slots') = 0
    BY <1>3, <2>2
  <2> QED BY <1>3, <2>3, FS_EmptySet
<1>8. PendingAccounts'
  BY <1>3 DEF PendingAccounts
<1> QED BY <1>3, <1>5, <1>6, <1>7, <1>8 DEF WalkInv

\* Every run of the walker, with or without the limiter's clock, keeps the
\* invariant.
THEOREM WalkInvariant == Init /\ [][Next]_vars => []WalkInv
BY InvInit, InvNext, PTL

\* walk.rs keeps its types: the depth, root device, ancestors and anchor a task
\* carries stay well formed, and the pending counter, an AtomicUsize, never goes
\* below zero.
THEOREM TypeCorrect == Spec => []TypeOK
<1>1. WalkInv => TypeOK
  BY DEF WalkInv
<1> QED BY <1>1, WalkInvariant, PTL DEF Spec

\* For any number of workers and any tree, the pending counter of walk_parallel
\* equals the tasks queued, held or counted and not yet pushed.
THEOREM PendingCorrect == Spec => []PendingAccounts
<1>1. WalkInv => PendingAccounts
  BY DEF WalkInv
<1> QED BY <1>1, WalkInvariant, PTL DEF Spec

\* run_worker returns only when the walk is over or was told to quit: a worker
\* whose scan missed a task in flight never retires.
THEOREM ExitCorrect == Spec => []NoEarlyExit
<1>1. WalkInv => NoEarlyExit
  BY DEF WalkInv
<1> QED BY <1>1, WalkInvariant, PTL DEF Spec

\* The same when the limiter's bucket may stay empty for ever.
THEOREM StarvedExitCorrect == StarvedSpec => [](TypeOK /\ PendingAccounts /\ NoEarlyExit)
<1>1. WalkInv => TypeOK /\ PendingAccounts /\ NoEarlyExit
  BY DEF WalkInv
<1> QED BY <1>1, WalkInvariant, PTL DEF StarvedSpec
=============================================================================
