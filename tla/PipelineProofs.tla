--------------------------- MODULE PipelineProofs ---------------------------
(***************************************************************************)
(* Proofs about run as a whole, for every tree, number of threads, batch   *)
(* size, capacity and cap: the walker is the environment that module       *)
(* Output assumes, so run prints what Output promises, and a stop signal   *)
(* lets a worker begin at most one more directory.                         *)
(***************************************************************************)
EXTENDS Pipeline, WalkResults, Recursion

USE DEF queues, scan, reading, history

-----------------------------------------------------------------------------
(* What the steps do to the state the two sides share                      *)

SenderPc == {"walk", "send", "drop", "tail", "done"}

PType ==
    /\ setup \in Setups /\ quit \in BOOLEAN
    /\ wpc \in [Worker -> SenderPc] /\ late \in [Worker -> Nat]

\* The two modules count the same workers.
LEMMA SameWorkers == \A s \in Setups : s.threads = Threads
  BY PipelineAssumption

\* So Output's workers are the walker's, whatever the setup.
LEMMA WorkersAgree == PType => O!Worker = Worker
  BY SameWorkers DEF PType, O!Worker, O!NWorkers, Worker, NWorkers

\* Only w moves, to l.
Moves(w, l) == wpc' = [wpc EXCEPT ![w] = l]

\* The visitor's verdict on an entry changes the worker's own place only.
LEMMA VisitFacts ==
    ASSUME PType, NEW w \in Worker, O!VisitShutdown(w) \/ O!VisitSkip(w) \/ O!VisitMatch(w)
    PROVE  /\ wpc[w] = "walk" /\ setup' = setup /\ shutdown' = shutdown
           /\ quit' \in BOOLEAN /\ (wpc'[w] = "send" => quit' = quit)
           /\ wpc'[w] \in {"walk", "send", "drop"} /\ Moves(w, wpc'[w])
           /\ shutdown => wpc'[w] = "drop"
<1>0. wpc \in [Worker -> SenderPc] /\ quit \in BOOLEAN
  BY DEF PType
<1> USE <1>0 DEF Moves, O!walkers, O!printer, O!ends
<1>1. CASE O!VisitShutdown(w)
  BY <1>1 DEF O!VisitShutdown
<1>2. CASE O!VisitSkip(w)
  BY <1>2 DEF O!VisitSkip
<1>3. CASE O!VisitMatch(w)
  BY <1>3 DEF O!VisitMatch
<1> QED
  BY <1>1, <1>2, <1>3

\* So does the end of a send: a batch in hand is handed over or refused.
LEMMA FlushFacts ==
    ASSUME PType, NEW w \in Worker, Flush(w)
    PROVE  /\ wpc[w] \in {"send", "tail"} /\ setup' = setup /\ shutdown' = shutdown /\ rest' = rest
           /\ quit' \in BOOLEAN /\ (wpc[w] = "tail" => quit' = quit)
           /\ Moves(w, wpc'[w])
           /\ wpc'[w] \in IF wpc[w] = "send" THEN {"walk", "drop"} ELSE {"done"}
<1>0. wpc \in [Worker -> SenderPc] /\ quit \in BOOLEAN
  BY DEF PType
<1> USE <1>0 DEF Moves, O!walkers, O!printer, O!ends
<1>1. CASE O!Send(w)
  BY <1>1 DEF O!Send, O!Sent
<1>2. CASE O!Rendezvous(w)
  BY <1>2 DEF O!Rendezvous, O!Sent
<1>3. CASE O!SendFails(w)
  BY <1>3 DEF O!SendFails
<1> QED
  BY <1>1, <1>2, <1>3 DEF Flush

\* A verdict is the walker's step Visit or VisitRoot.
LEMMA AnswerFacts ==
    ASSUME DOMAIN pc = Worker, DOMAIN entry = Worker, NEW w \in Worker, Answer(w)
    PROVE  /\ Step(w) /\ InVisitor(w) /\ visited' = visited \cup {Current(w)}
           /\ (pc'[w] = "sub") <=> (wpc'[w] = "drop")
           /\ pc'[w] = "sub" => quit' = TRUE
<1>1. CASE VisitRoot(w)
  BY <1>1 DEF Answer, VisitRoot, Goto, Step, Opening, InVisitor, Current
<1>2. CASE Visit(w)
  BY <1>2 DEF Answer, Visit, Goto, Step, Reading, InVisitor, Current
<1> QED
  BY <1>1, <1>2 DEF Answer

\* Outside the visitor a worker leaves the flag and the history alone.
LEMMA OutsideVisitor ==
    ASSUME NEW w \in Worker, Step(w), ~InVisitor(w)
    PROVE  quit' = quit /\ visited' = visited
<1>1. ~VisitRoot(w) /\ ~Visit(w)
  BY DEF VisitRoot, Visit, InVisitor
<1> QED
  BY <1>1, Zenon DEF Step, Finding, Opening, Reading, CheckQuit, Pop, PopNone, StealBatchAndPop,
     InjectorMiss, Steal, StealMiss, ScanEnd, LoadPending, Take, CheckDepth, Acquire,
     AcquireAborted, Open, OpenFails, OpenExhausted, OpenAbs, OpenAbsExhausted, GiveUp, Opened,
     ReadFrom, ReadFromFails, NextEntry, SkipEntry, ReadError, EndOfDir, FetchAdd, Push, FetchSub

\* Any other step of a worker leaves Output's state alone, but for its exit.
LEMMA RoamFacts ==
    ASSUME PType, NEW w \in Worker, Roam(w)
    PROVE  /\ Step(w) /\ ~InVisitor(w) /\ quit' = quit /\ visited' = visited
           /\ setup' = setup /\ rest' = rest /\ shutdown' = shutdown
           /\ Moves(w, wpc'[w])
           /\ wpc'[w] = IF wpc[w] = "walk" /\ pc'[w] = "done" THEN "drop" ELSE wpc[w]
  BY OutsideVisitor DEF Roam, PType, Moves

\* The print thread, the teardown and a signal touch neither.
LEMMA OtherFacts ==
    ASSUME O!PrintStep \/ O!MainStep \/ O!Signal
    PROVE  setup' = setup /\ rest' = rest /\ quit' = quit /\ wpc' = wpc
<1> USE DEF O!walkers, O!printer, O!ends
<1>1. CASE O!PrintStep
  BY <1>1 DEF O!PrintStep, O!Recv, O!RecvClosed, O!Write, O!Flush
<1>2. CASE O!MainStep
  BY <1>2 DEF O!MainStep, O!DropTx, O!Join
<1>3. CASE O!Signal
  BY <1>3 DEF O!Signal
<1> QED
  BY <1>1, <1>2, <1>3

\* Dropping the sender is invisible to the walker.
LEMMA DropFacts ==
    ASSUME PType, NEW w \in Worker, DropVisitor(w)
    PROVE  /\ setup' = setup /\ shutdown' = shutdown /\ rest' = rest /\ quit' = quit
           /\ UNCHANGED <<walkVars, late>>
           /\ wpc[w] \in {"drop", "tail"} /\ Moves(w, wpc'[w]) /\ wpc'[w] \in {"tail", "done"}
<1>1. CASE O!DropSender(w)
  BY <1>1 DEF DropVisitor, O!DropSender, O!walkers, O!printer, O!ends, PType, Moves
<1>2. CASE wpc[w] = "tail" /\ Flush(w)
  BY <1>2, FlushFacts DEF DropVisitor
<1> QED
  BY <1>1, <1>2 DEF DropVisitor

-----------------------------------------------------------------------------
(* The walk inside run is a walk                                           *)

\* Each step of run is a step of the walker, or none of its business.
LEMMA WalkStep ==
    ASSUME PType, DOMAIN pc = Worker, DOMAIN entry = Worker, [PNext]_pvars
    PROVE  [Next]_vars /\ PType'
<1> USE DEF walkVars, vars
<1>1. CASE Main
  BY <1>1 DEF Main, Next, EnqueueRoot, Spawn, outputVars, PType
<1>2. CASE Clock
  BY <1>2 DEF Clock, Next, Refill, outputVars, PType
<1>3. CASE Printing \/ TearDown \/ Interrupt
  BY <1>3, OtherFacts DEF Printing, TearDown, Interrupt, PType
<1>4. CASE Finished \/ UNCHANGED pvars
  BY <1>4 DEF Finished, pvars, outputVars, PType
<1>5. ASSUME NEW w \in Worker, Call(w) PROVE [Next]_vars /\ PType'
  <2>1. O!VisitShutdown(w) \/ O!VisitSkip(w) \/ O!VisitMatch(w)
    BY <1>5 DEF Call
  <2>2. CASE wpc'[w] = "send"
    BY <1>5, <2>1, <2>2, VisitFacts DEF Call, PType, Moves, SenderPc
  <2>3. CASE wpc'[w] # "send"
    <3>1. Step(w)
      BY <1>5, <2>3, AnswerFacts DEF Call
    <3> QED
      BY <1>5, <2>1, <3>1, VisitFacts DEF Call, PType, Moves, SenderPc, Next
  <2> QED
    BY <2>2, <2>3
<1>6. ASSUME NEW w \in Worker, PushReturns(w) PROVE [Next]_vars /\ PType'
  <2>1. Step(w)
    BY <1>6, AnswerFacts DEF PushReturns
  <2> QED
    BY <1>6, <2>1, FlushFacts DEF PushReturns, PType, Moves, SenderPc, Next
<1>7. ASSUME NEW w \in Worker, Roam(w) PROVE [Next]_vars /\ PType'
  <2>1. late' \in [Worker -> Nat]
    BY <1>7 DEF Roam, PType
  <2> QED
    BY <1>7, <2>1, RoamFacts DEF PType, Moves, SenderPc, Next
<1>8. ASSUME NEW w \in Worker, DropVisitor(w) PROVE [Next]_vars /\ PType'
  BY <1>8, DropFacts DEF PType, Moves, SenderPc
<1> QED
  BY <1>1, <1>2, <1>3, <1>4, <1>5, <1>6, <1>7, <1>8 DEF PNext, PStep

\* What is known of the walk inside run
Ground == PType /\ CompleteInv /\ FdInv /\ lost = {}

\* run keeps all invariants of the walk; with no errors and descriptors enough,
\* nothing is lost.
THEOREM WalkInside == PSpec => []Ground
<1>1. PInit => PType /\ Init /\ WalkInv
  <2> SUFFICES ASSUME PInit PROVE PType /\ Init /\ WalkInv
    OBVIOUS
  <2>1. O!Worker = Worker
    BY SameWorkers DEF PInit, O!Init, O!Worker, O!NWorkers, Worker, NWorkers
  <2> QED
    BY <2>1, InvInit DEF PInit, O!Init, PType, SenderPc
<1>2. PType /\ WalkInv /\ [PNext]_pvars => [Next]_vars /\ PType' /\ WalkInv'
  <2> SUFFICES ASSUME PType, WalkInv, [PNext]_pvars PROVE [Next]_vars /\ PType' /\ WalkInv'
    OBVIOUS
  <2>1. DOMAIN pc = Worker /\ DOMAIN entry = Worker
    BY DEF WalkInv, TypeOK
  <2> QED
    BY <2>1, WalkStep, InvNext
<1>3. PSpec => []PType /\ Init /\ [][Next]_vars
  BY <1>1, <1>2, PTL DEF PSpec
<1>4. PSpec => [](CompleteInv /\ FdInv)
  BY <1>3, CompleteInvariant, FdInvariant, PTL
<1>5. Init => Lossless
  BY DEF Init, Lossless
<1>6. FdInv => FdFree
  BY AlwaysFree, PipelineAssumption DEF EnoughFds
<1>7. PSpec => []Lossless
  BY <1>3, <1>4, <1>5, <1>6, LosslessNext, PTL
<1>8. Lossless => lost = {}
  BY PipelineAssumption DEF Lossless
<1> QED
  BY <1>3, <1>4, <1>7, <1>8, PTL DEF Ground

-----------------------------------------------------------------------------
(* Output has been given what the walk has visited                         *)

Sending == {w \in Worker : wpc[w] = "send"}

\* A worker blocked in a send is inside the visitor call; what Output has yet to be
\* given is what the walk has not visited and is not handing over.
Coupling ==
    /\ \A w \in Sending : InVisitor(w)
    /\ rest = Path \ (visited \cup {Current(w) : w \in Sending})

\* A step of w that keeps the others where they are keeps what they hand over.
LEMMA OthersSend ==
    ASSUME PType, NEW w \in Worker, Moves(w, wpc'[w]), Local(w), \A v \in Sending : InVisitor(v)
    PROVE  /\ Sending' \ {w} = Sending \ {w}
           /\ \A v \in Sending \ {w} : Current(v)' = Current(v) /\ InVisitor(v)'
<1>1. \A v \in Worker \ {w} : wpc'[v] = wpc[v]
  BY DEF PType, Moves
<1> QED
  BY <1>1 DEF Sending, Local, Current, InVisitor

\* Every step keeps the two sides together.
LEMMA CouplingStep ==
    ASSUME Ground, Coupling, [PNext]_pvars
    PROVE  Coupling'
<1>0. PType /\ TypeOK
  BY DEF Ground, CompleteInv, TaskInv, WalkInv
<1>1. ASSUME UNCHANGED <<pc, task, entry, visited, rest, wpc>> PROVE Coupling'
  <2>1. Sending' = Sending /\ \A w : Current(w)' = Current(w) /\ (InVisitor(w)' <=> InVisitor(w))
    BY <1>1 DEF Sending, Current, InVisitor
  <2> QED
    BY <1>1, <2>1 DEF Coupling
<1>2. CASE Main
  <2>1. CASE EnqueueRoot
    BY <1>1, <1>2, <2>1 DEF EnqueueRoot, Main, outputVars
  <2>2. CASE Spawn
    <3>1. Sending = {}
      BY <2>2 DEF Spawn, Coupling, InVisitor, Sending
    <3>2. wpc' = wpc /\ rest' = rest /\ visited' = visited
      BY <1>2, <2>2 DEF Spawn, Main, outputVars
    <3>3. Sending' = {}
      BY <3>1, <3>2 DEF Sending
    <3> QED
      BY <3>1, <3>2, <3>3 DEF Coupling
  <2> QED
    BY <1>2, <2>1, <2>2 DEF Main
<1>3. CASE Clock
  BY <1>1, <1>3 DEF Clock, Refill, outputVars
<1>4. CASE Printing \/ TearDown \/ Interrupt
  BY <1>1, <1>4, OtherFacts DEF Printing, TearDown, Interrupt, walkVars
<1>5. CASE Finished \/ UNCHANGED pvars
  BY <1>1, <1>5 DEF Finished, pvars, walkVars, outputVars
<1>6. ASSUME NEW w \in Worker, Call(w) PROVE Coupling'
  <2>1. /\ wpc[w] = "walk" /\ Moves(w, wpc'[w]) /\ rest' = rest \ {Current(w)} /\ InVisitor(w)
    BY <1>0, <1>6, VisitFacts DEF Call
  <2>2. w \notin Sending
    BY <2>1 DEF Sending
  <2>3. CASE wpc'[w] = "send"
    <3>1. UNCHANGED walkVars
      BY <1>6, <2>3 DEF Call
    <3>2. Local(w) /\ visited' = visited /\ Current(w)' = Current(w) /\ InVisitor(w)'
      BY <2>1, <3>1 DEF walkVars, Local, Current, InVisitor
    <3>3. Sending' = Sending \cup {w}
      BY <1>0, <2>1, <2>2, <2>3, <3>2, OthersSend DEF Coupling, Sending
    <3>4. \A v \in Sending' : InVisitor(v)'
      BY <1>0, <2>1, <2>2, <3>2, <3>3, OthersSend DEF Coupling
    <3>5. {Current(v)' : v \in Sending'} = {Current(v) : v \in Sending} \cup {Current(w)}
      BY <1>0, <2>1, <2>2, <3>2, <3>3, OthersSend DEF Coupling
    <3> QED
      BY <2>1, <3>2, <3>4, <3>5 DEF Coupling
  <2>4. CASE wpc'[w] # "send"
    <3>1. Step(w) /\ visited' = visited \cup {Current(w)}
      BY <1>0, <1>6, <2>4, AnswerFacts DEF Call, TypeOK
    <3>2. Local(w)
      BY <1>0, <3>1, StepLocal
    <3>3. Sending' = Sending
      BY <1>0, <2>1, <2>2, <2>4, <3>2, OthersSend DEF Coupling, Sending
    <3>4. \A v \in Sending : Current(v)' = Current(v) /\ InVisitor(v)'
      BY <1>0, <2>1, <2>2, <3>2, OthersSend DEF Coupling
    <3>5. {Current(v)' : v \in Sending'} = {Current(v) : v \in Sending}
      BY <3>3, <3>4
    <3> QED
      BY <2>1, <3>1, <3>3, <3>4, <3>5 DEF Coupling
  <2> QED
    BY <2>3, <2>4
<1>7. ASSUME NEW w \in Worker, PushReturns(w) PROVE Coupling'
  <2>1. /\ wpc[w] = "send" /\ wpc'[w] # "send" /\ Moves(w, wpc'[w]) /\ rest' = rest
    BY <1>0, <1>7, FlushFacts DEF PushReturns
  <2>2. Step(w) /\ visited' = visited \cup {Current(w)}
    BY <1>0, <1>7, AnswerFacts DEF PushReturns, TypeOK
  <2>3. Local(w)
    BY <1>0, <2>2, StepLocal
  <2>4. w \in Sending /\ Sending' = Sending \ {w}
    BY <1>0, <2>1, <2>3, OthersSend DEF Coupling, Sending
  <2>5. \A v \in Sending' : Current(v)' = Current(v) /\ InVisitor(v)'
    BY <1>0, <2>1, <2>3, <2>4, OthersSend DEF Coupling
  <2>6. visited' \cup {Current(v)' : v \in Sending'} = visited \cup {Current(v) : v \in Sending}
    BY <2>2, <2>4, <2>5
  <2> QED
    BY <2>1, <2>5, <2>6 DEF Coupling
<1>8. ASSUME NEW w \in Worker, Roam(w) PROVE Coupling'
  <2>1. /\ Step(w) /\ ~InVisitor(w) /\ visited' = visited /\ rest' = rest /\ Moves(w, wpc'[w])
        /\ wpc'[w] \in {wpc[w], "drop"}
    BY <1>0, <1>8, RoamFacts
  <2>2. w \notin Sending /\ w \notin Sending'
    BY <2>1 DEF Coupling, Sending
  <2>3. Local(w)
    BY <1>0, <2>1, StepLocal
  <2>4. Sending' = Sending /\ \A v \in Sending : Current(v)' = Current(v) /\ InVisitor(v)'
    BY <1>0, <2>1, <2>2, <2>3, OthersSend DEF Coupling
  <2>5. {Current(v)' : v \in Sending'} = {Current(v) : v \in Sending}
    BY <2>4
  <2> QED
    BY <2>1, <2>4, <2>5 DEF Coupling
<1>9. ASSUME NEW w \in Worker, DropVisitor(w) PROVE Coupling'
  <2>1. /\ rest' = rest /\ UNCHANGED walkVars /\ wpc[w] # "send" /\ wpc'[w] # "send"
        /\ Moves(w, wpc'[w])
    BY <1>0, <1>9, DropFacts
  <2>2. Sending' = Sending
    BY <1>0, <2>1 DEF Sending, Moves, PType
  <2>3. visited' = visited /\ \A v : Current(v)' = Current(v) /\ (InVisitor(v)' <=> InVisitor(v))
    BY <2>1 DEF walkVars, Current, InVisitor
  <2> QED
    BY <2>1, <2>2, <2>3 DEF Coupling
<1> QED
  BY <1>2, <1>3, <1>4, <1>5, <1>6, <1>7, <1>8, <1>9 DEF PNext, PStep

\* Before the first root nothing is visited and nobody sends.
LEMMA CouplingInit == PInit => Coupling
<1> SUFFICES ASSUME PInit PROVE Coupling
  OBVIOUS
<1>1. O!Worker = Worker
  BY SameWorkers DEF PInit, O!Init, O!Worker, O!NWorkers, Worker, NWorkers
<1>2. Sending = {}
  BY <1>1 DEF PInit, O!Init, Sending
<1>3. rest = Path /\ visited = {}
  BY DEF PInit, O!Init, Init
<1> QED
  BY <1>2, <1>3 DEF Coupling

-----------------------------------------------------------------------------
(* A worker leaves the walk only when there is nothing left to hand over   *)

\* Without outstanding tasks nobody has an entry in hand.
LEMMA NothingInHand ==
    ASSUME CompleteInv, Slots = {}, ~quit, NEW w \in Worker, pc[w] # "new", NEW q \in Path, Owed(q)
    PROVE  q \in Gone
<1>0. TypeOK /\ NotYetSpawned /\ Covered
  BY DEF CompleteInv, TaskInv, WalkInv
<1>1. \A v \in Worker : ~Busy(v)
  <2> SUFFICES ASSUME NEW v \in Worker, Busy(v) PROVE FALSE
    OBVIOUS
  <2>1. Slot(v, 0) \in Slots
    BY DEF Slots, SlotSet
  <2> QED
    BY <2>1
<1>2. ~InLoop(q)
  <2>1. nextRoot \in Nat /\ Len(Roots) \in Nat
    BY <1>0, TreeAssumption, LenProperties DEF TypeOK
  <2>2. ~(nextRoot <= Len(Roots))
    BY <1>0 DEF NotYetSpawned
  <2> QED
    BY <2>1, <2>2 DEF InLoop
<1>3. ~InQueue(q)
  <2> SUFFICES ASSUME NEW t \in Waiting PROVE FALSE
    BY DEF InQueue
  <2>1. PICK a, i : i # 0 /\ Holds(a, i, t)
    BY ByPlace DEF PartsByPlace
  <2>2. \A v \in Worker : ~Adding(v)
    BY <1>1 DEF Busy, BusyPc, Adding
  <2>3. (a = 0 /\ i \in 1 .. Len(injector)) \/ (a \in Worker /\ i \in 1 .. Len(deque[a]))
    BY <1>0, <2>1, <2>2, HoldsIs DEF FourKinds
  <2>4. Slot(a, i) \in Slots
    BY <2>3 DEF Slots, SlotSet
  <2> QED
    BY <2>4
<1>4. \A v \in Worker : ~InWork(v, q)
  BY <1>1 DEF InWork, UnreadPc, StreamPc, Busy, BusyPc
<1> QED
  BY <1>0, <1>2, <1>3, <1>4 DEF Covered, InHand

\* A nonempty set of paths has one of least depth.
LEMMA Shallowest ==
    ASSUME NEW S \in SUBSET Path, S # {}
    PROVE  \E p \in S : \A q \in S : ~(Depth[q] < Depth[p])
<1> DEFINE T == {Depth[p] : p \in S}
<1>1. T \in SUBSET Nat /\ T # {}
  BY TreeAssumption
<1>2. PICK n \in T : \A m \in T : n <= m
  <2> HIDE DEF T
  <2> QED
    BY <1>1, LeastNumber
<1>3. PICK p \in S : n = Depth[p]
  BY <1>2
<1>4. \A q \in S : ~(Depth[q] < Depth[p])
  BY <1>1, <1>2, <1>3
<1> QED
  BY <1>4

\* When all that is owed has been visited, every path has: the shallowest one
\* that had not would be a root or listed in a directory that was.
LEMMA AllVisited ==
    ASSUME lost = {}, visited \subseteq Path, \A q \in Path : Owed(q) => q \in Gone
    PROVE  visited = Path
<1> SUFFICES ASSUME Path \ visited # {} PROVE FALSE
  OBVIOUS
<1>1. PICK p \in Path \ visited : \A q \in Path \ visited : ~(Depth[q] < Depth[p])
  BY Shallowest
<1>2. CASE IsRoot(p)
  BY <1>1, <1>2 DEF Owed, Gone
<1>3. CASE ~IsRoot(p)
  <2>1. Parent[p] \in Path /\ Depth[p] = Depth[Parent[p]] + 1 /\ Depth[Parent[p]] \in Nat
    BY <1>3, TreeAssumption
  <2>2. Parent[p] \in visited
    BY <1>1, <2>1
  <2>3. Expandable(Parent[p]) /\ p \notin Excluded
    BY <1>3, PipelineAssumption
  <2> QED
    BY <1>1, <2>2, <2>3 DEF Owed, Gone
<1> QED
  BY <1>2, <1>3

\* run_worker returns after a Quit, or when every entry has been handed over.
LEMMA LeavesInTime ==
    ASSUME Ground, Coupling, NEW w \in Worker, Step(w), pc'[w] = "done", ~quit
    PROVE  rest = {}
<1>0. TypeOK /\ CompleteInv /\ lost = {} /\ PendingAccounts /\ IsFiniteSet(Slots)
  BY DEF Ground, CompleteInv, TaskInv, WalkInv
<1>1. DOMAIN pc = Worker
  BY <1>0 DEF TypeOK
<1>2. pc[w] = "load" /\ pending = 0
  <2>1. CASE LoadPending(w)
    BY <1>1, <2>1 DEF LoadPending, Goto
  <2>2. CASE CheckQuit(w)
    BY <1>1, <2>2 DEF CheckQuit, Goto
  <2>3. CASE StealMiss(w)
    BY <2>3 DEF StealMiss
  <2>4. CASE Pop(w) \/ PopNone(w) \/ StealBatchAndPop(w) \/ InjectorMiss(w) \/ Steal(w) \/ ScanEnd(w)
    BY <1>1, <2>4 DEF Pop, PopNone, StealBatchAndPop, InjectorMiss, Steal, ScanEnd, Take, Goto
  <2>5. CASE Opening(w)
    BY <1>1, <2>5 DEF Opening, VisitRoot, CheckDepth, Acquire, AcquireAborted, Open, OpenFails,
       OpenExhausted, OpenAbs, OpenAbsExhausted, Opened, GiveUp, ReadFrom, ReadFromFails, Goto
  <2>6. CASE Reading(w)
    BY <1>1, <2>6 DEF Reading, NextEntry, SkipEntry, ReadError, EndOfDir, Visit, FetchAdd, Push,
       FetchSub, Goto
  <2> QED
    BY <2>1, <2>2, <2>3, <2>4, <2>5, <2>6 DEF Step, Finding
<1>3. Slots = {}
  BY <1>0, <1>2, FS_EmptySet DEF PendingAccounts
<1>4. visited = Path
  <2>1. \A q \in Path : Owed(q) => q \in Gone
    BY <1>0, <1>2, <1>3, NothingInHand
  <2> QED
    BY <1>0, <2>1, AllVisited DEF TypeOK
<1> QED
  BY <1>4 DEF Coupling

-----------------------------------------------------------------------------
(* The refinement                                                          *)

\* Each step of run is a step of Output, or shows Output nothing.
LEMMA OutputStep ==
    ASSUME Ground, Coupling, [PNext]_pvars
    PROVE  [O!Next]_(O!vars)
<1>0. PType /\ O!Worker = Worker
  BY WorkersAgree DEF Ground
<1> USE <1>0
<1>1. CASE Main \/ Clock
  BY <1>1 DEF Main, Clock, EnqueueRoot, Spawn, Refill, outputVars, O!vars
<1>2. CASE Printing \/ TearDown \/ Interrupt
  BY <1>2 DEF Printing, TearDown, Interrupt, O!Next
<1>3. CASE Finished \/ UNCHANGED pvars
  BY <1>3 DEF Finished, pvars, outputVars, O!vars
<1>4. ASSUME NEW w \in Worker, Call(w) \/ PushReturns(w) \/ DropVisitor(w) PROVE O!Next
  <2>1. O!WorkerStep(w)
    BY <1>4 DEF Call, PushReturns, DropVisitor, Flush, O!WorkerStep
  <2> QED
    BY <2>1 DEF O!Next
<1>5. ASSUME NEW w \in Worker, Roam(w) PROVE [O!Next]_(O!vars)
  <2>1. /\ Step(w) /\ quit' = quit
        /\ wpc' = [wpc EXCEPT ![w] = IF @ = "walk" /\ pc'[w] = "done" THEN "drop" ELSE @]
        /\ UNCHANGED <<setup, rest, shutdown, buf, outbox, closed, chan, rxOpen, mainTx, ppc,
                       batch, written, out, failed, accepted, returned>>
    BY <1>5, RoamFacts DEF Roam
  <2>2. CASE wpc[w] = "walk" /\ pc'[w] = "done"
    <3>1. quit \/ rest = {}
      BY <2>1, <2>2, LeavesInTime
    <3>2. wpc' = [wpc EXCEPT ![w] = "drop"]
      BY <2>1, <2>2
    <3>3. O!Leave(w)
      BY <2>1, <2>2, <3>1, <3>2 DEF O!Leave, O!printer, O!ends
    <3> QED
      BY <3>3 DEF O!WorkerStep, O!Next
  <2>3. CASE ~(wpc[w] = "walk" /\ pc'[w] = "done")
    <3>1. wpc' = wpc
      BY <2>1, <2>3 DEF PType
    <3> QED
      BY <2>1, <3>1 DEF O!vars
  <2> QED
    BY <2>2, <2>3
<1> QED
  BY <1>1, <1>2, <1>3, <1>4, <1>5 DEF PNext, PStep

\* The coupling holds throughout run.
LEMMA CouplingHolds == PSpec => []Coupling
<1>1. Ground /\ Coupling /\ [PNext]_pvars => Coupling'
  BY CouplingStep
<1> QED
  BY <1>1, CouplingInit, WalkInside, PTL DEF PSpec

\* run refines module Output: the walker hands every entry over exactly once,
\* and a worker leaves the walk only after a Quit or when all entries have been
\* handed over, wherever they were stolen from and whoever is blocked in a send.
THEOREM OutputRefined == PSpec => ImplementsOutput
<1>1. PInit => O!Init
  BY DEF PInit
<1>2. Ground /\ Coupling /\ [PNext]_pvars => [O!Next]_(O!vars)
  BY OutputStep
<1> QED
  BY <1>1, <1>2, WalkInside, CouplingHolds, PTL DEF PSpec, ImplementsOutput

-----------------------------------------------------------------------------
(* A stop signal is noticed at the next visitor call                       *)

NonEmpty == \A d \in ReadableDirs : Kids(d) # {}

\* w has an entry to hand to the visitor before it can begin another directory,
\* or is on its way out because of a Quit.
Stopping(w) == \/ pc[w] = "read" /\ todo[w] # {}
               \/ pc[w] = "visit"
               \/ quit /\ pc[w] \in {"sub", "top", "done"}

\* The one directory a worker may begin after the signal is its last.
LateOnce(w) == late[w] = 0 \/ (late[w] = 1 /\ shutdown /\ wpc[w] # "send" /\ Stopping(w))

Prompt == NonEmpty => \A w \in Worker : LateOnce(w)

\* The flag is never cleared.
LEMMA ShutdownSticks ==
    ASSUME PType, [PNext]_pvars, shutdown
    PROVE  shutdown'
<1>1. CASE Main \/ Clock \/ Finished \/ UNCHANGED pvars
  BY <1>1 DEF Main, Clock, Finished, pvars, outputVars
<1>2. CASE Interrupt
  BY <1>2 DEF Interrupt, O!Signal
<1>3. CASE Printing \/ TearDown
  BY <1>3 DEF Printing, TearDown, O!PrintStep, O!MainStep, O!Recv, O!RecvClosed, O!Write,
     O!Flush, O!DropTx, O!Join
<1>4. ASSUME NEW w \in Worker, PStep(w) PROVE shutdown'
  <2>1. CASE Call(w)
    BY <2>1, VisitFacts DEF Call
  <2>2. CASE PushReturns(w)
    BY <2>2, FlushFacts DEF PushReturns
  <2>3. CASE Roam(w)
    BY <2>3, RoamFacts
  <2>4. CASE DropVisitor(w)
    BY <2>4, DropFacts
  <2> QED
    BY <1>4, <2>1, <2>2, <2>3, <2>4 DEF PStep
<1> QED
  BY <1>1, <1>2, <1>3, <1>4 DEF PNext

\* A worker that stays where it is, is no later than it was.
LEMMA LateKept ==
    ASSUME NEW v \in Worker, LateOnce(v), late'[v] = late[v], wpc'[v] = wpc[v],
           pc'[v] = pc[v], todo'[v] = todo[v], shutdown => shutdown', quit => quit'
    PROVE  LateOnce(v)'
<1>1. Stopping(v) => Stopping(v)'
  BY DEF Stopping
<1> QED
  BY <1>1 DEF LateOnce

\* Outside the visitor a late worker does not come to another directory: it has
\* an entry to hand over first, or leaves.
LEMMA StoppingRoams ==
    ASSUME TypeOK, NEW w \in Worker, Step(w), ~InVisitor(w), Stopping(w)
    PROVE  Stopping(w)' /\ ~(pc[w] = "stream")
<1>0. DOMAIN pc = Worker /\ DOMAIN todo = Worker /\ quit' = quit
  BY OutsideVisitor DEF TypeOK
<1>1. (pc[w] = "read" /\ todo[w] # {}) \/ (quit /\ pc[w] \in {"sub", "top", "done"})
  BY DEF Stopping, InVisitor
<1>2. CASE pc[w] = "read" /\ todo[w] # {}
  <2>1. NextEntry(w) \/ SkipEntry(w) \/ ReadError(w) \/ EndOfDir(w)
    BY <1>2 DEF Step, Finding, Opening, Reading, CheckQuit, Pop, PopNone, StealBatchAndPop,
       InjectorMiss, Steal, StealMiss, ScanEnd, LoadPending, VisitRoot, CheckDepth, Acquire,
       AcquireAborted, Open, OpenFails, OpenExhausted, OpenAbs, OpenAbsExhausted, ReadFrom,
       ReadFromFails, Visit, FetchAdd, Push, FetchSub
  <2>2. Excluded = {} /\ Flaky = {}
    BY PipelineAssumption
  <2>3. NextEntry(w)
    BY <1>2, <2>1, <2>2 DEF SkipEntry, ReadError, EndOfDir
  <2>4. pc'[w] = "visit"
    BY <1>0, <2>2, <2>3 DEF NextEntry, Goto
  <2> QED
    BY <1>2, <2>4 DEF Stopping
<1>3. CASE quit /\ pc[w] \in {"sub", "top", "done"}
  <2>1. FetchSub(w) \/ CheckQuit(w)
    BY <1>3 DEF Step, Finding, Opening, Reading, CheckQuit, Pop, PopNone, StealBatchAndPop,
       InjectorMiss, Steal, StealMiss, ScanEnd, LoadPending, VisitRoot, CheckDepth, Acquire,
       AcquireAborted, Open, OpenFails, OpenExhausted, OpenAbs, OpenAbsExhausted, ReadFrom,
       ReadFromFails, NextEntry, SkipEntry, ReadError, EndOfDir, Visit, FetchAdd, Push
  <2>2. pc'[w] \in {"top", "done"}
    BY <1>0, <1>3, <2>1 DEF FetchSub, CheckQuit, Goto
  <2> QED
    BY <1>0, <1>3, <2>2 DEF Stopping
<1> QED
  BY <1>1, <1>2, <1>3

\* A directory that is begun has entries to hand over.
LEMMA BegunHasEntries ==
    ASSUME NonEmpty, TypeOK, Scope, NEW w \in Worker, Step(w), pc[w] = "stream", pc'[w] = "read"
    PROVE  Stopping(w)'
<1>0. DOMAIN pc = Worker /\ DOMAIN todo = Worker
  BY DEF TypeOK
<1>1. ReadFrom(w)
  BY <1>0 DEF Step, Finding, Opening, Reading, CheckQuit, Pop, PopNone, StealBatchAndPop,
     InjectorMiss, Steal, StealMiss, ScanEnd, LoadPending, VisitRoot, CheckDepth, Acquire,
     AcquireAborted, Open, OpenFails, OpenExhausted, OpenAbs, OpenAbsExhausted, ReadFromFails,
     GiveUp, Goto, NextEntry, SkipEntry, ReadError, EndOfDir, Visit, FetchAdd, Push, FetchSub
<1>2. todo'[w] = Kids(task[w].path)
  BY <1>0, <1>1 DEF ReadFrom
<1>3. Busy(w) /\ pc[w] \in AnchorPc
  BY DEF Busy, BusyPc, AnchorPc
<1>4. task[w].path \in Path /\ Expandable(task[w].path)
  BY <1>3, HeldGood DEF Scope, InTree
<1>5. Kids(task[w].path) # {}
  BY <1>4 DEF NonEmpty, ReadableDirs
<1> QED
  BY <1>2, <1>5 DEF Stopping

\* No step of run makes a worker late twice.
LEMMA PromptStep ==
    ASSUME Ground, Coupling, Prompt, [PNext]_pvars
    PROVE  Prompt'
<1> SUFFICES ASSUME NonEmpty PROVE \A v \in Worker : LateOnce(v)'
  BY DEF Prompt, NonEmpty, ReadableDirs, Expandable
<1>0. PType /\ TypeOK /\ Scope /\ \A v \in Worker : LateOnce(v)
  BY DEF Ground, CompleteInv, TaskInv, WalkInv, Prompt
<1>1. DOMAIN pc = Worker /\ DOMAIN entry = Worker /\ late \in [Worker -> Nat]
  BY <1>0 DEF TypeOK, PType
<1>2. (shutdown => shutdown') /\ (quit => quit')
  BY <1>0, <1>1, ShutdownSticks, WalkStep, QuitSticks
<1>3. ASSUME UNCHANGED <<pc, todo, wpc, late>> PROVE \A v \in Worker : LateOnce(v)'
  BY <1>0, <1>2, <1>3, LateKept
<1>4. CASE Main
  <2>1. CASE EnqueueRoot
    BY <1>3, <1>4, <2>1 DEF EnqueueRoot, Main, outputVars
  <2>2. CASE Spawn
    <3>1. late' = late /\ \A v \in Worker : pc[v] = "new"
      BY <1>4, <2>2 DEF Main, Spawn
    <3>2. \A v \in Worker : late[v] = 0
      BY <1>0, <3>1 DEF LateOnce, Stopping
    <3> QED
      BY <3>1, <3>2 DEF LateOnce
  <2> QED
    BY <1>4, <2>1, <2>2 DEF Main
<1>5. CASE Clock
  BY <1>3, <1>5 DEF Clock, Refill, outputVars
<1>6. CASE Printing \/ TearDown \/ Interrupt
  BY <1>3, <1>6, OtherFacts DEF Printing, TearDown, Interrupt, walkVars
<1>7. CASE Finished \/ UNCHANGED pvars
  BY <1>3, <1>7 DEF Finished, pvars, walkVars, outputVars
<1>8. ASSUME NEW w \in Worker, Moves(w, wpc'[w]), Local(w),
             \A v \in Worker \ {w} : late'[v] = late[v], LateOnce(w)'
      PROVE  \A v \in Worker : LateOnce(v)'
  <2> SUFFICES ASSUME NEW v \in Worker \ {w} PROVE LateOnce(v)'
    BY <1>8
  <2>1. wpc'[v] = wpc[v]
    BY <1>0, <1>8 DEF PType, Moves
  <2> QED
    BY <1>0, <1>2, <1>8, <2>1, LateKept DEF Local
<1>9. ASSUME NEW w \in Worker, Call(w) PROVE \A v \in Worker : LateOnce(v)'
  <2>1. /\ wpc[w] = "walk" /\ Moves(w, wpc'[w]) /\ late' = late
        /\ shutdown => wpc'[w] = "drop"
    BY <1>0, <1>9, VisitFacts DEF Call
  <2>2. Local(w)
    <3>1. CASE wpc'[w] = "send"
      BY <1>9, <3>1 DEF Call, walkVars, Local
    <3>2. CASE wpc'[w] # "send"
      BY <1>0, <1>1, <1>9, <3>2, AnswerFacts, StepLocal DEF Call
    <3> QED
      BY <3>1, <3>2
  <2>3. LateOnce(w)'
    <3>1. CASE late[w] = 0
      BY <2>1, <3>1 DEF LateOnce
    <3>2. CASE late[w] # 0
      <4>1. late[w] = 1 /\ shutdown /\ wpc'[w] = "drop"
        BY <1>0, <2>1, <3>2 DEF LateOnce
      <4>2. pc'[w] = "sub" /\ quit'
        BY <1>1, <1>9, <4>1, AnswerFacts DEF Call
      <4> QED
        BY <1>2, <2>1, <4>1, <4>2 DEF LateOnce, Stopping
    <3> QED
      BY <3>1, <3>2
  <2> QED
    BY <1>8, <2>1, <2>2, <2>3
<1>10. ASSUME NEW w \in Worker, PushReturns(w) PROVE \A v \in Worker : LateOnce(v)'
  <2>1. wpc[w] = "send" /\ Moves(w, wpc'[w]) /\ late' = late
    BY <1>0, <1>10, FlushFacts DEF PushReturns
  <2>2. Local(w)
    BY <1>0, <1>1, <1>10, AnswerFacts, StepLocal DEF PushReturns
  <2>3. LateOnce(w)'
    BY <1>0, <2>1 DEF LateOnce
  <2> QED
    BY <1>8, <2>1, <2>2, <2>3
<1>11. ASSUME NEW w \in Worker, Roam(w) PROVE \A v \in Worker : LateOnce(v)'
  <2>1. /\ Step(w) /\ ~InVisitor(w) /\ Moves(w, wpc'[w]) /\ wpc'[w] \in {wpc[w], "drop"}
    BY <1>0, <1>11, RoamFacts
  <2>2. /\ \A v \in Worker \ {w} : late'[v] = late[v]
        /\ late'[w] = late[w] + IF shutdown /\ pc[w] = "stream" /\ pc'[w] = "read" THEN 1 ELSE 0
    BY <1>1, <1>11 DEF Roam
  <2>3. wpc'[w] # "send"
    BY <2>1 DEF Coupling, Sending
  <2>4. LateOnce(w)'
    <3>1. CASE late[w] = 0
      <4>1. CASE shutdown /\ pc[w] = "stream" /\ pc'[w] = "read"
        <5>1. late'[w] = 1
          BY <2>2, <3>1, <4>1
        <5>2. Stopping(w)'
          BY <1>0, <2>1, <4>1, BegunHasEntries
        <5> QED
          BY <1>2, <2>3, <4>1, <5>1, <5>2 DEF LateOnce
      <4>2. CASE ~(shutdown /\ pc[w] = "stream" /\ pc'[w] = "read")
        <5>1. late'[w] = 0
          BY <2>2, <3>1, <4>2
        <5> QED
          BY <5>1 DEF LateOnce
      <4> QED
        BY <4>1, <4>2
    <3>2. CASE late[w] # 0
      <4>1. late[w] = 1 /\ shutdown /\ Stopping(w)
        BY <1>0, <3>2 DEF LateOnce
      <4>2. Stopping(w)' /\ pc[w] # "stream"
        BY <1>0, <2>1, <4>1, StoppingRoams
      <4>3. late'[w] = 1
        BY <2>2, <4>1, <4>2
      <4> QED
        BY <1>2, <2>3, <4>1, <4>2, <4>3 DEF LateOnce
    <3> QED
      BY <3>1, <3>2
  <2>5. Local(w)
    BY <1>0, <2>1, StepLocal
  <2> QED
    BY <1>8, <2>1, <2>2, <2>4, <2>5
<1>12. ASSUME NEW w \in Worker, DropVisitor(w) PROVE \A v \in Worker : LateOnce(v)'
  <2>1. /\ UNCHANGED <<walkVars, late>> /\ Moves(w, wpc'[w]) /\ wpc'[w] \in {"tail", "done"}
    BY <1>0, <1>12, DropFacts
  <2>2. Local(w) /\ pc' = pc /\ todo' = todo
    BY <2>1 DEF walkVars, Local
  <2>3. Stopping(w) => Stopping(w)'
    BY <1>2, <2>2 DEF Stopping
  <2>4. LateOnce(w)'
    BY <1>0, <1>2, <2>1, <2>3 DEF LateOnce
  <2> QED
    BY <1>8, <2>1, <2>2, <2>4
<1> QED
  BY <1>4, <1>5, <1>6, <1>7, <1>9, <1>10, <1>11, <1>12 DEF PNext, PStep

\* After a stop signal each worker begins at most one more directory, as long as
\* directories are not empty: the task loop and the limiter do not look at the
\* flag, but the first entry of that directory takes the worker to the visitor,
\* which answers Quit.
THEOREM PromptCorrect == PSpec => []PromptStop
<1>1. PInit => Prompt
  BY DEF PInit, Prompt, LateOnce
<1>2. Ground /\ Coupling /\ Prompt /\ [PNext]_pvars => Prompt'
  BY PromptStep
<1>3. PSpec => []Prompt
  BY <1>1, <1>2, WalkInside, CouplingHolds, PTL DEF PSpec
<1>4. Prompt => PromptStop
  <2> SUFFICES ASSUME Prompt, NonEmpty, NEW w \in Worker PROVE late[w] <= 1
    BY DEF PromptStop, NonEmpty
  <2>1. late[w] = 0 \/ late[w] = 1
    BY DEF Prompt, LateOnce
  <2> QED
    BY <2>1
<1> QED
  BY <1>3, <1>4, PTL

-----------------------------------------------------------------------------
(* What run prints                                                         *)

\* Output with its proofs, over the same entries and variables
OP == INSTANCE OutputProofs WITH Entry <- Path

\* What those proofs assume of the constants holds of run's.
LEMMA SameConstants == OP!OutputAssumption
<1>1. \A S : IsFiniteSet(S) => OP!IsFiniteSet(S)
  BY Zenon DEF IsFiniteSet, OP!IsFiniteSet
<1>2. OP!IsFiniteSet(Path) /\ OP!IsFiniteSet(Setups)
  BY <1>1, PipelineAssumption, TreeAssumption
<1> QED
  BY <1>2, PipelineAssumption DEF O!Setup, OP!Setup

\* O and OP are one module under two names.
LEMMA SameWorker == O!Worker = OP!Worker
  BY DEF O!Worker, OP!Worker, O!NWorkers, OP!NWorkers

\* They start in the same states.
LEMMA SameInit == O!Init => OP!Init
  BY SameWorker DEF O!Init, OP!Init

\* They take the same steps.
LEMMA SameStep == [O!Next]_(O!vars) => [OP!Next]_(OP!vars)
<1> SUFFICES ASSUME [O!Next]_(O!vars) PROVE [OP!Next]_(OP!vars)
  OBVIOUS
<1> USE DEF O!walkers, OP!walkers, O!printer, OP!printer, O!ends, OP!ends
<1>1. CASE O!Signal \/ O!MainStep
  BY <1>1, SameWorker DEF O!Signal, OP!Signal, O!MainStep, OP!MainStep, O!DropTx, OP!DropTx,
     O!Join, OP!Join, OP!Next
<1>2. CASE O!PrintStep
  <2>1. \A n : O!CapReached(n) <=> OP!CapReached(n)
    BY DEF O!CapReached, OP!CapReached
  <2>2. OP!PrintStep
    <3>1. CASE O!Recv \/ O!RecvClosed \/ O!Flush
      BY <3>1, SameWorker DEF O!Recv, OP!Recv, O!RecvClosed, OP!RecvClosed, O!Flush, OP!Flush,
         OP!PrintStep
    <3>2. CASE O!Write
      BY <2>1, <3>2, Zenon DEF O!Write, OP!Write, OP!PrintStep
    <3> QED
      BY <1>2, <3>1, <3>2 DEF O!PrintStep
  <2> QED
    BY <2>2 DEF OP!Next
<1>3. CASE O!Returned \/ UNCHANGED O!vars
  BY <1>3 DEF O!Returned, O!vars, OP!vars
<1>4. ASSUME NEW w \in O!Worker, O!WorkerStep(w) PROVE OP!Next
  <2>1. O!Cap = OP!Cap /\ (O!Sent(w) <=> OP!Sent(w))
    BY DEF O!Cap, OP!Cap, O!Sent, OP!Sent
  <2>2. OP!WorkerStep(w)
    <3>1. CASE O!VisitShutdown(w) \/ O!VisitSkip(w) \/ O!VisitMatch(w)
      BY <3>1, Zenon DEF O!VisitShutdown, OP!VisitShutdown, O!VisitSkip, OP!VisitSkip,
         O!VisitMatch, OP!VisitMatch, OP!WorkerStep
    <3>2. CASE O!Leave(w) \/ O!DropSender(w) \/ O!SendFails(w)
      BY <3>2, Zenon DEF O!Leave, OP!Leave, O!DropSender, OP!DropSender, O!SendFails,
         OP!SendFails, OP!WorkerStep
    <3>3. CASE O!Send(w) \/ O!Rendezvous(w)
      BY <2>1, <3>3, Zenon DEF O!Send, OP!Send, O!Rendezvous, OP!Rendezvous, OP!WorkerStep
    <3> QED
      BY <1>4, <3>1, <3>2, <3>3 DEF O!WorkerStep
  <2> QED
    BY <1>4, <2>2, SameWorker DEF OP!Next
<1> QED
  BY <1>1, <1>2, <1>3, <1>4 DEF O!Next

\* What run prints: no path twice and none a filter rejected, nothing accepted is
\* lost on the way, and when run returns, all that was accepted or exactly the
\* cap; without a cap or a signal, every matching entry of the tree.
THEOREM RunDelivers == PSpec => []OP!Promise
<1>1. OP!Init /\ [][OP!Next]_(OP!vars) => []OP!Promise
  BY SameConstants, OP!PromiseKept
<1> QED
  BY <1>1, OutputRefined, SameInit, SameStep, PTL DEF ImplementsOutput

=============================================================================
