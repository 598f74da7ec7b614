-------------------------------- MODULE Walk --------------------------------
(***************************************************************************)
(* The parallel directory walker (src/walk.rs) over the anchored-fd        *)
(* primitives of src/walk/unix.rs and the limiter of src/ratelimit.rs.     *)
(*                                                                         *)
(* The tree is unrolled: a Path is one way of reaching an entry from a     *)
(* command-line root, so a directory under a symlink loop has many paths   *)
(* (an entry found again below itself), all of them with the same Id.      *)
(* Everything the code computes while walking (depth, root_dev, ancestors, *)
(* the parent anchor) travels in the tasks, as it does in the code; the    *)
(* constants Depth, Above and RootOf say what it ought to be.              *)
(***************************************************************************)
EXTENDS Integers, Sequences, FiniteSets, SequencesExt

CONSTANTS
    Path,            \* every entry occurrence, the roots included
    Roots,           \* the deduplicated command-line roots, in order
    Parent,          \* [Path -> Path \cup {None}]: the directory that lists it
    Depth,           \* [Path -> Nat]: distance from the root
    Above,           \* [Path -> SUBSET Path]: every proper ancestor
    RootOf,          \* [Path -> Path]: the root it hangs from
    Type,            \* [Path -> {"Dir", "Symlink", "Other"}]: its d_type
    Id,              \* [Path -> (dev, ino) of the directory it opens, or None]
    Dev,             \* [Path -> device of the object it resolves to]
    Excluded,        \* the entries whose name matches --exclude
    Flaky,           \* the entries whose system calls may fail
    FollowSymlinks, OneFilesystem, MaxDepth,   \* args; MaxDepth None: no limit
    Threads,         \* args.threads, the printing thread included
    Rate,            \* burst of the limiter; 0: no limiter
    FdLimit,         \* descriptors the walk may hold open
    Verdicts,        \* the WalkStates the visitor may return
    None

IsRoot(p) == p \in Range(Roots)
Kids(p) == {q \in Path : Parent[q] = p}

ASSUME TreeAssumption ==
    /\ IsFiniteSet(Path) /\ None \notin Path
    /\ Roots \in Seq(Path) /\ IsInjective(Roots)
    /\ Parent \in [Path -> Path \cup {None}]
    /\ Depth \in [Path -> Nat]
    /\ Above \in [Path -> SUBSET Path]
    /\ RootOf \in [Path -> Path]
    /\ \A p \in Path :
          IF IsRoot(p)
          THEN Parent[p] = None /\ Depth[p] = 0 /\ Above[p] = {} /\ RootOf[p] = p
          ELSE /\ Parent[p] \in Path
               /\ Depth[p] = Depth[Parent[p]] + 1
               /\ Above[p] = Above[Parent[p]] \cup {Parent[p]}
               /\ RootOf[p] = RootOf[Parent[p]]

ASSUME EntryAssumption ==
    /\ Type \in [Path -> {"Dir", "Symlink", "Other"}]
    /\ DOMAIN Id = Path /\ DOMAIN Dev = Path
    /\ \A p \in Path : Kids(p) # {} => Id[p] # None
    /\ Excluded \subseteq Path /\ Flaky \subseteq Path

ASSUME ArgsAssumption ==
    /\ FollowSymlinks \in BOOLEAN /\ OneFilesystem \in BOOLEAN
    /\ MaxDepth \in Nat \cup {None} /\ None \notin Nat
    /\ Threads \in Nat \ {0} /\ Rate \in Nat /\ FdLimit \in Nat
    /\ Verdicts \subseteq {"Continue", "Quit"}

\* let n_workers = (args.threads - 1).max(1)
NWorkers == IF Threads > 1 THEN Threads - 1 ELSE 1
Worker == 1 .. NWorkers

\* struct Task. Ancestors are only ever searched, so a set stands for the Vec;
\* it stays empty when symlinks are not followed (None in the code).
Task == [path : Path, parent : Path \cup {None}, follow : BOOLEAN,
         depth : Nat, rootDev : Range(Dev), ancestors : SUBSET Range(Id)]

VARIABLES
    nextRoot,   \* walk_parallel: next root to enqueue
    injector,   \* the global FIFO of root tasks
    deque,      \* one LIFO deque per worker, owner's end last
    pending,    \* the AtomicUsize of outstanding tasks
    quit,       \* the AtomicBool a Quit verdict sets
    pc,         \* where each worker is
    task,       \* the task each worker processes
    todo,       \* entries its open directory stream has yet to return
    entry,      \* the entry handed to the visitor
    victim,     \* next stealer a scan tries
    retry,      \* whether this scan met Steal::Retry
    tokens,     \* the limiter's bucket
    visited,    \* history: the entries the visitor was called with
    lost        \* history: the entries an I/O error hid from the walk

queues == <<injector, deque>>
scan == <<victim, retry>>
reading == <<todo, entry>>
history == <<visited, lost>>
vars == <<nextRoot, injector, deque, pending, quit, pc, task, todo, entry,
          victim, retry, tokens, visited, lost>>

\* A worker holds a task from find_task's answer to the end of its loop turn.
BusyPc == {"self", "descend", "throttle", "open", "openabs", "stream",
           "read", "visit", "add", "push", "sub"}
IdlePc == {"new", "top", "pop", "inject", "scan", "load", "done"}
\* It holds the directory's own fd from open to the end of descend, and a
\* second one (the stream of Dir::read_from) while it reads.
StreamPc == {"read", "visit", "add", "push"}
AnchorPc == StreamPc \cup {"stream"}

Busy(w) == pc[w] \in BusyPc
QueuedTask == Range(injector) \cup UNION {Range(deque[w]) : w \in Worker}
HeldTask == {task[w] : w \in {v \in Worker : Busy(v)}}

\* The Arc<DirFd> of a directory lives while its worker reads it and while any
\* task anchored on it is queued or held. The descriptor that --empty opens in the
\* visitor and closes at once (is_empty) is not counted.
OpenDirs == {task[w].path : w \in {v \in Worker : pc[v] \in AnchorPc}}
            \cup ({t.parent : t \in QueuedTask \cup HeldTask} \ {None})
Streams == {w \in Worker : pc[w] \in StreamPc}
OpenFds == Cardinality(OpenDirs) + Cardinality(Streams)
FdFree == OpenFds < FdLimit

Goto(w, l) == pc' = [pc EXCEPT ![w] = l]

-----------------------------------------------------------------------------
(* walk_parallel: the root loop and the spawning of the workers            *)

RootTask(r) ==
    [path |-> r, parent |-> None, follow |-> TRUE, depth |-> 0,
     rootDev |-> Dev[r], ancestors |-> {}]

Init ==
    /\ nextRoot = 1 /\ injector = <<>> /\ deque = [w \in Worker |-> <<>>]
    /\ pending = 0 /\ quit = FALSE
    /\ pc = [w \in Worker |-> "new"] /\ task = [w \in Worker |-> None]
    /\ todo = [w \in Worker |-> {}] /\ entry = [w \in Worker |-> None]
    /\ victim = [w \in Worker |-> 1] /\ retry = [w \in Worker |-> FALSE]
    /\ tokens = Rate
    /\ visited = {} /\ lost = {}

EnqueueRoot ==
    /\ nextRoot <= Len(Roots)
    /\ nextRoot' = nextRoot + 1
    /\ pending' = pending + 1
    /\ injector' = Append(injector, RootTask(Roots[nextRoot]))
    /\ UNCHANGED <<deque, quit, pc, task, reading, scan, tokens, history>>

\* path_id failed: the root is dropped silently
SkipRoot ==
    /\ nextRoot <= Len(Roots) /\ Roots[nextRoot] \in Flaky
    /\ nextRoot' = nextRoot + 1
    /\ lost' = lost \cup {Roots[nextRoot]}
    /\ UNCHANGED <<queues, pending, quit, pc, task, reading, scan, tokens, visited>>

Spawn ==
    /\ nextRoot > Len(Roots)
    /\ \A w \in Worker : pc[w] = "new"
    /\ pc' = [w \in Worker |-> "top"]
    /\ UNCHANGED <<nextRoot, queues, pending, quit, task, reading, scan, tokens, history>>

-----------------------------------------------------------------------------
(* run_worker and find_task                                                *)

CheckQuit(w) ==
    /\ pc[w] = "top"
    /\ Goto(w, IF quit THEN "done" ELSE "pop")
    /\ UNCHANGED <<nextRoot, queues, pending, quit, task, reading, scan, tokens, history>>

\* process: a root is first handed to the visitor by its own task
Take(w, t) ==
    /\ task' = [task EXCEPT ![w] = t]
    /\ Goto(w, IF t.parent = None THEN "self" ELSE "descend")
    /\ UNCHANGED <<nextRoot, pending, quit, reading, tokens, history>>

\* mutant: Worker::new_fifo
PopFifo(w) ==
    /\ pc[w] = "pop" /\ deque[w] # <<>>
    /\ Take(w, Head(deque[w]))
    /\ deque' = [deque EXCEPT ![w] = Tail(@)]
    /\ UNCHANGED <<injector, scan>>

\* local.pop(): the owner's end
Pop(w) ==
    /\ pc[w] = "pop" /\ deque[w] # <<>>
    /\ Take(w, Last(deque[w]))
    /\ deque' = [deque EXCEPT ![w] = Front(deque[w])]
    /\ UNCHANGED <<injector, scan>>

PopNone(w) ==
    /\ pc[w] = "pop" /\ deque[w] = <<>>
    /\ Goto(w, "inject")
    /\ UNCHANGED <<nextRoot, queues, pending, quit, task, reading, scan, tokens, history>>

\* injector.steal_batch_and_pop(local): the oldest task is the answer, some of
\* the following ones move to the local deque so that the older pops first
StealBatchAndPop(w) ==
    /\ pc[w] = "inject" /\ injector # <<>>
    /\ Take(w, Head(injector))
    /\ \E k \in 0 .. Len(injector) - 1 :
          /\ deque' = [deque EXCEPT ![w] = @ \o Reverse(SubSeq(injector, 2, k + 1))]
          /\ injector' = SubSeq(injector, k + 2, Len(injector))
    /\ retry' = [retry EXCEPT ![w] = FALSE]
    /\ UNCHANGED victim

\* Steal::Empty, or Steal::Retry when other threads contend for the queue
InjectorMiss(w) ==
    /\ pc[w] = "inject"
    /\ retry' = [retry EXCEPT ![w] = injector # <<>>]
    /\ victim' = [victim EXCEPT ![w] = 1]
    /\ Goto(w, "scan")
    /\ UNCHANGED <<nextRoot, queues, pending, quit, task, reading, tokens, history>>

\* mutant: the victim keeps the stolen task
StealCopies(w) ==
    /\ pc[w] = "scan" /\ victim[w] \in Worker /\ deque[victim[w]] # <<>>
    /\ Take(w, Head(deque[victim[w]]))
    /\ victim' = [victim EXCEPT ![w] = 1]
    /\ retry' = [retry EXCEPT ![w] = FALSE]
    /\ UNCHANGED queues

\* Stealer::steal: the opposite end, the victim's oldest task
Steal(w) ==
    /\ pc[w] = "scan" /\ victim[w] \in Worker /\ deque[victim[w]] # <<>>
    /\ Take(w, Head(deque[victim[w]]))
    /\ deque' = [deque EXCEPT ![victim[w]] = Tail(@)]
    /\ victim' = [victim EXCEPT ![w] = 1]
    /\ retry' = [retry EXCEPT ![w] = FALSE]
    /\ UNCHANGED injector

StealMiss(w) ==
    /\ pc[w] = "scan" /\ victim[w] \in Worker
    /\ victim' = [victim EXCEPT ![w] = @ + 1]
    /\ retry' = [retry EXCEPT ![w] = @ \/ deque[victim[w]] # <<>>]
    /\ UNCHANGED <<nextRoot, queues, pending, quit, pc, task, reading, tokens, history>>

\* every stealer tried: a Retry anywhere starts over, otherwise no task
ScanEnd(w) ==
    /\ pc[w] = "scan" /\ victim[w] \notin Worker
    /\ Goto(w, IF retry[w] THEN "inject" ELSE "load")
    /\ victim' = [victim EXCEPT ![w] = 1]
    /\ retry' = [retry EXCEPT ![w] = FALSE]
    /\ UNCHANGED <<nextRoot, queues, pending, quit, task, reading, tokens, history>>

\* mutant: an empty scan alone ends the worker
LeaveOnEmptyScan(w) ==
    /\ pc[w] = "load"
    /\ Goto(w, "done")
    /\ UNCHANGED <<nextRoot, queues, pending, quit, task, reading, scan, tokens, history>>

LoadPending(w) ==
    /\ pc[w] = "load"
    /\ Goto(w, IF pending = 0 THEN "done" ELSE "top")
    /\ UNCHANGED <<nextRoot, queues, pending, quit, task, reading, scan, tokens, history>>

\* mutant: the task is counted out twice
FetchSubTwice(w) ==
    /\ pc[w] = "sub"
    /\ pending' = pending - 2
    /\ task' = [task EXCEPT ![w] = None]
    /\ todo' = [todo EXCEPT ![w] = {}]
    /\ Goto(w, "top")
    /\ UNCHANGED <<nextRoot, queues, quit, entry, scan, tokens, history>>

\* fetch_sub after process, then the task (and its share of the anchor) drops
FetchSub(w) ==
    /\ pc[w] = "sub"
    /\ pending' = pending - 1
    /\ task' = [task EXCEPT ![w] = None]
    /\ todo' = [todo EXCEPT ![w] = {}]
    /\ Goto(w, "top")
    /\ UNCHANGED <<nextRoot, queues, quit, entry, scan, tokens, history>>

-----------------------------------------------------------------------------
(* process and descend                                                     *)

VisitRoot(w) ==
    /\ pc[w] = "self"
    /\ visited' = visited \cup {task[w].path}
    /\ \E verdict \in Verdicts :
          /\ quit' = (quit \/ verdict = "Quit")
          /\ Goto(w, IF verdict = "Quit" THEN "sub" ELSE "descend")
    /\ UNCHANGED <<nextRoot, queues, pending, task, reading, scan, tokens, lost>>

CheckDepth(w) ==
    /\ pc[w] = "descend"
    /\ Goto(w, IF MaxDepth # None /\ task[w].depth >= MaxDepth THEN "sub"
               ELSE IF Rate > 0 THEN "throttle" ELSE "open")
    /\ UNCHANGED <<nextRoot, queues, pending, quit, task, reading, scan, tokens, history>>

\* Limiter::acquire: one token per directory; with an empty bucket and no quit
\* the worker naps and looks again
Acquire(w) ==
    /\ pc[w] = "throttle" /\ ~quit /\ tokens > 0
    /\ tokens' = tokens - 1
    /\ Goto(w, "open")
    /\ UNCHANGED <<nextRoot, queues, pending, quit, task, reading, scan, history>>

\* mutant: the quit flag is looked at only once a token is there
AbortNeedsToken(w) ==
    /\ pc[w] = "throttle" /\ quit /\ tokens > 0
    /\ Goto(w, "sub")
    /\ UNCHANGED <<nextRoot, queues, pending, quit, task, reading, scan, tokens, history>>

\* mutant: a directory that finds no token is skipped
AcquireGivesUp(w) ==
    /\ pc[w] = "throttle" /\ (quit \/ tokens = 0)
    /\ Goto(w, "sub")
    /\ UNCHANGED <<nextRoot, queues, pending, quit, task, reading, scan, tokens, history>>

AcquireAborted(w) ==
    /\ pc[w] = "throttle" /\ quit
    /\ Goto(w, "sub")
    /\ UNCHANGED <<nextRoot, queues, pending, quit, task, reading, scan, tokens, history>>

\* the limiter's clock: governor replenishes the bucket up to its burst
Refill ==
    /\ tokens < Rate
    /\ tokens' = tokens + 1
    /\ UNCHANGED <<nextRoot, queues, pending, quit, pc, task, reading, scan, history>>

\* --one-filesystem and symlink-loop checks on the opened directory
Pruned(t) ==
    \/ OneFilesystem /\ Dev[t.path] # t.rootDev
    \/ FollowSymlinks /\ Id[t.path] \in t.ancestors

\* dir_flags: O_DIRECTORY, and O_NOFOLLOW unless the task follows a symlink
Openable(t) == Id[t.path] # None /\ (t.follow \/ Type[t.path] # "Symlink")

\* mutant: a pruned directory skips the end of the loop turn
PrunedSkipsSub(w) ==
    /\ Openable(task[w])
    /\ Goto(w, IF Pruned(task[w]) THEN "top" ELSE "stream")
    /\ UNCHANGED <<nextRoot, queues, pending, quit, task, reading, scan, tokens, history>>

\* The open succeeded; a pruned directory is closed again at once.
Opened(w) ==
    /\ Openable(task[w])
    /\ Goto(w, IF Pruned(task[w]) THEN "sub" ELSE "stream")
    /\ UNCHANGED <<nextRoot, queues, pending, quit, task, reading, scan, tokens, history>>

\* descend returns; nothing below the task's path is looked at
GiveUp(w) ==
    /\ Goto(w, "sub")
    /\ lost' = lost \cup Kids(task[w].path)
    /\ UNCHANGED <<nextRoot, queues, pending, quit, task, reading, scan, tokens, visited>>

Open(w) == pc[w] = "open" /\ FdFree /\ Opened(w)

\* not a directory (a file root, a link to a file, a dangling link), or an error
\* of the open or of the fstat behind dir_id
OpenFails(w) ==
    /\ pc[w] \in {"open", "openabs"}
    /\ FdFree
    /\ ~Openable(task[w]) \/ task[w].path \in Flaky
    /\ GiveUp(w)

\* EMFILE: a root gives up, a child is retried by absolute path
OpenExhausted(w) ==
    /\ pc[w] = "open" /\ ~FdFree
    /\ IF task[w].parent = None
       THEN GiveUp(w)
       ELSE /\ Goto(w, "openabs")
            /\ UNCHANGED <<nextRoot, queues, pending, quit, task, reading, scan,
                           tokens, history>>

OpenAbs(w) == pc[w] = "openabs" /\ FdFree /\ Opened(w)

OpenAbsExhausted(w) == pc[w] = "openabs" /\ ~FdFree /\ GiveUp(w)

-----------------------------------------------------------------------------
(* for_each_entry and the closure descend passes to it                     *)

\* Dir::read_from opens a descriptor of its own and has no fallback
ReadFrom(w) ==
    /\ pc[w] = "stream" /\ FdFree
    /\ todo' = [todo EXCEPT ![w] = Kids(task[w].path)]
    /\ Goto(w, "read")
    /\ UNCHANGED <<nextRoot, queues, pending, quit, task, entry, scan, tokens, history>>

ReadFromFails(w) ==
    /\ pc[w] = "stream"
    /\ ~FdFree \/ task[w].path \in Flaky
    /\ GiveUp(w)

\* mutant: --exclude prunes the descent but still emits the entry
NextEntryKeepsExcluded(w) ==
    /\ pc[w] = "read"
    /\ \E q \in todo[w] :
          /\ todo' = [todo EXCEPT ![w] = @ \ {q}]
          /\ Goto(w, "visit") /\ entry' = [entry EXCEPT ![w] = q]
    /\ UNCHANGED <<nextRoot, queues, pending, quit, task, scan, tokens, history>>

\* the next entry: an excluded one is skipped, any other goes to the visitor
NextEntry(w) ==
    /\ pc[w] = "read"
    /\ \E q \in todo[w] :
          /\ todo' = [todo EXCEPT ![w] = @ \ {q}]
          /\ IF q \in Excluded
             THEN UNCHANGED <<pc, entry>>
             ELSE Goto(w, "visit") /\ entry' = [entry EXCEPT ![w] = q]
    /\ UNCHANGED <<nextRoot, queues, pending, quit, task, scan, tokens, history>>

\* DT_UNKNOWN and statat_type fails: that entry alone is skipped
SkipEntry(w) ==
    /\ pc[w] = "read"
    /\ \E q \in todo[w] \cap Flaky :
          /\ todo' = [todo EXCEPT ![w] = @ \ {q}]
          /\ lost' = lost \cup {q}
    /\ UNCHANGED <<nextRoot, queues, pending, quit, pc, task, entry, scan, tokens, visited>>

\* readdir itself fails: `entry?` abandons the rest of the directory
ReadError(w) ==
    /\ pc[w] = "read" /\ task[w].path \in Flaky
    /\ lost' = lost \cup todo[w]
    /\ Goto(w, "sub")
    /\ UNCHANGED <<nextRoot, queues, pending, quit, task, reading, scan, tokens, visited>>

EndOfDir(w) ==
    /\ pc[w] = "read" /\ todo[w] = {}
    /\ Goto(w, "sub")
    /\ UNCHANGED <<nextRoot, queues, pending, quit, task, reading, scan, tokens, history>>

DescendsInto(q) ==
    \/ Type[q] = "Dir"
    \/ Type[q] = "Symlink" /\ FollowSymlinks

\* mutant: a subdirectory just above the depth limit gets no task
EnqueuesShort(w) ==
    /\ MaxDepth # None => task[w].depth + 2 < MaxDepth
    /\ DescendsInto(entry[w])

\* subdirectories that could not be read anyway never become tasks
Enqueues(w) ==
    /\ MaxDepth # None => task[w].depth + 1 < MaxDepth
    /\ DescendsInto(entry[w])

\* mutant: a Quit verdict ends this directory only
VisitForgetsQuit(w) ==
    /\ pc[w] = "visit"
    /\ visited' = visited \cup {entry[w]}
    /\ \E verdict \in Verdicts :
          Goto(w, IF verdict = "Quit" THEN "sub"
                  ELSE IF Enqueues(w) THEN "add" ELSE "read")
    /\ entry' = [entry EXCEPT ![w] = IF pc'[w] = "add" THEN @ ELSE None]
    /\ UNCHANGED <<nextRoot, queues, pending, quit, task, todo, scan, tokens, lost>>

\* mutant: the child is pushed without being counted
VisitSkipsAdd(w) ==
    /\ pc[w] = "visit"
    /\ visited' = visited \cup {entry[w]}
    /\ \E verdict \in Verdicts :
          /\ quit' = (quit \/ verdict = "Quit")
          /\ Goto(w, IF verdict = "Quit" THEN "sub"
                     ELSE IF Enqueues(w) THEN "push" ELSE "read")
    /\ entry' = [entry EXCEPT ![w] = IF pc'[w] = "push" THEN @ ELSE None]
    /\ UNCHANGED <<nextRoot, queues, pending, task, todo, scan, tokens, lost>>

Visit(w) ==
    /\ pc[w] = "visit"
    /\ visited' = visited \cup {entry[w]}
    /\ \E verdict \in Verdicts :
          /\ quit' = (quit \/ verdict = "Quit")
          /\ Goto(w, IF verdict = "Quit" THEN "sub"
                     ELSE IF Enqueues(w) THEN "add" ELSE "read")
    /\ entry' = [entry EXCEPT ![w] = IF pc'[w] = "add" THEN @ ELSE None]
    /\ UNCHANGED <<nextRoot, queues, pending, task, todo, scan, tokens, lost>>

FetchAdd(w) ==
    /\ pc[w] = "add"
    /\ pending' = pending + 1
    /\ Goto(w, "push")
    /\ UNCHANGED <<nextRoot, queues, quit, task, reading, scan, tokens, history>>

\* mutant: children inherit the ancestors without the directory itself
ChildTaskOldAncestors(w) ==
    [path |-> entry[w], parent |-> task[w].path,
     follow |-> Type[entry[w]] = "Symlink",
     depth |-> task[w].depth + 1, rootDev |-> task[w].rootDev,
     ancestors |-> task[w].ancestors]

\* mutant: a symlink's task is opened with O_NOFOLLOW
ChildTaskNoFollow(w) ==
    [path |-> entry[w], parent |-> task[w].path, follow |-> FALSE,
     depth |-> task[w].depth + 1, rootDev |-> task[w].rootDev,
     ancestors |-> IF FollowSymlinks
                   THEN task[w].ancestors \cup {Id[task[w].path]} ELSE {}]

ChildTask(w) ==
    [path |-> entry[w], parent |-> task[w].path,
     follow |-> Type[entry[w]] = "Symlink",
     depth |-> task[w].depth + 1, rootDev |-> task[w].rootDev,
     ancestors |-> IF FollowSymlinks
                   THEN task[w].ancestors \cup {Id[task[w].path]} ELSE {}]

Push(w) ==
    /\ pc[w] = "push"
    /\ deque' = [deque EXCEPT ![w] = Append(@, ChildTask(w))]
    /\ entry' = [entry EXCEPT ![w] = None]
    /\ Goto(w, "read")
    /\ UNCHANGED <<nextRoot, injector, pending, quit, task, todo, scan, tokens, history>>

-----------------------------------------------------------------------------
Finding(w) == \/ CheckQuit(w) \/ Pop(w) \/ PopNone(w)
              \/ StealBatchAndPop(w) \/ InjectorMiss(w)
              \/ Steal(w) \/ StealMiss(w) \/ ScanEnd(w) \/ LoadPending(w)

Opening(w) == \/ VisitRoot(w) \/ CheckDepth(w) \/ Acquire(w) \/ AcquireAborted(w)
              \/ Open(w) \/ OpenFails(w) \/ OpenExhausted(w)
              \/ OpenAbs(w) \/ OpenAbsExhausted(w)
              \/ ReadFrom(w) \/ ReadFromFails(w)

Reading(w) == \/ NextEntry(w) \/ SkipEntry(w) \/ ReadError(w) \/ EndOfDir(w)
              \/ Visit(w) \/ FetchAdd(w) \/ Push(w) \/ FetchSub(w)

Step(w) == Finding(w) \/ Opening(w) \/ Reading(w)

AllDone == \A w \in Worker : pc[w] = "done"

\* thread::scope has joined every worker: walk_parallel returns
Returned == AllDone /\ UNCHANGED vars

Next == EnqueueRoot \/ SkipRoot \/ Spawn \/ Refill \/ Returned
        \/ \E w \in Worker : Step(w)

\* Every thread keeps running. Steal::Retry means another thread won the race
\* for the queue, so a worker that keeps trying in the end wins or finds it empty.
ThreadFairness ==
    /\ WF_vars(EnqueueRoot \/ SkipRoot \/ Spawn)
    /\ \A w \in Worker : /\ WF_vars(Step(w))
                         /\ SF_vars(StealBatchAndPop(w)) /\ SF_vars(Steal(w))

Spec == Init /\ [][Next]_vars /\ ThreadFairness /\ WF_vars(Refill)
\* the same threads when the limiter's bucket may stay empty
StarvedSpec == Init /\ [][Next]_vars /\ ThreadFairness
-----------------------------------------------------------------------------
(* Properties                                                              *)

TypeOK ==
    /\ nextRoot \in 1 .. Len(Roots) + 1
    /\ injector \in Seq(Task) /\ deque \in [Worker -> Seq(Task)]
    /\ pending \in Nat /\ quit \in BOOLEAN
    /\ pc \in [Worker -> BusyPc \cup IdlePc]
    /\ task \in [Worker -> Task \cup {None}]
    /\ \A w \in Worker : Busy(w) => task[w] \in Task
    /\ todo \in [Worker -> SUBSET Path]
    /\ entry \in [Worker -> Path \cup {None}]
    /\ \A w \in Worker : pc[w] \in {"visit", "add", "push"} => entry[w] \in Path
    /\ victim \in [Worker -> 1 .. NWorkers + 1] /\ retry \in [Worker -> BOOLEAN]
    /\ tokens \in 0 .. Rate
    /\ visited \subseteq Path /\ lost \subseteq Path

\* One slot per outstanding task: (0, i) in the injector, (w, i) in a deque,
\* (w, 0) held by w, (w, -1) counted by w but not pushed yet.
Slot(a, i) == <<a, i>>

SlotSet(n, len, busy, adding) ==
    {Slot(0, i) : i \in 1 .. n}
    \cup (UNION {{Slot(w, i) : i \in 1 .. len[w]} : w \in Worker})
    \cup {Slot(w, 0) : w \in busy}
    \cup {Slot(w, -1) : w \in adding}

Slots == SlotSet(Len(injector), [w \in Worker |-> Len(deque[w])],
                 {w \in Worker : Busy(w)}, {w \in Worker : pc[w] = "push"})

\* The atomic counter of walk_parallel equals the outstanding work at every
\* instant of every interleaving, so it can never underflow or reach 0 early.
PendingAccounts == pending = Cardinality(Slots)

\* run_worker's exit: unless the walk quits, a worker retires only when no task
\* is queued, held or about to be pushed anywhere, so nobody stops helping while
\* the find_task scan merely missed a task that moved.
NoEarlyExit == (\E w \in Worker : pc[w] = "done") /\ ~quit => Slots = {}

\* What descend ought to read, said of the tree instead of the task: a root, a
\* directory or a followed link that opens, above the depth limit, on the root's
\* filesystem, and not one of its own ancestors.
Expandable(p) ==
    /\ IsRoot(p) \/ DescendsInto(p)
    /\ MaxDepth # None => Depth[p] < MaxDepth
    /\ Id[p] # None
    /\ OneFilesystem => Dev[p] = Dev[RootOf[p]]
    /\ FollowSymlinks => \A a \in Above[p] : Id[a] # Id[p]

ReadableDirs == {p \in Path : Expandable(p)}

\* The values tasks carry from worker to worker (depth, root_dev, ancestors)
\* only ever let descend read a directory that is in scope.
InScope == \A w \in Worker : pc[w] \in StreamPc => Expandable(task[w].path)

Visiting(w) == IF pc[w] = "self" THEN {task[w].path}
               ELSE IF pc[w] = "visit" THEN {entry[w]} ELSE {}

\* Work stealing never duplicates: the visitor is not called again, nor by two
\* workers at a time, for the same entry.
VisitOnce ==
    \A w \in Worker :
        /\ Visiting(w) \cap visited = {}
        /\ \A v \in Worker \ {w} : Visiting(w) \cap Visiting(v) = {}

\* When walk_parallel returns without a Quit, every root and every entry of an
\* in-scope directory was visited, except those excluded or hidden by an error.
Complete ==
    AllDone /\ ~quit =>
        \A q \in Path :
            IsRoot(q) \/ (Parent[q] \in visited /\ Expandable(Parent[q]) /\ q \notin Excluded)
            => q \in visited \cup lost

\* The deepest directory the walk may read
DirDepth == Max({0} \cup {Depth[p] : p \in ReadableDirs})

\* raise_nofile_limit's estimate of the frontier, O(workers x depth): each worker
\* pins at most one directory per level, and one stream.
FdBound == OpenFds <= NWorkers * (DirDepth + 2)

\* Entries go missing only where a system call failed for a reason other than
\* descriptor exhaustion.
Lossless == \A q \in lost : q \in Flaky \/ Parent[q] \in Flaky

\* walk_parallel returns: neither a miscounted task, a lost wakeup nor endless
\* stealing keeps a worker spinning.
Terminates == <>AllDone

Abstract == INSTANCE Traversal WITH
    Root <- Range(Roots), Readable <- ReadableDirs,
    emitted <- visited, stopped <- quit, returned <- AllDone

\* walk_parallel implements the sequential promise of Traversal.
Implements == Abstract!ASpec
=============================================================================
