# TLA+ model of minifind

minifind walks directory trees with several threads, filters each entry like
`find`, and prints the paths that pass. This directory holds TLA+ modules
translated from its Rust source, the TLC configurations that check them on small
instances, and TLAPS proofs. Source paths below are relative to the repository;
`PROJECT.json` gives the source lines behind every definition.

## The system

| Component | State | Operations | Talks to |
|---|---|---|---|
| Parallel walker, `src/walk.rs` | injector, one deque per worker, `pending`, `quit`, the `Task` each worker holds | enqueue roots, pop / batch-steal / steal, visit, descend, push children, retire | limiter, leaf I/O, visitor callback |
| Unix leaf I/O, `src/walk/unix.rs` | open directory descriptors (`Arc<DirFd>`), directory streams | anchored open with EMFILE fallback, `read_from`, readdir, stat, readlink, access | kernel |
| Rate limiter, `src/ratelimit.rs` | token bucket | `acquire`, aborted by `quit` | walker |
| Filter cascade, `src/lib.rs` (visitor closure) | per-thread `NssCache`, lazy `StatAt` | min-depth, type, name/regex/path/lname, stat predicates, nouser/nogroup, access | leaf I/O, user database, BatchSender |
| Metadata predicates and types, `src/meta.rs`, `src/filetype.rs` | none (pure) | comparisons, size, time, perm, ids, newer, mask | filter cascade |
| Output pipeline, `src/lib.rs` (`run`, `BatchSender`) | per-worker buffer, bounded channel, result count, sink | push, flush, send, receive, write, cap, teardown | walker (Quit verdicts), signals |
| Signals, `src/interrupt.rs` | shutdown flag, registered handlers | register, set | `run`, visitor |
| Argument parser, `src/args.rs`, and the parsers of `src/meta.rs` | lexopt's cursor, the locals of `parse_inner` | rewrite find's spellings, one arm per option, conflicts, defaults | `main`, user database, file system |
| Start of `run`, `src/lib.rs`, `src/glob.rs`, `src/regex.rs`, `src/main.rs` | pattern sets, deduplicated roots, exit status | register, compile, walk, exit | all of the above |
| Idle scheduling, non-Unix leaf | | | not or partly modelled, see the end |

Control flows as follows. `main` parses the arguments and calls `run`, which
registers the signal handlers and compiles the patterns. `run` then starts the
print thread, then calls `walk_parallel`, which queues one task per root and
spawns the workers. A worker takes a task, opens its directory relative to the
parent's descriptor, and calls the visitor for each entry; an entry that is a
directory becomes a task in the worker's own deque, where others may steal it. The
visitor filters the entry and pushes a match into the worker's `BatchSender`; full
batches go over the bounded channel to the print thread. `Quit` flows back: the
print thread drops the receiver at the cap, a send then fails, the visitor answers
`Quit`, the walker sets `quit`, and every worker stops at its next look.

What is hard about it, and to test:

* termination by a counter while tasks move between queues behind a scan's back;
* values that travel inside tasks (depth, root device, ancestors, parent anchor);
* descriptors pinned by queued tasks, and what happens when none is left;
* errors at any system call, which drop parts of the tree silently by design;
* a limiter nap racing a Quit; a full channel racing the cap; the order in which
  senders, receiver and threads go away;
* a signal that only the visitor sees, while workers nap, read or are blocked in a
  send; what one module assumes of the other's threads;
* a command line whose items change their meaning with what stands before them;
* filters evaluated on a partly filled stat result, on cached owner lookups, and
  on 64-bit values at their edges.

`PROJECT.json` lists these as hazards, each at its line, with the properties that
would catch it.

## Modules

| Module | Models | Role |
|---|---|---|
| `Walk` | walker, leaf opens and reads, limiter | one action per atomic step of a worker |
| `Traversal` | the promise of `walk_parallel` | abstract specification that `Walk` implements |
| `Output` | BatchSender, channel, print thread, shutdown, teardown of `run` | the walker appears as its interface |
| `Meta` | `meta.rs` predicates, `filetype.rs` selectors | pure operators |
| `Visitor` | the filter cascade of one thread, lazy stat, `NssCache` | uses `Meta` |
| `Pipeline` | `run` during the walk: `Walk` and `Output` together | composes the two; shows that `Walk` is the environment `Output` assumes |
| `CommandLine` | `parse_inner` and the parsers of `meta.rs`, `main`, `run` up to the walk | uses `Meta`; its results are what `Walk`, `Output` and `Visitor` take as constants |
| `MCWalk`, `MCOutput`, `MCVisitor`, `MCPipeline`, `MCCommandLine` | | trees, entries and command lines for TLC |
| `Recursion` | | lemmas on recursive functions, folds and flattening, used by the proofs below |
| `WalkProofs`, `WalkTasks`, `WalkResults` | | theorems about `Walk`, each module on top of the one before |
| `OutputProofs`, `VisitorProofs`, `CommandLineProofs` | | theorems about `Output`, `Meta` and `Visitor`, `CommandLine` |
| `PipelineProofs` | | theorems about `Pipeline`, on top of those about `Walk` and `Output` |

### Walk

The file tree is a constant. It is *unrolled*: a `Path` is one way of reaching an
entry from a root, and two paths with the same `Id` are the same directory met
twice, which is how a symlink loop looks to a walker. `Depth`, `Above` and
`RootOf` describe the tree; the actions never read them. Depth, root device and
ancestors are computed hop by hop in the tasks as the code does, and the
properties compare the two.

| Variable | Code |
|---|---|
| `injector`, `deque` | `Injector<Task>`, `Worker<Task>` (LIFO, owner's end last) |
| `pending`, `quit` | the two atomics of `walk_parallel` |
| `pc`, `task`, `todo`, `entry` | where a worker is in `run_worker` / `find_task` / `process` / `descend`, its `Task`, its directory stream, the entry given to the visitor |
| `victim`, `retry` | the iterator over stealers in `find_task` and its `Steal::Retry` |
| `tokens` | the limiter's bucket |
| `nextRoot` | the root loop before the threads are spawned |
| `visited`, `lost` | history |

The atomic operations are separate steps: `FetchAdd` and `Push`, the end of
`process` and `FetchSub`, each probe of a queue (`Pop`, `StealBatchAndPop`,
`Steal` and their misses), `LoadPending`, `CheckQuit`. A miss on a queue that is
not empty is `Steal::Retry`. A directory's descriptor is open (`OpenDirs`) while
a worker reads it or a task anchored on it is queued or held, which is what the
reference count does; `FdFree` decides between the normal open, the
absolute-path fallback and giving up. The descriptor that `is_empty` opens and closes
inside a visitor call (`src/filetype.rs:94`) is not counted: with `--empty` each
worker may hold one more than `FdBound` says. Crossbeam's queues are atomic per
operation, and all atomics are sequentially consistent here: the relaxed `quit`
can only be seen later, which the model allows by interleaving, and `pending` is
acquire/release in the code. Backoff and nap lengths only delay and are left out.

`Flaky` names the entries whose system calls may fail: the root's `path_id`
(`SkipRoot`), the open or its fstat (`OpenFails`), `read_from`
(`ReadFromFails`), the stat of a `DT_UNKNOWN` entry (`SkipEntry`), and readdir in
the middle of a directory (`ReadError`).

### Traversal

An abstract walk without workers: emit an entry that is due, lose some to errors,
return when nothing due is left or after a Quit. `Walk` maps `visited`, `lost`,
`quit` and "all workers done" to it.

### Output

Workers call the visitor with entries in any order and distribution; `Matching`
is what the filters keep. `VisitMatch` is the whole of `push`, `DropSender` the
`Drop` of `BatchSender`, `Send` / `Rendezvous` / `SendFails` the three outcomes of
a channel send (`Rendezvous` for capacity 0, which one thread gives; that is also
the default on a machine with one CPU). `Write` is one turn of the inner loop
with the count and the cap; `DropTx` and `Join` are the end of `run`. The bytes
written and the separator are left out. The code writes through a buffer of 256 KiB,
so that an error may show only at a later write or at the final flush and take
entries with it that were counted long before. `Write` decides about each entry when
it is counted whether its bytes will reach the sink (`out`) or not (`failed`); since
the choice is free for every entry, every set of lost entries is allowed, only known
earlier than the program knows it.

The run's `Setup` (threads, cap, whether the sink may fail) is a variable that
never changes, so that one run of TLC covers several.

### Pipeline

`Walk` and `Output` share one variable, the walker's `quit`. `Call` is the visitor
call of a worker: `Output` judges the entry, and unless a full batch has to be sent
first the walker takes the verdict in the same step (`Answer`). While a batch waits
for room in the channel the worker stays where `Walk` has it, inside the visitor;
`PushReturns` is the end of that send. `Roam` is every other step of a worker, and
the one that ends `run_worker` makes its `BatchSender` ready to drop
(`DropVisitor`). Trees for `Pipeline` have no errors or exclusions, and there are
descriptors enough (`PipelineAssumption`): those are `Walk`'s subject, and `Output`
has no notion of an entry that never arrives. `late` is a history variable.

### CommandLine

An item of argv is a record: the option names it spells, for each letter of a short
cluster the text behind it (which becomes a value if that letter takes one), and the
item as a plain word. A word says what the parsers see in a text: sign, number, unit
letter, file mode, UTF-8 or not. The option tables (`ShortName`, `LongName`,
`FindName`, `Field`, `Valued`, `Flag`, `UnixOnly`) are the arms of the `match`, and
`ReadFlag`, `ReadValued`, `ReadPath` and their error cases the turns of the loop
around it. lexopt is external and appears through its cursor `<<i, k>>`: item, and
letters of it read. `Register` and `StartWalk` are the first lines of `run`.

The properties do not use the cursor. `Role` and `Requests` read the command line
once from left to right into a list of requests, and `Honoured` and `ExitStatus`
compare what the parser did with that list.

### Meta and Visitor

`Meta` keeps integer widths: `i64` is `-IMax-1 .. IMax`, subtraction wraps as in
the release build, division truncates, `matches_u64` saturates. A mode is a set
of `<<class, permission>>` bits. `Visitor` runs the cascade entry by entry, one
action per group of filters; the stat fills the fields of the mask and leaves the
others either right or blank, as statx may; accounts are created and deleted
between steps. Text patterns are abstracted to which of them an entry hits.

Failures are actions of their own, enabled only where the code makes the call:
`EmptyFails`, `ReadlinkFails`, `FetchFails`, `AccessFails` (the code takes each for a
"no" and skips the entry) and `UserLookupFails`, `GroupLookupFails` (taken for "has
an account", and cached). What did fail is history: `failed` holds pairs of an entry
and a system call, `uidFailed` and `gidFailed` owners; with `uidAlways`, `uidEver` and
their like for groups they are all the properties know besides the verdicts.

The reference files of `-newer` have times in `Ticks` of a second; `RefSeconds` cuts
and clamps them as `file_mtime` does. Files have whole seconds, which is all the
predicates get to see.

## Runs

| Run | Instance | Shows |
|---|---|---|
| `WalkFollow` | 2 workers, 2 roots, 14 entry occurrences with a symlink loop unrolled past the point where it must be cut, a mount point, excluded directories, one flaky directory; follow-symlinks and one-filesystem on | `TypeOK`, `PendingAccounts`, `NoEarlyExit`, `InScope`, `VisitOnce`, `Lossless`, `Terminates`, `Implements` |
| `WalkFaults` | 3 workers, depth limit 2, two flaky entries (one a root that became a file), a bucket of one token, 3 descriptors, Quit at any visit | `Complete`, `Implements` |
| `WalkWide` | 2 workers, 5 subdirectories with one each | `FdBound` |
| `OutputDrain` | 2 workers, batches of 2, channel of 2 batches, caps none, 1 and 3; 1 worker over a channel of capacity 0 into a sink that may fail, caps none and 2; 5 matches and one other entry, a signal at any time | `TypeOK`, `Conserved`, `NoDuplicates`, `Delivered`, `AllMatches`, `Returns` |
| `OutputSwallows`, `OutputLateStop` | | violations, see Findings |
| `VisitorFilters` | `i64` as -8..7, half-second ticks; every size and inode number against every threshold from 0 to `i64::MAX`, every file time against thresholds 0 to 3, every file time against reference times from before the epoch to beyond `i64::MAX` seconds, pairs of symbolic clauses (the first adding, as only that matters on a zero base), then mixed filters over four files that share owners, one account change, failing calls and lookups | `TypeOK`, `KeptSound`, `SkippedJustified`, `OwnersAgree`, `MatchesAsDocumented`, `NewerSound` |
| `VisitorClamp` | the inode numbers and thresholds of `VisitorFilters` | violation, see Findings |
| `Pipeline` | 2 workers, a root with two subdirectories of one file each, 4 of 5 entries match, batches of 2, channel of 2, cap 1, a bucket of one token with no promise of a refill, a signal at any time | `PromptStop`, `ImplementsOutput`, `FairToOutput`, `QuitReturns` |
| `CommandLine` | every command line of up to 4 items from three families (lexing, limits, patterns) and of up to 3 items from the predicates, on Linux, another Unix and elsewhere; 1, 4 or an unknown number of CPUs | `TypeOK`, `Honoured`, `Runnable`, `PlaceholdersUnread`, `ExitStatus` |
| `ArgsAnded`, `ArgsTyped` | | violations, see Findings |

What the properties of the filters say:

* `SkippedJustified`: an entry is left out only for a filter it fails, a call that
  *did* fail on it, an owner that had an account at some time, or one whose lookup *did*
  end in an error. That a call may fail is no excuse, so a lookup that ends without an
  error and without an entry must let `-nouser` through.
* `MatchesAsDocumented`: a verdict of the predicates is what the documents say
  (`Means`), stated without division, clamping or folds. The reference is this
  repository, not GNU find: sizes are rounded up to the unit (`man/minifind.1.scd:117`),
  ages are whole units with the rest discarded ("24-hour integer-division semantics",
  line 121), `-newer` means newer than the reference's modification time (line 127), a
  symbolic mode means what its last word on each bit says. Four cases are excluded, by
  name, in `Regular`, because there the code does something else or the documents say
  nothing: a number clamped onto a threshold of `i64::MAX` (finding 4); negative
  thresholds of the times and ages that wrap; a file less than one unit in the future, whose
  age truncates to 0, so that `-mtime 0` reports it and `-mtime -0` does not; a
  reference file older than the epoch.
* `NewerSound` has no exceptions: whatever is cut and clamped, nothing is reported
  that is not newer than the reference. The other direction fails for references
  before the epoch, and for files changed within the reference's own second.

What the properties of the two composed modules say:

* `ImplementsOutput`: `Pipeline` refines `Output`. In particular a worker never
  leaves the walk while entries remain, unless a Quit was given, wherever tasks were
  stolen from and whoever is blocked in a send. With `FairToOutput`, which derives
  the fairness `Output` assumes from that of the walker's threads, all that is
  checked of `Output` carries over to `run`, `Returns` included.
* `QuitReturns`: once any verdict is Quit, `run` returns, without another token.
* `PromptStop`: after a stop signal each worker begins at most one more directory.
  It is stated for trees without empty directories: nobody looks at the flag
  between two of those, so a worker may go through any number of them.
* `Honoured`: when the walk starts, every setting is the last one given and every
  list holds all that were given, in order; clusters, attached values and values
  that look like options included.
* `Runnable`: what the other modules assume of their constants holds of what the
  command line delivers (at least one thread, distinct roots, patterns that compile,
  never both matchers), with every handler registered.
* `PlaceholdersUnread`: off Unix no predicate that can be given reads a field the
  non-Unix leaf fills with zero.
* `ExitStatus`: the manual's table, with the order of help and errors.

Why the bounds are enough to be interesting. Two workers are the fewest that steal
from each other, and three the fewest in which a thief can be robbed while a third
worker loads `pending`. Two roots make batch stealing from the injector move
something. The loop tree lets a directory be met again both directly and through
another root. In `Pipeline` two workers and two subdirectories let one worker be
blocked sending, or throttled, while the other reads, steals or ends the run; the
cap of one also covers a run without one, since the walk may finish before the
print thread looks. Four items of command line are enough for an option, its
value, a second setting of the same local and a path; in `CommandLine` integers
are kept small (`IMax` is 100000, above the limit of 65535 threads). Three
descriptors are fewer than three workers may want at once, so the fallback
succeeds in some behaviours and fails in others. Batches of 2 with 5 matches give
full batches, tails, and a cap in the middle, at the end and beyond a batch; a
channel of 2 fills. In `WalkWide` the bound is 8 and a breadth-first walk needs
more than that. No symmetry is used: workers are numbered because `find_task`
tries stealers in order. `FdLimit = 99` means "never exhausted".

Every property of a passing run has a mutant in `PROJECT.json`: a definition with
a plausible bug, under which TLC finds that property violated.

### Fairness

* Each worker is weakly fair (`WF` of its `Step`), as is the thread that enqueues
  roots and spawns, the print thread and the end of `run`: the operating system
  runs runnable threads.
* `SF` on `StealBatchAndPop` and `Steal`: a `Retry` means some other thread won
  the race for the queue, so a thread that tries again and again either succeeds
  or finds the queue empty. Without it the model would allow spurious `Retry`
  for ever, which crossbeam does not.
* `WF` of `Refill` in `Spec` only: time passes. `StarvedSpec` and `PSpec` do
  without it: `QuitReturns` must not depend on a token. `FairToOutput` states it as
  its hypothesis.
* Nothing promises a signal, an error or an account change.

## Proofs

All proofs are about the specifications TLC checks, for every value of the
constants that satisfies the `ASSUME`s (which TLC evaluates in every run). Every
inductive invariant below was checked by TLC on the component's instance before it
was proved. Where a theorem has a further hypothesis, it is named here.

**`Recursion`**: what the provers need to reason about a definition by recursion.
The library's induction theorems take an operator as parameter, which the provers
cannot instantiate; here an induction is over the *set* of numbers where something
holds, which is an ordinary value.

* `LeastNumber`: a set of numbers that is not empty has a least member;
  `BoundedInduction`: a subset of `0..N` that holds 0 and with each number the next is
  all of it.
* `Recursive`: for a step `D[n]` on a set `V` there is a function that computes along
  `1..N`. A definition `f[j \in S] == ...` means `CHOOSE f : f = [j \in S |-> ...]`,
  so this existence is what makes the definition true of `f`.
* `Folding` does the same for the folds of the community modules, which are recursive
  over subsets of the positions, `Flattening` and `FlatPrefix` for `FlattenSeq`: it is
  the last of its partial concatenations, and begins with each of them.

**`WalkProofs`**, from `TreeAssumption`, `EntryAssumption` and `ArgsAssumption`, as
all proofs about `Walk`:

* `TypeCorrect`, `PendingCorrect`, `ExitCorrect`: `Spec => []` of `TypeOK`,
  `PendingAccounts`, `NoEarlyExit`. `StarvedExitCorrect`: all three for
  `StarvedSpec`.
* The inductive invariant is `WalkInv == TypeOK /\ IsFiniteSet(Slots) /\
  PendingAccounts /\ NoEarlyExit /\ NotYetSpawned`. Outstanding work is a finite set
  `Slots` of pairs (queue, position), (worker, held), (worker, counted but not
  pushed), and `pending` is its cardinality. Each action adds one slot
  (`fetch_add`, enqueueing a root), removes one (`fetch_sub`), renames one (pop,
  steal, push), or renames many by a bijection (the batch steal, `SlotBatch`).
  `NoEarlyExit` follows because a worker without a Quit leaves on `pending = 0`,
  that is with no slot, and with no slot nobody can make one again;
  `NotYetSpawned` excludes a root enqueued after that.

**`WalkTasks`**: `ScopeCorrect`, `VisitOnceCorrect` (`InScope`, `VisitOnce`) and
`HistoryGrows`, an action property (the visited and the lost entries only grow and
stay apart).

* The invariant `TaskInv` adds to `WalkInv` what the tasks say. `Places` are the
  slots with the task in each (`Holds`); `TasksGood`: depth, root device and
  ancestors of every task are those of its path in the tree; `TasksUnique`: no path
  is in two places; `Visits`: what waits has not been visited, what a directory
  stream still has to deliver is neither visited nor lost, and parents come first.
* A queue operation is then one of four changes of `Holds` (nothing moves, a task
  moves, one appears, one goes; the batch steal moves several), and each part is
  proved to survive the kind of change rather than each action.

**`WalkResults`**: `CompleteCorrect` (`Complete`) and `ImplementsCorrect`: `Walk`
refines `Traversal`.

* `CompleteInv` adds `Covered`: without a Quit, every entry that is owed (a root, or
  a child of a visited directory in scope that is not excluded) is visited, lost, or
  in somebody's hands: a root not yet enqueued, in a task, in a stream not read to
  its end, or on its way to the visitor. With all workers gone no hand is left.
* In the refinement `Visit` and `VisitRoot` are `Emit`, the error actions `Lose`, the
  last worker's exit `Return`, and everything else stutters.

Also in `WalkResults`: `FdBoundCorrect` (`FdBound`) and `LosslessCorrect`: `EnoughFds
/\ Spec => []Lossless`, where `EnoughFds` says the limit exceeds the bound that
`raise_nofile_limit` estimates. Without it `Lossless` is false, as the source
intends: entries are dropped when descriptors run out.

* `FdInv` adds the shape of the frontier (`Stack`): in a worker's deque every task
  lies below the directories that the older ones pin, and so does the task in hand.
  The depths along one path differ (`Chain`), so a worker pins at most one directory
  per level. Batches are stolen from the injector only, which holds roots
  (`RootsOnly`), and they pin nothing; a thief takes the oldest task of a deque.

**`OutputProofs`**, from the assumptions of `Output`: `TypeCorrect`,
`ConservedCorrect`, `NoDuplicatesCorrect`, `DeliveredCorrect`, `AllMatchesCorrect`.

* `OutputInv == TypeOK /\ Shapes /\ Apart /\ Accounts /\ Stops /\ Counts`.
  `Shapes`: which buffer, outbox or batch may be empty at which program point;
  `Apart`: buffers, outboxes, channel, batch and sink are pairwise disjoint and each
  is without repetition; `Accounts`: together they are what was accepted, while the
  receiver lives; `Stops`: why a worker, the print thread or the receiver may be
  gone; `Counts`: the printed count is the number of entries settled, at most the
  cap, and equal to it once the receiver is dropped early.
* `PromiseKept`: the last four without any fairness, for use in `PipelineProofs`.

**`PipelineProofs`**, from the assumptions of `Walk` and `PipelineAssumption` (no
errors or exclusions, more descriptors than `FdBound` needs, every path below a
directory in scope, and what `Output` assumes of its constants):

* `WalkInside`: `PSpec => []Ground`. A step of `run` is a step of `Walk` or leaves its
  variables alone (`WalkStep`), so the invariants `CompleteInv` and `FdInv` carry over,
  and nothing is ever lost.
* `OutputRefined`: `PSpec => ImplementsOutput`. `Coupling` relates the two sides: a
  worker blocked in a send is inside the visitor call, and what `Output` has not been
  given is what `Walk` has not visited, less what such workers are handing over. The
  hard step is a worker's exit without a Quit (`LeavesInTime`): `pending = 0` means no
  slot, hence nothing in anybody's hands (`NothingInHand`), hence everything owed is
  visited. That this is everything in the tree follows by looking at an unvisited path
  of least depth (`AllVisited`): it would be a root, or listed in a visited directory.
* `RunDelivers`: `PSpec => []` of `Conserved`, `NoDuplicates`, `Delivered` and
  `AllMatches`, by the refinement and `PromiseKept`: a run without a cap and without a
  signal prints every matching entry of the tree once, or the sink refused it.
* `PromptCorrect`: `PSpec => []PromptStop`. The invariant `Prompt` says that a worker
  that has begun a directory since the signal has an entry of it to hand over, or is
  leaving because of the Quit it got (`LateOnce`, `Stopping`).

**`VisitorProofs`**, from `WidthAssumption` and `ScenarioAssumption`:

* `MaskSufficient`: two metadata records that agree on the mask get the same verdict.
  `ActiveIffMasked`: the stat is skipped exactly when nothing would be requested.
* `KeptCorrect`: `Spec => []KeptSound`, by `VisitorInv`: what each stage of the
  cascade has established about the current entry (`Judging`), every cached "no
  such owner" was true when it was stored (`CacheSound`), and `KeptSound` itself.
* `SkippedCorrect`, `OwnersCorrect`, `TypeCorrect`: by `VerdictInv`, which adds the
  reason for every entry skipped, in terms of the cached answers and the failures
  recorded, and that every cached "exists" is explained by an account at some time or
  a lookup that failed.
* `SaturationExact`: clamping changes a verdict exactly at the threshold `i64::MAX`,
  for a number above it, under `N` and `+N`.
* `PredicatesAsDocumented`: the arithmetic of `meta.rs` (rounding up, truncating,
  clamping, cutting to seconds) decides as documented outside the cases of `Regular`,
  for every width and tick, by lemmas on quotients (`SizeDecides`, `TimeDecides`,
  `NumberDecides`, `NewerDecides`). `MatchesCorrect`: hence
  `Spec => []MatchesAsDocumented`, for every scenario. `NewerCorrect`:
  `Spec => []NewerSound`, from `KeptCorrect` and the unconditional half of
  `NewerDecides`.
* `ModeAsChmod`: folding the clauses of a symbolic mode from left to right gives each
  bit what the last clause about it says (`LastWord`), for every list of clauses; by
  induction along the run of the fold (`ModeRuns`).

**`CommandLineProofs`**, from `WidthAssumption` and `CommandLineAssumption` (an item
has a place for a value per letter, a short cluster has a letter, and a long option
or find's spelling is one name): `TypeCorrect`, `PlaceholdersCorrect`,
`RunnableCorrect`, `HonouredCorrect`, `ExitCorrect`, for every command line, platform
and width.

* `CommandInv`: the cursor stays on an item and one of its letters (`Cursor`), every
  local has the type its readers expect (`OptsTyped`), each phase of `run` finds what
  the one before it prepared (`Prepared`), and off Unix the locals of Unix options
  have their defaults. `ValueTyped` goes through the value parsers: what an arm
  accepts fits the field it writes, thresholds within an `i64` and units positive.
* `Deduplicates`: `unique()` keeps the set of roots and repeats none, by induction
  along the fold (`UniqueRuns`); `RunnableCorrect` needs it.
* `Honoured` and `ExitStatus` compare the parser's cursor with a reading of the whole
  line, so the invariant has to say how much of that reading the cursor has been
  through. `ReadUpTo(j, l)` is the requests of the items before `j` and the first `l`
  of item `j`: `Upto`, the partial concatenations behind `Given`, and `Onto`.
  `ReadInv` says, while parsing (`ParseAt`): the item under the cursor has the role
  the reading gives it, a cluster is entered only below the letter that ends it
  (`LastRead`), every request passed was acceptable, and every local holds what those
  requests ask for (`Kept`: the list of values in order, the last value, or the
  default). After `parse_inner` (`Settled`): the same for all of `Given`, but for the
  types and threads that were filled in. At the exit (`ExitsWith`): the status.
* `NextOption` is the heart: the option under the cursor, with the value
  `Parser::value` would take for it, is the next request of the reading. `TakeNext`
  and `KeptMore` then apply it, `Arrive` and `NextRole` place the cursor on the next
  item (past the one that was used up as a value). At an error or at help the next
  request is the first one that is wrong or asks for it, which decides between
  `Misused` and `Helped`; `ListHolds` turns "no pattern of a set is bad" into "no
  pattern the user gave is bad" (`BrokenIs`).
* The attempt to prove `Honoured` found two slips in how it was stated, not in the
  parser: requests for paths were told from options by name, so that a `--paths=.`
  (an unknown option) passed for a path, and nothing said that a long item spells one
  option. A request now says which it is, and the run has that item.

Only model-checked: the liveness properties (`Terminates`, `Returns`, `QuitReturns`,
`FairToOutput`), which need fairness, out of the prover's reach. Every invariant of
every passing run is also a theorem.

## Findings

Five places where a comment or document says something the code does not do. Each
has a run that ends in a counterexample.

1. `run`'s documentation (`src/lib.rs:114`) says a write failure surfaces rather than
   being swallowed; every write error is discarded with `unwrap_or(())`
   (`OutputSwallows`).
2. README and man page say the walk stops after the first N matches; workers hand
   matches over in batches of 256, so it goes on until a batch is full or a worker
   runs out of work (`OutputLateStop`). The number printed is exact (`Delivered`).
3. The man page says every predicate is ANDed together; `--size`, `--perm`, `--uid`,
   `--gid`, `--links` and `--inum` replace an earlier one (`ArgsAnded`), unlike the
   times and the `-newer` family.
4. The comment on `matches_u64` (`src/meta.rs:94`) says that "clamping preserves every
   verdict"; with the threshold `i64::MAX`, which parses, a larger number is taken for
   equal (`VisitorClamp`). `SaturationExact` proves that no other threshold is affected.
5. find's spellings are rewritten in every item of argv, so `-name -size` looks for
   `--size`, and a directory `-size` behind `--` is not found (`ArgsTyped`).

Noted in passing, without a run:

* `Args::default()` has `threads = 0`, which would underflow in `run`; the command
  line never produces it (`Runnable`). It can produce 1, below the floor of 2 that
  `parse_threads` explains, on a machine with one CPU. `--threads N` is called the
  number of workers and starts N - 1.
* The comment on `-iname` (`src/args.rs:321`) says its flag affects only the matcher
  used; `run` passes it to `--path`, `--lname` and `--exclude` as well
  (`src/lib.rs:140-155`). `Honoured` describes the flag as the code sets it.
* The man page says `-newer` compares with FILE's modification time; both times are
  compared in whole seconds, as the comment at `src/meta.rs:383` says, so a file
  changed later in the reference's own second is not newer. A reference before the
  epoch counts as the epoch (`src/meta.rs:428-430`), which rejects newer files from
  before it. Neither reports a file it should not (`NewerSound`).
* A file up to one unit in the future has age 0 and is reported by `-mtime 0`
  (`src/meta.rs:197`); GNU find rejects it. The man page promises integer division and
  does not say which way a negative age is rounded.
* The comment in `descend` (`src/walk.rs:315`) says a descriptor is freed once the
  last queued subdirectory is opened; that subdirectory's own task keeps it until it
  has been read. `FdBound` holds all the same.
* The comment on `MAX_NAP` (`src/ratelimit.rs:19`) speaks of the shutdown flag; the
  limiter sees `quit` only, so a worker that naps when a signal comes still waits for
  its token and opens one more directory (`PromptStop`).
* `run` lists "no paths" among its errors and returns Ok for none; the parser is what
  rejects it. The man page's `--quit . && echo "found one"` exits 0 whether or not
  something was found.
* Roots are deduplicated, nested roots are not: their entries are printed twice.
* The comment at `src/meta.rs:263` gives `u+s` as `0o4100`; code and tests give
  `0o4000`. `--file-type empty` with only `symlink` beside it also selects files and
  directories.

## Not modelled

* Idle scheduling (`src/sched.rs`) and, in `main.rs`, the oversubscription warning,
  the reset of SIGPIPE, nice and the raised descriptor limit: system calls and
  messages without program state. SIGPIPE's default disposition ends the process.
* The non-Unix leaf (`src/walk/fallback.rs`) beyond `PlaceholdersUnread`: its opens
  and reads are those of `Walk` on a single device without a descriptor limit. Its
  directory identity, a hash of the canonical path, is taken to be injective there.
* What a glob or regular expression matches: globset's and regex's business. Which
  sets are built, when, and with which flag is in `CommandLine`.
* How the characters of a number, mode or path are scanned: a word carries what the
  scan yields. The bits of a symbolic mode are in `Meta`.
* What ages that do not fit an `i64` mean: `Meta` wraps as the release build does, and
  `MatchesAsDocumented` says nothing of them.
* The fraction of a second in a file's own times, which the predicates never get.

## Plan

Done, in this order: `Walk` with `Traversal`, `Output`, `Meta` and `Visitor`,
`Pipeline`, `CommandLine`, and the proofs above, the recursive parts last. What
remains is outside the prover's reach (liveness) or outside the model (see above).
