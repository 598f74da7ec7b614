------------------------------ MODULE Pipeline ------------------------------
(***************************************************************************)
(* run (src/lib.rs) as a whole: the walker of module Walk calls, for each  *)
(* entry, the visitor of module Output on the worker's own thread. The two *)
(* share the walker's quit flag, and nothing else: a full batch blocks the *)
(* worker inside the visitor call, a closed channel or the shutdown flag   *)
(* comes back as a Quit verdict, and a worker's BatchSender is dropped     *)
(* when run_worker has returned. Module Output leaves the order in which   *)
(* entries arrive, and when workers leave, to its environment; here Walk   *)
(* is that environment.                                                    *)
(***************************************************************************)
EXTENDS Walk

CONSTANTS Matching, BatchSize, ChanMult, Setups, MaySignal

VARIABLES setup, rest, shutdown, wpc, buf, outbox, closed, chan, rxOpen, mainTx,
          ppc, batch, written, out, failed, accepted, returned,
          late    \* history: directories each worker began to read after a signal

\* every occurrence in the tree is an entry the visitor is called with
O == INSTANCE Output WITH Entry <- Path

\* Nothing hides an entry from the walk: errors, exclusion and a shortage of
\* descriptors are module Walk's subject.
ASSUME PipelineAssumption ==
    /\ Flaky = {} /\ Excluded = {} /\ FdLimit > NWorkers * (DirDepth + 2)
    /\ Verdicts = {"Continue", "Quit"}
    /\ \A p \in Path : IsRoot(p) \/ Expandable(Parent[p])
    /\ Setups \subseteq O!Setup /\ \A s \in Setups : s.threads = Threads
    /\ Matching \subseteq Path /\ MaySignal \in BOOLEAN
    /\ BatchSize \in Nat \ {0} /\ ChanMult \in Nat \ {0} /\ IsFiniteSet(Setups)

\* all but the quit flag, on either side
walkVars == <<nextRoot, injector, deque, pending, pc, task, todo, entry,
              victim, retry, tokens, visited, lost>>
outputVars == <<setup, rest, shutdown, wpc, buf, outbox, closed, chan, rxOpen, mainTx,
                ppc, batch, written, out, failed, accepted, returned>>
pvars == <<walkVars, outputVars, quit, late>>

PInit == Init /\ O!Init /\ late = [w \in Worker |-> 0]

-----------------------------------------------------------------------------
(* The visitor call                                                        *)

InVisitor(w) == pc[w] \in {"self", "visit"}
Current(w) == IF pc[w] = "self" THEN task[w].path ELSE entry[w]

\* The visitor answers: Quit ends this task, Continue goes on with it.
Answer(w) == /\ VisitRoot(w) \/ Visit(w)
             /\ (pc'[w] = "sub") <=> (wpc'[w] = "drop")

\* the visitor judges the entry; only a full batch keeps it from answering yet
Call(w) ==
    /\ InVisitor(w)
    /\ O!VisitShutdown(w) \/ O!VisitSkip(w) \/ O!VisitMatch(w)
    /\ rest' = rest \ {Current(w)}
    /\ IF wpc'[w] = "send" THEN UNCHANGED walkVars ELSE Answer(w)
    /\ UNCHANGED late

Flush(w) == O!Send(w) \/ O!Rendezvous(w) \/ O!SendFails(w)

\* BatchSender::push returns from its flush
PushReturns(w) == wpc[w] = "send" /\ Flush(w) /\ Answer(w) /\ UNCHANGED late

\* Everything a worker does outside the visitor; run_worker returns at "done".
Roam(w) ==
    /\ ~InVisitor(w) /\ Step(w)
    /\ wpc' = [wpc EXCEPT ![w] = IF @ = "walk" /\ pc'[w] = "done" THEN "drop" ELSE @]
    /\ late' = [late EXCEPT ![w] = @ + IF shutdown /\ pc[w] = "stream" /\ pc'[w] = "read"
                                       THEN 1 ELSE 0]
    /\ UNCHANGED <<setup, rest, shutdown, buf, outbox, closed, chan, rxOpen, mainTx, ppc,
                   batch, written, out, failed, accepted, returned>>

\* the worker's closure and the BatchSender in it are dropped
DropVisitor(w) ==
    /\ \/ pc[w] = "done" /\ O!DropSender(w)
       \/ wpc[w] = "tail" /\ Flush(w)
    /\ UNCHANGED <<walkVars, late>>

PStep(w) == Call(w) \/ PushReturns(w) \/ Roam(w) \/ DropVisitor(w)

-----------------------------------------------------------------------------
Main == (EnqueueRoot \/ Spawn) /\ UNCHANGED <<outputVars, late>>
Clock == Refill /\ UNCHANGED <<outputVars, late>>
Printing == O!PrintStep /\ UNCHANGED <<walkVars, late>>
TearDown == O!MainStep /\ UNCHANGED <<walkVars, late>>
Interrupt == O!Signal /\ UNCHANGED <<walkVars, late>>
Finished == returned /\ UNCHANGED pvars

PNext == \/ Main \/ Clock \/ Printing \/ TearDown \/ Interrupt \/ Finished
         \/ \E w \in Worker : PStep(w)

\* The threads run, as in Walk and in Output; nobody promises a signal, and the
\* properties say where they need the limiter's clock.
PSpec ==
    /\ PInit /\ [][PNext]_pvars
    /\ WF_pvars(Main) /\ WF_pvars(Printing) /\ WF_pvars(TearDown)
    /\ \A w \in Worker :
          /\ WF_pvars(PStep(w))
          /\ SF_pvars(Roam(w) /\ StealBatchAndPop(w)) /\ SF_pvars(Roam(w) /\ Steal(w))

-----------------------------------------------------------------------------
(* Properties                                                              *)

\* run refines module Output: the walker hands every entry over exactly once,
\* and a worker leaves the walk only after a Quit or when all entries have been
\* handed over, wherever they were stolen from and whoever is blocked in a send.
ImplementsOutput == O!Init /\ [][O!Next]_(O!vars)

\* The fairness Output assumes of its workers is what the walk provides: a worker
\* that finds nothing to steal still comes to an end, and a blocked or throttled
\* one comes back. So everything Output shows, Returns included, holds of run.
FairToOutput == WF_pvars(Clock) => O!Fairness

\* Once a verdict is Quit, run returns even if the limiter never hands out another
\* token: throttled workers, blocked senders and the print thread all let go.
QuitReturns == quit ~> returned

\* A stop signal is noticed at the next visitor call. The limiter and the task
\* loop do not look at the flag, so a worker may begin one more directory, and
\* no second one as long as directories are not empty.
PromptStop == (\A d \in ReadableDirs : Kids(d) # {}) => \A w \in Worker : late[w] <= 1
=============================================================================
