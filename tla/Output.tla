------------------------------- MODULE Output -------------------------------
(***************************************************************************)
(* The pipeline of run (src/lib.rs): the per-worker visitor and its        *)
(* BatchSender, the bounded channel, the print thread with its result cap, *)
(* the shutdown flag, and the order in which run tears everything down.    *)
(* The walker is its interface: workers call the visitor with entries, in  *)
(* any order and distribution, until none is left or a Quit verdict stops  *)
(* them (module Walk says how).                                            *)
(***************************************************************************)
EXTENDS Integers, Sequences, FiniteSets, SequencesExt

CONSTANTS
    Entry,         \* the entries the walk would visit
    Matching,      \* those every filter of the visitor keeps
    BatchSize,     \* BATCH_SIZE
    ChanMult,      \* CHAN_MULT
    Setups,        \* the runs to consider, each a Setup
    MaySignal      \* whether a stop signal may arrive

\* args.threads, args.max_results (0 for None) and whether a write may fail
Setup == [threads : Nat \ {0}, maxResults : Nat, sinkMayFail : BOOLEAN]

ASSUME OutputAssumption ==
    /\ IsFiniteSet(Entry) /\ Matching \subseteq Entry
    /\ BatchSize \in Nat \ {0} /\ ChanMult \in Nat \ {0}
    /\ IsFiniteSet(Setups) /\ Setups \subseteq Setup /\ MaySignal \in BOOLEAN

VARIABLES
    setup,     \* the run's Setup; never changes
    rest,      \* entries the walk has yet to visit
    shutdown,  \* the flag the signal handlers set
    quit,      \* the walker's quit flag
    wpc,       \* each worker: "walk", "send", "drop", "tail", "done"
    buf,       \* BatchSender.buf
    outbox,    \* the batch a worker is blocked sending
    closed,    \* BatchSender.closed
    chan,      \* the channel's buffer
    rxOpen,    \* the receiver has not been dropped
    mainTx,    \* run still holds its own sender
    ppc,       \* print thread: "recv", "write", "flush", "end"
    batch,     \* the batch it is writing
    written,   \* results counted towards the cap
    out,       \* entries counted that reach the sink
    failed,    \* history: entries counted whose bytes do not reach the sink
    accepted,  \* history: entries pushed into a BatchSender
    returned   \* run returned Ok

walkers == <<rest, quit, wpc, buf, outbox, closed, accepted>>
printer == <<ppc, batch, written, out, failed>>
ends == <<rxOpen, mainTx, returned, setup>>
vars == <<setup, rest, shutdown, quit, wpc, buf, outbox, closed, chan, rxOpen, mainTx,
          ppc, batch, written, out, failed, accepted, returned>>

NWorkers == IF setup.threads > 1 THEN setup.threads - 1 ELSE 1
Worker == 1 .. NWorkers
\* bounded(CHAN_MULT * (args.threads - 1)); 0 makes every send a rendezvous
Cap == ChanMult * (setup.threads - 1)

Init ==
    /\ setup \in Setups
    /\ rest = Entry /\ shutdown = FALSE /\ quit = FALSE
    /\ wpc = [w \in Worker |-> "walk"]
    /\ buf = [w \in Worker |-> <<>>] /\ outbox = [w \in Worker |-> <<>>]
    /\ closed = [w \in Worker |-> FALSE]
    /\ chan = <<>> /\ rxOpen = TRUE /\ mainTx = TRUE
    /\ ppc = "recv" /\ batch = <<>> /\ written = 0 /\ out = <<>> /\ failed = {}
    /\ accepted = {} /\ returned = FALSE

\* a registered signal sets the flag; the threads only see it when they look
Signal ==
    /\ MaySignal /\ ~shutdown /\ ~returned
    /\ shutdown' = TRUE
    /\ UNCHANGED <<walkers, chan, printer, ends>>

-----------------------------------------------------------------------------
(* The visitor and its BatchSender                                         *)

\* mutant: a shutdown discards the matches still buffered
VisitShutdownDiscards(w) ==
    /\ wpc[w] = "walk" /\ shutdown
    /\ \E e \in rest : rest' = rest \ {e}
    /\ quit' = TRUE
    /\ buf' = [buf EXCEPT ![w] = <<>>]
    /\ wpc' = [wpc EXCEPT ![w] = "drop"]
    /\ UNCHANGED <<shutdown, outbox, closed, accepted, chan, printer, ends>>

\* the visitor's first test: a shutdown becomes a Quit verdict
VisitShutdown(w) ==
    /\ wpc[w] = "walk" /\ shutdown
    /\ \E e \in rest : rest' = rest \ {e}
    /\ quit' = TRUE
    /\ wpc' = [wpc EXCEPT ![w] = "drop"]
    /\ UNCHANGED <<shutdown, buf, outbox, closed, accepted, chan, printer, ends>>

\* mutant: the flag is looked at only for entries the filters keep
VisitSkipLooksLate(w) ==
    /\ wpc[w] = "walk"
    /\ \E e \in rest \ Matching : rest' = rest \ {e}
    /\ UNCHANGED <<shutdown, quit, wpc, buf, outbox, closed, accepted, chan, printer, ends>>

\* a filter rejects the entry
VisitSkip(w) ==
    /\ wpc[w] = "walk" /\ ~shutdown
    /\ \E e \in rest \ Matching : rest' = rest \ {e}
    /\ UNCHANGED <<shutdown, quit, wpc, buf, outbox, closed, accepted, chan, printer, ends>>

\* mutant: > for >=
VisitMatchFlushesLate(w) ==
    /\ wpc[w] = "walk" /\ ~shutdown
    /\ \E e \in rest \cap Matching :
          LET b == Append(buf[w], e) IN
          /\ rest' = rest \ {e}
          /\ accepted' = accepted \cup {e}
          /\ IF Len(b) > BatchSize
             THEN /\ buf' = [buf EXCEPT ![w] = <<>>]
                  /\ outbox' = [outbox EXCEPT ![w] = b]
                  /\ wpc' = [wpc EXCEPT ![w] = "send"]
             ELSE buf' = [buf EXCEPT ![w] = b] /\ UNCHANGED <<outbox, wpc>>
    /\ UNCHANGED <<shutdown, quit, closed, chan, printer, ends>>

\* mutant: the batch is cloned and the buffer kept
VisitMatchKeepsBuf(w) ==
    /\ wpc[w] = "walk" /\ ~shutdown
    /\ \E e \in rest \cap Matching :
          LET b == Append(buf[w], e) IN
          /\ rest' = rest \ {e}
          /\ accepted' = accepted \cup {e}
          /\ buf' = [buf EXCEPT ![w] = b]
          /\ IF Len(b) >= BatchSize
             THEN /\ outbox' = [outbox EXCEPT ![w] = b]
                  /\ wpc' = [wpc EXCEPT ![w] = "send"]
             ELSE UNCHANGED <<outbox, wpc>>
    /\ UNCHANGED <<shutdown, quit, closed, chan, printer, ends>>

\* BatchSender::push: the BATCH_SIZE-th entry makes the worker flush
VisitMatch(w) ==
    /\ wpc[w] = "walk" /\ ~shutdown
    /\ \E e \in rest \cap Matching :
          LET b == Append(buf[w], e) IN
          /\ rest' = rest \ {e}
          /\ accepted' = accepted \cup {e}
          /\ IF Len(b) >= BatchSize
             THEN /\ buf' = [buf EXCEPT ![w] = <<>>]
                  /\ outbox' = [outbox EXCEPT ![w] = b]
                  /\ wpc' = [wpc EXCEPT ![w] = "send"]
             ELSE buf' = [buf EXCEPT ![w] = b] /\ UNCHANGED <<outbox, wpc>>
    /\ UNCHANGED <<shutdown, quit, closed, chan, printer, ends>>

\* run_worker returns: the walk quit, or there is nothing left to visit
Leave(w) ==
    /\ wpc[w] = "walk" /\ (quit \/ rest = {})
    /\ wpc' = [wpc EXCEPT ![w] = "drop"]
    /\ UNCHANGED <<rest, shutdown, quit, buf, outbox, closed, accepted, chan, printer, ends>>

\* mutant: no flush on drop
DropSenderNoFlush(w) ==
    /\ wpc[w] = "drop"
    /\ wpc' = [wpc EXCEPT ![w] = "done"]
    /\ buf' = [buf EXCEPT ![w] = <<>>]
    /\ UNCHANGED <<rest, shutdown, quit, outbox, closed, accepted, chan, printer, ends>>

\* Drop for BatchSender: the partial tail is flushed, then the sender goes
DropSender(w) ==
    /\ wpc[w] = "drop"
    /\ wpc' = [wpc EXCEPT ![w] = IF buf[w] = <<>> THEN "done" ELSE "tail"]
    /\ outbox' = [outbox EXCEPT ![w] = buf[w]]
    /\ buf' = [buf EXCEPT ![w] = <<>>]
    /\ UNCHANGED <<rest, shutdown, quit, closed, accepted, chan, printer, ends>>

Sent(w) ==
    /\ outbox' = [outbox EXCEPT ![w] = <<>>]
    /\ wpc' = [wpc EXCEPT ![w] = IF @ = "send" THEN "walk" ELSE "done"]
    /\ UNCHANGED <<rest, shutdown, quit, buf, closed, accepted, ends>>

\* mutant: try_send, a full channel loses the batch
TrySend(w) ==
    /\ wpc[w] \in {"send", "tail"} /\ rxOpen
    /\ chan' = IF Len(chan) < Cap THEN Append(chan, outbox[w]) ELSE chan
    /\ Sent(w)
    /\ UNCHANGED printer

\* tx.send: blocks while the channel is full
Send(w) ==
    /\ wpc[w] \in {"send", "tail"} /\ rxOpen /\ Len(chan) < Cap
    /\ chan' = Append(chan, outbox[w])
    /\ Sent(w)
    /\ UNCHANGED printer

\* a zero-capacity channel hands the batch to a receiver that is waiting
Rendezvous(w) ==
    /\ wpc[w] \in {"send", "tail"} /\ rxOpen /\ Cap = 0 /\ ppc = "recv"
    /\ batch' = outbox[w] /\ ppc' = "write"
    /\ Sent(w)
    /\ UNCHANGED <<chan, written, out, failed>>

\* the receiver is gone: push answers false and the verdict is Quit; in Drop
\* the answer is ignored
SendFails(w) ==
    /\ wpc[w] \in {"send", "tail"} /\ ~rxOpen
    /\ outbox' = [outbox EXCEPT ![w] = <<>>]
    /\ closed' = [closed EXCEPT ![w] = TRUE]
    /\ quit' = (quit \/ wpc[w] = "send")
    /\ wpc' = [wpc EXCEPT ![w] = IF @ = "send" THEN "drop" ELSE "done"]
    /\ UNCHANGED <<rest, shutdown, buf, accepted, chan, printer, ends>>

-----------------------------------------------------------------------------
(* The print thread                                                        *)

Recv ==
    /\ ppc = "recv" /\ chan # <<>>
    /\ batch' = Head(chan) /\ chan' = Tail(chan)
    /\ ppc' = "write"
    /\ UNCHANGED <<walkers, shutdown, written, out, failed, ends>>

\* mutant: an empty channel ends the loop
RecvEmpty ==
    /\ ppc = "recv" /\ chan = <<>>
    /\ ppc' = "flush" /\ rxOpen' = FALSE
    /\ UNCHANGED <<walkers, shutdown, chan, batch, written, out, failed, mainTx, returned, setup>>

\* every sender dropped and the channel drained: the for loop ends, rx with it
RecvClosed ==
    /\ ppc = "recv" /\ chan = <<>> /\ ~mainTx
    /\ \A w \in Worker : wpc[w] = "done"
    /\ ppc' = "flush" /\ rxOpen' = FALSE
    /\ UNCHANGED <<walkers, shutdown, chan, batch, written, out, failed, mainTx, returned, setup>>

\* max_results.filter(|&n| n > 0): 0 is no cap
CapReached(n) == setup.maxResults > 0 /\ n >= setup.maxResults

\* mutant: the cap is tested before the entry is counted
WriteTestsLate ==
    /\ ppc = "write"
    /\ out' = Append(out, Head(batch)) /\ UNCHANGED failed
    /\ written' = written + 1
    /\ IF CapReached(written)
       THEN /\ ppc' = "flush" /\ rxOpen' = FALSE
            /\ batch' = <<>> /\ chan' = <<>>
       ELSE /\ ppc' = IF Len(batch) = 1 THEN "recv" ELSE "write"
            /\ batch' = Tail(batch)
            /\ UNCHANGED <<chan, rxOpen>>
    /\ UNCHANGED <<walkers, shutdown, mainTx, returned, setup>>

\* mutant: at the cap the thread stops receiving but keeps the receiver
WriteKeepsReceiver ==
    /\ ppc = "write"
    /\ out' = Append(out, Head(batch)) /\ UNCHANGED failed
    /\ written' = written + 1
    /\ ppc' = IF CapReached(written + 1) THEN "flush"
              ELSE IF Len(batch) = 1 THEN "recv" ELSE "write"
    /\ batch' = Tail(batch)
    /\ UNCHANGED <<walkers, shutdown, chan, ends>>

\* One entry: a failed write is discarded (unwrap_or(())) and counts all the same.
\* The 256 KiB BufWriter may meet the error in a later write or the final flush, when
\* the entry is counted already; its fate is chosen here all the same, entry by entry,
\* which allows every set of lost entries.
\* At the cap, break 'outer drops the receiver and all it still holds.
Write ==
    /\ ppc = "write"
    /\ \/ out' = Append(out, Head(batch)) /\ UNCHANGED failed
       \/ setup.sinkMayFail /\ failed' = failed \cup {Head(batch)} /\ UNCHANGED out
    /\ written' = written + 1
    /\ IF CapReached(written + 1)
       THEN /\ ppc' = "flush" /\ rxOpen' = FALSE
            /\ batch' = <<>> /\ chan' = <<>>
       ELSE /\ ppc' = IF Len(batch) = 1 THEN "recv" ELSE "write"
            /\ batch' = Tail(batch)
            /\ UNCHANGED <<chan, rxOpen>>
    /\ UNCHANGED <<walkers, shutdown, mainTx, returned, setup>>

\* stdout.flush(), its error discarded too, and the thread ends
Flush ==
    /\ ppc = "flush" /\ ppc' = "end"
    /\ UNCHANGED <<walkers, shutdown, chan, batch, written, out, failed, ends>>

-----------------------------------------------------------------------------
(* run after walk_parallel                                                 *)

\* mutant: join first, drop(tx) after
DropTxAfterJoin ==
    /\ mainTx /\ \A w \in Worker : wpc[w] = "done"
    /\ ppc = "end"
    /\ mainTx' = FALSE
    /\ UNCHANGED <<walkers, shutdown, chan, printer, rxOpen, returned, setup>>

DropTx ==
    /\ mainTx /\ \A w \in Worker : wpc[w] = "done"
    /\ mainTx' = FALSE
    /\ UNCHANGED <<walkers, shutdown, chan, printer, rxOpen, returned, setup>>

Join ==
    /\ ~mainTx /\ ppc = "end" /\ ~returned
    /\ returned' = TRUE
    /\ UNCHANGED <<walkers, shutdown, chan, printer, rxOpen, mainTx, setup>>

Returned == returned /\ UNCHANGED vars

WorkerStep(w) == \/ VisitShutdown(w) \/ VisitSkip(w) \/ VisitMatch(w) \/ Leave(w)
                 \/ DropSender(w) \/ Send(w) \/ Rendezvous(w) \/ SendFails(w)
PrintStep == Recv \/ RecvClosed \/ Write \/ Flush
MainStep == DropTx \/ Join

Next == Signal \/ PrintStep \/ MainStep \/ Returned \/ \E w \in Worker : WorkerStep(w)

\* every thread runs when it can; nobody promises a signal
Fairness ==
    /\ WF_vars(PrintStep) /\ WF_vars(MainStep)
    /\ \A w \in 1 .. Max({s.threads : s \in Setups}) :
          WF_vars(w \in Worker /\ WorkerStep(w))

Spec == Init /\ [][Next]_vars /\ Fairness

-----------------------------------------------------------------------------
(* Properties                                                              *)

TypeOK ==
    /\ setup \in Setups
    /\ rest \subseteq Entry /\ accepted \subseteq Entry /\ failed \subseteq Entry
    /\ shutdown \in BOOLEAN /\ quit \in BOOLEAN
    /\ wpc \in [Worker -> {"walk", "send", "drop", "tail", "done"}]
    /\ buf \in [Worker -> Seq(Entry)] /\ outbox \in [Worker -> Seq(Entry)]
    /\ closed \in [Worker -> BOOLEAN]
    /\ chan \in Seq(Seq(Entry)) /\ batch \in Seq(Entry) /\ out \in Seq(Entry)
    /\ rxOpen \in BOOLEAN /\ mainTx \in BOOLEAN /\ returned \in BOOLEAN
    /\ ppc \in {"recv", "write", "flush", "end"} /\ written \in Nat
    /\ \A w \in Worker : Len(buf[w]) < BatchSize
    /\ ppc = "write" => batch # <<>>

InFlight == (UNION {Range(buf[w]) \cup Range(outbox[w]) : w \in Worker})
            \cup (UNION {Range(chan[i]) : i \in DOMAIN chan}) \cup Range(batch)

\* While the receiver lives, every match handed to a BatchSender is in exactly
\* the pipe or the sink: no batch boundary, tail flush or full channel drops one.
Conserved == rxOpen => accepted = InFlight \cup Range(out) \cup failed

\* The sink sees no path twice and none that a filter rejected.
NoDuplicates == /\ IsInjective(out) /\ Range(out) \subseteq accepted \cap Matching
                /\ InFlight \cap (Range(out) \cup failed) = {}

\* run returns having printed everything it accepted, after a stop signal too
\* (the tails are flushed on the way out), or exactly --max-results of them.
Delivered ==
    returned =>
        IF CapReached(Cardinality(accepted))
        THEN Len(out) + Cardinality(failed) = setup.maxResults
        ELSE Range(out) \cup failed = accepted

\* Without a cap or a signal the output is the whole set of matches.
AllMatches == returned /\ ~shutdown /\ setup.maxResults = 0
              => Range(out) \cup failed = Matching

\* run returns: no sender waits for ever on a full channel or on a receiver
\* that stopped at the cap, and the print thread sees the last sender go.
Returns == <>returned

\* The documentation of run: a write failure surfaces instead of being swallowed.
WriteFailureSurfaces == returned => failed = {}

\* The README: the walk is stopped after the first N matches. A worker may be in
\* the middle of one visit when the Nth is found, no more.
StopsAfterCap == setup.maxResults > 0 =>
                     Cardinality(accepted) <= setup.maxResults + NWorkers - 1
=============================================================================
