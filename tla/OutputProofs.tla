---------------------------- MODULE OutputProofs ----------------------------
(***************************************************************************)
(* Proofs about the output pipeline, for every number of threads, batch    *)
(* size, channel capacity and cap: no match is lost or printed twice while *)
(* the receiver lives, and what run has printed when it returns.           *)
(***************************************************************************)
EXTENDS Output, FiniteSetTheorems, TLAPS

USE DEF walkers, printer, ends

-----------------------------------------------------------------------------
(* The invariant                                                           *)

HeldBy(w) == Range(buf[w]) \cup Range(outbox[w])
Held == UNION {HeldBy(w) : w \in Worker}
Queued == UNION {Range(chan[i]) : i \in DOMAIN chan}
Settled == Range(out) \cup failed

AllDone == \A w \in Worker : wpc[w] = "done"

\* Where a worker keeps a batch at each of its steps.
WorkerShape(w) ==
    /\ wpc[w] \in {"send", "tail"} <=> outbox[w] # <<>>
    /\ wpc[w] \in {"send", "tail", "done"} => buf[w] = <<>>

\* No batch is empty, the print thread holds one only while it writes, and it
\* keeps the receiver until its loop ends.
Shapes ==
    /\ \A w \in Worker : WorkerShape(w)
    /\ \A i \in DOMAIN chan : chan[i] # <<>>
    /\ ppc = "write" <=> batch # <<>>
    /\ ppc \in {"flush", "end"} <=> ~rxOpen
    /\ rxOpen \/ chan = <<>>
    /\ mainTx \/ AllDone
    /\ returned => ppc = "end" /\ ~mainTx

\* No entry is twice in one batch, or in two places.
Apart ==
    /\ \A w \in Worker : IsInjective(buf[w]) /\ IsInjective(outbox[w])
    /\ \A i \in DOMAIN chan : IsInjective(chan[i])
    /\ IsInjective(batch) /\ IsInjective(out)
    /\ \A v, w \in Worker : v # w => HeldBy(v) \cap HeldBy(w) = {}
    /\ \A i, j \in DOMAIN chan : i # j => Range(chan[i]) \cap Range(chan[j]) = {}
    /\ Held \cap Queued = {} /\ Held \cap Range(batch) = {} /\ Queued \cap Range(batch) = {}
    /\ (Held \cup Queued \cup Range(batch)) \cap Settled = {}
    /\ Range(out) \cap failed = {}

\* What was accepted is no longer to come, and all that is held was accepted.
Accounts ==
    /\ rest \cap accepted = {} /\ accepted \subseteq Matching
    /\ Held \cup Queued \cup Range(batch) \cup Settled \subseteq accepted
    /\ rxOpen => accepted = Held \cup Queued \cup Range(batch) \cup Settled

\* Why a worker stops visiting, and which matches were not accepted.
Stops ==
    /\ ~shutdown => Matching \ rest \subseteq accepted
    /\ ~shutdown /\ rxOpen => ~quit
    /\ \A w \in Worker : wpc[w] \in {"drop", "tail", "done"} => quit \/ rest = {}

\* The cap counts what was settled, and the receiver goes when it is reached or
\* when everything accepted was settled.
Counts ==
    /\ written = Len(out) + Cardinality(failed) /\ written = Cardinality(Settled)
    /\ rxOpen => ~CapReached(written)
    /\ rxOpen \/ (setup.maxResults > 0 /\ written = setup.maxResults)
              \/ /\ ~mainTx /\ accepted = Settled /\ ~CapReached(written)
                 /\ shutdown \/ accepted = Matching

OutputInv == TypeOK /\ Shapes /\ Apart /\ Accounts /\ Stops /\ Counts

-----------------------------------------------------------------------------
(* Sequences                                                               *)

\* Appending adds one element at the end.
LEMMA AppendFacts ==
    ASSUME NEW S, NEW s \in Seq(S), NEW e \in S
    PROVE  /\ Append(s, e) \in Seq(S) /\ Append(s, e) # <<>>
           /\ Len(Append(s, e)) = Len(s) + 1
           /\ DOMAIN Append(s, e) = DOMAIN s \cup {Len(s) + 1} /\ Len(s) + 1 \notin DOMAIN s
           /\ \A i \in DOMAIN s : Append(s, e)[i] = s[i]
           /\ Append(s, e)[Len(s) + 1] = e
           /\ Range(Append(s, e)) = Range(s) \cup {e}
           /\ IsInjective(s) /\ e \notin Range(s) => IsInjective(Append(s, e))
<1> DEFINE t == Append(s, e)
<1>1. /\ t \in Seq(S) /\ t # <<>> /\ Len(t) = Len(s) + 1
      /\ DOMAIN t = DOMAIN s \cup {Len(s) + 1} /\ Len(s) + 1 \notin DOMAIN s
      /\ \A i \in DOMAIN s : t[i] = s[i]
      /\ t[Len(s) + 1] = e
  OBVIOUS
<1> HIDE DEF t
<1>2. Range(t) = Range(s) \cup {e}
  BY <1>1 DEF Range
<1>3. IsInjective(s) /\ e \notin Range(s) => IsInjective(t)
  BY <1>1 DEF IsInjective, Range
<1> QED
  BY <1>1, <1>2, <1>3 DEF t

\* A sequence is empty when it has no element.
LEMMA EmptyIff ==
    ASSUME NEW S, NEW s \in Seq(S)
    PROVE  s = <<>> <=> Len(s) = 0
  OBVIOUS

\* Taking the head off leaves the other elements.
LEMMA TailFacts ==
    ASSUME NEW S, NEW s \in Seq(S), s # <<>>
    PROVE  /\ Head(s) \in S /\ Tail(s) \in Seq(S)
           /\ Len(s) \in Nat \ {0} /\ Len(Tail(s)) = Len(s) - 1
           /\ DOMAIN s = 1 .. Len(s) /\ DOMAIN Tail(s) = 1 .. Len(s) - 1
           /\ Head(s) = s[1] /\ \A i \in DOMAIN Tail(s) : i + 1 \in DOMAIN s /\ Tail(s)[i] = s[i + 1]
           /\ Tail(s) = <<>> <=> Len(s) = 1
           /\ Range(s) = Range(Tail(s)) \cup {Head(s)}
           /\ IsInjective(s) => IsInjective(Tail(s)) /\ Head(s) \notin Range(Tail(s))
<1> DEFINE t == Tail(s)
<1>1. /\ Head(s) \in S /\ t \in Seq(S)
      /\ Len(s) \in Nat \ {0} /\ Len(t) = Len(s) - 1
      /\ DOMAIN s = 1 .. Len(s) /\ DOMAIN t = 1 .. Len(s) - 1
      /\ Head(s) = s[1] /\ \A i \in DOMAIN t : i + 1 \in DOMAIN s /\ t[i] = s[i + 1]
      /\ t = <<>> <=> Len(s) = 1
  <2>1. Len(s) \in Nat \ {0} /\ DOMAIN s = 1 .. Len(s) /\ \A i \in 1 .. Len(s) : s[i] \in S
    OBVIOUS
  <2>2. Head(s) = s[1] /\ t \in Seq(S) /\ Len(t) = Len(s) - 1 /\ DOMAIN t = 1 .. Len(s) - 1
    OBVIOUS
  <2>3. \A i \in DOMAIN t : t[i] = s[i + 1]
    OBVIOUS
  <2> HIDE DEF t
  <2>4. t = <<>> <=> Len(t) = 0
    BY <2>2, EmptyIff
  <2> QED
    BY <2>1, <2>2, <2>3, <2>4
<1> HIDE DEF t
<1>2. Range(s) = Range(t) \cup {Head(s)}
  <2>1. \A i \in DOMAIN s : i = 1 \/ (i - 1 \in DOMAIN t /\ t[i - 1] = s[i])
    BY <1>1
  <2> QED
    BY <1>1, <2>1 DEF Range
<1>3. ASSUME IsInjective(s) PROVE IsInjective(t) /\ Head(s) \notin Range(t)
  BY <1>1, <1>3 DEF IsInjective, Range
<1> QED
  BY <1>1, <1>2, <1>3 DEF t

\* The empty sequence holds nothing.
LEMMA EmptyFacts ==
    /\ Range(<<>>) = {} /\ IsInjective(<<>>) /\ \A S : <<>> \in Seq(S)
    /\ Len(<<>>) = 0 /\ DOMAIN <<>> = {}
  BY DEF Range, IsInjective

-----------------------------------------------------------------------------
(* Types and shapes                                                        *)

\* A run keeps its arguments.
LEMMA SetupFixed == [Next]_vars => setup' = setup
<1> SUFFICES ASSUME [Next]_vars PROVE setup' = setup
  OBVIOUS
<1>1. CASE Signal \/ PrintStep \/ MainStep \/ Returned
  BY <1>1 DEF Signal, PrintStep, Recv, RecvClosed, Write, Flush, MainStep, DropTx, Join, Returned, vars
<1>2. ASSUME NEW w \in Worker, WorkerStep(w) PROVE setup' = setup
  BY <1>2 DEF WorkerStep, VisitShutdown, VisitSkip, VisitMatch, Leave, DropSender, Send,
     Rendezvous, SendFails, Sent
<1> QED
  BY <1>1, <1>2 DEF Next, vars

\* run starts with empty buffers, the right types and shapes.
LEMMA InitTypes == Init => TypeOK /\ Shapes
<1> SUFFICES ASSUME Init PROVE TypeOK /\ Shapes
  OBVIOUS
<1>1. TypeOK
  <2>1. buf \in [Worker -> Seq(Entry)] /\ outbox \in [Worker -> Seq(Entry)]
    BY EmptyFacts DEF Init
  <2>2. chan \in Seq(Seq(Entry)) /\ batch \in Seq(Entry) /\ out \in Seq(Entry)
    BY EmptyFacts DEF Init
  <2>3. \A w \in Worker : Len(buf[w]) < BatchSize
    BY EmptyFacts, OutputAssumption DEF Init
  <2> QED
    BY <2>1, <2>2, <2>3 DEF Init, TypeOK
<1>2. Shapes
  BY EmptyFacts DEF Init, Shapes, WorkerShape
<1> QED
  BY <1>1, <1>2

\* The steps that touch no batch.
LEMMA QuietTypes ==
    ASSUME TypeOK, Shapes, setup' = setup,
           Signal \/ MainStep \/ Returned \/ Flush \/ RecvClosed \/ UNCHANGED vars
    PROVE  TypeOK' /\ Shapes'
<1>1. Worker' = Worker
  BY DEF Worker, NWorkers
<1>2. UNCHANGED <<rest, quit, wpc, buf, outbox, closed, accepted, chan, batch, out, failed, written>>
  BY DEF Signal, MainStep, DropTx, Join, Returned, Flush, RecvClosed, vars
<1>3. AllDone' <=> AllDone
  BY <1>1, <1>2 DEF AllDone
<1>4. \A w \in Worker : WorkerShape(w)' <=> WorkerShape(w)
  BY <1>2 DEF WorkerShape
<1>5. TypeOK'
  BY <1>1, <1>2 DEF TypeOK, Shapes, Signal, MainStep, DropTx, Join, Returned, Flush, RecvClosed, vars
<1>6. Shapes'
  BY <1>1, <1>2, <1>3, <1>4
     DEF TypeOK, Shapes, AllDone, Signal, MainStep, DropTx, Join, Returned, Flush, RecvClosed, vars
<1> QED
  BY <1>5, <1>6

\* A worker that is not done touches its own batches and the channel only.
LEMMA WorkerTypes ==
    ASSUME TypeOK, Shapes, NEW w \in Worker, setup' = setup,
           wpc[w] # "done", UNCHANGED <<rxOpen, mainTx, returned>>,
           DOMAIN wpc' = Worker /\ DOMAIN buf' = Worker /\ DOMAIN outbox' = Worker,
           \A v \in Worker : v # w => wpc'[v] = wpc[v] /\ buf'[v] = buf[v] /\ outbox'[v] = outbox[v],
           WorkerShape(w)'
    PROVE  /\ \A v \in Worker' : WorkerShape(v)'
           /\ (mainTx \/ AllDone)'
<1>1. Worker' = Worker
  BY DEF Worker, NWorkers
<1>2. \A v \in Worker : WorkerShape(v)'
  BY DEF Shapes, WorkerShape
<1>3. mainTx'
  BY DEF Shapes, AllDone
<1> QED
  BY <1>1, <1>2, <1>3

\* A visitor call keeps the types and shapes.
LEMMA VisitTypes ==
    ASSUME TypeOK, Shapes, setup' = setup, NEW w \in Worker,
           VisitShutdown(w) \/ VisitSkip(w) \/ VisitMatch(w) \/ Leave(w)
    PROVE  TypeOK' /\ Shapes'
<1>1. Worker' = Worker
  BY DEF Worker, NWorkers
<1>2. wpc[w] = "walk" /\ outbox[w] = <<>> /\ buf[w] \in Seq(Entry)
      /\ DOMAIN wpc = Worker /\ DOMAIN buf = Worker /\ DOMAIN outbox = Worker
  BY DEF TypeOK, Shapes, WorkerShape, VisitShutdown, VisitSkip, VisitMatch, Leave
<1>3. UNCHANGED <<chan, batch, out, failed, written, ppc, rxOpen, mainTx, returned, closed>>
  BY DEF VisitShutdown, VisitSkip, VisitMatch, Leave
<1>4. CASE VisitShutdown(w) \/ VisitSkip(w) \/ Leave(w)
  <2>1. UNCHANGED <<buf, outbox, accepted>> /\ rest' \subseteq rest /\ quit' \in BOOLEAN
        /\ (shutdown' = shutdown) /\ DOMAIN wpc' = Worker
        /\ wpc'[w] \in {"walk", "drop"} /\ \A v \in Worker : v # w => wpc'[v] = wpc[v]
    BY <1>2, <1>4 DEF VisitShutdown, VisitSkip, Leave, TypeOK
  <2>2. wpc' \in [Worker -> {"walk", "send", "drop", "tail", "done"}]
    BY <1>2, <1>4 DEF VisitShutdown, VisitSkip, Leave, TypeOK
  <2>3. TypeOK'
    BY <1>1, <1>3, <2>1, <2>2 DEF TypeOK
  <2>4. WorkerShape(w)'
    BY <1>2, <2>1 DEF WorkerShape
  <2>5. (\A v \in Worker' : WorkerShape(v)') /\ (mainTx \/ AllDone)'
    BY <1>2, <1>3, <2>1, <2>4, WorkerTypes
  <2> QED
    BY <1>3, <2>3, <2>5 DEF Shapes
<1>5. CASE VisitMatch(w)
  <2>0. PICK e \in rest \cap Matching :
         LET b == Append(buf[w], e) IN
         /\ rest' = rest \ {e}
         /\ accepted' = accepted \cup {e}
         /\ IF Len(b) >= BatchSize
            THEN /\ buf' = [buf EXCEPT ![w] = <<>>]
                 /\ outbox' = [outbox EXCEPT ![w] = b]
                 /\ wpc' = [wpc EXCEPT ![w] = "send"]
            ELSE buf' = [buf EXCEPT ![w] = b] /\ UNCHANGED <<outbox, wpc>>
    BY <1>5 DEF VisitMatch
  <2> DEFINE b == Append(buf[w], e)
  <2>1. e \in Entry /\ rest' = rest \ {e} /\ accepted' = accepted \cup {e}
    BY <2>0 DEF TypeOK
  <2>2. b \in Seq(Entry) /\ b # <<>> /\ Len(b) \in Nat
    BY <1>2, <2>1, AppendFacts
  <2>3. UNCHANGED <<shutdown, quit>>
    BY <1>5 DEF VisitMatch
  <2> HIDE DEF b
  <2>4. \/ /\ buf' = [buf EXCEPT ![w] = <<>>]
           /\ outbox' = [outbox EXCEPT ![w] = b]
           /\ wpc' = [wpc EXCEPT ![w] = "send"]
        \/ buf' = [buf EXCEPT ![w] = b] /\ UNCHANGED <<outbox, wpc>> /\ Len(b) < BatchSize
    BY <2>0, <2>2, OutputAssumption DEF b
  <2>5. /\ buf' \in [Worker -> Seq(Entry)] /\ outbox' \in [Worker -> Seq(Entry)]
        /\ wpc' \in [Worker -> {"walk", "send", "drop", "tail", "done"}]
    <3>1. /\ buf \in [Worker -> Seq(Entry)] /\ outbox \in [Worker -> Seq(Entry)]
          /\ wpc \in [Worker -> {"walk", "send", "drop", "tail", "done"}]
          /\ <<>> \in Seq(Entry)
      BY DEF TypeOK
    <3> QED
      BY <2>2, <2>4, <3>1
  <2>6. \A v \in Worker : Len(buf'[v]) < BatchSize
    <3>1. \A v \in Worker : Len(buf[v]) < BatchSize
      BY DEF TypeOK
    <3>2. Len(<<>>) < BatchSize
      BY OutputAssumption
    <3> QED
      BY <1>2, <2>4, <3>1, <3>2
  <2>7. TypeOK'
    BY <1>1, <1>3, <2>1, <2>3, <2>5, <2>6 DEF TypeOK
  <2>8. WorkerShape(w)'
    BY <1>2, <2>2, <2>4 DEF WorkerShape
  <2>9. \A v \in Worker : v # w => wpc'[v] = wpc[v] /\ buf'[v] = buf[v] /\ outbox'[v] = outbox[v]
    BY <1>2, <2>4
  <2>10. (\A v \in Worker' : WorkerShape(v)') /\ (mainTx \/ AllDone)'
    <3>1. DOMAIN wpc' = Worker /\ DOMAIN buf' = Worker /\ DOMAIN outbox' = Worker
      BY <2>5
    <3> QED
      BY <1>2, <1>3, <2>8, <2>9, <3>1, WorkerTypes
  <2> QED
    BY <1>3, <2>7, <2>10 DEF Shapes
<1> QED
  BY <1>4, <1>5

\* So do leaving the walk and dropping the sender.
LEMMA DropTypes ==
    ASSUME TypeOK, Shapes, setup' = setup, NEW w \in Worker, DropSender(w)
    PROVE  TypeOK' /\ Shapes'
<1>1. Worker' = Worker
  BY DEF Worker, NWorkers
<1>2. wpc[w] = "drop" /\ buf[w] \in Seq(Entry)
      /\ DOMAIN wpc = Worker /\ DOMAIN buf = Worker /\ DOMAIN outbox = Worker
  BY DEF TypeOK, DropSender
<1>3. /\ UNCHANGED <<chan, batch, out, failed, written, ppc, rxOpen, mainTx, returned>>
      /\ UNCHANGED <<rest, shutdown, quit, closed, accepted>>
      /\ wpc' = [wpc EXCEPT ![w] = IF buf[w] = <<>> THEN "done" ELSE "tail"]
      /\ outbox' = [outbox EXCEPT ![w] = buf[w]]
      /\ buf' = [buf EXCEPT ![w] = <<>>]
  BY DEF DropSender
<1>4. /\ buf' \in [Worker -> Seq(Entry)] /\ outbox' \in [Worker -> Seq(Entry)]
      /\ wpc' \in [Worker -> {"walk", "send", "drop", "tail", "done"}]
  <2>1. /\ buf \in [Worker -> Seq(Entry)] /\ outbox \in [Worker -> Seq(Entry)]
        /\ wpc \in [Worker -> {"walk", "send", "drop", "tail", "done"}]
        /\ <<>> \in Seq(Entry)
    BY DEF TypeOK
  <2> QED
    BY <1>2, <1>3, <2>1
<1>5. \A v \in Worker : Len(buf'[v]) < BatchSize
  <2>1. \A v \in Worker : Len(buf[v]) < BatchSize
    BY DEF TypeOK
  <2>2. Len(<<>>) < BatchSize
    BY OutputAssumption
  <2> QED
    BY <1>2, <1>3, <2>1, <2>2
<1>6. TypeOK'
  BY <1>1, <1>3, <1>4, <1>5 DEF TypeOK
<1>7. WorkerShape(w)'
  BY <1>2, <1>3 DEF WorkerShape
<1>8. /\ \A v \in Worker : v # w => wpc'[v] = wpc[v] /\ buf'[v] = buf[v] /\ outbox'[v] = outbox[v]
      /\ DOMAIN wpc' = Worker /\ DOMAIN buf' = Worker /\ DOMAIN outbox' = Worker
  BY <1>2, <1>3
<1>9. (\A v \in Worker' : WorkerShape(v)') /\ (mainTx \/ AllDone)'
  BY <1>2, <1>3, <1>7, <1>8, WorkerTypes
<1> QED
  BY <1>3, <1>6, <1>9 DEF Shapes

\* A batch leaves its worker: into the channel, into the print thread's hands or,
\* when there is no receiver, into nothing.
LEMMA SendTypes ==
    ASSUME TypeOK, Shapes, setup' = setup, NEW w \in Worker,
           Send(w) \/ Rendezvous(w) \/ SendFails(w)
    PROVE  TypeOK' /\ Shapes'
<1>1. Worker' = Worker
  BY DEF Worker, NWorkers
<1>2. wpc[w] \in {"send", "tail"} /\ outbox[w] \in Seq(Entry) /\ outbox[w] # <<>> /\ buf[w] = <<>>
      /\ DOMAIN wpc = Worker /\ DOMAIN buf = Worker /\ DOMAIN outbox = Worker
  BY DEF TypeOK, Shapes, WorkerShape, Send, Rendezvous, SendFails
<1>3. /\ UNCHANGED <<out, failed, written, rxOpen, mainTx, returned>>
      /\ UNCHANGED <<rest, shutdown, accepted, buf>>
      /\ outbox' = [outbox EXCEPT ![w] = <<>>]
      /\ quit' \in BOOLEAN /\ closed' \in [Worker -> BOOLEAN]
      /\ wpc' \in [Worker -> {"walk", "send", "drop", "tail", "done"}]
      /\ wpc'[w] \in {"walk", "drop", "done"} /\ \A v \in Worker : v # w => wpc'[v] = wpc[v]
  <2>1. /\ wpc \in [Worker -> {"walk", "send", "drop", "tail", "done"}]
        /\ closed \in [Worker -> BOOLEAN] /\ quit \in BOOLEAN
    BY DEF TypeOK
  <2>2. CASE Send(w) \/ Rendezvous(w)
    BY <1>2, <2>1, <2>2 DEF Send, Rendezvous, Sent
  <2>3. CASE SendFails(w)
    BY <1>2, <2>1, <2>3 DEF SendFails
  <2> QED
    BY <2>2, <2>3
<1>4. outbox' \in [Worker -> Seq(Entry)]
  <2>1. outbox \in [Worker -> Seq(Entry)] /\ <<>> \in Seq(Entry)
    BY DEF TypeOK
  <2> QED
    BY <1>3, <2>1
<1>5. /\ chan' \in Seq(Seq(Entry)) /\ batch' \in Seq(Entry)
      /\ ppc' \in {"recv", "write", "flush", "end"}
      /\ \A i \in DOMAIN chan' : chan'[i] # <<>>
      /\ ppc' = "write" <=> batch' # <<>>
      /\ ppc' \in {"flush", "end"} <=> ~rxOpen
      /\ rxOpen \/ chan' = <<>>
  <2>1. /\ chan \in Seq(Seq(Entry)) /\ batch \in Seq(Entry)
        /\ ppc \in {"recv", "write", "flush", "end"}
        /\ \A i \in DOMAIN chan : chan[i] # <<>>
        /\ ppc = "write" <=> batch # <<>>
        /\ ppc \in {"flush", "end"} <=> ~rxOpen
        /\ rxOpen \/ chan = <<>>
    BY DEF TypeOK, Shapes
  <2>2. CASE Send(w)
    <3>1. chan' = Append(chan, outbox[w]) /\ rxOpen /\ UNCHANGED <<batch, ppc>>
      BY <2>2 DEF Send
    <3>2. chan' \in Seq(Seq(Entry)) /\ \A i \in DOMAIN chan' : chan'[i] # <<>>
      BY <1>2, <2>1, <3>1, AppendFacts
    <3> QED
      BY <2>1, <3>1, <3>2
  <2>3. CASE Rendezvous(w)
    BY <1>2, <2>1, <2>3 DEF Rendezvous
  <2>4. CASE SendFails(w)
    BY <1>2, <2>1, <2>4 DEF SendFails
  <2> QED
    BY <2>2, <2>3, <2>4
<1>6. TypeOK'
  BY <1>1, <1>3, <1>4, <1>5 DEF TypeOK
<1>7. WorkerShape(w)'
  BY <1>2, <1>3 DEF WorkerShape
<1>8. /\ \A v \in Worker : v # w => wpc'[v] = wpc[v] /\ buf'[v] = buf[v] /\ outbox'[v] = outbox[v]
      /\ DOMAIN wpc' = Worker /\ DOMAIN buf' = Worker /\ DOMAIN outbox' = Worker
  BY <1>2, <1>3
<1>9. (\A v \in Worker' : WorkerShape(v)') /\ (mainTx \/ AllDone)'
  BY <1>2, <1>3, <1>7, <1>8, WorkerTypes
<1>10. returned' => ppc' = "end" /\ ~mainTx'
  <2>1. ~returned
    BY <1>2 DEF Shapes, AllDone
  <2> QED
    BY <1>3, <2>1
<1> QED
  BY <1>3, <1>5, <1>6, <1>9, <1>10 DEF Shapes

\* So does the print thread.
LEMMA PrintTypes ==
    ASSUME TypeOK, Shapes, setup' = setup, Recv \/ Write
    PROVE  TypeOK' /\ Shapes'
<1>1. Worker' = Worker
  BY DEF Worker, NWorkers
<1>2. /\ UNCHANGED <<rest, quit, wpc, buf, outbox, closed, accepted, shutdown, mainTx, returned>>
      /\ ~returned
  BY DEF Recv, Write, Shapes
<1>3. /\ chan \in Seq(Seq(Entry)) /\ batch \in Seq(Entry) /\ out \in Seq(Entry)
      /\ failed \subseteq Entry /\ written \in Nat /\ rxOpen
      /\ \A i \in DOMAIN chan : chan[i] # <<>>
  BY DEF TypeOK, Shapes, Recv, Write
<1>4. /\ chan' \in Seq(Seq(Entry)) /\ batch' \in Seq(Entry) /\ out' \in Seq(Entry)
      /\ failed' \subseteq Entry /\ written' \in Nat /\ rxOpen' \in BOOLEAN
      /\ ppc' \in {"recv", "write", "flush", "end"}
      /\ \A i \in DOMAIN chan' : chan'[i] # <<>>
      /\ ppc' = "write" <=> batch' # <<>>
      /\ ppc' \in {"flush", "end"} <=> ~rxOpen'
      /\ rxOpen' \/ chan' = <<>>
  <2>1. CASE Recv
    <3>1. /\ chan # <<>> /\ batch' = Head(chan) /\ chan' = Tail(chan) /\ ppc' = "write"
          /\ UNCHANGED <<written, out, failed, rxOpen>>
      BY <2>1 DEF Recv
    <3>2. batch' \in Seq(Entry) /\ chan' \in Seq(Seq(Entry)) /\ batch' # <<>>
          /\ \A i \in DOMAIN chan' : chan'[i] # <<>>
      BY <1>3, <3>1, TailFacts
    <3> QED
      BY <1>3, <3>1, <3>2
  <2>2. CASE Write
    <3>1. batch # <<>>
      BY <2>2 DEF Write, Shapes
    <3>2. Head(batch) \in Entry /\ Tail(batch) \in Seq(Entry) /\ (Tail(batch) = <<>> <=> Len(batch) = 1)
      BY <1>3, <3>1, TailFacts
    <3>3. out' \in Seq(Entry) /\ failed' \subseteq Entry /\ written' \in Nat
      <4>1. Append(out, Head(batch)) \in Seq(Entry)
        BY <1>3, <3>2, AppendFacts
      <4>2. /\ out' = Append(out, Head(batch)) \/ out' = out
            /\ failed' = failed \cup {Head(batch)} \/ failed' = failed
            /\ written' = written + 1
        BY <2>2 DEF Write
      <4>3. out' \in Seq(Entry)
        BY <1>3, <4>1, <4>2
      <4>4. failed' \subseteq Entry
        BY <1>3, <3>2, <4>2
      <4>5. written' \in Nat
        BY <1>3, <4>2
      <4> QED
        BY <4>3, <4>4, <4>5
    <3>4. CASE CapReached(written + 1)
      <4>1. ppc' = "flush" /\ rxOpen' = FALSE /\ batch' = <<>> /\ chan' = <<>>
        BY <2>2, <3>4 DEF Write
      <4> QED
        BY <3>3, <4>1, EmptyFacts
    <3>5. CASE ~CapReached(written + 1)
      <4>1. /\ ppc' = IF Len(batch) = 1 THEN "recv" ELSE "write"
            /\ batch' = Tail(batch) /\ UNCHANGED <<chan, rxOpen>>
        BY <2>2, <3>5 DEF Write
      <4> QED
        BY <1>3, <3>2, <3>3, <4>1
    <3> QED
      BY <3>4, <3>5
  <2> QED
    BY <2>1, <2>2
<1>5. TypeOK'
  BY <1>1, <1>2, <1>4 DEF TypeOK
<1>6. /\ \A w \in Worker : WorkerShape(w)' <=> WorkerShape(w)
      /\ AllDone' <=> AllDone
  BY <1>1, <1>2 DEF WorkerShape, AllDone
<1> QED
  BY <1>1, <1>2, <1>4, <1>5, <1>6 DEF Shapes

\* So does every step.
LEMMA TypeStep == TypeOK /\ Shapes /\ [Next]_vars => TypeOK' /\ Shapes'
<1> SUFFICES ASSUME TypeOK, Shapes, [Next]_vars PROVE TypeOK' /\ Shapes'
  OBVIOUS
<1>1. setup' = setup
  BY SetupFixed
<1>2. CASE Signal \/ MainStep \/ Returned \/ Flush \/ RecvClosed \/ UNCHANGED vars
  BY <1>1, <1>2, QuietTypes
<1>3. CASE Recv \/ Write
  BY <1>1, <1>3, PrintTypes
<1>4. ASSUME NEW w \in Worker, WorkerStep(w) PROVE TypeOK' /\ Shapes'
  BY <1>1, <1>4, VisitTypes, DropTypes, SendTypes DEF WorkerStep
<1> QED
  BY <1>2, <1>3, <1>4 DEF Next, PrintStep

\* The pipeline keeps its types; no batch outgrows BATCH_SIZE, and the print
\* thread never takes the first entry of an empty batch.
THEOREM TypeCorrect == Spec => []TypeOK
<1>1. Spec => [](TypeOK /\ Shapes)
  BY InitTypes, TypeStep, PTL DEF Spec
<1> QED
  BY <1>1, PTL

-----------------------------------------------------------------------------
(* No entry is lost or duplicated                                          *)

Placed == Apart /\ Accounts

\* The entries in flight are those held, queued and being written.
LEMMA InFlightIs == InFlight = Held \cup Queued \cup Range(batch)
<1>1. \A w \in Worker : HeldBy(w) = Range(buf[w]) \cup Range(outbox[w])
  BY DEF HeldBy
<1>2. Held = UNION {Range(buf[w]) \cup Range(outbox[w]) : w \in Worker}
  BY <1>1 DEF Held
<1> QED
  BY <1>2 DEF InFlight, Queued

\* What one worker holds is held.
LEMMA HeldIn == \A w \in Worker : HeldBy(w) \subseteq Held
  BY DEF Held

\* The effect of one worker's step on what all of them hold.
LEMMA HeldChange ==
    ASSUME NEW w \in Worker, Worker' = Worker, Apart,
           \A v \in Worker : v # w => HeldBy(v)' = HeldBy(v)
    PROVE  Held' = (Held \ HeldBy(w)) \cup HeldBy(w)'
<1>1. Held' = UNION {HeldBy(v)' : v \in Worker}
  BY DEF Held
<1>2. \A v \in Worker : v # w => HeldBy(v) \cap HeldBy(w) = {}
  BY DEF Apart
<1> HIDE DEF HeldBy
<1>3. ASSUME NEW x \in Held' PROVE x \in (Held \ HeldBy(w)) \cup HeldBy(w)'
  <2>1. PICK v \in Worker : x \in HeldBy(v)'
    BY <1>1, <1>3
  <2> QED
    BY <1>2, <2>1 DEF Held
<1>4. ASSUME NEW x \in (Held \ HeldBy(w)) \cup HeldBy(w)' PROVE x \in Held'
  <2>1. CASE x \in HeldBy(w)'
    BY <1>1, <2>1
  <2>2. CASE x \in Held \ HeldBy(w)
    <3>1. PICK v \in Worker : x \in HeldBy(v)
      BY <2>2 DEF Held
    <3> QED
      BY <1>1, <2>2, <3>1
  <2> QED
    BY <1>4, <2>1, <2>2
<1> QED
  BY <1>3, <1>4

\* The steps that move no entry.
LEMMA QuietPlaced ==
    ASSUME Placed, Worker' = Worker, rest' \subseteq rest, rxOpen' => rxOpen,
           UNCHANGED <<buf, outbox, chan, batch, out, failed, accepted>>
    PROVE  Placed'
<1>1. \A w \in Worker : HeldBy(w)' = HeldBy(w)
  BY DEF HeldBy
<1>2. Held' = Held
  BY <1>1 DEF Held
<1>3. Queued' = Queued /\ Settled' = Settled
  BY DEF Queued, Settled
<1>4. Apart'
  BY <1>1, <1>2, <1>3 DEF Placed, Apart
<1>5. Accounts'
  BY <1>2, <1>3 DEF Placed, Accounts
<1> QED
  BY <1>4, <1>5 DEF Placed

\* push: the new entry is in no place yet.
LEMMA MatchPlaced ==
    ASSUME TypeOK, Shapes, Placed, setup' = setup, NEW w \in Worker, VisitMatch(w)
    PROVE  Placed'
<1>1. Worker' = Worker
  BY DEF Worker, NWorkers
<1>2. wpc[w] = "walk" /\ outbox[w] = <<>> /\ buf[w] \in Seq(Entry)
      /\ DOMAIN buf = Worker /\ DOMAIN outbox = Worker
  BY DEF TypeOK, Shapes, WorkerShape, VisitMatch
<1>3. UNCHANGED <<chan, batch, out, failed, rxOpen>>
  BY DEF VisitMatch
<1>4. PICK e \in rest \cap Matching :
         LET b == Append(buf[w], e) IN
         /\ rest' = rest \ {e}
         /\ accepted' = accepted \cup {e}
         /\ IF Len(b) >= BatchSize
            THEN /\ buf' = [buf EXCEPT ![w] = <<>>]
                 /\ outbox' = [outbox EXCEPT ![w] = b]
                 /\ wpc' = [wpc EXCEPT ![w] = "send"]
            ELSE buf' = [buf EXCEPT ![w] = b] /\ UNCHANGED <<outbox, wpc>>
  BY DEF VisitMatch
<1> DEFINE b == Append(buf[w], e)
<1>5. e \in Entry /\ rest' = rest \ {e} /\ accepted' = accepted \cup {e} /\ e \notin accepted
  BY <1>4 DEF TypeOK, Placed, Accounts
<1>6. e \notin Held /\ e \notin Queued /\ e \notin Range(batch) /\ e \notin Settled
      /\ e \notin HeldBy(w) /\ e \notin Range(buf[w])
  <2>1. Held \cup Queued \cup Range(batch) \cup Settled \subseteq accepted
    BY DEF Placed, Accounts
  <2>2. Range(buf[w]) \subseteq HeldBy(w) /\ HeldBy(w) \subseteq Held
    BY HeldIn DEF HeldBy
  <2> QED
    BY <1>5, <2>1, <2>2
<1>7. IsInjective(b) /\ Range(b) = Range(buf[w]) \cup {e}
  <2>1. IsInjective(buf[w])
    BY DEF Placed, Apart
  <2> QED
    BY <1>2, <1>5, <1>6, <2>1, AppendFacts
<1> HIDE DEF b
<1>8. \/ buf' = [buf EXCEPT ![w] = <<>>] /\ outbox' = [outbox EXCEPT ![w] = b]
      \/ buf' = [buf EXCEPT ![w] = b] /\ outbox' = outbox
  BY <1>4 DEF b
<1>9. /\ \A v \in Worker : v # w => buf'[v] = buf[v] /\ outbox'[v] = outbox[v]
      /\ \/ buf'[w] = <<>> /\ outbox'[w] = b
         \/ buf'[w] = b /\ outbox'[w] = <<>>
  BY <1>2, <1>8
<1>10. HeldBy(w) = Range(buf[w]) /\ HeldBy(w)' = HeldBy(w) \cup {e}
  BY <1>2, <1>7, <1>9, EmptyFacts DEF HeldBy
<1>11. \A v \in Worker : v # w => HeldBy(v)' = HeldBy(v)
  BY <1>9 DEF HeldBy
<1>12. Held' = Held \cup {e}
  <2>1. Held' = (Held \ HeldBy(w)) \cup HeldBy(w)'
    BY <1>1, <1>11, HeldChange DEF Placed
  <2> QED
    BY <1>10, <2>1, HeldIn
<1>13. Queued' = Queued /\ Settled' = Settled
  BY <1>3 DEF Queued, Settled
<1>14. \A v \in Worker : IsInjective(buf[v])' /\ IsInjective(outbox[v])'
  <2>1. \A v \in Worker : IsInjective(buf[v]) /\ IsInjective(outbox[v])
    BY DEF Placed, Apart
  <2>2. IsInjective(buf'[w]) /\ IsInjective(outbox'[w])
    BY <1>7, <1>9, EmptyFacts
  <2> QED
    BY <1>9, <2>1, <2>2
<1>15. \A u, v \in Worker : u # v => HeldBy(u)' \cap HeldBy(v)' = {}
  <2>1. \A u, v \in Worker : u # v => HeldBy(u) \cap HeldBy(v) = {}
    BY DEF Placed, Apart
  <2>2. \A v \in Worker : e \notin HeldBy(v)
    BY <1>6, HeldIn
  <2> QED
    BY <1>10, <1>11, <2>1, <2>2
<1>16. Apart'
  <2>1. /\ Held \cap Queued = {} /\ Held \cap Range(batch) = {} /\ Queued \cap Range(batch) = {}
        /\ (Held \cup Queued \cup Range(batch)) \cap Settled = {}
    BY DEF Placed, Apart
  <2>2. /\ Held' \cap Queued' = {} /\ Held' \cap Range(batch') = {}
        /\ Queued' \cap Range(batch') = {}
        /\ (Held' \cup Queued' \cup Range(batch')) \cap Settled' = {}
    BY <1>3, <1>6, <1>12, <1>13, <2>1
  <2>3. /\ \A i \in DOMAIN chan' : IsInjective(chan'[i])
        /\ IsInjective(batch') /\ IsInjective(out')
        /\ \A i, j \in DOMAIN chan' : i # j => Range(chan'[i]) \cap Range(chan'[j]) = {}
        /\ Range(out') \cap failed' = {}
    BY <1>3 DEF Placed, Apart
  <2> QED
    BY <1>1, <1>14, <1>15, <2>2, <2>3 DEF Apart
<1>17. Accounts'
  <2>1. e \in Matching
    BY <1>4
  <2> QED
    BY <1>3, <1>5, <1>12, <1>13, <2>1 DEF Placed, Accounts
<1> QED
  BY <1>16, <1>17 DEF Placed

\* Drop: the tail moves from the buffer into the batch to send.
LEMMA DropPlaced ==
    ASSUME TypeOK, Shapes, Placed, setup' = setup, NEW w \in Worker, DropSender(w)
    PROVE  Placed'
<1>1. Worker' = Worker
  BY DEF Worker, NWorkers
<1>2. outbox[w] = <<>> /\ DOMAIN buf = Worker /\ DOMAIN outbox = Worker
  BY DEF TypeOK, Shapes, WorkerShape, DropSender
<1>3. /\ UNCHANGED <<rest, accepted, chan, batch, out, failed, rxOpen>>
      /\ outbox' = [outbox EXCEPT ![w] = buf[w]] /\ buf' = [buf EXCEPT ![w] = <<>>]
  BY DEF DropSender
<1>4. \A v \in Worker : HeldBy(v)' = HeldBy(v)
  BY <1>2, <1>3 DEF HeldBy
<1>5. Held' = Held
  BY <1>1, <1>4 DEF Held
<1>6. Queued' = Queued /\ Settled' = Settled
  BY <1>3 DEF Queued, Settled
<1>7. \A v \in Worker : IsInjective(buf'[v]) /\ IsInjective(outbox'[v])
  <2>1. \A v \in Worker : IsInjective(buf[v]) /\ IsInjective(outbox[v])
    BY DEF Placed, Apart
  <2> QED
    BY <1>2, <1>3, <2>1, EmptyFacts
<1>8. Apart'
  BY <1>1, <1>3, <1>4, <1>5, <1>6, <1>7 DEF Placed, Apart
<1>9. Accounts'
  BY <1>3, <1>5, <1>6 DEF Placed, Accounts
<1> QED
  BY <1>8, <1>9 DEF Placed

\* send: the batch moves as one, or is lost when the receiver is gone.
LEMMA SendPlaced ==
    ASSUME TypeOK, Shapes, Placed, setup' = setup, NEW w \in Worker,
           Send(w) \/ Rendezvous(w) \/ SendFails(w)
    PROVE  Placed'
<1>1. Worker' = Worker
  BY DEF Worker, NWorkers
<1>2. buf[w] = <<>> /\ outbox[w] \in Seq(Entry) /\ DOMAIN buf = Worker /\ DOMAIN outbox = Worker
  BY DEF TypeOK, Shapes, WorkerShape, Send, Rendezvous, SendFails
<1>3. /\ UNCHANGED <<rest, accepted, buf, out, failed, rxOpen>>
      /\ outbox' = [outbox EXCEPT ![w] = <<>>]
  BY DEF Send, Rendezvous, SendFails, Sent
<1>4. /\ \A v \in Worker : v # w => buf'[v] = buf[v] /\ outbox'[v] = outbox[v]
      /\ buf'[w] = <<>> /\ outbox'[w] = <<>>
  BY <1>2, <1>3
<1>5. HeldBy(w) = Range(outbox[w]) /\ HeldBy(w)' = {}
  BY <1>2, <1>4, EmptyFacts DEF HeldBy
<1>6. \A v \in Worker : v # w => HeldBy(v)' = HeldBy(v)
  BY <1>4 DEF HeldBy
<1>7. Held' = Held \ HeldBy(w)
  BY <1>1, <1>5, <1>6, HeldChange DEF Placed
<1>8. Settled' = Settled /\ HeldBy(w) \subseteq Held
  BY <1>3, HeldIn DEF Settled
<1>9. /\ \A v \in Worker : IsInjective(buf'[v]) /\ IsInjective(outbox'[v])
      /\ IsInjective(outbox[w])
  <2>1. \A v \in Worker : IsInjective(buf[v]) /\ IsInjective(outbox[v])
    BY DEF Placed, Apart
  <2> QED
    BY <1>4, <2>1, EmptyFacts
<1>10. \A u, v \in Worker : u # v => HeldBy(u)' \cap HeldBy(v)' = {}
  <2>1. \A u, v \in Worker : u # v => HeldBy(u) \cap HeldBy(v) = {}
    BY DEF Placed, Apart
  <2> QED
    BY <1>5, <1>6, <2>1
<1>11. /\ Held \cap Queued = {} /\ Held \cap Range(batch) = {} /\ Queued \cap Range(batch) = {}
       /\ (Held \cup Queued \cup Range(batch)) \cap Settled = {}
       /\ \A i \in DOMAIN chan : IsInjective(chan[i])
       /\ IsInjective(batch) /\ IsInjective(out)
       /\ \A i, j \in DOMAIN chan : i # j => Range(chan[i]) \cap Range(chan[j]) = {}
       /\ Range(out) \cap failed = {}
  BY DEF Placed, Apart
<1>12. CASE Send(w)
  <2>1. chan' = Append(chan, outbox[w]) /\ batch' = batch /\ chan \in Seq(Seq(Entry))
    BY <1>12 DEF Send, TypeOK
  <2>2. /\ DOMAIN chan' = DOMAIN chan \cup {Len(chan) + 1} /\ Len(chan) + 1 \notin DOMAIN chan
        /\ \A i \in DOMAIN chan : chan'[i] = chan[i]
        /\ chan'[Len(chan) + 1] = outbox[w]
    BY <1>2, <2>1, AppendFacts
  <2>3. Queued' = Queued \cup HeldBy(w)
    <3>1. Queued' = UNION {Range(chan'[i]) : i \in DOMAIN chan'}
      BY DEF Queued
    <3> QED
      BY <1>5, <2>2, <3>1 DEF Queued
  <2>4. \A i \in DOMAIN chan : Range(chan[i]) \subseteq Queued
    BY DEF Queued
  <2>5. /\ \A i \in DOMAIN chan' : IsInjective(chan'[i])
        /\ \A i, j \in DOMAIN chan' : i # j => Range(chan'[i]) \cap Range(chan'[j]) = {}
    BY <1>5, <1>8, <1>9, <1>11, <2>2, <2>4
  <2>6. /\ Held' \cap Queued' = {} /\ Held' \cap Range(batch') = {} /\ Queued' \cap Range(batch') = {}
        /\ (Held' \cup Queued' \cup Range(batch')) \cap Settled' = {}
        /\ Held' \cup Queued' \cup Range(batch') = Held \cup Queued \cup Range(batch)
    BY <1>7, <1>8, <1>11, <2>1, <2>3
  <2>7. Apart'
    BY <1>1, <1>3, <1>9, <1>10, <1>11, <2>1, <2>5, <2>6 DEF Apart
  <2>8. Accounts'
    BY <1>3, <1>8, <2>6 DEF Placed, Accounts
  <2> QED
    BY <2>7, <2>8 DEF Placed
<1>13. CASE Rendezvous(w)
  <2>1. batch' = outbox[w] /\ chan' = chan /\ batch = <<>>
    BY <1>13 DEF Rendezvous, Shapes
  <2>2. Queued' = Queued /\ Range(batch) = {} /\ Range(batch') = HeldBy(w)
    BY <1>5, <2>1, EmptyFacts DEF Queued
  <2>3. /\ Held' \cap Queued' = {} /\ Held' \cap Range(batch') = {} /\ Queued' \cap Range(batch') = {}
        /\ (Held' \cup Queued' \cup Range(batch')) \cap Settled' = {}
        /\ Held' \cup Queued' \cup Range(batch') = Held \cup Queued \cup Range(batch)
    BY <1>7, <1>8, <1>11, <2>2
  <2>4. Apart'
    BY <1>1, <1>3, <1>9, <1>10, <1>11, <2>1, <2>3 DEF Apart
  <2>5. Accounts'
    BY <1>3, <1>8, <2>3 DEF Placed, Accounts
  <2> QED
    BY <2>4, <2>5 DEF Placed
<1>14. CASE SendFails(w)
  <2>1. UNCHANGED <<batch, chan>> /\ ~rxOpen
    BY <1>14 DEF SendFails
  <2>2. Queued' = Queued
    BY <2>1 DEF Queued
  <2>3. /\ Held' \cap Queued' = {} /\ Held' \cap Range(batch') = {} /\ Queued' \cap Range(batch') = {}
        /\ (Held' \cup Queued' \cup Range(batch')) \cap Settled' = {}
        /\ Held' \cup Queued' \cup Range(batch') \subseteq Held \cup Queued \cup Range(batch)
    BY <1>7, <1>8, <1>11, <2>1, <2>2
  <2>4. Apart'
    BY <1>1, <1>3, <1>9, <1>10, <1>11, <2>1, <2>3 DEF Apart
  <2>5. Accounts'
    BY <1>3, <1>8, <2>1, <2>3 DEF Placed, Accounts
  <2> QED
    BY <2>4, <2>5 DEF Placed
<1> QED
  BY <1>12, <1>13, <1>14

\* The print thread takes the oldest batch.
LEMMA RecvPlaced ==
    ASSUME TypeOK, Shapes, Placed, setup' = setup, Recv
    PROVE  Placed'
<1>1. Worker' = Worker
  BY DEF Worker, NWorkers
<1>2. /\ chan # <<>> /\ chan \in Seq(Seq(Entry)) /\ batch = <<>>
      /\ batch' = Head(chan) /\ chan' = Tail(chan)
      /\ UNCHANGED <<rest, accepted, buf, outbox, out, failed, rxOpen>>
  BY DEF Recv, Shapes, TypeOK
<1>3. \A w \in Worker : HeldBy(w)' = HeldBy(w)
  BY <1>2 DEF HeldBy
<1>4. Held' = Held /\ Settled' = Settled
  BY <1>1, <1>2, <1>3 DEF Held, Settled
<1>5. /\ DOMAIN chan = 1 .. Len(chan) /\ DOMAIN chan' = 1 .. Len(chan) - 1
      /\ Len(chan) \in Nat \ {0} /\ batch' = chan[1]
      /\ \A i \in DOMAIN chan' : i + 1 \in DOMAIN chan /\ chan'[i] = chan[i + 1]
  BY <1>2, TailFacts
<1>6. /\ \A i \in DOMAIN chan : IsInjective(chan[i])
      /\ \A i, j \in DOMAIN chan : i # j => Range(chan[i]) \cap Range(chan[j]) = {}
  BY DEF Placed, Apart
<1>7. /\ \A i \in DOMAIN chan' : IsInjective(chan'[i])
      /\ \A i, j \in DOMAIN chan' : i # j => Range(chan'[i]) \cap Range(chan'[j]) = {}
      /\ \A i \in DOMAIN chan' : Range(chan'[i]) \cap Range(batch') = {}
      /\ IsInjective(batch')
  <2>1. \A i, j \in DOMAIN chan' : i # j => i + 1 # j + 1
    BY <1>5
  <2>2. 1 \in DOMAIN chan /\ \A i \in DOMAIN chan' : i + 1 # 1
    BY <1>5
  <2> QED
    BY <1>5, <1>6, <2>1, <2>2
<1>8. Queued' = UNION {Range(chan'[i]) : i \in DOMAIN chan'}
  BY DEF Queued
<1>9. Queued = Queued' \cup Range(batch') /\ Queued' \cap Range(batch') = {} /\ Range(batch) = {}
  <2>1. ASSUME NEW x \in Queued PROVE x \in Queued' \cup Range(batch')
    <3>1. PICK i \in DOMAIN chan : x \in Range(chan[i])
      BY <2>1 DEF Queued
    <3>2. CASE i = 1
      BY <1>5, <3>1, <3>2
    <3>3. CASE i # 1
      <4>1. i - 1 \in DOMAIN chan' /\ (i - 1) + 1 = i
        BY <1>5, <3>3
      <4>2. chan'[i - 1] = chan[i]
        BY <1>5, <4>1
      <4> QED
        BY <1>8, <3>1, <4>1, <4>2
    <3> QED
      BY <3>2, <3>3
  <2>2. ASSUME NEW x \in Queued' \cup Range(batch') PROVE x \in Queued
    <3>1. 1 \in DOMAIN chan
      BY <1>5
    <3> QED
      BY <1>5, <1>8, <2>2, <3>1 DEF Queued
  <2>3. Queued' \cap Range(batch') = {}
    BY <1>7, <1>8
  <2> QED
    BY <1>2, <2>1, <2>2, <2>3, EmptyFacts
<1>10. /\ Held' \cap Queued' = {} /\ Held' \cap Range(batch') = {}
       /\ (Held' \cup Queued' \cup Range(batch')) \cap Settled' = {}
       /\ Held' \cup Queued' \cup Range(batch') = Held \cup Queued \cup Range(batch)
  <2>1. Held \cap Queued = {} /\ (Held \cup Queued \cup Range(batch)) \cap Settled = {}
    BY DEF Placed, Apart
  <2> QED
    BY <1>4, <1>9, <2>1
<1>11. Apart'
  <2>1. /\ \A w \in Worker : IsInjective(buf'[w]) /\ IsInjective(outbox'[w])
        /\ IsInjective(out') /\ Range(out') \cap failed' = {}
        /\ \A v, w \in Worker : v # w => HeldBy(v)' \cap HeldBy(w)' = {}
    BY <1>2, <1>3 DEF Placed, Apart
  <2> QED
    BY <1>1, <1>7, <1>9, <1>10, <2>1 DEF Apart
<1>12. Accounts'
  BY <1>2, <1>4, <1>10 DEF Placed, Accounts
<1> QED
  BY <1>11, <1>12 DEF Placed

\* The head of the batch is settled; at the cap the rest of the pipe is dropped.
LEMMA WritePlaced ==
    ASSUME TypeOK, Shapes, Placed, setup' = setup, Write
    PROVE  /\ Placed'
           /\ Head(batch) \notin Settled /\ Settled' = Settled \cup {Head(batch)}
<1> DEFINE h == Head(batch)
<1>1. Worker' = Worker
  BY DEF Worker, NWorkers
<1>2. /\ batch # <<>> /\ batch \in Seq(Entry) /\ out \in Seq(Entry) /\ rxOpen
      /\ UNCHANGED <<rest, accepted, buf, outbox>>
  BY DEF Write, Shapes, TypeOK
<1>3. \A w \in Worker : HeldBy(w)' = HeldBy(w)
  BY <1>2 DEF HeldBy
<1>4. Held' = Held
  BY <1>1, <1>3 DEF Held
<1>5. /\ h \in Entry /\ Range(batch) = Range(Tail(batch)) \cup {h}
      /\ IsInjective(Tail(batch)) /\ h \notin Range(Tail(batch))
  <2>1. IsInjective(batch)
    BY DEF Placed, Apart
  <2> QED
    BY <1>2, <2>1, TailFacts
<1>6. \/ out' = Append(out, h) /\ failed' = failed
      \/ out' = out /\ failed' = failed \cup {h}
  BY DEF Write
<1>7. /\ Held \cap Queued = {} /\ Held \cap Range(batch) = {} /\ Queued \cap Range(batch) = {}
      /\ (Held \cup Queued \cup Range(batch)) \cap Settled = {}
      /\ IsInjective(out) /\ Range(out) \cap failed = {}
  BY DEF Placed, Apart
<1>8. h \notin Held /\ h \notin Queued /\ h \notin Settled
  BY <1>5, <1>7
<1>9. h \notin Range(out) /\ h \notin failed
  BY <1>8 DEF Settled
<1>10. /\ Range(Append(out, h)) = Range(out) \cup {h} /\ IsInjective(Append(out, h))
  BY <1>2, <1>5, <1>7, <1>9, AppendFacts
<1> HIDE DEF h
<1>11. /\ Settled' = Settled \cup {h} /\ IsInjective(out') /\ Range(out') \cap failed' = {}
  BY <1>6, <1>7, <1>9, <1>10 DEF Settled
<1>12. \/ chan' = chan /\ batch' = Tail(batch) /\ rxOpen' = rxOpen
       \/ chan' = <<>> /\ batch' = <<>> /\ rxOpen' = FALSE
  BY DEF Write
<1>13. /\ \A i \in DOMAIN chan' : IsInjective(chan'[i])
       /\ \A i, j \in DOMAIN chan' : i # j => Range(chan'[i]) \cap Range(chan'[j]) = {}
       /\ IsInjective(batch')
  <2>1. /\ \A i \in DOMAIN chan : IsInjective(chan[i])
        /\ \A i, j \in DOMAIN chan : i # j => Range(chan[i]) \cap Range(chan[j]) = {}
    BY DEF Placed, Apart
  <2> QED
    BY <1>5, <1>12, <2>1, EmptyFacts
<1>14. \/ Queued' = Queued /\ Range(batch') = Range(batch) \ {h} /\ rxOpen' = rxOpen
       \/ Queued' = {} /\ Range(batch') = {} /\ rxOpen' = FALSE
  <2>1. chan' = chan => Queued' = Queued
    BY DEF Queued
  <2>2. chan' = <<>> => Queued' = {}
    BY EmptyFacts DEF Queued
  <2> QED
    BY <1>5, <1>12, <2>1, <2>2, EmptyFacts
<1>15. /\ Held' \cap Queued' = {} /\ Held' \cap Range(batch') = {} /\ Queued' \cap Range(batch') = {}
       /\ (Held' \cup Queued' \cup Range(batch')) \cap Settled' = {}
  BY <1>4, <1>7, <1>8, <1>11, <1>14
<1>16. Apart'
  <2>1. /\ \A w \in Worker : IsInjective(buf'[w]) /\ IsInjective(outbox'[w])
        /\ \A v, w \in Worker : v # w => HeldBy(v)' \cap HeldBy(w)' = {}
    BY <1>2, <1>3 DEF Placed, Apart
  <2> QED
    BY <1>1, <1>11, <1>13, <1>15, <2>1 DEF Apart
<1>17. Accounts'
  <2>1. h \in Range(batch)
    BY <1>5
  <2>2. /\ rest \cap accepted = {} /\ accepted \subseteq Matching
        /\ accepted = Held \cup Queued \cup Range(batch) \cup Settled
    BY <1>2 DEF Placed, Accounts
  <2>3. Held' \cup Queued' \cup Range(batch') \cup Settled' \subseteq accepted
    BY <1>4, <1>11, <1>14, <2>1, <2>2
  <2>4. rxOpen' => accepted = Held' \cup Queued' \cup Range(batch') \cup Settled'
    BY <1>4, <1>11, <1>14, <2>1, <2>2
  <2> QED
    BY <1>2, <2>2, <2>3, <2>4 DEF Accounts
<1> QED
  BY <1>8, <1>11, <1>16, <1>17 DEF Placed, h

\* At the start no entry is anywhere.
LEMMA InitPlaced == Init => Placed
<1> SUFFICES ASSUME Init PROVE Placed
  OBVIOUS
<1>1. \A w \in Worker : buf[w] = <<>> /\ outbox[w] = <<>>
  BY DEF Init
<1>2. chan = <<>> /\ batch = <<>> /\ out = <<>> /\ failed = {} /\ accepted = {}
  BY DEF Init
<1>3. \A w \in Worker : HeldBy(w) = {}
  BY <1>1, EmptyFacts DEF HeldBy
<1>4. Held = {} /\ Queued = {} /\ Settled = {} /\ Range(batch) = {} /\ Range(out) = {}
  BY <1>2, <1>3, EmptyFacts DEF Held, Queued, Settled
<1>5. Apart
  BY <1>1, <1>2, <1>3, <1>4, EmptyFacts DEF Apart
<1>6. Accounts
  BY <1>2, <1>4 DEF Accounts
<1> QED
  BY <1>5, <1>6 DEF Placed

\* Every step keeps entries apart and accounted for.
LEMMA PlacedStep == TypeOK /\ Shapes /\ Placed /\ [Next]_vars => Placed'
<1> SUFFICES ASSUME TypeOK, Shapes, Placed, [Next]_vars PROVE Placed'
  OBVIOUS
<1>1. setup' = setup /\ Worker' = Worker
  BY SetupFixed DEF Worker, NWorkers
<1>2. CASE Signal \/ MainStep \/ Returned \/ Flush \/ RecvClosed \/ UNCHANGED vars
  <2>1. rest' \subseteq rest /\ (rxOpen' => rxOpen)
        /\ UNCHANGED <<buf, outbox, chan, batch, out, failed, accepted>>
    BY <1>2 DEF Signal, MainStep, DropTx, Join, Returned, Flush, RecvClosed, vars
  <2> QED
    BY <1>1, <2>1, QuietPlaced
<1>3. CASE Recv \/ Write
  BY <1>1, <1>3, RecvPlaced, WritePlaced
<1>4. ASSUME NEW w \in Worker, WorkerStep(w) PROVE Placed'
  <2>1. CASE VisitShutdown(w) \/ VisitSkip(w) \/ Leave(w)
    <3>1. rest' \subseteq rest /\ (rxOpen' => rxOpen)
          /\ UNCHANGED <<buf, outbox, chan, batch, out, failed, accepted>>
      BY <2>1 DEF VisitShutdown, VisitSkip, Leave
    <3> QED
      BY <1>1, <3>1, QuietPlaced
  <2>2. CASE VisitMatch(w)
    BY <1>1, <2>2, MatchPlaced
  <2>3. CASE DropSender(w)
    BY <1>1, <2>3, DropPlaced
  <2>4. CASE Send(w) \/ Rendezvous(w) \/ SendFails(w)
    BY <1>1, <2>4, SendPlaced
  <2> QED
    BY <1>4, <2>1, <2>2, <2>3, <2>4 DEF WorkerStep
<1> QED
  BY <1>2, <1>3, <1>4 DEF Next, PrintStep

\* While the receiver lives every accepted match is in a buffer, a blocked send,
\* the channel, the print thread's batch or the sink: push, the tail flush of
\* Drop and a full channel lose none, for any batch size and capacity.
THEOREM ConservedCorrect == Spec => []Conserved
<1>1. Spec => [](TypeOK /\ Shapes /\ Placed)
  BY InitTypes, TypeStep, InitPlaced, PlacedStep, PTL DEF Spec
<1>2. Placed => Conserved
  BY InFlightIs DEF Placed, Accounts, Conserved, Settled
<1> QED
  BY <1>1, <1>2, PTL

\* The sink sees no path twice and none a filter rejected, and an entry still in
\* the pipe was not printed before.
THEOREM NoDuplicatesCorrect == Spec => []NoDuplicates
<1>1. Spec => [](TypeOK /\ Shapes /\ Placed)
  BY InitTypes, TypeStep, InitPlaced, PlacedStep, PTL DEF Spec
<1>2. Placed => NoDuplicates
  BY InFlightIs DEF Placed, Apart, Accounts, NoDuplicates, Settled
<1> QED
  BY <1>1, <1>2, PTL

-----------------------------------------------------------------------------
(* What run has printed when it returns                                    *)

\* At the start nobody has stopped and nothing is counted.
LEMMA InitEnds == Init => Stops /\ Counts
<1> SUFFICES ASSUME Init PROVE Stops /\ Counts
  OBVIOUS
<1>1. Stops
  BY OutputAssumption DEF Init, Stops
<1>2. setup \in Setup /\ setup.maxResults \in Nat
  BY OutputAssumption DEF Init, Setup
<1>3. Settled = {} /\ written = 0 /\ out = <<>> /\ failed = {} /\ rxOpen
  BY EmptyFacts DEF Init, Settled
<1>4. Counts
  BY <1>2, <1>3, FS_EmptySet, EmptyFacts DEF Counts, CapReached
<1> QED
  BY <1>1, <1>4

\* Every step keeps the reasons for stopping.
LEMMA StopsStep == TypeOK /\ Shapes /\ Placed /\ Stops /\ [Next]_vars => Stops'
<1> SUFFICES ASSUME TypeOK, Shapes, Placed, Stops, [Next]_vars PROVE Stops'
  OBVIOUS
<1>1. setup' = setup /\ Worker' = Worker
  BY SetupFixed DEF Worker, NWorkers
<1>2. CASE Signal \/ MainStep \/ Returned \/ PrintStep \/ UNCHANGED vars
  <2>1. /\ UNCHANGED <<rest, quit, wpc, accepted>> /\ (rxOpen' => rxOpen)
        /\ (shutdown => shutdown')
    BY <1>2 DEF Signal, MainStep, DropTx, Join, Returned, PrintStep, Recv, Write, Flush,
       RecvClosed, Shapes, vars
  <2> QED
    BY <1>1, <2>1 DEF Stops
<1>3. ASSUME NEW w \in Worker, WorkerStep(w) PROVE Stops'
  <2>1. /\ DOMAIN wpc = Worker
        /\ ~shutdown => Matching \ rest \subseteq accepted
        /\ ~shutdown /\ rxOpen => ~quit
        /\ \A v \in Worker : wpc[v] \in {"drop", "tail", "done"} => quit \/ rest = {}
    BY DEF TypeOK, Stops
  <2>2. CASE VisitShutdown(w) \/ VisitSkip(w) \/ Leave(w)
    <3>1. UNCHANGED <<shutdown, rxOpen, accepted>>
      BY <2>2 DEF VisitShutdown, VisitSkip, Leave
    <3>2. ~shutdown => Matching \ rest' \subseteq accepted
      BY <2>1, <2>2 DEF VisitShutdown, VisitSkip, Leave
    <3>3. ~shutdown /\ rxOpen => ~quit'
      BY <2>1, <2>2 DEF VisitShutdown, VisitSkip, Leave
    <3>4. \A v \in Worker : wpc'[v] \in {"drop", "tail", "done"} => quit' \/ rest' = {}
      BY <2>1, <2>2 DEF VisitShutdown, VisitSkip, Leave
    <3> QED
      BY <1>1, <3>1, <3>2, <3>3, <3>4 DEF Stops
  <2>3. CASE VisitMatch(w)
    <3>1. /\ wpc[w] = "walk" /\ UNCHANGED <<shutdown, rxOpen, quit>>
          /\ \E e \in rest : rest' = rest \ {e} /\ accepted' = accepted \cup {e}
          /\ wpc' = wpc \/ wpc' = [wpc EXCEPT ![w] = "send"]
      BY <2>3 DEF VisitMatch
    <3> QED
      BY <1>1, <2>1, <3>1 DEF Stops
  <2>4. CASE DropSender(w)
    <3>1. /\ wpc[w] = "drop" /\ UNCHANGED <<shutdown, rxOpen, quit, rest, accepted>>
          /\ \A v \in Worker : v # w => wpc'[v] = wpc[v]
      BY <2>1, <2>4 DEF DropSender
    <3> QED
      BY <1>1, <2>1, <3>1 DEF Stops
  <2>5. CASE Send(w) \/ Rendezvous(w)
    <3>1. /\ UNCHANGED <<shutdown, rxOpen, quit, rest, accepted>>
          /\ \A v \in Worker : v # w => wpc'[v] = wpc[v]
          /\ wpc'[w] = "walk" \/ wpc[w] = "tail"
      BY <2>1, <2>5 DEF Send, Rendezvous, Sent
    <3> QED
      BY <1>1, <2>1, <3>1 DEF Stops
  <2>6. CASE SendFails(w)
    <3>1. /\ UNCHANGED <<shutdown, rxOpen, rest, accepted>> /\ ~rxOpen
          /\ \A v \in Worker : v # w => wpc'[v] = wpc[v]
          /\ quit' = (quit \/ wpc[w] = "send") /\ wpc[w] \in {"send", "tail"}
      BY <2>1, <2>6 DEF SendFails
    <3> QED
      BY <1>1, <2>1, <3>1 DEF Stops
  <2> QED
    BY <1>3, <2>2, <2>3, <2>4, <2>5, <2>6 DEF WorkerStep
<1> QED
  BY <1>2, <1>3 DEF Next

\* Only finitely many entries are ever accepted or settled.
LEMMA SettledFinite == TypeOK => IsFiniteSet(Settled) /\ IsFiniteSet(failed) /\ IsFiniteSet(accepted)
<1> SUFFICES ASSUME TypeOK
             PROVE  IsFiniteSet(Settled) /\ IsFiniteSet(failed) /\ IsFiniteSet(accepted)
  OBVIOUS
<1>1. Range(out) \subseteq Entry
  BY DEF TypeOK, Range
<1>2. Settled \subseteq Entry /\ failed \subseteq Entry /\ accepted \subseteq Entry
  BY <1>1 DEF TypeOK, Settled
<1> QED
  BY <1>2, OutputAssumption, FS_Subset

\* Each write counts one more settled entry, and the first count that reaches the
\* cap is the cap.
LEMMA WriteCounts ==
    ASSUME TypeOK, Shapes, Placed, Counts, setup' = setup, Write
    PROVE  Counts'
<1> DEFINE h == Head(batch)
<1>1. h \notin Settled /\ Settled' = Settled \cup {h}
  BY WritePlaced
<1>2. rxOpen /\ written \in Nat /\ setup.maxResults \in Nat
  BY OutputAssumption DEF Write, Shapes, TypeOK, Setup
<1>3. /\ IsFiniteSet(Settled) /\ IsFiniteSet(failed)
      /\ Cardinality(failed) \in Nat /\ Cardinality(Settled) \in Nat
      /\ out \in Seq(Entry) /\ h \in Entry
  <2>1. out \in Seq(Entry) /\ batch \in Seq(Entry) /\ batch # <<>>
    BY DEF TypeOK, Shapes, Write
  <2> QED
    BY <2>1, SettledFinite, FS_CardinalityType, TailFacts
<1>4. \/ out' = Append(out, h) /\ failed' = failed
      \/ out' = out /\ failed' = failed \cup {h}
  BY DEF Write
<1>5. written' = written + 1
  BY DEF Write
<1>6. CapReached(written + 1) <=> ~rxOpen'
  BY <1>2 DEF Write
<1> HIDE DEF h
<1>7. Cardinality(Settled') = Cardinality(Settled) + 1
  BY <1>1, <1>3, FS_AddElement
<1>8. Len(out') + Cardinality(failed') = Len(out) + Cardinality(failed) + 1
  <2>1. h \notin failed
    BY <1>1 DEF Settled
  <2>2. Cardinality(failed \cup {h}) = Cardinality(failed) + 1
    BY <1>3, <2>1, FS_AddElement
  <2>3. Len(Append(out, h)) = Len(out) + 1 /\ Len(out) \in Nat
    BY <1>3, AppendFacts
  <2>4. CASE out' = Append(out, h) /\ failed' = failed
    BY <1>3, <2>3, <2>4
  <2>5. CASE out' = out /\ failed' = failed \cup {h}
    BY <1>3, <2>2, <2>3, <2>5
  <2> QED
    BY <1>4, <2>4, <2>5
<1>9. written = Len(out) + Cardinality(failed) /\ written = Cardinality(Settled)
      /\ ~CapReached(written)
  BY <1>2 DEF Counts
<1>10. written' = Len(out') + Cardinality(failed') /\ written' = Cardinality(Settled')
  BY <1>5, <1>7, <1>8, <1>9
<1>11. rxOpen' => ~CapReached(written)'
  BY <1>5, <1>6 DEF CapReached
<1>12. ~rxOpen' => (setup'.maxResults > 0 /\ written' = setup'.maxResults)
  BY <1>2, <1>5, <1>6, <1>9 DEF CapReached
<1> QED
  BY <1>10, <1>11, <1>12 DEF Counts

\* The channel closes after every worker has flushed its tail: nothing is left.
LEMMA ClosedCounts ==
    ASSUME TypeOK, Shapes, Placed, Stops, Counts, setup' = setup, RecvClosed
    PROVE  Counts'
<1>1. /\ rxOpen /\ chan = <<>> /\ batch = <<>> /\ ~mainTx
      /\ \A w \in Worker : wpc[w] = "done"
      /\ UNCHANGED <<accepted, shutdown, written, out, failed, mainTx>>
  BY DEF RecvClosed, Shapes
<1>2. \A w \in Worker : HeldBy(w) = {}
  BY <1>1, EmptyFacts DEF Shapes, WorkerShape, HeldBy
<1>3. Held = {} /\ Queued = {} /\ Range(batch) = {}
  BY <1>1, <1>2, EmptyFacts DEF Held, Queued
<1>4. accepted = Settled
  BY <1>1, <1>3 DEF Placed, Accounts
<1>5. 1 \in Worker
  BY OutputAssumption DEF TypeOK, Setup, Worker, NWorkers
<1>6. shutdown \/ accepted = Matching
  <2>1. ~shutdown => rest = {}
    BY <1>1, <1>5 DEF Stops
  <2> QED
    BY <2>1 DEF Stops, Placed, Accounts
<1>7. Settled' = Settled
  BY <1>1 DEF Settled
<1>8. CapReached(written)' <=> CapReached(written)
  BY <1>1 DEF CapReached
<1> QED
  BY <1>1, <1>4, <1>6, <1>7, <1>8 DEF Counts

\* Every step keeps the count.
LEMMA CountsStep == TypeOK /\ Shapes /\ Placed /\ Stops /\ Counts /\ [Next]_vars => Counts'
<1> SUFFICES ASSUME TypeOK, Shapes, Placed, Stops, Counts, [Next]_vars PROVE Counts'
  OBVIOUS
<1>1. setup' = setup
  BY SetupFixed
<1>2. CASE Write
  BY <1>1, <1>2, WriteCounts
<1>3. CASE RecvClosed
  BY <1>1, <1>3, ClosedCounts
<1>4. ASSUME UNCHANGED <<written, out, failed, rxOpen>>, shutdown => shutdown',
             ~mainTx => ~mainTx' /\ accepted' = accepted
      PROVE  Counts'
  <2>1. Settled' = Settled
    BY <1>4 DEF Settled
  <2>2. CapReached(written)' <=> CapReached(written)
    BY <1>1, <1>4 DEF CapReached
  <2> QED
    BY <1>1, <1>4, <2>1, <2>2 DEF Counts
<1>5. CASE Signal \/ MainStep \/ Returned \/ Flush \/ Recv \/ UNCHANGED vars
  <2>1. /\ UNCHANGED <<written, out, failed, rxOpen, accepted>>
        /\ (shutdown => shutdown') /\ (~mainTx => ~mainTx')
    BY <1>5 DEF Signal, MainStep, DropTx, Join, Returned, Flush, Recv, vars
  <2> QED
    BY <1>4, <2>1
<1>6. ASSUME NEW w \in Worker, WorkerStep(w) PROVE Counts'
  <2>1. UNCHANGED <<written, out, failed, rxOpen, shutdown, mainTx>>
    BY <1>6 DEF WorkerStep, VisitShutdown, VisitSkip, VisitMatch, Leave, DropSender, Send,
       Rendezvous, SendFails, Sent
  <2>2. wpc[w] # "done"
    BY <1>6 DEF WorkerStep, VisitShutdown, VisitSkip, VisitMatch, Leave, DropSender, Send,
       Rendezvous, SendFails
  <2>3. mainTx
    BY <2>2 DEF Shapes, AllDone
  <2> QED
    BY <1>4, <2>1, <2>3
<1> QED
  BY <1>2, <1>3, <1>5, <1>6 DEF Next, PrintStep

\* OutputInv is an invariant of the pipeline.
THEOREM OutputInvariant == Init /\ [][Next]_vars => []OutputInv
<1>1. Init => OutputInv
  BY InitTypes, InitPlaced, InitEnds DEF OutputInv, Placed
<1>2. OutputInv /\ [Next]_vars => OutputInv'
  BY TypeStep, PlacedStep, StopsStep, CountsStep DEF OutputInv, Placed
<1> QED
  BY <1>1, <1>2, PTL

\* Once run has returned, the results counted are those printed or refused by the
\* sink, and they are all there were or as many as the cap allows.
LEMMA InvDelivers == OutputInv => Delivered
<1> SUFFICES ASSUME OutputInv, returned
             PROVE  IF CapReached(Cardinality(accepted))
                    THEN Len(out) + Cardinality(failed) = setup.maxResults
                    ELSE Settled = accepted
  BY DEF Delivered, Settled
<1>1. /\ ~rxOpen /\ Settled \subseteq accepted /\ IsFiniteSet(accepted)
      /\ written = Len(out) + Cardinality(failed) /\ written = Cardinality(Settled)
      /\ setup.maxResults \in Nat
  BY SettledFinite, OutputAssumption DEF OutputInv, Shapes, Accounts, Counts, TypeOK, Setup
<1>2. written <= Cardinality(accepted) /\ written \in Nat /\ Cardinality(accepted) \in Nat
  BY <1>1, FS_Subset, FS_CardinalityType DEF OutputInv, TypeOK
<1>3. CASE setup.maxResults > 0 /\ written = setup.maxResults
  BY <1>1, <1>2, <1>3 DEF CapReached
<1>4. CASE accepted = Settled /\ ~CapReached(written)
  BY <1>1, <1>4
<1> QED
  BY <1>1, <1>3, <1>4 DEF OutputInv, Counts

\* Without a cap or a signal, these are all the matches.
LEMMA InvAllMatches == OutputInv => AllMatches
  BY DEF OutputInv, Shapes, Counts, AllMatches, Settled

\* run returns having printed every match it accepted, after a stop signal too, or
\* exactly --max-results of them, a write that failed counting as one.
THEOREM DeliveredCorrect == Spec => []Delivered
  BY InvDelivers, OutputInvariant, PTL DEF Spec

\* With no cap and no signal everything that matches is printed (or was lost to a
\* failed write), whatever the threads, the batch size and the channel.
THEOREM AllMatchesCorrect == Spec => []AllMatches
  BY InvAllMatches, OutputInvariant, PTL DEF Spec

\* What a caller of run sees of the pipeline, at every moment and at the end
Promise == Conserved /\ NoDuplicates /\ Delivered /\ AllMatches

\* None of it needs the threads to be scheduled fairly.
THEOREM PromiseKept == Init /\ [][Next]_vars => []Promise
<1>1. OutputInv => Conserved /\ NoDuplicates
  BY InFlightIs DEF OutputInv, Apart, Accounts, Conserved, NoDuplicates, Settled
<1> QED
  BY <1>1, InvDelivers, InvAllMatches, OutputInvariant, PTL DEF Promise

=============================================================================
