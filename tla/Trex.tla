-------------------------------- MODULE Trex --------------------------------
(* The event engine on a T-Rex node: the threads of device-files/trex.device,  *)
(* the "then" operators of cep-engine.cc they evaluate, and the execution       *)
(* infos (executioninfo.cc) in which an event travels from thread to thread.    *)
(*                                                                              *)
(* An event interrupts the node; a packet thread takes it from sq, gives it to  *)
(* each event thread, refills the queue of operators and waits on               *)
(* packet-threads-SEM for as many units as there are event threads. An event    *)
(* thread evaluates operators from the shared queue until it is empty. Other    *)
(* threads run at every PROCESS stage: an action lies between two of them, and  *)
(* stages that only take time are left out. No PROCESS lies between the SEMDOWN *)
(* and SEMUP of the two other semaphores of the file, which therefore never     *)
(* block and are left out, and so are the packets of complex events. An operator *)
(* whose name ends in Bug is a plausible mistake, and no part of the model.       *)
EXTENDS Naturals, Sequences, FiniteSets, SequencesExt

CONSTANTS
  PacketThreads, EventThreads,  \* the threads of the THREADS section
  Irq,           \* the interrupt thread of CPU 0
  AllCepOps,     \* the queue all-cepops: a sequence of operators
  Event1, Event2,   \* the types an operator expects
  Window,        \* the window of the operators, in arrivals
  InfoIds,       \* addresses of execution infos
  Own,           \* the info of every thread's root location
  Types,         \* types of events; an event whose constraints fail has one nobody expects
  MaxEvents,     \* events that arrive
  Spaced         \* whether an event only arrives when the last one is dealt with

ASSUME TrexAssumption ==
  /\ IsFiniteSet(PacketThreads) /\ IsFiniteSet(EventThreads) /\ EventThreads # {}
  /\ PacketThreads \cap EventThreads = {} /\ Irq \notin PacketThreads \cup EventThreads
  /\ AllCepOps \in Seq(Range(AllCepOps)) /\ IsInjective(AllCepOps)
  /\ MaxEvents \in Nat /\ Window \in Nat \ {0}
  /\ Cardinality(InfoIds) > 2 * Cardinality(PacketThreads \cup EventThreads) + MaxEvents
  /\ Own \in [PacketThreads \cup EventThreads \cup {Irq} -> InfoIds]
  /\ \A t, u \in DOMAIN Own : t # u => Own[t] # Own[u]
  /\ Spaced \in BOOLEAN

Ops == Range(AllCepOps)
Threads == PacketThreads \cup EventThreads
(* an event: the counter of its data source and its type; it arrives at time seq *)
Events == [seq : 1..MaxEvents, type : Types]
NoEvent == [seq |-> 0]
NoPair == [op |-> NoEvent]
Buffers == [o \in Ops |-> [first |-> <<>>, second |-> <<>>]]

VARIABLES
  info,      \* the event of every execution info (curCepEvent)
  cur,       \* the info of the location a thread executes (m_executionInfo)
  last,      \* ExecEnv::currentlyExecutingThread
  issued,    \* infos of the interrupts scheduled, not issued yet
  pending,   \* interrupts the controller has: an info and the event to put in it
  sq,        \* the service queue of packets received
  rcvd,      \* rcvd-pkts-t1 ... of every event thread
  ops,       \* the queue threads-cepops
  buf,       \* the buffers of every operator (BufferManager)
  pc,        \* where a thread is
  need,      \* units of packet-threads-SEM a packet thread still has to take
  pair,      \* the pair an event thread makes a complex event of
  sem, waiting,   \* packet-threads-SEM: its value and its waiters
  arrived, seen, collected, reported   \* what happened so far

vars == <<info, cur, last, issued, pending, sq, rcvd, ops, buf,
          pc, need, pair, sem, waiting, arrived, seen, collected, reported>>
infos == <<info, cur, last>>
irqs == <<issued, pending>>
engine == <<ops, buf, pair, seen, reported>>
units == <<sem, waiting, need, collected>>

Idle == issued = <<>> /\ pending = <<>> /\ sq = <<>> /\ \A t \in Threads : pc[t] = "asleep"

Unused == InfoIds \ ({cur[t] : t \in Threads \cup {Irq}} \cup {Own[p] : p \in PacketThreads}
  \cup Range(issued) \cup {pending[i].info : i \in DOMAIN pending} \cup Range(sq)
  \cup UNION {Range(rcvd[t]) : t \in EventThreads})
Create == CHOOSE i \in Unused : TRUE
(* the infos with a new one that holds e; those nobody refers to are freed *)
Created(e) == [i \in InfoIds |-> IF i = Create THEN e ELSE IF i \in Unused THEN NoEvent ELSE info[i]]

Woken(S) == [t \in Threads |-> IF t \in S /\ pc[t] = "asleep" THEN "ready" ELSE pc[t]]
-----------------------------------------------------------------------------
(* Initially every thread has found its queue empty and sleeps. *)
Init ==
  /\ cur = Own
  /\ info = [i \in InfoIds |-> NoEvent]
  /\ last \in Threads
  /\ issued = <<>> /\ pending = <<>> /\ sq = <<>>
  /\ rcvd = [t \in EventThreads |-> <<>>]
  /\ ops = <<>> /\ buf = Buffers
  /\ pc = [t \in Threads |-> "asleep"]
  /\ need = [p \in PacketThreads |-> 0]
  /\ pair = [t \in EventThreads |-> NoPair]
  /\ sem = 0 /\ waiting = <<>>
  /\ arrived = <<>> /\ seen = [o \in Ops |-> 0] /\ collected = <<>> /\ reported = {}

(* ProcessCepEvent: the event goes into the info of the thread that executed    *)
(* last, and that info into the interrupt.                                      *)
Arrive ==
  /\ Spaced => Idle
  /\ Len(arrived) < MaxEvents
  /\ \E e \in Events :
       /\ e.seq = Len(arrived) + 1
       /\ arrived' = Append(arrived, e)
       /\ info' = [info EXCEPT ![cur[last]] = e]
  /\ issued' = Append(issued, cur[last])
  /\ UNCHANGED <<cur, last, pending, sq, rcvd, pc, engine, units>>

(* IssueInterruptWithServiceOnCPU: the request keeps the event the info has now. *)
Issue ==
  /\ issued # <<>>
  /\ pending' = Append(pending, [info |-> Head(issued), event |-> info[Head(issued)]])
  /\ issued' = Tail(issued)
  /\ UNCHANGED <<infos, sq, rcvd, pc, engine, units, arrived>>

(* HIRQ-1: the service receive-packet with the interrupt's info is queued and    *)
(* the packet threads are woken; the next interrupt writes its event (Interrupt).*)
Interrupt ==
  /\ pending # <<>>
  /\ sq' = Append(sq, Head(pending).info)
  /\ pc' = Woken(PacketThreads)
  /\ last' = Irq
  /\ cur' = [cur EXCEPT ![Irq] = Head(pending).info]
  /\ pending' = Tail(pending)
  /\ info' = IF Len(pending) = 1 THEN info
             ELSE [info EXCEPT ![pending[2].info] = pending[2].event]
  /\ UNCHANGED <<issued, rcvd, engine, units, arrived>>
-----------------------------------------------------------------------------
(* packet_processing_thread: sleeps when sq is empty, checked without a stage    *)
(* between; else receive-packet begins, with the queued info.                    *)
Receive(p) ==
  /\ pc[p] = "ready"
  /\ last' = p
  /\ \/ /\ sq = <<>>
        /\ pc' = [pc EXCEPT ![p] = "asleep"]
        /\ cur' = [cur EXCEPT ![p] = Own[p]]
        /\ UNCHANGED sq
     \/ /\ sq # <<>>
        /\ pc' = [pc EXCEPT ![p] = "received"]
        /\ cur' = [cur EXCEPT ![p] = Head(sq)]
        /\ sq' = Tail(sq)
  /\ UNCHANGED <<info, irqs, rcvd, engine, units, arrived>>

(* The SEMDOWNs of receive-packet and the threads it wakes, one of each for every *)
(* event thread.                                                                   *)
MissesOneBug == Cardinality(EventThreads) - 1
AwaitsMoreBug == Cardinality(EventThreads) + 1
Awaited == Cardinality(EventThreads)
WakesFewerBug == EventThreads \ {CHOOSE t \in EventThreads : TRUE}
WokenUp == EventThreads

(* SEMDOWN packet-threads-SEM, n times and without a stage between: p waits when   *)
(* no unit is left, or goes on to FinishedProcessingEvent, which gives its          *)
(* location a new info. The places of the threads are those of at.                  *)
Down(p, n, at) ==
  \/ /\ sem < n
     /\ sem' = 0 /\ need' = [need EXCEPT ![p] = n - sem]
     /\ waiting' = Append(waiting, p)
     /\ pc' = [at EXCEPT ![p] = "blocked"]
     /\ UNCHANGED <<info, cur, collected>>
  \/ /\ sem >= n
     /\ sem' = sem - n /\ need' = [need EXCEPT ![p] = 0]
     /\ collected' = Append(collected, info[cur[p]])
     /\ cur' = [cur EXCEPT ![p] = Create] /\ info' = Created(NoEvent)
     /\ pc' = [at EXCEPT ![p] = "send"]
     /\ UNCHANGED waiting

(* receive-packet after its constraints, up to a SEMDOWN that blocks or to the end: *)
(* the same info is queued for every event thread, the operators replace what is    *)
(* left in their queue, and the event threads are woken.                             *)
Distribute(p) ==
  /\ pc[p] = "received"
  /\ last' = p
  /\ rcvd' = [t \in EventThreads |-> Append(rcvd[t], cur[p])]
  /\ ops' = AllCepOps
  /\ Down(p, Awaited, Woken(WokenUp))
  /\ UNCHANGED <<irqs, sq, buf, pair, seen, reported, arrived>>

(* Handed a unit (Leave), the thread goes on with the SEMDOWNs that are left. *)
Resume(p) ==
  /\ pc[p] = "collect"
  /\ last' = p
  /\ Down(p, need[p], pc)
  /\ UNCHANGED <<irqs, sq, rcvd, engine, arrived>>

(* After send-packets, a stage for each packet, the thread looks for its next one. *)
Send(p) ==
  /\ pc[p] = "send"
  /\ last' = p
  /\ pc' = [pc EXCEPT ![p] = "ready"]
  /\ cur' = [cur EXCEPT ![p] = Own[p]]
  /\ UNCHANGED <<info, irqs, sq, rcvd, engine, units, arrived>>
-----------------------------------------------------------------------------
(* event_processing_thread: sleeps when its queue is empty, else takes a copy of *)
(* the info at its head (HandleQueueEvent).                                       *)
Take(t) ==
  /\ pc[t] = "ready"
  /\ last' = t
  /\ \/ /\ rcvd[t] = <<>>
        /\ pc' = [pc EXCEPT ![t] = "asleep"]
        /\ UNCHANGED <<info, cur, rcvd>>
     \/ /\ rcvd[t] # <<>>
        /\ pc' = [pc EXCEPT ![t] = "evaluate"]
        /\ cur' = [cur EXCEPT ![t] = Create]
        /\ info' = Created(info[Head(rcvd[t])])
        /\ rcvd' = [rcvd EXCEPT ![t] = Tail(@)]
  /\ UNCHANGED <<irqs, sq, engine, units, arrived>>

(* ThenOperator::Evaluate up to read_events: an event that is expected and fulfils *)
(* the constraints joins the buffer of its type, that of event1 first.             *)
Put(o, b, e) ==
  [first  |-> IF e.type = Event1[o] THEN Append(b.first, e) ELSE b.first,
   second |-> IF e.type = Event2[o] /\ e.type # Event1[o] THEN Append(b.second, e)
              ELSE b.second]

(* ThenOperator::DoEvaluate: the buffered first events that are in the window. *)
Partner(o, b, e) ==
  IF e.type = Event2[o] /\ b.second # <<>>
  THEN SelectSeq(b.first, LAMBDA f : f.seq + Window > e.seq) ELSE <<>>

(* BufferManager::consume: by sequence number, once in each buffer for each event. *)
Without(s, e) ==
  LET i == SelectInSeq(s, LAMBDA f : f.seq = e.seq) IN IF i = 0 THEN s ELSE RemoveAt(s, i)

Consume(b, c) ==
  [first  |-> Without(Without(b.first, c.first), c.second),
   second |-> Without(Without(b.second, c.first), c.second)]

(* handle-cepops: the next operator is shown the event of the thread's info. A    *)
(* pair it finds takes the stages of create-potential-complex-event.               *)
Evaluate(t) ==
  /\ pc[t] = "evaluate" /\ ops # <<>>
  /\ last' = t
  /\ LET o == Head(ops)
         e == info[cur[t]]
         b == Put(o, buf[o], e)
         p == Partner(o, b, e)
     IN  /\ buf' = [buf EXCEPT ![o] = b]
         /\ seen' = [seen EXCEPT ![o] = @ + 1]
         /\ \/ p = <<>> /\ UNCHANGED <<pair, pc>>
            \/ /\ p # <<>>
               /\ pair' = [pair EXCEPT ![t] = [op |-> o, first |-> p[1], second |-> e]]
               /\ pc' = [pc EXCEPT ![t] = "insert"]
  /\ ops' = Tail(ops)
  /\ UNCHANGED <<info, cur, irqs, sq, rcvd, reported, units, arrived>>

(* The buffers without the events of t's pair. *)
ConsumedBug(t) == buf[pair[t].op]
Consumed(t) == Consume(buf[pair[t].op], pair[t])

(* AddAttributesToNewEvent, last call: the complex event is forwarded, to the     *)
(* sink of this node or as a packet, and only now is the pair consumed.           *)
Assign(t) ==
  /\ pc[t] = "insert"
  /\ last' = t
  /\ reported' = reported \cup {pair[t]}
  /\ buf' = [buf EXCEPT ![pair[t].op] = Consumed(t)]
  /\ pair' = [pair EXCEPT ![t] = NoPair]
  /\ pc' = [pc EXCEPT ![t] = "evaluate"]
  /\ UNCHANGED <<info, cur, irqs, sq, rcvd, ops, seen, units, arrived>>

StillWaitingBug == waiting
StillWaiting == Tail(waiting)

(* No operator left: SEMUP packet-threads-SEM, a unit for the first waiter. *)
Leave(t) ==
  /\ pc[t] = "evaluate" /\ ops = <<>>
  /\ last' = t
  /\ \/ /\ waiting = <<>>
        /\ sem' = sem + 1
        /\ pc' = [pc EXCEPT ![t] = "ready"]
        /\ UNCHANGED <<waiting, need>>
     \/ /\ waiting # <<>>
        /\ pc' = [pc EXCEPT ![t] = "ready", ![Head(waiting)] = "collect"]
        /\ need' = [need EXCEPT ![Head(waiting)] = @ - 1]
        /\ waiting' = StillWaiting
        /\ UNCHANGED sem
  /\ UNCHANGED <<info, cur, irqs, sq, rcvd, engine, collected, arrived>>
-----------------------------------------------------------------------------
PacketStep(p) == Receive(p) \/ Distribute(p) \/ Resume(p) \/ Send(p)
EventStep(t) == Take(t) \/ Evaluate(t) \/ Assign(t) \/ Leave(t)

Next == \/ Arrive \/ Issue \/ Interrupt
        \/ \E p \in PacketThreads : PacketStep(p)
        \/ \E t \in EventThreads : EventStep(t)

(* The simulator executes what is scheduled, and the scheduler gives every thread *)
(* that is not blocked its turn. Nothing makes events arrive.                     *)
Fairness ==
  /\ WF_vars(Issue) /\ WF_vars(Interrupt)
  /\ \A p \in PacketThreads : WF_vars(PacketStep(p))
  /\ \A t \in EventThreads : WF_vars(EventStep(t))

Spec == Init /\ [][Next]_vars
FairSpec == Spec /\ Fairness
=============================================================================
