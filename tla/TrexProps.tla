------------------------------ MODULE TrexProps ------------------------------
(* What the threads of trex.device owe the events they are given. *)
EXTENDS Trex

(* Every program counter, queue and counter keeps its range; the locations and   *)
(* queues hold addresses of execution infos (ProgramLocation::m_executionInfo).  *)
TypeOK ==
  /\ info \in [InfoIds -> Events \cup {NoEvent}]
  /\ cur \in [Threads \cup {Irq} -> InfoIds]
  /\ last \in Threads \cup {Irq}
  /\ sq \in Seq(InfoIds) /\ rcvd \in [EventThreads -> Seq(InfoIds)]
  /\ ops \in Seq(Ops)
  /\ \A p \in PacketThreads :
       pc[p] \in {"asleep", "ready", "received", "collect", "blocked", "send"}
  /\ \A t \in EventThreads :
       pc[t] \in {"asleep", "ready", "evaluate", "insert"}
  /\ need \in [PacketThreads -> 0..Cardinality(EventThreads)]
  /\ sem \in 0..Cardinality(EventThreads) * MaxEvents
  /\ Range(waiting) = {p \in PacketThreads : pc[p] = "blocked"}

(* The events an event thread has been given and is not done with. *)
AtHand(t) == {info[i] : i \in Range(rcvd[t])}
  \cup (IF pc[t] \in {"evaluate", "insert"} THEN {info[cur[t]]} ELSE {})

(* When receive-packet is past its last SEMDOWN the results have been collected    *)
(* (trex.device:228): an event thread has a collected event at hand only if that    *)
(* event came twice and a packet thread still waits for the second time.            *)
ResultsCollected ==
  \A e \in Range(collected), t \in EventThreads :
    e \in AtHand(t)
      => \E p \in PacketThreads : pc[p] \in {"collect", "blocked"} /\ info[cur[p]] = e

(* A packet thread waits for its units only while an event thread that is awake has *)
(* work: with several packets in the node, whose units are not told apart, no        *)
(* SEMDOWN of receive-packet is left without the SEMUP it needs.                     *)
NobodyStranded ==
  waiting # <<>> => \E t \in EventThreads : AtHand(t) # {} /\ pc[t] # "asleep"

(* Past the SEMDOWNs (trex.device:228) the packet threads leave nothing behind: when  *)
(* none of them is between its first and its last one, no unit is left over and no    *)
(* event thread has anything at hand, however many packets were in the node at once.  *)
NothingLeftOver ==
  (\A p \in PacketThreads : pc[p] \notin {"collect", "blocked"})
    => sem = 0 /\ \A t \in EventThreads : AtHand(t) = {}

Pending == {pair[t] : t \in EventThreads} \ {NoPair}

(* The buffers as they are once the pairs found have been consumed. *)
Settled(o) ==
  LET mine == {c \in Pending : c.op = o}
  IN  IF mine = {} THEN buf[o] ELSE Consume(buf[o], CHOOSE c \in mine : TRUE)

D == INSTANCE Detection WITH
  Operators <- Ops,
  buffers <- [o \in Ops |-> Settled(o)],
  found <- reported \cup Pending,
  collected <- Len(collected)

(* Detector and ThenOperator, evaluated by whichever event thread comes first and *)
(* consuming stages after the match, detect what an engine that shows each event  *)
(* to each operator once, in order, and consumes at once would detect.            *)
ImplementsDetection == D!Spec

(* Every event that arrives is collected and every thread goes back to sleep: no   *)
(* unit of the semaphore and no wake-up is lost between interrupt, packet threads  *)
(* and event threads.                                                              *)
EveryEventCollected == <>[](Idle /\ Len(collected) = Len(arrived))
=============================================================================
