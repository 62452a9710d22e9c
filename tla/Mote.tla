-------------------------------- MODULE Mote --------------------------------
(****************************************************************************)
(* A TelosB mote that forwards packets (telosb.cc) together with the        *)
(* software of telosb-min.device.  The software computes in stages of one   *)
(* thread and of interrupts; between stages it calls back into telosb.cc    *)
(* through *triggers* that telosb.cc registered earlier (ExecEnv::Proceed)  *)
(* with the execution info of whatever executed a statement last.  Infos    *)
(* are shared by pointer; taking one from a packet queue copies it.         *)
(* fakeSending and jitterExperiment, which nothing sets, are left out, and  *)
(* so are statistics and timestamps.  A definition whose name ends in Bug   *)
(* is a plausible mistake, and no part of the model.                        *)
(****************************************************************************)
EXTENDS Integers, Sequences, SequencesExt

CONSTANTS
    Packets,     \* the packets the first mote has to send
    Sizes,       \* sizes a packet may have, in bytes
    FifoSize,    \* bytes in the radio's receive FIFO
    Modulus,     \* one more than the largest value of the byte counter
    IpaqSize,    \* packets in the queue of the IP layer
    QueueSize,   \* interrupt requests that may wait
    CcaModes,    \* the settings of ccaOn to consider
    Infos,       \* names for execution infos
    None         \* no packet

ASSUME MoteAssumption ==
    /\ FifoSize \in Nat \ {0} /\ IpaqSize \in Nat \ {0} /\ QueueSize \in Nat
    /\ Modulus \in Nat /\ Modulus > 2 * FifoSize
    /\ Sizes \subseteq 1..FifoSize /\ CcaModes \subseteq BOOLEAN
    /\ 0 \in Infos /\ Infos \subseteq Nat /\ None \notin Packets

VARIABLES
    ccaOn,
    unsent,      \* packets whose SendPacket is scheduled
    air,         \* the packet on its way to the mote (firstNodeSending)
    size, collided,             \* of each packet
    radio,       \* [overflow, bytes, nr, collision]
    transmit,    \* scheduled writtenToTxFifo ("retry") and finishedTransmitting ("finish")
    receiving,   \* receivingPacket
    issued,      \* interrupts scheduled
    pending,     \* interrupt requests that wait for the one handled
    infos, cur,  \* execution infos; the one of the statement executed last
    th, base,    \* the main thread and the interrupt; the interrupt's own info
    tasks, rxfifo, ipaq, postponed,    \* queues of the device file
    state        \* its global state variables

medium == <<ccaOn, unsent, air>>
pkts   == <<size, collided>>
cpu    == <<issued, pending, th, base>>
queues == <<tasks, rxfifo, ipaq, postponed>>
vars   == <<medium, pkts, radio, transmit, receiving, cpu, infos, cur, queues, state>>

Triggers == {"readdonepayload", "receivedone", "sendtask", "writtentotxfifo"}
Info     == [packet : Packets \cup {None}, targets : [Triggers -> Packets \cup {None}]]
Blank    == [packet |-> None, targets |-> [t \in Triggers |-> None]]

-----------------------------------------------------------------------------
(* Threads.  What runs is the interrupt, if one is handled, or the main     *)
(* thread.  A thread is in a stage, which takes time, or at a statement.    *)

Threads == {"main", "irq"}
Both(main, irq) == [t \in Threads |-> IF t = "main" THEN main ELSE irq]

\* what follows each stage
After == [taskloop |-> "dequeue", writing |-> "readDone", receiveDone |-> "ipaqFull",
          queueing |-> "post", dropping |-> "readNext", loading |-> "written",
          transmitting |-> "return", sent |-> "return"]
Stages == DOMAIN After

MainPlaces == (Stages \ {"sent"}) \cup {"asleep", "awake", "return", "dequeue", "readDone", "check",
                  "readNext", "receive", "ipaqFull", "post", "sendTask", "written"}
IrqPlaces  == {"none", "writing", "readDone", "check", "readNext", "return", "sendDone", "sent"}

Running == IF th["irq"].at = "none" THEN "main" ELSE "irq"
here    == th[Running].info
At(p)   == th[Running].at = p
Computing == th[Running].at \in Stages \cup {"asleep"}

Goto(p)      == th' = [th EXCEPT ![Running].at = p] /\ cur' = here
Enter(p, i)  == th' = [th EXCEPT ![Running] = [at |-> p, info |-> i]] /\ cur' = i

Thread(t) == IF t.at = "asleep" THEN [t EXCEPT !.at = "awake"] ELSE t

\* Infos in use; the names of others are free, and blank when one is taken
Held(q) == {q[k].info : k \in DOMAIN q}
Used == {0, cur, base, th["main"].info, th["irq"].info} \cup Held(tasks)
        \cup Held(issued) \cup Held(pending) \cup Held(ipaq) \cup Held(postponed)
Fresh == CHOOSE i \in Infos \ Used : TRUE
Copy(r) == infos' = [i \in Infos |-> IF i = Fresh THEN r
                                     ELSE IF i \in Used THEN infos[i] ELSE Blank]

\* ExecEnv::Proceed, on the info of the statement executed last
Registered(i, t, p) == [infos[i] EXCEPT !.targets[t] = p]
Target(t)  == infos[here].targets[t]
Invoked(t) == [infos EXCEPT ![here].targets[t] = None]
Chained(t, u, p) == [infos EXCEPT ![here].targets = [@ EXCEPT ![t] = None, ![u] = p]]

TypeOK ==
    /\ ccaOn \in BOOLEAN /\ unsent \subseteq Packets /\ air \in Packets \cup {None}
    /\ size \in [Packets -> 0..FifoSize] /\ collided \in [Packets -> BOOLEAN]
    /\ radio \in [overflow : BOOLEAN, bytes : 0..(Modulus - 1), nr : Int, collision : BOOLEAN]
    /\ transmit \in Seq([op : {"retry", "finish"}, packet : Packets])
    /\ receiving \in BOOLEAN
    /\ \A q \in {issued, pending} : q \in Seq([service : {"HIRQ-1", "HIRQ-6"}, info : Infos])
    /\ infos \in [Infos -> Info] /\ {cur, base} \subseteq Infos
    /\ th \in [Threads -> [at : MainPlaces \cup IrqPlaces, info : Infos]]
    /\ th["main"].at \in MainPlaces /\ th["irq"].at \in IrqPlaces
    /\ tasks \in Seq([service : {"receive", "sendTask"}, info : Infos])
    /\ rxfifo \in Seq(Info)
    /\ \A q \in {ipaq, postponed} : q \in Seq([info : Infos])
    /\ state \in [collided : BOOLEAN, full : BOOLEAN, busy : BOOLEAN]

Init ==
    /\ ccaOn \in CcaModes /\ unsent = Packets /\ air = None
    /\ size \in [Packets -> Sizes] /\ collided = [p \in Packets |-> FALSE]
    /\ radio = [overflow |-> FALSE, bytes |-> 0, nr |-> 0, collision |-> FALSE]
    /\ transmit = <<>> /\ receiving = FALSE /\ issued = <<>> /\ pending = <<>>
    /\ infos = [i \in Infos |-> Blank] /\ cur = 0 /\ base = 0
    /\ th = Both([at |-> "asleep", info |-> 0], [at |-> "none", info |-> 0])
    /\ tasks = <<>> /\ rxfifo = <<>> /\ ipaq = <<>> /\ postponed = <<>>
    /\ state = [collided |-> FALSE, full |-> FALSE, busy |-> FALSE]

-----------------------------------------------------------------------------
(* The medium.  Callbacks of the simulator do not interleave with the       *)
(* statements a thread executes in one callback.                            *)

\* a collision is over once nobody sends or receives
Cleared(r) == [r EXCEPT !.collision = @ /\ r.nr # 0]

SendPacket(p) ==
    /\ Computing /\ p \in unsent
    /\ \/ /\ radio.overflow
          /\ unsent' = unsent \ {p} /\ UNCHANGED <<air, radio>>
       \/ /\ ~radio.overflow /\ air = None /\ ~(radio.nr > 0 /\ ccaOn)
          /\ unsent' = unsent \ {p} /\ air' = p
          /\ radio' = [radio EXCEPT !.nr = @ + 1, !.collision = @ \/ radio.nr > 0]
    /\ UNCHANGED <<ccaOn, pkts, transmit, receiving, cpu, infos, cur, queues, state>>

\* the bytes of p that ReceivePacket drops and what the FIFO then holds
Overflows(p) == (radio.bytes + size[p]) % Modulus > FifoSize
Removed(p)   == (radio.bytes - FifoSize) % Modulus
KeptBug(p)   == size[p] - Removed(p)
Kept(p)      == IF Removed(p) > size[p] THEN 0 ELSE size[p] - Removed(p)

\* what ReceivePacket does with a packet the FIFO has room for, or room for its start
Store(p, i) ==
    /\ IF receiving
       THEN /\ rxfifo' = Append(rxfifo, [Registered(i, "readdonepayload", p) EXCEPT !.packet = p])
            /\ infos' = [infos EXCEPT ![i] = Registered(i, "readdonepayload", p)]
            /\ UNCHANGED issued
       ELSE /\ infos' = [infos EXCEPT ![i] = [Registered(i, "readdonepayload", p) EXCEPT !.packet = p]]
            /\ issued' = Append(issued, [service |-> "HIRQ-1", info |-> i])
            /\ UNCHANGED rxfifo
    /\ receiving' = TRUE

\* Packets take far longer than the 10 ns until HIRQ-1 is issued
ReceivePacket ==
    /\ Computing /\ air # None
    /\ \A k \in DOMAIN issued : issued[k].service # "HIRQ-1"
    /\ air' = None
    /\ LET over == Overflows(air)
           now  == Cleared([radio EXCEPT !.nr = @ - 1])
       IN  IF radio.overflow
           THEN /\ radio' = now /\ collided' = [collided EXCEPT ![air] = radio.collision]
                /\ UNCHANGED <<size, receiving, infos, rxfifo, issued>>
           ELSE /\ radio' = [now EXCEPT !.overflow = over,
                                !.bytes = IF over THEN FifoSize ELSE (@ + size[air]) % Modulus]
                /\ collided' = [collided EXCEPT ![air] = radio.collision \/ over]
                /\ size' = IF over THEN [size EXCEPT ![air] = Kept(air)] ELSE size
                /\ Store(air, cur)
    /\ UNCHANGED <<ccaOn, unsent, transmit, pending, th, base, cur, tasks, ipaq, postponed, state>>

\* writtenToTxFifo(p), with the events that remain scheduled
WrittenBug(p, rest) ==
    /\ transmit' = rest \o (IF radio.nr > 0 /\ ccaOn THEN <<[op |-> "retry", packet |-> p]>> ELSE <<>>)
                        \o <<[op |-> "finish", packet |-> p]>>
    /\ radio' = [radio EXCEPT !.nr = @ + 1, !.collision = @ \/ radio.nr > 0]
Written(p, rest) ==
    IF radio.nr > 0 /\ ccaOn
    THEN transmit' = Append(rest, [op |-> "retry", packet |-> p]) /\ UNCHANGED radio
    ELSE /\ transmit' = Append(rest, [op |-> "finish", packet |-> p])
         /\ radio' = [radio EXCEPT !.nr = @ + 1, !.collision = @ \/ radio.nr > 0]

Retry(k) ==
    /\ Computing /\ transmit[k].op = "retry"
    /\ Written(transmit[k].packet, RemoveAt(transmit, k))
    /\ UNCHANGED <<medium, pkts, receiving, cpu, infos, cur, queues, state>>

FinishedTransmitting(k) ==
    /\ Computing /\ transmit[k].op = "finish"
    /\ transmit' = RemoveAt(transmit, k)
    /\ radio' = Cleared([radio EXCEPT !.nr = @ - 1])
    /\ infos' = [infos EXCEPT ![cur].packet = transmit[k].packet]
    /\ issued' = Append(issued, [service |-> "HIRQ-6", info |-> cur])
    /\ UNCHANGED <<medium, pkts, receiving, pending, th, base, cur, queues, state>>

-----------------------------------------------------------------------------
(* Interrupts                                                               *)

Interrupt(ir, main) ==
    /\ th' = Both(main, [at |-> IF ir.service = "HIRQ-1" THEN "writing" ELSE "sendDone",
                         info |-> ir.info])
    /\ base' = ir.info /\ cur' = ir.info

IssueInterrupt(k) ==
    /\ Computing
    /\ issued' = RemoveAt(issued, k)
    /\ IF th["irq"].at = "none"
       THEN Interrupt(issued[k], th["main"]) /\ UNCHANGED pending
       ELSE /\ pending' = IF Len(pending) < QueueSize THEN Append(pending, issued[k]) ELSE pending
            /\ UNCHANGED <<th, base, cur>>
    /\ UNCHANGED <<medium, pkts, radio, transmit, receiving, infos, queues, state>>

EndOfInterrupt ==
    /\ Running = "irq" /\ At("return")
    /\ IF pending # <<>>
       THEN Interrupt(Head(pending), th["main"]) /\ pending' = Tail(pending)
       ELSE /\ pending' = pending /\ base' = 0
            /\ th' = Both([th["main"] EXCEPT !.at = IF @ = "awake" THEN "taskloop" ELSE @],
                          [at |-> "none", info |-> 0])
            /\ cur' = IF th["main"].at = "awake" THEN 0 ELSE base
    /\ UNCHANGED <<medium, pkts, radio, transmit, receiving, issued, infos, queues, state>>

\* SendDone interrupt: the packet leaves the IP layer, and a postponed one is next
SendDone ==
    /\ At("sendDone") /\ ipaq # <<>>
    /\ ipaq' = Tail(ipaq)
    /\ IF postponed = <<>>
       THEN /\ Copy(infos[Head(ipaq).info])
            /\ th' = Both(th["main"], [at |-> "sent", info |-> Fresh])
            /\ UNCHANGED <<tasks, postponed>>
       ELSE /\ Copy(infos[Head(postponed).info]) /\ postponed' = Tail(postponed)
            /\ tasks' = Append(tasks, [service |-> "sendTask", info |-> Fresh])
            /\ th' = Both(Thread(th["main"]), [at |-> "sent", info |-> Fresh])
    /\ cur' = Fresh
    /\ state' = [state EXCEPT !.busy = FALSE]
    /\ UNCHANGED <<medium, pkts, radio, transmit, receiving, issued, pending, base, rxfifo>>

-----------------------------------------------------------------------------
(* Statements of the device file, and the callbacks its triggers invoke     *)

StageDone ==
    /\ th[Running].at \in Stages /\ Goto(After[th[Running].at])
    /\ UNCHANGED <<medium, pkts, radio, transmit, receiving, issued, pending, base, infos,
                   queues, state>>

\* task_loop: LOOP over the queue of posted tasks
Dequeue ==
    /\ At("dequeue")
    /\ Enter(Head(tasks).service, Head(tasks).info) /\ tasks' = Tail(tasks)
    /\ UNCHANGED <<medium, pkts, radio, transmit, receiving, issued, pending, base, infos,
                   rxfifo, ipaq, postponed, state>>

\* the end of a service: back to task_loop, and to sleep when no task is left
Return ==
    /\ Running = "main" /\ At("return")
    /\ Enter(IF tasks = <<>> THEN "asleep" ELSE "taskloop", 0)
    /\ UNCHANGED <<medium, pkts, radio, transmit, receiving, issued, pending, base, infos,
                   queues, state>>

\* When nothing waits to be read, the next packet raises an interrupt again,
\* and a FIFO that overflowed is emptied
Flushed(r) == IF r.overflow /\ r.bytes > 0 THEN [r EXCEPT !.overflow = FALSE, !.bytes = 0] ELSE r
RestBug(r) == /\ receiving' = receiving
              /\ radio' = IF rxfifo = <<>> THEN Flushed(r) ELSE r
Rest(r) == /\ receiving' = (receiving /\ rxfifo # <<>>)
           /\ radio' = IF rxfifo = <<>> THEN Flushed(r) ELSE r

ReadOut(p) == LET left == (radio.bytes - size[p]) % Modulus
              IN  [radio EXCEPT !.bytes = left, !.overflow = @ /\ left # 0]

ReadDonePayload ==
    /\ At("readDone") /\ Goto("check")
    /\ LET p == Target("readdonepayload")
       IN  CASE p = None -> UNCHANGED <<radio, receiving, infos, state>>
             [] p # None /\ collided[p] ->
                  /\ Rest(ReadOut(p)) /\ infos' = Invoked("readdonepayload")
                  /\ state' = [state EXCEPT !.collided = TRUE]
             [] p # None /\ ~collided[p] ->
                  /\ radio' = ReadOut(p) /\ infos' = Chained("readdonepayload", "receivedone", p)
                  /\ state' = [state EXCEPT !.collided = FALSE] /\ UNCHANGED receiving
    /\ UNCHANGED <<medium, pkts, transmit, issued, pending, base, queues>>

CheckIfPacketCollided ==
    /\ At("check") /\ cur' = here
    /\ IF state.collided
       THEN th' = [th EXCEPT ![Running].at = "readNext"] /\ UNCHANGED tasks
       ELSE /\ tasks' = Append(tasks, [service |-> "receive", info |-> here])
            /\ th' = [Both(Thread(th["main"]), th["irq"]) EXCEPT ![Running].at = "return"]
    /\ UNCHANGED <<medium, pkts, radio, transmit, receiving, issued, pending, base, infos,
                   rxfifo, ipaq, postponed, state>>

ReadNextPacketInRxfifo ==
    /\ At("readNext")
    /\ IF rxfifo = <<>>
       THEN Goto("return") /\ UNCHANGED <<rxfifo, infos>>
       ELSE Copy(Head(rxfifo)) /\ Enter("writing", Fresh) /\ rxfifo' = Tail(rxfifo)
    /\ UNCHANGED <<medium, pkts, radio, transmit, receiving, issued, pending, base,
                   tasks, ipaq, postponed, state>>

Full    == Len(ipaq) >= IpaqSize

ReceiveDoneTask ==
    /\ At("receive") /\ Goto("receiveDone")
    /\ LET p == Target("receivedone")
       IN  IF p = None
           THEN UNCHANGED <<radio, receiving, infos, state>>
           ELSE /\ state' = [state EXCEPT !.full = Full]
                /\ infos' = IF Full THEN Invoked("receivedone")
                            ELSE Chained("receivedone", "sendtask", p)
                /\ Rest(radio)
    /\ UNCHANGED <<medium, pkts, transmit, issued, pending, base, queues>>

\* STATECOND ipaq-full, and ENQUEUE to the drop-tail queue ipaq
IpaqFull ==
    /\ At("ipaqFull") /\ Goto(IF state.full THEN "dropping" ELSE "queueing")
    /\ ipaq' = IF state.full \/ Len(ipaq) >= IpaqSize THEN ipaq ELSE Append(ipaq, [info |-> here])
    /\ UNCHANGED <<medium, pkts, radio, transmit, receiving, issued, pending, base, infos,
                   tasks, rxfifo, postponed, state>>

PostSendTask ==
    /\ At("post") /\ Goto("readNext")
    /\ tasks' = Append(tasks, [service |-> "sendTask", info |-> here])
    /\ UNCHANGED <<medium, pkts, radio, transmit, receiving, issued, pending, base, infos,
                   rxfifo, ipaq, postponed, state>>

\* sendTask() takes the radio, if the info holds the callback
TakesBug(p) == FALSE
Takes(p)    == p # None

SendTask ==
    /\ At("sendTask")
    /\ CASE state.busy ->
              /\ postponed' = Append(postponed, [info |-> here]) /\ Goto("return")
              /\ UNCHANGED <<infos, state>>
         [] ~state.busy /\ ipaq = <<>> ->
              Goto("return") /\ UNCHANGED <<infos, state, postponed>>
         [] ~state.busy /\ ipaq # <<>> ->
              /\ Goto("loading") /\ UNCHANGED postponed
              /\ LET p == Target("sendtask")
                 IN  /\ infos' = IF p = None THEN infos ELSE Chained("sendtask", "writtentotxfifo", p)
                     /\ state' = [state EXCEPT !.busy = Takes(p)]
    /\ UNCHANGED <<medium, pkts, radio, transmit, receiving, issued, pending, base,
                   tasks, rxfifo, ipaq>>

WrittenToTxFifo ==
    /\ At("written") /\ Goto("transmitting")
    /\ LET p == Target("writtentotxfifo")
       IN  IF p = None THEN UNCHANGED <<radio, transmit, infos>>
           ELSE Written(p, transmit) /\ infos' = Invoked("writtentotxfifo")
    /\ UNCHANGED <<medium, pkts, receiving, issued, pending, base, queues, state>>

-----------------------------------------------------------------------------

Statement ==
    \/ Dequeue \/ Return \/ ReadDonePayload \/ CheckIfPacketCollided \/ ReadNextPacketInRxfifo
    \/ ReceiveDoneTask \/ IpaqFull \/ PostSendTask \/ SendTask \/ WrittenToTxFifo
    \/ SendDone \/ EndOfInterrupt

Next ==
    \/ \E p \in Packets : SendPacket(p)
    \/ ReceivePacket
    \/ \E k \in DOMAIN transmit : Retry(k) \/ FinishedTransmitting(k)
    \/ \E k \in DOMAIN issued : IssueInterrupt(k)
    \/ StageDone
    \/ Statement

Spec == Init /\ [][Next]_vars

-----------------------------------------------------------------------------
(* Properties                                                               *)

\* Nothing is scheduled and no thread computes.
AtRest == /\ air = None /\ transmit = <<>> /\ issued = <<>>
          /\ th["irq"].at = "none" /\ th["main"].at = "asleep"

\* The SendDone interrupt always finds a packet in ipaq: an empty queue would give
\* a null pointer to the copy constructor (thread.cc:912-916).
SendDoneHasPacket == At("sendDone") => ipaq # <<>>

\* A mote at rest can go on: the next packet raises an interrupt (receivingPacket),
\* nothing was left in rxfifo, the radio is not taken and the FIFO not overflowed.
NeverStuck == AtRest => /\ ~receiving /\ rxfifo = <<>>
                        /\ ~state.busy /\ ~radio.overflow

\* One packet at a time is between writtenToTxFifo and finishedTransmitting, and only
\* while ip-radio-busy is set.
OneTransmission == transmit # <<>> => Len(transmit) = 1 /\ state.busy

\* The receive FIFO never holds more than its size, and its unsigned counter does not
\* underflow. Only if two packets of different sizes never fit together: with those, a
\* callback for the wrong packet (CorrectPacket) takes more bytes out than came in. And
\* only if packets do not fill the FIFO exactly: then RemoveAtEnd(bytes - 128) takes
\* nothing off the next packet, none of which is in the FIFO (telosb.cc:82-88).
FifoBytes ==
    (\A s, t \in Sizes : FifoSize % s # 0 /\ (s # t => s + t > FifoSize))
        => radio.bytes <= FifoSize

\* telosb-min.device:12-15: "a thread is always working with at max one packet at a
\* time ... multiple threads can run simultaneously and still work with the correct
\* packet": what the callback reads out is the packet of the thread's info.
CorrectPacket ==
    At("readDone") /\ Target("readdonepayload") # None
        => Target("readdonepayload") = infos[here].packet

=============================================================================
