--------------------------- MODULE SchedulerProofs ---------------------------
(* Theorems about module Scheduler, for every set of threads, programs,      *)
(* semaphores and CPUs that SchedulerAssumption admits.                       *)
EXTENDS SchedulerProps, TLAPS

(* A callback that executes statements runs on behalf of a thread, and while  *)
(* that is an interrupt thread its controller handles an interrupt: the       *)
(* running thread always has a program.                                        *)
Programmed ==
  ctl.at \in {"run", "wakeup", "check"} =>
    /\ ctl.me \in Tids
    /\ ctl.me < 0 => handled[0 - ctl.me] # NoIrq

(* Until the idle threads are set up nothing else can happen; from then on     *)
(* every CPU has a current thread.                                             *)
Starting == /\ nowq = <<Event("setup", NoPid), Event("schedule", NoPid)>>
            /\ ctl = Main
            /\ due = {}
Started  == base \in [Cpus -> Pids]

TypeInv == TypeOK /\ Programmed /\ (Starting \/ Started)

-----------------------------------------------------------------------------
(* The identities of threads and CPUs. *)
LEMMA Identities ==
  /\ Cpus \subseteq Int /\ Tids \subseteq Int
  /\ Cpus \subseteq Pids /\ Workers \subseteq Pids /\ Pids \subseteq Tids
  /\ NoPid \notin Tids
  /\ 1 \in Cpus
  /\ \A c \in Cpus : Irq(c) \in Tids /\ 0 - Irq(c) = c
  /\ \A t \in Tids : t < 0 => 0 - t \in Cpus
  /\ \A t \in Tids : ~(t < 0) /\ ~IsIdle(t) => t \in Workers
<1>1. NumCpu \in Nat /\ NumCpu > 0 /\ NumThreads \in Nat
  BY SchedulerAssumption DEF SchedulerAssumption
<1>2. /\ Cpus \subseteq Int /\ Cpus \subseteq Pids /\ Workers \subseteq Pids
      /\ Pids \subseteq Int /\ Pids \subseteq Tids /\ 1 \in Cpus
  BY <1>1 DEF Cpus, Pids, Tids, Workers
<1>3. \A c \in Cpus : Irq(c) \in Tids /\ Irq(c) \in Int /\ Irq(c) < 0 /\ 0 - Irq(c) = c
  BY <1>2, <1>1 DEF Tids, Irq, Cpus
<1>4. \A t \in Tids : t \in Pids \/ \E c \in Cpus : t = Irq(c)
  BY DEF Tids
<1>5. \A t \in Pids : t > 0
  BY <1>1 DEF Pids
<1>6. \A t \in Tids : t \in Int /\ (t < 0 => 0 - t \in Cpus)
  BY <1>2, <1>3, <1>4, <1>5
<1>7. \A t \in Tids : ~(t < 0) /\ ~IsIdle(t) => t \in Workers
  BY <1>1, <1>3, <1>4 DEF IsIdle, Workers, Pids
<1>8. NoPid \notin Tids
  BY <1>3, <1>4, <1>5 DEF NoPid
<1> QED
  BY <1>2, <1>3, <1>6, <1>7, <1>8

(* A program of the device file is a non-empty sequence of statements. *)
LEMMA ProgramType ==
  ASSUME TypeInv, ctl.at = "run"
  PROVE  /\ Program(ctl.me) \in Seq([op : {"process"}] \cup Statements)
         /\ Program(ctl.me) # <<>>
         /\ ctl.me < 0 => Program(ctl.me) = IrqProg[handled[0 - ctl.me]]
                          /\ handled[0 - ctl.me] \in IrqKinds
<1>0. ctl.me \in Tids
  BY DEF TypeInv, Programmed
<1>1. CASE ctl.me < 0
  <2>1. 0 - ctl.me \in Cpus
    BY <1>1, <1>0, Identities
  <2>2. handled[0 - ctl.me] \in IrqKinds
    BY <1>1, <2>1 DEF TypeInv, TypeOK, Programmed
  <2> DEFINE served == {st \in Statements : st.op \notin {"sleep", "down"}}
  <2>3. IrqProg[handled[0 - ctl.me]] \in Seq(served) \ {<<>>}
    BY <2>2, SchedulerAssumption DEF SchedulerAssumption
  <2>4. served \subseteq [op : {"process"}] \cup Statements
    OBVIOUS
  <2>5. Seq(served) \subseteq Seq([op : {"process"}] \cup Statements)
    <3> HIDE DEF served
    <3> QED
      BY <2>4
  <2> QED
    BY <1>1, <2>2, <2>3, <2>5 DEF Program
<1>2. CASE ~(ctl.me < 0) /\ IsIdle(ctl.me)
  BY <1>2 DEF Program
<1>3. CASE ~(ctl.me < 0) /\ ~IsIdle(ctl.me)
  <2>1. ctl.me \in Workers
    BY <1>0, <1>3, Identities
  <2> QED
    BY <1>3, <2>1, SchedulerAssumption DEF Program, SchedulerAssumption
<1> QED
  BY <1>1, <1>2, <1>3

(* What the next statement of the running thread names. *)
LEMMA StatementType ==
  ASSUME TypeInv, NEW o, Statement(o)
  PROVE  /\ ctl.me \in Tids
         /\ pc' \in [Tids -> Nat]
         /\ o \in {"down", "up"} => Arg \in Sems
         /\ o = "awake" => Arg \in Workers
         /\ o = "raise" => Arg \in IrqKinds
<1> DEFINE st == Program(ctl.me)[NextPc(ctl.me)]
<1>1. ctl.at = "run" /\ ctl.me \in Tids /\ st.op = o
  BY DEF Statement, TypeInv, Programmed
<1>2. pc[ctl.me] \in Nat
  BY <1>1 DEF TypeInv, TypeOK
<1>3. Program(ctl.me) \in Seq([op : {"process"}] \cup Statements) /\ Program(ctl.me) # <<>>
  BY <1>1, ProgramType
<1>4. NextPc(ctl.me) \in 1 .. Len(Program(ctl.me))
  BY <1>2, <1>3 DEF NextPc
<1>5. st \in [op : {"process"}] \cup Statements
  BY <1>3, <1>4
<1>6. pc' \in [Tids -> Nat]
  <2>1. NextPc(ctl.me) \in Nat
    BY <1>3, <1>4
  <2>2. pc' = [pc EXCEPT ![ctl.me] = NextPc(ctl.me)] /\ pc \in [Tids -> Nat]
    BY DEF Statement, TypeInv, TypeOK
  <2> QED
    BY <2>1, <2>2
<1>7. /\ o \in {"down", "up"} => st.arg \in Sems
      /\ o = "awake" => st.arg \in Workers
      /\ o = "raise" => st.arg \in IrqKinds
  <2> HIDE DEF st
  <2> QED
    BY <1>1, <1>5 DEF Statements
<1> QED
  BY <1>1, <1>6, <1>7 DEF Arg

-----------------------------------------------------------------------------
(* The parts of a step that several actions share keep the types. *)
LEMMA TimerTypes ==
  /\ \A tm \in [live : BOOLEAN, lost : Nat] :
       Consumed(tm) \in [live : BOOLEAN, lost : Nat] /\ Cancelled(tm) \in [live : BOOLEAN, lost : Nat]
  /\ TypeOK => \A c \in Cpus : Stopped(c) \in [Tids -> [live : BOOLEAN, lost : Nat]]
<1>1. \A tm \in [live : BOOLEAN, lost : Nat] :
        Consumed(tm) \in [live : BOOLEAN, lost : Nat] /\ Cancelled(tm) \in [live : BOOLEAN, lost : Nat]
  <2> TAKE tm \in [live : BOOLEAN, lost : Nat]
  <2>1. tm.lost \in Nat /\ tm = [live |-> tm.live, lost |-> tm.lost]
    OBVIOUS
  <2>2. tm.lost + (IF tm.live THEN 1 ELSE 0) \in Nat
    BY <2>1
  <2>3. Consumed(tm) \in [live : BOOLEAN, lost : Nat]
    BY <2>2 DEF Consumed
  <2>4. Cancelled(tm) \in [live : BOOLEAN, lost : Nat]
    BY <2>1 DEF Cancelled
  <2> QED
    BY <2>3, <2>4
<1>2. ASSUME TypeOK, NEW c \in Cpus
      PROVE  Stopped(c) \in [Tids -> [live : BOOLEAN, lost : Nat]]
  <2>1. timer \in [Tids -> [live : BOOLEAN, lost : Nat]]
    BY <1>2 DEF TypeOK
  <2> QED
    BY <1>1, <2>1 DEF Stopped
<1> QED
  BY <1>1, <1>2

(* Queueing an event for now or for later keeps the types of the events. *)
LEMMA EventTypes ==
  /\ \A t \in Tids : Event("dispatch", t) \in Events
  /\ \A f \in {"setup", "schedule"} : Event(f, NoPid) \in Events
  /\ \A c \in Cpus, k \in IrqKinds :
       [Event("issue", c) EXCEPT !.kind = k] \in Events
BY DEF Event, Events

(* The main loop and a thread that runs are positions of the control. *)
LEMMA CtlTypes ==
  /\ Main \in Ctls
  /\ \A t \in Tids : Running(t) \in Ctls /\ Running(t).me = t /\ Running(t).at = "run"
<1>1. 1 \in Cpus /\ 1 \in 1 .. NumCpu + 1
  BY SchedulerAssumption DEF SchedulerAssumption, Cpus
<1> QED
  BY <1>1 DEF Main, Running, Ctls

(* Preempting a running thread keeps the types. *)
LEMMA PreEmptTypes ==
  ASSUME TypeOK, NEW c \in Cpus, NEW new \in Pids, NEW q \in Seq(Events), PreEmpt(c, new, q)
  PROVE  /\ timer' \in [Tids -> [live : BOOLEAN, lost : Nat]]
         /\ thrCpu' \in [Tids -> Cpus]
         /\ base' \in [Cpus -> Pids \cup {NoPid}]
         /\ Started => Started'
         /\ nowq' \in Seq(Events)
<1>1. new \in Tids
  BY Identities
<1>2. timer' \in [Tids -> [live : BOOLEAN, lost : Nat]]
  BY TimerTypes DEF PreEmpt, TypeOK
<1>3. nowq' \in Seq(Events)
  BY <1>1, EventTypes DEF PreEmpt
<1> QED
  BY <1>1, <1>2, <1>3 DEF PreEmpt, TypeOK, Started

(* Starting an interrupt on a CPU keeps the types. *)
LEMMA InterruptTypes ==
  ASSUME TypeOK, NEW c \in Cpus, NEW k \in IrqKinds, NEW q \in Seq(Events), Interrupt(c, k, q)
  PROVE  /\ inInt' \in [Cpus -> BOOLEAN]
         /\ handled' \in [Cpus -> IrqKinds \cup {NoIrq}]
         /\ pc' \in [Tids -> Nat]
         /\ timer' \in [Tids -> [live : BOOLEAN, lost : Nat]]
         /\ nowq' \in Seq(Events)
<1>1. Irq(c) \in Tids
  BY Identities
<1>2. nowq' \in Seq(Events)
  BY <1>1, EventTypes DEF Interrupt
<1>3. timer' \in [Tids -> [live : BOOLEAN, lost : Nat]]
  BY TimerTypes DEF Interrupt
<1> QED
  BY <1>2, <1>3 DEF Interrupt, TypeOK

(* Requesting an interrupt, whether it starts or waits, keeps the types. *)
LEMMA IssueTypes ==
  ASSUME TypeOK, NEW c \in Cpus, NEW k \in IrqKinds, NEW q \in Seq(Events), Issue(c, k, q)
  PROVE  /\ inInt' \in [Cpus -> BOOLEAN]
         /\ handled' \in [Cpus -> IrqKinds \cup {NoIrq}]
         /\ pending' \in [Cpus -> Seq(IrqKinds)]
         /\ pc' \in [Tids -> Nat]
         /\ timer' \in [Tids -> [live : BOOLEAN, lost : Nat]]
         /\ nowq' \in Seq(Events)
<1>1. CASE handled[c] = NoIrq
  BY <1>1, InterruptTypes DEF Issue, TypeOK
<1>2. CASE handled[c] # NoIrq
  <2>1. UNCHANGED <<inInt, handled, pc, timer>> /\ nowq' = q
    BY <1>2 DEF Issue
  <2>2. Append(pending[c], k) \in Seq(IrqKinds) /\ pending \in [Cpus -> Seq(IrqKinds)]
    BY DEF TypeOK
  <2>3. pending' \in {pending, [pending EXCEPT ![c] = Append(@, k)]}
    BY <1>2 DEF Issue
  <2>4. pending' \in [Cpus -> Seq(IrqKinds)]
    BY <2>2, <2>3
  <2> QED
    BY <2>1, <2>4 DEF TypeOK
<1> QED
  BY <1>1, <1>2

(* Dispatching a thread on a CPU keeps the types. *)
LEMMA DispatchTypes ==
  ASSUME TypeOK, NEW t \in Tids, NEW d \in BOOLEAN,
         NEW tm \in [live : BOOLEAN, lost : Nat], Dispatch(t, d, tm), ctl.at = "main"
  PROVE  /\ done' \in [Tids -> BOOLEAN]
         /\ timer' \in [Tids -> [live : BOOLEAN, lost : Nat]]
         /\ ctl' \in Ctls
         /\ ctl' # ctl => ctl'.me = t /\ (t < 0 => handled[0 - t] # NoIrq)
<1>1. timer' \in [Tids -> [live : BOOLEAN, lost : Nat]]
  BY TimerTypes DEF Dispatch, TypeOK
<1>2. ctl' \in Ctls
  BY CtlTypes DEF Dispatch, TypeOK
<1>3. ctl' # ctl => ctl'.me = t /\ (t < 0 => handled[0 - t] # NoIrq)
  BY CtlTypes DEF Dispatch
<1> QED
  BY <1>1, <1>2, <1>3 DEF Dispatch, TypeOK

(* Moving the control to the first CPU or to the next keeps its type. *)
LEMMA CtlUpdates ==
  ASSUME NEW x \in Ctls
  PROVE  /\ \A w \in {"schedule", "check"} :
              [x EXCEPT !.at = w, !.cpu = 1] \in Ctls /\ [x EXCEPT !.at = w, !.cpu = 1].at = w
                /\ [x EXCEPT !.at = w, !.cpu = 1].me = x.me
         /\ x.cpu <= NumCpu => \A g \in BOOLEAN :
              /\ x.cpu \in Cpus
              /\ [x EXCEPT !.cpu = @ + 1] \in Ctls
              /\ [x EXCEPT !.cpu = @ + 1].at = x.at /\ [x EXCEPT !.cpu = @ + 1].me = x.me
              /\ [x EXCEPT !.cpu = @ + 1, !.go = g] \in Ctls
              /\ [x EXCEPT !.cpu = @ + 1, !.go = g].at = x.at
              /\ [x EXCEPT !.cpu = @ + 1, !.go = g].me = x.me
<1> DEFINE prevs == [Cpus -> Pids \cup {NoPid}]
           ats   == {"main", "schedule", "run", "wakeup", "check"}
           rec   == [at : ats, me : Tids \cup {NoPid}, cpu : 1 .. NumCpu + 1, on : Cpus,
                     prev : prevs, go : BOOLEAN]
<1>1. NumCpu \in Nat \ {0} /\ x.cpu \in 1 .. NumCpu + 1
  BY SchedulerAssumption DEF SchedulerAssumption, Ctls
<1>2. 1 \in 1 .. NumCpu + 1 /\ (x.cpu <= NumCpu => x.cpu + 1 \in 1 .. NumCpu + 1 /\ x.cpu \in Cpus)
  BY <1>1 DEF Cpus
<1>3. x \in rec /\ rec = Ctls /\ {"schedule", "check"} \subseteq ats
  BY DEF Ctls
<1> HIDE DEF prevs, ats
<1> QED
  BY <1>2, <1>3

(* A request leaves the control at its first CPU, with the thread it came from. *)
LEMMA RequestTypes ==
  ASSUME TypeOK, NEW w \in {"check", "wakeup"}, NEW was \in [Cpus -> Pids \cup {NoPid}],
         ctl.me \in Tids, Request(w, was)
  PROVE  ctl' \in Ctls /\ ctl'.me = ctl.me
<1>1. 1 \in 1 .. NumCpu + 1 /\ thrCpu[ctl.me] \in Cpus
  BY SchedulerAssumption DEF SchedulerAssumption, TypeOK
<1> QED
  BY <1>1 DEF Request, Ctls

(* Rescheduling a CPU keeps the types. *)
LEMMA RescheduleTypes ==
  ASSUME TypeOK, NEW c \in Cpus, RescheduleCPU(c)
  PROVE  runq' \in Seq(Pids) /\ cur' \in [Cpus -> Pids]
<1>1. runq # <<>> => Head(runq) \in Pids /\ Tail(runq) \in Seq(Pids)
  BY DEF TypeOK
<1>2. c \in Pids
  BY Identities
<1> QED
  BY <1>1, <1>2 DEF RescheduleCPU, TypeOK

(* Setting up the idle threads makes every CPU's idle thread current. *)
LEMMA TypeInvSetup ==
  ASSUME TypeInv, SetupIdleThreads
  PROVE  TypeOK' /\ Programmed' /\ Started'
<1>1. base' \in [Cpus -> Pids] /\ Tail(nowq) \in Seq(Events) /\ ctl.at = "main"
  BY DEF SetupIdleThreads, Now, TypeInv, TypeOK
<1>2. timer' \in [Tids -> [live : BOOLEAN, lost : Nat]]
  BY TimerTypes DEF SetupIdleThreads, TypeInv, TypeOK
<1>3. thrCpu' \in [Tids -> Cpus] /\ pc' \in [Tids -> Nat] /\ done' \in [Tids -> BOOLEAN]
  BY DEF SetupIdleThreads, TypeInv, TypeOK
<1> QED
  BY <1>1, <1>2, <1>3 DEF SetupIdleThreads, Now, TypeInv, TypeOK, Programmed, Started, schedVars, irqVars

(* One step keeps the types, once the idle threads are set up. *)
LEMMA TypeInvStep ==
  ASSUME TypeInv, Started, Next
  PROVE  TypeOK' /\ Programmed' /\ Started'
<1>1. CASE DispatchNow
  <2> DEFINE t == Head(nowq).arg
  <2>1. nowq # <<>> /\ Head(nowq) \in Events /\ Head(nowq).fn = "dispatch" /\ ctl.at = "main"
    BY <1>1 DEF DispatchNow, Now, TypeInv, TypeOK
  <2>2. t \in Tids
    BY <2>1 DEF Events
  <2>3. done[t] \in BOOLEAN /\ timer[t] \in [live : BOOLEAN, lost : Nat]
    BY <2>2 DEF TypeInv, TypeOK
  <2>4. Dispatch(t, done[t], timer[t])
    BY <1>1 DEF DispatchNow
  <2> HIDE DEF t
  <2>5. /\ done' \in [Tids -> BOOLEAN]
        /\ timer' \in [Tids -> [live : BOOLEAN, lost : Nat]]
        /\ ctl' \in Ctls
        /\ ctl' # ctl => ctl'.me = t /\ (t < 0 => handled[0 - t] # NoIrq)
    BY <2>1, <2>2, <2>3, <2>4, DispatchTypes DEF TypeInv
  <2>6. Tail(nowq) \in Seq(Events)
    BY <2>1 DEF TypeInv, TypeOK
  <2> QED
    BY <1>1, <2>1, <2>2, <2>5, <2>6 DEF DispatchNow, Now, TypeInv, TypeOK, Programmed, Started, schedVars, irqVars
<1>2. CASE IssueNow
  <2> DEFINE c == Head(nowq).arg
             k == Head(nowq).kind
  <2>1. nowq # <<>> /\ Head(nowq) \in Events /\ Head(nowq).fn = "issue" /\ ctl.at = "main"
    BY <1>2 DEF IssueNow, Now, TypeInv, TypeOK
  <2>2. c \in Cpus /\ k \in IrqKinds
    BY <2>1 DEF Events
  <2>3. Tail(nowq) \in Seq(Events)
    BY <2>1 DEF TypeInv, TypeOK
  <2>4. Issue(c, k, Tail(nowq))
    BY <1>2 DEF IssueNow
  <2> HIDE DEF c, k
  <2>5. /\ inInt' \in [Cpus -> BOOLEAN]
        /\ handled' \in [Cpus -> IrqKinds \cup {NoIrq}]
        /\ pending' \in [Cpus -> Seq(IrqKinds)]
        /\ pc' \in [Tids -> Nat]
        /\ timer' \in [Tids -> [live : BOOLEAN, lost : Nat]]
        /\ nowq' \in Seq(Events)
    BY <2>2, <2>3, <2>4, IssueTypes DEF TypeInv
  <2> QED
    BY <1>2, <2>1, <2>5 DEF IssueNow, Now, TypeInv, TypeOK, Programmed, Started, schedVars
<1>3. CASE ScheduleNow
  <2>1. nowq # <<>> /\ Tail(nowq) \in Seq(Events) /\ ctl.at = "main"
    BY <1>3 DEF ScheduleNow, Now, TypeInv, TypeOK
  <2>2. ctl' \in Ctls /\ ctl'.at = "schedule"
    BY <1>3, CtlUpdates DEF ScheduleNow, TypeInv, TypeOK
  <2> QED
    BY <1>3, <2>1, <2>2 DEF ScheduleNow, Now, TypeInv, TypeOK, Programmed, Started, schedVars, runVars, irqVars
<1>4. CASE ScheduleEnd
  BY <1>4, CtlTypes DEF ScheduleEnd, Rearm, Main, TypeInv, TypeOK, Programmed, Started, schedVars, runVars, irqVars
<1>5. CASE Process
  <2>1. ctl.me \in Tids /\ pc' \in [Tids -> Nat]
    BY <1>5, StatementType DEF Process
  <2>2. timer' \in [Tids -> [live : BOOLEAN, lost : Nat]]
    BY <1>5, TimerTypes DEF Process, TypeInv, TypeOK
  <2> QED
    BY <1>5, <2>1, <2>2, CtlTypes DEF Process, Main, TypeInv, TypeOK, Programmed, Started, schedVars, irqVars, simVars
<1>6. CASE Raise
  <2>1. ctl.me \in Tids /\ pc' \in [Tids -> Nat] /\ Arg \in IrqKinds
    BY <1>6, StatementType DEF Raise
  <2>2. thrCpu[ctl.me] \in Cpus
    BY <2>1 DEF TypeInv, TypeOK
  <2>3. nowq' \in Seq(Events)
    BY <1>6, <2>1, <2>2, EventTypes DEF Raise, TypeInv, TypeOK
  <2> QED
    BY <1>6, <2>1, <2>3 DEF Raise, TypeInv, TypeOK, Programmed, Started, schedVars, runVars, irqVars, simVars
<1>7. CASE ScheduleCpu
  <2> DEFINE c == ctl.cpu
             rotate == runq # <<>> /\ Head(runq) # cur[c]
  <2>0. ctl.at = "schedule" /\ c <= NumCpu /\ ctl' = [ctl EXCEPT !.cpu = @ + 1] /\ ctl \in Ctls
    BY <1>7 DEF ScheduleCpu, TypeInv, TypeOK
  <2>1. ctl.at = "schedule" /\ c \in Cpus /\ ctl' \in Ctls /\ ctl'.at = "schedule"
    BY <2>0, CtlUpdates
  <2>2. /\ cur[c] \in Pids /\ c \in Pids
        /\ rotate => Head(runq) \in Pids /\ Tail(runq) \in Seq(Pids)
                     /\ Append(Tail(runq), cur[c]) \in Seq(Pids)
    <3>1. cur[c] \in Pids /\ c \in Pids
      BY <2>1, Identities DEF TypeInv, TypeOK
    <3>2. runq # <<>> => Head(runq) \in Pids /\ Tail(runq) \in Seq(Pids)
      BY DEF TypeInv, TypeOK
    <3>3. runq # <<>> => Append(Tail(runq), cur[c]) \in Seq(Pids)
      BY <3>1, <3>2
    <3> QED
      BY <3>1, <3>2, <3>3
  <2>3. /\ runq' \in Seq(Pids) /\ cur' \in [Cpus -> Pids] /\ ticks' \in Nat
        /\ base' \in [Cpus -> Pids \cup {NoPid}] /\ thrCpu' \in [Tids -> Cpus]
        /\ timer' \in [Tids -> [live : BOOLEAN, lost : Nat]] /\ nowq' \in Seq(Events)
        /\ Started'
    <3>1. CASE ~AllowNested /\ inInt[c]
      BY <1>7, <2>1, <3>1 DEF ScheduleCpu, runVars, TypeInv, TypeOK, Started
    <3>2. CASE ~(~AllowNested /\ inInt[c]) /\ ~rotate
      BY <1>7, <2>1, <2>2, <3>2 DEF ScheduleCpu, runVars, TypeInv, TypeOK, Started
    <3>3. CASE ~(~AllowNested /\ inInt[c]) /\ rotate
      <4>1. /\ PreEmpt(c, Head(runq), nowq) /\ UNCHANGED ticks
            /\ runq' = IF IsIdle(cur[c]) THEN Tail(runq) ELSE Append(Tail(runq), cur[c])
            /\ cur' = [cur EXCEPT ![c] = Head(runq)]
        BY <1>7, <3>3 DEF ScheduleCpu
      <4> QED
        BY <2>1, <2>2, <3>3, <4>1, PreEmptTypes DEF TypeInv, TypeOK
    <3> QED
      BY <3>1, <3>2, <3>3
  <2> QED
    BY <1>7, <2>1, <2>3 DEF ScheduleCpu, TypeInv, TypeOK, Programmed, irqVars
<1>8. CASE SemDown
  <2> DEFINE s == Arg
             c == thrCpu[ctl.me]
  <2>1. ctl.me \in Tids /\ pc' \in [Tids -> Nat] /\ s \in Sems
    BY <1>8, StatementType DEF SemDown
  <2>2. c \in Cpus /\ cur[c] \in Pids /\ cur \in [Cpus -> Pids \cup {NoPid}]
    BY <2>1 DEF TypeInv, TypeOK
  <2>3. /\ semval' \in [Sems -> Nat] /\ semq' \in [Sems -> Seq(Pids)]
        /\ runq' \in Seq(Pids) /\ cur' \in [Cpus -> Pids]
        /\ ctl' \in Ctls /\ ctl'.me = ctl.me
    <3>1. CASE Available(s)
      <4>1. semval' = [semval EXCEPT ![s] = @ - 1] /\ UNCHANGED <<semq, runq, cur, ctl>>
        BY <1>8, <3>1 DEF SemDown
      <4>2. semval[s] - 1 \in Nat
        BY <2>1, <3>1 DEF Available, TypeInv, TypeOK
      <4> QED
        BY <4>1, <4>2 DEF TypeInv, TypeOK
    <3>2. CASE ~Available(s)
      <4>1. /\ semq' = [semq EXCEPT ![s] = Append(@, cur[c])]
            /\ RescheduleCPU(c) /\ Request("check", cur) /\ UNCHANGED semval
        BY <1>8, <3>2 DEF SemDown
      <4>2. Append(semq[s], cur[c]) \in Seq(Pids)
        BY <2>1, <2>2 DEF TypeInv, TypeOK
      <4> QED
        BY <2>1, <2>2, <4>1, <4>2, RescheduleTypes, RequestTypes DEF TypeInv, TypeOK
    <3> QED
      BY <3>1, <3>2
  <2>4. ctl.at = "run"
    BY <1>8 DEF SemDown, Statement
  <2> QED
    BY <1>8, <2>1, <2>3, <2>4
       DEF SemDown, TypeInv, TypeOK, Programmed, Started, runVars, irqVars, simVars
<1>9. CASE SemUp
  <2> DEFINE s == Arg
  <2>1. ctl.me \in Tids /\ pc' \in [Tids -> Nat] /\ s \in Sems /\ ctl.at = "run"
    BY <1>9, StatementType DEF SemUp, Statement
  <2>2. cur \in [Cpus -> Pids \cup {NoPid}] /\ semval[s] \in Nat /\ PassedOn(semval[s]) \in Nat
    BY <2>1 DEF TypeInv, TypeOK, PassedOn
  <2>3. /\ semval' \in [Sems -> Nat] /\ semq' \in [Sems -> Seq(Pids)]
        /\ runq' \in Seq(Pids) /\ ctl' \in Ctls /\ ctl'.me = ctl.me
    <3>1. CASE ~HasWaiter(s)
      <4>1. semval' = [semval EXCEPT ![s] = @ + 1] /\ UNCHANGED <<semq, runq, ctl>>
        BY <1>9, <3>1 DEF SemUp
      <4>2. semval \in [Sems -> Nat] /\ semval[s] + 1 \in Nat
        BY <2>2 DEF TypeInv, TypeOK
      <4>3. semval' \in [Sems -> Nat]
        BY <4>1, <4>2
      <4> QED
        BY <4>1, <4>3 DEF TypeInv, TypeOK
    <3>2. CASE HasWaiter(s)
      <4>1. /\ semq' = [semq EXCEPT ![s] = Tail(@)] /\ runq' = Append(runq, Head(semq[s]))
            /\ semval' = [semval EXCEPT ![s] = PassedOn(@)] /\ Request("wakeup", cur)
        BY <1>9, <3>2 DEF SemUp
      <4>2. Head(semq[s]) \in Pids /\ Tail(semq[s]) \in Seq(Pids)
        BY <2>1, <3>2 DEF HasWaiter, TypeInv, TypeOK
      <4>3. Append(runq, Head(semq[s])) \in Seq(Pids)
        BY <4>2 DEF TypeInv, TypeOK
      <4> QED
        BY <2>1, <2>2, <4>1, <4>2, <4>3, RequestTypes DEF TypeInv, TypeOK
    <3> QED
      BY <3>1, <3>2
  <2> QED
    BY <1>9, <2>1, <2>3
       DEF SemUp, TypeInv, TypeOK, Programmed, Started, runVars, irqVars, simVars
<1>10. CASE Sleep
  <2>1. ctl.me \in Tids /\ pc' \in [Tids -> Nat] /\ ctl.at = "run"
    BY <1>10, StatementType DEF Sleep, Statement
  <2>2. thrCpu[ctl.me] \in Cpus /\ base \in [Cpus -> Pids \cup {NoPid}]
    BY <2>1 DEF TypeInv, TypeOK
  <2>3. /\ runq' \in Seq(Pids) /\ cur' \in [Cpus -> Pids]
        /\ ctl' \in Ctls /\ ctl'.me = ctl.me
    BY <1>10, <2>1, <2>2, RescheduleTypes, RequestTypes DEF Sleep, TypeInv
  <2> QED
    BY <1>10, <2>1, <2>3
       DEF Sleep, TypeInv, TypeOK, Programmed, Started, runVars, irqVars, simVars
<1>11. CASE Awake
  <2>1. ctl.me \in Tids /\ pc' \in [Tids -> Nat] /\ Arg \in Pids /\ ctl.at = "run"
    BY <1>11, StatementType, Identities DEF Awake, Statement
  <2>2. base \in [Cpus -> Pids \cup {NoPid}] /\ Append(runq, Arg) \in Seq(Pids)
    BY <2>1 DEF TypeInv, TypeOK
  <2>3. runq' \in Seq(Pids) /\ blocked' \subseteq Tids /\ ctl' \in Ctls /\ ctl'.me = ctl.me
    BY <1>11, <2>1, <2>2, RequestTypes DEF Awake, TypeInv, TypeOK
  <2> QED
    BY <1>11, <2>1, <2>3
       DEF Awake, TypeInv, TypeOK, Programmed, Started, runVars, irqVars, simVars
<1>12. CASE WakeupIdle
  <2> DEFINE c == ctl.cpu
  <2>1. ctl.at = "wakeup" /\ ctl.me \in Tids /\ ctl \in Ctls
    BY <1>12 DEF WakeupIdle, TypeInv, TypeOK, Programmed
  <2>2. CASE runq = <<>> \/ c > NumCpu
    <3>1. ctl' = [ctl EXCEPT !.at = "check", !.cpu = 1] /\ UNCHANGED <<runq, cur>>
      BY <1>12, <2>2, SchedulerAssumption DEF WakeupIdle, SchedulerAssumption, TypeInv, TypeOK, Ctls
    <3>2. ctl' \in Ctls /\ ctl'.me = ctl.me
      BY <2>1, <3>1, CtlUpdates
    <3> QED
      BY <1>12, <2>1, <3>1, <3>2
         DEF WakeupIdle, TypeInv, TypeOK, Programmed, Started, runVars, irqVars, simVars
  <2>3. CASE runq # <<>> /\ c <= NumCpu
    <3>1. /\ ctl' = [ctl EXCEPT !.cpu = @ + 1]
          /\ \/ cur' = [cur EXCEPT ![c] = Head(runq)] /\ runq' = Tail(runq)
             \/ UNCHANGED <<runq, cur>>
      BY <1>12, <2>3, SchedulerAssumption DEF WakeupIdle, SchedulerAssumption, TypeInv, TypeOK, Ctls
    <3>2. ctl' \in Ctls /\ ctl'.me = ctl.me
      BY <2>1, <2>3, <3>1, CtlUpdates
    <3>3. Head(runq) \in Pids /\ Tail(runq) \in Seq(Pids)
      BY <2>3 DEF TypeInv, TypeOK
    <3>4. runq' \in Seq(Pids) /\ cur' \in [Cpus -> Pids]
      <4>1. runq \in Seq(Pids) /\ cur \in [Cpus -> Pids]
        BY DEF TypeInv, TypeOK
      <4> QED
        BY <3>1, <3>3, <4>1
    <3>5. UNCHANGED <<blocked, semval, semq, runVars, pc, done, irqVars, nowq, simVars>>
      BY <1>12 DEF WakeupIdle
    <3> QED
      BY <2>1, <3>2, <3>4, <3>5
         DEF TypeInv, TypeOK, Programmed, Started, runVars, irqVars, simVars
  <2>4. c > NumCpu \/ c <= NumCpu
    BY <2>1, SchedulerAssumption DEF SchedulerAssumption, Ctls
  <2> QED
    BY <2>2, <2>3, <2>4
<1>13. CASE CheckCpu
  <2> DEFINE c == ctl.cpu
             switch == cur[c] # ctl.prev[c]
             g == ctl.go /\ ~(switch /\ c = ctl.on)
  <2>1. ctl.at = "check" /\ ctl.me \in Tids /\ ctl \in Ctls /\ c \in Cpus
    BY <1>13, CtlUpdates DEF CheckCpu, TypeInv, TypeOK, Programmed
  <2>2. ctl' = [ctl EXCEPT !.cpu = @ + 1, !.go = g] /\ g \in BOOLEAN
    BY <1>13, <2>1 DEF CheckCpu, Ctls
  <2>3. ctl' \in Ctls /\ ctl'.me = ctl.me
    <3> HIDE DEF g
    <3> QED
      BY <1>13, <2>1, <2>2, CtlUpdates DEF CheckCpu
  <2>4. IF switch THEN PreEmpt(c, cur[c], nowq) ELSE UNCHANGED <<runVars, nowq>>
    BY <1>13 DEF CheckCpu
  <2>5. /\ timer' \in [Tids -> [live : BOOLEAN, lost : Nat]]
        /\ thrCpu' \in [Tids -> Cpus]
        /\ base' \in [Cpus -> Pids \cup {NoPid}]
        /\ Started'
        /\ nowq' \in Seq(Events)
    BY <2>1, <2>4, PreEmptTypes DEF TypeInv, TypeOK, Started, runVars
  <2> QED
    BY <1>13, <2>1, <2>3, <2>5 DEF CheckCpu, TypeInv, TypeOK, Programmed, schedVars, irqVars, simVars
<1>14. CASE CheckEnd
  <2>1. ctl.at = "check" /\ ctl.me \in Tids /\ ctl' \in {Running(ctl.me), Main}
    BY <1>14 DEF CheckEnd, TypeInv, Programmed
  <2>2. ctl' \in Ctls /\ (ctl'.at # "main" => ctl'.me = ctl.me)
    <3>1. CASE ctl' = Running(ctl.me)
      BY <2>1, <3>1, CtlTypes
    <3>2. CASE ctl' = Main
      BY <3>2, CtlTypes DEF Main
    <3> QED
      BY <2>1, <3>1, <3>2
  <2> QED
    BY <1>14, <2>1, <2>2
       DEF CheckEnd, Main, TypeInv, TypeOK, Programmed, Started, schedVars, runVars, irqVars, simVars
<1>15. CASE EndOfInterrupt
  <2> DEFINE c == 0 - ctl.me
  <2>1. ctl.me \in Tids /\ c \in Cpus
    BY <1>15, Identities DEF EndOfInterrupt, AtEnd, TypeInv, Programmed
  <2>2. ctl' = Main /\ ctl' \in Ctls /\ ctl'.at = "main"
    BY <1>15, CtlTypes DEF EndOfInterrupt, Main
  <2>3. CASE pending[c] = <<>>
    <3>1. base[c] \in Tids
      BY <2>1, Identities DEF Started
    <3>2. Resumed(c) \in Seq(Events)
      BY <3>1, EventTypes DEF Resumed, TypeInv, TypeOK
    <3>3. /\ inInt' = [inInt EXCEPT ![c] = FALSE] /\ handled' = [handled EXCEPT ![c] = NoIrq]
          /\ nowq' = Resumed(c) /\ UNCHANGED <<pending, pc, timer>>
      BY <1>15, <2>3 DEF EndOfInterrupt
    <3> QED
      BY <1>15, <2>1, <2>2, <3>2, <3>3
         DEF EndOfInterrupt, TypeInv, TypeOK, Programmed, Started, schedVars, simVars
  <2>4. CASE pending[c] # <<>>
    <3>1. Head(pending[c]) \in IrqKinds /\ Tail(pending[c]) \in Seq(IrqKinds)
      BY <2>1, <2>4 DEF TypeInv, TypeOK
    <3>2. /\ pending' = [pending EXCEPT ![c] = Tail(@)]
          /\ Interrupt(c, Head(pending[c]), nowq)
      BY <1>15, <2>4 DEF EndOfInterrupt
    <3>3. /\ inInt' \in [Cpus -> BOOLEAN]
          /\ handled' \in [Cpus -> IrqKinds \cup {NoIrq}]
          /\ pc' \in [Tids -> Nat]
          /\ timer' \in [Tids -> [live : BOOLEAN, lost : Nat]]
          /\ nowq' \in Seq(Events)
      BY <2>1, <3>1, <3>2, InterruptTypes DEF TypeInv, TypeOK
    <3>4. pending' \in [Cpus -> Seq(IrqKinds)]
      BY <3>1, <3>2 DEF TypeInv, TypeOK
    <3> QED
      BY <1>15, <2>1, <2>2, <3>3, <3>4
         DEF EndOfInterrupt, TypeInv, TypeOK, Programmed, Started, schedVars, simVars
  <2> QED
    BY <2>3, <2>4
<1>16. CASE Tick
  <2>1. ctl.at = "main" /\ ticks > 0 /\ ctl' \in Ctls /\ ctl'.at = "schedule"
    BY <1>16, CtlUpdates DEF Tick, Timed, TypeInv, TypeOK
  <2>2. due' \subseteq Tids \cup {TickEvent, Device}
    BY <1>16 DEF Tick, Timed, TimedEvents, TypeInv, TypeOK
  <2>3. ticks' \in Nat
    BY <1>16, <2>1 DEF Tick, TypeInv, TypeOK
  <2> QED
    BY <1>16, <2>1, <2>2, <2>3
       DEF Tick, TypeInv, TypeOK, Programmed, Started, schedVars, runVars, irqVars
<1>17. ASSUME NEW t \in Tids, DoneProcessing(t) PROVE TypeOK' /\ Programmed' /\ Started'
  <2>1. ctl.at = "main" /\ timer[t] \in [live : BOOLEAN, lost : Nat]
    BY <1>17 DEF DoneProcessing, Timed, TypeInv, TypeOK
  <2>2. due' \subseteq Tids \cup {TickEvent, Device}
    BY <1>17 DEF DoneProcessing, Timed, TimedEvents, TypeInv, TypeOK
  <2>3. PICK tm \in [live : BOOLEAN, lost : Nat] : Dispatch(t, TRUE, tm)
    <3>1. CASE timer[t].live /\ Dispatch(t, TRUE, Cancelled(timer[t]))
      BY <2>1, <3>1, TimerTypes
    <3>2. CASE timer[t].lost > 0 /\ Dispatch(t, TRUE, [timer[t] EXCEPT !.lost = @ - 1])
      <4>1. [timer[t] EXCEPT !.lost = @ - 1] \in [live : BOOLEAN, lost : Nat]
        BY <2>1, <3>2
      <4> QED
        BY <3>2, <4>1
    <3> QED
      BY <1>17, <3>1, <3>2 DEF DoneProcessing
  <2>4. /\ done' \in [Tids -> BOOLEAN]
        /\ timer' \in [Tids -> [live : BOOLEAN, lost : Nat]]
        /\ ctl' \in Ctls
        /\ ctl' # ctl => ctl'.me = t /\ (t < 0 => handled[0 - t] # NoIrq)
    BY <2>1, <2>3, DispatchTypes DEF TypeInv
  <2> QED
    BY <1>17, <2>1, <2>2, <2>4
       DEF DoneProcessing, TypeInv, TypeOK, Programmed, Started, schedVars, irqVars
<1>18. ASSUME NEW c \in IrqCpus, NEW k \in IrqKinds, Arrive(c, k)
       PROVE  TypeOK' /\ Programmed' /\ Started'
  <2>1. c \in Cpus /\ ctl.at = "main" /\ Issue(c, k, nowq)
    BY <1>18, SchedulerAssumption DEF SchedulerAssumption, Arrive, Timed
  <2>2. /\ inInt' \in [Cpus -> BOOLEAN]
        /\ handled' \in [Cpus -> IrqKinds \cup {NoIrq}]
        /\ pending' \in [Cpus -> Seq(IrqKinds)]
        /\ pc' \in [Tids -> Nat]
        /\ timer' \in [Tids -> [live : BOOLEAN, lost : Nat]]
        /\ nowq' \in Seq(Events)
    BY <2>1, IssueTypes DEF TypeInv, TypeOK
  <2>3. due' \subseteq Tids \cup {TickEvent, Device}
    BY <1>18 DEF Arrive, Timed, TimedEvents, TypeInv, TypeOK
  <2> QED
    BY <1>18, <2>1, <2>2, <2>3 DEF Arrive, TypeInv, TypeOK, Programmed, Started, schedVars
<1>19. ASSUME SetupIdleThreads PROVE TypeOK' /\ Programmed' /\ Started'
  BY <1>19, TypeInvSetup
<1> QED
  BY <1>1, <1>2, <1>3, <1>4, <1>5, <1>6, <1>7, <1>8, <1>9, <1>10, <1>11, <1>12, <1>13,
     <1>14, <1>15, <1>16, <1>17, <1>18, <1>19 DEF Next, Callback

(* The initial state has the types. *)
LEMMA TypeInvInit == Init => TypeInv
<1> SUFFICES ASSUME Init PROVE TypeInv
  OBVIOUS
<1>1. 1 \in Cpus /\ NumThreads \in Nat /\ NumCpu \in Nat
  BY Identities, SchedulerAssumption DEF SchedulerAssumption
<1>2. runq \in Seq(Pids)
  BY <1>1 DEF Init, Pids
<1>3. nowq \in Seq(Events)
  BY EventTypes DEF Init
<1>4. thrCpu \in [Tids -> Cpus] /\ cur \in [Cpus -> Pids]
  BY <1>1, Identities DEF Init
<1>5. ctl \in Ctls /\ ctl.at = "main"
  BY CtlTypes DEF Init, Main
<1> QED
  BY <1>2, <1>3, <1>4, <1>5, SchedulerAssumption
     DEF Init, TypeInv, TypeOK, Programmed, Starting, NoTimer, SchedulerAssumption

(* Every step keeps the types. *)
LEMMA TypeInvNext == TypeInv /\ [Next]_vars => TypeInv'
<1> SUFFICES ASSUME TypeInv, [Next]_vars PROVE TypeInv'
  OBVIOUS
<1>1. CASE UNCHANGED vars
  BY <1>1 DEF vars, schedVars, runVars, irqVars, simVars, TypeInv, TypeOK, Programmed, Starting, Started
<1>2. CASE Next /\ Started
  BY <1>2, TypeInvStep DEF TypeInv
<1>3. CASE Next /\ Starting
  <2>1. /\ nowq # <<>> /\ Head(nowq).fn = "setup" /\ ctl.at = "main" /\ due = {}
    BY <1>3 DEF Starting, Event, Main
  <2>2. ~DispatchNow /\ ~IssueNow /\ ~ScheduleNow
    BY <2>1 DEF DispatchNow, IssueNow, ScheduleNow, Now
  <2>3. ~Tick /\ (\A t \in Tids : ~DoneProcessing(t))
        /\ (\A c \in IrqCpus, k \in IrqKinds : ~Arrive(c, k))
    BY <2>1 DEF Tick, DoneProcessing, Arrive, Timed
  <2>4. /\ ~ScheduleCpu /\ ~ScheduleEnd /\ ~Process /\ ~Raise /\ ~SemDown /\ ~SemUp /\ ~Sleep
        /\ ~Awake /\ ~WakeupIdle /\ ~CheckCpu /\ ~CheckEnd /\ ~EndOfInterrupt
    BY <2>1 DEF ScheduleCpu, ScheduleEnd, Process, Raise, SemDown, SemUp, Sleep, Awake,
                WakeupIdle, CheckCpu, CheckEnd, EndOfInterrupt, Statement
  <2> QED
    BY <1>3, <2>2, <2>3, <2>4, TypeInvSetup DEF Next, Callback, TypeInv
<1> QED
  BY <1>1, <1>2, <1>3 DEF TypeInv

(* Type correctness of the execution core, together with what it rests on.    *)
THEOREM TypeCorrect == Spec => []TypeOK
<1>1. Spec => []TypeInv
  BY TypeInvInit, TypeInvNext, PTL DEF Spec
<1>2. TypeInv => TypeOK
  BY DEF TypeInv
<1> QED
  BY <1>1, <1>2, PTL
-----------------------------------------------------------------------------
(* In a build with asserts no thread waits for a semaphore that is available: *)
(* Up hands its unit to the first waiter (SEM_UP lowers the semaphore again). *)
THEOREM NoneWaitsForAvailable ==
  ASSUME AssertsEnabled
  PROVE  Spec => []WaitersBlocked
<1> DEFINE Inv == TypeInv /\ WaitersBlocked
<1>1. Init => Inv
  BY TypeInvInit DEF Init, WaitersBlocked
<1>2. Inv /\ [Next]_vars => Inv'
  <2> SUFFICES ASSUME TypeInv, WaitersBlocked, [Next]_vars
               PROVE  WaitersBlocked'
    BY TypeInvNext
  <2>1. semval \in [Sems -> Nat] /\ semq \in [Sems -> Seq(Pids)]
    BY DEF TypeInv, TypeOK
  <2>2. CASE UNCHANGED <<semval, semq>>
    BY <2>2 DEF WaitersBlocked
  <2>3. CASE SemDown
    <3> DEFINE s == Arg
    <3>1. s \in Sems
      BY <2>3, StatementType DEF SemDown
    <3>2. CASE Available(s)
      <4>1. semval[s] > 0 /\ semval' = [semval EXCEPT ![s] = @ - 1] /\ semq' = semq
        BY <2>3, <3>2 DEF SemDown, Available
      <4>2. semq[s] = <<>>
        BY <3>1, <4>1 DEF WaitersBlocked
      <4> QED
        BY <2>1, <4>1, <4>2 DEF WaitersBlocked
    <3>3. CASE ~Available(s)
      <4>1. /\ semval[s] = 0
            /\ semval' = semval
            /\ \A r \in Sems : r # s => semq'[r] = semq[r]
        BY <2>1, <2>3, <3>1, <3>3 DEF SemDown, Available
      <4> QED
        BY <4>1 DEF WaitersBlocked
    <3> QED
      BY <3>2, <3>3
  <2>4. CASE SemUp
    <3> DEFINE s == Arg
    <3>1. s \in Sems
      BY <2>4, StatementType DEF SemUp
    <3>2. CASE ~HasWaiter(s)
      <4>1. semq[s] = <<>> /\ semq' = semq /\ \A r \in Sems : r # s => semval'[r] = semval[r]
        BY <2>1, <2>4, <3>1, <3>2 DEF SemUp, HasWaiter
      <4> QED
        BY <4>1 DEF WaitersBlocked
    <3>3. CASE HasWaiter(s)
      <4>1. semq[s] # <<>> /\ semval' = [semval EXCEPT ![s] = PassedOn(@)]
            /\ \A r \in Sems : r # s => semq'[r] = semq[r]
        BY <2>1, <2>4, <3>1, <3>3 DEF SemUp, HasWaiter
      <4>2. semval' = semval
        BY <2>1, <3>1, <4>1 DEF PassedOn
      <4> QED
        BY <4>1, <4>2 DEF WaitersBlocked
    <3> QED
      BY <3>2, <3>3
  <2>5. CASE UNCHANGED vars
    BY <2>2, <2>5 DEF vars, schedVars
  <2>6. ASSUME Next, ~SemDown, ~SemUp
        PROVE  UNCHANGED <<semval, semq>>
    BY <2>6 DEF Next, Callback, SetupIdleThreads, DispatchNow, IssueNow, ScheduleNow, ScheduleCpu,
                ScheduleEnd, Process, Raise, Sleep, Awake, WakeupIdle, CheckCpu, CheckEnd,
                EndOfInterrupt, Tick, DoneProcessing, Arrive, schedVars
  <2> QED
    BY <2>2, <2>3, <2>4, <2>5, <2>6
<1>3. Inv => WaitersBlocked
  OBVIOUS
<1> QED
  BY <1>1, <1>2, <1>3, PTL DEF Spec
=============================================================================
