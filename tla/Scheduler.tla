------------------------------ MODULE Scheduler ------------------------------
(***************************************************************************)
(* The software execution core of ns3::processing: the round-robin task    *)
(* scheduler, the semaphores it manages, the dispatch loop of a thread and *)
(* the interrupt path of a CPU, driven by the discrete-event simulator.    *)
(*                                                                         *)
(* One simulator event is one run of a C++ callback. A callback is one     *)
(* action, except that the dispatch loop and the loops over the CPUs take  *)
(* one step per iteration; ctl says which loop is running, and no other    *)
(* event can be taken before it is back at "main".                         *)
(*                                                                         *)
(* Thread identities are integers: CPU c (1..NumCpu, cpu c-1 of the code)  *)
(* has the idle thread c and the interrupt thread -c; the threads of the   *)
(* device file follow the idle pids, as g_nextPid makes them.              *)
(*                                                                         *)
(* StopsIdle, PreEmptNotInInterrupt, HeldNever, RearmNever,                *)
(* AvailableAtZero, PassedOnRaised, UpTestsFirst, TakesWorkFirst and       *)
(* ResumesIdle are not the code: each is a wrong version of the definition  *)
(* that follows it, kept to show that the properties tell the two apart.   *)
(***************************************************************************)
EXTENDS Integers, Sequences

CONSTANTS
  NumCpu,          \* CPUs of the node (hwModel->cpus)
  NumThreads,      \* threads the device file forks
  Sems,            \* names of its semaphores
  SemInit,         \* their initial values
  WorkerProg,      \* the statements each thread repeats for ever
  IrqKinds,        \* the interrupt services (HIRQ-n)
  IrqProg,         \* their statements
  IrqCpus,         \* the CPUs devices interrupt
  NoIrq,           \* interruptNr = -1
  QueueSize,       \* InterruptController::queueSize
  AllowNested,     \* TaskScheduler::allowNestedInterrupts
  AssertsEnabled,  \* NS3_ASSERT_ENABLE: a debug build
  Coincide,        \* may two timed events fall on the same nanosecond?
  MaxArrivals,     \* bound: interrupts the devices raise
  MaxTicks         \* bound: Schedule events pending at once

Cpus    == 1 .. NumCpu
Workers == NumCpu + 1 .. NumCpu + NumThreads
Pids    == 1 .. NumCpu + NumThreads
Irq(c)  == 0 - c
Tids    == Pids \cup {Irq(c) : c \in Cpus}
NoPid   == 0

(* The statements of a program that the scheduler, the semaphores or the       *)
(* interrupt controller see; what only computes is part of "process".          *)
Statements ==
  [op : {"process", "sleep"}] \cup [op : {"down", "up"}, arg : Sems]
    \cup [op : {"awake"}, arg : Workers] \cup [op : {"raise"}, arg : IrqKinds]

(* HIRQ services of the device files never sleep and never lower a semaphore. *)
ASSUME SchedulerAssumption ==
  /\ NumCpu \in Nat \ {0}
  /\ NumThreads \in Nat
  /\ SemInit \in [Sems -> Nat]
  /\ IrqCpus \subseteq Cpus
  /\ NoIrq \notin IrqKinds
  /\ QueueSize \in Nat
  /\ {AllowNested, AssertsEnabled, Coincide} \subseteq BOOLEAN
  /\ MaxArrivals \in Nat /\ MaxTicks \in Nat
  /\ WorkerProg \in [Workers -> Seq(Statements) \ {<<>>}]
  /\ IrqProg \in [IrqKinds ->
       Seq({st \in Statements : st.op \notin {"sleep", "down"}}) \ {<<>>}]

VARIABLES
  runq,      \* RoundRobinScheduler::m_runqueue
  blocked,   \* RoundRobinScheduler::m_blocked
  cur,       \* RoundRobinScheduler::m_currentRunning
  base,      \* TaskScheduler::m_currentRunning, the copy PreEmpt maintains
  semval,    \* Semaphore::value
  semq,      \* Semaphore::m_blocked
  thrCpu,    \* Thread::peu
  pc,        \* statement of the thread's program last taken (currentEvent)
  done,      \* Thread::m_currentProcessing.done
  timer,     \* completion events: the one processingCompleted names, and
             \* those whose handle a later Consume overwrote
  inInt,     \* CPU::inInterrupt
  handled,   \* InterruptController::currentlyHandled
  pending,   \* InterruptController::pendingRequests
  nowq,      \* events of the current timestamp, in insertion order
  due,       \* timed events that may still share the current timestamp
  ticks,     \* Schedule events pending at later timestamps
  arrivals,  \* interrupts the devices have raised
  ctl        \* where the running callback is

schedVars == <<runq, blocked, cur, semval, semq>>
runVars   == <<base, thrCpu, timer>>
irqVars   == <<inInt, handled, pending>>
simVars   == <<due, ticks, arrivals>>
vars == <<schedVars, runVars, pc, done, irqVars, nowq, simVars, ctl>>

Main == [at |-> "main", me |-> NoPid, cpu |-> 1, on |-> 1,
         prev |-> [c \in Cpus |-> NoPid], go |-> TRUE]

Running(t) == [Main EXCEPT !.at = "run", !.me = t]

NoTimer == [live |-> FALSE, lost |-> 0]

Event(f, a) == [fn |-> f, arg |-> a, kind |-> NoIrq]

IsIdle(p) == p <= NumCpu

(***************************************************************************)
(* Before the simulation runs, parsing the device file has queued          *)
(* SetupIdleThreads and Schedule and forked the threads in file order.     *)
(***************************************************************************)
Init ==
  /\ runq = [i \in 1 .. NumThreads |-> NumCpu + i]
  /\ blocked = {}
  /\ cur = [c \in Cpus |-> c]
  /\ base = [c \in Cpus |-> NoPid]
  /\ semval = SemInit
  /\ semq = [s \in Sems |-> <<>>]
  /\ thrCpu = [t \in Tids |-> IF t < 0 THEN 0 - t ELSE 1]
  /\ pc = [t \in Tids |-> 0]
  /\ done = [t \in Tids |-> TRUE]
  /\ timer = [t \in Tids |-> NoTimer]
  /\ inInt = [c \in Cpus |-> FALSE]
  /\ handled = [c \in Cpus |-> NoIrq]
  /\ pending = [c \in Cpus |-> <<>>]
  /\ nowq = <<Event("setup", NoPid), Event("schedule", NoPid)>>
  /\ due = {}
  /\ ticks = 0
  /\ arrivals = 0
  /\ ctl = Main

-----------------------------------------------------------------------------
(* PEU::Consume schedules a completion and overwrites the previous handle;   *)
(* Simulator::Cancel reaches only the event the handle names.                *)
Consumed(tm)  == [live |-> TRUE, lost |-> tm.lost + (IF tm.live THEN 1 ELSE 0)]
Cancelled(tm) == [tm EXCEPT !.live = FALSE]

(* The current thread of CPU c is stopped in the middle of a stage. *)
StopsIdle(c) == IF done[base[c]] THEN [timer EXCEPT ![base[c]] = Cancelled(@)] ELSE timer
Stopped(c)   == IF done[base[c]] THEN timer ELSE [timer EXCEPT ![base[c]] = Cancelled(@)]

(* TaskScheduler::PreEmpt: q is the queue of current events to add to. *)
PreEmptNotInInterrupt(c, new, q) ==
  /\ timer' = IF inInt[c] THEN timer ELSE Stopped(c)
  /\ base' = IF inInt[c] THEN base ELSE [base EXCEPT ![c] = new]
  /\ thrCpu' = [thrCpu EXCEPT ![new] = c]
  /\ nowq' = IF inInt[c] THEN q ELSE Append(q, Event("dispatch", new))

PreEmpt(c, new, q) ==
  /\ timer' = IF inInt[c] THEN timer ELSE Stopped(c)
  /\ base' = [base EXCEPT ![c] = new]
  /\ thrCpu' = [thrCpu EXCEPT ![new] = c]
  /\ nowq' = IF inInt[c] THEN q ELSE Append(q, Event("dispatch", new))

(* A thread of the device file whose CPU is in an interrupt must not go on. *)
HeldNever(t) == FALSE
Held(t) == t > 0 /\ inInt[thrCpu[t]]

(* Thread::Dispatch of t, whose completion events are tm when it is called:    *)
(* nothing without a program, back off if the CPU was interrupted meanwhile,    *)
(* resume a stage in progress, or enter the statement loop.                     *)
Dispatch(t, isDone, tm) ==
  LET unprogrammed == t < 0 /\ handled[0 - t] = NoIrq IN
  /\ done' = [done EXCEPT ![t] = isDone]
  /\ timer' = [timer EXCEPT ![t] = IF Held(t) THEN Cancelled(tm)
                                   ELSE IF unprogrammed \/ isDone THEN tm
                                   ELSE Consumed(tm)]
  /\ ctl' = IF unprogrammed \/ Held(t) \/ ~isDone THEN ctl ELSE Running(t)

(* CPU::Interrupt: push the service of kind k, suspend the current thread.  *)
Interrupt(c, k, q) ==
  /\ inInt' = [inInt EXCEPT ![c] = TRUE]
  /\ handled' = [handled EXCEPT ![c] = k]
  /\ pc' = [pc EXCEPT ![Irq(c)] = 0]
  /\ timer' = Stopped(c)
  /\ nowq' = Append(q, Event("dispatch", Irq(c)))

(* InterruptController::IssueInterruptWithServiceOnCPU *)
Issue(c, k, q) ==
  \/ /\ handled[c] = NoIrq
     /\ Interrupt(c, k, q)
     /\ UNCHANGED pending
  \/ /\ handled[c] # NoIrq
     /\ pending' = IF Len(pending[c]) < QueueSize
                     THEN [pending EXCEPT ![c] = Append(@, k)] ELSE pending
     /\ nowq' = q
     /\ UNCHANGED <<inInt, handled, pc, timer>>

-----------------------------------------------------------------------------
(* The simulator's main loop runs events by timestamp and then in the order   *)
(* they were inserted. A timed event starts a new timestamp when the current   *)
(* one has no event left; with Coincide it may also share the timestamp of an  *)
(* earlier one, and then precedes all that this one inserts.                   *)
TickEvent == NoPid
Device    == NumCpu + NumThreads + 1

TimedEvents ==
  {t \in Tids : timer[t].live \/ timer[t].lost > 0}
    \cup {e \in {TickEvent} : ticks > 0} \cup {e \in {Device} : arrivals < MaxArrivals}

Now(f) == ctl.at = "main" /\ nowq # <<>> /\ Head(nowq).fn = f /\ due' = {}

Timed(e) ==
  /\ ctl.at = "main"
  /\ \/ nowq = <<>> /\ due' = IF Coincide THEN TimedEvents \ {e} ELSE {}
     \/ e \in due /\ due' = due \ {e}

SetupIdleThreads ==
  /\ Now("setup")
  /\ base' = cur
  /\ thrCpu' = [t \in Tids |-> IF t \in Cpus THEN t ELSE thrCpu[t]]
  /\ done' = [t \in Tids |-> t \notin Cpus]
  /\ timer' = [t \in Tids |-> IF t \in Cpus THEN Consumed(timer[t]) ELSE timer[t]]
  /\ pc' = [t \in Tids |-> IF t \in Cpus THEN 1 ELSE pc[t]]
  /\ nowq' = Tail(nowq)
  /\ UNCHANGED <<schedVars, irqVars, ticks, arrivals, ctl>>

DispatchNow ==
  /\ Now("dispatch")
  /\ LET t == Head(nowq).arg IN Dispatch(t, done[t], timer[t])
  /\ nowq' = Tail(nowq)
  /\ UNCHANGED <<schedVars, base, thrCpu, pc, irqVars, ticks, arrivals>>

IssueNow ==
  /\ Now("issue")
  /\ Issue(Head(nowq).arg, Head(nowq).kind, Tail(nowq))
  /\ UNCHANGED <<schedVars, base, thrCpu, done, ticks, arrivals, ctl>>

ScheduleNow ==
  /\ Now("schedule")
  /\ nowq' = Tail(nowq)
  /\ ctl' = [ctl EXCEPT !.at = "schedule", !.cpu = 1]
  /\ UNCHANGED <<schedVars, runVars, pc, done, irqVars, ticks, arrivals>>

(* A completion the handle still names, or one whose handle was overwritten. *)
DoneProcessing(t) ==
  /\ Timed(t)
  /\ \/ timer[t].live /\ Dispatch(t, TRUE, Cancelled(timer[t]))
     \/ timer[t].lost > 0 /\ Dispatch(t, TRUE, [timer[t] EXCEPT !.lost = @ - 1])
  /\ UNCHANGED <<schedVars, base, thrCpu, pc, irqVars, nowq, ticks, arrivals>>

(* Each CPU in an interrupt costs one more Schedule event; the bound keeps a *)
(* tick from firing while that could exceed MaxTicks.                        *)
Tick ==
  /\ Timed(TickEvent)
  /\ ticks > 0
  /\ (AllowNested \/ \A c \in Cpus : ~inInt[c]) \/ ticks + NumCpu <= MaxTicks
  /\ ticks' = ticks - 1
  /\ ctl' = [ctl EXCEPT !.at = "schedule", !.cpu = 1]
  /\ UNCHANGED <<schedVars, runVars, pc, done, irqVars, nowq, arrivals>>

(* A device raises interrupt k (ExecEnv::ScheduleInterrupt). *)
Arrive(c, k) ==
  /\ Timed(Device)
  /\ base[c] # NoPid
  /\ arrivals < MaxArrivals
  /\ arrivals' = arrivals + 1
  /\ Issue(c, k, nowq)
  /\ UNCHANGED <<schedVars, base, thrCpu, done, ticks, ctl>>

-----------------------------------------------------------------------------
(* RoundRobinScheduler::Schedule, one step per CPU and one for its end. *)
ScheduleCpu ==
  /\ ctl.at = "schedule" /\ ctl.cpu <= NumCpu
  /\ LET c == ctl.cpu
         rotate == runq # <<>> /\ Head(runq) # cur[c]
     IN
     \/ /\ ~AllowNested /\ inInt[c]
        /\ ticks' = ticks + 1
        /\ UNCHANGED <<runq, cur, runVars, nowq>>
     \/ /\ AllowNested \/ ~inInt[c]
        /\ ~rotate
        /\ cur' = [cur EXCEPT ![c] = c]
        /\ UNCHANGED <<runq, runVars, nowq, ticks>>
     \/ /\ AllowNested \/ ~inInt[c]
        /\ rotate
        /\ runq' = IF IsIdle(cur[c]) THEN Tail(runq) ELSE Append(Tail(runq), cur[c])
        /\ cur' = [cur EXCEPT ![c] = Head(runq)]
        /\ PreEmpt(c, Head(runq), nowq)
        /\ UNCHANGED ticks
  /\ ctl' = [ctl EXCEPT !.cpu = @ + 1]
  /\ UNCHANGED <<blocked, semval, semq, pc, done, irqVars, due, arrivals>>

(* The tick is armed again while a thread is left in the queue. *)
RearmNever == ticks
Rearm == IF runq # <<>> THEN ticks + 1 ELSE ticks

ScheduleEnd ==
  /\ ctl.at = "schedule" /\ ctl.cpu > NumCpu
  /\ ticks' = Rearm
  /\ ctl' = Main
  /\ UNCHANGED <<schedVars, runVars, pc, done, irqVars, nowq, due, arrivals>>

-----------------------------------------------------------------------------
(* The statement loop of Thread::Dispatch. A thread of the device file is    *)
(* infinite: the END of its program restarts it.                             *)
Program(t) ==
  IF t < 0 THEN IrqProg[handled[0 - t]]
  ELSE IF IsIdle(t) THEN <<[op |-> "process"]>> ELSE WorkerProg[t]

NextPc(t) == IF pc[t] < Len(Program(t)) THEN pc[t] + 1 ELSE 1

AtEnd(t) == t < 0 /\ pc[t] = Len(Program(t))

(* The running thread takes its next statement, an op with operator o. *)
Statement(o) ==
  /\ ctl.at = "run" /\ ~AtEnd(ctl.me)
  /\ Program(ctl.me)[NextPc(ctl.me)].op = o
  /\ pc' = [pc EXCEPT ![ctl.me] = NextPc(ctl.me)]

Arg == Program(ctl.me)[NextPc(ctl.me)].arg

(* RescheduleCPU(c) *)
RescheduleCPU(c) ==
  /\ cur' = [cur EXCEPT ![c] = IF runq # <<>> THEN Head(runq) ELSE c]
  /\ runq' = IF runq # <<>> THEN Tail(runq) ELSE runq

(* Continue in the loop w of the request the running thread makes. *)
Request(w, was) ==
  ctl' = [at |-> w, me |-> ctl.me, cpu |-> 1, on |-> thrCpu[ctl.me],
          prev |-> was, go |-> TRUE]

(* HandleProcessingEvent *)
Process ==
  /\ Statement("process")
  /\ timer' = [timer EXCEPT ![ctl.me] = Consumed(@)]
  /\ done' = [done EXCEPT ![ctl.me] = FALSE]
  /\ ctl' = Main
  /\ UNCHANGED <<schedVars, base, thrCpu, irqVars, nowq, simVars>>

(* HandleProcessingEvent of a stage on another PEU, without blocking I/O *)
Raise ==
  /\ Statement("raise")
  /\ nowq' = Append(nowq, [Event("issue", thrCpu[ctl.me]) EXCEPT !.kind = Arg])
  /\ UNCHANGED <<schedVars, runVars, done, irqVars, simVars, ctl>>

(* Semaphore::Down *)
AvailableAtZero(s) == semval[s] >= 0
Available(s) == semval[s] > 0

(* DoSynchRequest: the semaphore is lowered, or the caller is queued and its CPU rescheduled. *)
SemDown ==
  /\ Statement("down")
  /\ LET s == Arg
         c == thrCpu[ctl.me]
     IN \/ /\ Available(s)
           /\ semval' = [semval EXCEPT ![s] = @ - 1]
           /\ UNCHANGED <<semq, runq, cur, ctl>>
        \/ /\ ~Available(s)
           /\ semq' = [semq EXCEPT ![s] = Append(@, cur[c])]
           /\ RescheduleCPU(c)
           /\ Request("check", cur)
           /\ UNCHANGED semval
  /\ UNCHANGED <<blocked, runVars, done, irqVars, nowq, simVars>>

(* The Down() on behalf of the released waiter is the argument of an assert: *)
(* a build without NS3_ASSERT_ENABLE does not evaluate it.                    *)
PassedOnRaised(v) == v + 1
PassedOn(v) == IF AssertsEnabled THEN v ELSE v + 1

(* Semaphore::Up: is there someone to unblock? *)
UpTestsFirst(s) == semval[s] > 0 /\ semq[s] # <<>>
HasWaiter(s) == semq[s] # <<>>

SemUp ==
  /\ Statement("up")
  /\ LET s == Arg IN
     \/ /\ ~HasWaiter(s)
        /\ semval' = [semval EXCEPT ![s] = @ + 1]
        /\ UNCHANGED <<semq, runq, ctl>>
     \/ /\ HasWaiter(s)
        /\ semq' = [semq EXCEPT ![s] = Tail(@)]
        /\ runq' = Append(runq, Head(semq[s]))
        /\ semval' = [semval EXCEPT ![s] = PassedOn(@)]
        /\ Request("wakeup", cur)
  /\ UNCHANGED <<blocked, cur, runVars, done, irqVars, nowq, simVars>>

(* DoRequest: a sleeper is put aside; waking a thread that is not asleep is  *)
(* only logged. Request compares against the base class's copy.              *)
Sleep ==
  /\ Statement("sleep")
  /\ blocked' = blocked \cup {ctl.me}
  /\ RescheduleCPU(thrCpu[ctl.me])
  /\ Request("check", base)
  /\ UNCHANGED <<semval, semq, runVars, done, irqVars, nowq, simVars>>

Asleep(t) == t \in blocked

Awake ==
  /\ Statement("awake")
  /\ \/ /\ Asleep(Arg)
        /\ blocked' = blocked \ {Arg}
        /\ runq' = Append(runq, Arg)
        /\ Request("wakeup", base)
     \/ /\ ~Asleep(Arg)
        /\ Request("check", base)
        /\ UNCHANGED <<blocked, runq>>
  /\ UNCHANGED <<cur, semval, semq, runVars, done, irqVars, nowq, simVars>>

(* A CPU whose current thread is its idle thread takes work. *)
TakesWorkFirst(c) == c = 1 /\ IsIdle(cur[c])
TakesWork(c) == IsIdle(cur[c])

(* WakeupIdle: each idle CPU in turn takes the head of the queue. *)
WakeupIdle ==
  /\ ctl.at = "wakeup"
  /\ LET c == ctl.cpu IN
     \/ /\ runq = <<>> \/ c > NumCpu
        /\ ctl' = [ctl EXCEPT !.at = "check", !.cpu = 1]
        /\ UNCHANGED <<runq, cur>>
     \/ /\ runq # <<>> /\ c <= NumCpu
        /\ IF TakesWork(c)
             THEN /\ cur' = [cur EXCEPT ![c] = Head(runq)]
                  /\ runq' = Tail(runq)
             ELSE UNCHANGED <<runq, cur>>
        /\ ctl' = [ctl EXCEPT !.cpu = @ + 1]
  /\ UNCHANGED <<blocked, semval, semq, runVars, pc, done, irqVars, nowq, simVars>>

(* CheckAllCPUsForPreemptions, one step per CPU; then the statement loop goes *)
(* on unless its own CPU was given to another thread outside an interrupt.    *)
CheckCpu ==
  /\ ctl.at = "check" /\ ctl.cpu <= NumCpu
  /\ LET c == ctl.cpu
         switch == cur[c] # ctl.prev[c]
     IN /\ IF switch THEN PreEmpt(c, cur[c], nowq) ELSE UNCHANGED <<runVars, nowq>>
        /\ ctl' = [ctl EXCEPT !.cpu = @ + 1, !.go = @ /\ ~(switch /\ c = ctl.on)]
  /\ UNCHANGED <<schedVars, pc, done, irqVars, simVars>>

CheckEnd ==
  /\ ctl.at = "check" /\ ctl.cpu > NumCpu
  /\ ctl' = IF inInt[ctl.on] \/ ctl.go THEN Running(ctl.me) ELSE Main
  /\ UNCHANGED <<schedVars, runVars, pc, done, irqVars, nowq, simVars>>

(* InterruptController::Proceed dispatches the thread of the CPU. *)
ResumesIdle(c) == Append(nowq, Event("dispatch", c))
Resumed(c) == Append(nowq, Event("dispatch", base[c]))

(* The interrupt thread's stack is empty: TaskScheduler::Terminate, then      *)
(* InterruptController::Proceed to the next request or the current thread.    *)
EndOfInterrupt ==
  /\ ctl.at = "run" /\ AtEnd(ctl.me)
  /\ LET c == 0 - ctl.me IN
     \/ /\ pending[c] = <<>>
        /\ inInt' = [inInt EXCEPT ![c] = FALSE]
        /\ handled' = [handled EXCEPT ![c] = NoIrq]
        /\ nowq' = Resumed(c)
        /\ UNCHANGED <<pending, pc, timer>>
     \/ /\ pending[c] # <<>>
        /\ pending' = [pending EXCEPT ![c] = Tail(@)]
        /\ Interrupt(c, Head(pending[c]), nowq)
  /\ ctl' = Main
  /\ UNCHANGED <<schedVars, base, thrCpu, done, simVars>>

-----------------------------------------------------------------------------
Callback ==
  \/ SetupIdleThreads \/ DispatchNow \/ IssueNow \/ ScheduleNow
  \/ ScheduleCpu \/ ScheduleEnd
  \/ Process \/ Raise \/ SemDown \/ SemUp \/ Sleep \/ Awake
  \/ WakeupIdle \/ CheckCpu \/ CheckEnd \/ EndOfInterrupt

Next ==
  \/ Callback
  \/ Tick
  \/ \E t \in Tids : DoneProcessing(t)
  \/ \E c \in IrqCpus, k \in IrqKinds : Arrive(c, k)

Spec == Init /\ [][Next]_vars

(* The simulator executes every event it holds: callbacks run to their end,   *)
(* a pending tick fires, and a completion that keeps being rescheduled is not *)
(* preempted for ever (stages are shorter than the time slice).               *)
Fairness ==
  /\ WF_vars(Callback)
  /\ SF_vars(Tick)
  /\ \A t \in Tids \ Cpus : SF_vars(DoneProcessing(t))

FairSpec == Spec /\ Fairness
=============================================================================
