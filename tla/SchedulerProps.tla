--------------------------- MODULE SchedulerProps ---------------------------
(* What the execution core promises, stated over module Scheduler. *)
EXTENDS Scheduler, FiniteSets

AtMain  == ctl.at = "main" /\ (nowq = <<>> \/ Head(nowq).fn \notin {"setup", "schedule"})

Count(x, seq) == Cardinality({i \in DOMAIN seq : seq[i] = x})

Ctls == [at : {"main", "schedule", "run", "wakeup", "check"}, me : Tids \cup {NoPid},
         cpu : 1 .. NumCpu + 1, on : Cpus, prev : [Cpus -> Pids \cup {NoPid}],
         go : BOOLEAN]

Events ==
  [fn : {"setup", "schedule"}, arg : {NoPid}, kind : {NoIrq}]
    \cup [fn : {"dispatch"}, arg : Tids, kind : {NoIrq}]
    \cup [fn : {"issue"}, arg : Cpus, kind : IrqKinds]

(* Every variable has the type of the member it stands for. *)
TypeOK ==
  /\ runq \in Seq(Pids)
  /\ blocked \subseteq Tids
  /\ cur \in [Cpus -> Pids]
  /\ base \in [Cpus -> Pids \cup {NoPid}]
  /\ semval \in [Sems -> Nat]
  /\ semq \in [Sems -> Seq(Pids)]
  /\ thrCpu \in [Tids -> Cpus]
  /\ pc \in [Tids -> Nat]
  /\ done \in [Tids -> BOOLEAN]
  /\ timer \in [Tids -> [live : BOOLEAN, lost : Nat]]
  /\ inInt \in [Cpus -> BOOLEAN]
  /\ handled \in [Cpus -> IrqKinds \cup {NoIrq}]
  /\ pending \in [Cpus -> Seq(IrqKinds)]
  /\ nowq \in Seq(Events)
  /\ due \subseteq Tids \cup {TickEvent, Device}
  /\ ticks \in Nat
  /\ arrivals \in Nat
  /\ ctl \in Ctls

(* The places of the scheduler that hold thread w, and how many they are. *)
InLines(w) == UNION {{<<s, i>> : i \in {j \in DOMAIN semq[s] : semq[s][j] = w}} : s \in Sems}

Places(w) ==
  Count(w, runq) + Cardinality({c \in Cpus : cur[c] = w})
    + Cardinality({w} \cap blocked) + Cardinality(InLines(w))

(* Between two events every forked thread is somewhere the scheduler can find *)
(* it again: switching a CPU to its idle thread forgets nobody.                *)
NoThreadLost == AtMain => \A w \in Workers : Places(w) = 1

(* Only the current thread of a CPU, as the scheduler sees it, is processing   *)
(* there or executing statements (taskscheduler.cc: a thread that lost its CPU *)
(* should stop executing).                                                     *)
OnlyCurrentRuns ==
  AtMain => \A t \in Pids :
    timer[t].live => /\ cur[thrCpu[t]] = t
                     /\ ~inInt[thrCpu[t]]

(* The base class's copy of the running threads agrees with the round-robin    *)
(* scheduler's between two events.                                              *)
CopiesAgree == AtMain => base = cur

(* No CPU idles while a thread waits for one. *)
WorkConserving == AtMain /\ runq # <<>> => \A c \in Cpus : ~IsIdle(cur[c])

(* The waiters of a semaphore and its value: nobody waits for an available one. *)
WaitersBlocked == \A s \in Sems : semq[s] # <<>> => semval[s] = 0

(* Thread w has lowered s, or been handed it, and not raised it since. *)
Taken(w, s, o) ==
  Cardinality({i \in 1 .. pc[w] : WorkerProg[w][i].op = o /\ WorkerProg[w][i].arg = s})
Waiting(w, s) == \E i \in DOMAIN semq[s] : semq[s][i] = w
Holders(s) == {w \in Workers : Taken(w, s, "down") > Taken(w, s, "up") /\ ~Waiting(w, s)}

(* A thread that fails to lower a semaphore is the one that is blocked on it   *)
(* (sync.cc: Down "returns false if the calling process should be blocked").    *)
CallerBlocks ==
  [][\A s \in Sems : Len(semq'[s]) > Len(semq[s]) => semq'[s] = Append(semq[s], ctl.me)]_vars

(* A semaphore admits as many threads as its initial value, and none of that   *)
(* is lost: what is free and what is held add up (sync.cc, SEM_UP, SEM_DOWN).   *)
Conserved == \A s \in Sems : semval[s] + Cardinality(Holders(s)) = SemInit[s]

(* The thread an interrupt suspended has no completion pending, and a CPU is in *)
(* an interrupt exactly while the controller handles one for it.                 *)
Suspended ==
  \A c \in Cpus :
    /\ inInt[c] <=> handled[c] # NoIrq
    /\ inInt[c] /\ base[c] # NoPid => ~timer[base[c]].live

(* A thread that neither sleeps nor waits gets a CPU again and again, as         *)
(* rrscheduler.cc wants of its tick: "If there is more than one thread, they     *)
(* need to get preempted once in a while".                                       *)
Runnable(w) == w \notin blocked /\ \A s \in Sems : ~Waiting(w, s)
RunnableRuns ==
  \A w \in Workers : Runnable(w) ~> (~Runnable(w) \/ \E c \in Cpus : cur[c] = w)

(* A thread waiting for a semaphore enters.                                      *)
WaiterEnters == \A w \in Workers, s \in Sems : Waiting(w, s) ~> w \in Holders(s)

(* Every interrupt is served: pending requests do not wait for ever, and the     *)
(* interrupted CPU returns to its thread.                                        *)
InterruptsEnd == \A c \in Cpus : inInt[c] ~> (~inInt[c] /\ timer[cur[c]].live)

(* The semaphores, the run queue and the CPUs together implement FIFO counting  *)
(* semaphores for the threads: the holder is the thread past its SEMDOWN.       *)
Semaphore ==
  INSTANCE FifoSemaphore WITH
    Clients <- Workers, Names <- Sems, Initial <- SemInit,
    free <- semval, line <- semq, inside <- [s \in Sems |-> Holders(s)]

ImplementsSemaphore == Semaphore!Spec
=============================================================================
