----------------------------- MODULE MCScheduler -----------------------------
(* Instances of Scheduler for TLC: the thread sets of the device files. *)
EXTENDS SchedulerProps, TLC

P      == [op |-> "process"]
Dn(s)  == [op |-> "down", arg |-> s]
Up(s)  == [op |-> "up", arg |-> s]
Slp    == [op |-> "sleep"]
Awk(t) == [op |-> "awake", arg |-> t]
Rse(k) == [op |-> "raise", arg |-> k]

NoIrqProg == [k \in {} |-> <<>>]

(* After semaphoretest.device, with one thread more: three threads share a mutex,   *)
(* two only compute; 2 CPUs. With its four threads a tick may find the run queue    *)
(* empty and forget a thread; here one always waits.                                *)
SemOne == [s \in {"A"} |-> 1]

SemProg == 3 :> <<P, Dn("A"), P, Up("A")>> @@ 4 :> <<P, Dn("A"), P, Up("A")>>
           @@ 5 :> <<P, Dn("A"), P, Up("A")>>
           @@ 6 :> <<P>> @@ 7 :> <<P>>

(* As many threads as CPUs, as in trex-two-cores.device: an interrupt wakes the     *)
(* packet thread, which wakes the event thread. A stage of it raises an interrupt on *)
(* its own CPU and interrupts nest, as in telosb.cc.                                 *)
NoSems == [s \in {} |-> 0]
PairProg == 3 :> <<Slp, P, Awk(4), Rse("tx"), P>> @@ 4 :> <<Slp, P>>
PairIrqs == "rx" :> <<Awk(3)>> @@ "tx" :> <<P, Awk(4)>>

(* trex.device: more threads than CPUs; an interrupt wakes a packet thread,      *)
(* which wakes the event threads and waits until each has raised the semaphore   *)
JoinInit == [s \in {"join", "ops"} |-> IF s = "join" THEN 0 ELSE 1]
EventThread == <<Slp, P, Dn("ops"), P, Up("ops"), P, Up("join")>>
JoinProg == 3 :> <<Slp, P, Awk(4), Awk(5), Dn("join"), Dn("join")>>
            @@ 4 :> EventThread @@ 5 :> EventThread
JoinIrqs == "rx" :> <<Awk(3)>>

=============================================================================
