-------------------------- MODULE SchedulerDispatch --------------------------
(* What the execution core keeps when there are no more threads than CPUs: the *)
(* inductive invariant of dispatch, interrupts and requests, and its theorems. *)
(* At the end, that semaphores used as locks are FIFO counting semaphores.     *)
(*                                                                             *)
(* Then the first Schedule finds an idle CPU for every thread and no tick      *)
(* follows it; threads come and go only by the requests of the running thread. *)
(* With more threads, a tick that finds the run queue empty sends the CPU to   *)
(* its idle thread and forgets the thread it ran, and none of this holds.      *)
EXTENDS SchedulerProofs, FiniteSetTheorems, FunctionTheorems

(* The dispatches of a thread that are queued for the current timestamp, and *)
(* whether the callback that runs is the thread's dispatch loop.              *)
Call(t)      == Event("dispatch", t)
Calls(t)     == Count(Call(t), nowq)
Executing(t) == ctl.at \in {"run", "wakeup", "check"} /\ ctl.me = t
Resting(t)   == ~timer[t].live /\ Calls(t) = 0 /\ ~Executing(t)

(* A thread computes, has a dispatch queued or executes statements, never two *)
(* of these, and no completion of it is beyond the reach of Cancel.           *)
Single(t) ==
  /\ timer[t].lost = 0
  /\ Calls(t) <= 1
  /\ timer[t].live => ~done[t] /\ Calls(t) = 0 /\ ~Executing(t)
  /\ Executing(t) => done[t] /\ Calls(t) = 0

(* CPU c is in an interrupt exactly while its interrupt thread has work to do. *)
Serving(c) ==
  /\ inInt[c] <=> handled[c] # NoIrq
  /\ inInt[c] <=> ~Resting(Irq(c))
  /\ Single(Irq(c))

(* Every queued dispatch of t is followed by one of u. *)
Precedes(t, u) ==
  \A i \in DOMAIN nowq : nowq[i] = Call(t) => \E j \in DOMAIN nowq : i < j /\ nowq[j] = Call(u)

(* The thread an interrupt suspended does not compute; a dispatch of it that is *)
(* still queued comes before that of the interrupt thread and backs off.        *)
Suspending(c) == inInt[c] => ~timer[base[c]].live /\ Precedes(base[c], Irq(c))

(* CPU c has its current, its idle and its interrupt thread. *)
Holding(c) ==
  /\ thrCpu[Irq(c)] = c /\ thrCpu[c] = c /\ thrCpu[base[c]] = c
  /\ timer[c].live => ~done[c] \/ Executing(c)
  /\ Suspending(c)

(* Thread w lost its CPU during the request that it makes. *)
Leaving(w) == Executing(w) /\ ctl.at = "check" /\ ~ctl.go

(* A thread of the device file works only if a CPU has it. *)
Working(w) ==
  /\ Single(w)
  /\ (\A c \in Cpus : base[c] # w) => Resting(w) \/ Leaving(w)

(* Every thread of the device file is in one place. *)
Homes ==
  /\ \A w \in Workers : Places(w) = 1 /\ IsFiniteSet(InLines(w))
  /\ blocked \subseteq Workers
  /\ runq \in Seq(Workers)
  /\ \A s \in Sems : semq[s] \in Seq(Workers)
  /\ \A c \in Cpus : cur[c] \in Workers \cup {c} /\ base[c] \in Workers \cup {c}

(* Nothing is left of a request. *)
Settled == base = cur /\ runq = <<>>

(* Schedule has an idle CPU left for each thread in the run queue. *)
Scheduling ==
  ctl.at = "schedule" =>
    /\ base = cur /\ \A c \in Cpus : ~inInt[c] /\ (c >= ctl.cpu => cur[c] = c)
    /\ Len(runq) <= NumCpu + 1 - ctl.cpu

(* During a request a CPU may get a thread, and the caller's may lose it. *)
Requesting ==
  ctl.at \in {"wakeup", "check"} =>
    /\ ctl.me \notin Cpus /\ ctl.on = thrCpu[ctl.me]
    /\ \A c \in Cpus : cur[c] # base[c] =>
         \/ base[c] = c /\ cur[c] \in Workers
         \/ c = ctl.on /\ ctl.me \in Workers /\ base[c] = ctl.me /\ cur[c] = c

(* The woken thread waits while the CPUs already tried are busy. *)
Waking ==
  ctl.at = "wakeup" =>
    /\ ctl.prev = base /\ ctl.go
    /\ ctl.me \in Workers => cur[ctl.on] = ctl.me
    /\ runq # <<>> => Len(runq) = 1 /\ base = cur /\ \A c \in Cpus : c < ctl.cpu => cur[c] \in Workers

(* The CPUs already checked are up to date, and go tells whether the caller has its own. *)
Checking ==
  ctl.at = "check" =>
    /\ runq = <<>>
    /\ ctl.me \in Workers =>
         /\ \A c \in Cpus : cur[c] = ctl.me => c = ctl.on
         /\ ctl.go <=> ctl.cpu <= ctl.on \/ cur[ctl.on] = ctl.me
    /\ \A c \in Cpus : base[c] = IF c < ctl.cpu THEN cur[c] ELSE ctl.prev[c]

(* What holds where the control is. *)
Control ==
  /\ ctl.at \in {"main", "run"} => Settled
  /\ \A t \in Pids : Executing(t) => ~inInt[thrCpu[t]]
  /\ ctl.at = "run" /\ ctl.me \in Workers => cur[thrCpu[ctl.me]] = ctl.me
  /\ Scheduling /\ Requesting /\ Waking /\ Checking

(* Schedule is not to run again. *)
Later == ticks = 0 /\ \A i \in DOMAIN nowq : nowq[i].fn \notin {"setup", "schedule"}

(* Before the first Schedule. *)
Booting ==
  /\ ctl = Main /\ due = {} /\ ticks = 0
  /\ runq = [i \in 1 .. NumThreads |-> NumCpu + i] /\ blocked = {}
  /\ cur = [c \in Cpus |-> c] /\ semq = [s \in Sems |-> <<>>]
  /\ \A c \in Cpus : ~inInt[c] /\ handled[c] = NoIrq /\ thrCpu[Irq(c)] = c
  /\ \A t \in Tids \ Cpus : timer[t] = NoTimer
  /\ \/ /\ nowq = <<Event("setup", NoPid), Event("schedule", NoPid)>>
        /\ \A t \in Cpus : timer[t] = NoTimer
     \/ /\ nowq = <<Event("schedule", NoPid)>>
        /\ base = cur /\ \A c \in Cpus : thrCpu[c] = c /\ ~done[c]

(* From the first Schedule on. *)
Ready ==
  /\ \A c \in Cpus : Serving(c) /\ Holding(c)
  /\ \A w \in Workers : Working(w)
  /\ Homes /\ Control /\ Later

Inv == Booting \/ Ready

-----------------------------------------------------------------------------
(* Counting in sequences *)

(* A count is a number, and zero if there is nothing to count. *)
LEMMA CountType ==
  ASSUME NEW S, NEW q \in Seq(S), NEW x
  PROVE  /\ IsFiniteSet({i \in DOMAIN q : q[i] = x}) /\ Count(x, q) \in Nat
         /\ Count(x, q) = 0 <=> \A i \in DOMAIN q : q[i] # x
<1> DEFINE A == {i \in DOMAIN q : q[i] = x}
<1>1. DOMAIN q = 1 .. Len(q) /\ Len(q) \in Nat
  OBVIOUS
<1>2. IsFiniteSet(1 .. Len(q)) /\ A \in SUBSET (1 .. Len(q))
  BY <1>1, FS_Interval
<1>3. IsFiniteSet(A) /\ Cardinality(A) \in Nat
  BY <1>2, FS_Subset, FS_CardinalityType
<1>4. Cardinality(A) = 0 <=> A = {}
  BY <1>3, FS_EmptySet
<1> QED
  BY <1>3, <1>4 DEF Count

(* Appending y counts one more for y only. *)
LEMMA CountAppend ==
  ASSUME NEW S, NEW q \in Seq(S), NEW y \in S, NEW x
  PROVE  Count(x, Append(q, y)) = Count(x, q) + (IF y = x THEN 1 ELSE 0)
<1> DEFINE A == {i \in DOMAIN q : q[i] = x}
           B == {i \in DOMAIN Append(q, y) : Append(q, y)[i] = x}
<1>1. /\ DOMAIN q = 1 .. Len(q) /\ Len(q) \in Nat /\ DOMAIN Append(q, y) = 1 .. Len(q) + 1
      /\ \A i \in DOMAIN q : Append(q, y)[i] = q[i]
      /\ Append(q, y)[Len(q) + 1] = y
  OBVIOUS
<1>2. IsFiniteSet(A) /\ Cardinality(A) \in Nat
  BY CountType DEF Count
<1>5. Count(x, q) = Cardinality(A) /\ Count(x, Append(q, y)) = Cardinality(B)
  BY DEF Count
<1>3. CASE y = x
  <2>1. B = A \cup {Len(q) + 1} /\ Len(q) + 1 \notin A
    BY <1>1, <1>3
  <2>2. Cardinality(B) = Cardinality(A) + 1
    BY <2>1, <1>2, FS_AddElement
  <2> HIDE DEF A, B
  <2> QED
    BY <2>2, <1>3, <1>5
<1>4. CASE y # x
  <2>1. B = A
    BY <1>1, <1>4
  <2> HIDE DEF A, B
  <2> QED
    BY <2>1, <1>2, <1>4, <1>5
<1> QED
  BY <1>3, <1>4

(* The tail counts one less for the head only. *)
LEMMA CountTail ==
  ASSUME NEW S, NEW q \in Seq(S), q # <<>>, NEW x
  PROVE  /\ Count(x, Tail(q)) \in Nat
         /\ Count(x, q) = Count(x, Tail(q)) + (IF Head(q) = x THEN 1 ELSE 0)
<1> DEFINE A == {i \in DOMAIN q : q[i] = x}
           B == {i \in DOMAIN Tail(q) : Tail(q)[i] = x}
           C == A \ {1}
           shift == [i \in B |-> i + 1]
<1>1. /\ DOMAIN q = 1 .. Len(q) /\ Len(q) \in Nat /\ Len(q) > 0 /\ DOMAIN Tail(q) = 1 .. Len(q) - 1
      /\ \A i \in DOMAIN Tail(q) : Tail(q)[i] = q[i + 1]
      /\ Head(q) = q[1] /\ Tail(q) \in Seq(S)
  OBVIOUS
<1>2. IsFiniteSet(A) /\ Cardinality(A) \in Nat
  BY CountType DEF Count
<1>3. IsFiniteSet(B) /\ Cardinality(B) \in Nat
  <2>1. Tail(q) \in Seq(S)
    BY <1>1
  <2> QED
    BY <2>1, CountType DEF Count
<1>8. Count(x, q) = Cardinality(A) /\ Count(x, Tail(q)) = Cardinality(B)
  BY DEF Count
<1>4. ExistsBijection(B, C)
  <2>1. \A i \in B : i + 1 \in C
    BY <1>1
  <2>2. \A j \in C : j - 1 \in B /\ (j - 1) + 1 = j
    <3> TAKE j \in C
    <3>1. j \in 1 .. Len(q) /\ j # 1 /\ q[j] = x
      BY <1>1
    <3>2. j - 1 \in DOMAIN Tail(q) /\ (j - 1) + 1 = j
      BY <1>1, <3>1
    <3> QED
      BY <1>1, <3>1, <3>2
  <2>3. \A i, j \in B : i + 1 = j + 1 => i = j
    BY <1>1
  <2> HIDE DEF B, C
  <2>4. shift \in [B -> C]
    BY <2>1
  <2>5. \A i, j \in B : shift[i] = shift[j] => i = j
    BY <2>3
  <2>6. \A j \in C : \E i \in B : shift[i] = j
    BY <2>2
  <2> HIDE DEF shift
  <2>7. shift \in Injection(B, C) /\ shift \in Surjection(B, C)
    BY <2>4, <2>5, <2>6 DEF Injection, IsInjective, Surjection
  <2> QED
    BY <2>7 DEF ExistsBijection, Bijection
<1>5. Cardinality(B) = Cardinality(C)
  <2> HIDE DEF B, C
  <2> QED
    BY <1>3, <1>4, FS_Bijection
<1>6. CASE Head(q) = x
  <2>1. 1 \in A
    BY <1>1, <1>6
  <2>2. Cardinality(C) = Cardinality(A) - 1
    BY <2>1, <1>2, FS_RemoveElement
  <2> HIDE DEF A, B, C
  <2> QED
    BY <2>2, <1>2, <1>3, <1>5, <1>6, <1>8
<1>7. CASE Head(q) # x
  <2>1. C = A
    BY <1>1, <1>7
  <2> HIDE DEF A, B, C
  <2> QED
    BY <2>1, <1>2, <1>3, <1>5, <1>7, <1>8
<1> QED
  BY <1>6, <1>7

(* The empty sequence counts nothing. *)
LEMMA CountEmpty == \A x : Count(x, <<>>) = 0
<1> TAKE x
<1>1. {i \in DOMAIN <<>> : <<>>[i] = x} = {}
  OBVIOUS
<1> QED
  BY <1>1, FS_EmptySet DEF Count

-----------------------------------------------------------------------------
(* The places of a thread *)

(* The CPUs to which f gives w. *)
On(f, w) == {c \in Cpus : f[c] = w}

(* The places of w in the lines of the semaphores. *)
LEMMA LinesElements ==
  ASSUME NEW w
  PROVE  \A x : x \in InLines(w) <=>
           \E s \in Sems : \E i \in DOMAIN semq[s] : x = <<s, i>> /\ semq[s][i] = w
BY DEF InLines

(* The share of a set in a sum of places is one or nothing. *)
LEMMA Membership == \A B, x : Cardinality({x} \cap B) = IF x \in B THEN 1 ELSE 0
<1> TAKE B, x
<1>1. CASE x \in B
  <2>1. {x} \cap B = {x}
    BY <1>1
  <2> QED
    BY <2>1, <1>1, FS_Singleton
<1>2. CASE x \notin B
  <2>1. {x} \cap B = {}
    BY <1>2
  <2> QED
    BY <2>1, <1>2, FS_EmptySet
<1> QED
  BY <1>1, <1>2

(* The summands of Places are numbers. *)
LEMMA PlaceTypes ==
  ASSUME TypeOK, NEW w, IsFiniteSet(InLines(w))
  PROVE  /\ Count(w, runq) \in Nat /\ Cardinality(InLines(w)) \in Nat
         /\ IsFiniteSet(On(cur, w)) /\ Cardinality(On(cur, w)) \in Nat
         /\ Cardinality({w} \cap blocked) = IF w \in blocked THEN 1 ELSE 0
         /\ Places(w) = Count(w, runq) + Cardinality(On(cur, w))
                          + Cardinality({w} \cap blocked) + Cardinality(InLines(w))
<1>1. Count(w, runq) \in Nat
  BY CountType DEF TypeOK
<1>2. IsFiniteSet(Cpus)
  BY FS_Interval, SchedulerAssumption DEF SchedulerAssumption, Cpus
<1>3. IsFiniteSet(On(cur, w)) /\ Cardinality(On(cur, w)) \in Nat
  BY <1>2, FS_Subset, FS_CardinalityType DEF On
<1>4. Cardinality({w} \cap blocked) = IF w \in blocked THEN 1 ELSE 0
  BY Membership
<1>5. Cardinality(InLines(w)) \in Nat
  BY FS_CardinalityType
<1> QED
  BY <1>1, <1>3, <1>4, <1>5 DEF Places, On

(* A thread that is in one place is in no other. *)
LEMMA Whereabouts ==
  ASSUME TypeOK, Homes, NEW w \in Workers
  PROVE  /\ \A c, d \in Cpus : cur[c] = w /\ cur[d] = w => c = d
         /\ Count(w, runq) > 0 \/ w \in blocked => \A c \in Cpus : cur[c] # w
<1> DEFINE a == Count(w, runq)
           b == Cardinality(On(cur, w))
           e == Cardinality({w} \cap blocked)
           f == Cardinality(InLines(w))
<1>1. a \in Nat /\ b \in Nat /\ f \in Nat /\ IsFiniteSet(On(cur, w)) /\ a + b + e + f = 1
      /\ e = IF w \in blocked THEN 1 ELSE 0
  BY PlaceTypes DEF Homes
<1>2. \A c \in Cpus : cur[c] = w => /\ On(cur, w) = {c} 
                                    /\ a = 0 /\ w \notin blocked
  <2> SUFFICES ASSUME NEW c \in Cpus, cur[c] = w
               PROVE  On(cur, w) = {c} /\ a = 0 /\ w \notin blocked
    OBVIOUS
  <2>1. c \in On(cur, w)
    BY DEF On
  <2>2. IsFiniteSet(On(cur, w) \ {c}) /\ Cardinality(On(cur, w) \ {c}) = b - 1
    BY <1>1, <2>1, FS_RemoveElement
  <2>3. b - 1 \in Nat
    BY <2>2, FS_CardinalityType
  <2> HIDE DEF a, b, e, f
  <2>4. b - 1 = 0 /\ a = 0 /\ e = 0
    BY <1>1, <2>3
  <2>5. On(cur, w) \ {c} = {}
    BY <2>2, <2>4, FS_EmptySet
  <2> QED
    BY <1>1, <2>1, <2>4, <2>5
<1>3. \A c, d \in Cpus : cur[c] = w /\ cur[d] = w => c = d
  BY <1>2 DEF On
<1> HIDE DEF a
<1>4. a > 0 \/ w \in blocked => \A c \in Cpus : cur[c] # w
  BY <1>1, <1>2
<1> QED
  BY <1>3, <1>4 DEF a

(* Switching a CPU from one thread to another. *)
OnlyAt(f, g, c) == g[c] # f[c] /\ \A d \in Cpus \ {c} : g[d] = f[d]

(* What the switch of one CPU does to the number of CPUs a thread has. *)
LEMMA Exchanged ==
  ASSUME NEW f, NEW g, NEW c \in Cpus, OnlyAt(f, g, c), NEW w
  PROVE  /\ IsFiniteSet(On(f, w)) /\ Cardinality(On(f, w)) \in Nat
         /\ Cardinality(On(g, w)) =
              Cardinality(On(f, w)) - (IF f[c] = w THEN 1 ELSE 0) + (IF g[c] = w THEN 1 ELSE 0)
<1> DEFINE A == On(f, w)
           B == On(g, w)
<1>1. IsFiniteSet(A) /\ Cardinality(A) \in Nat
  <2>1. IsFiniteSet(Cpus)
    BY FS_Interval, SchedulerAssumption DEF SchedulerAssumption, Cpus
  <2> QED
    BY <2>1, FS_Subset, FS_CardinalityType DEF On
<1>2. CASE f[c] = w
  <2>1. B = A \ {c} /\ c \in A
    BY <1>2 DEF On, OnlyAt
  <2> HIDE DEF A, B
  <2>2. Cardinality(B) = Cardinality(A) - 1
    BY <2>1, <1>1, FS_RemoveElement
  <2> QED
    BY <2>2, <1>1, <1>2 DEF A, B, OnlyAt
<1>3. CASE g[c] = w
  <2>1. B = A \cup {c} /\ c \notin A
    BY <1>3 DEF On, OnlyAt
  <2> HIDE DEF A, B
  <2>2. Cardinality(B) = Cardinality(A) + 1
    BY <2>1, <1>1, FS_AddElement
  <2> QED
    BY <2>2, <1>1, <1>3 DEF A, B, OnlyAt
<1>4. CASE f[c] # w /\ g[c] # w
  <2>1. B = A
    BY <1>4 DEF On, OnlyAt
  <2> HIDE DEF A, B
  <2> QED
    BY <2>1, <1>1, <1>4 DEF A, B
<1> QED
  BY <1>2, <1>3, <1>4

(* The same for a step that switches one CPU in cur. *)
LEMMA Switched ==
  ASSUME NEW c \in Cpus, cur'[c] # cur[c], \A d \in Cpus \ {c} : cur'[d] = cur[d], NEW w
  PROVE  Cardinality(On(cur', w)) =
           Cardinality(On(cur, w)) - (IF cur[c] = w THEN 1 ELSE 0) + (IF cur'[c] = w THEN 1 ELSE 0)
<1>1. PICK f, g : f = cur /\ g = cur'
  OBVIOUS
<1>2. OnlyAt(f, g, c)
  BY <1>1 DEF OnlyAt
<1>3. Cardinality(On(g, w)) =
        Cardinality(On(f, w)) - (IF f[c] = w THEN 1 ELSE 0) + (IF g[c] = w THEN 1 ELSE 0)
  BY <1>2, Exchanged
<1> QED
  BY <1>1, <1>3

(* A thread x joins the line of s. *)
LEMMA LineExtended ==
  ASSUME TypeOK, NEW s \in Sems, NEW x \in Pids, semq' = [semq EXCEPT ![s] = Append(@, x)],
         NEW w, IsFiniteSet(InLines(w))
  PROVE  /\ IsFiniteSet(InLines(w)')
         /\ Cardinality(InLines(w))' = Cardinality(InLines(w)) + (IF x = w THEN 1 ELSE 0)
<1> DEFINE n == Len(semq[s]) + 1
<1>1. semq[s] \in Seq(Pids) /\ semq'[s] = Append(semq[s], x) /\ \A r \in Sems \ {s} : semq'[r] = semq[r]
  BY DEF TypeOK
<1>2. /\ n \notin DOMAIN semq[s] /\ DOMAIN semq'[s] = DOMAIN semq[s] \cup {n}
      /\ semq'[s][n] = x /\ \A i \in DOMAIN semq[s] : semq'[s][i] = semq[s][i]
  BY <1>1
<1> HIDE DEF n
<1>3. \A y : y \in InLines(w) <=>
        \E r \in Sems : \E i \in DOMAIN semq[r] : y = <<r, i>> /\ semq[r][i] = w
  BY LinesElements
<1>4. \A y : y \in InLines(w)' <=>
        \E r \in Sems : \E i \in DOMAIN semq'[r] : y = <<r, i>> /\ semq'[r][i] = w
  BY DEF InLines
<1>5. <<s, n>> \notin InLines(w)
  BY <1>2, <1>3
<1>6. \A y : y # <<s, n>> => (y \in InLines(w)' <=> y \in InLines(w))
  <2> SUFFICES ASSUME NEW y, y # <<s, n>> PROVE y \in InLines(w)' <=> y \in InLines(w)
    OBVIOUS
  <2>1. ASSUME NEW r \in Sems, NEW i, y = <<r, i>>
        PROVE  i \in DOMAIN semq'[r] /\ semq'[r][i] = w <=> i \in DOMAIN semq[r] /\ semq[r][i] = w
    <3>1. CASE r = s
      <4>1. i # n
        BY <2>1, <3>1
      <4> QED
        BY <4>1, <3>1, <1>2
    <3>2. CASE r # s
      BY <3>2, <1>1
    <3> QED
      BY <3>1, <3>2
  <2> QED
    BY <2>1, <1>3, <1>4
<1>7. <<s, n>> \in InLines(w)' <=> x = w
  BY <1>2, <1>4
<1>8. CASE x = w
  <2>1. InLines(w)' = InLines(w) \cup {<<s, n>>}
    BY <1>5, <1>6, <1>7, <1>8
  <2> QED
    BY <2>1, <1>5, <1>8, FS_AddElement
<1>9. CASE x # w
  <2>1. InLines(w)' = InLines(w)
    <3>1. \A y : y \in InLines(w)' <=> y \in InLines(w)
      BY <1>5, <1>6, <1>7, <1>9
    <3> QED
      BY <3>1
  <2>2. Cardinality(InLines(w)) \in Nat
    BY FS_CardinalityType
  <2> QED
    BY <2>1, <2>2, <1>9
<1> QED
  BY <1>8, <1>9

(* The first thread of the line of s leaves it. *)
LEMMA LineShortened ==
  ASSUME TypeOK, NEW s \in Sems, semq[s] # <<>>, semq' = [semq EXCEPT ![s] = Tail(@)],
         NEW w, IsFiniteSet(InLines(w))
  PROVE  /\ IsFiniteSet(InLines(w)')
         /\ Cardinality(InLines(w)) =
              Cardinality(InLines(w))' + (IF Head(semq[s]) = w THEN 1 ELSE 0)
<1> DEFINE later(y) == IF y[1] = s THEN <<s, y[2] + 1>> ELSE y
           rest == InLines(w) \ {<<s, 1>>}
           after == InLines(w)'
           shift == [y \in after |-> later(y)]
<1>1. /\ semq[s] \in Seq(Pids) /\ semq'[s] = Tail(semq[s])
      /\ \A r \in Sems \ {s} : semq'[r] = semq[r]
  BY DEF TypeOK
<1>2. /\ DOMAIN semq[s] \subseteq Nat \ {0} /\ DOMAIN semq'[s] \subseteq Nat \ {0}
      /\ \A i \in Nat \ {0} : i \in DOMAIN semq'[s] <=> i + 1 \in DOMAIN semq[s]
      /\ 1 \in DOMAIN semq[s] /\ Head(semq[s]) = semq[s][1]
      /\ \A i \in DOMAIN semq'[s] : semq'[s][i] = semq[s][i + 1]
  <2>1. \A q \in Seq(Pids) : q # <<>> =>
          /\ Len(q) \in Nat /\ Len(q) > 0 /\ DOMAIN q = 1 .. Len(q) /\ Head(q) = q[1]
          /\ DOMAIN Tail(q) = 1 .. Len(q) - 1 /\ \A i \in 1 .. Len(q) - 1 : Tail(q)[i] = q[i + 1]
    OBVIOUS
  <2> DEFINE m == Len(semq[s])
  <2>2. /\ m \in Nat /\ m > 0 /\ DOMAIN semq[s] = 1 .. m /\ Head(semq[s]) = semq[s][1]
        /\ DOMAIN semq'[s] = 1 .. m - 1 /\ \A i \in 1 .. m - 1 : semq'[s][i] = semq[s][i + 1]
    BY <2>1, <1>1
  <2> HIDE DEF m
  <2> QED
    BY <2>2
<1>3. \A y : y \in InLines(w) <=>
        \E r \in Sems : \E i \in DOMAIN semq[r] : y = <<r, i>> /\ semq[r][i] = w
  BY LinesElements
<1>4. \A y : y \in after <=>
        \E r \in Sems : \E i \in DOMAIN semq'[r] : y = <<r, i>> /\ semq'[r][i] = w
  BY DEF InLines
<1> HIDE DEF after
<1>5. \A y \in after : later(y) \in rest
  <2> SUFFICES ASSUME NEW r \in Sems, NEW i \in DOMAIN semq'[r], semq'[r][i] = w
               PROVE  later(<<r, i>>) \in rest
    BY <1>4
  <2>1. CASE r = s
    <3>1. i \in Nat /\ i # 0 /\ i + 1 \in DOMAIN semq[s] /\ semq[s][i + 1] = w
      BY <2>1, <1>2
    <3>2. later(<<r, i>>) = <<s, i + 1>>
      BY <2>1
    <3>3. <<s, i + 1>> \in InLines(w) /\ i + 1 # 1
      BY <3>1, <1>3
    <3> QED
      BY <3>2, <3>3
  <2>2. CASE r # s
    <3>1. <<r, i>> \in InLines(w) /\ <<r, i>> # <<s, 1>> /\ later(<<r, i>>) = <<r, i>>
      BY <2>2, <1>1, <1>3
    <3> QED
      BY <3>1
  <2> QED
    BY <2>1, <2>2
<1>6. \A y \in rest : \E z \in after : later(z) = y
  <2> SUFFICES ASSUME NEW r \in Sems, NEW i \in DOMAIN semq[r], semq[r][i] = w, <<r, i>> # <<s, 1>>
               PROVE  \E z \in after : later(z) = <<r, i>>
    <3> HIDE DEF later
    <3> QED
      BY <1>3
  <2>1. CASE r = s
    <3>1. i \in Nat /\ i # 0 /\ i # 1
      BY <2>1, <1>2
    <3>2. i - 1 \in Nat /\ i - 1 # 0 /\ (i - 1) + 1 = i
      BY <3>1
    <3>3. i - 1 \in DOMAIN semq'[s] /\ semq'[s][i - 1] = w
      BY <3>2, <2>1, <1>2
    <3>4. <<s, i - 1>> \in after
      BY <3>3, <1>4
    <3>5. later(<<s, i - 1>>) = <<r, i>>
      BY <3>2, <2>1
    <3> QED
      BY <3>4, <3>5
  <2>2. CASE r # s
    <3>1. <<r, i>> \in after /\ later(<<r, i>>) = <<r, i>>
      BY <2>2, <1>1, <1>4
    <3> QED
      BY <3>1
  <2> QED
    BY <2>1, <2>2
<1>7. \A y, z \in after : later(y) = later(z) => y = z
  <2> SUFFICES ASSUME NEW r \in Sems, NEW i \in DOMAIN semq'[r],
                      NEW q \in Sems, NEW j \in DOMAIN semq'[q],
                      later(<<r, i>>) = later(<<q, j>>)
               PROVE  <<r, i>> = <<q, j>>
    BY <1>4
  <2>1. r = q
    OBVIOUS
  <2>2. CASE r = s
    <3>1. i \in Nat /\ j \in Nat
      BY <2>1, <2>2, <1>2
    <3>2. i + 1 = j + 1
      BY <2>1, <2>2
    <3> QED
      BY <3>1, <3>2, <2>1
  <2>3. CASE r # s
    BY <2>1, <2>3
  <2> QED
    BY <2>2, <2>3
<1>8. <<s, 1>> \in InLines(w) <=> Head(semq[s]) = w
  BY <1>2, <1>3
<1> HIDE DEF later
<1>9. ExistsBijection(after, rest)
  <2> HIDE DEF rest
  <2>1. shift \in [after -> rest] /\ \A y \in after : shift[y] = later(y)
    BY <1>5
  <2> HIDE DEF shift
  <2>2. shift \in Injection(after, rest)
    BY <2>1, <1>7 DEF Injection, IsInjective
  <2>3. shift \in Surjection(after, rest)
    BY <2>1, <1>6 DEF Surjection
  <2> QED
    BY <2>2, <2>3 DEF ExistsBijection, Bijection
<1>10. IsFiniteSet(rest) /\ Cardinality(InLines(w)) \in Nat
       /\ Cardinality(rest) =
            Cardinality(InLines(w)) - (IF <<s, 1>> \in InLines(w) THEN 1 ELSE 0)
  BY FS_CardinalityType, FS_RemoveElement
<1>11. IsFiniteSet(after) /\ Cardinality(after) = Cardinality(rest)
  <2>1. ExistsBijection(rest, after)
    BY <1>9, Fun_ExistsBijSymmetric
  <2> HIDE DEF rest
  <2> QED
    BY <2>1, <1>10, FS_Bijection
<1> QED
  BY <1>8, <1>10, <1>11 DEF after

(* The summands of Places after a step. *)
LEMMA PlacesNext ==
  ASSUME NEW w
  PROVE  Places(w)' = Count(w, runq') + Cardinality(On(cur', w))
                        + (IF w \in blocked' THEN 1 ELSE 0) + Cardinality(InLines(w))'
<1>1. Places(w)' = Count(w, runq') + Cardinality({c \in Cpus : cur'[c] = w})
                     + Cardinality({w} \cap blocked') + Cardinality(InLines(w)')
  BY DEF Places, Count
<1>2. Cardinality({w} \cap blocked') = IF w \in blocked' THEN 1 ELSE 0
  BY Membership
<1>3. Cardinality(On(cur', w)) = Cardinality({c \in Cpus : cur'[c] = w})
  BY DEF On
<1>4. Cardinality(InLines(w))' = Cardinality(InLines(w)')
  OBVIOUS
<1> QED
  BY <1>1, <1>2, <1>3, <1>4

(* Queues of threads of the device file stay so. *)
LEMMA WorkerSeqs ==
  ASSUME TypeOK
  PROVE  /\ Workers \subseteq Pids /\ Seq(Workers) \subseteq Seq(Pids)
         /\ \A q \in Seq(Workers) : q # <<>> => Head(q) \in Workers /\ Tail(q) \in Seq(Workers)
         /\ \A q \in Seq(Workers), w \in Workers : Append(q, w) \in Seq(Workers)
<1>1. Workers \subseteq Pids
  BY Identities
<1>2. \A S, T : S \subseteq T => Seq(S) \subseteq Seq(T)
  OBVIOUS
<1>3. \A S : \A q \in Seq(S) : q # <<>> => Head(q) \in S /\ Tail(q) \in Seq(S)
  OBVIOUS
<1>4. \A S : \A q \in Seq(S), w \in S : Append(q, w) \in Seq(S)
  OBVIOUS
<1> QED
  BY <1>1, <1>2, <1>3, <1>4

(* Idle threads, threads of the device file and interrupt threads are told apart. *)
LEMMA Apart ==
  /\ Cpus \cap Workers = {} /\ Cpus \subseteq Pids /\ Workers \subseteq Pids /\ Pids \subseteq Tids
  /\ \A t \in Tids : t \in Cpus \/ t \in Workers \/ \E c \in Cpus : t = Irq(c)
  /\ \A c \in Cpus : Irq(c) \in Tids /\ Irq(c) \notin Pids /\ Irq(c) < 0 /\ 0 - Irq(c) = c
  /\ \A c, d \in Cpus : Irq(c) = Irq(d) => c = d
  /\ \A t \in Tids : (t < 0 <=> t \notin Pids) /\ (t > 0 <=> t \in Pids)
  /\ \A c \in Cpus : IsIdle(c)
  /\ \A w \in Workers : ~IsIdle(w)
<1>1. NumCpu \in Nat /\ NumCpu > 0 /\ NumThreads \in Nat
  BY SchedulerAssumption DEF SchedulerAssumption
<1>2. Pids = Cpus \cup Workers /\ Cpus \cap Workers = {}
  BY <1>1 DEF Pids, Cpus, Workers
<1>3. \A c \in Cpus : Irq(c) \in Int /\ Irq(c) < 0 /\ 0 - Irq(c) = c /\ Irq(c) \notin Pids
  BY <1>1 DEF Cpus, Irq, Pids
<1>4. \A t \in Pids : t \in Int /\ t > 0
  BY <1>1 DEF Pids
<1>5. \A t \in Tids : t \in Pids \/ \E c \in Cpus : t = Irq(c)
  BY DEF Tids
<1>6. /\ \A c \in Cpus : IsIdle(c)
      /\ \A w \in Workers : ~IsIdle(w)
  BY <1>1 DEF Cpus, Workers, IsIdle
<1>7. \A t \in Tids : (t < 0 <=> t \notin Pids) /\ (t > 0 <=> t \in Pids)
  BY <1>3, <1>4, <1>5
<1>8. \A c, d \in Cpus : Irq(c) = Irq(d) => c = d
  BY <1>3
<1> QED
  BY <1>2, <1>3, <1>5, <1>6, <1>7, <1>8 DEF Tids

(* An idle CPU takes the first thread of the run queue. *)
LEMMA HomesTake ==
  ASSUME TypeOK, Homes, NEW c \in Cpus, cur[c] = c, runq # <<>>,
         cur' = [cur EXCEPT ![c] = Head(runq)], runq' = Tail(runq),
         UNCHANGED <<blocked, semq>>, \A d \in Cpus : base'[d] \in Workers \cup {d}
  PROVE  Homes'
<1>1. Head(runq) \in Workers /\ Tail(runq) \in Seq(Workers) /\ c \notin Workers /\ Head(runq) # c
  BY WorkerSeqs, Apart DEF Homes
<1>2. \A d \in Cpus : cur'[d] \in Workers \cup {d}
  BY <1>1 DEF TypeOK, Homes
<1>3. \A w : InLines(w)' = InLines(w)
  BY DEF InLines
<1>4. ASSUME NEW w \in Workers PROVE Places(w)' = 1 /\ IsFiniteSet(InLines(w)')
  <2>1. IsFiniteSet(InLines(w)) /\ Places(w) = 1
    BY DEF Homes
  <2>2. /\ Count(w, runq) \in Nat /\ Cardinality(InLines(w)) \in Nat /\ Cardinality(On(cur, w)) \in Nat
        /\ Count(w, runq) + Cardinality(On(cur, w))
             + (IF w \in blocked THEN 1 ELSE 0) + Cardinality(InLines(w)) = 1
    BY <2>1, PlaceTypes
  <2>3. Cardinality(On(cur', w)) = Cardinality(On(cur, w)) + (IF Head(runq) = w THEN 1 ELSE 0)
    <3>4. cur'[c] = Head(runq) /\ Head(runq) # cur[c] /\ \A d \in Cpus \ {c} : cur'[d] = cur[d]
      BY <1>1 DEF TypeOK
    <3>1. Cardinality(On(cur', w)) =
           Cardinality(On(cur, w)) - (IF cur[c] = w THEN 1 ELSE 0) + (IF Head(runq) = w THEN 1 ELSE 0)
      <4>1. cur'[c] # cur[c] /\ \A d \in Cpus \ {c} : cur'[d] = cur[d]
        BY <3>4
      <4>2. Cardinality(On(cur', w)) = Cardinality(On(cur, w))
              - (IF cur[c] = w THEN 1 ELSE 0) + (IF cur'[c] = w THEN 1 ELSE 0)
        BY <4>1, Switched
      <4> QED
        BY <4>2, <3>4
    <3>2. cur[c] # w
      BY <1>1
    <3> QED
      BY <3>1, <3>2, <2>2
  <2>4. Count(w, Tail(runq)) \in Nat
        /\ Count(w, runq) = Count(w, Tail(runq)) + (IF Head(runq) = w THEN 1 ELSE 0)
    BY CountTail DEF TypeOK
  <2>5. Places(w)' = 1
    <3>1. Places(w)' = Count(w, Tail(runq)) + Cardinality(On(cur', w))
                        + (IF w \in blocked THEN 1 ELSE 0) + Cardinality(InLines(w))
      BY PlacesNext, <1>3
    <3> QED
      BY <3>1, <2>2, <2>3, <2>4
  <2> QED
    BY <2>1, <2>5, <1>3
<1> QED
  BY <1>1, <1>2, <1>4 DEF Homes

(* A running thread leaves its CPU for the sleepers or the line of a semaphore. *)
LEMMA HomesLeave ==
  ASSUME TypeOK, Homes, NEW c \in Cpus, cur[c] \in Workers,
         cur' = [cur EXCEPT ![c] = c], UNCHANGED <<base, runq>>,
         \/ blocked' = blocked \cup {cur[c]} /\ UNCHANGED semq
         \/ /\ UNCHANGED blocked
            /\ \E s \in Sems : semq' = [semq EXCEPT ![s] = Append(@, cur[c])]
  PROVE  Homes'
<1>1. c \notin Workers /\ cur[c] \in Pids
  BY Apart
<1>2. \A d \in Cpus : cur'[d] \in Workers \cup {d}
  BY DEF TypeOK, Homes
<1>3. blocked' \subseteq Workers
  BY DEF Homes
<1>4. \A s \in Sems : semq'[s] \in Seq(Workers)
  <2>1. CASE UNCHANGED semq
    BY <2>1 DEF Homes
  <2>2. ASSUME NEW s \in Sems, semq' = [semq EXCEPT ![s] = Append(@, cur[c])]
        PROVE  \A r \in Sems : semq'[r] \in Seq(Workers)
    <3>1. Append(semq[s], cur[c]) \in Seq(Workers)
      BY DEF Homes
    <3> QED
      BY <2>2, <3>1 DEF TypeOK, Homes
  <2> QED
    BY <2>1, <2>2
<1>5. ASSUME NEW w \in Workers PROVE Places(w)' = 1 /\ IsFiniteSet(InLines(w)')
  <2>1. IsFiniteSet(InLines(w)) /\ Places(w) = 1
    BY DEF Homes
  <2>2. /\ Count(w, runq) \in Nat /\ Cardinality(InLines(w)) \in Nat /\ Cardinality(On(cur, w)) \in Nat
        /\ Count(w, runq) + Cardinality(On(cur, w))
             + (IF w \in blocked THEN 1 ELSE 0) + Cardinality(InLines(w)) = 1
    BY <2>1, PlaceTypes
  <2>3. Cardinality(On(cur', w)) = Cardinality(On(cur, w)) - (IF cur[c] = w THEN 1 ELSE 0)
    <3>4. cur'[c] = c /\ c # cur[c] /\ \A d \in Cpus \ {c} : cur'[d] = cur[d]
      BY <1>1 DEF TypeOK
    <3>1. Cardinality(On(cur', w)) =
           Cardinality(On(cur, w)) - (IF cur[c] = w THEN 1 ELSE 0) + (IF c = w THEN 1 ELSE 0)
      <4>1. cur'[c] # cur[c] /\ \A d \in Cpus \ {c} : cur'[d] = cur[d]
        BY <3>4
      <4>2. Cardinality(On(cur', w)) = Cardinality(On(cur, w))
              - (IF cur[c] = w THEN 1 ELSE 0) + (IF cur'[c] = w THEN 1 ELSE 0)
        BY <4>1, Switched
      <4> QED
        BY <4>2, <3>4
    <3> QED
      BY <3>1, <1>1, <2>2
  <2>4. Places(w)' = Count(w, runq) + Cardinality(On(cur', w))
                      + (IF w \in blocked' THEN 1 ELSE 0) + Cardinality(InLines(w))'
    BY PlacesNext
  <2>5. CASE blocked' = blocked \cup {cur[c]} /\ UNCHANGED semq
    <3>1. InLines(w)' = InLines(w)
      BY <2>5 DEF InLines
    <3>2. cur[c] = w => w \notin blocked
      BY Whereabouts
    <3> QED
      BY <3>1, <3>2, <2>1, <2>2, <2>3, <2>4, <2>5
  <2>6. ASSUME NEW s \in Sems, UNCHANGED blocked, semq' = [semq EXCEPT ![s] = Append(@, cur[c])]
        PROVE  Places(w)' = 1 /\ IsFiniteSet(InLines(w)')
    <3>1. /\ IsFiniteSet(InLines(w)')
          /\ Cardinality(InLines(w))' = Cardinality(InLines(w)) + (IF cur[c] = w THEN 1 ELSE 0)
      BY <2>1, <2>6, <1>1, LineExtended
    <3> QED
      BY <3>1, <2>2, <2>3, <2>4, <2>6
  <2> QED
    BY <2>5, <2>6
<1> QED
  BY <1>2, <1>3, <1>4, <1>5 DEF Homes

(* A sleeper or the first waiter of a semaphore joins the run queue. *)
LEMMA HomesReturn ==
  ASSUME TypeOK, Homes, NEW x \in Workers, runq' = Append(runq, x), UNCHANGED <<cur, base>>,
         \/ x \in blocked /\ blocked' = blocked \ {x} /\ UNCHANGED semq
         \/ /\ UNCHANGED blocked
            /\ \E s \in Sems : /\ semq[s] # <<>> /\ x = Head(semq[s])
                               /\ semq' = [semq EXCEPT ![s] = Tail(@)]
  PROVE  Homes'
<1>1. runq' \in Seq(Workers) /\ blocked' \subseteq Workers
  BY DEF Homes
<1>2. \A d \in Cpus : cur'[d] \in Workers \cup {d} /\ base'[d] \in Workers \cup {d}
  BY DEF Homes
<1>4. \A s \in Sems : semq'[s] \in Seq(Workers)
  <2>1. CASE UNCHANGED semq
    BY <2>1 DEF Homes
  <2>2. ASSUME NEW s \in Sems, semq[s] # <<>>, semq' = [semq EXCEPT ![s] = Tail(@)]
        PROVE  \A r \in Sems : semq'[r] \in Seq(Workers)
    <3>1. Tail(semq[s]) \in Seq(Workers)
      BY <2>2, WorkerSeqs DEF Homes
    <3> QED
      BY <2>2, <3>1 DEF TypeOK, Homes
  <2> QED
    BY <2>1, <2>2
<1>5. ASSUME NEW w \in Workers PROVE Places(w)' = 1 /\ IsFiniteSet(InLines(w)')
  <2>1. IsFiniteSet(InLines(w)) /\ Places(w) = 1
    BY DEF Homes
  <2>2. /\ Count(w, runq) \in Nat /\ Cardinality(InLines(w)) \in Nat /\ Cardinality(On(cur, w)) \in Nat
        /\ Count(w, runq) + Cardinality(On(cur, w))
             + (IF w \in blocked THEN 1 ELSE 0) + Cardinality(InLines(w)) = 1
    BY <2>1, PlaceTypes
  <2>3. Count(w, Append(runq, x)) = Count(w, runq) + (IF x = w THEN 1 ELSE 0)
    BY CountAppend, Identities DEF TypeOK
  <2>4. Places(w)' = Count(w, Append(runq, x)) + Cardinality(On(cur, w))
                      + (IF w \in blocked' THEN 1 ELSE 0) + Cardinality(InLines(w))'
    <3>1. On(cur', w) = On(cur, w)
      BY DEF On
    <3> QED
      BY <3>1, PlacesNext
  <2>5. CASE x \in blocked /\ blocked' = blocked \ {x} /\ UNCHANGED semq
    <3>1. InLines(w)' = InLines(w)
      BY <2>5 DEF InLines
    <3> QED
      BY <3>1, <2>1, <2>2, <2>3, <2>4, <2>5
  <2>6. ASSUME NEW s \in Sems, UNCHANGED blocked, semq[s] # <<>>, x = Head(semq[s]),
               semq' = [semq EXCEPT ![s] = Tail(@)]
        PROVE  Places(w)' = 1 /\ IsFiniteSet(InLines(w)')
    <3>1. /\ IsFiniteSet(InLines(w)')
          /\ Cardinality(InLines(w)) = Cardinality(InLines(w))' + (IF x = w THEN 1 ELSE 0)
      BY <2>1, <2>6, LineShortened
    <3>2. Cardinality(InLines(w)') \in Nat
      BY <3>1, FS_CardinalityType
    <3> QED
      BY <3>1, <3>2, <2>2, <2>3, <2>4, <2>6
  <2> QED
    BY <2>5, <2>6
<1> QED
  BY <1>1, <1>2, <1>4, <1>5 DEF Homes

(* A step that moves no thread. *)
LEMMA HomesSame ==
  ASSUME Homes, UNCHANGED <<runq, blocked, cur, semq>>,
         \A d \in Cpus : base'[d] \in Workers \cup {d}
  PROVE  Homes'
<1>1. \A w : InLines(w)' = InLines(w) /\ Places(w)' = Places(w)
  BY DEF InLines, Places, Count
<1> QED
  BY <1>1 DEF Homes

-----------------------------------------------------------------------------
(* The queue of current events *)

LEMMA CallFacts ==
  /\ \A t \in Tids : Call(t) \in Events /\ Call(t).fn = "dispatch"
  /\ \A t, u : Call(t) = Call(u) <=> t = u
  /\ \A e, t : e.fn # "dispatch" => e # Call(t)
  /\ \A e \in Events : e.fn = "dispatch" => e.arg \in Tids /\ e = Call(e.arg)
BY EventTypes DEF Call, Event, Events

(* What queueing an event does to the dispatches that wait and to their order. *)
LEMMA QueueAppended ==
  ASSUME TypeOK, NEW e \in Events, nowq' = Append(nowq, e)
  PROVE  /\ \A t : Calls(t) \in Nat /\ Calls(t)' = Calls(t) + (IF e = Call(t) THEN 1 ELSE 0)
         /\ \A t, u : e # Call(t) /\ Precedes(t, u) => Precedes(t, u)'
         /\ \A t, u : e = Call(u) /\ t # u => Precedes(t, u)'
<1>1. nowq \in Seq(Events)
  BY DEF TypeOK
<1>2. /\ Len(nowq) \in Nat /\ DOMAIN nowq = 1 .. Len(nowq)
      /\ DOMAIN nowq' = 1 .. Len(nowq) + 1 /\ nowq'[Len(nowq) + 1] = e
      /\ \A i \in DOMAIN nowq : nowq'[i] = nowq[i]
  BY <1>1
<1>3. \A t : Calls(t) \in Nat /\ Calls(t)' = Calls(t) + (IF e = Call(t) THEN 1 ELSE 0)
  <2> TAKE t
  <2>1. Calls(t)' = Count(Call(t), Append(nowq, e)) /\ Calls(t) = Count(Call(t), nowq)
    BY DEF Calls, Count, Call, Event
  <2>2. Count(Call(t), nowq) \in Nat
    BY <1>1, CountType
  <2>3. Count(Call(t), Append(nowq, e)) = Count(Call(t), nowq) + (IF e = Call(t) THEN 1 ELSE 0)
    BY <1>1, CountAppend
  <2> QED
    BY <2>1, <2>2, <2>3
<1>4. ASSUME NEW t, NEW u, e # Call(t), Precedes(t, u) PROVE Precedes(t, u)'
  <2> SUFFICES ASSUME NEW i \in DOMAIN nowq', nowq'[i] = Call(t)
               PROVE  \E j \in DOMAIN nowq' : i < j /\ nowq'[j] = Call(u)
    BY DEF Precedes, Call, Event
  <2>1. i \in DOMAIN nowq /\ nowq[i] = Call(t)
    BY <1>2, <1>4
  <2>2. PICK j \in DOMAIN nowq : i < j /\ nowq[j] = Call(u)
    BY <2>1, <1>4 DEF Precedes
  <2> QED
    BY <2>2, <1>2
<1>5. ASSUME NEW t, NEW u, e = Call(u), t # u PROVE Precedes(t, u)'
  <2> SUFFICES ASSUME NEW i \in DOMAIN nowq', nowq'[i] = Call(t)
               PROVE  \E j \in DOMAIN nowq' : i < j /\ nowq'[j] = Call(u)
    BY DEF Precedes, Call, Event
  <2>1. i # Len(nowq) + 1
    BY <1>2, <1>5, CallFacts
  <2>2. i < Len(nowq) + 1 /\ Len(nowq) + 1 \in DOMAIN nowq' /\ nowq'[Len(nowq) + 1] = Call(u)
    BY <2>1, <1>2, <1>5
  <2> QED
    BY <2>2
<1> QED
  BY <1>3, <1>4, <1>5

(* What taking the first event does to them. *)
LEMMA QueueTaken ==
  ASSUME TypeOK, nowq # <<>>, nowq' = Tail(nowq)
  PROVE  /\ \A t : Calls(t)' \in Nat /\ Calls(t) = Calls(t)' + (IF Head(nowq) = Call(t) THEN 1 ELSE 0)
         /\ \A t, u : Precedes(t, u) => Precedes(t, u)'
<1>1. nowq \in Seq(Events)
  BY DEF TypeOK
<1>2. /\ Len(nowq) \in Nat /\ Len(nowq) > 0 /\ DOMAIN nowq = 1 .. Len(nowq)
      /\ DOMAIN nowq' = 1 .. Len(nowq) - 1 /\ Head(nowq) = nowq[1]
      /\ \A i \in DOMAIN nowq' : nowq'[i] = nowq[i + 1]
  BY <1>1
<1>3. \A t : Calls(t)' \in Nat /\ Calls(t) = Calls(t)' + (IF Head(nowq) = Call(t) THEN 1 ELSE 0)
  <2> TAKE t
  <2>1. Calls(t)' = Count(Call(t), Tail(nowq)) /\ Calls(t) = Count(Call(t), nowq)
    BY DEF Calls, Count, Call, Event
  <2> QED
    BY <2>1, <1>1, CountTail
<1>4. ASSUME NEW t, NEW u, Precedes(t, u), NEW i \in DOMAIN nowq', nowq'[i] = Call(t)
      PROVE  \E j \in DOMAIN nowq' : i < j /\ nowq'[j] = Call(u)
  <2>1. i + 1 \in DOMAIN nowq /\ nowq[i + 1] = Call(t)
    BY <1>2, <1>4
  <2>2. PICK j \in DOMAIN nowq : i + 1 < j /\ nowq[j] = Call(u)
    BY <2>1, <1>4 DEF Precedes
  <2>3. j - 1 \in DOMAIN nowq' /\ i < j - 1 /\ (j - 1) + 1 = j
    BY <2>2, <1>2
  <2> QED
    BY <2>2, <2>3, <1>2
<1>5. \A t, u : Precedes(t, u) => Precedes(t, u)'
  BY <1>4 DEF Precedes, Call, Event
<1> QED
  BY <1>3, <1>5

(* The first event, which dispatches no thread, queues another. *)
LEMMA QueueReplaced ==
  ASSUME TypeOK, nowq # <<>>, \A t : Head(nowq) # Call(t), NEW e \in Events,
         nowq' = Append(Tail(nowq), e)
  PROVE  /\ \A t : Calls(t) \in Nat /\ Calls(t)' = Calls(t) + (IF e = Call(t) THEN 1 ELSE 0)
         /\ \A t, u : e # Call(t) /\ Precedes(t, u) => Precedes(t, u)'
         /\ \A t, u : e = Call(u) /\ t # u => Precedes(t, u)'
<1>1. nowq \in Seq(Events) /\ Tail(nowq) \in Seq(Events)
  BY DEF TypeOK
<1>2. PICK n \in Nat : n > 0 /\ n = Len(nowq)
  BY <1>1
<1>3. /\ DOMAIN nowq = 1 .. n /\ DOMAIN nowq' = 1 .. n /\ Head(nowq) = nowq[1] /\ nowq'[n] = e
      /\ \A i \in 1 .. n - 1 : nowq'[i] = nowq[i + 1]
  <2>1. /\ DOMAIN nowq = 1 .. n /\ Head(nowq) = nowq[1]
        /\ Len(Tail(nowq)) = n - 1 /\ \A i \in 1 .. n - 1 : Tail(nowq)[i] = nowq[i + 1]
    BY <1>1, <1>2
  <2>2. \A q \in Seq(Events), x \in Events :
          /\ DOMAIN Append(q, x) = 1 .. Len(q) + 1 /\ Append(q, x)[Len(q) + 1] = x
          /\ \A i \in 1 .. Len(q) : Append(q, x)[i] = q[i]
    OBVIOUS
  <2>3. /\ DOMAIN nowq' = 1 .. (n - 1) + 1 /\ nowq'[(n - 1) + 1] = e
        /\ \A i \in 1 .. n - 1 : nowq'[i] = Tail(nowq)[i]
    BY <1>1, <2>1, <2>2
  <2>4. (n - 1) + 1 = n
    BY <1>2
  <2> QED
    BY <2>1, <2>3, <2>4
<1>4. \A t : Calls(t) \in Nat /\ Calls(t)' = Calls(t) + (IF e = Call(t) THEN 1 ELSE 0)
  <2> TAKE t
  <2>1. Calls(t)' = Count(Call(t), Append(Tail(nowq), e)) /\ Calls(t) = Count(Call(t), nowq)
    BY DEF Calls, Count, Call, Event
  <2>2. Count(Call(t), Append(Tail(nowq), e)) =
          Count(Call(t), Tail(nowq)) + (IF e = Call(t) THEN 1 ELSE 0)
    BY <1>1, CountAppend
  <2>3. Count(Call(t), Tail(nowq)) \in Nat /\ Count(Call(t), nowq) = Count(Call(t), Tail(nowq))
    BY <1>1, CountTail
  <2> QED
    BY <2>1, <2>2, <2>3
<1>5. ASSUME NEW t, NEW u, e # Call(t), Precedes(t, u) PROVE Precedes(t, u)'
  <2> SUFFICES ASSUME NEW i \in DOMAIN nowq', nowq'[i] = Call(t)
               PROVE  \E j \in DOMAIN nowq' : i < j /\ nowq'[j] = Call(u)
    BY DEF Precedes, Call, Event
  <2>1. i \in 1 .. n - 1
    BY <1>2, <1>3, <1>5
  <2>2. i + 1 \in DOMAIN nowq /\ nowq[i + 1] = Call(t)
    BY <1>2, <1>3, <2>1
  <2>3. PICK j \in DOMAIN nowq : i + 1 < j /\ nowq[j] = Call(u)
    BY <1>5, <2>2 DEF Precedes
  <2>4. j - 1 \in 1 .. n - 1 /\ j - 1 \in 1 .. n /\ i < j - 1 /\ (j - 1) + 1 = j
    BY <1>2, <1>3, <2>1, <2>3
  <2> QED
    BY <1>3, <2>3, <2>4
<1>6. ASSUME NEW t, NEW u, e = Call(u), t # u PROVE Precedes(t, u)'
  <2> SUFFICES ASSUME NEW i \in DOMAIN nowq', nowq'[i] = Call(t)
               PROVE  \E j \in DOMAIN nowq' : i < j /\ nowq'[j] = Call(u)
    BY DEF Precedes, Call, Event
  <2>1. i # n
    BY <1>3, <1>6, CallFacts
  <2>2. i < n /\ n \in DOMAIN nowq' /\ nowq'[n] = Call(u)
    BY <1>2, <1>3, <1>6, <2>1
  <2> QED
    BY <2>2
<1> QED
  BY <1>4, <1>5, <1>6

(* Nothing happens to them while the queue is left alone. *)
LEMMA QueueSame ==
  ASSUME UNCHANGED nowq
  PROVE  /\ \A t : Calls(t)' = Calls(t)
         /\ \A t, u : Precedes(t, u) => Precedes(t, u)'
BY DEF Calls, Count, Precedes, Call, Event

(* A thread without a queued dispatch precedes every other, and what precedes nothing waits not. *)
LEMMA Preceding ==
  ASSUME TypeOK, NEW t, NEW u
  PROVE  /\ Calls(t) = 0 => Precedes(t, u)
         /\ Calls(u) = 0 /\ Precedes(t, u) => Calls(t) = 0
<1>1. \A x : Calls(x) = 0 <=> \A i \in DOMAIN nowq : nowq[i] # Call(x)
  BY CountType DEF Calls, TypeOK
<1> QED
  BY <1>1 DEF Precedes

-----------------------------------------------------------------------------
(* What one step leaves alone *)

(* A step that leaves thread t alone. *)
Keeps(t) ==
  /\ timer'[t] = timer[t] /\ done'[t] = done[t]
  /\ Calls(t)' = Calls(t)
  /\ Executing(t)' <=> Executing(t)

(* A thread that is left alone still has one thing to do at most. *)
LEMMA SingleKept ==
  ASSUME NEW t, Keeps(t)
  PROVE  /\ Resting(t)' <=> Resting(t)
         /\ Single(t) => Single(t)'
BY DEF Keeps, Single, Resting

(* A CPU whose interrupt thread is left alone. *)
LEMMA ServingKept ==
  ASSUME NEW c, Serving(c), Keeps(Irq(c)), inInt'[c] = inInt[c], handled'[c] = handled[c]
  PROVE  Serving(c)'
<1>1. PICK t : t = Irq(c)
  OBVIOUS
<1>2. (Resting(t)' <=> Resting(t)) /\ (Single(t) => Single(t)')
  BY <1>1, SingleKept
<1> QED
  BY <1>1, <1>2 DEF Serving, Irq

(* A CPU whose current thread is left alone. *)
LEMMA SuspendingKept ==
  ASSUME NEW c \in Cpus, Suspending(c), UNCHANGED base, inInt'[c] = inInt[c],
         timer'[base[c]] = timer[base[c]],
         \A t, u : Precedes(t, u) => Precedes(t, u)'
  PROVE  Suspending(c)'
<1>1. PICK b, u : b = base[c] /\ u = Irq(c)
  OBVIOUS
<1>2. Precedes(b, u) => Precedes(b, u)'
  OBVIOUS
<1>3. inInt'[c] => ~timer'[base'[c]].live /\ Precedes(b, u)'
  BY <1>1, <1>2 DEF Suspending
<1>4. Precedes(b, u)' => Precedes(base[c], Irq(c))'
  BY <1>1 DEF Precedes, Call, Event, Irq
<1> QED
  BY <1>3, <1>4 DEF Suspending

(* A CPU whose idle and current threads are left alone. *)
LEMMA HoldingKept ==
  ASSUME NEW c \in Cpus, Holding(c), UNCHANGED <<base, thrCpu>>, inInt'[c] = inInt[c],
         timer'[c] = timer[c], done'[c] = done[c], Executing(c)' <=> Executing(c),
         timer'[base[c]] = timer[base[c]],
         \A t, u : Precedes(t, u) => Precedes(t, u)'
  PROVE  Holding(c)'
<1>1. thrCpu'[Irq(c)] = c /\ thrCpu'[c] = c /\ thrCpu'[base'[c]] = c
  BY DEF Holding
<1>2. timer'[c].live => ~done'[c] \/ Executing(c)'
  BY DEF Holding
<1>3. Suspending(c)'
  BY SuspendingKept DEF Holding
<1> QED
  BY <1>1, <1>2, <1>3 DEF Holding, Irq

(* A thread of the device file that is left alone. *)
LEMMA WorkingKept ==
  ASSUME NEW w, Working(w), Keeps(w), UNCHANGED base, ~Leaving(w)
  PROVE  Working(w)'
<1>1. (Resting(w)' <=> Resting(w)) /\ (Single(w) => Single(w)')
  BY SingleKept
<1> QED
  BY <1>1 DEF Working

(* The current threads of a CPU are threads. *)
LEMMA CurrentThreads ==
  ASSUME Homes, NEW c \in Cpus
  PROVE  base[c] \in Pids /\ base[c] \in Tids /\ cur[c] \in Pids /\ cur[c] \in Tids
BY Apart DEF Homes

(* What a step does to a CPU whose threads it leaves alone. *)
LEMMA CpuKept ==
  ASSUME Ready, NEW c \in Cpus, Keeps(Irq(c)), Keeps(c), Keeps(base[c]),
         UNCHANGED <<base, thrCpu>>, inInt'[c] = inInt[c], handled'[c] = handled[c],
         \A t, u : Precedes(t, u) => Precedes(t, u)'
  PROVE  Serving(c)' /\ Holding(c)'
<1>1. Serving(c)'
  BY ServingKept DEF Ready
<1>2. timer'[base[c]] = timer[base[c]]
  BY DEF Keeps
<1>3. Holding(c)'
  BY <1>2, HoldingKept DEF Ready, Keeps
<1> QED
  BY <1>1, <1>3

(* A step that concerns the completion, dispatch and execution of thread t only. *)
LEMMA OthersKept ==
  ASSUME Ready, NEW t, \A u \in Tids \ {t} : Keeps(u), UNCHANGED <<base, thrCpu, inInt, handled>>,
         \A u, v : Precedes(u, v) => Precedes(u, v)'
  PROVE  /\ \A c \in Cpus : t \notin {Irq(c), c, base[c]} => Serving(c)' /\ Holding(c)'
         /\ \A w \in Workers \ {t} : ~Leaving(w) => Working(w)'
<1>1. ASSUME NEW c \in Cpus, t \notin {Irq(c), c, base[c]} PROVE Serving(c)' /\ Holding(c)'
  <2>1. c \in Tids /\ Irq(c) \in Tids /\ base[c] \in Tids
    BY CurrentThreads, Apart DEF Ready
  <2>2. Keeps(Irq(c)) /\ Keeps(c) /\ Keeps(base[c])
    BY <1>1, <2>1
  <2> QED
    BY <2>2, CpuKept
<1>2. ASSUME NEW w \in Workers \ {t}, ~Leaving(w) PROVE Working(w)'
  <2>1. Keeps(w) /\ Working(w)
    BY Apart DEF Ready
  <2> QED
    BY <2>1, <1>2, WorkingKept
<1> QED
  BY <1>1, <1>2

(* A step that concerns no thread's completion, dispatch or execution. *)
LEMMA Quiet ==
  ASSUME Ready, \A t \in Tids : Keeps(t), UNCHANGED <<base, thrCpu, inInt, handled>>,
         \A t, u : Precedes(t, u) => Precedes(t, u)', \A w \in Workers : ~Leaving(w)
  PROVE  /\ \A c \in Cpus : Serving(c)' /\ Holding(c)'
         /\ \A w \in Workers : Working(w)'
<1>1. PICK t : t \notin Tids \cup Pids
  <2>1. NoPid \notin Tids \cup Pids
    BY Apart DEF NoPid, Pids, Cpus
  <2> QED
    BY <2>1
<1>2. ASSUME NEW c \in Cpus PROVE t \notin {Irq(c), c, base[c]}
  BY <1>1, CurrentThreads, Apart DEF Ready
<1>3. \A w \in Workers : w # t
  BY <1>1, Apart
<1> QED
  BY <1>2, <1>3, OthersKept

-----------------------------------------------------------------------------
(* Statements *)

(* Only threads of the device file sleep and wait for semaphores; the program *)
(* of an idle thread only processes.                                           *)
LEMMA WhoRequests ==
  ASSUME TypeInv, Ready, NEW o, Statement(o)
  PROVE  /\ ctl.at = "run" /\ ctl.me \in Tids /\ Settled
         /\ o # "process" => ctl.me \notin Cpus
         /\ o \in {"sleep", "down"} => ctl.me \in Workers
<1> DEFINE st == Program(ctl.me)[NextPc(ctl.me)]
<1>1. ctl.at = "run" /\ ctl.me \in Tids /\ st.op = o /\ pc[ctl.me] \in Nat
  BY DEF Statement, TypeInv, Programmed, TypeOK
<1>2. Program(ctl.me) \in Seq([op : {"process"}] \cup Statements) /\ Program(ctl.me) # <<>>
  BY <1>1, ProgramType
<1>3. NextPc(ctl.me) \in 1 .. Len(Program(ctl.me))
  BY <1>1, <1>2 DEF NextPc
<1>4. ctl.me \in Cpus => o = "process"
  <2> SUFFICES ASSUME ctl.me \in Cpus PROVE o = "process"
    OBVIOUS
  <2>1. Program(ctl.me) = <<[op |-> "process"]>>
    BY Apart DEF Program
  <2>2. Len(Program(ctl.me)) = 1
    BY <2>1
  <2>3. NextPc(ctl.me) = 1
    BY <1>3, <2>2
  <2>4. st = [op |-> "process"]
    BY <2>1, <2>3
  <2> QED
    BY <2>4, <1>1
<1>5. ctl.me < 0 => o \notin {"sleep", "down"}
  <2> SUFFICES ASSUME ctl.me < 0 PROVE o \notin {"sleep", "down"}
    OBVIOUS
  <2>1. Program(ctl.me) = IrqProg[handled[0 - ctl.me]] /\ handled[0 - ctl.me] \in IrqKinds
    BY <1>1, ProgramType
  <2>2. Program(ctl.me) \in Seq({x \in Statements : x.op \notin {"sleep", "down"}})
    BY <2>1, SchedulerAssumption DEF SchedulerAssumption
  <2>3. st \in {x \in Statements : x.op \notin {"sleep", "down"}}
    <3>1. \A S : \A q \in Seq(S) : \A i \in 1 .. Len(q) : q[i] \in S
      OBVIOUS
    <3> QED
      BY <3>1, <2>2, <1>3
  <2> QED
    BY <2>3, <1>1
<1>6. Settled
  BY <1>1 DEF Ready, Control
<1> QED
  BY <1>1, <1>4, <1>5, <1>6, Apart

(* The place of the running thread: its CPU, outside an interrupt. *)
LEMMA WhereRuns ==
  ASSUME TypeInv, Ready, ctl.at = "run", NEW c, c = thrCpu[ctl.me]
  PROVE  /\ ctl.me \in Tids /\ c \in Cpus /\ Settled
         /\ ctl.me \in Workers => /\ cur[c] = ctl.me /\ base[c] = ctl.me /\ ~inInt[c]
                                  /\ \A d \in Cpus : cur[d] = ctl.me => d = c
<1>1. ctl.me \in Tids /\ c \in Cpus /\ Settled
  BY DEF TypeInv, TypeOK, Programmed, Ready, Control
<1>2. ctl.me \in Workers => cur[c] = ctl.me
  BY DEF Ready, Control
<1>3. ctl.me \in Workers => ~inInt[c]
  BY Apart DEF Ready, Control, Executing
<1>4. ctl.me \in Workers => \A d \in Cpus : cur[d] = ctl.me => d = c
  BY <1>1, <1>2, Whereabouts DEF Ready, TypeInv
<1> QED
  BY <1>1, <1>2, <1>3, <1>4 DEF Settled

(* A request of the running thread that takes its CPU away. *)
LEMMA ControlLeaves ==
  ASSUME TypeInv, Ready, ctl.at = "run", ctl.me \in Workers,
         cur' = [cur EXCEPT ![thrCpu[ctl.me]] = thrCpu[ctl.me]],
         Request("check", base), UNCHANGED <<runq, base, thrCpu, inInt>>
  PROVE  Control'
<1>1. PICK c : c = thrCpu[ctl.me]
  OBVIOUS
<1>2. c \in Cpus /\ Settled /\ ~inInt[c] /\ base[c] = ctl.me
      /\ \A d \in Cpus : cur[d] = ctl.me => d = c
  BY <1>1, WhereRuns
<1>3. /\ ctl'.at = "check" /\ ctl'.me = ctl.me /\ ctl'.cpu = 1 /\ ctl'.on = c /\ ctl'.prev = base
      /\ ctl'.go = TRUE
  BY <1>1 DEF Request
<1>4. cur'[c] = c /\ \A d \in Cpus \ {c} : cur'[d] = cur[d]
  BY <1>1, <1>2 DEF TypeInv, TypeOK
<1>5. ctl.me \notin Cpus /\ c \notin Workers
  BY <1>2, Apart
<1>6. \A t \in Pids : Executing(t)' => ~inInt'[thrCpu'[t]]
  BY <1>1, <1>2, <1>3 DEF Executing
<1>7. Requesting'
  BY <1>1, <1>2, <1>3, <1>4, <1>5 DEF Requesting, Settled
<1>8. Checking'
  <2>1. \A d \in Cpus : cur'[d] # ctl.me
    BY <1>2, <1>4, <1>5
  <2>2. runq' = <<>> /\ 1 <= c /\ \A d \in Cpus : ~(d < 1)
    BY <1>2, SchedulerAssumption DEF SchedulerAssumption, Cpus, Settled
  <2> QED
    BY <1>3, <2>1, <2>2 DEF Checking
<1> QED
  BY <1>3, <1>6, <1>7, <1>8 DEF Control, Scheduling, Waking

(* A request that wakes a thread. *)
LEMMA ControlWakes ==
  ASSUME TypeInv, Ready, ctl.at = "run", ctl.me \notin Cpus, NEW x \in Workers,
         runq' = Append(runq, x), Request("wakeup", base), UNCHANGED <<cur, base, thrCpu, inInt>>
  PROVE  Control'
<1>1. PICK c : c = thrCpu[ctl.me]
  OBVIOUS
<1>2. c \in Cpus /\ Settled /\ (ctl.me \in Workers => cur[c] = ctl.me)
  BY <1>1, WhereRuns
<1>3. /\ ctl'.at = "wakeup" /\ ctl'.me = ctl.me /\ ctl'.cpu = 1 /\ ctl'.on = c /\ ctl'.prev = base
      /\ ctl'.go = TRUE
  BY <1>1 DEF Request
<1>4. Len(runq') = 1
  BY <1>2 DEF Settled
<1>5. \A t \in Pids : Executing(t)' => ~inInt'[thrCpu'[t]]
  BY <1>3 DEF Executing, Ready, Control
<1>6. Requesting'
  BY <1>1, <1>2, <1>3 DEF Requesting, Settled
<1>7. Waking'
  <2>1. \A d \in Cpus : ~(d < 1)
    BY SchedulerAssumption DEF SchedulerAssumption, Cpus
  <2> QED
    BY <1>2, <1>3, <1>4, <2>1 DEF Waking, Settled
<1> QED
  BY <1>3, <1>5, <1>6, <1>7 DEF Control, Scheduling, Checking

(* A request that changes nothing. *)
LEMMA ControlChecks ==
  ASSUME TypeInv, Ready, ctl.at = "run", ctl.me \notin Cpus,
         Request("check", base), UNCHANGED <<runq, cur, base, thrCpu, inInt>>
  PROVE  Control'
<1>1. PICK c : c = thrCpu[ctl.me]
  OBVIOUS
<1>2. c \in Cpus /\ Settled
      /\ (ctl.me \in Workers => cur[c] = ctl.me /\ \A d \in Cpus : cur[d] = ctl.me => d = c)
  BY <1>1, WhereRuns
<1>3. /\ ctl'.at = "check" /\ ctl'.me = ctl.me /\ ctl'.cpu = 1 /\ ctl'.on = c /\ ctl'.prev = base
      /\ ctl'.go = TRUE
  BY <1>1 DEF Request
<1>5. \A t \in Pids : Executing(t)' => ~inInt'[thrCpu'[t]]
  BY <1>3 DEF Executing, Ready, Control
<1>6. Requesting'
  BY <1>1, <1>2, <1>3 DEF Requesting, Settled
<1>7. Checking'
  <2>1. \A d \in Cpus : ~(d < 1)
    BY SchedulerAssumption DEF SchedulerAssumption, Cpus
  <2> QED
    BY <1>2, <1>3, <2>1 DEF Checking, Settled
<1> QED
  BY <1>3, <1>5, <1>6, <1>7 DEF Control, Scheduling, Waking

(* A request concerns no thread's completion, dispatch or execution. *)
LEMMA RequestQuiet ==
  ASSUME Ready, ctl.at = "run", ctl'.at \in {"run", "check", "wakeup"}, ctl'.me = ctl.me,
         UNCHANGED <<timer, done, nowq, base, thrCpu, inInt, handled>>
  PROVE  /\ \A c \in Cpus : Serving(c)' /\ Holding(c)'
         /\ \A w \in Workers : Working(w)'
<1>1. \A t \in Tids : Keeps(t)
  BY QueueSame DEF Keeps, Executing
<1>2. \A t, u : Precedes(t, u) => Precedes(t, u)'
  BY QueueSame
<1> QED
  BY <1>1, <1>2, Quiet DEF Leaving

(* Dispatches and requests may be queued or taken without a new Schedule. *)
LEMMA LaterKept ==
  ASSUME TypeOK, Later, UNCHANGED ticks,
         \/ UNCHANGED nowq
         \/ nowq # <<>> /\ nowq' = Tail(nowq)
         \/ \E e \in Events : e.fn \in {"dispatch", "issue"} /\ nowq' = Append(nowq, e)
  PROVE  Later'
<1>1. nowq \in Seq(Events) /\ \A i \in DOMAIN nowq : nowq[i].fn \notin {"setup", "schedule"}
  BY DEF TypeOK, Later
<1>2. \A q \in Seq(Events) : q # <<>> => \A i \in DOMAIN Tail(q) : i + 1 \in DOMAIN q /\ Tail(q)[i] = q[i + 1]
  OBVIOUS
<1>3. \A q \in Seq(Events), e \in Events : \A i \in DOMAIN Append(q, e) :
        Append(q, e)[i] = e \/ (i \in DOMAIN q /\ Append(q, e)[i] = q[i])
  OBVIOUS
<1>4. \A i \in DOMAIN nowq' : nowq'[i].fn \notin {"setup", "schedule"}
  <2>1. CASE UNCHANGED nowq
    BY <2>1, <1>1
  <2>2. CASE nowq # <<>> /\ nowq' = Tail(nowq)
    BY <2>2, <1>1, <1>2
  <2>3. ASSUME NEW e \in Events, e.fn \in {"dispatch", "issue"}, nowq' = Append(nowq, e)
        PROVE  \A i \in DOMAIN nowq' : nowq'[i].fn \notin {"setup", "schedule"}
    BY <2>3, <1>1, <1>3
  <2> QED
    BY <2>1, <2>2, <2>3
<1> QED
  BY <1>4 DEF Later

(* Nor is there one in a step that leaves the queue and the ticks alone. *)
LEMMA LaterSame == ASSUME Later, UNCHANGED <<ticks, nowq>> PROVE Later'
BY DEF Later

(* The running thread goes to sleep: it leaves its CPU to the idle thread. *)
LEMMA ReadySleep == ASSUME TypeInv, Ready, Sleep PROVE Ready'
<1>1. ctl.at = "run" /\ ctl.me \in Workers /\ Settled
  BY WhoRequests DEF Sleep
<1>2. PICK c : c = thrCpu[ctl.me]
  OBVIOUS
<1>3. c \in Cpus /\ cur[c] = ctl.me
  BY <1>1, <1>2, WhereRuns
<1>4. cur' = [cur EXCEPT ![c] = c] /\ runq' = runq
  BY <1>1, <1>2 DEF Sleep, RescheduleCPU, Settled
<1>5. Request("check", base) /\ blocked' = blocked \cup {ctl.me}
      /\ UNCHANGED <<semq, base, thrCpu, timer, done, inInt, handled, nowq, ticks>>
  BY DEF Sleep, runVars, irqVars, simVars
<1>6. Homes'
  BY <1>1, <1>3, <1>4, <1>5, HomesLeave DEF TypeInv, Ready
<1>7. Control'
  BY <1>1, <1>2, <1>4, <1>5, ControlLeaves
<1>8. /\ \A d \in Cpus : Serving(d)' /\ Holding(d)'
      /\ \A w \in Workers : Working(w)'
  BY <1>1, <1>5, RequestQuiet DEF Request
<1>9. Later'
  BY <1>5, LaterSame DEF Ready
<1> QED
  BY <1>6, <1>7, <1>8, <1>9 DEF Ready

(* It lowers a semaphore or leaves its CPU for the line of it. *)
LEMMA ReadySemDown == ASSUME TypeInv, Ready, SemDown PROVE Ready'
<1>1. ctl.at = "run" /\ ctl.me \in Workers /\ Settled /\ Arg \in Sems
  BY WhoRequests, StatementType DEF SemDown
<1>2. PICK c : c = thrCpu[ctl.me]
  OBVIOUS
<1>3. c \in Cpus /\ cur[c] = ctl.me
  BY <1>1, <1>2, WhereRuns
<1>5. UNCHANGED <<blocked, base, thrCpu, timer, done, inInt, handled, nowq, ticks>>
  BY DEF SemDown, runVars, irqVars, simVars
<1>9. Later'
  BY <1>5, LaterSame DEF Ready
<1>10. CASE Available(Arg)
  <2>1. UNCHANGED <<semq, runq, cur, ctl>>
    BY <1>10 DEF SemDown
  <2>2. Homes'
    BY <2>1, <1>5, HomesSame DEF Ready, Homes
  <2>3. Control'
    BY <2>1, <1>5 DEF Ready, Control, Settled, Executing, Scheduling, Requesting, Waking, Checking
  <2>4. /\ \A d \in Cpus : Serving(d)' /\ Holding(d)'
        /\ \A w \in Workers : Working(w)'
    BY <2>1, <1>1, <1>5, RequestQuiet
  <2> QED
    BY <2>2, <2>3, <2>4, <1>9 DEF Ready
<1>11. CASE ~Available(Arg)
  <2>1. /\ semq' = [semq EXCEPT ![Arg] = Append(@, cur[c])]
        /\ RescheduleCPU(c) /\ Request("check", cur)
    BY <1>2, <1>11 DEF SemDown
  <2>2. cur' = [cur EXCEPT ![c] = c] /\ runq' = runq /\ Request("check", base)
    BY <1>1, <2>1 DEF RescheduleCPU, Settled
  <2>3. Homes'
    BY <1>1, <1>3, <1>5, <2>1, <2>2, HomesLeave DEF TypeInv, Ready
  <2>4. Control'
    BY <1>1, <1>2, <1>5, <2>2, ControlLeaves
  <2>5. /\ \A d \in Cpus : Serving(d)' /\ Holding(d)'
        /\ \A w \in Workers : Working(w)'
    BY <2>2, <1>1, <1>5, RequestQuiet DEF Request
  <2> QED
    BY <2>3, <2>4, <2>5, <1>9 DEF Ready
<1> QED
  BY <1>10, <1>11

(* It raises a semaphore or puts the first waiter into the run queue. *)
LEMMA ReadySemUp == ASSUME TypeInv, Ready, SemUp PROVE Ready'
<1>1. ctl.at = "run" /\ ctl.me \notin Cpus /\ Settled /\ Arg \in Sems
  BY WhoRequests, StatementType DEF SemUp
<1>5. UNCHANGED <<blocked, cur, base, thrCpu, timer, done, inInt, handled, nowq, ticks>>
  BY DEF SemUp, runVars, irqVars, simVars
<1>9. Later'
  BY <1>5, LaterSame DEF Ready
<1>10. CASE ~HasWaiter(Arg)
  <2>1. UNCHANGED <<semq, runq, ctl>>
    BY <1>10 DEF SemUp
  <2>2. Homes'
    BY <2>1, <1>5, HomesSame DEF Ready, Homes
  <2>3. Control'
    BY <2>1, <1>5 DEF Ready, Control, Settled, Executing, Scheduling, Requesting, Waking, Checking
  <2>4. /\ \A d \in Cpus : Serving(d)' /\ Holding(d)'
        /\ \A w \in Workers : Working(w)'
    BY <2>1, <1>1, <1>5, RequestQuiet
  <2> QED
    BY <2>2, <2>3, <2>4, <1>9 DEF Ready
<1>11. CASE HasWaiter(Arg)
  <2>1. PICK x : x = Head(semq[Arg])
    OBVIOUS
  <2>2. /\ semq' = [semq EXCEPT ![Arg] = Tail(@)] /\ runq' = Append(runq, x)
        /\ Request("wakeup", cur) /\ semq[Arg] # <<>>
    BY <1>11, <2>1 DEF SemUp, HasWaiter
  <2>3. Request("wakeup", base)
    BY <1>1, <2>2 DEF Settled
  <2>4. x \in Workers
    BY <1>1, <2>1, <2>2, WorkerSeqs DEF Ready, Homes, TypeInv
  <2>5. Homes'
    BY <1>1, <1>5, <2>1, <2>2, <2>4, HomesReturn DEF TypeInv, Ready
  <2>6. Control'
    BY <1>1, <1>5, <2>2, <2>3, <2>4, ControlWakes
  <2>7. /\ \A d \in Cpus : Serving(d)' /\ Holding(d)'
        /\ \A w \in Workers : Working(w)'
    BY <2>3, <1>1, <1>5, RequestQuiet DEF Request
  <2> QED
    BY <2>5, <2>6, <2>7, <1>9 DEF Ready
<1> QED
  BY <1>10, <1>11

(* It wakes a sleeper, or a thread that is not asleep. *)
LEMMA ReadyAwake == ASSUME TypeInv, Ready, Awake PROVE Ready'
<1>1. ctl.at = "run" /\ ctl.me \notin Cpus /\ Settled /\ Arg \in Workers
  BY WhoRequests, StatementType DEF Awake
<1>5. UNCHANGED <<semq, cur, base, thrCpu, timer, done, inInt, handled, nowq, ticks>>
  BY DEF Awake, runVars, irqVars, simVars
<1>9. Later'
  BY <1>5, LaterSame DEF Ready
<1>6. Request("wakeup", base) \/ Request("check", base)
  BY DEF Awake
<1>7. /\ \A d \in Cpus : Serving(d)' /\ Holding(d)'
      /\ \A w \in Workers : Working(w)'
  BY <1>6, <1>1, <1>5, RequestQuiet DEF Request
<1>10. CASE Asleep(Arg)
  <2>1. PICK x : x = Arg
    OBVIOUS
  <2>2. /\ blocked' = blocked \ {x} /\ runq' = Append(runq, x)
        /\ Request("wakeup", base) /\ x \in blocked /\ x \in Workers
    BY <1>1, <1>10, <2>1 DEF Awake, Asleep
  <2>5. Homes'
    BY <1>5, <2>2, HomesReturn DEF TypeInv, Ready
  <2>6. Control'
    BY <1>1, <1>5, <2>2, ControlWakes
  <2> QED
    BY <2>5, <2>6, <1>7, <1>9 DEF Ready
<1>11. CASE ~Asleep(Arg)
  <2>1. Request("check", base) /\ UNCHANGED <<blocked, runq>>
    BY <1>11 DEF Awake
  <2>2. Homes'
    BY <2>1, <1>5, HomesSame DEF Ready, Homes
  <2>3. Control'
    BY <1>1, <1>5, <2>1, ControlChecks
  <2> QED
    BY <2>2, <2>3, <1>7, <1>9 DEF Ready
<1> QED
  BY <1>10, <1>11

(* A step that moves neither threads nor control. *)
LEMMA ControlSame ==
  ASSUME Control, UNCHANGED <<base, cur, runq, thrCpu, inInt, ctl>>
  PROVE  Control'
BY DEF Control, Settled, Executing, Scheduling, Requesting, Waking, Checking

(* It requests an interrupt. *)
LEMMA ReadyRaise == ASSUME TypeInv, Ready, Raise PROVE Ready'
<1>1. ctl.at = "run" /\ ctl.me \in Tids /\ Settled /\ Arg \in IrqKinds
  BY WhoRequests, StatementType DEF Raise
<1>2. PICK e : e = [Event("issue", thrCpu[ctl.me]) EXCEPT !.kind = Arg]
  OBVIOUS
<1>3. thrCpu[ctl.me] \in Cpus
  BY <1>1 DEF TypeInv, TypeOK
<1>4. e \in Events /\ e.fn = "issue" /\ nowq' = Append(nowq, e)
  BY <1>1, <1>2, <1>3, EventTypes DEF Raise, Event
<1>5. UNCHANGED <<runq, blocked, cur, semq, base, thrCpu, timer, done, inInt, handled, ticks, ctl>>
  BY DEF Raise, schedVars, runVars, irqVars, simVars
<1>6. /\ \A t : Calls(t)' = Calls(t)
      /\ \A t, u : Precedes(t, u) => Precedes(t, u)'
  <2>1. \A t : e # Call(t)
    BY <1>4, CallFacts
  <2>2. /\ \A t : Calls(t) \in Nat /\ Calls(t)' = Calls(t) + (IF e = Call(t) THEN 1 ELSE 0)
        /\ \A t, u : e # Call(t) /\ Precedes(t, u) => Precedes(t, u)'
    BY <1>4, QueueAppended DEF TypeInv
  <2> QED
    BY <2>1, <2>2
<1>7. /\ \A d \in Cpus : Serving(d)' /\ Holding(d)'
      /\ \A w \in Workers : Working(w)'
  <2>1. \A t \in Tids : Keeps(t)
    BY <1>5, <1>6 DEF Keeps, Executing
  <2> QED
    BY <2>1, <1>1, <1>5, <1>6, Quiet DEF Leaving
<1>8. Later'
  BY <1>4, <1>5, LaterKept DEF TypeInv, Ready
<1>9. Homes'
  BY <1>5, HomesSame DEF Ready, Homes
<1>10. Control'
  BY <1>5, ControlSame DEF Ready
<1> QED
  BY <1>7, <1>8, <1>9, <1>10 DEF Ready

(* If there are no more threads than CPUs, a thread in the run queue leaves a CPU idle. *)
LEMMA Crowded ==
  ASSUME NumThreads <= NumCpu, TypeOK, Homes, runq # <<>>, \A c \in Cpus : cur[c] \in Workers
  PROVE  FALSE
<1>1. NumCpu \in Nat /\ NumCpu > 0 /\ NumThreads \in Nat
  BY SchedulerAssumption DEF SchedulerAssumption
<1>2. IsFiniteSet(Cpus) /\ Cardinality(Cpus) = NumCpu
  BY <1>1, FS_Interval DEF Cpus
<1>3. IsFiniteSet(Workers) /\ Cardinality(Workers) = NumThreads
  BY <1>1, FS_Interval DEF Workers
<1>4. PICK x \in Workers : x = Head(runq)
  BY WorkerSeqs DEF Homes
<1>5. \A c \in Cpus : cur[c] # x
  <2>1. 1 \in DOMAIN runq /\ runq[1] = x
    BY <1>4 DEF TypeOK
  <2>2. runq \in Seq(Pids)
    BY DEF TypeOK
  <2>3. Count(x, runq) \in Nat /\ (Count(x, runq) = 0 <=> \A i \in DOMAIN runq : runq[i] # x)
    BY <2>2, CountType
  <2>4. Count(x, runq) > 0
    BY <2>1, <2>3
  <2> QED
    BY <2>4, Whereabouts
<1>6. IsFiniteSet(Workers \ {x}) /\ Cardinality(Workers \ {x}) = NumThreads - 1
  BY <1>3, <1>4, FS_RemoveElement
<1>7. PICK f : f = [c \in Cpus |-> cur[c]]
  OBVIOUS
<1>8. f \in [Cpus -> Workers \ {x}]
  BY <1>5, <1>7
<1>9. NumThreads - 1 < NumCpu
  BY <1>1
<1>10. PICK c, d \in Cpus : c # d /\ f[c] = f[d]
  BY <1>2, <1>6, <1>8, <1>9, FS_PigeonHole
<1> QED
  BY <1>7, <1>10, Whereabouts

(* An idle CPU takes the woken thread; there is one, or the queue would be crowded. *)
LEMMA ReadyWakeup == ASSUME NumThreads <= NumCpu, TypeInv, Ready, WakeupIdle PROVE Ready'
<1>1. ctl.at = "wakeup" /\ Requesting /\ Waking /\ ctl.me \notin Cpus /\ ctl \in Ctls
      /\ \A t \in Pids : Executing(t) => ~inInt[thrCpu[t]]
  BY DEF WakeupIdle, Ready, Control, Requesting, TypeInv, TypeOK
<1>2. UNCHANGED <<blocked, semq, base, thrCpu, timer, done, inInt, handled, nowq, ticks>>
  BY DEF WakeupIdle, runVars, irqVars, simVars
<1>3. ctl.cpu \in 1 .. NumCpu + 1 /\ ctl.on \in Cpus /\ ctl.me \in Tids
  BY <1>1 DEF Ctls, TypeInv, Programmed
<1>4. /\ ctl'.at \in {"check", "wakeup"} /\ ctl'.me = ctl.me /\ ctl'.on = ctl.on
      /\ ctl'.prev = ctl.prev /\ ctl'.go = ctl.go
  <2>1. \/ ctl' = [ctl EXCEPT !.at = "check", !.cpu = 1]
        \/ ctl' = [ctl EXCEPT !.cpu = @ + 1]
    BY DEF WakeupIdle
  <2> QED
    BY <2>1, <1>1 DEF Ctls
<1>5. /\ \A d \in Cpus : Serving(d)' /\ Holding(d)'
      /\ \A w \in Workers : Working(w)'
  <2>1. \A t \in Tids : Keeps(t)
    BY <1>1, <1>2, <1>4, QueueSame DEF Keeps, Executing
  <2>2. \A t, u : Precedes(t, u) => Precedes(t, u)'
    BY <1>2, QueueSame
  <2> QED
    BY <2>1, <2>2, <1>1, <1>2, Quiet DEF Leaving
<1>6. Later'
  BY <1>2, LaterSame DEF Ready
<1>7. \A t \in Pids : Executing(t)' => ~inInt'[thrCpu'[t]]
  BY <1>1, <1>2, <1>4 DEF Executing
<1>8. CASE runq = <<>> \/ ctl.cpu > NumCpu
  <2>1. UNCHANGED <<runq, cur>> /\ ctl'.at = "check" /\ ctl'.cpu = 1
    <3>1. UNCHANGED <<runq, cur>> /\ ctl' = [ctl EXCEPT !.at = "check", !.cpu = 1]
      BY <1>3, <1>8, SchedulerAssumption DEF SchedulerAssumption, WakeupIdle
    <3> QED
      BY <3>1, <1>1 DEF Ctls
  <2>2. runq = <<>>
    <3>1. SUFFICES ASSUME runq # <<>>, ctl.cpu > NumCpu PROVE FALSE
      BY <1>8
    <3>2. \A c \in Cpus : c < ctl.cpu
      BY <1>3, <3>1, SchedulerAssumption DEF SchedulerAssumption, Cpus
    <3>3. \A c \in Cpus : cur[c] \in Workers
      BY <1>1, <3>1, <3>2 DEF Waking
    <3> QED
      BY <3>1, <3>3, Crowded DEF TypeInv, Ready
  <2>3. Homes'
    BY <1>2, <2>1, HomesSame DEF Ready, Homes
  <2>4. Requesting'
    BY <1>1, <1>2, <1>4, <2>1 DEF Requesting
  <2>5. Checking'
    <3>1. \A d \in Cpus : ~(d < 1) /\ 1 <= ctl.on
      BY <1>3, SchedulerAssumption DEF SchedulerAssumption, Cpus
    <3>2. ctl.me \in Workers => \A c \in Cpus : cur[c] = ctl.me => c = ctl.on
      BY <1>1, <1>3, Whereabouts DEF Waking, Ready, TypeInv
    <3> QED
      BY <1>1, <1>2, <1>4, <2>1, <2>2, <3>1, <3>2 DEF Waking, Checking
  <2>6. Control'
    BY <1>7, <2>1, <2>4, <2>5 DEF Control, Scheduling, Waking
  <2> QED
    BY <1>5, <1>6, <2>3, <2>6 DEF Ready
<1>9. CASE runq # <<>> /\ ctl.cpu <= NumCpu
  <2>1. PICK c \in Cpus : c = ctl.cpu
    BY <1>3, <1>9 DEF Cpus
  <2>2. ctl'.at = "wakeup" /\ ctl'.cpu = c + 1
    <3>1. ctl' = [ctl EXCEPT !.cpu = @ + 1]
      BY <1>3, <1>9, SchedulerAssumption DEF SchedulerAssumption, WakeupIdle
    <3> QED
      BY <3>1, <2>1, <1>1 DEF Ctls
  <2>3. Len(runq) = 1 /\ base = cur /\ \A d \in Cpus : d < c => cur[d] \in Workers
    BY <1>1, <1>9, <2>1 DEF Waking
  <2>4. CASE TakesWork(c)
    <3>1. cur' = [cur EXCEPT ![c] = Head(runq)] /\ runq' = Tail(runq)
      <4>1. ~(runq = <<>> \/ c > NumCpu)
        BY <1>3, <1>9, <2>1, SchedulerAssumption DEF SchedulerAssumption
      <4> QED
        BY <2>1, <2>4, <4>1 DEF WakeupIdle
    <3>2. cur[c] = c
      BY <2>4, Apart DEF TakesWork, Ready, Homes
    <3>3. Homes'
      BY <1>2, <1>9, <3>1, <3>2, HomesTake DEF TypeInv, Ready, Homes
    <3>4. Head(runq) \in Workers /\ c \notin Workers /\ runq' = <<>>
      BY <1>9, <2>3, <3>1, WorkerSeqs, Apart DEF Ready, Homes, TypeInv
    <3>5. cur'[c] = Head(runq) /\ \A d \in Cpus \ {c} : cur'[d] = cur[d]
      BY <3>1 DEF TypeInv, TypeOK
    <3>6. Requesting'
      BY <1>1, <1>2, <1>4, <2>3, <3>2, <3>4, <3>5 DEF Requesting
    <3>7. Waking'
      BY <1>1, <1>2, <1>3, <1>4, <3>2, <3>4, <3>5 DEF Waking
    <3>8. Control'
      BY <1>7, <2>2, <3>6, <3>7 DEF Control, Scheduling, Checking
    <3> QED
      BY <1>5, <1>6, <3>3, <3>8 DEF Ready
  <2>5. CASE ~TakesWork(c)
    <3>1. UNCHANGED <<runq, cur>>
      <4>1. ~(runq = <<>> \/ c > NumCpu)
        BY <1>3, <1>9, <2>1, SchedulerAssumption DEF SchedulerAssumption
      <4> QED
        BY <2>1, <2>5, <4>1 DEF WakeupIdle
    <3>2. cur[c] \in Workers
      BY <2>5, Apart DEF TakesWork, Ready, Homes
    <3>3. Homes'
      BY <1>2, <3>1, HomesSame DEF Ready, Homes
    <3>6. Requesting'
      BY <1>1, <1>2, <1>4, <3>1 DEF Requesting
    <3>7. Waking'
      <4>1. \A d \in Cpus : d < c + 1 => d < c \/ d = c
        BY DEF Cpus
      <4> QED
        BY <1>1, <1>2, <1>4, <2>2, <2>3, <3>1, <3>2, <4>1 DEF Waking
    <3>8. Control'
      BY <1>7, <2>2, <3>6, <3>7 DEF Control, Scheduling, Checking
    <3> QED
      BY <1>5, <1>6, <3>3, <3>8 DEF Ready
  <2> QED
    BY <2>4, <2>5
<1> QED
  BY <1>3, <1>8, <1>9, SchedulerAssumption DEF SchedulerAssumption

-----------------------------------------------------------------------------
(* The loops and the other callbacks *)

(* The scheduler is not started again: no tick is armed. *)
LEMMA NoRestart == TypeInv /\ Ready => ~SetupIdleThreads /\ ~ScheduleNow /\ ~Tick
<1> SUFFICES ASSUME TypeInv, Ready PROVE ~SetupIdleThreads /\ ~ScheduleNow /\ ~Tick
  OBVIOUS
<1>1. ticks = 0 /\ \A i \in DOMAIN nowq : nowq[i].fn \notin {"setup", "schedule"}
  BY DEF Ready, Later
<1>2. \A q \in Seq(Events) : q # <<>> => 1 \in DOMAIN q /\ q[1] = Head(q)
  OBVIOUS
<1>3. nowq # <<>> => Head(nowq).fn \notin {"setup", "schedule"}
  BY <1>1, <1>2 DEF TypeInv, TypeOK
<1> QED
  BY <1>1, <1>3 DEF SetupIdleThreads, ScheduleNow, Tick, Now

(* Schedule ends with an empty run queue, so no tick is armed. *)
LEMMA ReadyScheduleEnd == ASSUME TypeInv, Ready, ScheduleEnd PROVE Ready'
<1>1. /\ ctl.at = "schedule" /\ ctl.cpu > NumCpu /\ ctl' = Main /\ ctl'.at = "main"
      /\ UNCHANGED <<runq, blocked, cur, semq, base, thrCpu, timer, done, inInt, handled, nowq>>
  BY DEF ScheduleEnd, Main, schedVars, runVars, irqVars
<1>2. Len(runq) <= 0 /\ base = cur
  BY <1>1, SchedulerAssumption DEF Ready, Control, Scheduling, SchedulerAssumption, TypeInv, TypeOK, Ctls
<1>3. runq = <<>>
  BY <1>2 DEF TypeInv, TypeOK
<1>4. Later'
  <2>1. ticks' = ticks
    BY <1>3 DEF ScheduleEnd, Rearm
  <2> QED
    BY <1>1, <2>1, LaterSame DEF Ready
<1>5. /\ \A d \in Cpus : Serving(d)' /\ Holding(d)'
      /\ \A w \in Workers : Working(w)'
  <2>1. \A t \in Tids : Keeps(t)
    BY <1>1, QueueSame DEF Keeps, Executing
  <2>2. \A t, u : Precedes(t, u) => Precedes(t, u)'
    BY <1>1, QueueSame
  <2> QED
    BY <2>1, <2>2, <1>1, Quiet DEF Leaving
<1>6. Homes'
  BY <1>1, HomesSame DEF Ready, Homes
<1>7. Control'
  BY <1>1, <1>2, <1>3 DEF Control, Settled, Executing, Scheduling, Requesting, Waking, Checking
<1> QED
  BY <1>4, <1>5, <1>6, <1>7 DEF Ready

(* The running thread goes on if it still has its CPU, and rests otherwise. *)
LEMMA ReadyCheckEnd == ASSUME TypeInv, Ready, CheckEnd PROVE Ready'
<1>1. /\ ctl.at = "check" /\ ctl.cpu > NumCpu
      /\ UNCHANGED <<runq, blocked, cur, semq, base, thrCpu, timer, done, inInt, handled, nowq, ticks>>
  BY DEF CheckEnd, schedVars, runVars, irqVars, simVars
<1>2. /\ Requesting /\ Checking /\ ctl.me \notin Cpus /\ ctl.on = thrCpu[ctl.me]
      /\ \A t \in Pids : Executing(t) => ~inInt[thrCpu[t]]
  BY <1>1 DEF Ready, Control, Requesting
<1>3. ctl.me \in Tids /\ ctl.on \in Cpus /\ \A c \in Cpus : c < ctl.cpu
  <2>1. ctl.cpu \in 1 .. NumCpu + 1
    BY DEF TypeInv, TypeOK, Ctls
  <2> QED
    BY <2>1, <1>1, SchedulerAssumption DEF TypeInv, TypeOK, Ctls, Programmed, Cpus, SchedulerAssumption
<1>4. base = cur /\ runq = <<>>
  BY <1>1, <1>2, <1>3 DEF Checking, TypeInv, TypeOK
<1>5. Later' /\ Homes'
  BY <1>1, LaterSame, HomesSame DEF Ready, Homes
<1>6. Executing(ctl.me)
  BY <1>1 DEF Executing
<1>7. \A t, u : Precedes(t, u) => Precedes(t, u)'
  BY <1>1, QueueSame
<1>8. ctl.me \in Workers => ~inInt[ctl.on] /\ (ctl.go <=> cur[ctl.on] = ctl.me)
  <2>1. ctl.me \in Workers => ~inInt[ctl.on]
    BY <1>2, <1>6, Apart
  <2>2. ~(ctl.cpu <= ctl.on)
    BY <1>3 DEF Cpus, TypeInv, TypeOK, Ctls
  <2> QED
    BY <1>1, <1>2, <2>1, <2>2 DEF Checking
<1>9. CASE inInt[ctl.on] \/ ctl.go
  <2>1. ctl' = Running(ctl.me)
    BY <1>9 DEF CheckEnd
  <2>2. ctl'.at = "run" /\ ctl'.me = ctl.me
    BY <2>1, <1>3, CtlTypes
  <2>3. \A t \in Tids : Keeps(t)
    BY <1>1, <2>2, QueueSame DEF Keeps, Executing
  <2>4. \A w \in Workers : ~Leaving(w)
    BY <1>8, <1>9 DEF Leaving, Executing
  <2>5. /\ \A d \in Cpus : Serving(d)' /\ Holding(d)'
        /\ \A w \in Workers : Working(w)'
    BY <1>1, <1>7, <2>3, <2>4, Quiet
  <2>6. Control'
    BY <1>1, <1>2, <1>4, <1>8, <1>9, <2>2
       DEF Control, Settled, Executing, Scheduling, Requesting, Waking, Checking
  <2> QED
    BY <1>5, <2>5, <2>6 DEF Ready
<1>10. CASE ~inInt[ctl.on] /\ ~ctl.go
  <2>1. ctl'.at = "main"
    BY <1>10 DEF CheckEnd, Main
  <2>2. PICK m : m = ctl.me
    OBVIOUS
  <2>3. m \in Workers
    <3>1. ASSUME NEW c \in Cpus, m = Irq(c) PROVE FALSE
      <4>1. ctl.on = c
        BY <1>2, <2>2, <3>1 DEF Ready, Holding
      <4>2. ~Resting(Irq(c))
        BY <1>6, <2>2, <3>1 DEF Resting
      <4> QED
        BY <1>10, <4>1, <4>2 DEF Ready, Serving
    <3> QED
      BY <1>2, <1>3, <2>2, <3>1, Apart
  <2>4. \A t \in Tids \ {m} : Keeps(t)
    BY <1>1, <2>1, <2>2, QueueSame DEF Keeps, Executing
  <2>5. Calls(m)' = Calls(m)
    BY <1>1, QueueSame
  <2>6. Working(m)'
    <3>1. Single(m) /\ Executing(m) /\ ~Executing(m)'
      BY <1>6, <2>1, <2>2, <2>3 DEF Ready, Working, Executing
    <3>2. ~timer[m].live /\ Calls(m) = 0
      BY <3>1 DEF Single
    <3>3. Single(m)' /\ Resting(m)'
      BY <1>1, <2>5, <3>1, <3>2 DEF Single, Resting
    <3> QED
      BY <3>3 DEF Working
  <2>7. \A w \in Workers : Working(w)'
    BY <1>1, <1>7, <2>2, <2>4, <2>6, OthersKept DEF Leaving, Executing
  <2>8. ASSUME NEW c \in Cpus PROVE Serving(c)' /\ Holding(c)'
    <3>1. Keeps(Irq(c)) /\ Keeps(c)
      BY <2>3, <2>4, Apart
    <3>2. Serving(c)'
      BY <1>1, <3>1, ServingKept DEF Ready
    <3>3. Holding(c)'
      BY <1>1, <1>7, <3>1, HoldingKept DEF Ready, Keeps
    <3> QED
      BY <3>2, <3>3
  <2>9. Control'
    BY <1>1, <1>4, <2>1 DEF Control, Settled, Executing, Scheduling, Requesting, Waking, Checking
  <2> QED
    BY <1>5, <2>7, <2>8, <2>9 DEF Ready
<1> QED
  BY <1>9, <1>10

(* A thread executes only outside the interrupts of its CPU, which is then its base. *)
LEMMA Executes ==
  ASSUME TypeInv, Ready, NEW t \in Tids, Executing(t), ctl.at = "run"
  PROVE  /\ t \notin Cpus => ~timer[t].live /\ timer[t].lost = 0 /\ Calls(t) = 0
         /\ \A c \in Cpus : base[c] = t => ~inInt[c]
<1>1. t \notin Cpus => ~timer[t].live /\ timer[t].lost = 0 /\ Calls(t) = 0
  <2>1. t \notin Cpus => Single(t)
    BY Apart DEF Ready, Working, Serving
  <2> QED
    BY <2>1 DEF Single
<1>2. \A c \in Cpus : base[c] = t => ~inInt[c]
  BY CurrentThreads DEF Ready, Control, Holding
<1> QED
  BY <1>1, <1>2

(* The running thread starts to compute. *)
LEMMA ReadyProcess == ASSUME TypeInv, Ready, Process PROVE Ready'
<1>1. PICK m : m = ctl.me
  OBVIOUS
<1>2. ctl.at = "run" /\ m \in Tids /\ Settled /\ Executing(m)
  BY <1>1, WhoRequests DEF Process, Executing
<1>3. /\ timer' = [timer EXCEPT ![m] = Consumed(@)] /\ done' = [done EXCEPT ![m] = FALSE]
      /\ ctl'.at = "main"
      /\ UNCHANGED <<runq, blocked, cur, semq, base, thrCpu, inInt, handled, nowq, ticks>>
  BY <1>1 DEF Process, Main, schedVars, irqVars, simVars
<1>4. /\ timer'[m] = Consumed(timer[m]) /\ done'[m] = FALSE
      /\ \A t \in Tids \ {m} : timer'[t] = timer[t] /\ done'[t] = done[t]
  BY <1>2, <1>3 DEF TypeInv, TypeOK
<1>5. \A t, u : Precedes(t, u) => Precedes(t, u)'
  BY <1>3, QueueSame
<1>6. \A t : Calls(t)' = Calls(t) /\ ~Executing(t)'
  BY <1>3, QueueSame DEF Executing
<1>7. \A t \in Tids \ {m} : Keeps(t)
  BY <1>1, <1>4, <1>6 DEF Keeps, Executing
<1>8. m \notin Cpus => Single(m)' /\ ~Resting(m)' /\ ~Resting(m)
  <2> SUFFICES ASSUME m \notin Cpus PROVE Single(m)' /\ ~Resting(m)' /\ ~Resting(m)
    OBVIOUS
  <2>1. ~timer[m].live /\ timer[m].lost = 0 /\ Calls(m) = 0
    BY <1>2, Executes
  <2>2. timer'[m].live /\ timer'[m].lost = 0
    BY <1>4, <2>1 DEF Consumed
  <2> QED
    BY <1>2, <1>4, <1>6, <2>1, <2>2 DEF Single, Resting
<1>9. \A w \in Workers : Working(w)'
  <2>1. \A w \in Workers \ {m} : Working(w)'
    BY <1>2, <1>3, <1>5, <1>7, OthersKept DEF Leaving
  <2>2. m \in Workers => Working(m)'
    <3>1. m \in Workers => ~((\A c \in Cpus : base[c] # m))
      BY <1>2, <1>8, Apart DEF Ready, Working, Leaving
    <3> QED
      BY <1>3, <1>8, <3>1, Apart DEF Working
  <2> QED
    BY <2>1, <2>2
<1>10. ASSUME NEW c \in Cpus PROVE Serving(c)' /\ Holding(c)'
  <2>1. CASE m \notin {Irq(c), c, base[c]}
    BY <1>3, <1>5, <1>7, <2>1, OthersKept
  <2>2. CASE m = Irq(c)
    <3>1. c \in Tids \ {m} /\ base[c] \in Tids \ {m} /\ m \notin Cpus
      BY <2>2, CurrentThreads, Apart DEF Ready
    <3>2. inInt[c] /\ (inInt[c] <=> handled[c] # NoIrq)
      BY <1>8, <2>2, <3>1 DEF Ready, Serving
    <3>3. Serving(c)'
      BY <1>3, <1>8, <2>2, <3>1, <3>2 DEF Serving, Irq
    <3>4. Keeps(c) /\ Keeps(base[c])
      BY <1>7, <3>1
    <3>5. Holding(c)'
      BY <1>3, <1>5, <3>4, HoldingKept DEF Ready, Keeps
    <3> QED
      BY <3>3, <3>5
  <2>3. CASE m \in {c, base[c]}
    <3>1. Irq(c) \in Tids \ {m}
      BY <2>3, CurrentThreads, Apart DEF Ready
    <3>2. Serving(c)'
      BY <1>3, <1>7, <3>1, ServingKept DEF Ready
    <3>3. thrCpu'[Irq(c)] = c /\ thrCpu'[c] = c /\ thrCpu'[base'[c]] = c
      BY <1>3 DEF Ready, Holding
    <3>4. timer'[c].live => ~done'[c] \/ Executing(c)'
      BY <1>2, <1>4, <1>7, Apart DEF Ready, Holding, Keeps
    <3>5. CASE m = base[c]
      <4>1. ~inInt'[c]
        BY <1>2, <1>3, <3>5, Executes
      <4> QED
        BY <3>2, <3>3, <3>4, <4>1 DEF Holding, Suspending, Irq
    <3>6. CASE m # base[c]
      <4>1. timer'[base[c]] = timer[base[c]]
        BY <1>4, <3>6, CurrentThreads DEF Ready
      <4>2. Suspending(c)'
        BY <1>3, <1>5, <4>1, SuspendingKept DEF Ready, Holding
      <4> QED
        BY <3>2, <3>3, <3>4, <4>2 DEF Holding, Irq
    <3> QED
      BY <3>5, <3>6
  <2> QED
    BY <2>1, <2>2, <2>3
<1>11. Control'
  BY <1>2, <1>3 DEF Control, Settled, Executing, Scheduling, Requesting, Waking, Checking
<1>12. Later' /\ Homes'
  BY <1>3, LaterSame, HomesSame DEF Ready, Homes
<1> QED
  BY <1>9, <1>10, <1>11, <1>12 DEF Ready

(* Thread::Dispatch of an idle thread or of one that had something to do. *)
LEMMA Dispatched ==
  ASSUME TypeInv, Ready, ctl.at = "main", NEW t \in Tids, NEW d \in BOOLEAN,
         NEW tm \in [live : BOOLEAN, lost : Nat], Dispatch(t, d, tm),
         t \notin Cpus => ~Resting(t) /\ ~tm.live /\ tm.lost = 0 /\ Calls(t)' = 0,
         \A u \in Tids \ {t} : Calls(u)' = Calls(u),
         \A u, v : Precedes(u, v) => Precedes(u, v)', Later',
         UNCHANGED <<runq, blocked, cur, semq, base, thrCpu, inInt, handled>>
  PROVE  Ready'
<1>1. Settled /\ \A u : ~Executing(u)
  BY DEF Ready, Control, Executing
<1>2. (t < 0 <=> t \notin Pids) /\ (t > 0 <=> t \in Pids)
  BY Apart
<1>3. \A c \in Cpus : t = Irq(c) => inInt[c] /\ 0 - t = c /\ handled[c] # NoIrq
  BY Apart DEF Ready, Serving
<1>4. ~(t < 0 /\ handled[0 - t] = NoIrq)
  <2>1. t < 0 => \E c \in Cpus : t = Irq(c)
    BY <1>2, Apart
  <2> QED
    BY <2>1, <1>3
<1>5. /\ done'[t] = d
      /\ timer'[t] = IF Held(t) THEN Cancelled(tm) ELSE IF d THEN tm ELSE Consumed(tm)
      /\ \A u \in Tids \ {t} : timer'[u] = timer[u] /\ done'[u] = done[u]
      /\ ctl' = IF Held(t) \/ ~d THEN ctl ELSE Running(t)
  BY <1>4 DEF Dispatch, TypeInv, TypeOK
<1>6. IF Held(t) \/ ~d THEN ctl'.at = "main" ELSE ctl'.at = "run" /\ ctl'.me = t
  BY <1>5, CtlTypes
<1>7. \A u : Executing(u)' <=> ~Held(t) /\ d /\ u = t
  BY <1>6 DEF Executing
<1>8. \A u \in Tids \ {t} : Keeps(u)
  BY <1>1, <1>5, <1>7 DEF Keeps
<1>9. Held(t) <=> t \in Pids /\ inInt[thrCpu[t]]
  BY <1>2 DEF Held
<1>10. t \notin Cpus => /\ Single(t)'
                        /\ Resting(t)' <=> Held(t)
  <2> SUFFICES ASSUME t \notin Cpus PROVE Single(t)' /\ (Resting(t)' <=> Held(t))
    OBVIOUS
  <2>1. timer'[t].lost = 0 /\ (timer'[t].live <=> ~Held(t) /\ ~d)
    BY <1>5 DEF Consumed, Cancelled
  <2> QED
    BY <1>5, <1>7, <2>1 DEF Single, Resting
<1>11. \A w \in Workers : Working(w)'
  <2>1. \A w \in Workers \ {t} : Working(w)'
    BY <1>1, <1>8, OthersKept DEF Leaving
  <2>2. t \in Workers => Working(t)'
    <3>1. t \in Workers => ~(\A c \in Cpus : base[c] # t)
      BY <1>1, Apart DEF Ready, Working, Leaving
    <3> QED
      BY <1>10, <3>1, Apart DEF Working
  <2> QED
    BY <2>1, <2>2
<1>12. ASSUME NEW c \in Cpus PROVE Serving(c)' /\ Holding(c)'
  <2>1. CASE t \notin {Irq(c), c, base[c]}
    BY <1>8, <2>1, OthersKept
  <2>2. CASE t = Irq(c)
    <3>1. c \in Tids \ {t} /\ base[c] \in Tids \ {t} /\ t \notin Pids /\ t \notin Cpus
      BY <2>2, CurrentThreads, Apart DEF Ready
    <3>2. inInt[c] /\ handled[c] # NoIrq /\ ~Held(t)
      BY <1>3, <1>9, <2>2, <3>1
    <3>3. Serving(c)'
      BY <1>10, <2>2, <3>1, <3>2 DEF Serving, Irq
    <3>4. Keeps(c) /\ Keeps(base[c])
      BY <1>8, <3>1
    <3>5. Holding(c)'
      BY <1>5, <3>4, HoldingKept DEF Ready, Keeps
    <3> QED
      BY <3>3, <3>5
  <2>3. CASE t \in {c, base[c]}
    <3>1. Irq(c) \in Tids \ {t} /\ t \in Pids
      BY <2>3, CurrentThreads, Apart DEF Ready
    <3>2. Serving(c)'
      BY <1>8, <3>1, ServingKept DEF Ready
    <3>3. thrCpu'[Irq(c)] = c /\ thrCpu'[c] = c /\ thrCpu'[base'[c]] = c /\ thrCpu[t] = c
      BY <2>3 DEF Ready, Holding
    <3>4. timer'[t].live => ~Held(t) /\ (~d \/ Executing(t)')
      BY <1>5, <1>7 DEF Cancelled, Consumed
    <3>5. timer'[c].live => ~done'[c] \/ Executing(c)'
      <4>1. CASE t = c
        BY <1>5, <3>4, <4>1
      <4>2. CASE t # c
        BY <1>8, <4>2, Apart DEF Ready, Holding, Keeps
      <4> QED
        BY <4>1, <4>2
    <3>6. CASE t = base[c]
      <4>1. PICK b, u : b = base[c] /\ u = Irq(c)
        OBVIOUS
      <4>2. inInt'[c] => ~timer'[base'[c]].live /\ Precedes(b, u)'
        BY <1>9, <3>1, <3>3, <3>4, <3>6, <4>1 DEF Ready, Holding, Suspending
      <4>3. Precedes(b, u)' => Precedes(base[c], Irq(c))'
        BY <4>1 DEF Precedes, Call, Event, Irq
      <4> QED
        BY <3>2, <3>3, <3>5, <4>2, <4>3 DEF Holding, Suspending, Irq
    <3>7. CASE t # base[c]
      <4>1. timer'[base[c]] = timer[base[c]]
        BY <1>5, <3>7, CurrentThreads DEF Ready
      <4>2. Suspending(c)'
        BY <4>1, SuspendingKept DEF Ready, Holding
      <4> QED
        BY <3>2, <3>3, <3>5, <4>2 DEF Holding, Irq
    <3> QED
      BY <3>6, <3>7
  <2> QED
    BY <2>1, <2>2, <2>3
<1>13. Control'
  <2>1. \A u \in Pids : Executing(u)' => ~inInt'[thrCpu'[u]]
    BY <1>7, <1>9
  <2>2. t \in Workers => cur[thrCpu[t]] = t
    <3>1. t \in Workers => \E c \in Cpus : base[c] = t
      BY <1>1, Apart DEF Ready, Working, Leaving
    <3> QED
      BY <1>1, <3>1 DEF Ready, Holding, Settled
  <2> QED
    BY <1>1, <1>6, <2>1, <2>2 DEF Control, Settled, Scheduling, Requesting, Waking, Checking
<1>14. Homes'
  BY HomesSame DEF Ready, Homes
<1> QED
  BY <1>11, <1>12, <1>13, <1>14 DEF Ready

(* A queued dispatch is taken. *)
LEMMA ReadyDispatch == ASSUME TypeInv, Ready, DispatchNow PROVE Ready'
<1>1. PICK t : t = Head(nowq).arg
  OBVIOUS
<1>2. /\ ctl.at = "main" /\ nowq # <<>> /\ Head(nowq).fn = "dispatch" /\ nowq' = Tail(nowq)
      /\ Dispatch(t, done[t], timer[t])
      /\ UNCHANGED <<runq, blocked, cur, semq, base, thrCpu, inInt, handled, ticks>>
  BY <1>1 DEF DispatchNow, Now, schedVars, irqVars
<1>3. t \in Tids /\ Head(nowq) = Call(t)
  <2>1. Head(nowq) \in Events
    BY <1>2 DEF TypeInv, TypeOK
  <2> QED
    BY <1>1, <1>2, <2>1, CallFacts
<1>4. done[t] \in BOOLEAN /\ timer[t] \in [live : BOOLEAN, lost : Nat]
  BY <1>3 DEF TypeInv, TypeOK
<1>5. /\ \A u : Calls(u)' \in Nat /\ Calls(u) = Calls(u)' + (IF t = u THEN 1 ELSE 0)
      /\ \A u, v : Precedes(u, v) => Precedes(u, v)'
  <2>1. /\ \A u : Calls(u)' \in Nat /\ Calls(u) = Calls(u)' + (IF Head(nowq) = Call(u) THEN 1 ELSE 0)
        /\ \A u, v : Precedes(u, v) => Precedes(u, v)'
    BY <1>2, QueueTaken DEF TypeInv
  <2> QED
    BY <1>3, <2>1, CallFacts
<1>6. Calls(t) # 0
  BY <1>5
<1>7. t \notin Cpus => ~timer[t].live /\ timer[t].lost = 0 /\ Calls(t)' = 0
  <2>1. t \notin Cpus => Single(t)
    BY <1>3, Apart DEF Ready, Working, Serving
  <2> QED
    BY <1>5, <1>6, <2>1 DEF Single
<1>8. \A u \in Tids \ {t} : Calls(u)' = Calls(u)
  BY <1>5
<1>9. Later'
  BY <1>2, LaterKept DEF TypeInv, Ready
<1>10. ~Resting(t)
  BY <1>6 DEF Resting
<1> QED
  BY <1>2, <1>3, <1>4, <1>5, <1>7, <1>8, <1>9, <1>10, Dispatched

(* A completion fires. *)
LEMMA ReadyDone == ASSUME TypeInv, Ready, NEW t \in Tids, DoneProcessing(t) PROVE Ready'
<1>1. /\ ctl.at = "main" 
      /\ UNCHANGED <<runq, blocked, cur, semq, base, thrCpu, inInt, handled, nowq, ticks>>
  BY DEF DoneProcessing, Timed, schedVars, irqVars
<1>2. timer[t] \in [live : BOOLEAN, lost : Nat]
  BY DEF TypeInv, TypeOK
<1>3. t \notin Cpus => Single(t)
  BY Apart DEF Ready, Working, Serving
<1>4. Later'
  BY <1>1, LaterSame DEF Ready
<1>5. /\ \A u : Calls(u)' = Calls(u)
      /\ \A u, v : Precedes(u, v) => Precedes(u, v)'
  BY <1>1, QueueSame
<1>6. CASE timer[t].live /\ Dispatch(t, TRUE, Cancelled(timer[t]))
  <2>1. PICK tm \in [live : BOOLEAN, lost : Nat] : tm = Cancelled(timer[t])
    BY <1>2, TimerTypes
  <2>2. ~Resting(t) /\ ~tm.live /\ tm.lost = timer[t].lost
    BY <1>2, <1>6, <2>1 DEF Resting, Cancelled
  <2>3. t \notin Cpus => ~tm.live /\ tm.lost = 0 /\ Calls(t)' = 0
    BY <1>3, <1>5, <1>6, <2>2 DEF Single
  <2> QED
    BY <1>1, <1>4, <1>5, <1>6, <2>1, <2>2, <2>3, Dispatched
<1>7. CASE timer[t].lost > 0 /\ Dispatch(t, TRUE, [timer[t] EXCEPT !.lost = @ - 1])
  <2>1. t \in Cpus
    BY <1>3, <1>7 DEF Single
  <2>2. PICK tm \in [live : BOOLEAN, lost : Nat] : tm = [timer[t] EXCEPT !.lost = @ - 1]
    BY <1>2, <1>7
  <2> QED
    BY <1>1, <1>4, <1>5, <1>7, <2>1, <2>2, Dispatched
<1> QED
  BY <1>6, <1>7 DEF DoneProcessing

(* Stopping the current thread of a CPU. *)
LEMMA StoppedFacts ==
  ASSUME TypeInv, NEW c \in Cpus, base[c] \in Tids
  PROVE  /\ \A t \in Tids : /\ t # base[c] => Stopped(c)[t] = timer[t]
                            /\ Stopped(c)[t].lost = timer[t].lost
                            /\ Stopped(c)[t].live => timer[t].live
         /\ ~done[base[c]] => ~Stopped(c)[base[c]].live
         /\ done[base[c]] => Stopped(c)[base[c]] = timer[base[c]]
<1>1. timer \in [Tids -> [live : BOOLEAN, lost : Nat]]
  BY DEF TypeInv, TypeOK
<1>2. PICK b \in Tids : b = base[c]
  OBVIOUS
<1>3. Cancelled(timer[b]).lost = timer[b].lost /\ ~Cancelled(timer[b]).live
  BY <1>1 DEF Cancelled
<1>4. CASE done[b]
  BY <1>2, <1>4 DEF Stopped
<1>5. CASE ~done[b]
  <2>1. Stopped(c) = [timer EXCEPT ![b] = Cancelled(@)]
    BY <1>2, <1>5 DEF Stopped
  <2>2. Stopped(c)[b] = Cancelled(timer[b]) /\ \A t \in Tids \ {b} : Stopped(c)[t] = timer[t]
    BY <1>1, <2>1
  <2> QED
    BY <1>2, <1>3, <1>5, <2>2
<1> QED
  BY <1>4, <1>5

(* CPU::Interrupt while the interrupt thread of the CPU has nothing else to do. *)
LEMMA Interrupted ==
  ASSUME TypeInv, Ready, NEW c \in Cpus, NEW k \in IrqKinds,
         ~timer[Irq(c)].live, Calls(Irq(c)) = 0, Settled,
         \A t \in Tids \ {Irq(c)} : ~Executing(t), ctl'.at = "main",
         inInt' = [inInt EXCEPT ![c] = TRUE], handled' = [handled EXCEPT ![c] = k],
         timer' = Stopped(c),
         \A t : Calls(t) \in Nat /\ Calls(t)' = Calls(t) + (IF t = Irq(c) THEN 1 ELSE 0),
         \A t, u : t # Irq(c) /\ Precedes(t, u) => Precedes(t, u)',
         \A t : t # Irq(c) => Precedes(t, Irq(c))',
         UNCHANGED <<runq, blocked, cur, semq, base, thrCpu, done>>, Later'
  PROVE  Ready'
<1>1. PICK i \in Tids : i = Irq(c)
  BY Apart
<1>2. PICK b \in Tids : b = base[c]
  BY CurrentThreads DEF Ready
<1>3. b \in Pids /\ i \notin Pids /\ b # i
  BY <1>1, <1>2, CurrentThreads, Apart DEF Ready
<1>4. /\ \A t \in Tids : /\ t # b => timer'[t] = timer[t]
                         /\ timer'[t].lost = timer[t].lost
                         /\ timer'[t].live => timer[t].live
      /\ ~done[b] => ~timer'[b].live
      /\ done[b] => timer'[b] = timer[b]
  BY <1>2, StoppedFacts
<1>5. \A t : ~Executing(t)'
  BY DEF Executing
<1>6. \A t \in Tids \ {i} : Calls(t)' = Calls(t) /\ ~Executing(t)
  BY <1>1
<1>7. \A t \in Tids \ {i, b} : Keeps(t)
  BY <1>4, <1>5, <1>6 DEF Keeps
<1>8. ~timer'[b].live
  <2>1. timer[b].live => ~done[b]
    <3>1. b \in Workers => (timer[b].live => ~done[b])
      BY DEF Ready, Working, Single
    <3>2. b = c => (timer[b].live => ~done[b])
      BY <1>3, <1>6 DEF Ready, Holding
    <3> QED
      BY <1>2, <3>1, <3>2 DEF Ready, Homes
  <2> QED
    BY <1>4, <2>1
<1>9. Single(i)' /\ ~Resting(i)'
  <2>1. timer[i].lost = 0
    BY <1>1 DEF Ready, Serving, Single
  <2>2. ~timer'[i].live /\ timer'[i].lost = 0 /\ Calls(i)' = 1
    BY <1>1, <1>3, <1>4, <2>1
  <2> QED
    BY <1>5, <2>2 DEF Single, Resting
<1>10. \A d \in Cpus \ {c} : Irq(d) \notin {i, b} /\ d \notin {i, b} /\ base[d] \notin {i, b}
  <2> TAKE d \in Cpus \ {c}
  <2>1. Irq(d) # i /\ Irq(d) \notin Pids /\ d \in Pids /\ base[d] \in Pids
    BY <1>1, CurrentThreads, Apart DEF Ready
  <2>2. b # d
    BY <1>2, Apart DEF Ready, Homes
  <2>3. base[d] # b
    BY <1>2 DEF Ready, Holding
  <2> QED
    BY <1>3, <2>1, <2>2, <2>3
<1>11. ASSUME NEW d \in Cpus \ {c} PROVE Serving(d)' /\ Holding(d)'
  <2>1. Irq(d) \in Tids /\ d \in Tids /\ base[d] \in Tids
    BY CurrentThreads, Apart DEF Ready
  <2>2. Keeps(Irq(d)) /\ Keeps(d) /\ Keeps(base[d])
    BY <1>7, <1>10, <2>1
  <2>3. inInt'[d] = inInt[d] /\ handled'[d] = handled[d]
    BY DEF TypeInv, TypeOK
  <2>4. Serving(d)'
    BY <2>2, <2>3, ServingKept DEF Ready
  <2>5. thrCpu'[Irq(d)] = d /\ thrCpu'[d] = d /\ thrCpu'[base'[d]] = d
        /\ (timer'[d].live => ~done'[d] \/ Executing(d)')
    BY <2>2 DEF Ready, Holding, Keeps
  <2>6. PICK a, u : a = base[d] /\ u = Irq(d)
    OBVIOUS
  <2>7. inInt[d] => ~timer[a].live /\ Precedes(a, u)
    BY <2>6 DEF Ready, Holding, Suspending
  <2>8. inInt'[d] => ~timer'[base'[d]].live /\ Precedes(a, u)'
    BY <1>1, <1>10, <2>2, <2>3, <2>6, <2>7 DEF Keeps
  <2>9. Precedes(a, u)' => Precedes(base[d], Irq(d))'
    BY <2>6 DEF Precedes, Call, Event, Irq
  <2> QED
    BY <2>4, <2>5, <2>8, <2>9 DEF Holding, Suspending, Irq
<1>12. Serving(c)' /\ Holding(c)'
  <2>1. inInt'[c] /\ handled'[c] # NoIrq
    BY SchedulerAssumption DEF SchedulerAssumption, TypeInv, TypeOK
  <2>2. Serving(c)'
    BY <1>1, <1>9, <2>1 DEF Serving, Irq
  <2>3. timer'[c].live => ~done'[c] \/ Executing(c)'
    <3>1. c \in Tids \ {i} /\ (timer[c].live => ~done[c] \/ Executing(c))
      BY <1>1, Apart DEF Ready, Holding
    <3> QED
      BY <1>4, <1>6, <3>1
  <2>4. Suspending(c)'
    <3>1. PICK u : u = Irq(c)
      OBVIOUS
    <3>2. Precedes(b, u)'
      BY <1>1, <1>3, <3>1
    <3>3. Precedes(b, u)' => Precedes(base[c], Irq(c))'
      BY <1>2, <3>1 DEF Precedes, Call, Event, Irq
    <3> QED
      BY <1>2, <1>8, <3>2, <3>3 DEF Suspending
  <2> QED
    BY <2>2, <2>3, <2>4 DEF Ready, Holding, Irq
<1>13. ASSUME NEW w \in Workers PROVE Working(w)'
  <2>1. w \in Tids \ {i} /\ Working(w)
    BY <1>1, Apart DEF Ready
  <2>2. CASE w # b
    BY <1>6, <1>7, <2>1, <2>2, WorkingKept DEF Leaving
  <2>3. CASE w = b
    <3>1. Single(w)'
      BY <1>4, <1>5, <1>6, <1>8, <2>1, <2>3 DEF Working, Single
    <3> QED
      BY <1>2, <2>3, <3>1 DEF Working
  <2> QED
    BY <2>2, <2>3
<1>14. Control'
  BY <1>5 DEF Control, Settled, Executing, Scheduling, Requesting, Waking, Checking
<1>15. Homes'
  BY HomesSame DEF Ready, Homes
<1> QED
  BY <1>11, <1>12, <1>13, <1>14, <1>15 DEF Ready

(* A request to the interrupt controller, of a queued event or of a device. *)
LEMMA Issued ==
  ASSUME TypeInv, Ready, ctl.at = "main", NEW c \in Cpus, NEW k \in IrqKinds, NEW q, Issue(c, k, q),
         \/ q = nowq
         \/ nowq # <<>> /\ q = Tail(nowq) /\ \A t : Head(nowq) # Call(t),
         UNCHANGED <<runq, blocked, cur, semq, base, thrCpu, done, ticks, ctl>>
  PROVE  Ready'
<1>1. Settled /\ (\A t : ~Executing(t)) /\ ctl'.at = "main"
  BY DEF Ready, Control, Executing
<1>2. CASE handled[c] = NoIrq
  <2>1. PICK i \in Tids : i = Irq(c)
    BY Apart
  <2>2. ~timer[i].live /\ Calls(i) = 0
    BY <1>2, <2>1 DEF Ready, Serving, Resting
  <2>3. /\ inInt' = [inInt EXCEPT ![c] = TRUE] /\ handled' = [handled EXCEPT ![c] = k]
        /\ timer' = Stopped(c) /\ nowq' = Append(q, Call(i))
    BY <1>2, <2>1 DEF Issue, Interrupt, Call
  <2>4. PICK e \in Events : e = Call(i) /\ e.fn = "dispatch"
    BY CallFacts
  <2>5. /\ \A t : Calls(t) \in Nat /\ Calls(t)' = Calls(t) + (IF e = Call(t) THEN 1 ELSE 0)
        /\ \A t, u : e # Call(t) /\ Precedes(t, u) => Precedes(t, u)'
        /\ \A t, u : e = Call(u) /\ t # u => Precedes(t, u)'
    <3>1. CASE q = nowq
      BY <2>3, <2>4, <3>1, QueueAppended DEF TypeInv
    <3>2. CASE nowq # <<>> /\ q = Tail(nowq) /\ \A t : Head(nowq) # Call(t)
      <4>1. nowq' = Append(Tail(nowq), e)
        BY <2>3, <2>4, <3>2
      <4> QED
        BY <3>2, <4>1, QueueReplaced DEF TypeInv
    <3> QED
      BY <3>1, <3>2
  <2>6. \A t : e = Call(t) <=> t = i
    BY <2>4, CallFacts
  <2>7. /\ \A t : Calls(t) \in Nat /\ Calls(t)' = Calls(t) + (IF t = i THEN 1 ELSE 0)
        /\ \A t, u : t # i /\ Precedes(t, u) => Precedes(t, u)'
        /\ \A t : t # i => Precedes(t, i)'
    BY <2>5, <2>6
  <2>8. Precedes(i, i)' <=> Precedes(Irq(c), Irq(c))'
    BY <2>1 DEF Precedes, Call, Event, Irq
  <2>9. \A t : Precedes(t, i)' => Precedes(t, Irq(c))'
    BY <2>1 DEF Precedes, Call, Event, Irq
  <2>10. Later'
    <3>1. CASE q = nowq
      BY <2>3, <2>4, <3>1, LaterKept DEF TypeInv, Ready
    <3>2. CASE nowq # <<>> /\ q = Tail(nowq)
      <4>1. nowq \in Seq(Events) /\ \A j \in DOMAIN nowq : nowq[j].fn \notin {"setup", "schedule"}
        BY DEF TypeInv, TypeOK, Ready, Later
      <4>2. \A p \in Seq(Events), x \in Events : p # <<>> =>
              \A j \in DOMAIN Append(Tail(p), x) :
                Append(Tail(p), x)[j] = x \/ (j + 1 \in DOMAIN p /\ Append(Tail(p), x)[j] = p[j + 1])
        OBVIOUS
      <4>3. \A j \in DOMAIN nowq' : nowq'[j].fn \notin {"setup", "schedule"}
        BY <2>3, <2>4, <3>2, <4>1, <4>2
      <4> QED
        BY <4>3 DEF Ready, Later
    <3> QED
      BY <3>1, <3>2
  <2> QED
    BY <1>1, <2>1, <2>2, <2>3, <2>7, <2>9, <2>10, Interrupted
<1>3. CASE handled[c] # NoIrq
  <2>1. nowq' = q /\ UNCHANGED <<inInt, handled, timer>>
    BY <1>3 DEF Issue
  <2>2. /\ \A t : Calls(t)' = Calls(t)
        /\ \A t, u : Precedes(t, u) => Precedes(t, u)'
    <3>1. CASE q = nowq
      BY <2>1, <3>1, QueueSame
    <3>2. CASE nowq # <<>> /\ q = Tail(nowq) /\ \A t : Head(nowq) # Call(t)
      <4>1. /\ \A t : Calls(t)' \in Nat /\ Calls(t) = Calls(t)' + (IF Head(nowq) = Call(t) THEN 1 ELSE 0)
            /\ \A t, u : Precedes(t, u) => Precedes(t, u)'
        BY <2>1, <3>2, QueueTaken DEF TypeInv
      <4> QED
        BY <3>2, <4>1
    <3> QED
      BY <3>1, <3>2
  <2>3. \A t \in Tids : Keeps(t)
    BY <2>1, <2>2 DEF Keeps, Executing
  <2>4. /\ \A d \in Cpus : Serving(d)' /\ Holding(d)'
        /\ \A w \in Workers : Working(w)'
    BY <1>1, <2>1, <2>2, <2>3, Quiet DEF Leaving
  <2>5. Later'
    <3>1. \/ UNCHANGED nowq
          \/ nowq # <<>> /\ nowq' = Tail(nowq)
      BY <2>1
    <3> QED
      BY <3>1, LaterKept DEF TypeInv, Ready
  <2>6. Homes' /\ Control'
    BY <2>1, HomesSame, ControlSame DEF Ready, Homes
  <2> QED
    BY <2>4, <2>5, <2>6 DEF Ready
<1> QED
  BY <1>2, <1>3

(* A queued interrupt request is taken. *)
LEMMA ReadyIssue == ASSUME TypeInv, Ready, IssueNow PROVE Ready'
<1>1. PICK c, k, q : c = Head(nowq).arg /\ k = Head(nowq).kind /\ q = Tail(nowq)
  OBVIOUS
<1>2. /\ ctl.at = "main" /\ nowq # <<>> /\ Head(nowq).fn = "issue" /\ Issue(c, k, q)
      /\ UNCHANGED <<runq, blocked, cur, semq, base, thrCpu, done, ticks, ctl>>
  BY <1>1 DEF IssueNow, Now, schedVars
<1>3. Head(nowq) \in Events
  BY <1>2 DEF TypeInv, TypeOK
<1>4. c \in Cpus /\ k \in IrqKinds
  BY <1>1, <1>2, <1>3 DEF Events
<1>5. \A t : Head(nowq) # Call(t)
  BY <1>2 DEF Call, Event
<1> QED
  BY <1>1, <1>2, <1>4, <1>5, Issued

(* A device requests an interrupt. *)
LEMMA ReadyArrive ==
  ASSUME TypeInv, Ready, NEW c \in IrqCpus, NEW k \in IrqKinds, Arrive(c, k)
  PROVE  Ready'
<1>1. c \in Cpus
  BY SchedulerAssumption DEF SchedulerAssumption
<1>2. PICK q : q = nowq
  OBVIOUS
<1>3. /\ ctl.at = "main" /\ Issue(c, k, q)
      /\ UNCHANGED <<runq, blocked, cur, semq, base, thrCpu, done, ticks, ctl>>
  BY <1>2 DEF Arrive, Timed, schedVars
<1> QED
  BY <1>1, <1>2, <1>3, Issued

(* The interrupt thread is done, and the thread it suspended is dispatched. *)
LEMMA Resumes ==
  ASSUME TypeInv, Ready, ctl.at = "run", NEW c \in Cpus, ctl.me = Irq(c), ctl'.at = "main",
         inInt' = [inInt EXCEPT ![c] = FALSE], handled' = [handled EXCEPT ![c] = NoIrq],
         nowq' = Append(nowq, Call(base[c])),
         UNCHANGED <<runq, blocked, cur, semq, base, thrCpu, timer, done, ticks>>
  PROVE  Ready'
<1>1. PICK i \in Tids : i = Irq(c)
  BY Apart
<1>2. PICK b \in Tids : b = base[c]
  BY CurrentThreads DEF Ready
<1>3. b \in Pids /\ i \notin Pids /\ b # i /\ i \notin Cpus
  BY <1>1, <1>2, CurrentThreads, Apart DEF Ready
<1>4. \A t : (Executing(t) <=> t = i) /\ ~Executing(t)'
  BY <1>1 DEF Executing
<1>5. ~timer[i].live /\ timer[i].lost = 0 /\ Calls(i) = 0
  BY <1>3, <1>4, Executes
<1>6. inInt[c]
  BY <1>1, <1>4 DEF Ready, Serving, Resting
<1>7. ~timer[b].live /\ Calls(b) = 0
  <2>1. ~timer[b].live /\ Precedes(b, i)
    BY <1>1, <1>2, <1>6 DEF Ready, Holding, Suspending
  <2> QED
    BY <1>5, <2>1, Preceding DEF TypeInv
<1>8. PICK e \in Events : e = Call(b) /\ e.fn = "dispatch"
  BY CallFacts
<1>9. /\ \A t : Calls(t) \in Nat /\ Calls(t)' = Calls(t) + (IF t = b THEN 1 ELSE 0)
      /\ \A t, u : t # b /\ Precedes(t, u) => Precedes(t, u)'
  <2>1. /\ \A t : Calls(t) \in Nat /\ Calls(t)' = Calls(t) + (IF e = Call(t) THEN 1 ELSE 0)
        /\ \A t, u : e # Call(t) /\ Precedes(t, u) => Precedes(t, u)'
    BY <1>2, <1>8, QueueAppended DEF TypeInv
  <2>2. \A t : e = Call(t) <=> t = b
    BY <1>8, CallFacts
  <2> QED
    BY <2>1, <2>2
<1>10. \A t \in Tids \ {i, b} : Keeps(t)
  BY <1>4, <1>9 DEF Keeps
<1>11. \A d \in Cpus \ {c} : Irq(d) \notin {i, b} /\ d \notin {i, b} /\ base[d] \notin {i, b}
  <2> TAKE d \in Cpus \ {c}
  <2>1. Irq(d) # i /\ Irq(d) \notin Pids /\ d \in Pids /\ base[d] \in Pids
    BY <1>1, CurrentThreads, Apart DEF Ready
  <2>2. b # d
    BY <1>2, Apart DEF Ready, Homes
  <2>3. base[d] # b
    BY <1>2 DEF Ready, Holding
  <2> QED
    BY <1>3, <2>1, <2>2, <2>3
<1>12. ASSUME NEW d \in Cpus \ {c} PROVE Serving(d)' /\ Holding(d)'
  <2>1. Irq(d) \in Tids /\ d \in Tids /\ base[d] \in Tids
    BY CurrentThreads, Apart DEF Ready
  <2>2. Keeps(Irq(d)) /\ Keeps(d) /\ Keeps(base[d])
    BY <1>10, <1>11, <2>1
  <2>3. inInt'[d] = inInt[d] /\ handled'[d] = handled[d]
    BY DEF TypeInv, TypeOK
  <2>4. Serving(d)'
    BY <2>2, <2>3, ServingKept DEF Ready
  <2>5. thrCpu'[Irq(d)] = d /\ thrCpu'[d] = d /\ thrCpu'[base'[d]] = d
        /\ (timer'[d].live => ~done'[d] \/ Executing(d)')
    BY <2>2 DEF Ready, Holding, Keeps
  <2>6. PICK a, u : a = base[d] /\ u = Irq(d)
    OBVIOUS
  <2>7. inInt[d] => ~timer[a].live /\ Precedes(a, u)
    BY <2>6 DEF Ready, Holding, Suspending
  <2>8. inInt'[d] => ~timer'[base'[d]].live /\ Precedes(a, u)'
    BY <1>9, <1>11, <2>2, <2>3, <2>6, <2>7 DEF Keeps
  <2>9. Precedes(a, u)' => Precedes(base[d], Irq(d))'
    BY <2>6 DEF Precedes, Call, Event, Irq
  <2> QED
    BY <2>4, <2>5, <2>8, <2>9 DEF Holding, Suspending, Irq
<1>13. Serving(c)' /\ Holding(c)'
  <2>1. ~inInt'[c] /\ handled'[c] = NoIrq
    BY DEF TypeInv, TypeOK
  <2>2. Single(i)' /\ Resting(i)'
    <3>1. Calls(i)' = 0
      BY <1>3, <1>5, <1>9
    <3> QED
      BY <1>4, <1>5, <3>1 DEF Single, Resting
  <2>3. timer'[c].live => ~done'[c] \/ Executing(c)'
    BY <1>3, <1>4 DEF Ready, Holding
  <2> QED
    BY <1>1, <2>1, <2>2, <2>3 DEF Ready, Serving, Holding, Suspending, Irq
<1>14. ASSUME NEW w \in Workers PROVE Working(w)'
  <2>1. w \in Tids \ {i} /\ Working(w)
    BY <1>1, Apart DEF Ready
  <2>2. CASE w # b
    BY <1>10, <2>1, <2>2, WorkingKept DEF Leaving
  <2>3. CASE w = b
    <3>1. Single(w)'
      BY <1>4, <1>7, <1>9, <2>1, <2>3 DEF Working, Single
    <3> QED
      BY <1>2, <2>3, <3>1 DEF Working
  <2> QED
    BY <2>2, <2>3
<1>15. Control'
  BY <1>4 DEF Ready, Control, Settled, Executing, Scheduling, Requesting, Waking, Checking
<1>16. Homes'
  BY HomesSame DEF Ready, Homes
<1>17. Later'
  BY <1>2, <1>8, LaterKept DEF TypeInv, Ready
<1> QED
  BY <1>12, <1>13, <1>14, <1>15, <1>16, <1>17 DEF Ready

(* The interrupt thread ends: the next request is served or the current thread resumed. *)
LEMMA ReadyEndOfInterrupt == ASSUME TypeInv, Ready, EndOfInterrupt PROVE Ready'
<1>1. PICK c \in Cpus : ctl.me = Irq(c) /\ 0 - ctl.me = c
  BY Apart DEF EndOfInterrupt, AtEnd, TypeInv, Programmed
<1>2. /\ ctl.at = "run" /\ ctl'.at = "main"
      /\ UNCHANGED <<runq, blocked, cur, semq, base, thrCpu, done, ticks>>
  BY DEF EndOfInterrupt, Main, schedVars, simVars
<1>3. CASE pending[c] = <<>>
  <2>1. /\ inInt' = [inInt EXCEPT ![c] = FALSE] /\ handled' = [handled EXCEPT ![c] = NoIrq]
        /\ nowq' = Append(nowq, Call(base[c])) /\ timer' = timer
    BY <1>1, <1>3 DEF EndOfInterrupt, Resumed, Call
  <2> QED
    BY <1>1, <1>2, <2>1, Resumes
<1>4. CASE pending[c] # <<>>
  <2>1. PICK k : k = Head(pending[c])
    OBVIOUS
  <2>2. k \in IrqKinds
    BY <1>4, <2>1 DEF TypeInv, TypeOK
  <2>3. PICK i \in Tids : i = Irq(c)
    BY Apart
  <2>4. /\ inInt' = [inInt EXCEPT ![c] = TRUE] /\ handled' = [handled EXCEPT ![c] = k]
        /\ timer' = Stopped(c) /\ nowq' = Append(nowq, Call(i))
    BY <1>1, <1>4, <2>1, <2>3 DEF EndOfInterrupt, Interrupt, Call
  <2>5. Executing(i) /\ \A t \in Tids \ {i} : ~Executing(t)
    BY <1>1, <1>2, <2>3 DEF Executing
  <2>6. ~timer[i].live /\ Calls(i) = 0
    BY <1>2, <2>3, <2>5, Executes, Apart
  <2>7. PICK e \in Events : e = Call(i) /\ e.fn = "dispatch"
    BY CallFacts
  <2>8. /\ \A t : Calls(t) \in Nat /\ Calls(t)' = Calls(t) + (IF e = Call(t) THEN 1 ELSE 0)
        /\ \A t, u : e # Call(t) /\ Precedes(t, u) => Precedes(t, u)'
        /\ \A t, u : e = Call(u) /\ t # u => Precedes(t, u)'
    BY <2>4, <2>7, QueueAppended DEF TypeInv
  <2>9. \A t : e = Call(t) <=> t = i
    BY <2>7, CallFacts
  <2>10. /\ \A t : Calls(t) \in Nat /\ Calls(t)' = Calls(t) + (IF t = i THEN 1 ELSE 0)
         /\ \A t, u : t # i /\ Precedes(t, u) => Precedes(t, u)'
         /\ \A t : t # i => Precedes(t, i)'
    BY <2>8, <2>9
  <2>11. \A t : Precedes(t, i)' => Precedes(t, Irq(c))'
    BY <2>3 DEF Precedes, Call, Event, Irq
  <2>12. Later'
    BY <1>2, <2>4, <2>7, LaterKept DEF TypeInv, Ready
  <2>13. Settled
    BY <1>2 DEF Ready, Control
  <2> QED
    BY <1>2, <2>2, <2>3, <2>4, <2>5, <2>6, <2>10, <2>11, <2>12, <2>13, Interrupted
<1> QED
  BY <1>3, <1>4

-----------------------------------------------------------------------------
(* Preemption *)

(* TaskScheduler::PreEmpt for a thread no CPU has, or for the idle thread of the CPU. *)
LEMMA Preempted ==
  ASSUME TypeInv, Ready, NEW c \in Cpus, NEW new \in Workers \cup {c}, PreEmpt(c, new, nowq),
         new # base[c], \A t : Executing(t)' <=> Executing(t),
         new \in Workers => Resting(new) /\ \A d \in Cpus : base[d] # new,
         inInt[c] => new \in Workers,
         \A w \in Workers : Leaving(w) \/ base[c] = w => Leaving(w)',
         UNCHANGED <<done, inInt, handled>>
  PROVE  /\ \A d \in Cpus : Serving(d)' /\ Holding(d)'
         /\ \A w \in Workers : Working(w)'
         /\ base' = [base EXCEPT ![c] = new]
         /\ \A d \in Cpus : base'[d] \in Workers \cup {d}
         /\ \A t \in Tids \ {new} : thrCpu'[t] = thrCpu[t]
         /\ UNCHANGED nowq \/ \E e \in Events : e.fn = "dispatch" /\ nowq' = Append(nowq, e)
<1>1. PICK b \in Tids : b = base[c]
  BY CurrentThreads DEF Ready
<1>2. b \in Pids /\ new \in Pids /\ new \in Tids /\ b # new /\ (b = c \/ b \in Workers)
  BY <1>1, CurrentThreads, Apart DEF Ready, Homes
<1>3. /\ base' = [base EXCEPT ![c] = new] /\ thrCpu' = [thrCpu EXCEPT ![new] = c]
      /\ base'[c] = new /\ \A d \in Cpus \ {c} : base'[d] = base[d]
      /\ thrCpu'[new] = c /\ \A t \in Tids \ {new} : thrCpu'[t] = thrCpu[t]
  BY <1>2 DEF PreEmpt, TypeInv, TypeOK
<1>4. \A d \in Cpus : base'[d] \in Workers \cup {d}
  BY <1>3 DEF Ready, Homes
<1>5. /\ \A t \in Tids : /\ t # b => timer'[t] = timer[t]
                         /\ timer'[t].lost = timer[t].lost
                         /\ timer'[t].live => timer[t].live
      /\ ~inInt[c] /\ ~done[b] => ~timer'[b].live
      /\ done[b] => timer'[b] = timer[b]
  <2>1. CASE inInt[c]
    <3>1. timer' = timer
      BY <2>1 DEF PreEmpt
    <3> QED
      BY <2>1, <3>1
  <2>2. CASE ~inInt[c]
    <3>1. timer' = Stopped(c)
      BY <2>2 DEF PreEmpt
    <3>2. /\ \A t \in Tids : /\ t # b => Stopped(c)[t] = timer[t]
                             /\ Stopped(c)[t].lost = timer[t].lost
                             /\ Stopped(c)[t].live => timer[t].live
          /\ ~done[b] => ~Stopped(c)[b].live
          /\ done[b] => Stopped(c)[b] = timer[b]
      BY <1>1, StoppedFacts
    <3> QED
      BY <3>1, <3>2
  <2> QED
    BY <2>1, <2>2
<1>6. PICK e \in Events : e = Call(new) /\ e.fn = "dispatch"
  BY <1>2, CallFacts
<1>7. nowq' = IF inInt[c] THEN nowq ELSE Append(nowq, e)
  BY <1>6 DEF PreEmpt, Call
<1>8. /\ \A t : Calls(t)' = Calls(t) + (IF ~inInt[c] /\ t = new THEN 1 ELSE 0) /\ Calls(t) \in Nat
      /\ \A t, u : t # new /\ Precedes(t, u) => Precedes(t, u)'
      /\ inInt[c] => \A t, u : Precedes(t, u) => Precedes(t, u)'
  <2>1. \A t : e = Call(t) <=> t = new
    BY <1>6, CallFacts
  <2>2. CASE inInt[c]
    <3>1. UNCHANGED nowq
      BY <1>7, <2>2
    <3>2. \A t : Calls(t) \in Nat
      BY CountType DEF Calls, TypeInv, TypeOK
    <3>3. \A t : Calls(t)' = Calls(t) + 0
      BY <3>1, <3>2, QueueSame
    <3> QED
      BY <2>2, <3>1, <3>2, <3>3, QueueSame
  <2>3. CASE ~inInt[c]
    <3>1. nowq' = Append(nowq, e)
      BY <1>7, <2>3
    <3>2. /\ \A t : Calls(t) \in Nat /\ Calls(t)' = Calls(t) + (IF e = Call(t) THEN 1 ELSE 0)
          /\ \A t, u : e # Call(t) /\ Precedes(t, u) => Precedes(t, u)'
      BY <3>1, QueueAppended DEF TypeInv
    <3> QED
      BY <2>1, <2>3, <3>2
  <2> QED
    BY <2>2, <2>3
<1>9. \A t \in Tids \ {b, new} : Keeps(t)
  BY <1>5, <1>8 DEF Keeps
<1>10. \A d \in Cpus : Irq(d) \notin {b, new} /\ Irq(d) \in Tids
  BY <1>2, Apart
<1>11. ASSUME NEW d \in Cpus PROVE Serving(d)'
  BY <1>9, <1>10, ServingKept DEF Ready
<1>12. ASSUME NEW w \in Workers PROVE Working(w)'
  <2>1. w \in Tids /\ Working(w)
    BY Apart DEF Ready
  <2>2. CASE w \notin {b, new}
    <3>1. Keeps(w)
      BY <1>9, <2>1, <2>2
    <3>2. (Resting(w)' <=> Resting(w)) /\ (Single(w) => Single(w)')
      BY <3>1, SingleKept
    <3>3. (\A d \in Cpus : base'[d] # w) => \A d \in Cpus : base[d] # w
      BY <1>1, <1>3, <2>2
    <3> QED
      BY <2>1, <3>2, <3>3 DEF Working
  <2>3. CASE w = new
    <3>1. Single(w) /\ ~timer[w].live /\ Calls(w) = 0 /\ ~Executing(w)
      BY <2>1, <2>3 DEF Working, Resting
    <3>2. timer'[w] = timer[w]
      BY <1>2, <1>5, <2>1, <2>3
    <3>3. Calls(w)' <= 1
      BY <1>8, <3>1
    <3>4. Single(w)'
      BY <3>1, <3>2, <3>3 DEF Single
    <3> QED
      BY <1>3, <2>3, <3>4 DEF Working
  <2>4. CASE w = b
    <3>1. Calls(w)' = Calls(w)
      BY <1>2, <1>8, <2>4
    <3>2. Single(w)'
      BY <1>5, <2>1, <2>4, <3>1 DEF Working, Single
    <3> QED
      BY <1>1, <2>4, <3>2 DEF Working
  <2> QED
    BY <2>2, <2>3, <2>4
<1>13. ASSUME NEW d \in Cpus PROVE Holding(d)'
  <2>1. d \in Tids /\ Holding(d) /\ base[d] \in Tids
    BY CurrentThreads, Apart DEF Ready
  <2>2. d # new \/ d = c
    BY Apart
  <2>3. d # c => base[d] # new
    BY Apart DEF Ready, Homes
  <2>4. thrCpu'[Irq(d)] = d /\ thrCpu'[d] = d /\ thrCpu'[base'[d]] = d
    BY <1>3, <1>10, <2>1, <2>2, <2>3 DEF Holding
  <2>5. timer'[d].live => ~done'[d] \/ Executing(d)'
    BY <1>5, <2>1 DEF Holding
  <2>6. CASE d # c
    <3>1. PICK a, u : a = base[d] /\ u = Irq(d)
      OBVIOUS
    <3>2. inInt[d] => ~timer[a].live /\ Precedes(a, u)
      BY <2>1, <3>1 DEF Holding, Suspending
    <3>3. inInt'[d] => ~timer'[base'[d]].live /\ Precedes(a, u)'
      BY <1>3, <1>5, <1>8, <2>1, <2>3, <2>6, <3>1, <3>2
    <3>4. Suspending(d)'
      BY <1>3, <2>6, <3>1, <3>3 DEF Suspending, Precedes, Call, Event, Irq
    <3> QED
      BY <2>4, <2>5, <3>4 DEF Holding, Irq
  <2>7. CASE d = c
    <3>1. CASE ~inInt[c]
      BY <2>4, <2>5, <2>7, <3>1 DEF Holding, Suspending, Irq
    <3>2. CASE inInt[c]
      <4>1. PICK u : u = Irq(c)
        OBVIOUS
      <4>2. ~timer[new].live /\ Calls(new) = 0
        BY <3>2 DEF Resting
      <4>3. Precedes(new, u)'
        BY <1>8, <3>2, <4>2, Preceding DEF TypeInv
      <4>4. ~timer'[base'[c]].live
        BY <1>2, <1>3, <1>5, <4>2
      <4>5. Suspending(c)'
        BY <1>3, <4>1, <4>3, <4>4 DEF Suspending, Precedes, Call, Event, Irq
      <4> QED
        BY <2>4, <2>5, <2>7, <4>5 DEF Holding, Irq
    <3> QED
      BY <3>1, <3>2
  <2> QED
    BY <2>6, <2>7
<1> QED
  BY <1>3, <1>4, <1>6, <1>7, <1>11, <1>12, <1>13

(* Schedule gives a CPU, idle as all that follow, the first thread of the run queue. *)
LEMMA ReadyScheduleCpu == ASSUME TypeInv, Ready, ScheduleCpu PROVE Ready'
<1>1. ctl \in Ctls /\ ctl.at = "schedule" /\ ctl.cpu <= NumCpu /\ NumCpu \in Nat
  BY SchedulerAssumption DEF ScheduleCpu, TypeInv, TypeOK, SchedulerAssumption
<1>2. PICK c \in Cpus : c = ctl.cpu
  BY <1>1, CtlUpdates
<1>3. /\ base = cur /\ \A d \in Cpus : ~inInt[d] /\ (d >= c => cur[d] = d)
      /\ Len(runq) <= NumCpu + 1 - c
  BY <1>1, <1>2 DEF Ready, Control, Scheduling
<1>4. /\ ctl'.at = "schedule" /\ ctl'.me = ctl.me /\ ctl'.cpu = c + 1
      /\ UNCHANGED <<blocked, semq, done, inInt, handled>>
  <2>1. ctl' = [ctl EXCEPT !.cpu = @ + 1] /\ UNCHANGED <<blocked, semq, done, inInt, handled>>
    BY DEF ScheduleCpu, irqVars
  <2> QED
    BY <1>1, <1>2, <2>1 DEF Ctls
<1>5. cur[c] = c /\ ~inInt[c] /\ IsIdle(cur[c])
  BY <1>2, <1>3, Apart DEF Cpus
<1>6. c \in Nat /\ c <= NumCpu /\ Len(runq) \in Nat
  BY <1>1, <1>2 DEF Cpus, TypeInv, TypeOK
<1>7. \A t : ~Executing(t) /\ ~Executing(t)'
  BY <1>1, <1>4 DEF Executing
<1>8. \A d \in Cpus : d >= c + 1 => d >= c /\ d # c
  BY DEF Cpus
<1>9. CASE runq = <<>>
  <2>1. UNCHANGED <<runq, cur, base, thrCpu, timer, nowq, ticks>>
    <3>1. cur' = [cur EXCEPT ![c] = c] /\ UNCHANGED <<runq, base, thrCpu, timer, nowq, ticks>>
      BY <1>2, <1>5, <1>9 DEF ScheduleCpu, runVars
    <3> QED
      BY <3>1, <1>5 DEF TypeInv, TypeOK
  <2>2. \A t \in Tids : Keeps(t)
    BY <1>4, <1>7, <2>1, QueueSame DEF Keeps
  <2>3. \A t, u : Precedes(t, u) => Precedes(t, u)'
    BY <2>1, QueueSame
  <2>4. /\ \A d \in Cpus : Serving(d)' /\ Holding(d)'
        /\ \A w \in Workers : Working(w)'
    BY <1>4, <1>7, <2>1, <2>2, <2>3, Quiet DEF Leaving
  <2>5. Scheduling'
    <3>1. Len(runq) = 0
      BY <1>9
    <3>2. Len(runq) <= NumCpu + 1 - (c + 1)
      BY <1>1, <1>6, <3>1
    <3> QED
      BY <1>3, <1>4, <1>8, <2>1, <3>2 DEF Scheduling
  <2>6. Control'
    BY <1>4, <1>7, <2>5 DEF Control, Requesting, Waking, Checking
  <2>7. Later' /\ Homes'
    BY <1>4, <2>1, LaterSame, HomesSame DEF Ready, Homes
  <2> QED
    BY <2>4, <2>6, <2>7 DEF Ready
<1>10. CASE runq # <<>>
  <2>1. PICK w \in Workers : w = Head(runq)
    BY <1>10, WorkerSeqs DEF TypeInv, Ready, Homes
  <2>2. w # c /\ w \in Pids
    BY <2>1, Apart
  <2>3. /\ runq' = Tail(runq) /\ cur' = [cur EXCEPT ![c] = w] /\ PreEmpt(c, w, nowq)
        /\ UNCHANGED ticks
    BY <1>2, <1>5, <1>10, <2>1, <2>2 DEF ScheduleCpu
  <2>4. \A d \in Cpus : cur[d] # w
    <3>1. runq \in Seq(Pids)
      BY DEF TypeInv, TypeOK
    <3>2. 1 \in DOMAIN runq /\ runq[1] = w
      BY <1>10, <2>1, <3>1
    <3>3. Count(w, runq) \in Nat /\ (Count(w, runq) = 0 <=> \A i \in DOMAIN runq : runq[i] # w)
      BY <3>1, CountType
    <3>4. Count(w, runq) > 0
      BY <3>2, <3>3
    <3> QED
      BY <3>4, Whereabouts DEF TypeInv, Ready
  <2>5. Resting(w) /\ \A d \in Cpus : base[d] # w
    BY <1>3, <1>7, <2>4 DEF Ready, Working, Leaving
  <2>6. w # base[c]
    BY <2>5
  <2>7. \A v \in Workers : Leaving(v) \/ base[c] = v => Leaving(v)'
    BY <1>3, <1>5, <1>7, Apart DEF Leaving
  <2>8. /\ \A d \in Cpus : Serving(d)' /\ Holding(d)'
        /\ \A v \in Workers : Working(v)'
        /\ base' = [base EXCEPT ![c] = w]
        /\ \A d \in Cpus : base'[d] \in Workers \cup {d}
        /\ UNCHANGED nowq \/ \E e \in Events : e.fn = "dispatch" /\ nowq' = Append(nowq, e)
    BY <1>4, <1>5, <1>7, <2>3, <2>5, <2>6, <2>7, Preempted
  <2>9. Homes'
    BY <1>4, <1>5, <1>10, <2>1, <2>3, <2>8, HomesTake DEF TypeInv, Ready
  <2>10. Later'
    BY <2>3, <2>8, LaterKept DEF TypeInv, Ready
  <2>11. Scheduling'
    <3>1. Len(runq') = Len(runq) - 1
      BY <1>10, <2>3 DEF TypeInv, TypeOK
    <3>2. Len(runq') <= NumCpu + 1 - (c + 1)
      BY <1>1, <1>3, <1>6, <3>1
    <3>3. base' = cur' /\ \A d \in Cpus : d >= c + 1 => cur'[d] = d
      BY <1>3, <1>8, <2>3, <2>8 DEF TypeInv, TypeOK
    <3> QED
      BY <1>3, <1>4, <3>2, <3>3 DEF Scheduling
  <2>12. Control'
    BY <1>4, <1>7, <2>11 DEF Control, Requesting, Waking, Checking
  <2> QED
    BY <2>8, <2>9, <2>10, <2>12 DEF Ready
<1> QED
  BY <1>9, <1>10

(* While it checks the CPUs, the running thread has its CPU until it is switched. *)
LEMMA Checked ==
  ASSUME TypeInv, Ready, ctl.at = "check", ctl.me \in Workers
  PROVE  /\ Executing(ctl.me) /\ ~inInt[ctl.on] /\ done[ctl.me]
         /\ ctl.go => base[ctl.on] = ctl.me
<1>1. Executing(ctl.me) /\ ctl.me \in Pids /\ ctl.on = thrCpu[ctl.me]
  BY Apart DEF Executing, Ready, Control, Requesting
<1>2. ~inInt[ctl.on]
  BY <1>1 DEF Ready, Control
<1>3. done[ctl.me]
  BY <1>1 DEF Ready, Working, Single
<1>4. ctl.go => base[ctl.on] = ctl.me
  <2>1. ctl.go => ~Resting(ctl.me) /\ ~Leaving(ctl.me)
    BY <1>1 DEF Resting, Leaving
  <2>2. ctl.go => \E d \in Cpus : base[d] = ctl.me
    BY <2>1 DEF Ready, Working
  <2> QED
    BY <1>1, <2>2 DEF Ready, Holding
<1> QED
  BY <1>1, <1>2, <1>3, <1>4

(* A CPU that lost or got a thread during the request is preempted. *)
LEMMA ReadyCheckCpu == ASSUME TypeInv, Ready, CheckCpu PROVE Ready'
<1>1. ctl \in Ctls /\ ctl.at = "check" /\ ctl.cpu <= NumCpu /\ NumCpu \in Nat
  BY SchedulerAssumption DEF CheckCpu, TypeInv, TypeOK, SchedulerAssumption
<1>2. PICK c \in Cpus : c = ctl.cpu
  BY <1>1, CtlUpdates
<1>3. PICK m \in Tids : m = ctl.me
  BY <1>1 DEF TypeInv, Programmed
<1>4. /\ m \notin Cpus /\ ctl.on = thrCpu[m] /\ runq = <<>> /\ Requesting /\ Checking
      /\ \A t \in Pids : Executing(t) => ~inInt[thrCpu[t]]
  BY <1>1, <1>3 DEF Ready, Control, Requesting, Checking
<1>5. PICK o \in Cpus : o = ctl.on
  BY <1>1 DEF Ctls
<1>6. ctl.prev[c] = base[c]
  BY <1>1, <1>2, <1>4 DEF Checking, Cpus
<1>7. /\ ctl'.at = "check" /\ ctl'.me = m /\ ctl'.cpu = c + 1 /\ ctl'.on = o /\ ctl'.prev = ctl.prev
      /\ ctl'.go <=> ctl.go /\ ~(cur[c] # base[c] /\ c = o)
      /\ UNCHANGED <<runq, blocked, cur, semq, done, inInt, handled, ticks>>
  <2>1. /\ ctl' = [ctl EXCEPT !.cpu = @ + 1, !.go = @ /\ ~(cur[c] # base[c] /\ c = o)]
        /\ UNCHANGED <<runq, blocked, cur, semq, done, inInt, handled, ticks>>
    BY <1>2, <1>5, <1>6 DEF CheckCpu, schedVars, irqVars, simVars
  <2> QED
    BY <1>1, <1>2, <1>3, <1>5, <2>1 DEF Ctls
<1>8. \A t : (Executing(t) <=> t = m) /\ (Executing(t)' <=> t = m)
  BY <1>1, <1>3, <1>7 DEF Executing
<1>9. \A w \in Workers : Leaving(w) => Leaving(w)'
  BY <1>1, <1>3, <1>7, <1>8 DEF Leaving
<1>10. m \in Workers => /\ ~inInt[o] /\ done[m] /\ (ctl.go => base[o] = m)
                        /\ ctl.go <=> c <= o \/ cur[o] = m
                        /\ \A d \in Cpus : cur[d] = m => d = o
  BY <1>1, <1>2, <1>3, <1>4, <1>5, Checked DEF Checking
<1>11. \A d \in Cpus : base[d] = IF d < c THEN cur[d] ELSE ctl.prev[d]
  BY <1>1, <1>2, <1>4 DEF Checking
<1>12. \A d \in Cpus : cur[d] # base[d] =>
         \/ base[d] = d /\ cur[d] \in Workers
         \/ d = o /\ m \in Workers /\ base[d] = m /\ cur[d] = d
  BY <1>1, <1>3, <1>4, <1>5 DEF Requesting
<1>13. \A d \in Cpus : (d < c + 1 <=> d < c \/ d = c) /\ (c + 1 <= d <=> c <= d /\ d # c)
  BY DEF Cpus
<1>14. CASE cur[c] = base[c]
  <2>1. UNCHANGED <<base, thrCpu, timer, nowq>> /\ (ctl'.go <=> ctl.go)
    BY <1>2, <1>6, <1>7, <1>14 DEF CheckCpu, runVars
  <2>2. \A t \in Tids : Keeps(t)
    BY <1>7, <1>8, <2>1, QueueSame DEF Keeps
  <2>3. \A t, u : Precedes(t, u) => Precedes(t, u)'
    BY <2>1, QueueSame
  <2>4. \A d \in Cpus : Serving(d)' /\ Holding(d)'
    <3> TAKE d \in Cpus
    <3>1. Irq(d) \in Tids /\ d \in Tids /\ base[d] \in Tids
      BY CurrentThreads, Apart DEF Ready
    <3> QED
      BY <1>7, <2>1, <2>2, <2>3, <3>1, CpuKept
  <2>5. \A w \in Workers : Working(w)'
    <3> TAKE w \in Workers
    <3>1. w \in Tids /\ Working(w)
      BY Apart DEF Ready
    <3>2. (Resting(w)' <=> Resting(w)) /\ (Single(w) => Single(w)')
      BY <2>2, <3>1, SingleKept
    <3> QED
      BY <1>9, <2>1, <3>1, <3>2 DEF Working
  <2>6. Requesting'
    BY <1>3, <1>4, <1>5, <1>7, <1>12, <2>1 DEF Requesting
  <2>7. Checking'
    <3>1. m \in Workers => (ctl.go <=> c + 1 <= o \/ cur[o] = m)
      BY <1>10, <1>13, <1>14
    <3>2. \A d \in Cpus : base[d] = IF d < c + 1 THEN cur[d] ELSE ctl.prev[d]
      BY <1>11, <1>13, <1>14
    <3> QED
      BY <1>4, <1>7, <1>10, <2>1, <3>1, <3>2 DEF Checking
  <2>8. Control'
    BY <1>4, <1>7, <1>8, <2>1, <2>6, <2>7 DEF Control, Scheduling, Waking
  <2>9. Later' /\ Homes'
    BY <1>7, <2>1, LaterSame, HomesSame DEF Ready, Homes
  <2> QED
    BY <2>4, <2>5, <2>8, <2>9 DEF Ready
<1>15. CASE cur[c] # base[c]
  <2>1. PICK new \in Workers \cup {c} : new = cur[c]
    BY DEF Ready, Homes
  <2>2. PreEmpt(c, new, nowq)
    BY <1>2, <1>6, <1>15, <2>1 DEF CheckCpu
  <2>3. ASSUME base[c] = c, new \in Workers
        PROVE  /\ m \in Workers => c # o /\ new # m
               /\ Resting(new) /\ \A d \in Cpus : base[d] # new
    <3>1. m \in Workers => c # o /\ new # m
      BY <1>10, <1>13, <2>1, <2>3, Apart DEF Cpus
    <3>2. \A d \in Cpus : base[d] # new
      <4>1. \A d \in Cpus \ {c} : cur[d] # new
        BY <2>1, <2>3, Whereabouts DEF TypeInv, Ready
      <4> QED
        BY <1>12, <2>3, <3>1, <4>1, Apart
    <3>3. Resting(new)
      <4>1. ~Leaving(new)
        BY <1>8, <2>3, <3>1 DEF Leaving
      <4> QED
        BY <2>3, <3>2, <4>1 DEF Ready, Working
    <3> QED
      BY <3>1, <3>2, <3>3
  <2>4. \/ base[c] = c /\ new \in Workers
        \/ c = o /\ m \in Workers /\ base[c] = m /\ new = c
    BY <1>12, <1>15, <2>1
  <2>5. /\ new # base[c] /\ m # new
        /\ new \in Workers => Resting(new) /\ \A d \in Cpus : base[d] # new
        /\ inInt[c] => new \in Workers
        /\ m \in Workers => (c = o <=> new = c)
    <3>1. CASE base[c] = c /\ new \in Workers
      BY <1>15, <2>1, <2>3, <3>1, Apart
    <3>2. CASE c = o /\ m \in Workers /\ base[c] = m /\ new = c
      BY <1>10, <1>15, <2>1, <3>2, Apart
    <3> QED
      BY <2>4, <3>1, <3>2
  <2>6. \A w \in Workers : Leaving(w) \/ base[c] = w => Leaving(w)'
    <3>1. ASSUME NEW w \in Workers, base[c] = w PROVE Leaving(w)'
      <4>1. c = o /\ w = m
        BY <2>4, <3>1, Apart
      <4> QED
        BY <1>7, <1>8, <1>15, <4>1 DEF Leaving
    <3> QED
      BY <1>9, <3>1
  <2>7. \A t : Executing(t)' <=> Executing(t)
    BY <1>8
  <2>8. /\ \A d \in Cpus : Serving(d)' /\ Holding(d)'
        /\ \A w \in Workers : Working(w)'
        /\ base' = [base EXCEPT ![c] = new]
        /\ \A d \in Cpus : base'[d] \in Workers \cup {d}
        /\ \A t \in Tids \ {new} : thrCpu'[t] = thrCpu[t]
        /\ UNCHANGED nowq \/ \E e \in Events : e.fn = "dispatch" /\ nowq' = Append(nowq, e)
    BY <1>7, <2>2, <2>5, <2>6, <2>7, Preempted
  <2>9. base'[c] = cur[c] /\ \A d \in Cpus \ {c} : base'[d] = base[d]
    BY <2>1, <2>8 DEF TypeInv, TypeOK
  <2>10. Homes' /\ Later'
    BY <1>7, <2>8, HomesSame, LaterKept DEF TypeInv, Ready, Homes
  <2>11. thrCpu'[m] = thrCpu[m]
    BY <2>5, <2>8
  <2>12. Requesting'
    BY <1>4, <1>5, <1>7, <1>12, <2>9, <2>11 DEF Requesting
  <2>13. Checking'
    <3>1. m \in Workers => (ctl'.go <=> c + 1 <= o \/ cur[o] = m)
      <4>1. CASE c = o
        BY <1>7, <1>13, <1>15, <2>1, <2>5, <4>1, Apart DEF Cpus
      <4>2. CASE c # o
        BY <1>7, <1>10, <1>13, <4>2
      <4> QED
        BY <4>1, <4>2
    <3>2. \A d \in Cpus : base'[d] = IF d < c + 1 THEN cur[d] ELSE ctl.prev[d]
      BY <1>11, <1>13, <2>9
    <3> QED
      BY <1>4, <1>7, <1>10, <3>1, <3>2 DEF Checking
  <2>14. Control'
    BY <1>4, <1>7, <1>8, <2>11, <2>12, <2>13 DEF Control, Scheduling, Waking
  <2> QED
    BY <2>8, <2>10, <2>14 DEF Ready
<1> QED
  BY <1>14, <1>15

-----------------------------------------------------------------------------
(* The start of the simulation *)

LEMMA Booted == Init => Booting
<1> SUFFICES ASSUME Init PROVE Booting
  OBVIOUS
<1>1. /\ ctl = Main /\ due = {} /\ ticks = 0 /\ blocked = {}
      /\ runq = [i \in 1 .. NumThreads |-> NumCpu + i]
      /\ cur = [c \in Cpus |-> c] /\ semq = [s \in Sems |-> <<>>]
      /\ nowq = <<Event("setup", NoPid), Event("schedule", NoPid)>>
  BY DEF Init
<1>2. \A c \in Cpus : ~inInt[c] /\ handled[c] = NoIrq
  BY DEF Init
<1>3. \A c \in Cpus : thrCpu[Irq(c)] = c
  BY Apart DEF Init
<1>4. \A t \in Tids : timer[t] = NoTimer
  BY DEF Init
<1> QED
  BY <1>1, <1>2, <1>3, <1>4, Apart DEF Booting

(* The threads are forked into the run queue. *)
LEMMA Forked == TypeInv /\ Booting /\ (\A c \in Cpus : base[c] \in Workers \cup {c}) => Homes
<1> SUFFICES ASSUME TypeInv, Booting, \A c \in Cpus : base[c] \in Workers \cup {c} PROVE Homes
  OBVIOUS
<1>1. /\ runq = [i \in 1 .. NumThreads |-> NumCpu + i] /\ blocked = {}
      /\ cur = [c \in Cpus |-> c] /\ semq = [s \in Sems |-> <<>>]
  BY DEF Booting
<1>2. NumCpu \in Nat /\ NumThreads \in Nat
  BY SchedulerAssumption DEF SchedulerAssumption
<1>3. runq \in Seq(Workers)
  <2>1. \A i \in 1 .. NumThreads : NumCpu + i \in Workers
    BY <1>2 DEF Workers
  <2>2. runq \in [1 .. NumThreads -> Workers]
    BY <1>1, <2>1
  <2>3. \A S, n \in Nat : [1 .. n -> S] \subseteq Seq(S)
    OBVIOUS
  <2> QED
    BY <1>2, <2>2, <2>3
<1>4. ASSUME NEW w \in Workers PROVE Places(w) = 1 /\ IsFiniteSet(InLines(w))
  <2>1. InLines(w) = {}
    BY <1>1 DEF InLines
  <2>2. {c \in Cpus : cur[c] = w} = {} /\ {w} \cap blocked = {}
    BY <1>1, Apart
  <2>3. {i \in DOMAIN runq : runq[i] = w} = {w - NumCpu}
    <3>1. w \in Int /\ w - NumCpu \in 1 .. NumThreads
      BY <1>2 DEF Workers
    <3>2. DOMAIN runq = 1 .. NumThreads /\ \A i \in 1 .. NumThreads : runq[i] = NumCpu + i
      BY <1>1
    <3>3. \A i \in 1 .. NumThreads : NumCpu + i = w <=> i = w - NumCpu
      BY <1>2, <3>1
    <3> QED
      BY <3>1, <3>2, <3>3
  <2>4. Count(w, runq) = 1
    BY <2>3, FS_Singleton DEF Count
  <2> QED
    BY <2>1, <2>2, <2>4, FS_EmptySet DEF Places
<1>5. \A c \in Cpus : cur[c] \in Workers \cup {c}
  BY <1>1
<1> QED
  BY <1>1, <1>3, <1>4, <1>5 DEF Homes

(* Only the first two events can be taken before the first of the others. *)
LEMMA BootingOrder ==
  ASSUME TypeInv, Booting, Next
  PROVE  \/ Head(nowq).fn = "setup" /\ SetupIdleThreads
         \/ Head(nowq).fn = "schedule" /\ ScheduleNow
<1>1. ctl.at = "main" /\ due = {} /\ nowq # <<>>
  BY DEF Booting, Main
<1>2. Head(nowq).fn \in {"setup", "schedule"}
  BY DEF Booting, Event
<1>3. \A e : ~Timed(e)
  BY <1>1 DEF Timed
<1>4. ~Tick /\ (\A t : ~DoneProcessing(t)) /\ \A c, k : ~Arrive(c, k)
  BY <1>3 DEF Tick, DoneProcessing, Arrive
<1>5. Callback
  BY <1>4 DEF Next
<1>6. ~DispatchNow /\ ~IssueNow
  BY <1>2 DEF DispatchNow, IssueNow, Now
<1>7. ~ScheduleCpu /\ ~ScheduleEnd /\ ~WakeupIdle /\ ~CheckCpu /\ ~CheckEnd /\ ~EndOfInterrupt
  BY <1>1 DEF ScheduleCpu, ScheduleEnd, WakeupIdle, CheckCpu, CheckEnd, EndOfInterrupt
<1>8. ~Process /\ ~Raise /\ ~SemDown /\ ~SemUp /\ ~Sleep /\ ~Awake
  BY <1>1 DEF Process, Raise, SemDown, SemUp, Sleep, Awake, Statement
<1> QED
  BY <1>5, <1>6, <1>7, <1>8 DEF Callback, SetupIdleThreads, ScheduleNow, Now

(* The idle threads are set up. *)
LEMMA BootingSetup ==
  ASSUME TypeInv, Booting, Head(nowq).fn = "setup", SetupIdleThreads
  PROVE  Booting'
<1>1. nowq = <<Event("setup", NoPid), Event("schedule", NoPid)>> /\ \A t \in Cpus : timer[t] = NoTimer
  BY DEF Booting, Event
<1>2. nowq' = <<Event("schedule", NoPid)>>
  BY <1>1 DEF SetupIdleThreads
<1>3. /\ UNCHANGED <<runq, blocked, cur, semq, inInt, handled, ticks, ctl>> /\ due' = {} /\ base' = cur
      /\ thrCpu' = [t \in Tids |-> IF t \in Cpus THEN t ELSE thrCpu[t]]
      /\ done' = [t \in Tids |-> t \notin Cpus]
      /\ timer' = [t \in Tids |-> IF t \in Cpus THEN Consumed(timer[t]) ELSE timer[t]]
  BY DEF SetupIdleThreads, Now, schedVars, irqVars
<1>4. \A c \in Cpus : c \in Tids /\ Irq(c) \in Tids /\ Irq(c) \notin Cpus
  BY Apart
<1>5. \A c \in Cpus : thrCpu'[Irq(c)] = c /\ thrCpu'[c] = c /\ ~done'[c]
  BY <1>3, <1>4 DEF Booting
<1>6. \A t \in Tids \ Cpus : timer'[t] = NoTimer
  BY <1>3 DEF Booting
<1>7. \A c \in Cpus : ~inInt'[c] /\ handled'[c] = NoIrq
  BY <1>3 DEF Booting
<1>8. /\ ctl' = Main /\ due' = {} /\ ticks' = 0
      /\ runq' = [i \in 1 .. NumThreads |-> NumCpu + i] /\ blocked' = {}
      /\ cur' = [c \in Cpus |-> c] /\ semq' = [s \in Sems |-> <<>>]
  BY <1>3 DEF Booting
<1> QED
  BY <1>2, <1>3, <1>5, <1>6, <1>7, <1>8 DEF Booting, Main, Event, NoTimer, Irq

(* The first Schedule starts with as many idle CPUs as threads at least. *)
LEMMA BootingSchedule ==
  ASSUME NumThreads <= NumCpu, TypeInv, Booting, Head(nowq).fn = "schedule", ScheduleNow
  PROVE  Ready'
<1>1. /\ nowq = <<Event("schedule", NoPid)>> /\ base = cur
      /\ \A c \in Cpus : thrCpu[c] = c /\ ~done[c]
  BY DEF Booting, Event
<1>2. /\ UNCHANGED <<runq, blocked, cur, semq, base, thrCpu, timer, done, inInt, handled, ticks>>
      /\ ctl' = [Main EXCEPT !.at = "schedule", !.cpu = 1] /\ nowq' = <<>>
  BY <1>1 DEF ScheduleNow, Booting, schedVars, runVars, irqVars
<1>3. ctl'.at = "schedule" /\ ctl'.cpu = 1
  BY <1>2 DEF Main
<1>4. /\ cur = [c \in Cpus |-> c] /\ runq = [i \in 1 .. NumThreads |-> NumCpu + i] /\ ticks = 0
      /\ \A c \in Cpus : ~inInt[c] /\ handled[c] = NoIrq /\ thrCpu[Irq(c)] = c
      /\ \A t \in Tids \ Cpus : timer[t] = NoTimer
  BY DEF Booting
<1>5. \A t : Calls(t)' = 0 /\ ~Executing(t)'
  <2>1. \A t : Calls(t)' = Count(Call(t), <<>>)
    BY <1>2 DEF Calls, Count, Call, Event
  <2> QED
    BY <1>3, <2>1, CountEmpty DEF Executing
<1>6. \A t \in Tids \ Cpus : Single(t)' /\ Resting(t)'
  <2>1. \A t \in Tids \ Cpus : timer'[t].lost = 0 /\ ~timer'[t].live
    BY <1>2, <1>4 DEF NoTimer
  <2> QED
    BY <1>5, <2>1 DEF Single, Resting
<1>7. ASSUME NEW c \in Cpus PROVE Serving(c)' /\ Holding(c)'
  <2>1. PICK i \in Tids \ Cpus : i = Irq(c)
    BY Apart
  <2>2. Single(i)' /\ Resting(i)'
    BY <1>6
  <2>3. Serving(c)'
    BY <1>2, <1>4, <2>1, <2>2 DEF Serving, Irq
  <2>4. Holding(c)'
    BY <1>1, <1>2, <1>4 DEF Holding, Suspending, Irq
  <2> QED
    BY <2>3, <2>4
<1>8. \A w \in Workers : Working(w)'
  BY <1>6, Apart DEF Working
<1>9. Homes'
  <2>1. \A c \in Cpus : base[c] \in Workers \cup {c}
    BY <1>1, <1>4
  <2> QED
    BY <1>2, <2>1, Forked, HomesSame
<1>10. Control'
  <2>1. NumCpu \in Nat /\ NumThreads \in Nat
    BY SchedulerAssumption DEF SchedulerAssumption
  <2>2. Len(runq) = NumThreads
    BY <1>4, <2>1
  <2>3. Len(runq) <= NumCpu + 1 - 1
    BY <2>1, <2>2
  <2>4. Scheduling'
    BY <1>1, <1>2, <1>3, <1>4, <2>3 DEF Scheduling
  <2> QED
    BY <1>3, <1>5, <2>4 DEF Control, Requesting, Waking, Checking
<1>11. Later'
  BY <1>2, <1>4 DEF Later
<1> QED
  BY <1>7, <1>8, <1>9, <1>10, <1>11 DEF Ready

-----------------------------------------------------------------------------
(* The invariant *)

LEMMA ReadyNext == ASSUME NumThreads <= NumCpu, TypeInv, Ready, Next PROVE Ready'
<1>1. CASE Callback
  BY <1>1, NoRestart, ReadyDispatch, ReadyIssue, ReadyScheduleCpu, ReadyScheduleEnd,
     ReadyProcess, ReadyRaise, ReadySemDown, ReadySemUp, ReadySleep, ReadyAwake,
     ReadyWakeup, ReadyCheckCpu, ReadyCheckEnd, ReadyEndOfInterrupt DEF Callback
<1>2. ~Tick
  BY NoRestart
<1>3. ASSUME NEW t \in Tids, DoneProcessing(t) PROVE Ready'
  BY <1>3, ReadyDone
<1>4. ASSUME NEW c \in IrqCpus, NEW k \in IrqKinds, Arrive(c, k) PROVE Ready'
  BY <1>4, ReadyArrive
<1> QED
  BY <1>1, <1>2, <1>3, <1>4 DEF Next

(* A stuttering step. *)
LEMMA UnchangedInv == ASSUME TypeInv, Inv, UNCHANGED vars PROVE Inv'
<1>1. UNCHANGED <<runq, blocked, cur, semq, base, thrCpu, timer, done, inInt, handled, nowq, due, ticks, ctl>>
  BY DEF vars, schedVars, runVars, irqVars, simVars
<1>2. CASE Booting
  <2>1. Booting'
    BY <1>1, <1>2 DEF Booting, Main, NoTimer, Event, Irq
  <2> QED
    BY <2>1 DEF Inv
<1>3. CASE Ready
  <2>1. /\ \A t : Calls(t)' = Calls(t) /\ (Executing(t)' <=> Executing(t))
        /\ \A t, u : Precedes(t, u) => Precedes(t, u)'
    BY <1>1, QueueSame DEF Executing
  <2>2. \A t : Keeps(t)
    BY <1>1, <2>1 DEF Keeps
  <2>3. \A c \in Cpus : Serving(c)' /\ Holding(c)'
    BY <1>1, <1>3, <2>1, <2>2, CpuKept
  <2>4. \A w \in Workers : Working(w)'
    <3> TAKE w \in Workers
    <3>1. (Resting(w)' <=> Resting(w)) /\ (Single(w) => Single(w)')
      BY <2>2, SingleKept
    <3>2. Leaving(w)' <=> Leaving(w)
      BY <1>1, <2>1 DEF Leaving
    <3> QED
      BY <1>1, <1>3, <3>1, <3>2 DEF Ready, Working
  <2>5. Homes' /\ Control' /\ Later'
    BY <1>1, <1>3, HomesSame, ControlSame, LaterSame DEF Ready, Homes
  <2>6. Ready'
    BY <2>3, <2>4, <2>5 DEF Ready
  <2> QED
    BY <2>6 DEF Inv
<1> QED
  BY <1>2, <1>3 DEF Inv

(* The invariant is inductive. *)
LEMMA InvNext == NumThreads <= NumCpu /\ TypeInv /\ Inv /\ [Next]_vars => Inv'
<1> SUFFICES ASSUME NumThreads <= NumCpu, TypeInv, Inv, [Next]_vars PROVE Inv'
  OBVIOUS
<1>1. CASE UNCHANGED vars
  BY <1>1, UnchangedInv
<1>2. CASE Next
  <2>1. Booting => Booting' \/ Ready'
    BY <1>2, BootingOrder, BootingSetup, BootingSchedule
  <2>2. Ready => Ready'
    BY <1>2, ReadyNext
  <2> QED
    BY <2>1, <2>2 DEF Inv
<1> QED
  BY <1>1, <1>2

(* What the invariant says once the start is over and no callback runs. *)
LEMMA InvAtMain == Inv /\ AtMain => Homes /\ Settled
BY DEF Inv, AtMain, Ready, Control, Booting, Event

(* It holds in every reachable state. *)
LEMMA Invariance == ASSUME NumThreads <= NumCpu PROVE Spec => [](TypeInv /\ Inv)
<1>1. Init => TypeInv /\ Inv
  BY TypeInvInit, Booted DEF Inv
<1>2. TypeInv /\ Inv /\ [Next]_vars => (TypeInv /\ Inv)'
  BY TypeInvNext, InvNext
<1> QED
  BY <1>1, <1>2, PTL DEF Spec

(* With no more threads than CPUs, as on the TelosB mote and on the two cores of *)
(* the Trex testbed, every thread of the device file is in one place between two *)
(* events: on a CPU, asleep, in the line of a semaphore or in the run queue      *)
(* (rrscheduler.cc, Schedule, WakeupIdle and DoRequest).                         *)
THEOREM NobodyIsLost == ASSUME NumThreads <= NumCpu PROVE Spec => []NoThreadLost
<1>1. Inv => NoThreadLost
  BY InvAtMain DEF NoThreadLost, Homes
<1> QED
  BY <1>1, Invariance, PTL

(* With no more threads than CPUs, the thread a CPU interrupted never completes  *)
(* while the interrupt lasts, and a CPU is in an interrupt exactly while the      *)
(* controller handles one for it (interrupt-controller.cc, cpu.cc).               *)
THEOREM InterruptsSuspend == ASSUME NumThreads <= NumCpu PROVE Spec => []Suspended
<1>1. Inv => Suspended
  BY DEF Inv, Booting, Ready, Serving, Holding, Suspending, Suspended
<1> QED
  BY <1>1, Invariance, PTL

(* With no more threads than CPUs, PreEmpt brings the base class's copy of the    *)
(* running threads up to date before the callback ends (taskscheduler.cc).        *)
THEOREM CopiesAreEqual == ASSUME NumThreads <= NumCpu PROVE Spec => []CopiesAgree
<1>1. Inv => CopiesAgree
  BY InvAtMain DEF CopiesAgree, Settled
<1> QED
  BY <1>1, Invariance, PTL

(* With no more threads than CPUs, no thread waits in the run queue between two   *)
(* events, so none waits while a CPU idles (rrscheduler.cc, WakeupIdle).          *)
THEOREM NobodyWaits == ASSUME NumThreads <= NumCpu PROVE Spec => []WorkConserving
<1>1. Inv => WorkConserving
  BY InvAtMain DEF WorkConserving, Settled
<1> QED
  BY <1>1, Invariance, PTL

(* With no more threads than CPUs, a thread of the device file computes only while *)
(* it is the current thread of its CPU and no interrupt is handled there           *)
(* (taskscheduler.cc, CheckAllCPUsForPreemptions). OnlyCurrentRuns says it of the  *)
(* idle threads, too, which need not hold.                                         *)
OnlyCurrentWorks ==
  AtMain => \A w \in Workers :
    timer[w].live => cur[thrCpu[w]] = w /\ ~inInt[thrCpu[w]]

(* A thread that computes has its CPU, and no interrupt has taken it: what        *)
(* OnlyCurrentRuns promises holds for all but the idle threads.                    *)
THEOREM ThreadsKeepTheirCpu == ASSUME NumThreads <= NumCpu PROVE Spec => []OnlyCurrentWorks
<1>1. TypeInv /\ Inv => OnlyCurrentWorks
  <2> SUFFICES ASSUME TypeInv, Inv, AtMain, NEW w \in Workers, timer[w].live
               PROVE  cur[thrCpu[w]] = w /\ ~inInt[thrCpu[w]]
    BY DEF OnlyCurrentWorks
  <2>1. w \in Tids \ Cpus
    BY SchedulerAssumption DEF SchedulerAssumption, Workers, Cpus, Tids, Pids
  <2>2. Ready
    BY <2>1 DEF Inv, Booting, NoTimer
  <2>3. PICK c \in Cpus : base[c] = w
    BY <2>2 DEF Ready, Working, Resting, Leaving, Executing, AtMain
  <2>4. base = cur /\ thrCpu[w] = c /\ ~inInt[c]
    BY <2>2, <2>3 DEF Ready, Control, Settled, Holding, Suspending, AtMain
  <2> QED
    BY <2>3, <2>4
<1> QED
  BY <1>1, Invariance, PTL

(* With no more threads than CPUs, Semaphore::Down queues the thread that called it, *)
(* as sync.cc says; on more threads a tick may come in between (CallerBlocks).       *)
THEOREM CallersAreQueued == ASSUME NumThreads <= NumCpu PROVE Spec => CallerBlocks
<1> DEFINE Queued == \A s \in Sems : Len(semq'[s]) > Len(semq[s]) => semq'[s] = Append(semq[s], ctl.me)
<1>1. TypeInv /\ Inv /\ [Next]_vars => [Queued]_vars
  <2> SUFFICES ASSUME TypeInv, Inv, [Next]_vars, NEW s \in Sems, Len(semq'[s]) > Len(semq[s])
               PROVE  semq'[s] = Append(semq[s], ctl.me)
    OBVIOUS
  <2>1. semq \in [Sems -> Seq(Pids)]
    BY DEF TypeInv, TypeOK
  <2>2. semq' # semq
    <3>1. semq[s] \in Seq(Pids)
      BY <2>1
    <3>2. Len(semq[s]) \in Nat
      BY <3>1
    <3> QED
      BY <3>2
  <2>3. CASE SemDown
    <3>1. Ready
      BY <2>3 DEF Inv, Booting, SemDown, Statement, Main
    <3>2. ctl.at = "run" /\ ctl.me \in Workers /\ Settled
      BY <2>3, <3>1, WhoRequests DEF SemDown
    <3>3. cur[thrCpu[ctl.me]] = ctl.me
      BY <3>1, <3>2 DEF Ready, Control
    <3>4. semq' = [semq EXCEPT ![Arg] = Append(@, ctl.me)]
      BY <2>2, <2>3, <3>3 DEF SemDown
    <3>5. s = Arg
      <4>1. s # Arg => semq'[s] = semq[s]
        BY <2>1, <3>4
      <4>2. Len(semq[s]) \in Nat
        BY <2>1
      <4> QED
        BY <4>1, <4>2
    <3> QED
      BY <2>1, <3>4, <3>5
  <2>4. CASE SemUp
    <3>1. HasWaiter(Arg) /\ semq' = [semq EXCEPT ![Arg] = Tail(@)]
      BY <2>2, <2>4 DEF SemUp
    <3>2. Len(semq'[s]) <= Len(semq[s])
      BY <2>1, <3>1 DEF HasWaiter
    <3> QED
      BY <2>1, <2>4, <3>1, <3>2
  <2>5. CASE ~SemDown /\ ~SemUp
    <3>1. UNCHANGED semq
      BY <2>5 DEF Next, Callback, SetupIdleThreads, DispatchNow, IssueNow, ScheduleNow, ScheduleCpu, ScheduleEnd,
                  Process, Raise, Sleep, Awake, WakeupIdle, CheckCpu, CheckEnd, EndOfInterrupt,
                  Tick, DoneProcessing, Arrive, vars, schedVars
    <3> QED
      BY <2>2, <3>1
  <2> QED
    BY <2>3, <2>4, <2>5
<1> QED
  BY <1>1, Invariance, PTL DEF Spec, CallerBlocks
-----------------------------------------------------------------------------
(* The semaphores of threads that raise what they lowered *)

(* How often the first k statements of w name semaphore s with operator o, and *)
(* how often more they lower than raise it.                                     *)
Named(w, s, o, k) ==
  {i \in 1 .. k : WorkerProg[w][i].op = o /\ WorkerProg[w][i].arg = s}
Names(w, s, o, i) == IF WorkerProg[w][i].op = o /\ WorkerProg[w][i].arg = s THEN 1 ELSE 0
Owed(w, s, k) == Cardinality(Named(w, s, "down", k)) - Cardinality(Named(w, s, "up", k))

(* Every round of a thread raises a semaphore after each time it lowered it and *)
(* lowers none twice, and no interrupt service raises one: the semaphores are   *)
(* locks in the way semaphoretest.device uses its own.                           *)
Balanced ==
  /\ \A w \in Workers, s \in Sems :
       /\ \A k \in 0 .. Len(WorkerProg[w]) : Owed(w, s, k) \in {0, 1}
       /\ Owed(w, s, Len(WorkerProg[w])) = 0
  /\ \A k \in IrqKinds : \A i \in 1 .. Len(IrqProg[k]) : IrqProg[k][i].op # "up"

(* A thread in line is past its SEMDOWN. *)
PastDown ==
  \A w \in Workers :
    /\ pc[w] \in 0 .. Len(WorkerProg[w])
    /\ \A s \in Sems : Waiting(w, s) => Owed(w, s, pc[w]) = 1

(* The programs of the threads. *)
LEMMA WorkerPrograms ==
  ASSUME NEW w \in Workers
  PROVE  WorkerProg[w] \in Seq(Statements) /\ Len(WorkerProg[w]) \in Nat \ {0}
<1>1. WorkerProg[w] \in Seq(Statements) \ {<<>>}
  BY SchedulerAssumption DEF SchedulerAssumption
<1>2. \A S : \A q \in Seq(S) : Len(q) \in Nat /\ (Len(q) = 0 => q = <<>>)
  OBVIOUS
<1> QED
  BY <1>1, <1>2

(* Before the first statement nothing is named. *)
LEMMA NamedNone ==
  ASSUME NEW w, NEW s, NEW o
  PROVE  Cardinality(Named(w, s, o, 0)) = 0
<1>1. 1 .. 0 = {}
  OBVIOUS
<1>2. Named(w, s, o, 0) = {}
  BY <1>1 DEF Named
<1> QED
  BY <1>2, FS_EmptySet

(* One more statement counts if it names the semaphore. *)
LEMMA NamedNext ==
  ASSUME NEW w, NEW s, NEW o, NEW k \in Nat
  PROVE  /\ Cardinality(Named(w, s, o, k)) \in Nat
         /\ Cardinality(Named(w, s, o, k + 1)) = Cardinality(Named(w, s, o, k)) + Names(w, s, o, k + 1)
<1> DEFINE P(i) == WorkerProg[w][i].op = o /\ WorkerProg[w][i].arg = s
           A == Named(w, s, o, k)
           B == Named(w, s, o, k + 1)
<1>1. IsFiniteSet(1 .. k)
  BY FS_Interval
<1>2. A \subseteq 1 .. k /\ IsFiniteSet(A)
  BY <1>1, FS_Subset DEF Named
<1>3. Cardinality(A) \in Nat
  BY <1>2, FS_CardinalityType
<1>4. 1 .. k + 1 = (1 .. k) \cup {k + 1} /\ k + 1 \notin 1 .. k
  OBVIOUS
<1>5. B = A \cup {i \in {k + 1} : P(i)} /\ k + 1 \notin A
  BY <1>4 DEF Named
<1>6. CASE P(k + 1)
  <2>1. B = A \cup {k + 1}
    BY <1>5, <1>6
  <2>2. Cardinality(B) = Cardinality(A) + 1
    BY <2>1, <1>2, <1>5, FS_AddElement
  <2> QED
    BY <2>2, <1>3, <1>6 DEF Names
<1>7. CASE ~P(k + 1)
  <2>1. B = A
    BY <1>5, <1>7
  <2> QED
    BY <2>1, <1>3, <1>7 DEF Names
<1> QED
  BY <1>6, <1>7

(* A statement of a thread owes a place it lowers and gives back one it raises. *)
LEMMA OwedNext ==
  ASSUME Balanced, NEW w \in Workers, NEW s \in Sems, NEW k \in 0 .. Len(WorkerProg[w]),
         NEW n, n = IF k < Len(WorkerProg[w]) THEN k + 1 ELSE 1
  PROVE  /\ n \in 1 .. Len(WorkerProg[w])
         /\ Owed(w, s, k) \in {0, 1} /\ Owed(w, s, n) \in {0, 1}
         /\ LET st == WorkerProg[w][n] IN
            Owed(w, s, n) = Owed(w, s, k) + (IF st.op = "down" /\ st.arg = s THEN 1 ELSE 0)
                                          - (IF st.op = "up" /\ st.arg = s THEN 1 ELSE 0)
<1> DEFINE st == WorkerProg[w][n]
           down(i) == Cardinality(Named(w, s, "down", i))
           up(i)   == Cardinality(Named(w, s, "up", i))
           dn == IF st.op = "down" /\ st.arg = s THEN 1 ELSE 0
           un == IF st.op = "up" /\ st.arg = s THEN 1 ELSE 0
<1>1. Len(WorkerProg[w]) \in Nat \ {0}
  BY WorkerPrograms
<1>2. n \in 1 .. Len(WorkerProg[w])
  BY <1>1
<1>3. /\ Owed(w, s, k) \in {0, 1} /\ Owed(w, s, n) \in {0, 1}
      /\ Owed(w, s, Len(WorkerProg[w])) = 0
  BY <1>1, <1>2 DEF Balanced
<1>4. \A i \in Nat : down(i) \in Nat /\ up(i) \in Nat /\ Owed(w, s, i) = down(i) - up(i)
  BY NamedNext DEF Owed
<1>5. PICK i \in Nat : n = i + 1 /\ Owed(w, s, i) = Owed(w, s, k)
  <2>1. CASE k < Len(WorkerProg[w])
    BY <2>1, <1>1
  <2>2. CASE ~(k < Len(WorkerProg[w]))
    <3>1. k = Len(WorkerProg[w]) /\ n = 0 + 1
      BY <2>2, <1>1
    <3>2. Owed(w, s, 0) = 0
      BY <1>4, NamedNone
    <3> QED
      BY <3>1, <3>2, <1>3
  <2> QED
    BY <2>1, <2>2
<1>6. down(i + 1) = down(i) + dn /\ up(i + 1) = up(i) + un
  <2>1. dn = Names(w, s, "down", i + 1) /\ un = Names(w, s, "up", i + 1)
    BY <1>5 DEF Names
  <2>2. i \in Nat
    BY <1>5
  <2> HIDE DEF dn, un
  <2> QED
    BY <2>1, <2>2, NamedNext
<1>7. /\ Owed(w, s, n) = down(i + 1) - up(i + 1) /\ Owed(w, s, k) = down(i) - up(i)
      /\ down(i) \in Nat /\ up(i) \in Nat /\ dn \in Nat /\ un \in Nat
  <2>1. Owed(w, s, i + 1) = down(i + 1) - up(i + 1) /\ Owed(w, s, i) = down(i) - up(i)
        /\ down(i) \in Nat /\ up(i) \in Nat
    <3> i + 1 \in Nat
      BY <1>5
    <3> HIDE DEF down, up
    <3> QED
      BY <1>4
  <2>2. dn \in Nat /\ un \in Nat
    OBVIOUS
  <2> QED
    BY <1>5, <2>1, <2>2
<1>8. Owed(w, s, n) = Owed(w, s, k) + dn - un
  <2> HIDE DEF down, up, dn, un
  <2> QED
    BY <1>6, <1>7
<1> QED
  BY <1>2, <1>3, <1>8

(* Who holds a semaphore, in terms of what is owed. *)
LEMMA HoldersOwe ==
  ASSUME TypeInv, NEW s
  PROVE  Holders(s) = {w \in Workers : Owed(w, s, pc[w]) > 0 /\ ~Waiting(w, s)}
<1>1. \A w \in Workers : pc[w] \in Nat
  BY Apart DEF TypeInv, TypeOK
<1>2. \A w, o : Taken(w, s, o) = Cardinality(Named(w, s, o, pc[w]))
  BY DEF Taken, Named
<1>3. \A w \in Workers : Taken(w, s, "down") \in Nat /\ Taken(w, s, "up") \in Nat
  BY <1>1, <1>2, NamedNext
<1>4. \A w \in Workers : Taken(w, s, "down") > Taken(w, s, "up") <=> Owed(w, s, pc[w]) > 0
  BY <1>2, <1>3 DEF Owed
<1> QED
  BY <1>4 DEF Holders

(* A thread that runs is in no line, and a thread in a line is there once. *)
LEMMA LinesApart ==
  ASSUME TypeInv, Ready
  PROVE  /\ ctl.at = "run" /\ ctl.me \in Workers => \A s \in Sems : ~Waiting(ctl.me, s)
         /\ \A w \in Workers, s \in Sems : \A i, j \in DOMAIN semq[s] :
              semq[s][i] = w /\ semq[s][j] = w => i = j
<1>1. ASSUME NEW w \in Workers
      PROVE  /\ IsFiniteSet(InLines(w)) /\ Cardinality(InLines(w)) \in {0, 1}
             /\ (\E c \in Cpus : cur[c] = w) => Cardinality(InLines(w)) = 0
  <2> DEFINE a == Count(w, runq)
             b == Cardinality(On(cur, w))
             e == Cardinality({w} \cap blocked)
             f == Cardinality(InLines(w))
  <2>1. /\ a \in Nat /\ b \in Nat /\ f \in Nat /\ IsFiniteSet(On(cur, w))
        /\ e \in {0, 1} /\ a + b + e + f = 1 /\ IsFiniteSet(InLines(w))
    BY PlaceTypes DEF TypeInv, Ready, Homes
  <2>2. (\E c \in Cpus : cur[c] = w) => b # 0
    <3>1. (\E c \in Cpus : cur[c] = w) => On(cur, w) # {}
      BY DEF On
    <3> QED
      BY <2>1, <3>1, FS_EmptySet
  <2> HIDE DEF a, b, e, f
  <2>3. f \in {0, 1} /\ (b # 0 => f = 0)
    BY <2>1
  <2> QED
    BY <2>1, <2>2, <2>3 DEF f
<1>2. ASSUME ctl.at = "run", ctl.me \in Workers, NEW s \in Sems PROVE ~Waiting(ctl.me, s)
  <2>1. \E c \in Cpus : cur[c] = ctl.me
    BY <1>2, WhereRuns
  <2>2. InLines(ctl.me) = {}
    BY <1>1, <1>2, <2>1, FS_EmptySet
  <2> QED
    BY <1>2, <2>2, LinesElements DEF Waiting
<1>3. ASSUME NEW w \in Workers, NEW s \in Sems, NEW i \in DOMAIN semq[s], NEW j \in DOMAIN semq[s],
             semq[s][i] = w, semq[s][j] = w
      PROVE  i = j
  <2>1. PICK x \in InLines(w), y \in InLines(w) : x = <<s, i>> /\ y = <<s, j>>
    BY <1>3, LinesElements
  <2>2. Cardinality(InLines(w)) = 1
    BY <1>1, <2>1, FS_EmptySet
  <2>3. IsFiniteSet(InLines(w) \ {x}) /\ Cardinality(InLines(w) \ {x}) = 0
    <3>1. IsFiniteSet(InLines(w))
      BY <1>1
    <3>2. /\ IsFiniteSet(InLines(w) \ {x})
          /\ Cardinality(InLines(w) \ {x}) = Cardinality(InLines(w)) - 1
      BY <2>1, <3>1, FS_RemoveElement
    <3> QED
      BY <2>2, <3>2
  <2>4. InLines(w) \ {x} = {}
    BY <2>3, FS_EmptySet
  <2>5. x = y
    BY <2>1, <2>4
  <2> QED
    BY <2>1, <2>5
<1> QED
  BY <1>2, <1>3

(* What the statement of a thread does to what threads owe. *)
LEMMA OwedStatement ==
  ASSUME TypeInv, Balanced, PastDown, NEW o, Statement(o), ctl.me \in Workers
  PROVE  /\ \A w \in Workers \ {ctl.me} : pc'[w] = pc[w]
         /\ pc'[ctl.me] \in 0 .. Len(WorkerProg[ctl.me])
         /\ \A s \in Sems :
              /\ Owed(ctl.me, s, pc[ctl.me]) \in {0, 1} /\ Owed(ctl.me, s, pc'[ctl.me]) \in {0, 1}
              /\ Owed(ctl.me, s, pc'[ctl.me]) = Owed(ctl.me, s, pc[ctl.me])
                   + (IF o = "down" /\ s = Arg THEN 1 ELSE 0) - (IF o = "up" /\ s = Arg THEN 1 ELSE 0)
<1> DEFINE me == ctl.me
           n == NextPc(me)
<1>1. Program(me) = WorkerProg[me] /\ me \in Tids /\ pc \in [Tids -> Nat]
  <2>1. me > 0 /\ me \in Int
    BY SchedulerAssumption DEF SchedulerAssumption, Workers
  <2>2. ~(me < 0)
    BY <2>1
  <2> QED
    BY <2>2, Apart DEF Program, TypeInv, TypeOK
<1>2. pc' = [pc EXCEPT ![me] = n] /\ WorkerProg[me][n].op = o /\ Arg = WorkerProg[me][n].arg
  BY <1>1 DEF Statement, Arg
<1>3. n = IF pc[me] < Len(WorkerProg[me]) THEN pc[me] + 1 ELSE 1
  BY <1>1 DEF NextPc
<1>4. pc[me] \in 0 .. Len(WorkerProg[me])
  BY DEF PastDown
<1>5. pc'[me] = n /\ \A w \in Workers \ {me} : pc'[w] = pc[w]
  <2> HIDE DEF n
  <2> QED
    BY <1>1, <1>2, Apart
<1>6. n \in 1 .. Len(WorkerProg[me])
  BY <1>3, <1>4, WorkerPrograms
<1>7. ASSUME NEW s \in Sems
      PROVE  /\ Owed(me, s, pc[me]) \in {0, 1} /\ Owed(me, s, n) \in {0, 1}
             /\ Owed(me, s, n) = Owed(me, s, pc[me])
                  + (IF o = "down" /\ s = Arg THEN 1 ELSE 0) - (IF o = "up" /\ s = Arg THEN 1 ELSE 0)
  <2> HIDE DEF n
  <2>1. LET st == WorkerProg[me][n] IN
        /\ Owed(me, s, pc[me]) \in {0, 1} /\ Owed(me, s, n) \in {0, 1}
        /\ Owed(me, s, n) = Owed(me, s, pc[me]) + (IF st.op = "down" /\ st.arg = s THEN 1 ELSE 0)
                                          - (IF st.op = "up" /\ st.arg = s THEN 1 ELSE 0)
    <3>1. PICK k \in 0 .. Len(WorkerProg[me]) : k = pc[me]
      BY <1>4
    <3>2. n = IF k < Len(WorkerProg[me]) THEN k + 1 ELSE 1
      BY <1>3, <3>1
    <3>3. LET st == WorkerProg[me][n] IN
          /\ Owed(me, s, k) \in {0, 1} /\ Owed(me, s, n) \in {0, 1}
          /\ Owed(me, s, n) = Owed(me, s, k) + (IF st.op = "down" /\ st.arg = s THEN 1 ELSE 0)
                                          - (IF st.op = "up" /\ st.arg = s THEN 1 ELSE 0)
      BY <3>2, OwedNext
    <3> QED
      BY <3>1, <3>3
  <2> QED
    BY <2>1, <1>2
<1> QED
  BY <1>4, <1>5, <1>6, <1>7, WorkerPrograms

(* No other step changes a semaphore or what a thread owes. *)
LEMMA OwedSame ==
  ASSUME TypeInv, Balanced, PastDown, Next, ~SemDown, ~SemUp
  PROVE  /\ UNCHANGED <<semval, semq>>
         /\ \A w \in Workers :
              /\ pc'[w] \in 0 .. Len(WorkerProg[w])
              /\ \A s \in Sems : Owed(w, s, pc'[w]) = Owed(w, s, pc[w])
<1>1. UNCHANGED <<semval, semq>>
  BY DEF Next, Callback, SetupIdleThreads, DispatchNow, IssueNow, ScheduleNow, ScheduleCpu, ScheduleEnd,
         Process, Raise, Sleep, Awake, WakeupIdle, CheckCpu, CheckEnd, EndOfInterrupt,
         Tick, DoneProcessing, Arrive, schedVars
<1>2. ASSUME NEW w \in Workers, pc'[w] = pc[w]
      PROVE  pc'[w] \in 0 .. Len(WorkerProg[w]) /\ \A s \in Sems : Owed(w, s, pc'[w]) = Owed(w, s, pc[w])
  BY <1>2 DEF PastDown
<1>3. pc \in [Tids -> Nat] /\ Workers \subseteq Tids
  BY Apart DEF TypeInv, TypeOK
<1>4. ASSUME NEW o \in {"process", "raise", "sleep", "awake"}, Statement(o), NEW w \in Workers
      PROVE  pc'[w] \in 0 .. Len(WorkerProg[w]) /\ \A s \in Sems : Owed(w, s, pc'[w]) = Owed(w, s, pc[w])
  <2>1. CASE w = ctl.me
    <3>1. /\ pc'[w] \in 0 .. Len(WorkerProg[w])
          /\ \A s \in Sems : /\ Owed(w, s, pc[w]) \in {0, 1}
                             /\ Owed(w, s, pc'[w]) = Owed(w, s, pc[w]) + 0 - 0
      BY <1>4, <2>1, OwedStatement
    <3> QED
      BY <3>1
  <2>2. CASE w # ctl.me
    <3>1. pc'[w] = pc[w]
      BY <1>3, <1>4, <2>2 DEF Statement
    <3> QED
      BY <3>1, <1>2
  <2> QED
    BY <2>1, <2>2
<1>5. ASSUME NEW c \in Cpus, pc' = [pc EXCEPT ![Irq(c)] = 0] \/ pc' = pc, NEW w \in Workers
      PROVE  pc'[w] = pc[w]
  BY <1>3, <1>5, Apart
<1>6. CASE IssueNow
  <2>1. Head(nowq) \in Events /\ Head(nowq).fn = "issue"
    BY <1>6 DEF IssueNow, Now, TypeInv, TypeOK
  <2>2. Head(nowq).arg \in Cpus
    BY <2>1 DEF Events
  <2>3. PICK c \in Cpus : c = Head(nowq).arg
    BY <2>2
  <2>4. pc' = [pc EXCEPT ![Irq(c)] = 0] \/ pc' = pc
    BY <1>6, <2>3 DEF IssueNow, Issue, Interrupt
  <2> QED
    BY <1>1, <1>2, <1>5, <2>4
<1>7. ASSUME NEW c \in IrqCpus, NEW k \in IrqKinds, Arrive(c, k)
      PROVE  \A w \in Workers : pc'[w] = pc[w]
  <2>1. c \in Cpus
    BY SchedulerAssumption DEF SchedulerAssumption
  <2>2. pc' = [pc EXCEPT ![Irq(c)] = 0] \/ pc' = pc
    BY <1>7 DEF Arrive, Issue, Interrupt
  <2> QED
    BY <1>5, <2>1, <2>2
<1>8. CASE EndOfInterrupt
  <2>1. ctl.me \in Tids /\ ctl.me < 0
    BY <1>8 DEF EndOfInterrupt, AtEnd, TypeInv, Programmed
  <2>2. PICK c \in Cpus : c = 0 - ctl.me
    BY <2>1, Identities
  <2>3. pc' = [pc EXCEPT ![Irq(c)] = 0] \/ pc' = pc
    BY <1>8, <2>2 DEF EndOfInterrupt, Interrupt
  <2> QED
    BY <1>1, <1>2, <1>5, <2>3
<1>9. CASE SetupIdleThreads
  <2>1. pc' = [t \in Tids |-> IF t \in Cpus THEN 1 ELSE pc[t]]
    BY <1>9 DEF SetupIdleThreads
  <2>2. \A w \in Workers : pc'[w] = pc[w]
    BY <1>3, <2>1, Apart
  <2> QED
    BY <1>1, <1>2, <2>2
<1>10. CASE \/ DispatchNow \/ ScheduleNow \/ ScheduleCpu \/ ScheduleEnd
            \/ WakeupIdle \/ CheckCpu \/ CheckEnd \/ Tick
            \/ \E t \in Tids : DoneProcessing(t)
  <2>1. pc' = pc
    BY <1>10 DEF DispatchNow, ScheduleNow, ScheduleCpu, ScheduleEnd, WakeupIdle, CheckCpu, CheckEnd,
                 Tick, DoneProcessing
  <2> QED
    BY <1>1, <1>2, <2>1
<1>11. CASE Process \/ Raise \/ Sleep \/ Awake
  <2>1. \E o \in {"process", "raise", "sleep", "awake"} : Statement(o)
    BY <1>11 DEF Process, Raise, Sleep, Awake
  <2> QED
    BY <1>1, <1>4, <2>1
<1> QED
  BY <1>1, <1>2, <1>6, <1>7, <1>8, <1>9, <1>10, <1>11 DEF Next, Callback

(* The same after a step. *)
LEMMA HoldersNext ==
  ASSUME NEW s, \A w \in Workers : pc'[w] \in Nat
  PROVE  Holders(s)' = {w \in Workers : Owed(w, s, pc'[w]) > 0 /\ ~Waiting(w, s)'}
<1>1. \A w, o : Taken(w, s, o)' = Cardinality(Named(w, s, o, pc'[w]))
  BY DEF Taken, Named
<1>2. \A w \in Workers : Cardinality(Named(w, s, "down", pc'[w])) \in Nat
                      /\ Cardinality(Named(w, s, "up", pc'[w])) \in Nat
  BY NamedNext
<1>3. \A w \in Workers : Cardinality(Named(w, s, "down", pc'[w])) > Cardinality(Named(w, s, "up", pc'[w]))
                           <=> Owed(w, s, pc'[w]) > 0
  BY <1>2 DEF Owed
<1>4. Holders(s)' = {w \in Workers : Taken(w, s, "down")' > Taken(w, s, "up")' /\ ~Waiting(w, s)'}
  BY DEF Holders
<1> QED
  BY <1>1, <1>3, <1>4

(* Who stands in a line that grows at its end or shrinks at its front. *)
LEMMA LineAppended ==
  ASSUME NEW S, NEW q \in Seq(S), NEW u, NEW v
  PROVE  (\E i \in DOMAIN Append(q, u) : Append(q, u)[i] = v) <=> (\E i \in DOMAIN q : q[i] = v) \/ v = u
<1> DEFINE n == Len(q)
<1>1. /\ n \in Nat /\ DOMAIN q = 1 .. n
      /\ DOMAIN Append(q, u) = 1 .. n + 1
      /\ Append(q, u)[n + 1] = u /\ \A i \in 1 .. n : Append(q, u)[i] = q[i]
  OBVIOUS
<1>2. n + 1 \in 1 .. n + 1 /\ 1 .. n + 1 = (1 .. n) \cup {n + 1}
  BY <1>1
<1> HIDE DEF n
<1> QED
  BY <1>1, <1>2

LEMMA LineShifted ==
  ASSUME NEW S, NEW q \in Seq(S), q # <<>>, NEW v,
         \A i, j \in DOMAIN q : q[i] = q[j] => i = j
  PROVE  (\E i \in DOMAIN Tail(q) : Tail(q)[i] = v) <=> (\E i \in DOMAIN q : q[i] = v) /\ v # Head(q)
<1> DEFINE n == Len(q)
<1>1. /\ n \in Nat /\ n > 0 /\ DOMAIN q = 1 .. n /\ Head(q) = q[1]
      /\ DOMAIN Tail(q) = 1 .. n - 1 /\ \A i \in 1 .. n - 1 : Tail(q)[i] = q[i + 1]
  OBVIOUS
<1>2. ASSUME NEW i \in DOMAIN Tail(q) PROVE i + 1 \in DOMAIN q /\ q[i + 1] # Head(q)
  BY <1>1
<1>3. ASSUME NEW i \in DOMAIN q, q[i] # Head(q) PROVE i - 1 \in DOMAIN Tail(q) /\ Tail(q)[i - 1] = q[i]
  BY <1>1, <1>3
<1> HIDE DEF n
<1> QED
  BY <1>1, <1>2, <1>3

(* What the steps of the threads do to a semaphore. *)
Enters(w, s) ==
  /\ w \notin Holders(s) /\ ~Waiting(w, s) /\ semval[s] > 0
  /\ semval' = [semval EXCEPT ![s] = @ - 1]
  /\ Holders(s)' = Holders(s) \cup {w}
  /\ UNCHANGED semq

Queues(w, s) ==
  /\ w \notin Holders(s) /\ ~Waiting(w, s) /\ semval[s] = 0
  /\ semq' = [semq EXCEPT ![s] = Append(@, w)]
  /\ Holders(s)' = Holders(s)
  /\ UNCHANGED semval

Leaves(w, s) ==
  /\ w \in Holders(s)
  /\ \/ /\ semq[s] = <<>>
        /\ semval' = [semval EXCEPT ![s] = @ + 1]
        /\ Holders(s)' = Holders(s) \ {w}
        /\ UNCHANGED semq
     \/ /\ semq[s] # <<>>
        /\ semq' = [semq EXCEPT ![s] = Tail(@)]
        /\ Holders(s)' = (Holders(s) \ {w}) \cup {Head(semq[s])}
        /\ Head(semq[s]) \in Workers \ Holders(s)
        /\ UNCHANGED semval

Others(s) == \A r \in Sems \ {s} : Holders(r)' = Holders(r)

(* A SEMDOWN enters the semaphore or queues for it. *)
LEMMA DownStep ==
  ASSUME Balanced, TypeInv, Ready, PastDown, SemDown
  PROVE  /\ ctl.me \in Workers /\ Arg \in Sems
         /\ Enters(ctl.me, Arg) \/ Queues(ctl.me, Arg)
         /\ Others(Arg)
         /\ PastDown'
<1>1. PICK s, w : s = Arg /\ w = ctl.me
  OBVIOUS
<1>2. w \in Workers /\ s \in Sems /\ ctl.at = "run" /\ Statement("down")
  BY <1>1, WhoRequests, StatementType DEF SemDown
<1>3. /\ \A v \in Workers \ {w} : pc'[v] = pc[v]
      /\ pc'[w] \in 0 .. Len(WorkerProg[w])
      /\ Owed(w, s, pc[w]) = 0 /\ Owed(w, s, pc'[w]) = 1
      /\ \A r \in Sems \ {s} : Owed(w, r, pc'[w]) = Owed(w, r, pc[w])
  <2>1. /\ \A v \in Workers \ {w} : pc'[v] = pc[v]
        /\ pc'[w] \in 0 .. Len(WorkerProg[w])
        /\ \A r \in Sems :
             /\ Owed(w, r, pc[w]) \in {0, 1} /\ Owed(w, r, pc'[w]) \in {0, 1}
             /\ Owed(w, r, pc'[w]) = Owed(w, r, pc[w]) + (IF r = s THEN 1 ELSE 0) - 0
    BY <1>1, <1>2, OwedStatement
  <2> QED
    BY <1>2, <2>1
<1>4. \A r \in Sems : ~Waiting(w, r)
  BY <1>1, <1>2, LinesApart
<1>5. PICK c : c = thrCpu[w]
  OBVIOUS
<1>6. c \in Cpus /\ cur[c] = w
  BY <1>1, <1>2, <1>5, WhereRuns
<1>7. \A v \in Workers : pc[v] \in 0 .. Len(WorkerProg[v]) /\ pc'[v] \in 0 .. Len(WorkerProg[v]) /\ pc'[v] \in Nat
  BY <1>2, <1>3, WorkerPrograms DEF PastDown
<1>8. \A r : /\ Holders(r) = {v \in Workers : Owed(v, r, pc[v]) > 0 /\ ~Waiting(v, r)}
             /\ Holders(r)' = {v \in Workers : Owed(v, r, pc'[v]) > 0 /\ ~Waiting(v, r)'}
  BY <1>7, HoldersOwe, HoldersNext
<1>9. semval \in [Sems -> Nat] /\ semq \in [Sems -> Seq(Pids)]
  BY DEF TypeInv, TypeOK
<1>10. ASSUME \A v : \A r \in Sems : Waiting(v, r)' => Waiting(v, r) \/ (v = w /\ r = s)
       PROVE  PastDown'
  <2>1. ASSUME NEW v \in Workers, NEW r \in Sems, Waiting(v, r)' PROVE Owed(v, r, pc'[v]) = 1
    <3>1. CASE v = w
      BY <3>1, <2>1, <1>10, <1>3, <1>4
    <3>2. CASE v # w
      BY <3>2, <2>1, <1>10, <1>3 DEF PastDown
    <3> QED
      BY <3>1, <3>2
  <2> QED
    BY <2>1, <1>7 DEF PastDown
<1>11. CASE Available(s)
  <2>1. semval' = [semval EXCEPT ![s] = @ - 1] /\ semq' = semq
    BY <1>1, <1>11 DEF SemDown
  <2>2. \A v, r : Waiting(v, r)' <=> Waiting(v, r)
    BY <2>1 DEF Waiting
  <2>3. Holders(s)' = Holders(s) \cup {w} /\ w \notin Holders(s)
    BY <1>2, <1>3, <1>4, <1>8, <2>2
  <2>4. \A r \in Sems \ {s} : Holders(r)' = Holders(r)
    BY <1>3, <1>8, <2>2
  <2>5. Enters(w, s)
    BY <1>2, <1>4, <1>11, <2>1, <2>3 DEF Enters, Available
  <2> QED
    BY <1>1, <1>2, <1>10, <2>2, <2>4, <2>5 DEF Others
<1>12. CASE ~Available(s)
  <2>1. semval' = semval /\ semq' = [semq EXCEPT ![s] = Append(@, w)]
    BY <1>1, <1>5, <1>6, <1>12 DEF SemDown
  <2>2. \A r \in Sems \ {s} : semq'[r] = semq[r]
    BY <1>9, <2>1
  <2>3. \A v : Waiting(v, s)' <=> Waiting(v, s) \/ v = w
    <3>1. semq'[s] = Append(semq[s], w) /\ semq[s] \in Seq(Pids)
      BY <1>2, <1>9, <2>1
    <3> QED
      BY <3>1, LineAppended DEF Waiting
  <2>4. \A v : \A r \in Sems \ {s} : Waiting(v, r)' <=> Waiting(v, r)
    BY <2>2 DEF Waiting
  <2>5. Holders(s)' = Holders(s) /\ w \notin Holders(s)
    <3>1. \A v \in Workers : Owed(v, s, pc'[v]) > 0 /\ ~Waiting(v, s)'
                               <=> Owed(v, s, pc[v]) > 0 /\ ~Waiting(v, s)
      BY <1>3, <1>4, <2>3
    <3>2. w \notin Holders(s)
      BY <1>3, <1>8
    <3>3. Holders(s)' = Holders(s)
      BY <1>8, <3>1
    <3> QED
      BY <3>2, <3>3
  <2>6. \A r \in Sems \ {s} : Holders(r)' = Holders(r)
    BY <1>3, <1>8, <2>4
  <2>7. semval[s] = 0
    BY <1>2, <1>9, <1>12 DEF Available
  <2>8. Queues(w, s)
    BY <1>2, <1>4, <2>1, <2>5, <2>7 DEF Queues
  <2> QED
    BY <1>1, <1>2, <1>10, <2>3, <2>4, <2>6, <2>8 DEF Others
<1> QED
  BY <1>11, <1>12

(* A SEMUP gives back a place that the thread took, to the first in line if any. *)
LEMMA UpStep ==
  ASSUME AssertsEnabled, Balanced, TypeInv, Ready, PastDown, SemUp
  PROVE  /\ ctl.me \in Workers /\ Arg \in Sems
         /\ Leaves(ctl.me, Arg) /\ Others(Arg)
         /\ PastDown'
<1>1. PICK s, w : s = Arg /\ w = ctl.me
  OBVIOUS
<1>2. w \in Workers
  <2>1. w \in Tids /\ w \notin Cpus /\ ctl.at = "run" /\ Statement("up")
    BY <1>1, WhoRequests DEF SemUp
  <2>2. ASSUME w < 0 PROVE FALSE
    <3>1. Program(w) = IrqProg[handled[0 - w]] /\ handled[0 - w] \in IrqKinds
      BY <1>1, <2>1, <2>2, ProgramType
    <3>2. Program(w) \in Seq([op : {"process"}] \cup Statements) /\ Program(w) # <<>> /\ pc[w] \in Nat
      BY <1>1, <2>1, ProgramType DEF TypeInv, TypeOK
    <3>3. NextPc(w) \in 1 .. Len(Program(w))
      BY <3>2 DEF NextPc
    <3>4. Program(w)[NextPc(w)].op # "up"
      BY <3>1, <3>3 DEF Balanced
    <3> QED
      BY <1>1, <2>1, <3>4 DEF Statement
  <2>3. w \notin Pids => w < 0
    BY <2>1, Apart
  <2> QED
    BY <2>1, <2>2, <2>3, Apart
<1>3. s \in Sems /\ ctl.at = "run" /\ Statement("up")
  BY <1>1, StatementType DEF SemUp, Statement
<1>4. /\ \A v \in Workers \ {w} : pc'[v] = pc[v]
      /\ pc'[w] \in 0 .. Len(WorkerProg[w])
      /\ Owed(w, s, pc[w]) = 1 /\ Owed(w, s, pc'[w]) = 0
      /\ \A r \in Sems \ {s} : Owed(w, r, pc'[w]) = Owed(w, r, pc[w])
  <2>1. /\ \A v \in Workers \ {w} : pc'[v] = pc[v]
        /\ pc'[w] \in 0 .. Len(WorkerProg[w])
        /\ \A r \in Sems :
             /\ Owed(w, r, pc[w]) \in {0, 1} /\ Owed(w, r, pc'[w]) \in {0, 1}
             /\ Owed(w, r, pc'[w]) = Owed(w, r, pc[w]) + 0 - (IF r = s THEN 1 ELSE 0)
    BY <1>1, <1>2, <1>3, OwedStatement
  <2> QED
    BY <1>3, <2>1
<1>5. \A r \in Sems : ~Waiting(w, r)
  BY <1>1, <1>2, <1>3, LinesApart
<1>7. \A v \in Workers : pc[v] \in 0 .. Len(WorkerProg[v]) /\ pc'[v] \in 0 .. Len(WorkerProg[v]) /\ pc'[v] \in Nat
  BY <1>2, <1>4, WorkerPrograms DEF PastDown
<1>8. \A r : /\ Holders(r) = {v \in Workers : Owed(v, r, pc[v]) > 0 /\ ~Waiting(v, r)}
             /\ Holders(r)' = {v \in Workers : Owed(v, r, pc'[v]) > 0 /\ ~Waiting(v, r)'}
  BY <1>7, HoldersOwe, HoldersNext
<1>9. semval \in [Sems -> Nat] /\ semq \in [Sems -> Seq(Workers)]
  <2>1. semval \in [Sems -> Nat] /\ semq \in [Sems -> Seq(Pids)]
    BY DEF TypeInv, TypeOK
  <2>2. \A r \in Sems : semq[r] \in Seq(Workers)
    BY DEF Ready, Homes
  <2> QED
    BY <2>1, <2>2
<1>10. ASSUME \A v : \A r \in Sems : Waiting(v, r)' => Waiting(v, r)
       PROVE  PastDown'
  <2>1. ASSUME NEW v \in Workers, NEW r \in Sems, Waiting(v, r)' PROVE Owed(v, r, pc'[v]) = 1
    <3>1. v # w
      BY <2>1, <1>10, <1>5
    <3> QED
      BY <3>1, <2>1, <1>10, <1>4 DEF PastDown
  <2> QED
    BY <2>1, <1>7 DEF PastDown
<1>11. CASE ~HasWaiter(s)
  <2>1. semval' = [semval EXCEPT ![s] = @ + 1] /\ semq' = semq /\ semq[s] = <<>>
    BY <1>1, <1>11 DEF SemUp, HasWaiter
  <2>2. \A v, r : Waiting(v, r)' <=> Waiting(v, r)
    BY <2>1 DEF Waiting
  <2>3. Holders(s)' = Holders(s) \ {w} /\ w \in Holders(s)
    <3>1. \A v \in Workers : Owed(v, s, pc'[v]) > 0 /\ ~Waiting(v, s)'
                               <=> Owed(v, s, pc[v]) > 0 /\ ~Waiting(v, s) /\ v # w
      BY <1>4, <2>2
    <3> QED
      BY <1>2, <1>3, <1>4, <1>5, <1>8, <3>1
  <2>4. \A r \in Sems \ {s} : Holders(r)' = Holders(r)
    BY <1>4, <1>8, <2>2
  <2>5. Leaves(w, s)
    BY <2>1, <2>3 DEF Leaves
  <2> QED
    BY <1>1, <1>2, <1>3, <1>10, <2>2, <2>4, <2>5 DEF Others
<1>12. CASE HasWaiter(s)
  <2>1. semval' = [semval EXCEPT ![s] = @] /\ semq' = [semq EXCEPT ![s] = Tail(@)] /\ semq[s] # <<>>
    BY <1>1, <1>12 DEF SemUp, HasWaiter, PassedOn
  <2>2. semval' = semval
    BY <1>9, <2>1
  <2>3. PICK x : x = Head(semq[s])
    OBVIOUS
  <2>4. /\ semq[s] \in Seq(Workers) /\ semq'[s] = Tail(semq[s])
        /\ \A r \in Sems \ {s} : semq'[r] = semq[r]
    BY <1>3, <1>9, <2>1
  <2>5. x \in Workers /\ Waiting(x, s)
    <3>1. \A S : \A q \in Seq(S) : q # <<>> => 1 \in DOMAIN q /\ Head(q) = q[1] /\ Head(q) \in S
      OBVIOUS
    <3> QED
      BY <2>1, <2>3, <2>4, <3>1 DEF Waiting
  <2>6. \A v : Waiting(v, s)' <=> Waiting(v, s) /\ v # x
    <3>1. \A i, j \in DOMAIN semq[s] : semq[s][i] = semq[s][j] => i = j
      <4>1. \A i \in DOMAIN semq[s] : semq[s][i] \in Workers
        BY <2>4
      <4> QED
        BY <1>3, <4>1, LinesApart
    <3>2. \A v : (\E i \in DOMAIN Tail(semq[s]) : Tail(semq[s])[i] = v)
                   <=> (\E i \in DOMAIN semq[s] : semq[s][i] = v) /\ v # Head(semq[s])
      BY <2>1, <2>4, <3>1, LineShifted
    <3> QED
      BY <2>3, <2>4, <3>2 DEF Waiting
  <2>7. \A v : \A r \in Sems \ {s} : Waiting(v, r)' <=> Waiting(v, r)
    BY <2>4 DEF Waiting
  <2>8. Owed(x, s, pc[x]) = 1 /\ x # w
    BY <1>3, <1>5, <2>5 DEF PastDown
  <2>9. Holders(s)' = (Holders(s) \ {w}) \cup {x} /\ w \in Holders(s) /\ x \notin Holders(s)
    <3>1. \A v \in Workers : Owed(v, s, pc'[v]) > 0 /\ ~Waiting(v, s)'
                               <=> (Owed(v, s, pc[v]) > 0 /\ ~Waiting(v, s) /\ v # w) \/ v = x
      BY <1>4, <2>6, <2>8
    <3> QED
      BY <1>2, <1>3, <1>4, <1>5, <1>8, <2>5, <3>1
  <2>10. \A r \in Sems \ {s} : Holders(r)' = Holders(r)
    BY <1>4, <1>8, <2>7
  <2>11. Leaves(w, s)
    BY <2>1, <2>2, <2>3, <2>5, <2>9 DEF Leaves
  <2> QED
    BY <1>1, <1>2, <1>3, <1>10, <2>6, <2>7, <2>10, <2>11 DEF Others
<1> QED
  BY <1>11, <1>12

(* Every step of the execution core enters, queues, leaves, or is none of the *)
(* semaphores' business.                                                        *)
LEMMA SemaphoreStep ==
  ASSUME AssertsEnabled, Balanced, TypeInv, Inv, PastDown, [Next]_vars
  PROVE  /\ PastDown'
         /\ \/ UNCHANGED <<semval, semq>> /\ \A s \in Sems : Holders(s)' = Holders(s)
            \/ \E w \in Workers, s \in Sems :
                 (Enters(w, s) \/ Queues(w, s) \/ Leaves(w, s)) /\ Others(s)
<1>1. SemDown \/ SemUp => Ready
  BY DEF Inv, Booting, SemDown, SemUp, Statement, Main
<1>2. CASE SemDown
  BY <1>1, <1>2, DownStep
<1>3. CASE SemUp
  BY <1>1, <1>3, UpStep
<1>4. ASSUME UNCHANGED <<semval, semq>>,
             \A w \in Workers : /\ pc'[w] \in 0 .. Len(WorkerProg[w])
                                /\ \A s \in Sems : Owed(w, s, pc'[w]) = Owed(w, s, pc[w])
      PROVE  PastDown' /\ \A s \in Sems : Holders(s)' = Holders(s)
  <2>1. \A v, s : Waiting(v, s)' <=> Waiting(v, s)
    BY <1>4 DEF Waiting
  <2>2. PastDown'
    BY <1>4, <2>1 DEF PastDown
  <2>3. \A w \in Workers : pc'[w] \in Nat
    BY <1>4, WorkerPrograms
  <2>4. \A s \in Sems : /\ Holders(s) = {v \in Workers : Owed(v, s, pc[v]) > 0 /\ ~Waiting(v, s)}
                        /\ Holders(s)' = {v \in Workers : Owed(v, s, pc'[v]) > 0 /\ ~Waiting(v, s)'}
    BY <2>3, HoldersOwe, HoldersNext
  <2>5. ASSUME NEW s \in Sems PROVE Holders(s)' = Holders(s)
    <3>1. \A v \in Workers : Owed(v, s, pc'[v]) > 0 /\ ~Waiting(v, s)'
                               <=> Owed(v, s, pc[v]) > 0 /\ ~Waiting(v, s)
      BY <1>4, <2>1
    <3> QED
      BY <2>4, <3>1
  <2> QED
    BY <2>2, <2>5
<1>5. CASE Next /\ ~SemDown /\ ~SemUp
  BY <1>4, <1>5, OwedSame
<1>6. CASE UNCHANGED vars
  BY <1>4, <1>6 DEF PastDown, vars, schedVars
<1> QED
  BY <1>2, <1>3, <1>4, <1>5, <1>6

(* At the start no thread is past a SEMDOWN. *)
LEMMA PastDownInit == Init => PastDown /\ \A s \in Sems : Holders(s) = {}
<1> SUFFICES ASSUME Init PROVE PastDown /\ \A s \in Sems : Holders(s) = {}
  OBVIOUS
<1>1. /\ \A w \in Workers : pc[w] = 0
      /\ \A w, s : ~(s \in Sems /\ Waiting(w, s))
  BY Apart DEF Init, Waiting
<1>2. PastDown
  BY <1>1, WorkerPrograms DEF PastDown
<1>3. \A w, s : Owed(w, s, 0) = 0
  BY NamedNone DEF Owed
<1>4. \A s : Holders(s) = {w \in Workers : Owed(w, s, pc[w]) > 0 /\ ~Waiting(w, s)}
  BY TypeInvInit, HoldersOwe
<1> QED
  BY <1>1, <1>2, <1>3, <1>4

(* What is invariant of locks. *)
LEMMA LocksInvariance ==
  ASSUME NumThreads <= NumCpu, AssertsEnabled, Balanced
  PROVE  Spec => [](TypeInv /\ Inv /\ PastDown)
<1>1. Init => PastDown
  BY PastDownInit
<1>2. TypeInv /\ Inv /\ PastDown /\ [Next]_vars => PastDown'
  BY SemaphoreStep
<1> QED
  BY <1>1, <1>2, Invariance, PTL DEF Spec

(* With no more threads than CPUs, threads that use the semaphores as locks, and  *)
(* a build that evaluates its assertions, the semaphores of sync.cc are FIFO       *)
(* counting semaphores: the caller of Down enters or stands in line itself, and    *)
(* Up hands its place to the first in line.                                         *)
THEOREM LocksAreSemaphores ==
  ASSUME NumThreads <= NumCpu, AssertsEnabled, Balanced
  PROVE  Spec => ImplementsSemaphore
<1> DEFINE holding == [s \in Sems |-> Holders(s)]
<1>1. Init => Semaphore!Init
  BY PastDownInit DEF Semaphore!Init, Init
<1>2. TypeInv /\ Inv /\ PastDown /\ [Next]_vars => [Semaphore!Next]_<<semval, semq, holding>>
  <2> SUFFICES ASSUME TypeInv, Inv, PastDown, [Next]_vars
               PROVE  [Semaphore!Next]_<<semval, semq, holding>>
    OBVIOUS
  <2>1. holding' = [s \in Sems |-> Holders(s)']
    OBVIOUS
  <2>2. CASE UNCHANGED <<semval, semq>> /\ \A s \in Sems : Holders(s)' = Holders(s)
    BY <2>1, <2>2
  <2>3. ASSUME NEW w \in Workers, NEW s \in Sems, Enters(w, s) \/ Queues(w, s) \/ Leaves(w, s), Others(s)
        PROVE  Semaphore!Next
    <3>1. holding[s] = Holders(s) /\ (Semaphore!InLine(w, s) <=> Waiting(w, s))
      BY DEF Semaphore!InLine, Waiting
    <3>2. ASSUME NEW H, Holders(s)' = H PROVE holding' = [holding EXCEPT ![s] = H]
      BY <2>1, <2>3, <3>2 DEF Others
    <3> HIDE DEF holding
    <3>3. CASE Enters(w, s)
      <4>1. Semaphore!Enter(w, s)
        BY <3>1, <3>2, <3>3 DEF Semaphore!Enter, Enters, holding
      <4> QED
        BY <4>1 DEF Semaphore!Next
    <3>4. CASE Queues(w, s)
      <4>1. Semaphore!StandInLine(w, s)
        BY <3>1, <3>2, <3>4 DEF Semaphore!StandInLine, Queues, holding
      <4> QED
        BY <4>1 DEF Semaphore!Next
    <3>5. CASE Leaves(w, s)
      <4>1. Semaphore!Leave(w, s)
        BY <3>1, <3>2, <3>5 DEF Semaphore!Leave, Leaves, holding
      <4> QED
        BY <4>1 DEF Semaphore!Next
    <3> QED
      BY <2>3, <3>3, <3>4, <3>5
  <2> QED
    BY <2>2, <2>3, SemaphoreStep
<1> QED
  BY <1>1, <1>2, LocksInvariance, PTL DEF Spec, ImplementsSemaphore, Semaphore!Spec

(* Under the same conditions no place of a semaphore is lost or made up: what is  *)
(* free and what threads hold add up to the initial value (sync.cc, Down and Up).  *)
THEOREM PlacesAddUp ==
  ASSUME NumThreads <= NumCpu, AssertsEnabled, Balanced
  PROVE  Spec => []Conserved
<1>1. Init => Conserved
  <2> SUFFICES ASSUME Init, NEW s \in Sems
               PROVE  semval[s] + Cardinality(Holders(s)) = SemInit[s]
    BY DEF Conserved
  <2>1. semval[s] = SemInit[s] /\ SemInit[s] \in Nat /\ Holders(s) = {}
    BY PastDownInit, SchedulerAssumption DEF Init, SchedulerAssumption
  <2> QED
    BY <2>1, FS_EmptySet
<1>2. TypeInv /\ Inv /\ PastDown /\ Conserved /\ [Next]_vars => Conserved'
  <2> SUFFICES ASSUME TypeInv, Inv, PastDown, Conserved, [Next]_vars, NEW r \in Sems
               PROVE  semval'[r] + Cardinality(Holders(r)') = SemInit[r]
    BY DEF Conserved
  <2>1. semval \in [Sems -> Nat] /\ semval[r] \in Nat
    BY DEF TypeInv, TypeOK
  <2>2. IsFiniteSet(Holders(r)) /\ Cardinality(Holders(r)) \in Nat
    <3>1. IsFiniteSet(Workers)
      BY FS_Interval, SchedulerAssumption DEF SchedulerAssumption, Workers
    <3> QED
      BY <3>1, FS_Subset, FS_CardinalityType DEF Holders
  <2>3. semval[r] + Cardinality(Holders(r)) = SemInit[r]
    BY DEF Conserved
  <2>4. ASSUME semval'[r] = semval[r], Holders(r)' = Holders(r)
        PROVE  semval'[r] + Cardinality(Holders(r)') = SemInit[r]
    BY <2>3, <2>4
  <2>5. ASSUME NEW w \in Workers, NEW s \in Sems, Enters(w, s) \/ Queues(w, s) \/ Leaves(w, s), Others(s)
        PROVE  semval'[r] + Cardinality(Holders(r)') = SemInit[r]
    <3>1. CASE r # s
      <4>1. semval'[r] = semval[r] /\ Holders(r)' = Holders(r)
        BY <2>1, <2>5, <3>1 DEF Enters, Queues, Leaves, Others
      <4> QED
        BY <2>4, <4>1
    <3>2. CASE r = s /\ Enters(w, s)
      <4>1. /\ semval'[r] = semval[r] - 1
            /\ Holders(r)' = Holders(r) \cup {w} /\ w \notin Holders(r)
        BY <2>1, <3>2 DEF Enters
      <4>2. Cardinality(Holders(r) \cup {w}) = Cardinality(Holders(r)) + 1
        BY <2>2, <4>1, FS_AddElement
      <4> QED
        BY <2>1, <2>2, <2>3, <4>1, <4>2
    <3>3. CASE r = s /\ Queues(w, s)
      BY <2>4, <3>3 DEF Queues
    <3>4. CASE r = s /\ Leaves(w, s)
      <4>1. w \in Holders(r)
        BY <3>4 DEF Leaves
      <4>2. IsFiniteSet(Holders(r) \ {w}) /\ Cardinality(Holders(r) \ {w}) = Cardinality(Holders(r)) - 1
        BY <2>2, <4>1, FS_RemoveElement
      <4>3. CASE semq[r] = <<>>
        <5>1. semval'[r] = semval[r] + 1 /\ Holders(r)' = Holders(r) \ {w}
          BY <2>1, <3>4, <4>3 DEF Leaves
        <5> QED
          BY <2>1, <2>2, <2>3, <4>2, <5>1
      <4>4. CASE semq[r] # <<>>
        <5>1. PICK v : v = Head(semq[r])
          OBVIOUS
        <5>2. /\ semval'[r] = semval[r] /\ Holders(r)' = (Holders(r) \ {w}) \cup {v}
              /\ v \notin Holders(r)
          BY <3>4, <4>4, <5>1 DEF Leaves
        <5>3. Cardinality((Holders(r) \ {w}) \cup {v}) = Cardinality(Holders(r) \ {w}) + 1
          BY <4>2, <5>2, FS_AddElement
        <5> QED
          BY <2>1, <2>2, <2>3, <4>2, <5>2, <5>3
      <4> QED
        BY <4>3, <4>4
    <3> QED
      BY <2>5, <3>1, <3>2, <3>3, <3>4
  <2> QED
    BY <2>4, <2>5, SemaphoreStep
<1> QED
  BY <1>1, <1>2, LocksInvariance, PTL DEF Spec
=============================================================================
