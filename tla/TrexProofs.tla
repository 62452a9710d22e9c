------------------------------ MODULE TrexProofs ------------------------------
(* Theorems about module Trex, for every set of threads, operators and events    *)
(* that TrexAssumption admits. The first part, up to EngineDetects, is about       *)
(* events that are Spaced, which the code does not ensure; the second, on the      *)
(* units of packet-threads-SEM, is about events that may overlap.                  *)
EXTENDS TrexProps, FiniteSetTheorems, TLAPS

(* The event that arrived last, the only one the threads can be at. *)
Latest == arrived[Len(arrived)]

(* The packet thread that took the event from sq, until it has collected. *)
Carries(p) == pc[p] \in {"received", "collect", "blocked"}

(* The event threads that have not left yet. *)
Evaluating(t) == pc[t] \in {"evaluate", "insert"}
Busy == {t \in EventThreads : rcvd[t] # <<>> \/ Evaluating(t)}

Places == {"asleep", "ready", "received", "collect", "blocked", "send", "evaluate", "insert"}

Ranges ==
  /\ info \in [InfoIds -> Events \cup {NoEvent}]
  /\ cur \in [Threads \cup {Irq} -> InfoIds]
  /\ last \in Threads \cup {Irq}
  /\ sq \in Seq(InfoIds) /\ rcvd \in [EventThreads -> Seq(InfoIds)]
  /\ ops \in Seq(Ops) /\ IsInjective(ops)
  /\ pc \in [Threads -> Places]
  /\ \A p \in PacketThreads : pc[p] \in {"asleep", "ready", "received", "collect", "blocked", "send"}
  /\ \A t \in EventThreads : pc[t] \in {"asleep", "ready", "evaluate", "insert"}
  /\ need \in [PacketThreads -> 0 .. Cardinality(EventThreads)]
  /\ pair = [t \in EventThreads |-> pair[t]] /\ buf = [o \in Ops |-> buf[o]]
  /\ sem \in Nat /\ seen \in [Ops -> Nat]

(* Events are numbered in the order they arrive and collected in that order. *)
Log ==
  /\ arrived \in Seq(Events) /\ Len(arrived) <= MaxEvents
  /\ \A k \in 1 .. Len(arrived) : arrived[k].seq = k
  /\ collected \in Seq(Events)
  /\ \A k \in 1 .. Len(collected) : collected[k].seq = k

(* An event thread evaluates the latest event; two of them never have a pair of *)
(* the same operator, nor of one that is still in the queue.                    *)
OwnPair(t) ==
  IF pc[t] = "insert"
  THEN \E o \in Ops \ Range(ops) : \E f : pair[t] = [op |-> o, first |-> f, second |-> Latest]
  ELSE pair[t] = NoPair

Evaluation ==
  /\ \A t \in EventThreads :
       /\ OwnPair(t)
       /\ Evaluating(t) => rcvd[t] = <<>> /\ info[cur[t]] = Latest
  /\ \A t, u \in EventThreads :
       pc[t] = "insert" /\ pc[u] = "insert" /\ pair[t].op = pair[u].op => t = u

-----------------------------------------------------------------------------
(* Where the latest event is: it has been collected, or is on its way to a       *)
(* packet thread, or with the one that carries it.                               *)
NoInterrupt == issued = <<>> /\ pending = <<>>
NobodyCarries == \A p \in PacketThreads : ~Carries(p)
AllAsleep == \A t \in Threads : pc[t] = "asleep"
NobodyBusy == Busy = {} /\ sem = 0 /\ waiting = <<>>
NotShown == Len(arrived) = Len(collected) + 1 /\ \A o \in Ops : seen[o] = Len(collected)

Done ==
  /\ NoInterrupt /\ sq = <<>> /\ NobodyCarries /\ NobodyBusy
  /\ Len(arrived) = Len(collected) /\ \A o \in Ops : seen[o] = Len(collected)

Raised(i) ==
  /\ issued = <<i>> /\ pending = <<>> /\ sq = <<>> /\ info[i] = Latest
  /\ AllAsleep /\ NobodyBusy /\ NotShown

Requested(i) ==
  /\ issued = <<>> /\ pending = <<[info |-> i, event |-> Latest]>> /\ sq = <<>>
  /\ info[i] = Latest /\ AllAsleep /\ NobodyBusy /\ NotShown

Queued(i) ==
  /\ NoInterrupt /\ sq = <<i>> /\ info[i] = Latest
  /\ NobodyCarries /\ NobodyBusy /\ NotShown

Given(p) ==
  /\ NoInterrupt /\ sq = <<>> /\ info[cur[p]] = Latest
  /\ pc[p] = "received" /\ \A q \in PacketThreads : Carries(q) => q = p
  /\ NobodyBusy /\ NotShown

(* The units p still needs are those there are and those the busy threads owe. *)
Working(p) ==
  /\ NoInterrupt /\ sq = <<>> /\ info[cur[p]] = Latest
  /\ pc[p] \in {"collect", "blocked"} /\ \A q \in PacketThreads : Carries(q) => q = p
  /\ need[p] = sem + Cardinality(Busy)
  /\ waiting = IF pc[p] = "blocked" THEN <<p>> ELSE <<>>
  /\ \A t \in EventThreads : rcvd[t] \in {<<>>, <<cur[p]>>}
  /\ Len(arrived) = Len(collected) + 1
  /\ \A o \in Ops : seen[o] = Len(collected) + (IF o \in Range(ops) THEN 0 ELSE 1)
  /\ Busy # EventThreads => ops = <<>>

Stage ==
  \/ Done
  \/ \E i \in InfoIds : Raised(i) \/ Requested(i) \/ Queued(i)
  \/ \E p \in PacketThreads : Given(p) \/ Working(p)

Inv == Ranges /\ Log /\ Evaluation /\ Stage

-----------------------------------------------------------------------------
LEMMA ThreadFacts ==
  /\ PacketThreads \subseteq Threads /\ EventThreads \subseteq Threads
  /\ \A p \in PacketThreads, t \in EventThreads : p # t
  /\ Irq \notin Threads
  /\ IsFiniteSet(EventThreads) /\ Cardinality(EventThreads) \in Nat /\ EventThreads # {}
  /\ Own \in [Threads \cup {Irq} -> InfoIds]
  /\ AllCepOps \in Seq(Ops) /\ IsInjective(AllCepOps) /\ MaxEvents \in Nat
BY TrexAssumption, FS_CardinalityType DEF TrexAssumption, Threads, Ops

LEMMA BusyFinite ==
  /\ IsFiniteSet(Busy) /\ Cardinality(Busy) \in Nat
  /\ Cardinality(Busy) <= Cardinality(EventThreads)
<1>1. Busy \in SUBSET EventThreads BY DEF Busy
<1> QED BY <1>1, ThreadFacts, FS_Subset, FS_CardinalityType

LEMMA AtTheFront ==
  ASSUME NEW S, NEW q \in Seq(S), q # <<>>
  PROVE  /\ Tail(q) \in Seq(S) /\ Len(q) \in Nat /\ Len(q) > 0
         /\ Len(Tail(q)) = Len(q) - 1
         /\ \A i \in 1 .. Len(q) - 1 : Tail(q)[i] = q[i + 1]
         /\ Head(q) = q[1] /\ Head(q) \in S
  OBVIOUS

LEMMA AtTheEnd ==
  ASSUME NEW S, NEW q \in Seq(S), NEW x \in S
  PROVE  /\ Append(q, x) \in Seq(S) /\ Len(q) \in Nat
         /\ Len(Append(q, x)) = Len(q) + 1
         /\ \A i \in 1 .. Len(q) : Append(q, x)[i] = q[i]
         /\ Append(q, x)[Len(q) + 1] = x
  OBVIOUS

LEMMA Single ==
  ASSUME NEW S, NEW x \in S
  PROVE  /\ <<x>> \in Seq(S) /\ <<x>> # <<>> /\ Head(<<x>>) = x /\ Tail(<<x>>) = <<>>
         /\ Len(<<x>>) = 1 /\ Append(<<>>, x) = <<x>> /\ <<x>>[1] = x /\ Range(<<x>>) = {x}
<1>1. DOMAIN <<x>> = {1} OBVIOUS
<1> QED BY <1>1 DEF Range

(* The operator at the head of the queue is nowhere else in it. *)
LEMMA HeadOnce ==
  ASSUME NEW q \in Seq(Ops), q # <<>>, IsInjective(q)
  PROVE  /\ Tail(q) \in Seq(Ops) /\ IsInjective(Tail(q))
         /\ Head(q) \in Ops /\ Head(q) \in Range(q)
         /\ Range(Tail(q)) = Range(q) \ {Head(q)}
<1>1. /\ Tail(q) \in Seq(Ops) /\ Len(q) \in Nat /\ Len(q) > 0 /\ Len(Tail(q)) = Len(q) - 1
      /\ \A i \in 1 .. Len(q) - 1 : Tail(q)[i] = q[i + 1]
      /\ Head(q) = q[1] /\ Head(q) \in Ops
  BY AtTheFront
<1>2. DOMAIN q = 1 .. Len(q) /\ DOMAIN Tail(q) = 1 .. Len(q) - 1 BY <1>1
<1>3. \A i, j \in 1 .. Len(q) : q[i] = q[j] => i = j BY <1>2 DEF IsInjective
<1>4. IsInjective(Tail(q)) BY <1>1, <1>2, <1>3 DEF IsInjective
<1>5. Head(q) \in Range(q) BY <1>1, <1>2 DEF Range
<1>6. ASSUME NEW x \in Range(Tail(q)) PROVE x \in Range(q) \ {Head(q)}
  <2>1. PICK i \in 1 .. Len(q) - 1 : x = Tail(q)[i] BY <1>2 DEF Range
  <2>2. x = q[i + 1] /\ i + 1 \in 1 .. Len(q) /\ i + 1 # 1 /\ 1 \in 1 .. Len(q) BY <2>1, <1>1
  <2> QED BY <2>2, <1>1, <1>2, <1>3 DEF Range
<1>7. ASSUME NEW x \in Range(q), x # Head(q) PROVE x \in Range(Tail(q))
  <2>1. PICK i \in 1 .. Len(q) : x = q[i] BY <1>2 DEF Range
  <2>2. i # 1 BY <2>1, <1>1, <1>7
  <2>3. i - 1 \in 1 .. Len(q) - 1 /\ (i - 1) + 1 = i BY <2>1, <2>2, <1>1
  <2> QED BY <2>1, <2>3, <1>1, <1>2 DEF Range
<1> QED BY <1>1, <1>4, <1>5, <1>6, <1>7

LEMMA Duplicates == IsInjective(AllCepOps) /\ Range(AllCepOps) = Ops
BY ThreadFacts DEF Ops

(* There is always a free address, and a new info disturbs none that is held. *)
LEMMA NewInfo ==
  ASSUME Ranges, NoInterrupt, sq = <<>>, MaxEvents > 0,
         NEW p \in PacketThreads, \A t \in EventThreads : rcvd[t] \in {<<>>, <<cur[p]>>},
         NEW e \in Events \cup {NoEvent}
  PROVE  /\ Create \in InfoIds /\ \A t \in Threads \cup {Irq} : cur[t] # Create
         /\ Created(e) \in [InfoIds -> Events \cup {NoEvent}]
         /\ Created(e)[Create] = e
         /\ \A t \in Threads \cup {Irq} : Created(e)[cur[t]] = info[cur[t]]
<1> DEFINE C == {cur[t] : t \in Threads \cup {Irq}}
           O == {Own[q] : q \in PacketThreads}
<1>1. C \in SUBSET InfoIds /\ O \in SUBSET InfoIds BY ThreadFacts DEF Ranges
<1>2. Unused = InfoIds \ (C \cup O)
  <2>1. \A t \in EventThreads : Range(rcvd[t]) \subseteq C
    <3>1. \A x : Range(<<x>>) = {x} BY Single
    <3>2. Range(<<>>) = {} BY DEF Range
    <3>3. cur[p] \in C BY ThreadFacts
    <3> QED BY <3>1, <3>2, <3>3
  <2>2. Range(issued) = {} /\ Range(sq) = {} /\ {pending[i].info : i \in DOMAIN pending} = {}
    BY DEF NoInterrupt, Range
  <2> DEFINE U == UNION {Range(rcvd[t]) : t \in EventThreads}
  <2>3. U \subseteq C BY <2>1
  <2>4. Unused = InfoIds \ (C \cup O \cup {} \cup {} \cup {} \cup U) BY <2>2 DEF Unused
  <2> HIDE DEF U, C, O
  <2> QED BY <2>3, <2>4
<1>3. IsFiniteSet(C \cup O) /\ Cardinality(C \cup O) \in Nat
      /\ Cardinality(C \cup O) <= 2 * Cardinality(Threads) + MaxEvents
  <2>1. IsFiniteSet(PacketThreads) /\ IsFiniteSet(EventThreads) /\ PacketThreads \cap EventThreads = {}
        /\ EventThreads # {} /\ Threads = PacketThreads \cup EventThreads /\ Irq \notin Threads
    BY TrexAssumption DEF TrexAssumption, Threads
  <2>2. /\ IsFiniteSet(Threads)
        /\ Cardinality(Threads) = Cardinality(PacketThreads) + Cardinality(EventThreads)
        /\ {Cardinality(PacketThreads), Cardinality(EventThreads), Cardinality(Threads)} \subseteq Nat
        /\ Cardinality(EventThreads) # 0
    <3>1. Cardinality(PacketThreads \cap EventThreads) = 0 BY <2>1, FS_EmptySet
    <3>2. IsFiniteSet(PacketThreads \cup EventThreads)
          /\ Cardinality(PacketThreads \cup EventThreads)
             = Cardinality(PacketThreads) + Cardinality(EventThreads) - Cardinality(PacketThreads \cap EventThreads)
      BY <2>1, FS_Union
    <3>3. Cardinality(PacketThreads) \in Nat /\ Cardinality(EventThreads) \in Nat
      BY <2>1, FS_CardinalityType
    <3>4. Cardinality(EventThreads) # 0 BY <2>1, FS_EmptySet
    <3> QED BY <3>1, <3>2, <3>3, <3>4, <2>1
  <2>3. IsFiniteSet(Threads \cup {Irq}) /\ Cardinality(Threads \cup {Irq}) = Cardinality(Threads) + 1
    BY <2>1, <2>2, FS_AddElement
  <2>4. IsFiniteSet(C) /\ Cardinality(C) <= Cardinality(Threads) + 1 /\ Cardinality(C) \in Nat
    <3> DEFINE f == [t \in Threads \cup {Irq} |-> cur[t]]
    <3>1. f \in Surjection(Threads \cup {Irq}, C) BY DEF Surjection
    <3> HIDE DEF f, C
    <3> QED BY <3>1, <2>3, FS_Surjection, FS_CardinalityType
  <2>5. IsFiniteSet(O) /\ Cardinality(O) <= Cardinality(PacketThreads) /\ Cardinality(O) \in Nat
    <3> DEFINE f == [q \in PacketThreads |-> Own[q]]
    <3>1. f \in Surjection(PacketThreads, O) BY DEF Surjection
    <3> HIDE DEF f, O
    <3> QED BY <3>1, <2>1, FS_Surjection, FS_CardinalityType
  <2> HIDE DEF C, O
  <2>6. IsFiniteSet(C \cup O) /\ Cardinality(C \cup O) \in Nat
        /\ Cardinality(C \cup O) <= Cardinality(C) + Cardinality(O)
    <3>1. IsFiniteSet(C \cap O) /\ Cardinality(C \cap O) \in Nat
      BY <2>4, FS_Subset, FS_CardinalityType
    <3>2. IsFiniteSet(C \cup O)
          /\ Cardinality(C \cup O) = Cardinality(C) + Cardinality(O) - Cardinality(C \cap O)
      BY <2>4, <2>5, FS_Union
    <3>3. Cardinality(C \cup O) \in Nat BY <3>2, FS_CardinalityType
    <3> QED BY <3>1, <3>2, <3>3, <2>4, <2>5
  <2>7. MaxEvents \in Nat BY ThreadFacts
  <2> QED BY <2>2, <2>4, <2>5, <2>6, <2>7
<1>4. Unused # {}
  <2>1. SUFFICES ASSUME Unused = {} PROVE FALSE OBVIOUS
  <2>2. InfoIds \in SUBSET (C \cup O) BY <1>2, <2>1
  <2> HIDE DEF C, O
  <2>3. Cardinality(InfoIds) <= Cardinality(C \cup O) /\ Cardinality(InfoIds) \in Nat
    BY <1>3, <2>2, FS_Subset, FS_CardinalityType
  <2>4. Cardinality(InfoIds) > 2 * Cardinality(Threads) + MaxEvents
    BY TrexAssumption DEF TrexAssumption, Threads
  <2>5. IsFiniteSet(Threads) /\ Cardinality(Threads) \in Nat /\ MaxEvents \in Nat
    <3>1. IsFiniteSet(Threads) BY TrexAssumption, FS_Union DEF TrexAssumption, Threads
    <3> QED BY <3>1, FS_CardinalityType, ThreadFacts
  <2> QED BY <1>3, <2>3, <2>4, <2>5
<1>5. Create \in Unused BY <1>4 DEF Create
<1>6. \A t \in Threads \cup {Irq} : cur[t] \in InfoIds /\ cur[t] \notin Unused BY <1>1, <1>2
<1>7. Create \in InfoIds BY <1>5, <1>2
<1> HIDE DEF C, O
<1>8. NoEvent \in Events \cup {NoEvent} OBVIOUS
<1>9. Created(e) \in [InfoIds -> Events \cup {NoEvent}]
  <2>1. \A i \in InfoIds : info[i] \in Events \cup {NoEvent} BY DEF Ranges
  <2> QED BY <2>1, <1>8 DEF Created
<1> QED BY <1>5, <1>6, <1>7, <1>9 DEF Created

-----------------------------------------------------------------------------
(* One lemma for each action: where the event is before and after it. *)
LEMMA BusySame ==
  ASSUME rcvd' = rcvd, \A t \in EventThreads : Evaluating(t)' = Evaluating(t)
  PROVE  Busy' = Busy
BY DEF Busy

LEMMA InitInv == Init => Inv
<1> SUFFICES ASSUME Init PROVE Inv OBVIOUS
<1>1. Ranges
  <2>1. ops \in Seq(Ops) /\ IsInjective(ops) BY DEF Init, IsInjective
  <2>2. need \in [PacketThreads -> 0 .. Cardinality(EventThreads)] BY ThreadFacts DEF Init
  <2>3. cur \in [Threads \cup {Irq} -> InfoIds] BY ThreadFacts DEF Init
  <2>4. \A t \in Threads : pc[t] = "asleep" BY DEF Init
  <2>5. sq \in Seq(InfoIds) /\ rcvd \in [EventThreads -> Seq(InfoIds)] BY DEF Init
  <2>6. pc \in [Threads -> Places] BY DEF Init, Places
  <2>7. pair = [t \in EventThreads |-> pair[t]] /\ buf = [o \in Ops |-> buf[o]]
    BY DEF Init, Buffers
  <2>8. info \in [InfoIds -> Events \cup {NoEvent}] /\ last \in Threads \cup {Irq}
        /\ sem \in Nat /\ seen \in [Ops -> Nat]
    BY DEF Init
  <2> QED BY <2>1, <2>2, <2>3, <2>4, <2>5, <2>6, <2>7, <2>8, ThreadFacts DEF Ranges
<1>2. Log BY ThreadFacts DEF Init, Log
<1>3. \A t \in Threads : pc[t] = "asleep" BY DEF Init
<1>4. Evaluation BY <1>3, ThreadFacts DEF Init, Evaluation, Evaluating, OwnPair
<1>5. Busy = {} BY <1>3, ThreadFacts DEF Init, Busy, Evaluating
<1>6. Done BY <1>3, <1>5, ThreadFacts DEF Init, Done, NoInterrupt, NobodyCarries, Carries, NobodyBusy
<1> QED BY <1>1, <1>2, <1>4, <1>6 DEF Inv, Stage

LEMMA ArriveInv == ASSUME Inv, Spaced, Arrive PROVE Inv'
<1>1. Idle /\ Len(arrived) < MaxEvents BY DEF Arrive
<1>2. Done
  <2>1. \A p \in PacketThreads : pc[p] = "asleep" BY <1>1, ThreadFacts DEF Idle
  <2> QED BY <1>1, <2>1, Single
      DEF Inv, Stage, Raised, Requested, Queued, Given, Working, Idle
<1>3. PICK e \in Events : /\ e.seq = Len(arrived) + 1
                          /\ arrived' = Append(arrived, e)
                          /\ info' = [info EXCEPT ![cur[last]] = e]
  BY DEF Arrive
<1>4. /\ issued' = Append(issued, cur[last])
      /\ UNCHANGED <<cur, last, pending, sq, rcvd, pc, ops, buf, pair, seen, reported,
                     sem, waiting, need, collected>>
  BY DEF Arrive, engine, units
<1>5. cur[last] \in InfoIds /\ info'[cur[last]] = e
      /\ info' \in [InfoIds -> Events \cup {NoEvent}]
  BY <1>3 DEF Inv, Ranges
<1>6. Ranges' BY <1>4, <1>5 DEF Inv, Ranges
<1>7. /\ arrived' \in Seq(Events) /\ Len(arrived') = Len(arrived) + 1 /\ Len(arrived) \in Nat
      /\ \A k \in 1 .. Len(arrived) : arrived'[k] = arrived[k]
      /\ arrived'[Len(arrived) + 1] = e
  BY <1>3, AtTheEnd DEF Inv, Log
<1>8. Log'
  <2>1. \A k \in 1 .. Len(arrived') : arrived'[k].seq = k
    <3> TAKE k \in 1 .. Len(arrived')
    <3>1. CASE k = Len(arrived) + 1 BY <3>1, <1>3, <1>7
    <3>2. CASE k # Len(arrived) + 1
      <4>1. k \in 1 .. Len(arrived) BY <3>2, <1>7
      <4> QED BY <4>1, <1>7 DEF Inv, Log
    <3> QED BY <3>1, <3>2
  <2> QED BY <2>1, <1>1, <1>4, <1>7, ThreadFacts DEF Inv, Log
<1>9. \A t \in EventThreads : ~Evaluating(t) /\ pc[t] # "insert" /\ pair[t] = NoPair
  BY <1>2 DEF Done, NobodyBusy, Busy, Inv, Evaluation, OwnPair, Evaluating
<1>10. Evaluation' BY <1>4, <1>9 DEF Evaluation, OwnPair, Evaluating
<1>11. Latest' = e
  <2>1. Len(arrived') = Len(arrived) + 1 /\ arrived'[Len(arrived) + 1] = e BY <1>7
  <2> QED BY <2>1 DEF Latest
<1>12. Busy' = Busy BY <1>4 DEF Busy, Evaluating
<1>13. Raised(cur[last])'
  <2>1. issued' = <<cur'[last']>> BY <1>4, <1>1, <1>5, Single DEF Idle
  <2>2. AllAsleep' BY <1>1, <1>4 DEF Idle, AllAsleep
  <2>3. NobodyBusy' BY <1>2, <1>4, <1>12 DEF Done, NobodyBusy
  <2>4. NotShown' BY <1>2, <1>4, <1>7 DEF Done, NotShown
  <2> QED BY <2>1, <2>2, <2>3, <2>4, <1>1, <1>4, <1>5, <1>11 DEF Raised, Idle
<1>14. (cur[last] \in InfoIds)' BY <1>4, <1>5
<1> QED BY <1>6, <1>8, <1>10, <1>13, <1>14 DEF Inv, Stage

(* What the actions that only move the event leave alone. *)
LEMMA QuietSteps ==
  ASSUME Inv, UNCHANGED <<ops, buf, pair, seen, reported, arrived, sem, waiting, need, collected, rcvd>>,
         \A t \in EventThreads : pc'[t] = pc[t] \/ (~Evaluating(t) /\ ~Evaluating(t)'),
         \A t \in EventThreads : Evaluating(t) => info'[cur'[t]] = info[cur[t]]
  PROVE  /\ Log' /\ Evaluation' /\ Busy' = Busy /\ Latest' = Latest
         /\ (NobodyBusy => NobodyBusy') /\ (NotShown => NotShown')
<1>1. \A t \in EventThreads : /\ Evaluating(t)' = Evaluating(t)
                              /\ (pc'[t] = "insert") = (pc[t] = "insert")
  BY DEF Evaluating
<1>2. Latest' = Latest BY DEF Latest
<1>3. Evaluation'
  <2>1. \A t \in EventThreads : OwnPair(t)' BY <1>1, <1>2 DEF Inv, Evaluation, OwnPair
  <2> QED BY <2>1, <1>1, <1>2 DEF Inv, Evaluation
<1>4. Busy' = Busy BY <1>1, BusySame
<1> QED BY <1>2, <1>3, <1>4 DEF Inv, Log, NobodyBusy, NotShown

LEMMA IssueInv == ASSUME Inv, Issue PROVE Inv'
<1>1. PICK i \in InfoIds : Raised(i)
  BY DEF Issue, Inv, Stage, Done, Requested, Queued, Given, Working, NoInterrupt
<1>2. Head(issued) = i /\ Tail(issued) = <<>> BY <1>1, Single DEF Raised
<1>3. /\ pending' = <<[info |-> i, event |-> Latest]>> /\ issued' = <<>>
      /\ UNCHANGED <<info, cur, last, sq, rcvd, pc, ops, buf, pair, seen, reported,
                     sem, waiting, need, collected, arrived>>
  BY <1>1, <1>2, Single DEF Issue, Raised, infos, engine, units
<1>4. Ranges' BY <1>3 DEF Inv, Ranges
<1>5. Log' /\ Evaluation' /\ Latest' = Latest /\ NobodyBusy' /\ NotShown'
  BY <1>1, <1>3, QuietSteps DEF Raised
<1>6. Requested(i)' BY <1>1, <1>3, <1>5 DEF Requested, Raised, AllAsleep
<1> QED BY <1>4, <1>5, <1>6 DEF Inv, Stage

LEMMA InterruptInv == ASSUME Inv, Interrupt PROVE Inv'
<1>1. PICK i \in InfoIds : Requested(i)
  BY DEF Interrupt, Inv, Stage, Done, Raised, Queued, Given, Working, NoInterrupt
<1>2. Head(pending).info = i /\ Tail(pending) = <<>> /\ Len(pending) = 1
  BY <1>1, Single DEF Requested
<1>3. /\ sq' = <<i>> /\ pc' = Woken(PacketThreads) /\ last' = Irq
      /\ cur' = [cur EXCEPT ![Irq] = i] /\ pending' = <<>> /\ info' = info
      /\ UNCHANGED <<issued, rcvd, ops, buf, pair, seen, reported,
                     sem, waiting, need, collected, arrived>>
  BY <1>1, <1>2, Single DEF Interrupt, Requested, engine, units
<1>4. /\ \A p \in PacketThreads : pc'[p] = "ready"
      /\ \A t \in EventThreads : pc'[t] = pc[t] /\ cur'[t] = cur[t]
      /\ pc' \in [Threads -> Places]
  <2>1. pc' = [t \in Threads |-> IF t \in PacketThreads THEN "ready" ELSE "asleep"]
        /\ \A t \in Threads : pc[t] = "asleep"
    BY <1>1, <1>3 DEF Requested, AllAsleep, Woken
  <2>2. \A t \in EventThreads : cur'[t] = cur[t] BY <1>3, ThreadFacts DEF Inv, Ranges
  <2> QED BY <2>1, <2>2, ThreadFacts DEF Places
<1>5. Ranges'
  <2>1. sq' \in Seq(InfoIds) BY <1>3, Single
  <2>2. cur' \in [Threads \cup {Irq} -> InfoIds] BY <1>3 DEF Inv, Ranges
  <2> QED BY <2>1, <2>2, <1>3, <1>4 DEF Inv, Ranges
<1>6. Log' /\ Evaluation' /\ Latest' = Latest /\ NobodyBusy' /\ NotShown'
  BY <1>1, <1>3, <1>4, QuietSteps DEF Requested
<1>7. Queued(i)'
  BY <1>1, <1>3, <1>4, <1>6 DEF Queued, Requested, NoInterrupt, NobodyCarries, Carries
<1> QED BY <1>5, <1>6, <1>7 DEF Inv, Stage

(* A thread that has nothing to do with the event goes on or falls asleep. *)
LEMMA Bystander ==
  ASSUME Inv, NEW v \in Threads, pc[v] \in {"ready", "send"}, pc'[v] \in {"asleep", "ready"},
         pc' \in [Threads -> Places], \A u \in Threads : u # v => pc'[u] = pc[u] /\ cur'[u] = cur[u],
         UNCHANGED <<info, issued, pending, sq, rcvd, ops, buf, pair, seen, reported,
                     sem, waiting, need, collected, arrived>>
  PROVE  Log' /\ Evaluation' /\ Stage'
<1>1. /\ \A t \in EventThreads : pc'[t] = pc[t] \/ (~Evaluating(t) /\ ~Evaluating(t)')
      /\ \A t \in EventThreads : Evaluating(t) => info'[cur'[t]] = info[cur[t]]
  BY ThreadFacts DEF Evaluating
<1>2. /\ Log' /\ Evaluation' /\ Busy' = Busy /\ Latest' = Latest
      /\ (NobodyBusy => NobodyBusy') /\ (NotShown => NotShown')
  BY <1>1, QuietSteps
<1>3. \A p \in PacketThreads : /\ Carries(p)' = Carries(p)
                               /\ Carries(p) => pc'[p] = pc[p] /\ cur'[p] = cur[p]
  BY ThreadFacts DEF Carries
<1>4. NobodyCarries => NobodyCarries' BY <1>3 DEF NobodyCarries
<1>5. CASE Done
  BY <1>2, <1>4, <1>5 DEF Done, NoInterrupt, Stage
<1>6. ASSUME NEW i \in InfoIds, Queued(i) PROVE Stage'
  <2>1. Queued(i)' BY <1>2, <1>4, <1>6 DEF Queued, NoInterrupt
  <2> QED BY <2>1 DEF Stage
<1>7. ASSUME NEW p \in PacketThreads, Given(p) PROVE Stage'
  <2>1. Carries(p) BY <1>7 DEF Given, Carries
  <2>2. Given(p)' BY <2>1, <1>2, <1>3, <1>7 DEF Given, NoInterrupt
  <2> QED BY <2>2 DEF Stage
<1>8. ASSUME NEW p \in PacketThreads, Working(p) PROVE Stage'
  <2>1. Carries(p) BY <1>8 DEF Working, Carries
  <2>2. Working(p)' BY <2>1, <1>2, <1>3, <1>8 DEF Working, NoInterrupt
  <2> QED BY <2>2 DEF Stage
<1>9. \A i \in InfoIds : ~Raised(i) /\ ~Requested(i) BY DEF Raised, Requested, AllAsleep
<1> QED BY <1>2, <1>5, <1>6, <1>7, <1>8, <1>9 DEF Inv, Stage

LEMMA ReceiveInv == ASSUME Inv, NEW p \in PacketThreads, Receive(p) PROVE Inv'
<1>1. /\ pc[p] = "ready" /\ last' = p /\ p \in Threads
      /\ UNCHANGED <<info, issued, pending, rcvd, ops, buf, pair, seen, reported,
                     sem, waiting, need, collected, arrived>>
  BY ThreadFacts DEF Receive, irqs, engine, units
<1>2. CASE sq = <<>>
  <2>1. /\ pc' = [pc EXCEPT ![p] = "asleep"] /\ cur' = [cur EXCEPT ![p] = Own[p]] /\ sq' = sq
    BY <1>2 DEF Receive
  <2>2. cur' \in [Threads \cup {Irq} -> InfoIds] BY <2>1, <1>1, ThreadFacts DEF Inv, Ranges
  <2>3. /\ pc' \in [Threads -> Places] /\ pc'[p] = "asleep"
        /\ \A u \in Threads : u # p => pc'[u] = pc[u] /\ cur'[u] = cur[u]
    BY <2>1, <1>1 DEF Inv, Ranges, Places
  <2>4. Ranges' BY <1>1, <2>1, <2>2, <2>3, ThreadFacts DEF Inv, Ranges
  <2>5. Log' /\ Evaluation' /\ Stage' BY <1>1, <2>1, <2>3, Bystander
  <2> QED BY <2>4, <2>5 DEF Inv
<1>3. CASE sq # <<>>
  <2>1. PICK i \in InfoIds : Queued(i)
    <3>1. \E i \in InfoIds : Raised(i) \/ Requested(i) \/ Queued(i)
      BY <1>3 DEF Inv, Stage, Done, Given, Working
    <3> QED BY <3>1, <1>1 DEF Raised, Requested, AllAsleep
  <2>2. Head(sq) = i /\ Tail(sq) = <<>> BY <2>1, Single DEF Queued
  <2>3. /\ pc' = [pc EXCEPT ![p] = "received"] /\ cur' = [cur EXCEPT ![p] = i] /\ sq' = <<>>
    BY <1>3, <2>2 DEF Receive
  <2>4. cur' \in [Threads \cup {Irq} -> InfoIds] /\ cur'[p] = i
    BY <2>3, <1>1 DEF Inv, Ranges
  <2>5. /\ pc' \in [Threads -> Places] /\ pc'[p] = "received"
        /\ \A u \in Threads : u # p => pc'[u] = pc[u] /\ cur'[u] = cur[u]
    BY <2>3, <1>1 DEF Inv, Ranges, Places
  <2>6. Ranges' BY <1>1, <2>3, <2>4, <2>5, ThreadFacts DEF Inv, Ranges
  <2>7. Log' /\ Evaluation' /\ Latest' = Latest /\ NobodyBusy' /\ NotShown'
    BY <2>1, <1>1, <2>3, <2>5, ThreadFacts, QuietSteps DEF Queued
  <2>8. \A q \in PacketThreads : Carries(q)' => q = p
    BY <2>1, <2>5, ThreadFacts DEF Queued, NobodyCarries, Carries
  <2>9. Given(p)' BY <2>1, <1>1, <2>3, <2>4, <2>5, <2>7, <2>8 DEF Given, Queued, NoInterrupt
  <2> QED BY <2>6, <2>7, <2>9 DEF Inv, Stage
<1> QED BY <1>2, <1>3

LEMMA SendInv == ASSUME Inv, NEW p \in PacketThreads, Send(p) PROVE Inv'
<1>1. /\ pc[p] = "send" /\ last' = p /\ p \in Threads
      /\ pc' = [pc EXCEPT ![p] = "ready"] /\ cur' = [cur EXCEPT ![p] = Own[p]]
      /\ UNCHANGED <<info, issued, pending, sq, rcvd, ops, buf, pair, seen, reported,
                     sem, waiting, need, collected, arrived>>
  BY ThreadFacts DEF Send, irqs, engine, units
<1>2. cur' \in [Threads \cup {Irq} -> InfoIds] BY <1>1, ThreadFacts DEF Inv, Ranges
<1>3. /\ pc' \in [Threads -> Places] /\ pc'[p] = "ready"
      /\ \A u \in Threads : u # p => pc'[u] = pc[u] /\ cur'[u] = cur[u]
  BY <1>1 DEF Inv, Ranges, Places
<1>4. Ranges' BY <1>1, <1>2, <1>3, ThreadFacts DEF Inv, Ranges
<1>5. Log' /\ Evaluation' /\ Stage' BY <1>1, <1>3, Bystander
<1> QED BY <1>4, <1>5 DEF Inv

(* The packet thread that is given the event is the only one that carries it. *)
LEMMA Carrier ==
  ASSUME Inv, NEW p \in PacketThreads, Carries(p)
  PROVE  Given(p) \/ Working(p)
<1>1. p \in Threads /\ pc[p] # "asleep" BY ThreadFacts DEF Carries
<1>2. \E q \in PacketThreads : Given(q) \/ Working(q)
  BY <1>1 DEF Inv, Stage, Done, Raised, Requested, Queued, NobodyCarries, AllAsleep
<1> QED BY <1>2 DEF Given, Working

LEMMA DistributeInv ==
  ASSUME Inv, NEW p \in PacketThreads, Distribute(p) PROVE Inv' /\ UNCHANGED collected
<1>1. /\ pc[p] = "received" /\ last' = p /\ p \in Threads
      /\ rcvd' = [t \in EventThreads |-> Append(rcvd[t], cur[p])] /\ ops' = AllCepOps
      /\ Down(p, Cardinality(EventThreads), Woken(EventThreads))
      /\ UNCHANGED <<issued, pending, sq, buf, pair, seen, reported, arrived>>
  BY ThreadFacts DEF Distribute, irqs, WokenUp, Awaited
<1>2. Given(p)
  <2>1. Given(p) \/ Working(p) BY <1>1, Carrier DEF Carries
  <2> QED BY <2>1, <1>1 DEF Working
<1>16. /\ pc' = [Woken(EventThreads) EXCEPT ![p] = "blocked"]
       /\ need' = [need EXCEPT ![p] = Cardinality(EventThreads)]
       /\ sem' = 0 /\ waiting' = <<p>>
       /\ UNCHANGED <<info, cur, collected>>
  <2>1. sem = 0 /\ waiting = <<>> BY <1>2 DEF Given, NobodyBusy
  <2>2. Cardinality(EventThreads) \in Nat /\ Cardinality(EventThreads) # 0
    BY ThreadFacts, FS_EmptySet
  <2>3. Append(<<>>, p) = <<p>> BY Single
  <2> QED BY <2>1, <2>2, <2>3, <1>1 DEF Down
<1>3. \A t \in EventThreads : rcvd[t] = <<>> /\ ~Evaluating(t)
  BY <1>2 DEF Given, NobodyBusy, Busy
<1>4. cur[p] \in InfoIds BY <1>1 DEF Inv, Ranges
<1>5. \A t \in EventThreads : rcvd'[t] = <<cur[p]>> /\ rcvd'[t] \in Seq(InfoIds) /\ rcvd'[t] # <<>>
  <2>1. \A t \in EventThreads : rcvd'[t] = Append(<<>>, cur[p]) BY <1>1, <1>3
  <2>2. Append(<<>>, cur[p]) = <<cur[p]>> /\ <<cur[p]>> \in Seq(InfoIds) /\ <<cur[p]>> # <<>>
    BY <1>4, Single
  <2> QED BY <2>1, <2>2
<1>6. pc' \in [Threads -> Places] /\ pc'[p] = "blocked"
      /\ \A u \in Threads : u # p => pc'[u] = pc[u] \/ (u \in EventThreads /\ pc'[u] = "ready")
  BY <1>1, <1>16 DEF Woken, Inv, Ranges, Places
<1>7. Ranges'
  <2>1. rcvd' \in [EventThreads -> Seq(InfoIds)] BY <1>1, <1>5
  <2>2. ops' \in Seq(Ops) /\ IsInjective(ops') BY <1>1, ThreadFacts
  <2>3. need' \in [PacketThreads -> 0 .. Cardinality(EventThreads)]
    BY <1>16, ThreadFacts DEF Inv, Ranges
  <2>4. \A t \in EventThreads : pc'[t] \in {"asleep", "ready", "evaluate", "insert"}
    BY <1>6, ThreadFacts DEF Inv, Ranges
  <2>5. \A q \in PacketThreads : pc'[q] \in {"asleep", "ready", "received", "collect", "blocked", "send"}
    BY <1>6, ThreadFacts DEF Inv, Ranges
  <2> QED BY <2>1, <2>2, <2>3, <2>4, <2>5, <1>1, <1>6, <1>16, ThreadFacts DEF Inv, Ranges
<1>8. Log' /\ Latest' = Latest BY <1>1, <1>16 DEF Inv, Log, Latest
<1>9. \A t \in EventThreads : ~Evaluating(t)' BY <1>3, <1>6, ThreadFacts DEF Evaluating
<1>10. Evaluation'
  <2>1. \A t \in EventThreads : pc[t] # "insert" /\ pc'[t] # "insert" /\ pair'[t] = NoPair
    BY <1>1, <1>3, <1>9 DEF Evaluating, Inv, Evaluation, OwnPair
  <2> QED BY <2>1, <1>9 DEF Evaluation, OwnPair
<1>11. Busy' = EventThreads BY <1>5 DEF Busy
<1>12. \A q \in PacketThreads : Carries(q)' => q = p
  BY <1>2, <1>6, ThreadFacts DEF Given, Carries
<1>13. \A o \in Ops : seen'[o] = Len(collected') + (IF o \in Range(ops') THEN 0 ELSE 1)
  <2>1. \A o \in Ops : o \in Range(ops') BY <1>1, Duplicates
  <2>2. Len(collected) \in Nat BY DEF Inv, Log
  <2> QED BY <2>1, <2>2, <1>1, <1>2, <1>16 DEF Given, NotShown
<1>14. need'[p] = sem' + Cardinality(Busy')
  <2>1. need'[p] = Cardinality(EventThreads) BY <1>16 DEF Inv, Ranges
  <2>2. sem' = 0 BY <1>16
  <2> QED BY <2>1, <2>2, <1>11, ThreadFacts
<1>15. Working(p)'
  <2>1. \A t \in EventThreads : rcvd'[t] \in {<<>>, <<cur'[p]>>} BY <1>5, <1>16
  <2>2. pc'[p] = "blocked" /\ waiting' = <<p>> BY <1>6, <1>16
  <2>3. NoInterrupt' /\ sq' = <<>> /\ info'[cur'[p]] = Latest' /\ Len(arrived') = Len(collected') + 1
    BY <1>1, <1>2, <1>8, <1>16 DEF Given, NoInterrupt, NotShown
  <2> QED BY <2>1, <2>2, <2>3, <1>11, <1>12, <1>13, <1>14 DEF Working
<1> QED BY <1>7, <1>8, <1>10, <1>15, <1>16 DEF Inv, Stage

(* Not enough units: the thread takes what there is and waits again. *)
LEMMA ResumeWaits ==
  ASSUME Inv, NEW p \in PacketThreads, Resume(p), sem < need[p]
  PROVE  Inv' /\ UNCHANGED <<info, cur, collected>>
<1>1. /\ pc[p] = "collect" /\ last' = p /\ p \in Threads
      /\ UNCHANGED <<issued, pending, sq, rcvd, ops, buf, pair, seen, reported, arrived>>
  BY ThreadFacts DEF Resume, irqs, engine
<1>2. Working(p)
  <2>1. Given(p) \/ Working(p) BY <1>1, Carrier DEF Carries
  <2> QED BY <2>1, <1>1 DEF Given
<1>3. need[p] \in 0 .. Cardinality(EventThreads) /\ Cardinality(EventThreads) \in Nat
      /\ sem \in Nat /\ waiting = <<>>
  BY <1>1, <1>2, ThreadFacts DEF Inv, Ranges, Working
<1>4. Cardinality(Busy) \in Nat BY BusyFinite
<1>5. /\ sem' = 0 /\ need' = [need EXCEPT ![p] = need[p] - sem]
      /\ pc' = [pc EXCEPT ![p] = "blocked"] /\ waiting' = <<p>>
      /\ UNCHANGED <<info, cur, collected>>
  <2>1. Append(<<>>, p) = <<p>> BY Single
  <2> QED BY <2>1, <1>3 DEF Resume, Down
<1>6. /\ pc' \in [Threads -> Places] /\ pc'[p] = "blocked"
      /\ \A u \in Threads : u # p => pc'[u] = pc[u]
  BY <1>1, <1>5 DEF Inv, Ranges, Places
<1>7. need' \in [PacketThreads -> 0 .. Cardinality(EventThreads)]
      /\ need'[p] = sem' + Cardinality(Busy)
  <2>1. need[p] = sem + Cardinality(Busy) /\ need \in [PacketThreads -> 0 .. Cardinality(EventThreads)]
    BY <1>2 DEF Working, Inv, Ranges
  <2>2. need[p] - sem \in 0 .. Cardinality(EventThreads) BY <1>3
  <2> QED BY <2>1, <2>2, <1>3, <1>4, <1>5
<1>8. Ranges' BY <1>1, <1>5, <1>6, <1>7, ThreadFacts DEF Inv, Ranges
<1>9. \A t \in EventThreads : pc'[t] = pc[t] BY <1>6, ThreadFacts
<1>10. Log' /\ Latest' = Latest BY <1>1, <1>5 DEF Inv, Log, Latest
<1>11. Evaluation' BY <1>1, <1>5, <1>9, <1>10 DEF Inv, Evaluation, OwnPair, Evaluating
<1>12. Busy' = Busy BY <1>1, <1>9 DEF Busy, Evaluating
<1>13. \A q \in PacketThreads : Carries(q)' => q = p
  BY <1>2, <1>6, ThreadFacts DEF Working, Carries
<1>14. Working(p)' BY <1>1, <1>2, <1>5, <1>6, <1>7, <1>10, <1>12, <1>13 DEF Working, NoInterrupt
<1> QED BY <1>5, <1>8, <1>10, <1>11, <1>14 DEF Inv, Stage

(* Once the last unit is there nobody is busy and no operator is left. *)
LEMMA AllLeft ==
  ASSUME Inv, NEW p \in PacketThreads, Working(p), sem >= need[p]
  PROVE  Busy = {} /\ sem = need[p] /\ ops = <<>> /\ \A o \in Ops : seen[o] = Len(arrived)
<1>1. sem \in Nat /\ Cardinality(Busy) \in Nat /\ IsFiniteSet(Busy) BY BusyFinite DEF Inv, Ranges
<1>2. sem = need[p] /\ Cardinality(Busy) = 0 BY <1>1 DEF Working
<1>3. Busy = {} BY <1>1, <1>2, FS_EmptySet
<1>4. ops = <<>> BY <1>3, ThreadFacts DEF Working
<1>5. Range(ops) = {} BY <1>4 DEF Range
<1> QED BY <1>2, <1>3, <1>4, <1>5 DEF Working

LEMMA ResumeCollects ==
  ASSUME Inv, NEW p \in PacketThreads, Resume(p), sem >= need[p]
  PROVE  Inv' /\ Working(p) /\ collected' = Append(collected, info[cur[p]])
<1>0. sem \in Nat /\ need[p] \in Nat BY DEF Inv, Ranges
<1>1. /\ pc[p] = "collect" /\ last' = p /\ p \in Threads
      /\ sem' = sem - need[p] /\ need' = [need EXCEPT ![p] = 0]
      /\ collected' = Append(collected, info[cur[p]])
      /\ cur' = [cur EXCEPT ![p] = Create] /\ info' = Created(NoEvent)
      /\ pc' = [pc EXCEPT ![p] = "send"]
      /\ UNCHANGED <<issued, pending, sq, rcvd, ops, buf, pair, seen, reported,
                     waiting, arrived>>
  BY <1>0, ThreadFacts DEF Resume, Down, irqs, engine
<1>2. Working(p)
  <2>1. Given(p) \/ Working(p) BY <1>1, Carrier DEF Carries
  <2> QED BY <2>1, <1>1 DEF Given
<1>3. Busy = {} /\ sem' = 0 /\ ops = <<>> /\ \A o \in Ops : seen[o] = Len(arrived)
  BY <1>0, <1>1, <1>2, AllLeft
<1>4. /\ arrived \in Seq(Events) /\ Len(arrived) = Len(collected) + 1 /\ Len(collected) \in Nat
      /\ Len(arrived) <= MaxEvents /\ MaxEvents \in Nat /\ info[cur[p]] = Latest
  BY <1>2, ThreadFacts DEF Working, Inv, Log
<1>5. Latest \in Events /\ Latest.seq = Len(collected) + 1
  BY <1>4 DEF Latest, Inv, Log
<1>6. /\ Create \in InfoIds /\ info' \in [InfoIds -> Events \cup {NoEvent}]
  <2>1. NoInterrupt /\ sq = <<>> /\ \A t \in EventThreads : rcvd[t] \in {<<>>, <<cur[p]>>}
    BY <1>2 DEF Working
  <2>2. MaxEvents > 0 BY <1>4
  <2> QED BY <2>1, <2>2, <1>1, NewInfo DEF Inv
<1>7. /\ pc' \in [Threads -> Places] /\ pc'[p] = "send"
      /\ \A u \in Threads : u # p => pc'[u] = pc[u]
  BY <1>1 DEF Inv, Ranges, Places
<1>8. Ranges'
  <2>1. cur' \in [Threads \cup {Irq} -> InfoIds] BY <1>1, <1>6 DEF Inv, Ranges
  <2>2. need' \in [PacketThreads -> 0 .. Cardinality(EventThreads)] BY <1>1, ThreadFacts DEF Inv, Ranges
  <2> QED BY <2>1, <2>2, <1>1, <1>3, <1>6, <1>7, ThreadFacts DEF Inv, Ranges
<1>9. /\ collected' \in Seq(Events) /\ Len(collected') = Len(arrived)
      /\ \A k \in 1 .. Len(collected) : collected'[k] = collected[k]
      /\ collected'[Len(collected) + 1] = Latest
  BY <1>1, <1>4, <1>5, AtTheEnd DEF Inv, Log
<1>10. Log'
  <2>1. \A k \in 1 .. Len(collected') : collected'[k].seq = k
    <3> TAKE k \in 1 .. Len(collected')
    <3>1. CASE k = Len(collected) + 1 BY <3>1, <1>5, <1>9
    <3>2. CASE k # Len(collected) + 1
      <4>1. k \in 1 .. Len(collected) BY <3>2, <1>4, <1>9
      <4> QED BY <4>1, <1>9 DEF Inv, Log
    <3> QED BY <3>1, <3>2
  <2> QED BY <2>1, <1>1, <1>9 DEF Inv, Log
<1>11. \A t \in EventThreads : pc'[t] = pc[t] /\ ~Evaluating(t) /\ ~Evaluating(t)'
  BY <1>3, <1>7, ThreadFacts DEF Busy, Evaluating
<1>12. Evaluation'
  <2>1. \A t \in EventThreads : pc[t] # "insert" /\ pc'[t] # "insert" /\ pair'[t] = NoPair
    BY <1>1, <1>11 DEF Evaluating, Inv, Evaluation, OwnPair
  <2> QED BY <2>1, <1>11 DEF Evaluation, OwnPair
<1>13. Busy' = {} BY <1>1, <1>3, <1>11 DEF Busy
<1>14. NobodyCarries' BY <1>2, <1>7, ThreadFacts DEF Working, Carries, NobodyCarries
<1>15. Done'
  <2>1. waiting' = <<>> /\ sem' = 0 BY <1>1, <1>2, <1>3 DEF Working
  <2>2. \A o \in Ops : seen'[o] = Len(collected') BY <1>1, <1>3, <1>9
  <2> QED BY <2>1, <2>2, <1>1, <1>2, <1>9, <1>13, <1>14 DEF Done, Working, NoInterrupt, NobodyBusy
<1> QED BY <1>1, <1>2, <1>8, <1>10, <1>12, <1>15 DEF Inv, Stage

LEMMA ResumeInv == ASSUME Inv, NEW p \in PacketThreads, Resume(p) PROVE Inv'
<1>1. sem \in Nat /\ need[p] \in Nat BY DEF Inv, Ranges
<1>2. sem < need[p] \/ sem >= need[p] BY <1>1
<1> QED BY <1>2, ResumeWaits, ResumeCollects

(* While an event thread is busy, a packet thread waits for it. *)
LEMMA BusyMeansWorking ==
  ASSUME Inv, NEW t \in EventThreads, rcvd[t] # <<>> \/ Evaluating(t)
  PROVE  \E p \in PacketThreads : Working(p)
<1>1. Busy # {} BY DEF Busy
<1> QED BY <1>1 DEF Inv, Stage, Done, Raised, Requested, Queued, Given, NobodyBusy

LEMMA TakeInv == ASSUME Inv, NEW t \in EventThreads, Take(t) PROVE Inv'
<1>1. /\ pc[t] = "ready" /\ last' = t /\ t \in Threads
      /\ UNCHANGED <<issued, pending, sq, ops, buf, pair, seen, reported,
                     sem, waiting, need, collected, arrived>>
  BY ThreadFacts DEF Take, irqs, engine, units
<1>2. CASE rcvd[t] = <<>>
  <2>1. pc' = [pc EXCEPT ![t] = "asleep"] /\ UNCHANGED <<info, cur, rcvd>>
    BY <1>2 DEF Take
  <2>2. /\ pc' \in [Threads -> Places] /\ pc'[t] = "asleep"
        /\ \A u \in Threads : u # t => pc'[u] = pc[u] /\ cur'[u] = cur[u]
    BY <2>1, <1>1 DEF Inv, Ranges, Places
  <2>3. Ranges' BY <1>1, <2>1, <2>2, ThreadFacts DEF Inv, Ranges
  <2>4. Log' /\ Evaluation' /\ Stage' BY <1>1, <2>1, <2>2, Bystander
  <2> QED BY <2>3, <2>4 DEF Inv
<1>3. CASE rcvd[t] # <<>>
  <2>1. PICK p \in PacketThreads : Working(p) BY <1>3, BusyMeansWorking
  <2>2. cur[p] \in InfoIds /\ p \in Threads /\ p # t BY ThreadFacts DEF Inv, Ranges
  <2>3. rcvd[t] = <<cur[p]>> /\ Head(rcvd[t]) = cur[p] /\ Tail(rcvd[t]) = <<>>
    BY <1>3, <2>1, <2>2, Single DEF Working
  <2>4. /\ pc' = [pc EXCEPT ![t] = "evaluate"] /\ cur' = [cur EXCEPT ![t] = Create]
        /\ info' = Created(info[cur[p]]) /\ rcvd' = [rcvd EXCEPT ![t] = <<>>]
    BY <1>3, <2>3 DEF Take
  <2>5. /\ arrived \in Seq(Events) /\ Len(arrived) > 0 /\ MaxEvents > 0 /\ info[cur[p]] = Latest
        /\ Latest \in Events
    BY <2>1, ThreadFacts DEF Working, Inv, Log, Latest
  <2>6. /\ Create \in InfoIds /\ \A u \in Threads \cup {Irq} : cur[u] # Create
        /\ info' \in [InfoIds -> Events \cup {NoEvent}] /\ info'[Create] = Latest
        /\ \A u \in Threads \cup {Irq} : info'[cur[u]] = info[cur[u]]
    BY <2>1, <2>4, <2>5, NewInfo DEF Working, Inv
  <2>7. /\ pc' \in [Threads -> Places] /\ pc'[t] = "evaluate"
        /\ \A u \in Threads : u # t => pc'[u] = pc[u]
    BY <2>4, <1>1 DEF Inv, Ranges, Places
  <2>8. cur' \in [Threads \cup {Irq} -> InfoIds] /\ cur'[t] = Create
        /\ \A u \in Threads : u # t => cur'[u] = cur[u]
    BY <2>4, <2>6, <1>1 DEF Inv, Ranges
  <2>9. rcvd' \in [EventThreads -> Seq(InfoIds)] /\ rcvd'[t] = <<>>
        /\ \A u \in EventThreads : u # t => rcvd'[u] = rcvd[u]
    BY <2>4 DEF Inv, Ranges
  <2>10. Ranges'
    <3>1. /\ \A q \in PacketThreads : pc'[q] = pc[q]
          /\ \A u \in EventThreads : pc'[u] = pc[u] \/ pc'[u] = "evaluate"
      BY <2>7, ThreadFacts
    <3>2. /\ \A q \in PacketThreads : pc'[q] \in {"asleep", "ready", "received", "collect", "blocked", "send"}
          /\ \A u \in EventThreads : pc'[u] \in {"asleep", "ready", "evaluate", "insert"}
      BY <3>1 DEF Inv, Ranges
    <3>3. last' \in Threads \cup {Irq} BY <1>1
    <3> QED BY <1>1, <2>6, <2>7, <2>8, <2>9, <3>2, <3>3 DEF Inv, Ranges
  <2>11. Log' /\ Latest' = Latest BY <1>1 DEF Inv, Log, Latest
  <2>12. Evaluation'
    <3>1. \A u \in EventThreads : (pc'[u] = "insert") = (pc[u] = "insert")
      BY <1>1, <2>7, ThreadFacts
    <3>2. \A u \in EventThreads : OwnPair(u)'
      BY <1>1, <2>11, <3>1 DEF Inv, Evaluation, OwnPair
    <3>3. \A u \in EventThreads : Evaluating(u)' => rcvd'[u] = <<>> /\ info'[cur'[u]] = Latest'
      <4> TAKE u \in EventThreads
      <4>1. CASE u = t BY <4>1, <2>6, <2>8, <2>9, <2>11
      <4>2. CASE u # t
        <5>1. pc'[u] = pc[u] /\ cur'[u] = cur[u] /\ rcvd'[u] = rcvd[u] /\ info'[cur[u]] = info[cur[u]]
          BY <4>2, <2>6, <2>7, <2>8, <2>9, ThreadFacts
        <5> QED BY <5>1, <2>11 DEF Inv, Evaluation, Evaluating
      <4> QED BY <4>1, <4>2
    <3> QED BY <3>1, <3>2, <3>3, <1>1 DEF Inv, Evaluation
  <2>13. Busy' = Busy
    <3>1. t \in Busy /\ Evaluating(t)' BY <1>3, <2>7 DEF Busy, Evaluating
    <3>2. \A u \in EventThreads : u # t => Evaluating(u)' = Evaluating(u) /\ rcvd'[u] = rcvd[u]
      BY <2>7, <2>9, ThreadFacts DEF Evaluating
    <3> QED BY <3>1, <3>2 DEF Busy
  <2>14. \A q \in PacketThreads : Carries(q)' => q = p
    BY <2>1, <2>7, ThreadFacts DEF Working, Carries
  <2>15. Working(p)'
    <3>1. pc'[p] = pc[p] /\ cur'[p] = cur[p] /\ info'[cur[p]] = info[cur[p]]
      BY <2>2, <2>6, <2>7, <2>8
    <3>2. \A u \in EventThreads : rcvd'[u] \in {<<>>, <<cur'[p]>>}
      BY <3>1, <2>1, <2>9 DEF Working
    <3> QED BY <3>1, <3>2, <1>1, <2>1, <2>11, <2>13, <2>14 DEF Working, NoInterrupt
  <2> QED BY <2>10, <2>11, <2>12, <2>15 DEF Inv, Stage
<1> QED BY <1>2, <1>3

(* An event thread that evaluates has a packet thread waiting for it; what it does *)
(* next leaves the others alone.                                                   *)
LEMMA EvaluateInv == ASSUME Inv, NEW t \in EventThreads, Evaluate(t) PROVE Inv'
<1> DEFINE o == Head(ops)
           e == info[cur[t]]
           b == Put(o, buf[o], e)
           found == Partner(o, b, e)
<1>1. /\ pc[t] = "evaluate" /\ ops # <<>> /\ last' = t /\ t \in Threads
      /\ buf' = [buf EXCEPT ![o] = b] /\ seen' = [seen EXCEPT ![o] = @ + 1] /\ ops' = Tail(ops)
      /\ UNCHANGED <<info, cur, issued, pending, sq, rcvd, reported,
                     sem, waiting, need, collected, arrived>>
  BY ThreadFacts DEF Evaluate, irqs, units
<1>2. \/ pair' = pair /\ pc' = pc
      \/ /\ pair' = [pair EXCEPT ![t] = [op |-> o, first |-> found[1], second |-> e]]
         /\ pc' = [pc EXCEPT ![t] = "insert"]
  BY DEF Evaluate
<1>3. PICK p \in PacketThreads : Working(p) BY <1>1, BusyMeansWorking DEF Evaluating
<1>4. /\ ops' \in Seq(Ops) /\ IsInjective(ops') /\ o \in Ops /\ o \in Range(ops)
      /\ Range(ops') = Range(ops) \ {o}
  BY <1>1, HeadOnce DEF Inv, Ranges
<1> HIDE DEF o, b, found
<1>5. e = Latest /\ Latest' = Latest /\ pair[t] = NoPair
  BY <1>1 DEF Inv, Evaluation, Evaluating, OwnPair, Latest
<1>6. /\ pc' \in [Threads -> Places] /\ pc'[t] \in {"evaluate", "insert"}
      /\ \A u \in Threads : u # t => pc'[u] = pc[u]
  BY <1>1, <1>2 DEF Inv, Ranges, Places
<1>7. /\ pair' = [u \in EventThreads |-> pair'[u]]
      /\ \A u \in EventThreads : u # t => pair'[u] = pair[u]
  BY <1>2 DEF Inv, Ranges
<1>8. Ranges'
  <2>1. buf' = [x \in Ops |-> buf'[x]] BY <1>1 DEF Inv, Ranges
  <2>5. seen' \in [Ops -> Nat]
    <3>1. seen \in [Ops -> Nat] BY DEF Inv, Ranges
    <3>2. seen[o] + 1 \in Nat BY <3>1, <1>4
    <3> QED BY <3>1, <3>2, <1>1, <1>4
  <2>2. \A u \in EventThreads : pc'[u] \in {"asleep", "ready", "evaluate", "insert"}
    BY <1>6, ThreadFacts DEF Inv, Ranges
  <2>3. \A q \in PacketThreads : pc'[q] = pc[q] BY <1>6, ThreadFacts
  <2>4. last' \in Threads \cup {Irq} BY <1>1
  <2> QED BY <2>1, <2>2, <2>3, <2>4, <2>5, <1>1, <1>4, <1>6, <1>7 DEF Inv, Ranges
<1>9. Log' BY <1>1 DEF Inv, Log
<1>10. \A u \in EventThreads : Evaluating(u)' = Evaluating(u)
  BY <1>1, <1>6, ThreadFacts DEF Evaluating
<1>11. \A u \in EventThreads : u # t /\ pc[u] = "insert" => pair[u].op \notin Range(ops)
  <2> SUFFICES ASSUME NEW u \in EventThreads, pc[u] = "insert"
               PROVE  pair[u].op \notin Range(ops)
    OBVIOUS
  <2>1. OwnPair(u) BY DEF Inv, Evaluation
  <2>2. PICK x \in Ops \ Range(ops) : \E f : pair[u] = [op |-> x, first |-> f, second |-> Latest]
    BY <2>1 DEF OwnPair
  <2> QED BY <2>2
<1>12. pc'[t] = "insert" => pair'[t] = [op |-> o, first |-> found[1], second |-> Latest]
  BY <1>1, <1>2, <1>5 DEF Inv, Ranges
<1>13. Evaluation'
  <2>1. ASSUME NEW u \in EventThreads PROVE OwnPair(u)'
    <3>1. CASE u = t
      <4>1. CASE pc'[t] = "insert"
        <5>1. o \in Ops \ Range(ops') BY <1>4
        <5> QED BY <3>1, <4>1, <5>1, <1>5, <1>12 DEF OwnPair
      <4>2. CASE pc'[t] # "insert"
        <5>1. pair' = pair BY <4>2, <1>1, <1>2 DEF Inv, Ranges
        <5> QED BY <3>1, <4>2, <5>1, <1>5 DEF OwnPair
      <4> QED BY <4>1, <4>2
    <3>2. CASE u # t
      <4>1. pc'[u] = pc[u] /\ pair'[u] = pair[u] BY <3>2, <1>6, <1>7, ThreadFacts
      <4>2. Ops \ Range(ops) \subseteq Ops \ Range(ops') BY <1>4
      <4>3. OwnPair(u) BY DEF Inv, Evaluation
      <4> QED BY <4>1, <4>2, <4>3, <1>5 DEF OwnPair
    <3> QED BY <3>1, <3>2
  <2>2. \A u \in EventThreads : Evaluating(u)' => rcvd'[u] = <<>> /\ info'[cur'[u]] = Latest'
    BY <1>1, <1>5, <1>10 DEF Inv, Evaluation
  <2>3. ASSUME NEW u \in EventThreads, NEW v \in EventThreads,
               pc'[u] = "insert", pc'[v] = "insert", pair'[u].op = pair'[v].op
        PROVE  u = v
    <3>1. CASE u # t /\ v # t
      BY <3>1, <2>3, <1>6, <1>7, ThreadFacts DEF Inv, Evaluation
    <3>2. CASE u = t /\ v # t
      <4>1. pair'[t].op = o BY <3>2, <2>3, <1>12
      <4>2. pair[v].op \notin Range(ops) /\ pair'[v] = pair[v]
        BY <3>2, <2>3, <1>6, <1>7, <1>11, ThreadFacts
      <4> QED BY <4>1, <4>2, <3>2, <2>3, <1>4
    <3>3. CASE u # t /\ v = t
      <4>1. pair'[t].op = o BY <3>3, <2>3, <1>12
      <4>2. pair[u].op \notin Range(ops) /\ pair'[u] = pair[u]
        BY <3>3, <2>3, <1>6, <1>7, <1>11, ThreadFacts
      <4> QED BY <4>1, <4>2, <3>3, <2>3, <1>4
    <3> QED BY <3>1, <3>2, <3>3
  <2> QED BY <2>1, <2>2, <2>3 DEF Evaluation
<1>14. Busy' = Busy BY <1>1, <1>10, BusySame
<1>15. \A q \in PacketThreads : Carries(q)' = Carries(q) /\ pc'[q] = pc[q]
  BY <1>6, ThreadFacts DEF Carries
<1>16. \A x \in Ops : seen'[x] = Len(collected') + (IF x \in Range(ops') THEN 0 ELSE 1)
  <2> TAKE x \in Ops
  <2>0. Len(collected) \in Nat /\ seen[x] = Len(collected) + (IF x \in Range(ops) THEN 0 ELSE 1)
    BY <1>3 DEF Working, Inv, Log
  <2>1. CASE x = o
    <3>1. seen'[x] = seen[x] + 1 BY <2>1, <1>1 DEF Inv, Ranges
    <3> QED BY <2>0, <2>1, <3>1, <1>1, <1>4
  <2>2. CASE x # o
    <3>1. seen'[x] = seen[x] /\ (x \in Range(ops') <=> x \in Range(ops))
      BY <2>2, <1>1, <1>4 DEF Inv, Ranges
    <3> QED BY <2>0, <3>1, <1>1
  <2> QED BY <2>1, <2>2
<1>17. Working(p)'
  BY <1>1, <1>3, <1>5, <1>14, <1>15, <1>16 DEF Working, NoInterrupt
<1> QED BY <1>8, <1>9, <1>13, <1>17 DEF Inv, Stage

LEMMA AssignInv == ASSUME Inv, NEW t \in EventThreads, Assign(t) PROVE Inv'
<1>1. /\ pc[t] = "insert" /\ last' = t /\ t \in Threads
      /\ buf' = [buf EXCEPT ![pair[t].op] = Consumed(t)] /\ pair' = [pair EXCEPT ![t] = NoPair]
      /\ pc' = [pc EXCEPT ![t] = "evaluate"]
      /\ UNCHANGED <<info, cur, issued, pending, sq, rcvd, ops, seen,
                     sem, waiting, need, collected, arrived>>
  BY ThreadFacts DEF Assign, irqs, units
<1>2. PICK p \in PacketThreads : Working(p) BY <1>1, BusyMeansWorking DEF Evaluating
<1>3. /\ pc' \in [Threads -> Places] /\ pc'[t] = "evaluate"
      /\ \A u \in Threads : u # t => pc'[u] = pc[u]
  BY <1>1 DEF Inv, Ranges, Places
<1>4. /\ pair' = [u \in EventThreads |-> pair'[u]] /\ pair'[t] = NoPair
      /\ \A u \in EventThreads : u # t => pair'[u] = pair[u]
  BY <1>1 DEF Inv, Ranges
<1>5. Ranges'
  <2>1. buf' = [x \in Ops |-> buf'[x]] BY <1>1 DEF Inv, Ranges
  <2>2. \A u \in EventThreads : pc'[u] \in {"asleep", "ready", "evaluate", "insert"}
    BY <1>3, ThreadFacts DEF Inv, Ranges
  <2>3. \A q \in PacketThreads : pc'[q] = pc[q] BY <1>3, ThreadFacts
  <2>4. last' \in Threads \cup {Irq} BY <1>1
  <2> QED BY <2>1, <2>2, <2>3, <2>4, <1>1, <1>3, <1>4 DEF Inv, Ranges
<1>6. Log' /\ Latest' = Latest BY <1>1 DEF Inv, Log, Latest
<1>7. \A u \in EventThreads : Evaluating(u)' = Evaluating(u)
  BY <1>1, <1>3, ThreadFacts DEF Evaluating
<1>8. Evaluation'
  <2>1. \A u \in EventThreads : u # t => pc'[u] = pc[u] /\ pair'[u] = pair[u]
    BY <1>3, <1>4, ThreadFacts
  <2>2. \A u \in EventThreads : OwnPair(u)'
    <3> TAKE u \in EventThreads
    <3>1. CASE u = t BY <3>1, <1>3, <1>4 DEF OwnPair
    <3>2. CASE u # t
      <4>1. pc'[u] = pc[u] /\ pair'[u] = pair[u] /\ ops' = ops /\ Latest' = Latest
        BY <3>2, <2>1, <1>1, <1>6
      <4>2. OwnPair(u) BY DEF Inv, Evaluation
      <4> QED BY <4>1, <4>2 DEF OwnPair
    <3> QED BY <3>1, <3>2
  <2>3. \A u \in EventThreads : Evaluating(u)' => rcvd'[u] = <<>> /\ info'[cur'[u]] = Latest'
    BY <1>1, <1>6, <1>7 DEF Inv, Evaluation
  <2>4. \A u, v \in EventThreads :
          pc'[u] = "insert" /\ pc'[v] = "insert" /\ pair'[u].op = pair'[v].op => u = v
    BY <2>1, <1>3 DEF Inv, Evaluation
  <2> QED BY <2>2, <2>3, <2>4 DEF Evaluation
<1>9. Busy' = Busy BY <1>1, <1>7, BusySame
<1>10. \A q \in PacketThreads : Carries(q)' = Carries(q) /\ pc'[q] = pc[q]
  BY <1>3, ThreadFacts DEF Carries
<1>11. Working(p)' BY <1>1, <1>2, <1>6, <1>9, <1>10 DEF Working, NoInterrupt
<1> QED BY <1>5, <1>6, <1>8, <1>11 DEF Inv, Stage

LEMMA LeaveInv == ASSUME Inv, NEW t \in EventThreads, Leave(t) PROVE Inv'
<1>1. /\ pc[t] = "evaluate" /\ ops = <<>> /\ last' = t /\ t \in Threads
      /\ UNCHANGED <<info, cur, issued, pending, sq, rcvd, ops, buf, pair, seen, reported,
                     collected, arrived>>
  BY ThreadFacts DEF Leave, irqs, engine
<1>2. PICK p \in PacketThreads : Working(p) BY <1>1, BusyMeansWorking DEF Evaluating
<1>3. p \in Threads /\ p # t /\ need[p] \in 0 .. Cardinality(EventThreads)
      /\ Cardinality(EventThreads) \in Nat /\ sem \in Nat
  BY ThreadFacts DEF Inv, Ranges
<1>4. t \in Busy /\ rcvd[t] = <<>> BY <1>1 DEF Busy, Evaluating, Inv, Evaluation
<1>5. /\ Cardinality(Busy \ {t}) = Cardinality(Busy) - 1 /\ Cardinality(Busy) \in Nat
      /\ Cardinality(Busy) > 0
  <2>1. IsFiniteSet(Busy) /\ Cardinality(Busy) \in Nat BY BusyFinite
  <2>2. IsFiniteSet(Busy \ {t}) /\ Cardinality(Busy \ {t}) = Cardinality(Busy) - 1
    BY <2>1, <1>4, FS_RemoveElement
  <2>3. Cardinality(Busy \ {t}) \in Nat BY <2>2, FS_CardinalityType
  <2> QED BY <2>1, <2>2, <2>3
<1>6. need[p] = sem + Cardinality(Busy) BY <1>2 DEF Working
<1>7. \/ /\ waiting = <<>> /\ waiting' = <<>> /\ sem' = sem + 1 /\ need' = need
         /\ pc' = [pc EXCEPT ![t] = "ready"] /\ pc[p] = "collect"
      \/ /\ waiting' = <<>> /\ sem' = sem /\ need' = [need EXCEPT ![p] = @ - 1]
         /\ pc' = [pc EXCEPT ![t] = "ready", ![p] = "collect"]
  <2>1. (waiting = <<>> /\ pc[p] = "collect") \/ waiting = <<p>> BY <1>2, Single DEF Working
  <2>2. waiting = <<p>> => waiting # <<>> /\ Head(waiting) = p /\ Tail(waiting) = <<>> BY Single
  <2> QED BY <2>1, <2>2 DEF Leave, StillWaiting
<1>8. /\ pc' \in [Threads -> Places] /\ pc'[t] = "ready" /\ pc'[p] = "collect"
      /\ \A u \in Threads : u # t /\ u # p => pc'[u] = pc[u]
  BY <1>1, <1>3, <1>7 DEF Inv, Ranges, Places
<1>9. /\ sem' \in Nat /\ need' \in [PacketThreads -> 0 .. Cardinality(EventThreads)]
      /\ need'[p] = sem' + (Cardinality(Busy) - 1)
  <2>1. need[p] - 1 \in 0 .. Cardinality(EventThreads) BY <1>3, <1>5, <1>6
  <2>2. need \in [PacketThreads -> 0 .. Cardinality(EventThreads)] BY DEF Inv, Ranges
  <2>3. CASE sem' = sem + 1 /\ need' = need BY <2>2, <2>3, <1>3, <1>5, <1>6
  <2>4. CASE sem' = sem /\ need' = [need EXCEPT ![p] = @ - 1]
    <3>1. need'[p] = need[p] - 1 /\ need' \in [PacketThreads -> 0 .. Cardinality(EventThreads)]
      BY <2>1, <2>2, <2>4
    <3> QED BY <2>4, <3>1, <1>3, <1>5, <1>6
  <2> QED BY <2>3, <2>4, <1>7
<1>10. Ranges'
  <2>1. \A u \in EventThreads : pc'[u] \in {"asleep", "ready", "evaluate", "insert"}
    BY <1>8, ThreadFacts DEF Inv, Ranges
  <2>2. \A q \in PacketThreads : pc'[q] \in {"asleep", "ready", "received", "collect", "blocked", "send"}
    BY <1>8, ThreadFacts DEF Inv, Ranges
  <2>3. last' \in Threads \cup {Irq} BY <1>1
  <2> QED BY <2>1, <2>2, <2>3, <1>1, <1>8, <1>9 DEF Inv, Ranges
<1>11. Log' /\ Latest' = Latest BY <1>1 DEF Inv, Log, Latest
<1>12. \A u \in EventThreads : u # t => pc'[u] = pc[u] BY <1>8, ThreadFacts
<1>13. Evaluation'
  <2>1. pc'[t] # "insert" /\ ~Evaluating(t)' BY <1>8 DEF Evaluating
  <2>2. \A u \in EventThreads : OwnPair(u)'
    <3> TAKE u \in EventThreads
    <3>1. CASE u = t BY <3>1, <2>1, <1>1 DEF Inv, Evaluation, OwnPair
    <3>2. CASE u # t BY <3>2, <1>1, <1>11, <1>12 DEF Inv, Evaluation, OwnPair
    <3> QED BY <3>1, <3>2
  <2>3. \A u \in EventThreads : Evaluating(u)' => rcvd'[u] = <<>> /\ info'[cur'[u]] = Latest'
    BY <2>1, <1>1, <1>11, <1>12 DEF Inv, Evaluation, Evaluating
  <2>4. \A u, v \in EventThreads :
          pc'[u] = "insert" /\ pc'[v] = "insert" /\ pair'[u].op = pair'[v].op => u = v
    BY <2>1, <1>1, <1>12 DEF Inv, Evaluation
  <2> QED BY <2>2, <2>3, <2>4 DEF Evaluation
<1>14. Busy' = Busy \ {t} BY <1>1, <1>4, <1>8, <1>12 DEF Busy, Evaluating
<1>15. \A q \in PacketThreads : Carries(q)' => q = p
  BY <1>2, <1>8, ThreadFacts DEF Working, Carries
<1>16. Working(p)'
  <2>1. need'[p] = sem' + Cardinality(Busy') BY <1>5, <1>9, <1>14
  <2>2. waiting' = <<>> BY <1>7
  <2> QED BY <2>1, <2>2, <1>1, <1>2, <1>8, <1>11, <1>15 DEF Working, NoInterrupt
<1> QED BY <1>10, <1>11, <1>13, <1>16 DEF Inv, Stage

LEMMA NextInv == ASSUME Inv, Spaced, [Next]_vars PROVE Inv'
<1>1. CASE Arrive BY <1>1, ArriveInv
<1>2. CASE Issue BY <1>2, IssueInv
<1>3. CASE Interrupt BY <1>3, InterruptInv
<1>4. ASSUME NEW p \in PacketThreads, PacketStep(p) PROVE Inv'
  BY <1>4, ReceiveInv, DistributeInv, ResumeInv, SendInv DEF PacketStep
<1>5. ASSUME NEW t \in EventThreads, EventStep(t) PROVE Inv'
  BY <1>5, TakeInv, EvaluateInv, AssignInv, LeaveInv DEF EventStep
<1>6. CASE UNCHANGED vars
  <2>1. UNCHANGED <<info, cur, last, issued, pending, sq, rcvd, ops, buf, pc, need, pair,
                    sem, waiting, arrived, seen, collected, reported>>
    BY <1>6 DEF vars
  <2>2. Ranges' /\ Log' /\ Latest' = Latest /\ Busy' = Busy
    BY <2>1 DEF Inv, Ranges, Log, Latest, Busy, Evaluating
  <2>3. Evaluation' BY <2>1, <2>2 DEF Inv, Evaluation, OwnPair, Evaluating
  <2>4. Stage'
    BY <2>1, <2>2 DEF Inv, Stage, Done, Raised, Requested, Queued, Given, Working,
                      NoInterrupt, NobodyCarries, Carries, AllAsleep, NobodyBusy, NotShown
  <2> QED BY <2>2, <2>3, <2>4 DEF Inv
<1> QED BY <1>1, <1>2, <1>3, <1>4, <1>5, <1>6 DEF Next

-----------------------------------------------------------------------------
LEMMA Product == ASSUME NEW a \in Nat, NEW b \in Nat, b > 0 PROVE a <= a * b
<1>1. a * (b - 1) >= 0 OBVIOUS
<1>2. a * b = a * (b - 1) + a OBVIOUS
<1> QED BY <1>1, <1>2

LEMMA InvTypeOK == Inv => TypeOK
<1> SUFFICES ASSUME Inv PROVE TypeOK OBVIOUS
<1> DEFINE B == {p \in PacketThreads : pc[p] = "blocked"}
<1>1. Range(<<>>) = {} /\ \A p : Range(<<p>>) = {p} BY Single DEF Range
<1>2. 0 \in 0 .. Cardinality(EventThreads) * MaxEvents
  <2>1. Cardinality(EventThreads) \in Nat /\ MaxEvents \in Nat BY ThreadFacts
  <2>2. Cardinality(EventThreads) * MaxEvents \in Nat BY <2>1
  <2> QED BY <2>2
<1>3. sem \in 0 .. Cardinality(EventThreads) * MaxEvents /\ Range(waiting) = B
  <2>1. CASE NobodyBusy /\ \A p \in PacketThreads : pc[p] # "blocked"
    <3>1. sem = 0 /\ waiting = <<>> /\ B = {} BY <2>1 DEF NobodyBusy
    <3> QED BY <3>1, <1>1, <1>2
  <2>2. ASSUME NEW p \in PacketThreads, Working(p)
        PROVE  sem \in 0 .. Cardinality(EventThreads) * MaxEvents /\ Range(waiting) = B
    <3>1. /\ need[p] = sem + Cardinality(Busy) /\ sem \in Nat /\ Cardinality(Busy) \in Nat
          /\ need[p] <= Cardinality(EventThreads)
          /\ MaxEvents \in Nat /\ MaxEvents > 0 /\ Cardinality(EventThreads) \in Nat
      BY <2>2, ThreadFacts, BusyFinite DEF Working, Inv, Ranges, Log
    <3>2. Cardinality(EventThreads) <= Cardinality(EventThreads) * MaxEvents BY <3>1, Product
    <3>3. Cardinality(EventThreads) * MaxEvents \in Nat BY <3>1
    <3>4. sem \in 0 .. Cardinality(EventThreads) * MaxEvents BY <3>1, <3>2, <3>3
    <3>5. B = IF pc[p] = "blocked" THEN {p} ELSE {} BY <2>2 DEF Working, Carries
    <3>6. Range(waiting) = IF pc[p] = "blocked" THEN {p} ELSE {} BY <2>2, <1>1 DEF Working
    <3> QED BY <3>4, <3>5, <3>6
  <2>3. (NobodyBusy /\ \A p \in PacketThreads : pc[p] # "blocked") \/ \E p \in PacketThreads : Working(p)
    BY ThreadFacts DEF Inv, Stage, Done, Raised, Requested, Queued, Given,
                       NobodyCarries, Carries, AllAsleep
  <2> QED BY <2>1, <2>2, <2>3
<1> QED BY <1>3 DEF Inv, Ranges, TypeOK

LEMMA InvCollected == Inv => ResultsCollected
<1> SUFFICES ASSUME Inv, NEW t \in EventThreads, NEW e \in AtHand(t), NEW k \in DOMAIN collected,
                    collected[k] = e
             PROVE  FALSE
  BY DEF ResultsCollected, Range
<1>1. rcvd[t] # <<>> \/ Evaluating(t) BY DEF AtHand, Range, Evaluating
<1>2. PICK p \in PacketThreads : Working(p) BY <1>1, BusyMeansWorking
<1>3. Len(collected) \in Nat /\ Len(arrived) = Len(collected) + 1 /\ arrived \in Seq(Events)
  BY <1>2 DEF Working, Inv, Log
<1>4. Latest.seq = Len(collected) + 1 BY <1>3 DEF Latest, Inv, Log
<1>5. e = Latest
  <2>1. \A i \in Range(rcvd[t]) : info[i] = Latest BY <1>2, Single DEF Working, Range
  <2>2. Evaluating(t) => info[cur[t]] = Latest BY DEF Inv, Evaluation
  <2> QED BY <2>1, <2>2 DEF AtHand, Evaluating
<1>6. k \in 1 .. Len(collected) /\ collected[k].seq = k BY <1>3 DEF Inv, Log
<1> QED BY <1>3, <1>4, <1>5, <1>6

LEMMA Invariance == ASSUME Spaced PROVE Spec => []Inv
<1>1. Inv /\ [Next]_vars => Inv' BY NextInv
<1> QED BY <1>1, InitInv, PTL DEF Spec

(* The infos, the queues and the program counters keep their types, and exactly the *)
(* packet threads in the line of packet-threads-SEM are blocked, when an event only *)
(* arrives (CEPEngine::ProcessCepEvent) after the last one is dealt with.           *)
THEOREM TypeCorrect == ASSUME Spaced PROVE Spec => []TypeOK
BY Invariance, InvTypeOK, PTL

(* When an event only arrives after the last one is dealt with, trex.device collects *)
(* its results when no event thread has it at hand any more, for any numbers of      *)
(* threads and operators. Without Spaced the run TrexOverlap refutes it.             *)
LEMMA ResultsAreCollected == ASSUME Spaced PROVE Spec => []ResultsCollected
BY Invariance, InvCollected, PTL

-----------------------------------------------------------------------------
(* The refinement of Detection. The buffers of an operator are settled by the    *)
(* pair that is still pending for it, if there is one.                            *)
Mine(t, o) == pc[t] = "insert" /\ pair[t].op = o

PairsHeld == Pending = {pair[t] : t \in {u \in EventThreads : pc[u] = "insert"}}
SettledByHolder ==
  \A o \in Ops :
    /\ \A t \in EventThreads : Mine(t, o) => Settled(o) = Consume(buf[o], pair[t])
    /\ (\A t \in EventThreads : ~Mine(t, o)) => Settled(o) = buf[o]

LEMMA PendingPairs == Inv => PairsHeld
<1> SUFFICES ASSUME Inv PROVE PairsHeld OBVIOUS
<1>1. \A t \in EventThreads : pair[t] # NoPair <=> pc[t] = "insert"
  <2> TAKE t \in EventThreads
  <2>1. OwnPair(t) BY DEF Inv, Evaluation
  <2>2. CASE pc[t] = "insert"
    <3>1. PICK o, f : pair[t] = [op |-> o, first |-> f, second |-> Latest] BY <2>1, <2>2 DEF OwnPair
    <3>2. DOMAIN pair[t] # DOMAIN NoPair BY <3>1 DEF NoPair
    <3> QED BY <2>2, <3>2
  <2> QED BY <2>1, <2>2 DEF OwnPair
<1> QED BY <1>1 DEF Pending, PairsHeld

LEMMA SettledIs == Inv => SettledByHolder
<1> SUFFICES ASSUME Inv, NEW o \in Ops
             PROVE  /\ \A t \in EventThreads : Mine(t, o) => Settled(o) = Consume(buf[o], pair[t])
                    /\ (\A t \in EventThreads : ~Mine(t, o)) => Settled(o) = buf[o]
  BY DEF SettledByHolder
<1> DEFINE mine == {c \in Pending : c.op = o}
<1>1. mine = {pair[t] : t \in {u \in EventThreads : Mine(u, o)}} BY PendingPairs DEF Mine, PairsHeld
<1>2. ASSUME NEW t \in EventThreads, Mine(t, o) PROVE Settled(o) = Consume(buf[o], pair[t])
  <2>1. \A u \in EventThreads : Mine(u, o) => u = t BY <1>2 DEF Mine, Inv, Evaluation
  <2>2. mine = {pair[t]} BY <1>1, <1>2, <2>1
  <2>3. (CHOOSE c \in mine : TRUE) = pair[t] BY <2>2
  <2> QED BY <2>2, <2>3 DEF Settled
<1>3. ASSUME \A t \in EventThreads : ~Mine(t, o) PROVE Settled(o) = buf[o]
  <2>1. mine = {} BY <1>1, <1>3
  <2> QED BY <2>1 DEF Settled
<1> QED BY <1>2, <1>3

LEMMA Unseen ==
  ASSUME UNCHANGED <<buf, pair>>
  PROVE  Pending' = Pending /\ \A o \in Ops : Settled(o)' = Settled(o)
BY DEF Pending, Settled

LEMMA Stutters ==
  ASSUME UNCHANGED <<arrived, seen, buf, pair, reported, collected>> PROVE UNCHANGED D!dvars
BY Unseen DEF D!dvars

LEMMA InitDetects == Init => D!Init
<1> SUFFICES ASSUME Init PROVE D!Init OBVIOUS
<1>1. Pending = {} BY DEF Init, Pending
<1>2. \A o \in Ops : Settled(o) = [first |-> <<>>, second |-> <<>>]
  BY <1>1 DEF Init, Settled, Buffers
<1>3. Len(collected) = 0 BY DEF Init
<1> QED BY <1>1, <1>2, <1>3 DEF Init, D!Init

LEMMA ArriveDetects == ASSUME Arrive PROVE D!Arrive
<1>1. UNCHANGED <<buf, pair, seen, reported, collected>> BY DEF Arrive, engine, units
<1> QED BY <1>1, Unseen DEF Arrive, D!Arrive

LEMMA EvaluateDetects ==
  ASSUME Inv, Inv', NEW t \in EventThreads, Evaluate(t)
  PROVE  \E o \in Ops : D!Evaluate(o)
<1>4. PICK o \in Ops : o = Head(ops) /\ o \in Range(ops)
  BY HeadOnce DEF Inv, Ranges, Evaluate
<1> DEFINE e == info[cur[t]]
           b == Put(o, buf[o], e)
           found == Partner(o, b, e)
           new == [op |-> o, first |-> found[1], second |-> e]
<1>1. /\ pc[t] = "evaluate" /\ ops # <<>> /\ t \in Threads
      /\ buf' = [buf EXCEPT ![o] = b] /\ seen' = [seen EXCEPT ![o] = @ + 1]
      /\ UNCHANGED <<reported, collected, arrived>>
  BY <1>4, ThreadFacts DEF Evaluate, units
<1>2. \/ found = <<>> /\ pair' = pair /\ pc' = pc
      \/ found # <<>> /\ pair' = [pair EXCEPT ![t] = new] /\ pc' = [pc EXCEPT ![t] = "insert"]
  BY <1>4 DEF Evaluate
<1>3. PICK p \in PacketThreads : Working(p) BY <1>1, BusyMeansWorking DEF Evaluating
<1> HIDE DEF b, found, new
<1>5. seen[o] < Len(arrived) /\ e = arrived[seen[o] + 1]
  <2>1. /\ seen[o] = Len(collected) /\ Len(arrived) = Len(collected) + 1
        /\ Len(collected) \in Nat
    BY <1>3, <1>4 DEF Working, Inv, Log
  <2>2. e = Latest BY <1>1 DEF Inv, Evaluation, Evaluating
  <2> QED BY <2>1, <2>2 DEF Latest
<1>6. \A u \in EventThreads : ~Mine(u, o)
  <2>1. \A u \in EventThreads : pc[u] = "insert" => pair[u].op \notin Range(ops)
    <3> SUFFICES ASSUME NEW u \in EventThreads, pc[u] = "insert" PROVE pair[u].op \notin Range(ops)
      OBVIOUS
    <3>1. OwnPair(u) BY DEF Inv, Evaluation
    <3>2. PICK x \in Ops \ Range(ops) : \E f : pair[u] = [op |-> x, first |-> f, second |-> Latest]
      BY <3>1 DEF OwnPair
    <3> QED BY <3>2
  <2> QED BY <2>1, <1>4 DEF Mine
<1>14. \A u \in EventThreads : u # t => pc'[u] = pc[u] /\ pair'[u] = pair[u]
  BY <1>2, ThreadFacts DEF Inv, Ranges
<1>7. Settled(o) = buf[o] BY <1>4, <1>6, SettledIs DEF SettledByHolder
<1>8. SettledByHolder' /\ SettledByHolder BY SettledIs, PTL
<1>9. ASSUME NEW x \in Ops, x # o PROVE Settled(x)' = Settled(x)
  <2>1. buf'[x] = buf[x] BY <1>9, <1>1 DEF Inv, Ranges
  <2>2. ~Mine(t, x)' /\ ~Mine(t, x)
    <3>1. CASE pc' = pc BY <3>1, <1>1 DEF Mine
    <3>2. CASE pair' = [pair EXCEPT ![t] = new]
      <4>1. pair'[t] = new BY <3>2 DEF Inv, Ranges
      <4>2. pair'[t].op = o BY <4>1 DEF new
      <4> QED BY <4>2, <1>1, <1>9 DEF Mine
    <3> QED BY <3>1, <3>2, <1>2
  <2>3. \A u \in EventThreads : Mine(u, x)' = Mine(u, x) /\ (Mine(u, x) => pair'[u] = pair[u])
    BY <2>2, <1>14 DEF Mine
  <2>4. CASE \E u \in EventThreads : Mine(u, x)
    <3>1. PICK u \in EventThreads : Mine(u, x) BY <2>4
    <3>2. Settled(x) = Consume(buf[x], pair[u]) BY <3>1, <1>8 DEF SettledByHolder
    <3>3. Settled(x)' = Consume(buf'[x], pair'[u]) BY <3>1, <2>3, <1>8 DEF SettledByHolder
    <3> QED BY <3>1, <3>2, <3>3, <2>1, <2>3
  <2>5. CASE \A u \in EventThreads : ~Mine(u, x)
    BY <2>5, <2>1, <2>3, <1>8 DEF SettledByHolder
  <2> QED BY <2>4, <2>5
<1>10. b = Put(o, Settled(o), e) /\ found = Partner(o, b, e) BY <1>7 DEF b, found
<1>11. buf'[o] = b BY <1>1, <1>4 DEF Inv, Ranges
<1>12. CASE found = <<>> /\ pair' = pair /\ pc' = pc
  <2>1. Pending' = Pending BY <1>12 DEF Pending
  <2>2. Settled(o)' = b BY <1>4, <1>6, <1>8, <1>11, <1>12 DEF Mine, SettledByHolder
  <2>3. [x \in Ops |-> Settled(x)]' = [[x \in Ops |-> Settled(x)] EXCEPT ![o] = b]
    BY <2>2, <1>9
  <2> QED BY <2>1, <2>3, <1>1, <1>4, <1>5, <1>10, <1>12 DEF D!Evaluate, b, found
<1>13. CASE /\ found # <<>> /\ pair' = [pair EXCEPT ![t] = new]
            /\ pc' = [pc EXCEPT ![t] = "insert"]
  <2>1. pair'[t] = new /\ pc'[t] = "insert" /\ new.op = o
    BY <1>1, <1>13 DEF Inv, Ranges, new
  <2>2. Pending' = Pending \cup {new}
    <3>1. PairsHeld /\ PairsHeld' BY PendingPairs, PTL
    <3> QED BY <3>1, <2>1, <1>1, <1>14 DEF PairsHeld
  <2>3. Settled(o)' = Consume(b, new) BY <2>1, <1>4, <1>8, <1>11 DEF Mine, SettledByHolder
  <2>4. [x \in Ops |-> Settled(x)]' = [[x \in Ops |-> Settled(x)] EXCEPT ![o] = Consume(b, new)]
    BY <2>3, <1>9
  <2>5. (reported \cup Pending)' = (reported \cup Pending) \cup {new} BY <2>2, <1>1
  <2>6. new = D!Pair(o, found[1], e) BY DEF new, D!Pair
  <2>7. [x \in Ops |-> Settled(x)][o] = Settled(o) OBVIOUS
  <2> HIDE DEF e
  <2>8. D!Evaluate(o)
    BY <2>4, <2>5, <2>6, <2>7, <1>1, <1>5, <1>10, <1>13 DEF D!Evaluate
  <2> QED BY <2>8
<1> QED BY <1>2, <1>12, <1>13

(* The pair is reported when it is consumed; another thread may have reported an *)
(* equal one.                                                                     *)
LEMMA AssignDetects ==
  ASSUME Inv, Inv', NEW t \in EventThreads, Assign(t) PROVE D!Report \/ UNCHANGED D!dvars
<1> DEFINE c == pair[t]
<1>1. /\ pc[t] = "insert" /\ t \in Threads
      /\ reported' = reported \cup {c}
      /\ buf' = [buf EXCEPT ![c.op] = Consume(buf[c.op], c)]
      /\ pair' = [pair EXCEPT ![t] = NoPair] /\ pc' = [pc EXCEPT ![t] = "evaluate"]
      /\ UNCHANGED <<arrived, seen, collected>>
  BY ThreadFacts DEF Assign, Consumed, units
<1>2. PairsHeld /\ PairsHeld' /\ SettledByHolder /\ SettledByHolder'
  BY PendingPairs, SettledIs, PTL
<1>3. /\ pc'[t] = "evaluate"
      /\ \A u \in EventThreads : u # t => pc'[u] = pc[u] /\ pair'[u] = pair[u]
  BY <1>1, ThreadFacts DEF Inv, Ranges
<1>4. \A u \in EventThreads : u # t /\ pc[u] = "insert" => pair[u].op # c.op
  BY <1>1 DEF Inv, Evaluation
<1>5. c \in Pending /\ Pending' = Pending \ {c} BY <1>1, <1>2, <1>3, <1>4 DEF PairsHeld
<1>6. ASSUME NEW x \in Ops PROVE Settled(x)' = Settled(x)
  <2>1. CASE x = c.op
    <3>1. \A u \in EventThreads : ~Mine(u, x)' BY <2>1, <1>3, <1>4 DEF Mine
    <3>2. Settled(x)' = buf'[x] BY <3>1, <1>2 DEF SettledByHolder
    <3>3. Settled(x) = Consume(buf[x], c) BY <2>1, <1>1, <1>2 DEF SettledByHolder, Mine
    <3>4. buf'[x] = Consume(buf[x], c) BY <2>1, <1>1 DEF Inv, Ranges
    <3> QED BY <3>2, <3>3, <3>4
  <2>2. CASE x # c.op
    <3>1. buf'[x] = buf[x] BY <2>2, <1>1 DEF Inv, Ranges
    <3>2. \A u \in EventThreads : Mine(u, x)' = Mine(u, x) /\ (Mine(u, x) => pair'[u] = pair[u])
      BY <2>2, <1>3 DEF Mine
    <3>3. CASE \E u \in EventThreads : Mine(u, x)
      <4>1. PICK u \in EventThreads : Mine(u, x) BY <3>3
      <4>2. Settled(x) = Consume(buf[x], pair[u]) BY <4>1, <1>2 DEF SettledByHolder
      <4>3. Settled(x)' = Consume(buf'[x], pair'[u]) BY <4>1, <3>2, <1>2 DEF SettledByHolder
      <4> QED BY <4>1, <4>2, <4>3, <3>1, <3>2
    <3>4. CASE \A u \in EventThreads : ~Mine(u, x)
      BY <3>4, <3>1, <3>2, <1>2 DEF SettledByHolder
    <3> QED BY <3>3, <3>4
  <2> QED BY <2>1, <2>2
<1>7. /\ [x \in Ops |-> Settled(x)]' = [x \in Ops |-> Settled(x)]
      /\ (reported \cup Pending)' = reported \cup Pending /\ Len(collected)' = Len(collected)
  BY <1>1, <1>5, <1>6
<1>8. CASE c \in reported BY <1>1, <1>7, <1>8 DEF D!dvars
<1>9. CASE c \notin reported
  <2>1. c \in (reported \cup Pending) \ reported BY <1>5, <1>9
  <2> QED BY <2>1, <1>1, <1>7 DEF D!Report
<1> QED BY <1>8, <1>9

LEMMA CollectDetects ==
  ASSUME Inv, NEW p \in PacketThreads, Resume(p), sem >= need[p] PROVE D!Collect
<1>1. /\ sem >= need[p] /\ collected' = Append(collected, info[cur[p]])
      /\ UNCHANGED <<buf, pair, seen, reported, arrived>>
  BY ResumeCollects DEF Resume, engine
<1>2. Working(p) BY ResumeCollects
<1>3. Busy = {} /\ \A o \in Ops : seen[o] = Len(arrived) BY <1>1, <1>2, AllLeft
<1>4. Len(arrived) = Len(collected) + 1 /\ Len(collected) \in Nat /\ collected \in Seq(Events)
  BY <1>2 DEF Working, Inv, Log
<1>5. Pending = {}
  <2>1. \A t \in EventThreads : pc[t] # "insert" BY <1>3 DEF Busy, Evaluating
  <2>2. PairsHeld BY PendingPairs
  <2> QED BY <2>1, <2>2 DEF PairsHeld
<1>6. Len(collected') = Len(collected) + 1 BY <1>1, <1>4
<1> QED BY <1>1, <1>3, <1>4, <1>5, <1>6, Unseen DEF D!Collect

(* Everything else is out of Detection's sight. *)
LEMMA NextDetects ==
  ASSUME Inv, Inv', [Next]_vars PROVE [D!Next]_(D!dvars)
<1>1. CASE Arrive BY <1>1, ArriveDetects DEF D!Next
<1>2. CASE Issue \/ Interrupt BY <1>2, Stutters DEF Issue, Interrupt, engine, units
<1>3. ASSUME NEW p \in PacketThreads, PacketStep(p) PROVE [D!Next]_(D!dvars)
  <2>1. CASE Resume(p)
    <3>1. sem \in Nat /\ need[p] \in Nat BY DEF Inv, Ranges
    <3>2. CASE sem >= need[p] BY <2>1, <3>2, CollectDetects DEF D!Next
    <3>3. CASE sem < need[p]
      <4>1. UNCHANGED collected BY <2>1, <3>3, ResumeWaits
      <4> QED BY <2>1, <4>1, Stutters DEF Resume, engine
    <3> QED BY <3>1, <3>2, <3>3
  <2>2. CASE Receive(p) \/ Send(p)
    BY <2>2, Stutters DEF Receive, Send, engine, units
  <2>3. CASE Distribute(p)
    <3>1. UNCHANGED collected BY <2>3, DistributeInv
    <3> QED BY <2>3, <3>1, Stutters DEF Distribute
  <2> QED BY <1>3, <2>1, <2>2, <2>3 DEF PacketStep
<1>4. ASSUME NEW t \in EventThreads, EventStep(t) PROVE [D!Next]_(D!dvars)
  <2>1. CASE Evaluate(t) BY <2>1, EvaluateDetects DEF D!Next
  <2>2. CASE Assign(t) BY <2>2, AssignDetects DEF D!Next
  <2>3. CASE Take(t) \/ Leave(t) BY <2>3, Stutters DEF Take, Leave, engine, units
  <2> QED BY <1>4, <2>1, <2>2, <2>3 DEF EventStep
<1>5. CASE UNCHANGED vars BY <1>5, Stutters DEF vars
<1> QED BY <1>1, <1>2, <1>3, <1>4, <1>5 DEF Next

(* The shared queue of operators and the two-step report implement an engine that *)
(* shows each event to each operator once, in order, and consumes a match at once: *)
(* Detector and ThenOperator of cep-engine.cc under the threads of trex.device,     *)
(* when an event only arrives after the last one is dealt with.                     *)
LEMMA EngineDetects == ASSUME Spaced PROVE Spec => ImplementsDetection
<1>1. Inv /\ Inv' /\ [Next]_vars => [D!Next]_(D!dvars) BY NextDetects
<1>2. Init => D!Init BY InitDetects
<1> QED BY <1>1, <1>2, Invariance, PTL DEF Spec, ImplementsDetection, D!Spec
-----------------------------------------------------------------------------
(* The units of packet-threads-SEM, whenever events arrive: what the packet       *)
(* threads still need is what there is and what the event threads still owe.      *)
Units(S, f) == {x \in S \X Nat : x[2] \in 1 .. f[x[1]]}
Owes == [t \in EventThreads |->
           Len(rcvd[t]) + (IF Evaluating(t) THEN 1 ELSE 0)]
Due == Units(PacketThreads, need)
Owed == Units(EventThreads, Owes)

(* The elements of rcvd are whatever infos the packet threads had. *)
IsSequence(q) == \E S : q \in Seq(S)

(* The places of the threads and the line of the semaphore. *)
Line ==
  /\ pc \in [Threads -> Places]
  /\ \A t \in EventThreads : pc[t] \notin {"received", "collect", "blocked", "send"}
  /\ rcvd = [t \in EventThreads |-> rcvd[t]]
  /\ \A t \in EventThreads : IsSequence(rcvd[t]) /\ (rcvd[t] # <<>> => pc[t] # "asleep")
  /\ need \in [PacketThreads -> Nat] /\ sem \in Nat
  /\ \A p \in PacketThreads :
       /\ pc[p] \notin {"collect", "blocked"} => need[p] = 0
       /\ pc[p] = "blocked" => need[p] > 0
  /\ waiting \in Seq(PacketThreads) /\ IsInjective(waiting)
  /\ \A k \in DOMAIN waiting : pc[waiting[k]] = "blocked"
  /\ waiting # <<>> => sem = 0

Balance ==
  /\ IsFiniteSet(Due) /\ IsFiniteSet(Owed)
  /\ Cardinality(Due) = sem + Cardinality(Owed)

Count == Line /\ Balance

LEMMA Column ==
  ASSUME NEW s, NEW n \in Nat
  PROVE  IsFiniteSet({s} \X (1 .. n)) /\ Cardinality({s} \X (1 .. n)) = n
<1> DEFINE f == [i \in 1 .. n |-> <<s, i>>]
<1>1. f \in Bijection(1 .. n, {s} \X (1 .. n))
  <2>1. \A i \in 1 .. n : f[i] \in {s} \X (1 .. n) OBVIOUS
  <2>2. \A i, j \in 1 .. n : f[i] = f[j] => i = j OBVIOUS
  <2>3. \A x \in {s} \X (1 .. n) : \E i \in 1 .. n : f[i] = x OBVIOUS
  <2>4. f \in [1 .. n -> {s} \X (1 .. n)] BY <2>1
  <2> HIDE DEF f
  <2> QED BY <2>2, <2>3, <2>4 DEF Bijection, Injection, Surjection, IsInjective
<1> HIDE DEF f
<1>2. IsFiniteSet(1 .. n) /\ Cardinality(1 .. n) = n BY FS_Interval
<1>3. ExistsBijection(1 .. n, {s} \X (1 .. n)) BY <1>1 DEF ExistsBijection
<1> QED BY <1>2, <1>3, FS_Bijection

(* A thread's share changes from f[s] to g[s]. *)
LEMMA UnitsOfOne ==
  ASSUME NEW S, NEW f \in [S -> Nat], IsFiniteSet(Units(S, f)), NEW s \in S,
         NEW g \in [S -> Nat], \A u \in S : u # s => g[u] = f[u]
  PROVE  /\ IsFiniteSet(Units(S, g))
         /\ Cardinality(Units(S, g)) = Cardinality(Units(S, f)) - f[s] + g[s]
         /\ Cardinality(Units(S, f)) >= f[s]
<1> DEFINE rest == {x \in Units(S, f) : x[1] # s}
           old == {s} \X (1 .. f[s])
           new == {s} \X (1 .. g[s])
<1>1. f[s] \in Nat /\ g[s] \in Nat OBVIOUS
<1>2. Units(S, f) = rest \cup old /\ Units(S, g) = rest \cup new
      /\ rest \cap old = {} /\ rest \cap new = {}
  <2>1. \A x \in S \X Nat : x[1] # s => g[x[1]] = f[x[1]] OBVIOUS
  <2>2. old \subseteq S \X Nat /\ new \subseteq S \X Nat OBVIOUS
  <2>3. \A x \in S \X Nat : x[1] = s => (x \in old <=> x[2] \in 1 .. f[s]) /\ (x \in new <=> x[2] \in 1 .. g[s])
    OBVIOUS
  <2>4. \A x \in old \cup new : x[1] = s OBVIOUS
  <2> HIDE DEF old, new
  <2> QED BY <2>1, <2>2, <2>3, <2>4 DEF Units
<1>3. /\ IsFiniteSet(old) /\ Cardinality(old) = f[s] /\ IsFiniteSet(new) /\ Cardinality(new) = g[s]
  BY <1>1, Column
<1>4. rest \in SUBSET Units(S, f) OBVIOUS
<1>5. IsFiniteSet(rest) /\ Cardinality(rest) \in Nat BY <1>4, FS_Subset, FS_CardinalityType
<1> HIDE DEF rest, old, new
<1>6. Cardinality({}) = 0 BY FS_EmptySet
<1>7. Cardinality(Units(S, f)) = Cardinality(rest) + f[s]
  <2>1. /\ IsFiniteSet(rest \cup old)
        /\ Cardinality(rest \cup old) = Cardinality(rest) + Cardinality(old) - Cardinality(rest \cap old)
    BY <1>3, <1>5, FS_Union
  <2>2. Cardinality(Units(S, f)) = Cardinality(rest \cup old) /\ Cardinality(rest \cap old) = 0
    BY <1>2, <1>6
  <2> QED BY <2>1, <2>2, <1>3, <1>5
<1>8. IsFiniteSet(Units(S, g)) /\ Cardinality(Units(S, g)) = Cardinality(rest) + g[s]
  <2>1. /\ IsFiniteSet(rest \cup new)
        /\ Cardinality(rest \cup new) = Cardinality(rest) + Cardinality(new) - Cardinality(rest \cap new)
    BY <1>3, <1>5, FS_Union
  <2>2. Units(S, g) = rest \cup new /\ Cardinality(rest \cap new) = 0 BY <1>2, <1>6
  <2> QED BY <2>1, <2>2, <1>3, <1>5
<1>9. /\ Cardinality(Units(S, g)) = Cardinality(Units(S, f)) - f[s] + g[s]
      /\ Cardinality(Units(S, f)) >= f[s]
  BY <1>1, <1>5, <1>7, <1>8
<1> QED BY <1>8, <1>9

(* Everybody's share grows by one. *)
LEMMA UnitsOfAll ==
  ASSUME NEW S, IsFiniteSet(S), NEW f \in [S -> Nat], IsFiniteSet(Units(S, f)),
         NEW g \in [S -> Nat], \A s \in S : g[s] = f[s] + 1
  PROVE  /\ IsFiniteSet(Units(S, g))
         /\ Cardinality(Units(S, g)) = Cardinality(Units(S, f)) + Cardinality(S)
<1> DEFINE new == {<<s, g[s]>> : s \in S}
           h == [s \in S |-> <<s, g[s]>>]
<1>1. h \in Bijection(S, new)
  <2>1. \A s \in S : h[s] \in new OBVIOUS
  <2>2. \A s, u \in S : h[s] = h[u] => s = u OBVIOUS
  <2>3. \A x \in new : \E s \in S : h[s] = x OBVIOUS
  <2>4. h \in [S -> new] BY <2>1
  <2> HIDE DEF h, new
  <2> QED BY <2>2, <2>3, <2>4 DEF Bijection, Injection, Surjection, IsInjective
<1> HIDE DEF h
<1>2. IsFiniteSet(new) /\ Cardinality(new) = Cardinality(S)
  <2>1. ExistsBijection(S, new) BY <1>1 DEF ExistsBijection
  <2> HIDE DEF new
  <2> QED BY <2>1, FS_Bijection
<1>3. Units(S, g) = Units(S, f) \cup new /\ Units(S, f) \cap new = {}
  <2>1. \A s \in S, i \in Nat : i \in 1 .. g[s] <=> i \in 1 .. f[s] \/ i = g[s] OBVIOUS
  <2>2. \A s \in S : g[s] \notin 1 .. f[s] /\ g[s] \in Nat OBVIOUS
  <2>3. ASSUME NEW x \in S \X Nat
        PROVE  /\ x \in Units(S, g) <=> x \in Units(S, f) \/ x \in new
               /\ ~(x \in Units(S, f) /\ x \in new)
    <3>1. PICK s \in S, i \in Nat : x = <<s, i>> OBVIOUS
    <3>2. x \in new <=> i = g[s] BY <3>1
    <3> HIDE DEF new
    <3> QED BY <2>1, <2>2, <3>1, <3>2 DEF Units
  <2>4. new \subseteq S \X Nat BY <2>2
  <2> HIDE DEF new
  <2> QED BY <2>3, <2>4 DEF Units
<1> HIDE DEF new
<1>4. Cardinality({}) = 0 BY FS_EmptySet
<1>5. Cardinality(Units(S, f)) \in Nat /\ Cardinality(S) \in Nat BY FS_CardinalityType
<1> QED BY <1>2, <1>3, <1>4, <1>5, FS_Union

(* Nothing is left exactly when nobody has a share. *)
LEMMA UnitsNone ==
  ASSUME NEW S, NEW f \in [S -> Nat], IsFiniteSet(Units(S, f))
  PROVE  /\ Cardinality(Units(S, f)) \in Nat
         /\ Cardinality(Units(S, f)) = 0 <=> \A s \in S : f[s] = 0
<1>1. Cardinality(Units(S, f)) \in Nat BY FS_CardinalityType
<1>2. Cardinality(Units(S, f)) = 0 <=> Units(S, f) = {} BY FS_EmptySet
<1>3. (\A s \in S : f[s] = 0) => Units(S, f) = {} BY DEF Units
<1>4. ASSUME NEW s \in S, f[s] # 0 PROVE Units(S, f) # {}
  <2>1. 1 \in 1 .. f[s] BY <1>4
  <2>2. <<s, 1>> \in Units(S, f) BY <2>1 DEF Units
  <2> QED BY <2>2
<1> QED BY <1>1, <1>2, <1>3, <1>4

LEMMA SequenceAppend ==
  ASSUME NEW q, IsSequence(q), NEW x
  PROVE  IsSequence(Append(q, x)) /\ Len(Append(q, x)) = Len(q) + 1 /\ Len(q) \in Nat
<1>1. PICK S : q \in Seq(S) BY DEF IsSequence
<1>2. q \in Seq(S \cup {x}) /\ x \in S \cup {x} BY <1>1
<1>3. Append(q, x) \in Seq(S \cup {x}) /\ Len(Append(q, x)) = Len(q) + 1 /\ Len(q) \in Nat BY <1>2
<1> QED BY <1>3 DEF IsSequence

LEMMA SequenceTail ==
  ASSUME NEW q, IsSequence(q), q # <<>>
  PROVE  IsSequence(Tail(q)) /\ Len(Tail(q)) + 1 = Len(q) /\ Len(Tail(q)) \in Nat
<1>1. PICK S : q \in Seq(S) BY DEF IsSequence
<1>2. Tail(q) \in Seq(S) /\ Len(Tail(q)) + 1 = Len(q) /\ Len(Tail(q)) \in Nat BY <1>1
<1> QED BY <1>2 DEF IsSequence

LEMMA SequenceEmpty ==
  ASSUME NEW q, IsSequence(q)
  PROVE  Len(q) \in Nat /\ (Len(q) = 0 <=> q = <<>>) /\ (q # <<>> => Range(q) # {})
<1>1. PICK S : q \in Seq(S) BY DEF IsSequence
<1>2. Len(q) \in Nat /\ (Len(q) = 0 <=> q = <<>>) /\ (q # <<>> => 1 \in DOMAIN q) BY <1>1
<1> QED BY <1>2 DEF Range

LEMMA OwesType ==
  ASSUME Line
  PROVE  /\ Owes \in [EventThreads -> Nat]
         /\ \A t \in EventThreads : /\ Evaluating(t) => Owes[t] = Len(rcvd[t]) + 1
                                   /\ ~Evaluating(t) => Owes[t] = Len(rcvd[t])
<1>1. \A t \in EventThreads : Len(rcvd[t]) \in Nat BY SequenceEmpty DEF Line
<1>2. ASSUME NEW t \in EventThreads
      PROVE  /\ Owes[t] \in Nat
             /\ Evaluating(t) => Owes[t] = Len(rcvd[t]) + 1
             /\ ~Evaluating(t) => Owes[t] = Len(rcvd[t])
  <2>1. Len(rcvd[t]) \in Nat BY <1>1
  <2>2. Owes[t] = Len(rcvd[t]) + (IF Evaluating(t) THEN 1 ELSE 0) BY DEF Owes
  <2>3. CASE Evaluating(t) BY <2>1, <2>2, <2>3
  <2>4. CASE ~Evaluating(t) BY <2>1, <2>2, <2>4
  <2> QED BY <2>3, <2>4
<1>3. Owes = [t \in EventThreads |-> Owes[t]] BY DEF Owes
<1> QED BY <1>2, <1>3

LEMMA OwesTypeNext ==
  ASSUME Line'
  PROVE  /\ Owes' \in [EventThreads -> Nat]
         /\ \A t \in EventThreads : /\ Evaluating(t)' => Owes'[t] = Len(rcvd'[t]) + 1
                                   /\ ~Evaluating(t)' => Owes'[t] = Len(rcvd'[t])
<1>1. \A t \in EventThreads : Len(rcvd'[t]) \in Nat BY SequenceEmpty DEF Line
<1>2. ASSUME NEW t \in EventThreads
      PROVE  /\ Owes'[t] \in Nat
             /\ Evaluating(t)' => Owes'[t] = Len(rcvd'[t]) + 1
             /\ ~Evaluating(t)' => Owes'[t] = Len(rcvd'[t])
  <2>1. Len(rcvd'[t]) \in Nat BY <1>1
  <2>2. Owes'[t] = Len(rcvd'[t]) + (IF Evaluating(t)' THEN 1 ELSE 0) BY DEF Owes
  <2>3. CASE Evaluating(t)' BY <2>1, <2>2, <2>3
  <2>4. CASE ~Evaluating(t)' BY <2>1, <2>2, <2>4
  <2> QED BY <2>3, <2>4
<1>3. Owes' = [t \in EventThreads |-> Owes'[t]] BY DEF Owes
<1> QED BY <1>2, <1>3

-----------------------------------------------------------------------------
LEMMA InitCount == Init => Count
<1> SUFFICES ASSUME Init PROVE Count OBVIOUS
<1>1. /\ \A t \in Threads : pc[t] = "asleep" /\ pc \in [Threads -> Places]
      /\ \A t \in EventThreads : rcvd[t] = <<>> /\ need = [p \in PacketThreads |-> 0]
      /\ sem = 0 /\ waiting = <<>> /\ rcvd = [t \in EventThreads |-> <<>>]
  BY ThreadFacts DEF Init, Places
<1>2. IsSequence(<<>>) BY DEF IsSequence
<1>3. Line
  <2>1. IsInjective(waiting) /\ waiting \in Seq(PacketThreads) BY <1>1 DEF IsInjective
  <2>2. need \in [PacketThreads -> Nat] BY DEF Init
  <2> QED BY <1>1, <1>2, <2>1, <2>2, ThreadFacts DEF Line
<1>4. Due = {} BY DEF Init, Due, Units
<1>5. Owed = {}
  <2>1. \A t \in EventThreads : ~Evaluating(t) BY <1>1, ThreadFacts DEF Evaluating
  <2>2. \A t \in EventThreads : Owes[t] = Len(<<>>) BY <1>1, <1>3, <2>1, OwesType
  <2>3. \A t \in EventThreads : Owes[t] = 0 BY <2>2
  <2> QED BY <2>3 DEF Owed, Units
<1>6. Balance BY <1>1, <1>4, <1>5, FS_EmptySet DEF Balance
<1> QED BY <1>3, <1>6 DEF Count

(* Steps that neither take nor raise a unit, and hand out or finish no work. *)
LEMMA SameCount ==
  ASSUME Count, UNCHANGED <<need, sem, waiting>>, pc' \in [Threads -> Places],
         rcvd' = [t \in EventThreads |-> rcvd'[t]],
         \A t \in EventThreads :
           /\ pc'[t] \notin {"received", "collect", "blocked", "send"}
           /\ IsSequence(rcvd'[t]) /\ (rcvd'[t] # <<>> => pc'[t] # "asleep"),
         Owes' = Owes,
         \A p \in PacketThreads : \A l \in {"collect", "blocked"} : pc'[p] = l <=> pc[p] = l
  PROVE  Count'
<1>1. \A k \in DOMAIN waiting : waiting[k] \in PacketThreads BY DEF Count, Line
<1>2. Line' BY <1>1 DEF Count, Line
<1>3. Due' = Due /\ Owed' = Owed BY DEF Due, Owed
<1>4. Balance' BY <1>3 DEF Count, Balance
<1> QED BY <1>2, <1>4 DEF Count

LEMMA SameShares ==
  ASSUME rcvd' = rcvd, \A t \in EventThreads : Evaluating(t)' = Evaluating(t)
  PROVE  Owes' = Owes
BY DEF Owes

LEMMA BystanderCount ==
  ASSUME Count, UNCHANGED <<rcvd, need, sem, waiting>>, pc' \in [Threads -> Places],
         \A t \in EventThreads :
           /\ pc'[t] \notin {"received", "collect", "blocked", "send"}
           /\ Evaluating(t)' = Evaluating(t) /\ (rcvd[t] # <<>> => pc'[t] # "asleep"),
         \A p \in PacketThreads : \A l \in {"collect", "blocked"} : pc'[p] = l <=> pc[p] = l
  PROVE  Count'
<1>1. Owes' = Owes BY SameShares
<1>2. rcvd' = [t \in EventThreads |-> rcvd'[t]] /\ \A t \in EventThreads : IsSequence(rcvd'[t])
  BY DEF Count, Line
<1> QED BY <1>1, <1>2, SameCount

LEMMA Longer ==
  ASSUME NEW S, NEW q \in Seq(S), IsInjective(q), NEW x \in S, \A k \in DOMAIN q : q[k] # x
  PROVE  Append(q, x) \in Seq(S) /\ IsInjective(Append(q, x))
<1>1. /\ Append(q, x) \in Seq(S) /\ Len(q) \in Nat /\ Len(Append(q, x)) = Len(q) + 1
      /\ \A i \in 1 .. Len(q) : Append(q, x)[i] = q[i]
      /\ Append(q, x)[Len(q) + 1] = x
  BY AtTheEnd
<1>2. DOMAIN q = 1 .. Len(q) /\ DOMAIN Append(q, x) = 1 .. Len(q) + 1 BY <1>1
<1>3. \A i, j \in 1 .. Len(q) : q[i] = q[j] => i = j BY <1>2 DEF IsInjective
<1>4. ASSUME NEW i \in 1 .. Len(q) + 1, NEW j \in 1 .. Len(q) + 1, Append(q, x)[i] = Append(q, x)[j]
      PROVE  i = j
  <2>1. (i \in 1 .. Len(q) \/ i = Len(q) + 1) /\ (j \in 1 .. Len(q) \/ j = Len(q) + 1) BY <1>1
  <2> QED BY <2>1, <1>1, <1>2, <1>3, <1>4
<1> QED BY <1>1, <1>2, <1>4 DEF IsInjective

LEMMA Shorter ==
  ASSUME NEW S, NEW q \in Seq(S), IsInjective(q), q # <<>>
  PROVE  /\ Tail(q) \in Seq(S) /\ IsInjective(Tail(q)) /\ Head(q) \in S /\ 1 \in DOMAIN q
         /\ Head(q) = q[1]
         /\ \A k \in DOMAIN Tail(q) : k + 1 \in DOMAIN q /\ Tail(q)[k] = q[k + 1] /\ Tail(q)[k] # Head(q)
<1>1. /\ Tail(q) \in Seq(S) /\ Len(q) \in Nat /\ Len(q) > 0 /\ Len(Tail(q)) = Len(q) - 1
      /\ \A i \in 1 .. Len(q) - 1 : Tail(q)[i] = q[i + 1]
      /\ Head(q) = q[1] /\ Head(q) \in S
  BY AtTheFront
<1>2. DOMAIN q = 1 .. Len(q) /\ DOMAIN Tail(q) = 1 .. Len(q) - 1 BY <1>1
<1>3. \A i, j \in 1 .. Len(q) : q[i] = q[j] => i = j BY <1>2 DEF IsInjective
<1>4. IsInjective(Tail(q)) BY <1>1, <1>2, <1>3 DEF IsInjective
<1>5. \A k \in DOMAIN Tail(q) : k + 1 \in DOMAIN q /\ Tail(q)[k] = q[k + 1] /\ Tail(q)[k] # Head(q)
  BY <1>1, <1>2, <1>3
<1> QED BY <1>1, <1>2, <1>4, <1>5

LEMMA DueOfOne ==
  ASSUME IsFiniteSet(Due), need \in [PacketThreads -> Nat], need' \in [PacketThreads -> Nat],
         NEW p \in PacketThreads, \A q \in PacketThreads : q # p => need'[q] = need[q]
  PROVE  /\ IsFiniteSet(Due') /\ Cardinality(Due') = Cardinality(Due) - need[p] + need'[p]
         /\ Cardinality(Due) \in Nat
<1>1. Due = Units(PacketThreads, need) /\ Due' = Units(PacketThreads, need') BY DEF Due, Units
<1>2. IsFiniteSet(Units(PacketThreads, need)) BY <1>1
<1>3. /\ IsFiniteSet(Units(PacketThreads, need'))
      /\ Cardinality(Units(PacketThreads, need'))
           = Cardinality(Units(PacketThreads, need)) - need[p] + need'[p]
  BY <1>2, UnitsOfOne
<1>4. Cardinality(Units(PacketThreads, need)) \in Nat BY <1>2, FS_CardinalityType
<1> QED BY <1>1, <1>3, <1>4

LEMMA OwedOfOne ==
  ASSUME IsFiniteSet(Owed), Owes \in [EventThreads -> Nat], Owes' \in [EventThreads -> Nat],
         NEW t \in EventThreads, \A u \in EventThreads : u # t => Owes'[u] = Owes[u]
  PROVE  /\ IsFiniteSet(Owed') /\ Cardinality(Owed') = Cardinality(Owed) - Owes[t] + Owes'[t]
         /\ Cardinality(Owed) \in Nat /\ Cardinality(Owed') \in Nat
<1>1. Owed = Units(EventThreads, Owes) /\ Owed' = Units(EventThreads, Owes') BY DEF Owed, Units
<1>2. IsFiniteSet(Units(EventThreads, Owes)) BY <1>1
<1>3. /\ IsFiniteSet(Units(EventThreads, Owes'))
      /\ Cardinality(Units(EventThreads, Owes'))
           = Cardinality(Units(EventThreads, Owes)) - Owes[t] + Owes'[t]
  BY <1>2, UnitsOfOne
<1>4. /\ Cardinality(Units(EventThreads, Owes)) \in Nat
      /\ Cardinality(Units(EventThreads, Owes')) \in Nat
  BY <1>2, <1>3, FS_CardinalityType
<1> QED BY <1>1, <1>3, <1>4

(* The SEMDOWNs of p take what there is; what they do not get is due. *)
LEMMA DownCount ==
  ASSUME Count, NEW p \in PacketThreads, pc[p] # "blocked", NEW n \in Nat,
         NEW at, at \in [Threads -> Places], \A q \in PacketThreads : at[q] = pc[q],
         \A t \in EventThreads : at[t] \notin {"received", "collect", "blocked", "send"},
         Down(p, n, at)
  PROVE  /\ pc' \in [Threads -> Places] /\ \A t \in EventThreads : pc'[t] = at[t]
         /\ need' \in [PacketThreads -> Nat] /\ sem' \in Nat
         /\ \A q \in PacketThreads : /\ pc'[q] \notin {"collect", "blocked"} => need'[q] = 0
                                     /\ pc'[q] = "blocked" => need'[q] > 0
         /\ waiting' \in Seq(PacketThreads) /\ IsInjective(waiting')
         /\ \A k \in DOMAIN waiting' : pc'[waiting'[k]] = "blocked"
         /\ waiting' # <<>> => sem' = 0
         /\ IsFiniteSet(Due') /\ Cardinality(Due') - sem' = Cardinality(Due) - sem + n - need[p]
<1>1. /\ sem \in Nat /\ need \in [PacketThreads -> Nat] /\ need[p] \in Nat
      /\ waiting \in Seq(PacketThreads) /\ IsInjective(waiting) /\ (waiting # <<>> => sem = 0)
      /\ \A k \in DOMAIN waiting : waiting[k] \in PacketThreads /\ pc[waiting[k]] = "blocked"
  BY DEF Count, Line
<1>2. p \in Threads /\ \A t \in EventThreads : t \in Threads /\ t # p BY ThreadFacts
<1>3. \A q \in PacketThreads : q \in Threads BY ThreadFacts
<1>4. ASSUME NEW k \in Nat, need' = [need EXCEPT ![p] = k]
      PROVE  /\ IsFiniteSet(Due') /\ Cardinality(Due') = Cardinality(Due) - need[p] + k
             /\ Cardinality(Due) \in Nat
  <2>2. IsFiniteSet(Due) BY DEF Count, Balance
  <2>3. /\ need' \in [PacketThreads -> Nat] /\ need'[p] = k
        /\ \A q \in PacketThreads : q # p => need'[q] = need[q]
    BY <1>1, <1>4
  <2> QED BY <2>2, <2>3, <1>1, DueOfOne
<1>5. CASE sem < n
  <2>1. /\ sem' = 0 /\ need' = [need EXCEPT ![p] = n - sem] /\ waiting' = Append(waiting, p)
        /\ pc' = [at EXCEPT ![p] = "blocked"] /\ n - sem \in Nat /\ n - sem > 0
    BY <1>1, <1>5 DEF Down
  <2>2. /\ pc' \in [Threads -> Places] /\ pc'[p] = "blocked"
        /\ \A u \in Threads : u # p => pc'[u] = at[u]
    BY <2>1, <1>2 DEF Places
  <2>3. waiting' \in Seq(PacketThreads) /\ IsInjective(waiting')
    <3>1. \A k \in DOMAIN waiting : waiting[k] # p BY <1>1
    <3> QED BY <3>1, <2>1, <1>1, Longer
  <2>4. \A k \in DOMAIN waiting' : pc'[waiting'[k]] = "blocked"
    <3>1. /\ DOMAIN waiting' = 1 .. Len(waiting) + 1 /\ Len(waiting) \in Nat
          /\ DOMAIN waiting = 1 .. Len(waiting)
          /\ \A i \in 1 .. Len(waiting) : waiting'[i] = waiting[i]
          /\ waiting'[Len(waiting) + 1] = p
      BY <2>1, <1>1
    <3> TAKE k \in DOMAIN waiting'
    <3>2. CASE k = Len(waiting) + 1 BY <3>1, <3>2, <2>2
    <3>3. CASE k # Len(waiting) + 1
      <4>1. k \in DOMAIN waiting BY <3>1, <3>3
      <4>2. waiting'[k] = waiting[k] /\ waiting[k] \in PacketThreads /\ pc[waiting[k]] = "blocked"
        BY <4>1, <3>1, <1>1
      <4> QED BY <4>2, <2>2, <1>3
    <3> QED BY <3>2, <3>3
  <2>5. need' \in [PacketThreads -> Nat] /\ need'[p] = n - sem
        /\ \A q \in PacketThreads : q # p => need'[q] = need[q]
    BY <2>1, <1>1
  <2>6. \A q \in PacketThreads : /\ pc'[q] \notin {"collect", "blocked"} => need'[q] = 0
                                 /\ pc'[q] = "blocked" => need'[q] > 0
    BY <2>1, <2>2, <2>5, <1>3 DEF Count, Line
  <2>7. IsFiniteSet(Due') /\ Cardinality(Due') - sem' = Cardinality(Due) - sem + n - need[p]
    <3>1. /\ IsFiniteSet(Due') /\ Cardinality(Due') = Cardinality(Due) - need[p] + (n - sem)
          /\ Cardinality(Due) \in Nat
      BY <2>1, <1>4
    <3> QED BY <3>1, <2>1, <1>1
  <2> QED BY <2>1, <2>2, <2>3, <2>4, <2>5, <2>6, <2>7, <1>2
<1>6. CASE sem >= n
  <2>1. /\ sem' = sem - n /\ need' = [need EXCEPT ![p] = 0] /\ waiting' = waiting
        /\ pc' = [at EXCEPT ![p] = "send"] /\ sem - n \in Nat
    BY <1>1, <1>6 DEF Down
  <2>2. /\ pc' \in [Threads -> Places] /\ pc'[p] = "send"
        /\ \A u \in Threads : u # p => pc'[u] = at[u]
    BY <2>1, <1>2 DEF Places
  <2>3. \A k \in DOMAIN waiting' : pc'[waiting'[k]] = "blocked" BY <2>1, <2>2, <1>1, <1>3
  <2>4. waiting' # <<>> => sem' = 0 BY <2>1, <1>1
  <2>5. need' \in [PacketThreads -> Nat] /\ need'[p] = 0
        /\ \A q \in PacketThreads : q # p => need'[q] = need[q]
    BY <2>1, <1>1
  <2>6. \A q \in PacketThreads : /\ pc'[q] \notin {"collect", "blocked"} => need'[q] = 0
                                 /\ pc'[q] = "blocked" => need'[q] > 0
    BY <2>2, <2>5, <1>3 DEF Count, Line
  <2>7. IsFiniteSet(Due') /\ Cardinality(Due') - sem' = Cardinality(Due) - sem + n - need[p]
    <3>1. /\ IsFiniteSet(Due') /\ Cardinality(Due') = Cardinality(Due) - need[p] + 0
          /\ Cardinality(Due) \in Nat
      BY <2>1, <1>4
    <3> QED BY <3>1, <2>1, <1>1
  <2> QED BY <2>1, <2>2, <2>3, <2>4, <2>5, <2>6, <2>7, <1>1, <1>2
<1> QED BY <1>1, <1>5, <1>6

LEMMA DistributeCount == ASSUME Count, NEW p \in PacketThreads, Distribute(p) PROVE Count'
<1> DEFINE at == Woken(EventThreads)
<1>1. /\ pc[p] = "received" /\ Down(p, Cardinality(EventThreads), at)
      /\ rcvd' = [t \in EventThreads |-> Append(rcvd[t], cur[p])]
  BY DEF Distribute, Awaited, WokenUp
<1>2. /\ pc \in [Threads -> Places] /\ need[p] = 0
      /\ \A t \in EventThreads : pc[t] \notin {"received", "collect", "blocked", "send"}
      /\ \A t \in EventThreads : IsSequence(rcvd[t])
  BY <1>1 DEF Count, Line
<1>3. /\ at \in [Threads -> Places] /\ \A q \in PacketThreads : at[q] = pc[q]
      /\ \A t \in EventThreads : at[t] = IF pc[t] = "asleep" THEN "ready" ELSE pc[t]
  BY <1>2, ThreadFacts DEF Woken, Places
<1>4. \A t \in EventThreads : at[t] \notin {"received", "collect", "blocked", "send"} BY <1>2, <1>3
<1>5. Cardinality(EventThreads) \in Nat /\ IsFiniteSet(EventThreads)
  BY TrexAssumption, FS_CardinalityType
<1> HIDE DEF at
<1>6. /\ pc' \in [Threads -> Places] /\ \A t \in EventThreads : pc'[t] = at[t]
      /\ need' \in [PacketThreads -> Nat] /\ sem' \in Nat
      /\ \A q \in PacketThreads : /\ pc'[q] \notin {"collect", "blocked"} => need'[q] = 0
                                  /\ pc'[q] = "blocked" => need'[q] > 0
      /\ waiting' \in Seq(PacketThreads) /\ IsInjective(waiting')
      /\ \A k \in DOMAIN waiting' : pc'[waiting'[k]] = "blocked"
      /\ waiting' # <<>> => sem' = 0
      /\ IsFiniteSet(Due')
      /\ Cardinality(Due') - sem' = Cardinality(Due) - sem + Cardinality(EventThreads) - need[p]
  BY <1>1, <1>3, <1>4, <1>5, DownCount
<1>7. \A t \in EventThreads : /\ IsSequence(rcvd'[t]) /\ Len(rcvd'[t]) = Len(rcvd[t]) + 1
                              /\ pc'[t] # "asleep" /\ Evaluating(t)' = Evaluating(t)
                              /\ pc'[t] \notin {"received", "collect", "blocked", "send"}
  BY <1>1, <1>2, <1>3, <1>4, <1>6, SequenceAppend DEF Evaluating
<1>8. Line' BY <1>1, <1>6, <1>7 DEF Line
<1>9. IsFiniteSet(Owed') /\ Cardinality(Owed') = Cardinality(Owed) + Cardinality(EventThreads)
  <2>1. \A t \in EventThreads : Owes'[t] = Owes[t] + 1
    <3> TAKE t \in EventThreads
    <3>1. Len(rcvd[t]) \in Nat BY <1>2, SequenceEmpty
    <3>2. Owes[t] = Len(rcvd[t]) + (IF Evaluating(t) THEN 1 ELSE 0) BY DEF Owes
    <3>3. Owes'[t] = Len(rcvd'[t]) + (IF Evaluating(t)' THEN 1 ELSE 0) BY DEF Owes
    <3>4. CASE Evaluating(t)
      <4>1. Evaluating(t)' BY <3>4, <1>7
      <4> QED BY <3>1, <3>2, <3>3, <3>4, <4>1, <1>7
    <3>5. CASE ~Evaluating(t)
      <4>1. ~Evaluating(t)' BY <3>5, <1>7
      <4> QED BY <3>1, <3>2, <3>3, <3>5, <4>1, <1>7
    <3> QED BY <3>4, <3>5
  <2>2. Owes \in [EventThreads -> Nat] BY OwesType DEF Count
  <2>3. Owes' \in [EventThreads -> Nat] BY <1>8, OwesTypeNext
  <2>4. IsFiniteSet(Units(EventThreads, Owes)) BY DEF Count, Balance, Owed
  <2>5. Owed' = Units(EventThreads, Owes') BY DEF Owed, Units
  <2> QED BY <2>1, <2>2, <2>3, <2>4, <2>5, <1>5, UnitsOfAll DEF Owed
<1>10. Balance'
  <2>1. /\ Cardinality(Due) = sem + Cardinality(Owed) /\ IsFiniteSet(Due) /\ IsFiniteSet(Owed)
        /\ sem \in Nat
    BY DEF Count, Balance, Line
  <2>2. Cardinality(Due) \in Nat /\ Cardinality(Owed) \in Nat /\ Cardinality(Due') \in Nat
    BY <2>1, <1>6, FS_CardinalityType
  <2>3. Cardinality(Due') = sem' + Cardinality(Owed') BY <2>1, <2>2, <1>2, <1>5, <1>6, <1>9
  <2> QED BY <2>3, <1>6, <1>9 DEF Balance
<1> QED BY <1>8, <1>10 DEF Count

LEMMA ResumeCount == ASSUME Count, NEW p \in PacketThreads, Resume(p) PROVE Count'
<1>1. /\ pc[p] = "collect" /\ Down(p, need[p], pc) /\ rcvd' = rcvd BY DEF Resume
<1>2. /\ pc \in [Threads -> Places] /\ need[p] \in Nat
      /\ \A t \in EventThreads : pc[t] \notin {"received", "collect", "blocked", "send"}
  BY DEF Count, Line
<1>3. /\ pc' \in [Threads -> Places] /\ \A t \in EventThreads : pc'[t] = pc[t]
      /\ need' \in [PacketThreads -> Nat] /\ sem' \in Nat
      /\ \A q \in PacketThreads : /\ pc'[q] \notin {"collect", "blocked"} => need'[q] = 0
                                  /\ pc'[q] = "blocked" => need'[q] > 0
      /\ waiting' \in Seq(PacketThreads) /\ IsInjective(waiting')
      /\ \A k \in DOMAIN waiting' : pc'[waiting'[k]] = "blocked"
      /\ waiting' # <<>> => sem' = 0
      /\ IsFiniteSet(Due') /\ Cardinality(Due') - sem' = Cardinality(Due) - sem + need[p] - need[p]
  BY <1>1, <1>2, DownCount
<1>4. Line' BY <1>1, <1>2, <1>3 DEF Count, Line
<1>5. Owed' = Owed
  <2>1. Owes' = Owes BY <1>1, <1>3, SameShares DEF Evaluating
  <2> QED BY <2>1 DEF Owed
<1>6. Balance'
  <2>1. /\ Cardinality(Due) = sem + Cardinality(Owed) /\ IsFiniteSet(Due) /\ IsFiniteSet(Owed)
        /\ sem \in Nat
    BY DEF Count, Balance, Line
  <2>2. Cardinality(Due) \in Nat /\ Cardinality(Owed) \in Nat /\ Cardinality(Due') \in Nat
    BY <2>1, <1>3, FS_CardinalityType
  <2>3. Cardinality(Due') = sem' + Cardinality(Owed') BY <2>1, <2>2, <1>2, <1>3, <1>5
  <2> QED BY <2>1, <2>3, <1>3, <1>5 DEF Balance
<1> QED BY <1>4, <1>6 DEF Count

LEMMA TakeCount == ASSUME Count, NEW t \in EventThreads, Take(t) PROVE Count'
<1>1. /\ pc[t] = "ready" /\ UNCHANGED <<need, sem, waiting>> BY DEF Take, units
<1>2. /\ pc \in [Threads -> Places] /\ \A u \in EventThreads : u \in Threads
      /\ \A p \in PacketThreads : p # t /\ p \in Threads
      /\ \A u \in EventThreads : /\ pc[u] \notin {"received", "collect", "blocked", "send"}
                                 /\ IsSequence(rcvd[u]) /\ (rcvd[u] # <<>> => pc[u] # "asleep")
      /\ rcvd = [u \in EventThreads |-> rcvd[u]]
  BY ThreadFacts DEF Count, Line
<1>3. CASE rcvd[t] = <<>> /\ pc' = [pc EXCEPT ![t] = "asleep"] /\ UNCHANGED rcvd
  <2>1. pc' \in [Threads -> Places] /\ pc'[t] = "asleep" /\ \A u \in Threads : u # t => pc'[u] = pc[u]
    BY <1>2, <1>3 DEF Places
  <2>2. \A u \in EventThreads : /\ pc'[u] \notin {"received", "collect", "blocked", "send"}
                                /\ Evaluating(u)' = Evaluating(u)
                                /\ rcvd[u] # <<>> => pc'[u] # "asleep"
    BY <1>1, <1>2, <1>3, <2>1 DEF Evaluating
  <2> QED BY <1>1, <1>2, <1>3, <2>1, <2>2, BystanderCount
<1>4. CASE rcvd[t] # <<>> /\ pc' = [pc EXCEPT ![t] = "evaluate"] /\ rcvd' = [rcvd EXCEPT ![t] = Tail(@)]
  <2>1. /\ pc' \in [Threads -> Places] /\ pc'[t] = "evaluate"
        /\ \A u \in Threads : u # t => pc'[u] = pc[u]
    BY <1>2, <1>4 DEF Places
  <2>2. /\ rcvd' = [u \in EventThreads |-> rcvd'[u]] /\ rcvd'[t] = Tail(rcvd[t])
        /\ \A u \in EventThreads : u # t => rcvd'[u] = rcvd[u]
    BY <1>2, <1>4
  <2>3. /\ IsSequence(rcvd'[t]) /\ Len(rcvd'[t]) + 1 = Len(rcvd[t]) /\ Len(rcvd'[t]) \in Nat
    BY <1>2, <1>4, <2>2, SequenceTail
  <2>4. \A u \in EventThreads : /\ pc'[u] \notin {"received", "collect", "blocked", "send"}
                                /\ IsSequence(rcvd'[u]) /\ (rcvd'[u] # <<>> => pc'[u] # "asleep")
    BY <1>2, <2>1, <2>2, <2>3
  <2>5. Owes' = Owes
    <3>1. ~Evaluating(t) /\ Evaluating(t)' BY <1>1, <2>1 DEF Evaluating
    <3>2. Owes'[t] = Owes[t]
      <4>1. Owes[t] = Len(rcvd[t]) + (IF Evaluating(t) THEN 1 ELSE 0) BY DEF Owes
      <4>2. Owes'[t] = Len(rcvd'[t]) + (IF Evaluating(t)' THEN 1 ELSE 0) BY DEF Owes
      <4> QED BY <4>1, <4>2, <3>1, <2>3
    <3>3. ASSUME NEW u \in EventThreads, u # t PROVE Owes'[u] = Owes[u]
      <4>1. rcvd'[u] = rcvd[u] /\ pc'[u] = pc[u] BY <3>3, <2>1, <2>2, <1>2
      <4> QED BY <4>1 DEF Owes, Evaluating
    <3>4. Owes = [u \in EventThreads |-> Owes[u]] /\ Owes' = [u \in EventThreads |-> Owes'[u]]
      BY DEF Owes
    <3> QED BY <3>2, <3>3, <3>4
  <2>6. \A p \in PacketThreads : \A l \in {"collect", "blocked"} : pc'[p] = l <=> pc[p] = l
    BY <1>2, <2>1
  <2> QED BY <1>1, <2>1, <2>2, <2>4, <2>5, <2>6, SameCount
<1> QED BY <1>3, <1>4 DEF Take

(* The event thread is done with its event: a unit less is owed. *)
LEMMA LeaveOwes ==
  ASSUME Count, Line', NEW t \in EventThreads, pc[t] = "evaluate", pc'[t] = "ready", rcvd' = rcvd,
         \A u \in EventThreads : u # t => pc'[u] = pc[u]
  PROVE  /\ IsFiniteSet(Owed') /\ Cardinality(Owed') \in Nat
         /\ Cardinality(Owed) = Cardinality(Owed') + 1
<1>1. Evaluating(t) /\ ~Evaluating(t)' BY DEF Evaluating
<1>2. Owes \in [EventThreads -> Nat] /\ Owes' \in [EventThreads -> Nat]
  BY OwesType, OwesTypeNext DEF Count
<1>3. Owes[t] = Owes'[t] + 1
  <2>1. Line BY DEF Count
  <2>2. Owes[t] = Len(rcvd[t]) + 1
    <3>1. Owes[t] = Len(rcvd[t]) + (IF Evaluating(t) THEN 1 ELSE 0) BY DEF Owes
    <3> QED BY <3>1, <1>1
  <2>3. Owes'[t] = Len(rcvd[t]) BY <1>1, OwesTypeNext
  <2>4. Len(rcvd[t]) \in Nat BY <2>1, SequenceEmpty DEF Line
  <2> QED BY <2>2, <2>3, <2>4
<1>4. \A u \in EventThreads : u # t => Owes'[u] = Owes[u] BY DEF Owes, Evaluating
<1>5. /\ IsFiniteSet(Owed') /\ Cardinality(Owed') = Cardinality(Owed) - Owes[t] + Owes'[t]
      /\ Cardinality(Owed) \in Nat /\ Cardinality(Owed') \in Nat
  BY <1>2, <1>4, OwedOfOne DEF Count, Balance
<1>6. Owes[t] \in Nat /\ Owes'[t] \in Nat BY <1>2
<1> QED BY <1>3, <1>5, <1>6

LEMMA LeaveCount == ASSUME Count, NEW t \in EventThreads, Leave(t) PROVE Count'
<1>1. /\ pc[t] = "evaluate" /\ rcvd' = rcvd BY DEF Leave
<1>2. /\ pc \in [Threads -> Places] /\ \A u \in EventThreads : u \in Threads
      /\ \A p \in PacketThreads : p # t /\ p \in Threads
      /\ need \in [PacketThreads -> Nat] /\ sem \in Nat
      /\ waiting \in Seq(PacketThreads) /\ IsInjective(waiting)
      /\ \A k \in DOMAIN waiting : pc[waiting[k]] = "blocked" /\ waiting[k] \in PacketThreads
      /\ waiting # <<>> => sem = 0
      /\ Cardinality(Due) = sem + Cardinality(Owed) /\ IsFiniteSet(Due) /\ Cardinality(Due) \in Nat
      /\ \A p \in PacketThreads : /\ pc[p] \notin {"collect", "blocked"} => need[p] = 0
                                  /\ pc[p] = "blocked" => need[p] > 0
  BY ThreadFacts, FS_CardinalityType DEF Count, Line, Balance
<1>3. CASE waiting = <<>> /\ sem' = sem + 1 /\ pc' = [pc EXCEPT ![t] = "ready"] /\ UNCHANGED <<waiting, need>>
  <2>1. pc' \in [Threads -> Places] /\ pc'[t] = "ready" /\ \A u \in Threads : u # t => pc'[u] = pc[u]
    BY <1>2, <1>3 DEF Places
  <2>2. \A p \in PacketThreads : pc'[p] = pc[p] BY <1>2, <2>1
  <2>3. Line' BY <1>1, <1>2, <1>3, <2>1, <2>2 DEF Count, Line
  <2>4. /\ IsFiniteSet(Owed') /\ Cardinality(Owed') \in Nat /\ Cardinality(Owed) = Cardinality(Owed') + 1
    BY <1>1, <1>2, <2>1, <2>3, LeaveOwes
  <2>5. Due' = Due BY <1>3 DEF Due
  <2>6. Balance' BY <1>2, <1>3, <2>4, <2>5 DEF Balance
  <2> QED BY <2>3, <2>6 DEF Count
<1>4. CASE /\ waiting # <<>> /\ pc' = [pc EXCEPT ![t] = "ready", ![Head(waiting)] = "collect"]
           /\ need' = [need EXCEPT ![Head(waiting)] = @ - 1] /\ waiting' = Tail(waiting) /\ sem' = sem
  <2> DEFINE p == Head(waiting)
  <2>1. /\ waiting' \in Seq(PacketThreads) /\ IsInjective(waiting') /\ p \in PacketThreads
        /\ pc[p] = "blocked" /\ need[p] > 0 /\ p # t
        /\ \A k \in DOMAIN waiting' : waiting'[k] # p /\ waiting'[k] \in PacketThreads
                                      /\ pc[waiting'[k]] = "blocked"
    BY <1>2, <1>4, Shorter
  <2> HIDE DEF p
  <2>2. pc' = [pc EXCEPT ![t] = "ready", ![p] = "collect"] /\ need' = [need EXCEPT ![p] = need[p] - 1]
    BY <1>4 DEF p
  <2>3. /\ pc' \in [Threads -> Places] /\ pc'[t] = "ready" /\ pc'[p] = "collect"
        /\ \A u \in Threads : u # t /\ u # p => pc'[u] = pc[u]
    BY <1>2, <2>1, <2>2 DEF Places
  <2>4. /\ need[p] \in Nat /\ need[p] - 1 \in Nat /\ need' \in [PacketThreads -> Nat]
        /\ \A q \in PacketThreads : q # p => need'[q] = need[q]
    BY <1>2, <2>1, <2>2
  <2>5. \A q \in PacketThreads : /\ pc'[q] \notin {"collect", "blocked"} => need'[q] = 0
                                 /\ pc'[q] = "blocked" => need'[q] > 0
    BY <1>2, <2>3, <2>4
  <2>6. \A k \in DOMAIN waiting' : pc'[waiting'[k]] = "blocked" BY <1>2, <2>1, <2>3
  <2>7. \A u \in EventThreads : u # p /\ (u # t => pc'[u] = pc[u]) BY <1>2, <2>1, <2>3, ThreadFacts
  <2>8. \A u \in EventThreads : /\ pc'[u] \notin {"received", "collect", "blocked", "send"}
                                /\ IsSequence(rcvd'[u]) /\ (rcvd'[u] # <<>> => pc'[u] # "asleep")
    BY <1>1, <2>3, <2>7 DEF Count, Line
  <2>9. rcvd' = [u \in EventThreads |-> rcvd'[u]] BY <1>1 DEF Count, Line
  <2>10. Line' BY <1>2, <1>4, <2>1, <2>3, <2>4, <2>5, <2>6, <2>8, <2>9 DEF Line
  <2>11. /\ IsFiniteSet(Owed') /\ Cardinality(Owed') \in Nat /\ Cardinality(Owed) = Cardinality(Owed') + 1
    BY <1>1, <2>3, <2>7, <2>10, LeaveOwes
  <2>12. IsFiniteSet(Due') /\ Cardinality(Due') = Cardinality(Due) - 1
    <3>1. /\ IsFiniteSet(Due') /\ Cardinality(Due') = Cardinality(Due) - need[p] + need'[p]
          /\ Cardinality(Due) \in Nat
      BY <1>2, <2>1, <2>4, DueOfOne
    <3>2. need'[p] = need[p] - 1 BY <1>2, <2>1, <2>2
    <3> QED BY <3>1, <3>2, <2>4
  <2>13. Balance' BY <1>2, <1>4, <2>11, <2>12 DEF Balance
  <2> QED BY <2>10, <2>13 DEF Count
<1> QED BY <1>3, <1>4 DEF Leave, StillWaiting

LEMMA NextCount == ASSUME Count, [Next]_vars PROVE Count'
<1>1. /\ pc \in [Threads -> Places] /\ \A u \in EventThreads : u \in Threads
      /\ \A p \in PacketThreads : p \in Threads /\ p \notin EventThreads
      /\ \A u \in EventThreads : /\ pc[u] \notin {"received", "collect", "blocked", "send"}
                                 /\ rcvd[u] # <<>> => pc[u] # "asleep"
  BY ThreadFacts DEF Count, Line
<1>2. ASSUME UNCHANGED <<rcvd, pc, need, sem, waiting>> PROVE Count'
  <2>1. \A u \in EventThreads : Evaluating(u)' = Evaluating(u) BY <1>2 DEF Evaluating
  <2> QED BY <1>1, <1>2, <2>1, BystanderCount
<1>3. ASSUME Interrupt PROVE Count'
  <2>1. /\ UNCHANGED <<rcvd, need, sem, waiting>> /\ pc' = Woken(PacketThreads)
    BY <1>3 DEF Interrupt, units
  <2>2. /\ pc' \in [Threads -> Places] /\ \A u \in EventThreads : pc'[u] = pc[u]
        /\ \A p \in PacketThreads : pc'[p] = IF pc[p] = "asleep" THEN "ready" ELSE pc[p]
    BY <1>1, <2>1 DEF Woken, Places
  <2>3. \A u \in EventThreads : Evaluating(u)' = Evaluating(u) BY <2>2 DEF Evaluating
  <2>4. \A p \in PacketThreads : \A l \in {"collect", "blocked"} : pc'[p] = l <=> pc[p] = l
    BY <2>2
  <2> QED BY <1>1, <2>1, <2>2, <2>3, <2>4, BystanderCount
<1>4. ASSUME NEW p \in PacketThreads, Receive(p) \/ Send(p) PROVE Count'
  <2>1. PICK l \in {"asleep", "received", "ready"} : pc' = [pc EXCEPT ![p] = l]
    BY <1>4 DEF Receive, Send
  <2>2. /\ UNCHANGED <<rcvd, need, sem, waiting>> /\ pc[p] \in {"ready", "send"}
    BY <1>4 DEF Receive, Send, units
  <2>3. /\ pc' \in [Threads -> Places] /\ \A u \in EventThreads : pc'[u] = pc[u]
        /\ pc'[p] = l /\ \A u \in Threads : u # p => pc'[u] = pc[u]
    BY <1>1, <2>1 DEF Places
  <2>4. \A u \in EventThreads : Evaluating(u)' = Evaluating(u) BY <2>3 DEF Evaluating
  <2>5. \A q \in PacketThreads : \A m \in {"collect", "blocked"} : pc'[q] = m <=> pc[q] = m
    BY <1>1, <2>2, <2>3
  <2> QED BY <1>1, <2>2, <2>3, <2>4, <2>5, BystanderCount
<1>5. ASSUME NEW t \in EventThreads, Evaluate(t) \/ Assign(t) PROVE Count'
  <2>1. PICK l \in {"evaluate", "insert"} : pc' = [pc EXCEPT ![t] = l]
    <3>1. CASE Evaluate(t)
      <4>1. pc[t] = "evaluate" /\ (pc' = pc \/ pc' = [pc EXCEPT ![t] = "insert"])
        BY <3>1 DEF Evaluate
      <4> QED BY <4>1, <1>1
    <3>2. CASE Assign(t) BY <3>2 DEF Assign
    <3> QED BY <3>1, <3>2, <1>5
  <2>2. /\ UNCHANGED <<rcvd, need, sem, waiting>> /\ pc[t] \in {"evaluate", "insert"}
    BY <1>5 DEF Evaluate, Assign, units
  <2>3. /\ pc' \in [Threads -> Places] /\ pc'[t] = l /\ \A u \in Threads : u # t => pc'[u] = pc[u]
    BY <1>1, <2>1 DEF Places
  <2>4. \A u \in EventThreads : /\ pc'[u] \notin {"received", "collect", "blocked", "send"}
                                /\ Evaluating(u)' = Evaluating(u)
                                /\ rcvd[u] # <<>> => pc'[u] # "asleep"
    BY <1>1, <2>2, <2>3 DEF Evaluating
  <2>5. \A q \in PacketThreads : \A m \in {"collect", "blocked"} : pc'[q] = m <=> pc[q] = m
    BY <1>1, <2>3
  <2> QED BY <2>2, <2>3, <2>4, <2>5, BystanderCount
<1>6. CASE Arrive \/ Issue \/ UNCHANGED vars
  <2>1. UNCHANGED <<rcvd, pc, need, sem, waiting>> BY <1>6 DEF Arrive, Issue, vars, units
  <2> QED BY <2>1, <1>2
<1> QED BY <1>3, <1>4, <1>5, <1>6, DistributeCount, ResumeCount, TakeCount, LeaveCount
        DEF Next, PacketStep, EventStep

LEMMA Counts == Spec => []Count
<1>1. Init => Count BY InitCount
<1>2. Count /\ [Next]_vars => Count' BY NextCount
<1> QED BY <1>1, <1>2, PTL DEF Spec

LEMMA Shares ==
  ASSUME Count
  PROVE  /\ Cardinality(Due) = 0 <=> \A p \in PacketThreads : need[p] = 0
         /\ Cardinality(Owed) = 0 <=> \A t \in EventThreads : Owes[t] = 0
         /\ Cardinality(Due) \in Nat /\ Cardinality(Owed) \in Nat
<1>1. /\ IsFiniteSet(Units(PacketThreads, need)) /\ IsFiniteSet(Units(EventThreads, Owes))
      /\ need \in [PacketThreads -> Nat] /\ Owes \in [EventThreads -> Nat]
  BY OwesType DEF Count, Balance, Line, Due, Owed
<1> QED BY <1>1, UnitsNone DEF Due, Owed

LEMMA AtHandMeans ==
  ASSUME Count, NEW t \in EventThreads
  PROVE  /\ Owes[t] = 0 <=> AtHand(t) = {}
         /\ Owes[t] # 0 => pc[t] # "asleep"
<1>1. IsSequence(rcvd[t]) /\ (rcvd[t] # <<>> => pc[t] # "asleep") BY DEF Count, Line
<1>2. Len(rcvd[t]) \in Nat /\ (Len(rcvd[t]) = 0 <=> rcvd[t] = <<>>) /\ (rcvd[t] # <<>> => Range(rcvd[t]) # {})
  BY <1>1, SequenceEmpty
<1>3. CASE Evaluating(t)
  <2>1. Owes[t] = Len(rcvd[t]) + 1
    <3>1. Owes[t] = Len(rcvd[t]) + (IF Evaluating(t) THEN 1 ELSE 0) BY DEF Owes
    <3> QED BY <3>1, <1>3
  <2>2. info[cur[t]] \in AtHand(t) BY <1>3 DEF AtHand, Evaluating
  <2>3. pc[t] # "asleep" BY <1>3 DEF Evaluating
  <2> QED BY <1>2, <2>1, <2>2, <2>3
<1>4. CASE ~Evaluating(t)
  <2>1. Owes[t] = Len(rcvd[t])
    <3>1. Line BY DEF Count
    <3> QED BY <3>1, <1>4, OwesType DEF Evaluating
  <2>2. AtHand(t) = {info[i] : i \in Range(rcvd[t])} BY <1>4 DEF AtHand, Evaluating
  <2>3. rcvd[t] = <<>> => Range(rcvd[t]) = {} BY DEF Range
  <2> QED BY <1>1, <1>2, <2>1, <2>2, <2>3
<1> QED BY <1>3, <1>4

LEMMA CountStranded == Count => NobodyStranded
<1> SUFFICES ASSUME Count, waiting # <<>>
             PROVE  \E t \in EventThreads : AtHand(t) # {} /\ pc[t] # "asleep"
  BY DEF NobodyStranded
<1>1. /\ waiting \in Seq(PacketThreads) /\ sem = 0 /\ need \in [PacketThreads -> Nat]
      /\ \A k \in DOMAIN waiting : pc[waiting[k]] = "blocked"
      /\ \A p \in PacketThreads : pc[p] = "blocked" => need[p] > 0
      /\ Cardinality(Due) = sem + Cardinality(Owed)
  BY DEF Count, Line, Balance
<1>2. 1 \in DOMAIN waiting /\ waiting[1] \in PacketThreads BY <1>1
<1>3. need[waiting[1]] # 0 BY <1>1, <1>2
<1>4. Cardinality(Owed) # 0 BY <1>1, <1>2, <1>3, Shares
<1>5. PICK t \in EventThreads : Owes[t] # 0 BY <1>4, Shares
<1> QED BY <1>5, AtHandMeans

LEMMA CountLeftOver == Count => NothingLeftOver
<1> SUFFICES ASSUME Count, \A p \in PacketThreads : pc[p] \notin {"collect", "blocked"}
             PROVE  sem = 0 /\ \A t \in EventThreads : AtHand(t) = {}
  BY DEF NothingLeftOver
<1>1. \A p \in PacketThreads : need[p] = 0 BY DEF Count, Line
<1>2. sem \in Nat /\ Cardinality(Due) = sem + Cardinality(Owed) BY DEF Count, Line, Balance
<1>3. sem = 0 /\ Cardinality(Owed) = 0 BY <1>1, <1>2, Shares
<1>4. \A t \in EventThreads : Owes[t] = 0 BY <1>3, Shares
<1> QED BY <1>3, <1>4, AtHandMeans

(* However events overlap, a packet thread waits for units of packet-threads-SEM   *)
(* only while an event thread that is awake has an event at hand (trex.device:228). *)
THEOREM NoPacketThreadStranded == Spec => []NobodyStranded
BY Counts, CountStranded, PTL

(* However events overlap, when no packet thread is between its first and its last *)
(* SEMDOWN, no unit is left and no event thread has anything at hand.              *)
THEOREM AllUnitsUsed == Spec => []NothingLeftOver
BY Counts, CountLeftOver, PTL
=============================================================================
