------------------------------ MODULE MoteProofs ------------------------------
(* Theorems about the mote of module Mote, for any number of packets, sizes of  *)
(* packets and of queues. The names of execution infos stand for addresses of   *)
(* memory: unless a theorem says so, they are not bounded.                       *)
EXTENDS Mote, FiniteSetTheorems, TLAPS

-----------------------------------------------------------------------------
(* Sequences *)

(* The concatenation of two sequences, position by position. *)
LEMMA Joined ==
  ASSUME NEW S, NEW a \in Seq(S), NEW b \in Seq(S)
  PROVE  /\ a \o b \in Seq(S) /\ Len(a \o b) = Len(a) + Len(b) /\ DOMAIN (a \o b) = 1 .. Len(a \o b)
         /\ \A k \in 1 .. Len(a) + Len(b) : (a \o b)[k] = IF k <= Len(a) THEN a[k] ELSE b[k - Len(a)]
<1>1. a \o b \in Seq(S) /\ Len(a \o b) = Len(a) + Len(b)
  OBVIOUS
<1>2. DOMAIN (a \o b) = 1 .. Len(a \o b)
  BY <1>1
<1>3. \A k \in 1 .. Len(a) + Len(b) : (a \o b)[k] = IF k <= Len(a) THEN a[k] ELSE b[k - Len(a)]
  OBVIOUS
<1> QED
  BY <1>1, <1>2, <1>3

(* Where the elements of q are once the one at position i is taken out. *)
LEMMA Shortened ==
  ASSUME NEW S, NEW q \in Seq(S), NEW i \in DOMAIN q
  PROVE  /\ RemoveAt(q, i) \in Seq(S) /\ Len(RemoveAt(q, i)) = Len(q) - 1 /\ q[i] \in S
         /\ Len(q) \in Nat \ {0} /\ DOMAIN q = 1 .. Len(q) /\ i \in 1 .. Len(q)
         /\ DOMAIN RemoveAt(q, i) = 1 .. Len(q) - 1
         /\ \A k \in 1 .. Len(q) - 1 : RemoveAt(q, i)[k] = IF k < i THEN q[k] ELSE q[k + 1]
<1>1. /\ Len(q) \in Nat /\ DOMAIN q = 1 .. Len(q) /\ i \in 1 .. Len(q) /\ Len(q) > 0
      /\ \A k \in 1 .. Len(q) : q[k] \in S
  OBVIOUS
<1> DEFINE a == SubSeq(q, 1, i - 1)
           b == SubSeq(q, i + 1, Len(q))
<1>2. /\ a \in Seq(S) /\ Len(a) = i - 1 /\ \A k \in 1 .. i - 1 : a[k] = q[k]
  BY <1>1
<1>3. /\ b \in Seq(S) /\ Len(b) = Len(q) - i /\ \A k \in 1 .. Len(q) - i : b[k] = q[k + i]
  BY <1>1
<1>4. RemoveAt(q, i) = a \o b
  BY DEF RemoveAt
<1>5. /\ a \o b \in Seq(S) /\ Len(a \o b) = Len(a) + Len(b) /\ DOMAIN (a \o b) = 1 .. Len(a \o b)
      /\ \A k \in 1 .. Len(a) + Len(b) : (a \o b)[k] = IF k <= Len(a) THEN a[k] ELSE b[k - Len(a)]
  BY <1>2, <1>3, Joined
<1> HIDE DEF a, b
<1>6. Len(a) + Len(b) = Len(q) - 1
  BY <1>1, <1>2, <1>3
<1>7. ASSUME NEW k \in 1 .. Len(q) - 1
      PROVE  RemoveAt(q, i)[k] = IF k < i THEN q[k] ELSE q[k + 1]
  <2>1. CASE k < i
    BY <2>1, <1>1, <1>2, <1>4, <1>5, <1>6
  <2>2. CASE ~(k < i)
    <3>1. (a \o b)[k] = b[k - (i - 1)]
      BY <2>2, <1>1, <1>2, <1>5, <1>6
    <3>2. k - (i - 1) \in 1 .. Len(q) - i /\ (k - (i - 1)) + i = k + 1
      BY <2>2, <1>1
    <3> QED
      BY <3>1, <3>2, <1>3, <1>4, <2>2
  <2> QED
    BY <2>1, <2>2
<1>8. RemoveAt(q, i) \in Seq(S) /\ Len(RemoveAt(q, i)) = Len(q) - 1
      /\ DOMAIN RemoveAt(q, i) = 1 .. Len(q) - 1
  BY <1>4, <1>5, <1>6
<1>9. Len(q) \in Nat \ {0} /\ q[i] \in S
  BY <1>1
<1> QED
  BY <1>1, <1>7, <1>8, <1>9

(* The first element of q and the rest. *)
LEMMA TailRemoves ==
  ASSUME NEW S, NEW q \in Seq(S), q # <<>>
  PROVE  /\ 1 \in DOMAIN q /\ Head(q) = q[1] /\ Head(q) \in S /\ Tail(q) \in Seq(S)
         /\ Tail(q) = RemoveAt(q, 1)
<1>1. /\ 1 \in DOMAIN q /\ Head(q) = q[1] /\ Head(q) \in S /\ Tail(q) \in Seq(S)
      /\ Len(Tail(q)) = Len(q) - 1 /\ \A k \in 1 .. Len(q) - 1 : Tail(q)[k] = q[k + 1]
      /\ Len(q) \in Nat
  OBVIOUS
<1>2. /\ RemoveAt(q, 1) \in Seq(S) /\ Len(RemoveAt(q, 1)) = Len(q) - 1
      /\ \A k \in 1 .. Len(q) - 1 : RemoveAt(q, 1)[k] = q[k + 1]
  <2>1. /\ RemoveAt(q, 1) \in Seq(S) /\ Len(RemoveAt(q, 1)) = Len(q) - 1
        /\ \A k \in 1 .. Len(q) - 1 : RemoveAt(q, 1)[k] = IF k < 1 THEN q[k] ELSE q[k + 1]
    BY <1>1, Shortened
  <2>2. \A k \in 1 .. Len(q) - 1 : ~(k < 1)
    BY <1>1
  <2> QED
    BY <2>1, <2>2
<1>3. \A p, r \in Seq(S) : Len(p) = Len(r) /\ (\A k \in 1 .. Len(p) : p[k] = r[k]) => p = r
  OBVIOUS
<1> QED
  BY <1>1, <1>2, <1>3

(* The positions of q that hold a request for service s, and their number. *)
Positions(s, q) == {k \in DOMAIN q : q[k].service = s}
Requests(s, q)  == Cardinality(Positions(s, q))

(* A number of requests is a number, and nothing if there are none. *)
LEMMA RequestsType ==
  ASSUME NEW S, NEW q \in Seq(S), NEW s
  PROVE  /\ IsFiniteSet(Positions(s, q)) /\ Requests(s, q) \in Nat
         /\ Requests(s, q) = 0 <=> \A k \in DOMAIN q : q[k].service # s
<1>1. DOMAIN q = 1 .. Len(q) /\ Len(q) \in Nat
  OBVIOUS
<1>2. IsFiniteSet(1 .. Len(q)) /\ Positions(s, q) \in SUBSET (1 .. Len(q))
  BY <1>1, FS_Interval DEF Positions
<1>3. IsFiniteSet(Positions(s, q)) /\ Requests(s, q) \in Nat
  BY <1>2, FS_Subset, FS_CardinalityType DEF Requests
<1>4. Requests(s, q) = 0 <=> Positions(s, q) = {}
  BY <1>3, FS_EmptySet DEF Requests
<1> QED
  BY <1>3, <1>4 DEF Positions

LEMMA RequestsNone == \A s : Requests(s, <<>>) = 0
<1> TAKE s
<1>1. Positions(s, <<>>) = {}
  BY DEF Positions
<1> QED
  BY <1>1, FS_EmptySet DEF Requests

One(b) == IF b THEN 1 ELSE 0

(* One more request. *)
LEMMA RequestsAppend ==
  ASSUME NEW S, NEW q \in Seq(S), NEW y \in S, NEW s
  PROVE  Requests(s, Append(q, y)) = Requests(s, q) + One(y.service = s)
<1>1. /\ DOMAIN q = 1 .. Len(q) /\ Len(q) \in Nat /\ DOMAIN Append(q, y) = 1 .. Len(q) + 1
      /\ \A i \in DOMAIN q : Append(q, y)[i] = q[i]
      /\ Append(q, y)[Len(q) + 1] = y
  OBVIOUS
<1>2. IsFiniteSet(Positions(s, q)) /\ Requests(s, q) \in Nat
  BY RequestsType
<1>3. CASE y.service = s
  <2>1. Positions(s, Append(q, y)) = Positions(s, q) \cup {Len(q) + 1} /\ Len(q) + 1 \notin Positions(s, q)
    BY <1>1, <1>3 DEF Positions
  <2>2. Cardinality(Positions(s, q) \cup {Len(q) + 1}) = Cardinality(Positions(s, q)) + 1
    BY <2>1, <1>2, FS_AddElement
  <2> QED
    BY <2>1, <2>2, <1>3 DEF Requests, One
<1>4. CASE y.service # s
  <2>1. Positions(s, Append(q, y)) = Positions(s, q)
    BY <1>1, <1>4 DEF Positions
  <2> QED
    BY <2>1, <1>2, <1>4 DEF Requests, One
<1> QED
  BY <1>3, <1>4

(* One request less. *)
LEMMA RequestsRemove ==
  ASSUME NEW S, NEW q \in Seq(S), NEW i \in DOMAIN q, NEW s
  PROVE  /\ Requests(s, RemoveAt(q, i)) \in Nat
         /\ Requests(s, q) = Requests(s, RemoveAt(q, i)) + One(q[i].service = s)
<1> DEFINE A == Positions(s, q)
           r == RemoveAt(q, i)
           B == Positions(s, r)
           C == A \ {i}
           up(k) == IF k < i THEN k ELSE k + 1
           shift == [k \in B |-> up(k)]
<1>1. /\ r \in Seq(S) /\ Len(q) \in Nat \ {0} /\ DOMAIN q = 1 .. Len(q) /\ i \in 1 .. Len(q)
      /\ DOMAIN r = 1 .. Len(q) - 1
      /\ \A k \in 1 .. Len(q) - 1 : r[k] = IF k < i THEN q[k] ELSE q[k + 1]
  BY Shortened
<1>2. IsFiniteSet(A) /\ IsFiniteSet(B) /\ Requests(s, q) = Cardinality(A) /\ Requests(s, r) = Cardinality(B)
      /\ Cardinality(A) \in Nat /\ Cardinality(B) \in Nat
  BY <1>1, RequestsType DEF Requests
<1>3. ExistsBijection(B, C)
  <2>1. \A k \in B : up(k) \in C
    BY <1>1 DEF Positions
  <2>2. ASSUME NEW j \in C PROVE \E k \in B : up(k) = j
    <3>1. j \in 1 .. Len(q) /\ j # i /\ q[j].service = s
      BY <1>1 DEF Positions
    <3>2. CASE j < i
      <4>1. j \in B /\ up(j) = j
        BY <1>1, <3>1, <3>2 DEF Positions
      <4> QED
        BY <4>1
    <3>3. CASE ~(j < i)
      <4>1. j - 1 \in 1 .. Len(q) - 1 /\ ~(j - 1 < i) /\ (j - 1) + 1 = j
        BY <1>1, <3>1, <3>3
      <4>2. j - 1 \in B /\ up(j - 1) = j
        BY <1>1, <3>1, <4>1 DEF Positions
      <4> QED
        BY <4>2
    <3> QED
      BY <3>2, <3>3
  <2>3. \A j, k \in B : up(j) = up(k) => j = k
    BY <1>1 DEF Positions
  <2> HIDE DEF B, C, up
  <2>4. shift \in [B -> C]
    BY <2>1
  <2>5. \A j, k \in B : shift[j] = shift[k] => j = k
    BY <2>3
  <2>6. \A j \in C : \E k \in B : shift[k] = j
    BY <2>2
  <2> HIDE DEF shift
  <2>7. shift \in Injection(B, C) /\ shift \in Surjection(B, C)
    BY <2>4, <2>5, <2>6 DEF Injection, IsInjective, Surjection
  <2> QED
    BY <2>7 DEF ExistsBijection, Bijection
<1>4. Cardinality(B) = Cardinality(C)
  <2> HIDE DEF B, C
  <2> QED
    BY <1>2, <1>3, FS_Bijection
<1>5. CASE q[i].service = s
  <2>1. i \in A
    BY <1>1, <1>5 DEF Positions
  <2>2. Cardinality(C) = Cardinality(A) - 1
    BY <2>1, <1>2, FS_RemoveElement
  <2> HIDE DEF A, B, C
  <2> QED
    BY <2>2, <1>2, <1>4, <1>5 DEF One
<1>6. CASE q[i].service # s
  <2>1. C = A
    BY <1>6 DEF Positions
  <2> HIDE DEF A, B, C
  <2> QED
    BY <2>1, <1>2, <1>4, <1>6 DEF One
<1> QED
  BY <1>5, <1>6

(* A queue of the two services of interrupts is as long as it has requests. *)
LEMMA RequestsSum ==
  ASSUME NEW S, NEW q \in Seq(S), \A x \in S : x.service \in {"HIRQ-1", "HIRQ-6"}
  PROVE  Len(q) = Requests("HIRQ-1", q) + Requests("HIRQ-6", q)
<1> DEFINE A == Positions("HIRQ-1", q)
           B == Positions("HIRQ-6", q)
<1>1. DOMAIN q = 1 .. Len(q) /\ Len(q) \in Nat /\ \A k \in DOMAIN q : q[k].service \in {"HIRQ-1", "HIRQ-6"}
  OBVIOUS
<1>2. 1 .. Len(q) = A \cup B /\ A \cap B = {}
  BY <1>1 DEF Positions
<1>3. IsFiniteSet(A) /\ IsFiniteSet(B)
  BY RequestsType
<1>4. Cardinality(A \cup B) = Len(q)
  <2>1. Cardinality(1 .. Len(q)) = IF 1 > Len(q) THEN 0 ELSE Len(q) - 1 + 1
    BY <1>1, FS_Interval
  <2>2. Cardinality(1 .. Len(q)) = Len(q)
    BY <1>1, <2>1
  <2> HIDE DEF A, B
  <2> QED
    BY <1>2, <2>2, Zenon
<1>5. Cardinality(A \cap B) = 0
  BY <1>2, FS_EmptySet
<1>6. Cardinality(A) \in Nat /\ Cardinality(B) \in Nat
  BY <1>3, FS_CardinalityType
<1> HIDE DEF A, B
<1>7. Cardinality(A \cup B) = Cardinality(A) + Cardinality(B) - Cardinality(A \cap B)
  BY <1>3, FS_Union
<1>8. Len(q) = Cardinality(A) + Cardinality(B)
  BY <1>4, <1>5, <1>6, <1>7
<1> QED
  BY <1>8 DEF A, B, Requests

-----------------------------------------------------------------------------
(* Threads and execution infos *)

Main == th["main"]
Irq  == th["irq"]

Places     == MainPlaces \cup IrqPlaces
ThreadType == [at : Places, info : Infos]

(* The names of the places. *)
LEMMA PlaceNames ==
  /\ Stages = {"taskloop", "writing", "receiveDone", "queueing", "dropping", "loading", "transmitting", "sent"}
  /\ \A p \in Stages : After[p] \in Places
  /\ MainPlaces \subseteq Places /\ IrqPlaces \subseteq Places
  /\ Places = Stages \cup {"asleep", "awake", "return", "dequeue", "readDone", "check", "readNext",
                           "receive", "ipaqFull", "post", "sendTask", "written", "none", "sendDone"}
BY DEF Stages, After, Places, MainPlaces, IrqPlaces

(* The interrupt runs, if one is handled, or the main thread. *)
LEMMA WhoRuns ==
  ASSUME TypeOK
  PROVE  /\ th \in [Threads -> ThreadType] /\ Main \in ThreadType /\ Irq \in ThreadType
         /\ Main.info \in Infos /\ Irq.info \in Infos
         /\ here \in Infos
         /\ \/ Running = "main" /\ th[Running] = Main /\ Irq.at = "none"
            \/ Running = "irq" /\ th[Running] = Irq /\ Irq.at # "none"
<1>1. th \in [Threads -> ThreadType] /\ "main" \in Threads /\ "irq" \in Threads
  BY DEF TypeOK, Threads, ThreadType, Places
<1>2. Main \in ThreadType /\ Irq \in ThreadType
  BY <1>1 DEF Main, Irq
<1>3. Main.info \in Infos /\ Irq.info \in Infos
  BY <1>2 DEF ThreadType
<1>4. \/ Running = "main" /\ th[Running] = Main /\ Irq.at = "none"
      \/ Running = "irq" /\ th[Running] = Irq /\ Irq.at # "none"
  BY DEF Running, Main, Irq
<1> QED
  BY <1>1, <1>2, <1>3, <1>4 DEF here

(* The thread that runs is at p, with info i; the other is where it was. *)
Moved(p, i) ==
  /\ th' \in [Threads -> ThreadType]
  /\ Running = "main" => Main' = [at |-> p, info |-> i] /\ Irq' = Irq
  /\ Running = "irq" => Irq' = [at |-> p, info |-> i] /\ Main' = Main
  /\ cur' = i

LEMMA GotoMoves ==
  ASSUME TypeOK, NEW p \in Places, Goto(p)
  PROVE  Moved(p, here)
<1>1. PICK r \in Threads : r = Running
  BY WhoRuns DEF Threads
<1>2. th \in [Threads -> ThreadType] /\ th' = [th EXCEPT ![r].at = p] /\ cur' = th[r].info
  BY <1>1, WhoRuns DEF Goto, here
<1>3. /\ th' \in [Threads -> ThreadType]
      /\ th'[r] = [at |-> p, info |-> th[r].info] /\ \A t \in Threads \ {r} : th'[t] = th[t]
  BY <1>2 DEF ThreadType
<1> QED
  BY <1>1, <1>2, <1>3 DEF Moved, Main, Irq, Threads, here

LEMMA EnterMoves ==
  ASSUME TypeOK, NEW p \in Places, NEW i \in Infos, Enter(p, i)
  PROVE  Moved(p, i)
<1>1. PICK r \in Threads : r = Running
  BY WhoRuns DEF Threads
<1>2. th \in [Threads -> ThreadType] /\ th' = [th EXCEPT ![r] = [at |-> p, info |-> i]] /\ cur' = i
  BY <1>1, WhoRuns DEF Enter
<1>3. [at |-> p, info |-> i] \in ThreadType
  BY DEF ThreadType
<1>4. /\ th' \in [Threads -> ThreadType]
      /\ th'[r] = [at |-> p, info |-> i] /\ \A t \in Threads \ {r} : th'[t] = th[t]
  BY <1>2, <1>3
<1> QED
  BY <1>1, <1>2, <1>4 DEF Moved, Main, Irq, Threads

LEMMA BothThreads ==
  ASSUME NEW m \in ThreadType, NEW q \in ThreadType
  PROVE  Both(m, q) \in [Threads -> ThreadType] /\ Both(m, q)["main"] = m /\ Both(m, q)["irq"] = q
BY DEF Both, Threads

(* A thread that sleeps is woken up. *)
LEMMA Woken ==
  ASSUME NEW t \in ThreadType
  PROVE  /\ Thread(t) \in ThreadType /\ Thread(t).info = t.info
         /\ t.at = "asleep" => Thread(t).at = "awake"
         /\ t.at # "asleep" => Thread(t) = t
<1>1. t.at = "asleep" => Thread(t) = [at |-> "awake", info |-> t.info]
  BY DEF Thread, ThreadType
<1>2. t.at # "asleep" => Thread(t) = t
  BY DEF Thread
<1>3. t.info \in Infos
  BY DEF ThreadType
<1>4. [at |-> "awake", info |-> t.info] \in ThreadType
  BY <1>3, PlaceNames DEF ThreadType
<1> QED
  BY <1>1, <1>2, <1>4

(* Only finitely many infos are in use, so that one is free. *)
LEMMA HeldFinite ==
  ASSUME NEW S, NEW q \in Seq(S)
  PROVE  IsFiniteSet(Held(q))
<1> DEFINE f == [k \in 1 .. Len(q) |-> q[k].info]
<1>1. DOMAIN q = 1 .. Len(q) /\ Len(q) \in Nat
  OBVIOUS
<1>2. IsFiniteSet(1 .. Len(q))
  BY <1>1, FS_Interval
<1>3. f \in Surjection(1 .. Len(q), Held(q))
  BY <1>1 DEF Surjection, Held
<1> QED
  BY <1>2, <1>3, FS_Surjection

LEMMA FreshInfo ==
  ASSUME ~IsFiniteSet(Infos), TypeOK
  PROVE  Fresh \in Infos /\ Fresh \notin Used
<1>1. /\ IsFiniteSet(Held(tasks)) /\ IsFiniteSet(Held(issued)) /\ IsFiniteSet(Held(pending))
      /\ IsFiniteSet(Held(ipaq)) /\ IsFiniteSet(Held(postponed))
  BY HeldFinite DEF TypeOK
<1>2. IsFiniteSet({0, cur, base, th["main"].info, th["irq"].info})
  <2>1. IsFiniteSet({}) /\ \A S, x : IsFiniteSet(S) => IsFiniteSet(S \cup {x})
    BY FS_EmptySet, FS_AddElement
  <2>2. IsFiniteSet({0} \cup {cur})
    BY <2>1, FS_Singleton
  <2>3. IsFiniteSet(({0} \cup {cur}) \cup {base})
    BY <2>1, <2>2
  <2>4. IsFiniteSet((({0} \cup {cur}) \cup {base}) \cup {th["main"].info})
    BY <2>1, <2>3
  <2>5. IsFiniteSet(((({0} \cup {cur}) \cup {base}) \cup {th["main"].info}) \cup {th["irq"].info})
    BY <2>1, <2>4
  <2>6. {0, cur, base, th["main"].info, th["irq"].info}
          = ((({0} \cup {cur}) \cup {base}) \cup {th["main"].info}) \cup {th["irq"].info}
    OBVIOUS
  <2> QED
    BY <2>5, <2>6, Zenon
<1>3. IsFiniteSet(Used)
  <2>1. \A S, T : IsFiniteSet(S) /\ IsFiniteSet(T) => IsFiniteSet(S \cup T)
    BY FS_Union
  <2> QED
    BY <1>1, <1>2, <2>1 DEF Used
<1>4. \E i : i \in Infos \ Used
  <2> SUFFICES ASSUME Infos \ Used = {} PROVE FALSE
    OBVIOUS
  <2>1. Infos \subseteq Used
    OBVIOUS
  <2> QED
    BY <1>3, <2>1, FS_Subset
<1> QED
  BY <1>4 DEF Fresh

(* Registering a callback, invoking one and registering another change the targets *)
(* of one info only.                                                                 *)
Callback(i, t) == infos[i].targets[t]

LEMMA InfoTypes ==
  ASSUME TypeOK, NEW i \in Infos
  PROVE  /\ infos[i] \in Info /\ infos[i].targets \in [Triggers -> Packets \cup {None}]
         /\ Blank \in Info
         /\ \A p \in Packets \cup {None}, t \in Triggers :
              Registered(i, t, p) \in Info /\ [Registered(i, t, p) EXCEPT !.packet = p] \in Info
<1>1. infos[i] \in Info
  BY DEF TypeOK
<1>2. infos[i].targets \in [Triggers -> Packets \cup {None}] /\ infos[i].packet \in Packets \cup {None}
  BY <1>1 DEF Info
<1>3. Blank \in Info
  BY DEF Blank, Info
<1>4. ASSUME NEW p \in Packets \cup {None}, NEW t \in Triggers
      PROVE  Registered(i, t, p) \in Info /\ [Registered(i, t, p) EXCEPT !.packet = p] \in Info
  <2>1. [infos[i].targets EXCEPT ![t] = p] \in [Triggers -> Packets \cup {None}]
    BY <1>2
  <2>2. Registered(i, t, p) = [packet |-> infos[i].packet, targets |-> [infos[i].targets EXCEPT ![t] = p]]
    BY <1>1 DEF Registered, Info
  <2> QED
    BY <1>2, <2>1, <2>2 DEF Info
<1> QED
  BY <1>1, <1>2, <1>3, <1>4

LEMMA InvokedInfos ==
  ASSUME TypeOK, NEW t \in Triggers
  PROVE  /\ Invoked(t) \in [Infos -> Info]
         /\ \A i \in Infos, u \in Triggers : Invoked(t)[i].targets[u] = IF i = here /\ u = t THEN None ELSE Callback(i, u)
<1> DEFINE g == [infos[here].targets EXCEPT ![t] = None]
<1>1. here \in Infos /\ infos \in [Infos -> Info]
  BY WhoRuns DEF TypeOK
<1>2. g \in [Triggers -> Packets \cup {None}] /\ \A u \in Triggers : g[u] = IF u = t THEN None ELSE Callback(here, u)
  BY <1>1, InfoTypes DEF Callback
<1>3. Invoked(t) = [infos EXCEPT ![here] = [packet |-> infos[here].packet, targets |-> g]]
  <2>1. PICK i \in Infos : i = here
    BY <1>1
  <2>2. [infos[i] EXCEPT !.targets[t] = None] = [packet |-> infos[i].packet, targets |-> g]
    BY <1>1, <2>1 DEF Info
  <2>3. Invoked(t) = [infos EXCEPT ![i] = [infos[i] EXCEPT !.targets[t] = None]]
    BY <1>1, <2>1 DEF Invoked
  <2> HIDE DEF g
  <2> QED
    BY <2>1, <2>2, <2>3
<1>4. [packet |-> infos[here].packet, targets |-> g] \in Info
  BY <1>1, <1>2, InfoTypes DEF Info
<1> HIDE DEF g
<1> QED
  BY <1>1, <1>2, <1>3, <1>4 DEF Callback

LEMMA ChainedInfos ==
  ASSUME TypeOK, NEW t \in Triggers, NEW w \in Triggers, t # w, NEW p \in Packets \cup {None}
  PROVE  /\ Chained(t, w, p) \in [Infos -> Info]
         /\ \A i \in Infos, u \in Triggers : Chained(t, w, p)[i].targets[u] =
              IF i = here /\ u = t THEN None ELSE IF i = here /\ u = w THEN p ELSE Callback(i, u)
<1> DEFINE g == [infos[here].targets EXCEPT ![t] = None, ![w] = p]
<1>1. here \in Infos /\ infos \in [Infos -> Info]
  BY WhoRuns DEF TypeOK
<1>2. g \in [Triggers -> Packets \cup {None}]
      /\ \A u \in Triggers : g[u] = IF u = t THEN None ELSE IF u = w THEN p ELSE Callback(here, u)
  BY <1>1, InfoTypes DEF Callback
<1>3. Chained(t, w, p) = [infos EXCEPT ![here] = [packet |-> infos[here].packet, targets |-> g]]
  <2>1. PICK i \in Infos : i = here
    BY <1>1
  <2>2. [infos[i] EXCEPT !.targets = [@ EXCEPT ![t] = None, ![w] = p]] = [packet |-> infos[i].packet, targets |-> g]
    BY <1>1, <2>1 DEF Info
  <2>3. Chained(t, w, p) = [infos EXCEPT ![i] = [infos[i] EXCEPT !.targets = [@ EXCEPT ![t] = None, ![w] = p]]]
    BY <1>1, <2>1 DEF Chained
  <2> HIDE DEF g
  <2> QED
    BY <2>1, <2>2, <2>3
<1>4. [packet |-> infos[here].packet, targets |-> g] \in Info
  BY <1>1, <1>2, InfoTypes DEF Info
<1> HIDE DEF g
<1> QED
  BY <1>1, <1>2, <1>3, <1>4 DEF Callback

(* A copy leaves the infos in use alone. *)
LEMMA CopiedInfos ==
  ASSUME ~IsFiniteSet(Infos), TypeOK, NEW r \in Info, Copy(r)
  PROVE  /\ infos' \in [Infos -> Info] /\ infos'[Fresh] = r
         /\ \A i \in Used \cap Infos : i # Fresh /\ infos'[i] = infos[i]
<1>1. Fresh \in Infos /\ Fresh \notin Used
  BY FreshInfo
<1>2. infos \in [Infos -> Info] /\ Blank \in Info
  BY <1>1, InfoTypes DEF TypeOK
<1> QED
  BY <1>1, <1>2 DEF Copy


-----------------------------------------------------------------------------
(* Every step keeps the types; first the parts of TypeOK the steps preserve one by one. *)

Request      == [service : {"HIRQ-1", "HIRQ-6"}, info : Infos]
Transmission == [op : {"retry", "finish"}, packet : Packets]
Task         == [service : {"receive", "sendTask"}, info : Infos]
Holder       == [info : Infos]
RadioType    == [overflow : BOOLEAN, bytes : 0..(Modulus - 1), nr : Int, collision : BOOLEAN]
StateType    == [collided : BOOLEAN, full : BOOLEAN, busy : BOOLEAN]

MediumOK  == ccaOn \in BOOLEAN /\ unsent \subseteq Packets /\ air \in Packets \cup {None}
PacketsOK == size \in [Packets -> 0..FifoSize] /\ collided \in [Packets -> BOOLEAN]
RadioOK   == radio \in RadioType /\ transmit \in Seq(Transmission) /\ receiving \in BOOLEAN
RequestOK == issued \in Seq(Request) /\ pending \in Seq(Request)
InfosOK   == infos \in [Infos -> Info] /\ base \in Infos
ThreadsOK == th \in [Threads -> ThreadType] /\ Main.at \in MainPlaces /\ Irq.at \in IrqPlaces /\ cur \in Infos
TasksOK   == tasks \in Seq(Task)
QueuesOK  == rxfifo \in Seq(Info) /\ ipaq \in Seq(Holder) /\ postponed \in Seq(Holder)
StateOK   == state \in StateType

(* TypeOK in parts, now and after a step. *)
LEMMA TypeParts ==
  /\ TypeOK <=> /\ MediumOK /\ PacketsOK /\ RadioOK /\ RequestOK /\ InfosOK
                /\ ThreadsOK /\ TasksOK /\ QueuesOK /\ StateOK
  /\ TypeOK' <=> /\ MediumOK' /\ PacketsOK' /\ RadioOK' /\ RequestOK' /\ InfosOK'
                 /\ ThreadsOK' /\ TasksOK' /\ QueuesOK' /\ StateOK'
<1>1. TypeOK <=> /\ MediumOK /\ PacketsOK /\ RadioOK /\ RequestOK /\ InfosOK
                 /\ ThreadsOK /\ TasksOK /\ QueuesOK /\ StateOK
  BY Zenon DEF TypeOK, MediumOK, PacketsOK, RadioOK, RequestOK, InfosOK, ThreadsOK, TasksOK, QueuesOK, StateOK,
       Request, Transmission, Task, Holder, RadioType, StateType, ThreadType, Places, Main, Irq
<1>2. TypeOK' <=> /\ MediumOK' /\ PacketsOK' /\ RadioOK' /\ RequestOK' /\ InfosOK'
                  /\ ThreadsOK' /\ TasksOK' /\ QueuesOK' /\ StateOK'
  BY Zenon DEF TypeOK, MediumOK, PacketsOK, RadioOK, RequestOK, InfosOK, ThreadsOK, TasksOK, QueuesOK, StateOK,
       Request, Transmission, Task, Holder, RadioType, StateType, ThreadType, Places, Main, Irq
<1> QED
  BY <1>1, <1>2

(* When the main thread sleeps nothing waits for it; it takes a task only if there *)
(* is one; while it is at a statement, no interrupt is handled, since interrupts   *)
(* come between callbacks of the simulator.                                        *)
Awake ==
  /\ Main.at = "asleep" => tasks = <<>>
  /\ Main.at \in {"awake", "taskloop", "dequeue"} => tasks # <<>>
  /\ Main.at = "awake" => Irq.at # "none"
  /\ Irq.at = "none" => pending = <<>>
  /\ Irq.at # "none" => Main.at \in Stages \cup {"asleep", "awake"}

LEMMA Appending ==
  ASSUME NEW S, NEW q \in Seq(S), NEW y \in S
  PROVE  Append(q, y) \in Seq(S) /\ Append(q, y) # <<>> /\ Len(Append(q, y)) = Len(q) + 1
<1>1. Append(q, y) \in Seq(S) /\ Len(Append(q, y)) = Len(q) + 1 /\ Len(q) \in Nat
  OBVIOUS
<1>2. Len(<<>>) = 0 /\ Len(q) + 1 # 0
  BY <1>1
<1> QED
  BY <1>1, <1>2

LEMMA MovedType ==
  ASSUME TypeOK, NEW p \in Places, NEW i \in Infos, Moved(p, i),
         Running = "main" => p \in MainPlaces, Running = "irq" => p \in IrqPlaces
  PROVE  ThreadsOK'
<1>1. ThreadsOK /\ ([at |-> p, info |-> i]).at = p
  BY TypeParts
<1>2. CASE Running = "main"
  BY <1>1, <1>2 DEF ThreadsOK, Moved, Main, Irq
<1>3. CASE Running = "irq"
  BY <1>1, <1>3 DEF ThreadsOK, Moved, Main, Irq
<1> QED
  BY <1>2, <1>3, WhoRuns

LEMMA MovedAwake ==
  ASSUME TypeOK, Awake, NEW p \in Places, NEW i \in Infos, Moved(p, i),
         p \notin {"none", "asleep", "awake", "taskloop", "dequeue"}, pending' = pending,
         tasks' = tasks \/ Running = "main"
  PROVE  Awake'
<1>1. ([at |-> p, info |-> i]).at = p
  OBVIOUS
<1>2. CASE Running = "main"
  <2>1. Main'.at = p /\ Irq' = Irq /\ Irq.at = "none"
    BY <1>1, <1>2, WhoRuns DEF Moved
  <2> QED
    BY <2>1 DEF Awake
<1>3. CASE Running = "irq"
  <2>1. Irq'.at = p /\ Main' = Main /\ Irq.at # "none" /\ tasks' = tasks
    BY <1>1, <1>3, WhoRuns DEF Moved
  <2> QED
    BY <2>1 DEF Awake
<1> QED
  BY <1>2, <1>3, WhoRuns

(* Where a thread may be is known by its name. *)
LEMMA MainOnly ==
  ASSUME TypeOK, NEW p \in Places \ IrqPlaces, At(p)
  PROVE  Running = "main" /\ Main.at = p /\ Irq.at = "none" /\ here = Main.info
BY WhoRuns, TypeParts DEF At, ThreadsOK, here

LEMMA IrqOnly ==
  ASSUME TypeOK, NEW p \in Places \ MainPlaces, At(p)
  PROVE  Running = "irq" /\ Irq.at = p /\ Irq.at # "none" /\ here = Irq.info
BY WhoRuns, TypeParts DEF At, ThreadsOK, here

(* One lemma per action: it keeps the types, and the main thread awake. *)

LEMMA RadioSteps ==
  ASSUME NEW r \in RadioType
  PROVE  /\ [r EXCEPT !.nr = @ + 1, !.collision = @ \/ r.nr > 0] \in RadioType
         /\ [r EXCEPT !.nr = @ - 1] \in RadioType
         /\ Cleared(r) \in RadioType /\ Flushed(r) \in RadioType
         /\ \A o \in BOOLEAN, b \in 0..(Modulus - 1) : [r EXCEPT !.overflow = o, !.bytes = b] \in RadioType
<1>1. /\ [r EXCEPT !.nr = @ + 1, !.collision = @ \/ r.nr > 0] \in RadioType
      /\ [r EXCEPT !.nr = @ - 1] \in RadioType
  <2>1. \A n \in Int, c \in BOOLEAN : [r EXCEPT !.nr = n, !.collision = c] \in RadioType /\ [r EXCEPT !.nr = n] \in RadioType
    BY DEF RadioType
  <2>2. r.nr + 1 \in Int /\ r.nr - 1 \in Int
    BY DEF RadioType
  <2>3. (r.collision \/ r.nr > 0) \in BOOLEAN
    OBVIOUS
  <2>4. [r EXCEPT !.nr = r.nr + 1, !.collision = r.collision \/ r.nr > 0] \in RadioType
    BY <2>1, <2>2, <2>3, Zenon
  <2>5. [r EXCEPT !.nr = @ + 1, !.collision = @ \/ r.nr > 0]
          = [r EXCEPT !.nr = r.nr + 1, !.collision = r.collision \/ r.nr > 0]
    BY Zenon
  <2> QED
    BY <2>1, <2>2, <2>4, <2>5, Zenon
<1>2. Cleared(r) \in RadioType
  BY DEF RadioType, Cleared
<1>3. \A o \in BOOLEAN, b \in 0..(Modulus - 1) : [r EXCEPT !.overflow = o, !.bytes = b] \in RadioType
  BY DEF RadioType
<1>4. 0 \in 0..(Modulus - 1)
  BY MoteAssumption
<1>5. Flushed(r) \in RadioType
  BY <1>3, <1>4 DEF Flushed
<1> QED
  BY <1>1, <1>2, <1>3, <1>5

LEMMA SendPacketType ==
  ASSUME TypeOK, Awake, NEW p \in Packets, SendPacket(p)
  PROVE  TypeOK' /\ Awake'
<1>1. Awake'
  BY DEF SendPacket, cpu, queues, Awake, Main, Irq
<1>2. MediumOK'
  BY TypeParts DEF SendPacket, MediumOK
<1>3. RadioOK'
  <2>1. radio \in RadioType
    BY TypeParts DEF RadioOK
  <2>2. radio' = radio \/ radio' = [radio EXCEPT !.nr = @ + 1, !.collision = @ \/ radio.nr > 0]
    BY Zenon DEF SendPacket
  <2>3. radio' \in RadioType
    BY <2>1, <2>2, RadioSteps, Zenon
  <2> QED
    BY <2>3, TypeParts DEF SendPacket, RadioOK
<1>4. PacketsOK' /\ RequestOK' /\ InfosOK' /\ ThreadsOK' /\ TasksOK' /\ QueuesOK' /\ StateOK'
  BY TypeParts DEF SendPacket, pkts, cpu, queues, PacketsOK, RequestOK, InfosOK, ThreadsOK, TasksOK, QueuesOK,
       StateOK, Main, Irq
<1> QED
  BY <1>1, <1>2, <1>3, <1>4, TypeParts

LEMMA Bytes ==
  /\ \A x \in Int : x % Modulus \in 0..(Modulus - 1)
  /\ FifoSize \in 0..(Modulus - 1)
  /\ \A p \in Packets : TypeOK => size[p] \in 0..FifoSize /\ Kept(p) \in 0..FifoSize
<1>1. Modulus \in Nat /\ FifoSize \in Nat \ {0} /\ Modulus > 2 * FifoSize
  BY MoteAssumption
<1>2. \A x \in Int : x % Modulus \in 0..(Modulus - 1)
  BY <1>1
<1>3. FifoSize \in 0..(Modulus - 1)
  BY <1>1
<1>4. ASSUME NEW p \in Packets, TypeOK
      PROVE  size[p] \in 0..FifoSize /\ Kept(p) \in 0..FifoSize
  <2>1. size[p] \in 0..FifoSize /\ radio.bytes \in Nat
    BY <1>4, TypeParts DEF PacketsOK, RadioOK, RadioType
  <2>2. Removed(p) \in 0..(Modulus - 1)
    BY <1>1, <1>2, <2>1 DEF Removed
  <2> QED
    BY <1>1, <2>1, <2>2 DEF Kept
<1> QED
  BY <1>2, <1>3, <1>4

LEMMA StoreType ==
  ASSUME TypeOK, NEW p \in Packets, NEW i \in Infos, Store(p, i)
  PROVE  /\ infos' \in [Infos -> Info] /\ issued' \in Seq(Request) /\ rxfifo' \in Seq(Info) /\ receiving' = TRUE
<1>1. Registered(i, "readdonepayload", p) \in Info /\ [Registered(i, "readdonepayload", p) EXCEPT !.packet = p] \in Info
  BY InfoTypes DEF Triggers
<1>2. infos \in [Infos -> Info] /\ issued \in Seq(Request) /\ rxfifo \in Seq(Info)
  BY TypeParts DEF InfosOK, RequestOK, QueuesOK
<1>3. [service |-> "HIRQ-1", info |-> i] \in Request
  BY DEF Request
<1>4. CASE receiving
  <2>1. rxfifo' \in Seq(Info)
    BY <1>1, <1>2, <1>4, Appending DEF Store
  <2>2. infos' \in [Infos -> Info]
    BY <1>1, <1>2, <1>4 DEF Store
  <2> QED
    BY <2>1, <2>2, <1>2, <1>4 DEF Store
<1>5. CASE ~receiving
  <2>1. issued' = Append(issued, [service |-> "HIRQ-1", info |-> i])
    BY <1>5 DEF Store
  <2>3. issued' \in Seq(Request)
    BY <2>1, <1>2, <1>3, Appending
  <2>2. infos' \in [Infos -> Info]
    BY <1>1, <1>2, <1>5 DEF Store
  <2> QED
    BY <2>3, <2>2, <1>2, <1>5 DEF Store
<1> QED
  BY <1>4, <1>5

LEMMA ReceivePacketType ==
  ASSUME TypeOK, Awake, ReceivePacket
  PROVE  TypeOK' /\ Awake'
<1>1. Awake'
  BY DEF ReceivePacket, Awake, Main, Irq
<1>2. MediumOK' /\ air \in Packets
  BY TypeParts DEF ReceivePacket, MediumOK
<1>3. ThreadsOK' /\ TasksOK' /\ StateOK'
  BY TypeParts DEF ReceivePacket, ThreadsOK, TasksOK, StateOK, Main, Irq
<1> DEFINE over == Overflows(air)
           now  == Cleared([radio EXCEPT !.nr = @ - 1])
<1>4. radio \in RadioType /\ now \in RadioType /\ over \in BOOLEAN
  <2>1. radio \in RadioType
    BY TypeParts DEF RadioOK
  <2>2. [radio EXCEPT !.nr = @ - 1] \in RadioType
    BY <2>1, RadioSteps, Zenon
  <2>3. now \in RadioType
    BY <2>2, RadioSteps, Zenon
  <2>4. over \in BOOLEAN
    BY DEF Overflows
  <2> HIDE DEF over, now
  <2> QED
    BY <2>1, <2>3, <2>4
<1>5. /\ cur \in Infos /\ collided \in [Packets -> BOOLEAN] /\ size \in [Packets -> 0..FifoSize]
      /\ radio.collision \in BOOLEAN /\ radio.bytes \in Nat
  BY <1>4, TypeParts DEF ThreadsOK, PacketsOK, RadioType
<1>6. CASE radio.overflow
  <2>1. radio' = now /\ collided' = [collided EXCEPT ![air] = radio.collision]
        /\ UNCHANGED <<size, receiving, infos, rxfifo, issued, transmit, pending, base, ipaq, postponed>>
    BY <1>6 DEF ReceivePacket
  <2> HIDE DEF now
  <2>2. PacketsOK'
    BY <2>1, <1>2, <1>5 DEF PacketsOK
  <2>3. RadioOK' /\ RequestOK' /\ InfosOK' /\ QueuesOK'
    BY <2>1, <1>4, TypeParts DEF RadioOK, RequestOK, InfosOK, QueuesOK
  <2> QED
    BY <1>1, <1>2, <1>3, <2>2, <2>3, TypeParts
<1>7. CASE ~radio.overflow
  <2>1. /\ radio' = [now EXCEPT !.overflow = over,
                                !.bytes = IF over THEN FifoSize ELSE (now.bytes + size[air]) % Modulus]
        /\ collided' = [collided EXCEPT ![air] = radio.collision \/ over]
        /\ size' = IF over THEN [size EXCEPT ![air] = Kept(air)] ELSE size
        /\ Store(air, cur)
        /\ UNCHANGED <<transmit, pending, base, ipaq, postponed>>
    BY <1>7 DEF ReceivePacket
  <2> DEFINE b == IF over THEN FifoSize ELSE (now.bytes + size[air]) % Modulus
  <2>2. b \in 0..(Modulus - 1)
    <3>1. now.bytes \in Nat /\ size[air] \in Nat
      BY <1>2, <1>4, <1>5 DEF RadioType
    <3> HIDE DEF now, over
    <3> QED
      BY <3>1, Bytes
  <2>3. radio' \in RadioType
    <3>1. radio' = [now EXCEPT !.overflow = over, !.bytes = b]
      BY <2>1
    <3> HIDE DEF now, over, b
    <3> QED
      BY <3>1, <2>2, <1>4, RadioSteps
  <2>4. PacketsOK'
    <3>1. Kept(air) \in 0..FifoSize
      BY <1>2, Bytes
    <3>2. collided' \in [Packets -> BOOLEAN]
      BY <2>1, <1>2, <1>5
    <3>3. size' \in [Packets -> 0..FifoSize]
      BY <2>1, <1>2, <1>5, <3>1
    <3> QED
      BY <3>2, <3>3 DEF PacketsOK
  <2>5. infos' \in [Infos -> Info] /\ issued' \in Seq(Request) /\ rxfifo' \in Seq(Info) /\ receiving' = TRUE
    BY <2>1, <1>2, <1>5, StoreType
  <2>6. RadioOK' /\ RequestOK' /\ InfosOK' /\ QueuesOK'
    BY <2>1, <2>3, <2>5, TypeParts DEF RadioOK, RequestOK, InfosOK, QueuesOK
  <2> QED
    BY <1>1, <1>2, <1>3, <2>4, <2>6, TypeParts
<1> QED
  BY <1>6, <1>7

LEMMA WrittenType ==
  ASSUME TypeOK, NEW p \in Packets, NEW rest \in Seq(Transmission), Written(p, rest)
  PROVE  radio' \in RadioType /\ transmit' \in Seq(Transmission) /\ Len(transmit') = Len(rest) + 1
<1>1. radio \in RadioType
  BY TypeParts DEF RadioOK
<1>2. [op |-> "retry", packet |-> p] \in Transmission /\ [op |-> "finish", packet |-> p] \in Transmission
  BY DEF Transmission
<1>3. \/ radio' = radio /\ transmit' = Append(rest, [op |-> "retry", packet |-> p])
      \/ /\ radio' = [radio EXCEPT !.nr = @ + 1, !.collision = @ \/ radio.nr > 0]
         /\ transmit' = Append(rest, [op |-> "finish", packet |-> p])
  BY Zenon DEF Written
<1>4. radio' \in RadioType
  BY <1>1, <1>3, RadioSteps, Zenon
<1>5. transmit' \in Seq(Transmission) /\ Len(transmit') = Len(rest) + 1
  <2>1. \A y \in Transmission : Append(rest, y) \in Seq(Transmission) /\ Len(Append(rest, y)) = Len(rest) + 1
    BY Appending
  <2> QED
    BY <1>2, <1>3, <2>1, Zenon
<1> QED
  BY <1>4, <1>5

LEMMA RetryType ==
  ASSUME TypeOK, Awake, NEW k \in DOMAIN transmit, Retry(k)
  PROVE  TypeOK' /\ Awake' /\ Len(transmit') = Len(transmit)
<1>1. Awake'
  BY DEF Retry, cpu, queues, Awake, Main, Irq
<1>2. transmit \in Seq(Transmission)
  BY TypeParts DEF RadioOK
<1>3. /\ RemoveAt(transmit, k) \in Seq(Transmission) /\ Len(RemoveAt(transmit, k)) = Len(transmit) - 1
      /\ transmit[k] \in Transmission /\ Len(transmit) \in Nat
  BY <1>2, Shortened
<1>4. transmit[k].packet \in Packets
  BY <1>3 DEF Transmission
<1>5. /\ radio' \in RadioType /\ transmit' \in Seq(Transmission)
      /\ Len(transmit') = Len(RemoveAt(transmit, k)) + 1
  BY <1>3, <1>4, WrittenType DEF Retry
<1>6. RadioOK'
  BY <1>5, TypeParts DEF Retry, RadioOK
<1>7. MediumOK' /\ PacketsOK' /\ RequestOK' /\ InfosOK' /\ ThreadsOK' /\ TasksOK' /\ QueuesOK' /\ StateOK'
  BY TypeParts DEF Retry, medium, pkts, cpu, queues, MediumOK, PacketsOK, RequestOK, InfosOK, ThreadsOK, TasksOK,
       QueuesOK, StateOK, Main, Irq
<1> QED
  BY <1>1, <1>3, <1>5, <1>6, <1>7, TypeParts

LEMMA FinishedTransmittingType ==
  ASSUME TypeOK, Awake, NEW k \in DOMAIN transmit, FinishedTransmitting(k)
  PROVE  TypeOK' /\ Awake'
<1>1. Awake'
  BY DEF FinishedTransmitting, queues, Awake, Main, Irq
<1>2. transmit \in Seq(Transmission) /\ radio \in RadioType /\ infos \in [Infos -> Info] /\ cur \in Infos
      /\ issued \in Seq(Request)
  BY TypeParts DEF RadioOK, InfosOK, ThreadsOK, RequestOK
<1>3. /\ RemoveAt(transmit, k) \in Seq(Transmission) /\ transmit[k] \in Transmission
  BY <1>2, Shortened
<1>4. transmit[k].packet \in Packets
  BY <1>3 DEF Transmission
<1>5. RadioOK'
  <2>1. [radio EXCEPT !.nr = @ - 1] \in RadioType
    BY <1>2, RadioSteps, Zenon
  <2>2. radio' \in RadioType
    BY <2>1, RadioSteps, Zenon DEF FinishedTransmitting
  <2> QED
    BY <2>2, <1>3, TypeParts DEF FinishedTransmitting, RadioOK
<1>6. RequestOK'
  <2>1. [service |-> "HIRQ-6", info |-> cur] \in Request
    BY <1>2 DEF Request
  <2>2. issued' \in Seq(Request)
    BY <2>1, <1>2, Appending DEF FinishedTransmitting
  <2> QED
    BY <2>2, TypeParts DEF FinishedTransmitting, RequestOK
<1>7. InfosOK'
  <2>1. infos[cur] \in Info
    BY <1>2
  <2>2. [infos[cur] EXCEPT !.packet = transmit[k].packet] \in Info
    BY <2>1, <1>4 DEF Info
  <2>3. infos' = [infos EXCEPT ![cur] = [infos[cur] EXCEPT !.packet = transmit[k].packet]]
    BY <1>2 DEF FinishedTransmitting
  <2>4. infos' \in [Infos -> Info]
    BY <2>2, <2>3, <1>2
  <2> QED
    BY <2>4, TypeParts DEF FinishedTransmitting, InfosOK
<1>8. MediumOK' /\ PacketsOK' /\ ThreadsOK' /\ TasksOK' /\ QueuesOK' /\ StateOK'
  BY TypeParts DEF FinishedTransmitting, medium, pkts, queues, MediumOK, PacketsOK, ThreadsOK, TasksOK,
       QueuesOK, StateOK, Main, Irq
<1> QED
  BY <1>1, <1>5, <1>6, <1>7, <1>8, TypeParts

LEMMA InterruptType ==
  ASSUME TypeOK, NEW ir \in Request, Interrupt(ir, th["main"])
  PROVE  /\ ThreadsOK' /\ base' \in Infos /\ Main' = Main /\ Irq'.at # "none" /\ Irq'.info = ir.info
         /\ Irq'.at = IF ir.service = "HIRQ-1" THEN "writing" ELSE "sendDone"
         /\ cur' = ir.info
<1> DEFINE p == IF ir.service = "HIRQ-1" THEN "writing" ELSE "sendDone"
           t == [at |-> p, info |-> ir.info]
<1>1. ir.info \in Infos
  BY DEF Request
<1>2. p \in IrqPlaces /\ p \in Places /\ p # "none"
  BY DEF IrqPlaces, Places
<1> HIDE DEF p
<1>3. t \in ThreadType /\ t.at = p /\ t.info = ir.info
  BY <1>1, <1>2 DEF ThreadType
<1>4. Main \in ThreadType /\ Main.at \in MainPlaces
  BY TypeParts, WhoRuns DEF ThreadsOK
<1>5. th' = Both(Main, t)
  BY Zenon DEF Interrupt, Main, p
<1> HIDE DEF t
<1>6. th' \in [Threads -> ThreadType] /\ Main' = Main /\ Irq' = t
  BY <1>3, <1>4, <1>5, BothThreads DEF Main, Irq
<1> QED
  BY <1>1, <1>2, <1>3, <1>4, <1>6 DEF ThreadsOK, p, Interrupt

LEMMA IssueInterruptType ==
  ASSUME TypeOK, Awake, NEW k \in DOMAIN issued, IssueInterrupt(k)
  PROVE  TypeOK' /\ Awake'
<1>1. issued \in Seq(Request) /\ pending \in Seq(Request)
  BY TypeParts DEF RequestOK
<1>2. RemoveAt(issued, k) \in Seq(Request) /\ issued[k] \in Request
  BY <1>1, Shortened
<1>3. MediumOK' /\ PacketsOK' /\ RadioOK' /\ TasksOK' /\ QueuesOK' /\ StateOK'
  BY TypeParts DEF IssueInterrupt, medium, pkts, queues, MediumOK, PacketsOK, RadioOK, TasksOK, QueuesOK, StateOK
<1>4. CASE Irq.at = "none"
  <2>1. Interrupt(issued[k], th["main"]) /\ pending' = pending /\ issued' = RemoveAt(issued, k)
    BY <1>4 DEF IssueInterrupt, Irq
  <2>2. ThreadsOK' /\ base' \in Infos /\ Main' = Main /\ Irq'.at # "none"
    BY <2>1, <1>2, InterruptType
  <2>3. RequestOK' /\ InfosOK'
    BY <2>1, <2>2, <1>1, <1>2, TypeParts DEF IssueInterrupt, RequestOK, InfosOK
  <2>4. Main.at \in Stages \cup {"asleep"}
    BY <1>4, WhoRuns DEF IssueInterrupt, Computing
  <2>5. Awake'
    BY <2>1, <2>2, <2>4 DEF Awake, IssueInterrupt, queues
  <2> QED
    BY <1>3, <2>2, <2>3, <2>5, TypeParts
<1>5. CASE Irq.at # "none"
  <2>1. /\ pending' = (IF Len(pending) < QueueSize THEN Append(pending, issued[k]) ELSE pending)
        /\ issued' = RemoveAt(issued, k) /\ UNCHANGED <<th, base, cur>>
    BY <1>5 DEF IssueInterrupt, Irq
  <2>2. pending' \in Seq(Request)
    BY <2>1, <1>1, <1>2, Appending
  <2>3. RequestOK' /\ InfosOK' /\ ThreadsOK'
    BY <2>1, <2>2, <1>1, <1>2, TypeParts DEF IssueInterrupt, RequestOK, InfosOK, ThreadsOK, Main, Irq
  <2>4. Awake'
    BY <2>1, <1>5 DEF Awake, IssueInterrupt, queues, Main, Irq
  <2> QED
    BY <1>3, <2>3, <2>4, TypeParts
<1> QED
  BY <1>4, <1>5

LEMMA EndOfInterruptType ==
  ASSUME TypeOK, Awake, EndOfInterrupt
  PROVE  TypeOK' /\ Awake'
<1>1. pending \in Seq(Request) /\ base \in Infos /\ 0 \in Infos
  BY TypeParts, MoteAssumption DEF RequestOK, InfosOK
<1>2. MediumOK' /\ PacketsOK' /\ RadioOK' /\ TasksOK' /\ QueuesOK' /\ StateOK'
  BY TypeParts DEF EndOfInterrupt, medium, pkts, queues, MediumOK, PacketsOK, RadioOK, TasksOK, QueuesOK, StateOK
<1>3. Irq.at # "none"
  BY WhoRuns DEF EndOfInterrupt
<1>4. CASE pending # <<>>
  <2>1. Interrupt(Head(pending), th["main"]) /\ pending' = Tail(pending)
    BY <1>4 DEF EndOfInterrupt
  <2>2. Head(pending) \in Request /\ Tail(pending) \in Seq(Request)
    BY <1>1, <1>4, TailRemoves
  <2>3. ThreadsOK' /\ base' \in Infos /\ Main' = Main /\ Irq'.at # "none"
    BY <2>1, <2>2, InterruptType
  <2>4. RequestOK' /\ InfosOK'
    BY <2>1, <2>2, <2>3, TypeParts DEF EndOfInterrupt, RequestOK, InfosOK
  <2>5. Awake'
    BY <2>3, <1>3 DEF Awake, EndOfInterrupt, queues
  <2> QED
    BY <1>2, <2>3, <2>4, <2>5, TypeParts
<1>5. CASE pending = <<>>
  <2> DEFINE m == [th["main"] EXCEPT !.at = IF @ = "awake" THEN "taskloop" ELSE @]
             q == [at |-> "none", info |-> 0]
  <2>1. /\ th' = Both(m, q) /\ pending' = pending /\ base' = 0
        /\ cur' = IF th["main"].at = "awake" THEN 0 ELSE base
    BY <1>5 DEF EndOfInterrupt
  <2>2. Main \in ThreadType /\ Main.at \in MainPlaces
    BY TypeParts, WhoRuns DEF ThreadsOK
  <2>3. /\ m \in ThreadType /\ m.at = (IF Main.at = "awake" THEN "taskloop" ELSE Main.at) /\ m.info = Main.info
        /\ m.at \in MainPlaces
    BY <2>2 DEF ThreadType, Main, MainPlaces, Places, Stages, After
  <2>4. q \in ThreadType /\ q.at = "none" /\ "none" \in IrqPlaces
    BY <1>1 DEF ThreadType, Places, IrqPlaces
  <2> HIDE DEF m, q
  <2>5. th' \in [Threads -> ThreadType] /\ Main' = m /\ Irq' = q
    BY <2>1, <2>3, <2>4, BothThreads DEF Main, Irq
  <2>6. ThreadsOK' /\ RequestOK' /\ InfosOK'
    BY <2>1, <2>3, <2>4, <2>5, <1>1, TypeParts DEF ThreadsOK, EndOfInterrupt, RequestOK, InfosOK
  <2>7. Awake'
    BY <2>1, <2>3, <2>4, <2>5, <1>3, <1>5 DEF Awake, EndOfInterrupt, queues
  <2> QED
    BY <1>2, <2>6, <2>7, TypeParts
<1> QED
  BY <1>4, <1>5

LEMMA SendDoneType ==
  ASSUME ~IsFiniteSet(Infos), TypeOK, Awake, SendDone
  PROVE  /\ TypeOK' /\ Awake' /\ Irq.at = "sendDone" /\ Irq'.at = "sent" /\ ipaq' = Tail(ipaq)
         /\ Main' = Main \/ Main' = Thread(Main)
         /\ postponed # <<>> => tasks' = Append(tasks, [service |-> "sendTask", info |-> Fresh])
         /\ postponed = <<>> => tasks' = tasks
<1>1. "sendDone" \in Places \ MainPlaces
  BY DEF Places, MainPlaces, IrqPlaces, Stages, After
<1>2. Running = "irq" /\ Irq.at = "sendDone"
  BY <1>1, IrqOnly DEF SendDone
<1>3. Fresh \in Infos
  BY FreshInfo
<1> DEFINE t == [at |-> "sent", info |-> Fresh]
<1>4. t \in ThreadType /\ t.at = "sent" /\ "sent" \in IrqPlaces
  BY <1>3 DEF ThreadType, Places, IrqPlaces
<1> HIDE DEF t
<1>5. Main \in ThreadType /\ Main.at \in MainPlaces /\ Thread(Main) \in ThreadType
      /\ Thread(Main).at \in MainPlaces
  <2>1. Main \in ThreadType /\ Main.at \in MainPlaces /\ "awake" \in MainPlaces
    BY TypeParts, WhoRuns DEF ThreadsOK, MainPlaces
  <2> QED
    BY <2>1, Woken
<1>6. Main' = Main \/ Main' = Thread(Main)
  <2>1. PICK m \in {Main, Thread(Main)} : th' = Both(m, t)
    <3>1. th' = Both(Main, t) \/ th' = Both(Thread(Main), t)
      BY Zenon DEF SendDone, Main, t
    <3> QED
      BY <3>1
  <2>2. m \in ThreadType
    BY <1>5
  <2>3. th' \in [Threads -> ThreadType] /\ th'["main"] = m /\ th'["irq"] = t
    BY <2>1, <2>2, <1>4, BothThreads
  <2>4. Main' = m
    BY <2>3 DEF Main
  <2> QED
    BY <2>4
<1>7. th' \in [Threads -> ThreadType] /\ Irq' = t
  <2>1. PICK m \in {Main, Thread(Main)} : th' = Both(m, t)
    <3>1. th' = Both(Main, t) \/ th' = Both(Thread(Main), t)
      BY Zenon DEF SendDone, Main, t
    <3> QED
      BY <3>1
  <2>2. m \in ThreadType
    BY <1>5
  <2>3. th' \in [Threads -> ThreadType] /\ th'["irq"] = t
    BY <2>1, <2>2, <1>4, BothThreads
  <2> QED
    BY <2>3 DEF Irq
<1>8. ThreadsOK'
  BY <1>3, <1>4, <1>5, <1>6, <1>7 DEF ThreadsOK, SendDone
<1>9. ipaq \in Seq(Holder) /\ postponed \in Seq(Holder) /\ tasks \in Seq(Task) /\ rxfifo' = rxfifo
      /\ infos \in [Infos -> Info] /\ ipaq # <<>> /\ ipaq' = Tail(ipaq)
  BY TypeParts DEF SendDone, QueuesOK, TasksOK, InfosOK
<1>10. Head(ipaq) \in Holder /\ Tail(ipaq) \in Seq(Holder) /\ infos[Head(ipaq).info] \in Info
  <2>1. Head(ipaq) \in Holder /\ Tail(ipaq) \in Seq(Holder)
    BY <1>9, TailRemoves
  <2> QED
    BY <2>1, <1>9 DEF Holder
<1>11. StateOK'
  <2>1. state \in StateType /\ state' = [state EXCEPT !.busy = FALSE]
    BY TypeParts DEF StateOK, SendDone
  <2> QED
    BY <2>1 DEF StateOK, StateType
<1>12. MediumOK' /\ PacketsOK' /\ RadioOK' /\ RequestOK'
  BY TypeParts DEF SendDone, medium, pkts, MediumOK, PacketsOK, RadioOK, RequestOK
<1>13. CASE postponed = <<>>
  <2>1. Copy(infos[Head(ipaq).info]) /\ UNCHANGED <<tasks, postponed>>
    BY <1>13 DEF SendDone
  <2>2. infos' \in [Infos -> Info]
    BY <2>1, <1>10, CopiedInfos
  <2>3. InfosOK' /\ TasksOK' /\ QueuesOK'
    BY <2>1, <2>2, <1>9, <1>10, TypeParts DEF SendDone, InfosOK, TasksOK, QueuesOK
  <2>4. Main' = Main
    <3>1. th' = Both(Main, t)
      BY <1>13 DEF SendDone, Main, t
    <3> QED
      BY <3>1, <1>4, <1>5, BothThreads DEF Main
  <2>5. Awake'
    BY <2>1, <2>4, <1>2, <1>4, <1>7 DEF Awake, SendDone
  <2> QED
    BY <2>1, <2>3, <2>5, <1>2, <1>4, <1>6, <1>7, <1>8, <1>9, <1>11, <1>12, <1>13, TypeParts
<1>14. CASE postponed # <<>>
  <2>1. Copy(infos[Head(postponed).info]) /\ postponed' = Tail(postponed)
        /\ tasks' = Append(tasks, [service |-> "sendTask", info |-> Fresh])
    BY <1>14 DEF SendDone
  <2>2. Head(postponed) \in Holder /\ Tail(postponed) \in Seq(Holder)
    BY <1>9, <1>14, TailRemoves
  <2>3. infos[Head(postponed).info] \in Info
    BY <2>2, <1>9 DEF Holder
  <2>4. infos' \in [Infos -> Info]
    BY <2>1, <2>3, CopiedInfos
  <2>5. tasks' \in Seq(Task) /\ tasks' # <<>>
    <3>1. [service |-> "sendTask", info |-> Fresh] \in Task
      BY <1>3 DEF Task
    <3> QED
      BY <3>1, <2>1, <1>9, Appending
  <2>6. InfosOK' /\ TasksOK' /\ QueuesOK'
    BY <2>1, <2>2, <2>4, <2>5, <1>9, <1>10, TypeParts DEF SendDone, InfosOK, TasksOK, QueuesOK
  <2>7. Main' = Thread(Main)
    <3>1. th' = Both(Thread(Main), t)
      BY <1>14 DEF SendDone, Main, t
    <3> QED
      BY <3>1, <1>4, <1>5, BothThreads DEF Main
  <2>8. Main'.at # "asleep" /\ Main'.at \in Stages \cup {"asleep", "awake"}
    BY <2>7, <1>2, <1>5, Woken DEF Awake
  <2>9. Awake'
    BY <2>5, <2>8, <1>4, <1>7 DEF Awake
  <2> QED
    BY <2>1, <2>6, <2>9, <1>2, <1>4, <1>6, <1>7, <1>8, <1>9, <1>11, <1>12, <1>14, TypeParts
<1> QED
  BY <1>13, <1>14

(* A stage ends. *)
LEMMA AfterPlaces ==
  ASSUME NEW p \in Stages
  PROVE  /\ After[p] \in Places /\ (p \in MainPlaces => After[p] \in MainPlaces)
         /\ (p \in IrqPlaces => After[p] \in IrqPlaces \ {"none"})
         /\ After[p] \notin {"none", "asleep", "awake", "taskloop"}
         /\ (After[p] = "dequeue" <=> p = "taskloop")
BY DEF Stages, After, Places, MainPlaces, IrqPlaces

LEMMA StageDoneType ==
  ASSUME TypeOK, Awake, StageDone
  PROVE  TypeOK' /\ Awake' /\ \E p \in Stages : At(p) /\ Moved(After[p], here)
<1>1. PICK p \in Stages : At(p) /\ Goto(After[p])
  BY DEF StageDone, At
<1>2. Moved(After[p], here) /\ here \in Infos
  BY <1>1, AfterPlaces, GotoMoves, WhoRuns
<1>3. th[Running].at = p
  BY <1>1 DEF At
<1>4. ThreadsOK'
  <2>1. Running = "main" => p \in MainPlaces
    BY <1>3, WhoRuns, TypeParts DEF ThreadsOK
  <2>2. Running = "irq" => p \in IrqPlaces
    BY <1>3, WhoRuns, TypeParts DEF ThreadsOK
  <2> QED
    BY <1>2, <2>1, <2>2, AfterPlaces, MovedType
<1>5. MediumOK' /\ PacketsOK' /\ RadioOK' /\ RequestOK' /\ InfosOK' /\ TasksOK' /\ QueuesOK' /\ StateOK'
  BY TypeParts DEF StageDone, medium, pkts, queues, MediumOK, PacketsOK, RadioOK, RequestOK, InfosOK, TasksOK,
       QueuesOK, StateOK
<1>6. pending' = pending /\ tasks' = tasks
  BY DEF StageDone, queues
<1>7. Awake'
  <2>1. CASE p # "taskloop"
    BY <2>1, <1>2, <1>6, AfterPlaces, MovedAwake
  <2>2. CASE p = "taskloop"
    <3>1. "taskloop" \in Places \ IrqPlaces
      BY DEF Places, MainPlaces, IrqPlaces, Stages, After
    <3>2. Running = "main" /\ Main.at = "taskloop" /\ Irq.at = "none"
      BY <3>1, <2>2, <1>1, MainOnly
    <3>3. Main'.at = "dequeue" /\ Irq' = Irq
      BY <2>2, <3>2, <1>2, AfterPlaces DEF Moved
    <3> QED
      BY <3>2, <3>3, <1>6 DEF Awake
  <2> QED
    BY <2>1, <2>2
<1> QED
  BY <1>1, <1>2, <1>4, <1>5, <1>7, TypeParts

LEMMA TargetType ==
  ASSUME TypeOK, NEW t \in Triggers
  PROVE  /\ Target(t) \in Packets \cup {None} /\ Target(t) = Callback(here, t)
         /\ Target(t) # None => Target(t) \in Packets
<1>1. here \in Infos
  BY WhoRuns
<1> QED
  BY <1>1, InfoTypes DEF Target, Callback

LEMMA TriggerNames ==
  {"readdonepayload", "receivedone", "sendtask", "writtentotxfifo"} = Triggers
BY DEF Triggers

LEMMA ReadOutType ==
  ASSUME TypeOK, NEW p \in Packets
  PROVE  /\ ReadOut(p) \in RadioType
         /\ ReadOut(p).overflow => radio.overflow /\ ReadOut(p).bytes > 0
<1> DEFINE left == (radio.bytes - size[p]) % Modulus
           o    == radio.overflow /\ left # 0
<1>1. radio \in RadioType /\ radio.bytes \in Int /\ size[p] \in Int
  BY TypeParts DEF RadioOK, RadioType, PacketsOK
<1>2. left \in 0..(Modulus - 1)
  BY <1>1, Bytes
<1> HIDE DEF left
<1>3. ReadOut(p) = [radio EXCEPT !.bytes = left, !.overflow = o]
  BY Zenon DEF ReadOut, left
<1>4. \A b \in BOOLEAN : /\ [radio EXCEPT !.bytes = left, !.overflow = b] \in RadioType
                         /\ [radio EXCEPT !.bytes = left, !.overflow = b].overflow = b
                         /\ [radio EXCEPT !.bytes = left, !.overflow = b].bytes = left
  BY <1>1, <1>2 DEF RadioType
<1>5. o \in BOOLEAN
  OBVIOUS
<1>6. ReadOut(p) \in RadioType /\ ReadOut(p).overflow = o /\ ReadOut(p).bytes = left
  <2> HIDE DEF o
  <2> QED
    BY <1>3, <1>4, <1>5, Zenon
<1>7. left # 0 => left > 0
  BY <1>2, MoteAssumption
<1> QED
  BY <1>6, <1>7

LEMMA RestType ==
  ASSUME TypeOK, NEW r \in RadioType, Rest(r)
  PROVE  radio' \in RadioType /\ receiving' \in BOOLEAN
<1>1. receiving' \in BOOLEAN
  BY DEF Rest
<1>2. radio' = r \/ radio' = Flushed(r)
  BY DEF Rest
<1> QED
  BY <1>1, <1>2, RadioSteps, Zenon

LEMMA DequeueType ==
  ASSUME TypeOK, Awake, Dequeue
  PROVE  /\ TypeOK' /\ Awake' /\ Main.at = "dequeue" /\ Irq.at = "none" /\ Irq' = Irq
         /\ tasks # <<>> /\ tasks' = Tail(tasks) /\ Head(tasks) \in Task
         /\ Main'.at = Head(tasks).service /\ Main'.info = Head(tasks).info
<1>1. "dequeue" \in Places \ IrqPlaces
  BY DEF Places, MainPlaces, IrqPlaces, Stages, After
<1>2. Running = "main" /\ Main.at = "dequeue" /\ Irq.at = "none"
  BY <1>1, MainOnly DEF Dequeue
<1>3. tasks \in Seq(Task) /\ tasks # <<>>
  BY <1>2, TypeParts DEF Awake, TasksOK
<1>4. Head(tasks) \in Task /\ Tail(tasks) \in Seq(Task)
  BY <1>3, TailRemoves
<1> DEFINE p == Head(tasks).service
           i == Head(tasks).info
<1>5. p \in {"receive", "sendTask"} /\ i \in Infos
  BY <1>4 DEF Task
<1>6. p \in Places /\ p \in MainPlaces /\ p \notin {"none", "asleep", "awake", "taskloop", "dequeue"}
  BY <1>5 DEF Places, MainPlaces
<1>7. Enter(p, i)
  BY DEF Dequeue
<1> HIDE DEF p, i
<1>8. Moved(p, i)
  BY <1>5, <1>6, <1>7, EnterMoves
<1>9. ThreadsOK'
  BY <1>2, <1>5, <1>6, <1>8, MovedType
<1>10. Awake'
  BY <1>2, <1>5, <1>6, <1>8, MovedAwake DEF Dequeue
<1>11. TasksOK'
  BY <1>4 DEF Dequeue, TasksOK
<1>12. MediumOK' /\ PacketsOK' /\ RadioOK' /\ RequestOK' /\ InfosOK' /\ QueuesOK' /\ StateOK'
  BY TypeParts DEF Dequeue, medium, pkts, MediumOK, PacketsOK, RadioOK, RequestOK, InfosOK, QueuesOK, StateOK
<1>13. Main' = [at |-> p, info |-> i] /\ Irq' = Irq
  BY <1>2, <1>8 DEF Moved
<1> QED
  BY <1>2, <1>3, <1>4, <1>9, <1>10, <1>11, <1>12, <1>13, TypeParts DEF Dequeue, p, i

LEMMA ReturnType ==
  ASSUME TypeOK, Awake, Return
  PROVE  /\ TypeOK' /\ Awake' /\ Main.at = "return" /\ Irq.at = "none" /\ Irq' = Irq
         /\ Main'.at = IF tasks = <<>> THEN "asleep" ELSE "taskloop"
<1>1. Running = "main" /\ Main.at = "return" /\ Irq.at = "none"
  BY WhoRuns DEF Return, At
<1> DEFINE p == IF tasks = <<>> THEN "asleep" ELSE "taskloop"
<1>2. p \in Places /\ p \in MainPlaces /\ 0 \in Infos
  BY MoteAssumption DEF Places, MainPlaces, Stages, After
<1>3. Enter(p, 0)
  BY DEF Return
<1>4. p = IF tasks = <<>> THEN "asleep" ELSE "taskloop"
  OBVIOUS
<1> HIDE DEF p
<1>5. Moved(p, 0)
  BY <1>2, <1>3, EnterMoves
<1>6. ThreadsOK'
  BY <1>1, <1>2, <1>5, MovedType
<1>7. Main'.at = p /\ Irq' = Irq
  BY <1>1, <1>5 DEF Moved
<1>8. Awake'
  BY <1>1, <1>4, <1>7 DEF Awake, Return, queues
<1>9. MediumOK' /\ PacketsOK' /\ RadioOK' /\ RequestOK' /\ InfosOK' /\ TasksOK' /\ QueuesOK' /\ StateOK'
  BY TypeParts DEF Return, medium, pkts, queues, MediumOK, PacketsOK, RadioOK, RequestOK, InfosOK, TasksOK,
       QueuesOK, StateOK
<1> QED
  BY <1>1, <1>4, <1>6, <1>7, <1>8, <1>9, TypeParts

LEMMA ReadDonePayloadType ==
  ASSUME TypeOK, Awake, ReadDonePayload
  PROVE  TypeOK' /\ Awake' /\ Moved("check", here)
<1>1. "check" \in Places /\ "check" \in MainPlaces /\ "check" \in IrqPlaces /\ here \in Infos
  BY WhoRuns DEF Places, MainPlaces, IrqPlaces
<1>2. Moved("check", here)
  BY <1>1, GotoMoves DEF ReadDonePayload
<1>3. ThreadsOK'
  BY <1>1, <1>2, MovedType
<1>4. Awake'
  BY <1>1, <1>2, MovedAwake DEF ReadDonePayload, queues
<1>5. MediumOK' /\ PacketsOK' /\ RequestOK' /\ TasksOK' /\ QueuesOK'
  BY TypeParts DEF ReadDonePayload, medium, pkts, queues, MediumOK, PacketsOK, RequestOK, TasksOK, QueuesOK
<1> DEFINE p == Target("readdonepayload")
<1>6. "readdonepayload" \in Triggers /\ "receivedone" \in Triggers
  BY DEF Triggers
<1>7. p \in Packets \cup {None}
  BY <1>6, TargetType
<1>8. /\ radio \in RadioType /\ transmit \in Seq(Transmission) /\ state \in StateType /\ base \in Infos
      /\ infos \in [Infos -> Info] /\ receiving \in BOOLEAN
  BY TypeParts DEF RadioOK, StateOK, InfosOK
<1>9. transmit' = transmit /\ base' = base
  BY DEF ReadDonePayload
<1>10. radio' \in RadioType /\ receiving' \in BOOLEAN /\ infos' \in [Infos -> Info] /\ state' \in StateType
  <2>1. CASE p = None
    BY <2>1, <1>8 DEF ReadDonePayload
  <2>2. CASE p # None /\ collided[p]
    <3>1. Rest(ReadOut(p)) /\ infos' = Invoked("readdonepayload") /\ state' = [state EXCEPT !.collided = TRUE]
      BY <2>2 DEF ReadDonePayload
    <3>2. ReadOut(p) \in RadioType
      BY <2>2, <1>7, ReadOutType
    <3> HIDE DEF p
    <3>3. radio' \in RadioType /\ receiving' \in BOOLEAN
      BY <3>1, <3>2, RestType
    <3>4. infos' \in [Infos -> Info]
      BY <3>1, <1>6, InvokedInfos
    <3>5. state' \in StateType
      BY <3>1, <1>8 DEF StateType
    <3> QED
      BY <3>3, <3>4, <3>5
  <2>3. CASE p # None /\ ~collided[p]
    <3>1. radio' = ReadOut(p) /\ infos' = Chained("readdonepayload", "receivedone", p)
          /\ state' = [state EXCEPT !.collided = FALSE] /\ receiving' = receiving
      BY <2>3 DEF ReadDonePayload
    <3>2. ReadOut(p) \in RadioType
      BY <2>3, <1>7, ReadOutType
    <3> HIDE DEF p
    <3>4. infos' \in [Infos -> Info]
      BY <3>1, <1>6, <1>7, ChainedInfos
    <3>5. state' \in StateType
      BY <3>1, <1>8 DEF StateType
    <3> QED
      BY <3>1, <3>2, <3>4, <3>5, <1>8
  <2> QED
    BY <2>1, <2>2, <2>3
<1>11. RadioOK' /\ InfosOK' /\ StateOK'
  BY <1>8, <1>9, <1>10 DEF RadioOK, InfosOK, StateOK
<1> QED
  BY <1>2, <1>3, <1>4, <1>5, <1>11, TypeParts

LEMMA CheckIfPacketCollidedType ==
  ASSUME TypeOK, Awake, CheckIfPacketCollided
  PROVE  /\ TypeOK' /\ Awake'
         /\ state.collided => Moved("readNext", here) /\ tasks' = tasks
         /\ ~state.collided =>
              /\ tasks' = Append(tasks, [service |-> "receive", info |-> here])
              /\ Running = "main" => Main' = [at |-> "return", info |-> here] /\ Irq' = Irq
              /\ Running = "irq" => Main' = Thread(Main) /\ Irq' = [at |-> "return", info |-> here]
<1>1. here \in Infos /\ "readNext" \in Places \cap MainPlaces \cap IrqPlaces
      /\ "return" \in Places \cap MainPlaces \cap IrqPlaces
  BY WhoRuns DEF Places, MainPlaces, IrqPlaces
<1>2. MediumOK' /\ PacketsOK' /\ RadioOK' /\ RequestOK' /\ InfosOK' /\ QueuesOK' /\ StateOK'
  BY TypeParts DEF CheckIfPacketCollided, medium, pkts, MediumOK, PacketsOK, RadioOK, RequestOK, InfosOK,
       QueuesOK, StateOK
<1>3. tasks \in Seq(Task) /\ pending' = pending
  BY TypeParts DEF TasksOK, CheckIfPacketCollided
<1>4. CASE state.collided
  <2>1. Goto("readNext") /\ tasks' = tasks
    BY <1>4 DEF CheckIfPacketCollided, Goto
  <2>2. Moved("readNext", here)
    BY <2>1, <1>1, GotoMoves
  <2>3. ThreadsOK' /\ Awake'
    BY <2>1, <2>2, <1>1, <1>3, MovedType, MovedAwake
  <2>4. TasksOK'
    BY <2>1, <1>3 DEF TasksOK
  <2> QED
    BY <2>1, <2>2, <2>3, <2>4, <1>2, <1>4, TypeParts
<1>5. CASE ~state.collided
  <2>1. /\ tasks' = Append(tasks, [service |-> "receive", info |-> here])
        /\ th' = [Both(Thread(th["main"]), th["irq"]) EXCEPT ![Running].at = "return"]
        /\ cur' = here
    BY <1>5 DEF CheckIfPacketCollided
  <2>2. [service |-> "receive", info |-> here] \in Task
    BY <1>1 DEF Task
  <2>3. tasks' \in Seq(Task) /\ tasks' # <<>>
    BY <2>1, <2>2, <1>3, Appending
  <2> DEFINE b == Both(Thread(Main), Irq)
  <2>4. Main \in ThreadType /\ Irq \in ThreadType /\ Thread(Main) \in ThreadType /\ Main.at \in MainPlaces
        /\ Irq.at \in IrqPlaces
    BY WhoRuns, Woken, TypeParts DEF ThreadsOK
  <2>5. b \in [Threads -> ThreadType] /\ b["main"] = Thread(Main) /\ b["irq"] = Irq
    BY <2>4, BothThreads
  <2>6. th' = [b EXCEPT ![Running].at = "return"]
    BY <2>1 DEF Main, Irq
  <2> HIDE DEF b
  <2>7. CASE Running = "main"
    <3>1. Main.at \in MainPlaces /\ Irq.at = "none" /\ Main.at = "check" /\ here = Main.info
      BY <2>7, <2>4, WhoRuns DEF CheckIfPacketCollided, At, here
    <3>2. b["main"] = Main
      BY <3>1, <2>4, <2>5, Woken
    <3>3. th' = [b EXCEPT !["main"] = [b["main"] EXCEPT !.at = "return"]]
      BY <2>5, <2>6, <2>7 DEF Threads
    <3>4. [b["main"] EXCEPT !.at = "return"] = [at |-> "return", info |-> here]
      BY <3>1, <3>2, <2>4 DEF ThreadType
    <3>5. [at |-> "return", info |-> here] \in ThreadType
      BY <1>1 DEF ThreadType
    <3>6. th' \in [Threads -> ThreadType] /\ Main' = [at |-> "return", info |-> here] /\ Irq' = Irq
      BY <3>3, <3>4, <3>5, <2>5 DEF Main, Irq, Threads
    <3>7. ThreadsOK'
      BY <3>6, <2>1, <2>4, <1>1 DEF ThreadsOK
    <3>8. Awake'
      BY <3>1, <3>6, <2>3, <1>3 DEF Awake
    <3>9. TasksOK'
      BY <2>3 DEF TasksOK
    <3> QED
      BY <2>1, <2>7, <3>6, <3>7, <3>8, <3>9, <1>2, <1>5, TypeParts
  <2>8. CASE Running = "irq"
    <3>1. Irq.at # "none" /\ here = Irq.info
      BY <2>8, WhoRuns DEF here
    <3>3. th' = [b EXCEPT !["irq"] = [b["irq"] EXCEPT !.at = "return"]]
      BY <2>5, <2>6, <2>8 DEF Threads
    <3>4. [b["irq"] EXCEPT !.at = "return"] = [at |-> "return", info |-> here]
      BY <3>1, <2>4, <2>5 DEF ThreadType
    <3>5. [at |-> "return", info |-> here] \in ThreadType
      BY <1>1 DEF ThreadType
    <3>6. th' \in [Threads -> ThreadType] /\ th'["irq"] = [at |-> "return", info |-> here] /\ th'["main"] = Thread(Main)
      BY <3>3, <3>4, <3>5, <2>4, <2>5 DEF Threads
    <3>7. Main' = Thread(Main) /\ Irq' = [at |-> "return", info |-> here]
      BY <3>6, Zenon DEF Main, Irq
    <3>8. Main'.at \in {Main.at, "awake"} /\ Main'.at # "asleep" /\ Main'.at \in MainPlaces
          /\ Main'.at \in Stages \cup {"asleep", "awake"}
      <4>1. Main.at \in Stages \cup {"asleep", "awake"} /\ "awake" \in MainPlaces
        BY <3>1 DEF Awake, MainPlaces
      <4> QED
        BY <4>1, <3>7, <2>4, Woken
    <3>9. ThreadsOK'
      BY <3>6, <3>7, <3>8, <2>1, <1>1 DEF ThreadsOK
    <3>10. Awake'
      BY <3>7, <3>8, <2>3 DEF Awake
    <3>11. TasksOK'
      BY <2>3 DEF TasksOK
    <3> QED
      BY <2>1, <2>8, <3>7, <3>9, <3>10, <3>11, <1>2, <1>5, TypeParts
  <2> QED
    BY <2>7, <2>8, WhoRuns
<1> QED
  BY <1>4, <1>5

LEMMA ReadNextPacketInRxfifoType ==
  ASSUME ~IsFiniteSet(Infos), TypeOK, Awake, ReadNextPacketInRxfifo
  PROVE  /\ TypeOK' /\ Awake'
         /\ rxfifo = <<>> => Moved("return", here) /\ rxfifo' = rxfifo /\ infos' = infos
         /\ rxfifo # <<>> => Moved("writing", Fresh) /\ rxfifo' = Tail(rxfifo) /\ Copy(Head(rxfifo)) /\ Head(rxfifo) \in Info
<1>1. here \in Infos /\ "writing" \in Places \cap MainPlaces \cap IrqPlaces
      /\ "return" \in Places \cap MainPlaces \cap IrqPlaces
  BY WhoRuns DEF Places, MainPlaces, IrqPlaces, Stages, After
<1>2. MediumOK' /\ PacketsOK' /\ RadioOK' /\ RequestOK' /\ TasksOK' /\ StateOK'
  BY TypeParts DEF ReadNextPacketInRxfifo, medium, pkts, MediumOK, PacketsOK, RadioOK, RequestOK, TasksOK, StateOK
<1>3. /\ rxfifo \in Seq(Info) /\ infos \in [Infos -> Info] /\ base \in Infos
      /\ pending' = pending /\ tasks' = tasks /\ base' = base /\ ipaq' = ipaq /\ postponed' = postponed
      /\ ipaq \in Seq(Holder) /\ postponed \in Seq(Holder)
  BY TypeParts DEF ReadNextPacketInRxfifo, QueuesOK, InfosOK
<1>4. CASE rxfifo = <<>>
  <2>1. Goto("return") /\ rxfifo' = rxfifo /\ infos' = infos
    BY <1>4 DEF ReadNextPacketInRxfifo
  <2>2. Moved("return", here)
    BY <2>1, <1>1, GotoMoves
  <2>3. ThreadsOK' /\ Awake'
    BY <2>2, <1>1, <1>3, MovedType, MovedAwake
  <2>4. QueuesOK' /\ InfosOK'
    BY <2>1, <1>3 DEF QueuesOK, InfosOK
  <2> QED
    BY <2>1, <2>2, <2>3, <2>4, <1>2, <1>4, TypeParts
<1>5. CASE rxfifo # <<>>
  <2>1. Copy(Head(rxfifo)) /\ Enter("writing", Fresh) /\ rxfifo' = Tail(rxfifo)
    BY <1>5 DEF ReadNextPacketInRxfifo
  <2>2. Head(rxfifo) \in Info /\ Tail(rxfifo) \in Seq(Info)
    BY <1>3, <1>5, TailRemoves
  <2>3. Fresh \in Infos
    BY FreshInfo
  <2>4. Moved("writing", Fresh)
    BY <2>1, <2>3, <1>1, EnterMoves
  <2>5. ThreadsOK' /\ Awake'
    BY <2>3, <2>4, <1>1, <1>3, MovedType, MovedAwake
  <2>6. infos' \in [Infos -> Info]
    BY <2>1, <2>2, CopiedInfos
  <2>7. QueuesOK' /\ InfosOK'
    BY <2>1, <2>2, <2>6, <1>3 DEF QueuesOK, InfosOK
  <2> QED
    BY <2>1, <2>2, <2>4, <2>5, <2>7, <1>2, <1>5, TypeParts
<1> QED
  BY <1>4, <1>5

LEMMA ReceiveDoneTaskType ==
  ASSUME TypeOK, Awake, ReceiveDoneTask
  PROVE  TypeOK' /\ Awake' /\ Moved("receiveDone", here)
<1>1. "receiveDone" \in Places /\ "receiveDone" \in MainPlaces /\ here \in Infos
  BY WhoRuns DEF Places, MainPlaces, Stages, After
<1>2. Running = "main"
  <2>1. "receive" \in Places \ IrqPlaces
    BY DEF Places, MainPlaces, IrqPlaces, Stages, After
  <2> QED
    BY <2>1, MainOnly DEF ReceiveDoneTask
<1>3. Moved("receiveDone", here)
  BY <1>1, GotoMoves DEF ReceiveDoneTask
<1>4. ThreadsOK'
  BY <1>1, <1>2, <1>3, MovedType
<1>5. Awake'
  BY <1>1, <1>3, MovedAwake DEF ReceiveDoneTask, queues
<1>6. MediumOK' /\ PacketsOK' /\ RequestOK' /\ TasksOK' /\ QueuesOK'
  BY TypeParts DEF ReceiveDoneTask, medium, pkts, queues, MediumOK, PacketsOK, RequestOK, TasksOK, QueuesOK
<1> DEFINE p == Target("receivedone")
<1>7. "receivedone" \in Triggers /\ "sendtask" \in Triggers
  BY DEF Triggers
<1>8. p \in Packets \cup {None}
  BY <1>7, TargetType
<1>9. /\ radio \in RadioType /\ transmit \in Seq(Transmission) /\ state \in StateType /\ base \in Infos
      /\ infos \in [Infos -> Info] /\ receiving \in BOOLEAN
  BY TypeParts DEF RadioOK, StateOK, InfosOK
<1>10. transmit' = transmit /\ base' = base
  BY DEF ReceiveDoneTask
<1>11. radio' \in RadioType /\ receiving' \in BOOLEAN /\ infos' \in [Infos -> Info] /\ state' \in StateType
  <2>1. CASE p = None
    BY <2>1, <1>9 DEF ReceiveDoneTask
  <2>2. CASE p # None
    <3>1. /\ state' = [state EXCEPT !.full = Full] /\ Rest(radio)
          /\ infos' = IF Full THEN Invoked("receivedone") ELSE Chained("receivedone", "sendtask", p)
      BY <2>2 DEF ReceiveDoneTask
    <3> HIDE DEF p
    <3>2. radio' \in RadioType /\ receiving' \in BOOLEAN
      BY <3>1, <1>9, RestType
    <3>3. infos' \in [Infos -> Info]
      <4>1. Invoked("receivedone") \in [Infos -> Info]
        BY <1>7, InvokedInfos
      <4>2. Chained("receivedone", "sendtask", p) \in [Infos -> Info]
        BY <1>7, <1>8, ChainedInfos
      <4> QED
        BY <3>1, <4>1, <4>2
    <3>4. state' \in StateType
      <4>1. \A b \in BOOLEAN : [state EXCEPT !.full = b] \in StateType
        BY <1>9 DEF StateType
      <4>2. Full \in BOOLEAN
        BY DEF Full
      <4> QED
        BY <3>1, <4>1, <4>2, Zenon
    <3> QED
      BY <3>2, <3>3, <3>4
  <2> QED
    BY <2>1, <2>2
<1>12. RadioOK' /\ InfosOK' /\ StateOK'
  BY <1>9, <1>10, <1>11 DEF RadioOK, InfosOK, StateOK
<1> QED
  BY <1>3, <1>4, <1>5, <1>6, <1>12, TypeParts

LEMMA IpaqFullType ==
  ASSUME TypeOK, Awake, IpaqFull
  PROVE  /\ TypeOK' /\ Awake' /\ Moved(IF state.full THEN "dropping" ELSE "queueing", here)
         /\ ipaq' = ipaq \/ ipaq' = Append(ipaq, [info |-> here])
         /\ ipaq # <<>> => ipaq' # <<>>
<1> DEFINE p == IF state.full THEN "dropping" ELSE "queueing"
<1>1. p \in Places /\ p \in MainPlaces /\ here \in Infos /\ p \notin {"none", "asleep", "awake", "taskloop", "dequeue"}
  BY WhoRuns DEF Places, MainPlaces, Stages, After
<1>2. Running = "main"
  <2>1. "ipaqFull" \in Places \ IrqPlaces
    BY DEF Places, MainPlaces, IrqPlaces, Stages, After
  <2> QED
    BY <2>1, MainOnly DEF IpaqFull
<1>3. Goto(p) /\ pending' = pending /\ tasks' = tasks
  BY DEF IpaqFull
<1> HIDE DEF p
<1>4. Moved(p, here)
  BY <1>1, <1>3, GotoMoves
<1>5. ThreadsOK' /\ Awake'
  BY <1>1, <1>2, <1>3, <1>4, MovedType, MovedAwake
<1>6. MediumOK' /\ PacketsOK' /\ RadioOK' /\ RequestOK' /\ InfosOK' /\ TasksOK' /\ StateOK'
  BY TypeParts DEF IpaqFull, medium, pkts, MediumOK, PacketsOK, RadioOK, RequestOK, InfosOK, TasksOK, StateOK
<1>7. ipaq' = ipaq \/ ipaq' = Append(ipaq, [info |-> here])
  BY DEF IpaqFull
<1>8. [info |-> here] \in Holder /\ ipaq \in Seq(Holder)
  BY <1>1, TypeParts DEF Holder, QueuesOK
<1>9. ipaq' \in Seq(Holder) /\ (ipaq # <<>> => ipaq' # <<>>)
  BY <1>7, <1>8, Appending
<1>10. QueuesOK'
  BY <1>9, TypeParts DEF IpaqFull, QueuesOK
<1> QED
  BY <1>4, <1>5, <1>6, <1>7, <1>9, <1>10, TypeParts DEF p

LEMMA PostSendTaskType ==
  ASSUME TypeOK, Awake, PostSendTask
  PROVE  /\ TypeOK' /\ Awake' /\ Moved("readNext", here)
         /\ tasks' = Append(tasks, [service |-> "sendTask", info |-> here])
<1>1. "readNext" \in Places /\ "readNext" \in MainPlaces /\ here \in Infos
  BY WhoRuns DEF Places, MainPlaces
<1>2. Running = "main"
  <2>1. "post" \in Places \ IrqPlaces
    BY DEF Places, MainPlaces, IrqPlaces, Stages, After
  <2> QED
    BY <2>1, MainOnly DEF PostSendTask
<1>3. Goto("readNext") /\ pending' = pending /\ tasks' = Append(tasks, [service |-> "sendTask", info |-> here])
  BY DEF PostSendTask
<1>4. Moved("readNext", here)
  BY <1>1, <1>3, GotoMoves
<1>5. ThreadsOK' /\ Awake'
  BY <1>1, <1>2, <1>3, <1>4, MovedType, MovedAwake
<1>6. MediumOK' /\ PacketsOK' /\ RadioOK' /\ RequestOK' /\ InfosOK' /\ QueuesOK' /\ StateOK'
  BY TypeParts DEF PostSendTask, medium, pkts, MediumOK, PacketsOK, RadioOK, RequestOK, InfosOK, QueuesOK, StateOK
<1>7. [service |-> "sendTask", info |-> here] \in Task /\ tasks \in Seq(Task)
  BY <1>1, TypeParts DEF Task, TasksOK
<1>8. TasksOK'
  BY <1>3, <1>7, Appending DEF TasksOK
<1> QED
  BY <1>3, <1>4, <1>5, <1>6, <1>8, TypeParts

LEMMA SendTaskType ==
  ASSUME TypeOK, Awake, SendTask
  PROVE  /\ TypeOK' /\ Awake' /\ Running = "main" /\ Main.at = "sendTask" /\ Irq.at = "none" /\ here = Main.info
         /\ state.busy => Moved("return", here) /\ infos' = infos /\ state' = state
         /\ ~state.busy /\ ipaq = <<>> => Moved("return", here) /\ infos' = infos /\ state' = state
         /\ ~state.busy /\ ipaq # <<>> =>
              /\ Moved("loading", here)
              /\ infos' = IF Target("sendtask") = None THEN infos
                          ELSE Chained("sendtask", "writtentotxfifo", Target("sendtask"))
              /\ state' = [state EXCEPT !.busy = Takes(Target("sendtask"))]
              /\ state'.busy = (Target("sendtask") # None)
<1>1. /\ {"return", "loading"} \subseteq Places /\ {"return", "loading"} \subseteq MainPlaces /\ here \in Infos
      /\ "sendTask" \in Places \ IrqPlaces
  BY WhoRuns DEF Places, MainPlaces, IrqPlaces, Stages, After
<1>2. Running = "main" /\ Main.at = "sendTask" /\ Irq.at = "none" /\ here = Main.info
  BY <1>1, MainOnly DEF SendTask
<1>3. MediumOK' /\ PacketsOK' /\ RadioOK' /\ RequestOK' /\ TasksOK'
  BY TypeParts DEF SendTask, medium, pkts, MediumOK, PacketsOK, RadioOK, RequestOK, TasksOK
<1>4. pending' = pending /\ tasks' = tasks /\ base' = base /\ ipaq' = ipaq /\ rxfifo' = rxfifo
  BY DEF SendTask
<1>5. /\ state \in StateType /\ base \in Infos /\ infos \in [Infos -> Info] /\ ipaq \in Seq(Holder)
      /\ postponed \in Seq(Holder) /\ rxfifo \in Seq(Info)
  BY TypeParts DEF StateOK, InfosOK, QueuesOK
<1>6. ASSUME NEW p \in {"return", "loading"}, Goto(p)
      PROVE  Moved(p, here) /\ ThreadsOK' /\ Awake'
  <2>1. Moved(p, here)
    BY <1>1, <1>6, GotoMoves
  <2> QED
    BY <2>1, <1>1, <1>2, <1>4, MovedType, MovedAwake
<1>7. CASE state.busy
  <2>1. postponed' = Append(postponed, [info |-> here]) /\ Goto("return") /\ infos' = infos /\ state' = state
    BY <1>7 DEF SendTask
  <2>2. [info |-> here] \in Holder
    BY <1>1 DEF Holder
  <2>3. QueuesOK' /\ InfosOK' /\ StateOK'
    BY <2>1, <2>2, <1>4, <1>5, Appending DEF QueuesOK, InfosOK, StateOK
  <2> QED
    BY <2>1, <2>3, <1>2, <1>3, <1>6, <1>7, TypeParts
<1>8. CASE ~state.busy /\ ipaq = <<>>
  <2>1. Goto("return") /\ infos' = infos /\ state' = state /\ postponed' = postponed
    BY <1>8 DEF SendTask
  <2>3. QueuesOK' /\ InfosOK' /\ StateOK'
    BY <2>1, <1>4, <1>5 DEF QueuesOK, InfosOK, StateOK
  <2> QED
    BY <2>1, <2>3, <1>2, <1>3, <1>6, <1>8, TypeParts
<1>9. CASE ~state.busy /\ ipaq # <<>>
  <2> DEFINE p == Target("sendtask")
  <2>1. /\ Goto("loading") /\ postponed' = postponed
        /\ infos' = IF p = None THEN infos ELSE Chained("sendtask", "writtentotxfifo", p)
        /\ state' = [state EXCEPT !.busy = Takes(p)]
    BY <1>9 DEF SendTask
  <2>2. p \in Packets \cup {None} /\ "sendtask" \in Triggers /\ "writtentotxfifo" \in Triggers
    BY TargetType DEF Triggers
  <2> HIDE DEF p
  <2>3. Chained("sendtask", "writtentotxfifo", p) \in [Infos -> Info]
    BY <2>2, ChainedInfos
  <2>4. infos' \in [Infos -> Info]
    BY <2>1, <2>3, <1>5
  <2>5. state' \in StateType /\ state'.busy = (p # None)
    <3>1. Takes(p) \in BOOLEAN /\ Takes(p) = (p # None)
      BY DEF Takes
    <3>2. \A b \in BOOLEAN : [state EXCEPT !.busy = b] \in StateType /\ [state EXCEPT !.busy = b].busy = b
      BY <1>5 DEF StateType
    <3> QED
      BY <2>1, <3>1, <3>2, Zenon
  <2>6. QueuesOK' /\ InfosOK' /\ StateOK'
    BY <2>1, <2>4, <2>5, <1>4, <1>5 DEF QueuesOK, InfosOK, StateOK
  <2> QED
    BY <2>1, <2>5, <2>6, <1>2, <1>3, <1>6, <1>9, TypeParts DEF p
<1> QED
  BY <1>7, <1>8, <1>9

LEMMA WrittenToTxFifoType ==
  ASSUME TypeOK, Awake, WrittenToTxFifo
  PROVE  /\ TypeOK' /\ Awake' /\ Running = "main" /\ Main.at = "written" /\ Irq.at = "none" /\ here = Main.info
         /\ Moved("transmitting", here)
         /\ Target("writtentotxfifo") = None => UNCHANGED <<radio, transmit, infos>>
         /\ Target("writtentotxfifo") # None =>
              Len(transmit') = Len(transmit) + 1 /\ infos' = Invoked("writtentotxfifo")
              /\ Written(Target("writtentotxfifo"), transmit)
<1>1. /\ "transmitting" \in Places /\ "transmitting" \in MainPlaces /\ here \in Infos
      /\ "written" \in Places \ IrqPlaces
  BY WhoRuns DEF Places, MainPlaces, IrqPlaces, Stages, After
<1>2. Running = "main" /\ Main.at = "written" /\ Irq.at = "none" /\ here = Main.info
  BY <1>1, MainOnly DEF WrittenToTxFifo
<1>3. MediumOK' /\ PacketsOK' /\ RequestOK' /\ TasksOK' /\ QueuesOK' /\ StateOK'
  BY TypeParts DEF WrittenToTxFifo, medium, pkts, queues, MediumOK, PacketsOK, RequestOK, TasksOK, QueuesOK, StateOK
<1>4. Moved("transmitting", here)
  BY <1>1, GotoMoves DEF WrittenToTxFifo
<1>5. ThreadsOK' /\ Awake'
  BY <1>1, <1>2, <1>4, MovedType, MovedAwake DEF WrittenToTxFifo, queues
<1>6. /\ radio \in RadioType /\ transmit \in Seq(Transmission) /\ receiving \in BOOLEAN /\ base \in Infos
      /\ infos \in [Infos -> Info] /\ receiving' = receiving /\ base' = base
  BY TypeParts DEF RadioOK, InfosOK, WrittenToTxFifo
<1> DEFINE p == Target("writtentotxfifo")
<1>7. p \in Packets \cup {None} /\ "writtentotxfifo" \in Triggers
  BY TargetType DEF Triggers
<1>8. CASE p = None
  <2>1. UNCHANGED <<radio, transmit, infos>>
    BY <1>8 DEF WrittenToTxFifo
  <2>2. RadioOK' /\ InfosOK'
    BY <2>1, <1>6 DEF RadioOK, InfosOK
  <2> QED
    BY <2>1, <2>2, <1>2, <1>3, <1>4, <1>5, <1>8, TypeParts
<1>9. CASE p # None
  <2>1. Written(p, transmit) /\ infos' = Invoked("writtentotxfifo")
    BY <1>9 DEF WrittenToTxFifo
  <2>2. p \in Packets
    BY <1>7, <1>9
  <2> HIDE DEF p
  <2>3. radio' \in RadioType /\ transmit' \in Seq(Transmission) /\ Len(transmit') = Len(transmit) + 1
    BY <2>1, <2>2, <1>6, WrittenType
  <2>4. infos' \in [Infos -> Info]
    BY <2>1, <1>7, InvokedInfos
  <2>5. RadioOK' /\ InfosOK'
    BY <2>3, <2>4, <1>6 DEF RadioOK, InfosOK
  <2> QED
    BY <2>1, <2>3, <2>5, <1>2, <1>3, <1>4, <1>5, <1>9, TypeParts DEF p
<1> QED
  BY <1>8, <1>9

LEMMA InitType == Init => TypeOK /\ Awake
<1> SUFFICES ASSUME Init PROVE TypeOK /\ Awake
  OBVIOUS
<1>1. /\ 0 \in Infos /\ Sizes \subseteq 0..FifoSize /\ CcaModes \subseteq BOOLEAN /\ 0 \in 0..(Modulus - 1)
  BY MoteAssumption
<1> DEFINE m == [at |-> "asleep", info |-> 0]
           q == [at |-> "none", info |-> 0]
<1>2. m \in ThreadType /\ q \in ThreadType /\ m.at = "asleep" /\ q.at = "none"
      /\ "asleep" \in MainPlaces /\ "none" \in IrqPlaces
  BY <1>1 DEF ThreadType, Places, MainPlaces, IrqPlaces
<1>3. th = Both(m, q)
  BY Zenon DEF Init
<1> HIDE DEF m, q
<1>4. th \in [Threads -> ThreadType] /\ Main = m /\ Irq = q
  BY <1>2, <1>3, BothThreads DEF Main, Irq
<1>5. Awake
  BY <1>2, <1>4 DEF Awake, Init
<1>6. ThreadsOK
  BY <1>1, <1>2, <1>4 DEF ThreadsOK, Init
<1>7. MediumOK /\ PacketsOK
  <2>1. size \in [Packets -> 0..FifoSize]
    BY <1>1 DEF Init
  <2>2. collided \in [Packets -> BOOLEAN]
    BY DEF Init
  <2> QED
    BY <2>1, <2>2, <1>1 DEF Init, MediumOK, PacketsOK
<1>8. RadioOK /\ RequestOK /\ TasksOK /\ QueuesOK
  <2>1. \A S : <<>> \in Seq(S)
    OBVIOUS
  <2>2. radio \in RadioType
    BY <1>1 DEF Init, RadioType
  <2> QED
    BY <2>1, <2>2 DEF Init, RadioOK, RequestOK, TasksOK, QueuesOK
<1>9. InfosOK /\ StateOK
  <2>1. Blank \in Info
    BY DEF Blank, Info
  <2> QED
    BY <2>1, <1>1 DEF Init, InfosOK, StateOK, StateType
<1> QED
  BY <1>5, <1>6, <1>7, <1>8, <1>9, TypeParts

LEMMA NextType ==
  ASSUME ~IsFiniteSet(Infos), TypeOK, Awake, [Next]_vars
  PROVE  TypeOK' /\ Awake'
<1>1. ASSUME NEW p \in Packets, SendPacket(p) PROVE TypeOK' /\ Awake'
  BY <1>1, SendPacketType
<1>2. CASE ReceivePacket
  BY <1>2, ReceivePacketType
<1>3. ASSUME NEW k \in DOMAIN transmit, Retry(k) PROVE TypeOK' /\ Awake'
  BY <1>3, RetryType
<1>4. ASSUME NEW k \in DOMAIN transmit, FinishedTransmitting(k) PROVE TypeOK' /\ Awake'
  BY <1>4, FinishedTransmittingType
<1>5. ASSUME NEW k \in DOMAIN issued, IssueInterrupt(k) PROVE TypeOK' /\ Awake'
  BY <1>5, IssueInterruptType
<1>6. CASE StageDone
  BY <1>6, StageDoneType
<1>7. CASE Statement
  <2>1. CASE Dequeue
    BY <2>1, DequeueType
  <2>2. CASE Return
    BY <2>2, ReturnType
  <2>3. CASE ReadDonePayload
    BY <2>3, ReadDonePayloadType
  <2>4. CASE CheckIfPacketCollided
    BY <2>4, CheckIfPacketCollidedType
  <2>5. CASE ReadNextPacketInRxfifo
    BY <2>5, ReadNextPacketInRxfifoType
  <2>6. CASE ReceiveDoneTask
    BY <2>6, ReceiveDoneTaskType
  <2>7. CASE IpaqFull
    BY <2>7, IpaqFullType
  <2>8. CASE PostSendTask
    BY <2>8, PostSendTaskType
  <2>9. CASE SendTask
    BY <2>9, SendTaskType
  <2>10. CASE WrittenToTxFifo
    BY <2>10, WrittenToTxFifoType
  <2>11. CASE SendDone
    BY <2>11, SendDoneType
  <2>12. CASE EndOfInterrupt
    BY <2>12, EndOfInterruptType
  <2> QED
    BY <1>7, <2>1, <2>2, <2>3, <2>4, <2>5, <2>6, <2>7, <2>8, <2>9, <2>10, <2>11, <2>12 DEF Statement
<1>8. CASE UNCHANGED vars
  <2>1. Awake'
    BY <1>8 DEF vars, medium, pkts, cpu, queues, Awake, Main, Irq
  <2> QED
    BY <2>1, <1>8, TypeParts DEF vars, medium, pkts, cpu, queues, MediumOK, PacketsOK, RadioOK, RequestOK, InfosOK,
       ThreadsOK, TasksOK, QueuesOK, StateOK, Main, Irq
<1> QED
  BY <1>1, <1>2, <1>3, <1>4, <1>5, <1>6, <1>7, <1>8 DEF Next

(* Every variable keeps its type: the place of each thread is one its code has, a    *)
(* task is taken from the queue only when there is one, and a copy of an execution   *)
(* info never reuses one that something still points to.                             *)
THEOREM TypesHold ==
  ASSUME ~IsFiniteSet(Infos)
  PROVE  Spec => []TypeOK
<1>1. TypeOK /\ Awake /\ [Next]_vars => TypeOK' /\ Awake'
  BY NextType
<1> QED
  BY <1>1, InitType, PTL DEF Spec

-----------------------------------------------------------------------------
(* One packet at a time has the radio. Every packet that does is at one place: it *)
(* is loaded, transmitted, or its SendDone interrupt is on the way.               *)

Loading == Main.at \in {"loading", "written"} /\ Callback(Main.info, "writtentotxfifo") # None

Tokens == One(Loading) + Len(transmit) + Requests("HIRQ-6", issued) + Requests("HIRQ-6", pending)
            + One(Irq.at = "sendDone")

Owned == Tokens <= One(state.busy) /\ (state.busy => ipaq # <<>>)

LEMMA OneType == \A b : One(b) \in {0, 1} /\ (One(b) = 1 <=> b) /\ (One(b) = 0 <=> ~b)
BY DEF One

(* What a queue of requests holds, now and after a step. *)
LEMMA TokenTypes ==
  ASSUME TypeOK
  PROVE  /\ One(Loading) \in {0, 1} /\ Len(transmit) \in Nat /\ One(Irq.at = "sendDone") \in {0, 1}
         /\ Requests("HIRQ-6", issued) \in Nat /\ Requests("HIRQ-6", pending) \in Nat
         /\ Tokens \in Nat /\ One(state.busy) \in {0, 1}
<1>1. transmit \in Seq(Transmission) /\ issued \in Seq(Request) /\ pending \in Seq(Request)
  BY TypeParts DEF RadioOK, RequestOK
<1>2. Requests("HIRQ-6", issued) \in Nat /\ Requests("HIRQ-6", pending) \in Nat
  BY <1>1, RequestsType
<1>3. Len(transmit) \in Nat
  BY <1>1
<1>4. One(Loading) \in {0, 1} /\ One(Irq.at = "sendDone") \in {0, 1} /\ One(state.busy) \in {0, 1}
  BY OneType, Zenon
<1>5. Tokens \in Nat
  BY <1>2, <1>3, <1>4 DEF Tokens
<1> QED
  BY <1>2, <1>3, <1>4, <1>5

(* The main thread loads a packet if it did. *)
LEMMA SteadyLoading ==
  ASSUME TypeOK, Main' = Main \/ Main' = Thread(Main),
         infos'[Main.info].targets["writtentotxfifo"] = Callback(Main.info, "writtentotxfifo")
  PROVE  Loading' <=> Loading
<1>1. Main \in ThreadType
  BY WhoRuns
<1>2. Main'.info = Main.info /\ (Main'.at \in {"loading", "written"} <=> Main.at \in {"loading", "written"})
  BY <1>1, Woken
<1>3. Callback(Main.info, "writtentotxfifo")' = infos'[Main'.info].targets["writtentotxfifo"]
  BY DEF Callback
<1> QED
  BY <1>2, <1>3 DEF Loading

LEMMA MovedLoading ==
  ASSUME TypeOK, NEW p \in Places, NEW i \in Infos, Moved(p, i), p \notin {"loading", "written"},
         th[Running].at \notin {"loading", "written"},
         Running = "main" \/ infos'[Main.info].targets["writtentotxfifo"] = Callback(Main.info, "writtentotxfifo")
  PROVE  Loading' <=> Loading
<1>1. CASE Running = "main"
  <2>1. Main'.at = p /\ Main.at \notin {"loading", "written"}
    BY <1>1, WhoRuns DEF Moved
  <2> QED
    BY <2>1 DEF Loading
<1>2. CASE Running = "irq"
  BY <1>2, SteadyLoading DEF Moved
<1> QED
  BY <1>1, <1>2, WhoRuns

TokensKept == Tokens' = Tokens /\ state'.busy = state.busy /\ (ipaq # <<>> => ipaq' # <<>>)

(* The interrupt handled is a SendDone, before and after an action of a thread. *)
LEMMA MovedTokens ==
  ASSUME TypeOK, NEW p \in Places, NEW i \in Infos, Moved(p, i), p # "sendDone", th[Running].at # "sendDone",
         Loading' <=> Loading, transmit' = transmit, issued' = issued, pending' = pending,
         state'.busy = state.busy, ipaq # <<>> => ipaq' # <<>>
  PROVE  TokensKept
<1>1. Irq'.at = "sendDone" <=> Irq.at = "sendDone"
  BY WhoRuns DEF Moved
<1>2. One(Loading)' = One(Loading) /\ One(Irq.at = "sendDone")' = One(Irq.at = "sendDone")
  BY <1>1 DEF One
<1>3. Requests("HIRQ-6", issued)' = Requests("HIRQ-6", issued) /\ Requests("HIRQ-6", pending)' = Requests("HIRQ-6", pending)
  BY DEF Requests, Positions
<1> QED
  BY <1>2, <1>3 DEF Tokens, TokensKept

LEMMA SendPacketTokens ==
  ASSUME TypeOK, NEW p \in Packets, SendPacket(p)
  PROVE  TokensKept
BY DEF SendPacket, cpu, queues, TokensKept, Tokens, Loading, Callback, Requests, Positions, Main, Irq

LEMMA ReceivePacketTokens ==
  ASSUME TypeOK, ReceivePacket
  PROVE  TokensKept
<1>1. UNCHANGED <<transmit, pending, th, ipaq, state>>
  BY DEF ReceivePacket
<1>2. infos \in [Infos -> Info] /\ issued \in Seq(Request) /\ cur \in Infos /\ Main.info \in Infos /\ air \in Packets
  BY TypeParts, WhoRuns DEF InfosOK, RequestOK, ThreadsOK, MediumOK, ReceivePacket
<1>3. \/ infos' = infos /\ issued' = issued
      \/ /\ \/ infos' = [infos EXCEPT ![cur] = Registered(cur, "readdonepayload", air)]
            \/ infos' = [infos EXCEPT ![cur] = [Registered(cur, "readdonepayload", air) EXCEPT !.packet = air]]
         /\ issued' = issued \/ issued' = Append(issued, [service |-> "HIRQ-1", info |-> cur])
  BY Zenon DEF ReceivePacket, Store
<1>4. infos'[Main.info].targets["writtentotxfifo"] = Callback(Main.info, "writtentotxfifo")
  <2>1. infos[cur] \in Info /\ infos[cur].targets \in [Triggers -> Packets \cup {None}]
    BY <1>2, InfoTypes
  <2>2. /\ Registered(cur, "readdonepayload", air).targets["writtentotxfifo"] = infos[cur].targets["writtentotxfifo"]
        /\ [Registered(cur, "readdonepayload", air) EXCEPT !.packet = air].targets["writtentotxfifo"]
              = infos[cur].targets["writtentotxfifo"]
    BY <2>1, TriggerNames DEF Registered, Info
  <2> QED
    BY <1>2, <1>3, <2>2 DEF Callback
<1>5. Loading' <=> Loading
  BY <1>1, <1>4, SteadyLoading DEF Main
<1>6. Requests("HIRQ-6", issued') = Requests("HIRQ-6", issued)
  <2>1. [service |-> "HIRQ-1", info |-> cur] \in Request
    BY <1>2 DEF Request
  <2>2. Requests("HIRQ-6", Append(issued, [service |-> "HIRQ-1", info |-> cur]))
          = Requests("HIRQ-6", issued) + One("HIRQ-1" = "HIRQ-6")
    BY <1>2, <2>1, RequestsAppend
  <2>3. Requests("HIRQ-6", issued) \in Nat /\ One("HIRQ-1" = "HIRQ-6") = 0
    BY TokenTypes DEF One
  <2>4. Requests("HIRQ-6", Append(issued, [service |-> "HIRQ-1", info |-> cur])) = Requests("HIRQ-6", issued)
    BY <2>2, <2>3
  <2>5. issued' = issued \/ issued' = Append(issued, [service |-> "HIRQ-1", info |-> cur])
    BY <1>3
  <2> QED
    BY <2>4, <2>5, Zenon
<1>7. One(Loading)' = One(Loading) /\ One(Irq.at = "sendDone")' = One(Irq.at = "sendDone")
  BY <1>1, <1>5 DEF One, Irq
<1>8. Requests("HIRQ-6", issued)' = Requests("HIRQ-6", issued) /\ Requests("HIRQ-6", pending)' = Requests("HIRQ-6", pending)
  BY <1>1, <1>6 DEF Requests, Positions
<1> QED
  BY <1>1, <1>7, <1>8 DEF Tokens, TokensKept

LEMMA RetryTokens ==
  ASSUME TypeOK, Awake, NEW k \in DOMAIN transmit, Retry(k)
  PROVE  TokensKept
<1>1. Len(transmit') = Len(transmit)
  BY RetryType
<1>2. UNCHANGED <<issued, pending, th, infos, ipaq, state>>
  BY DEF Retry, cpu, queues
<1> QED
  BY <1>1, <1>2 DEF TokensKept, Tokens, Loading, Callback, Requests, Positions, Main, Irq

LEMMA FinishedTransmittingTokens ==
  ASSUME TypeOK, NEW k \in DOMAIN transmit, FinishedTransmitting(k)
  PROVE  TokensKept
<1>1. /\ UNCHANGED <<pending, th, ipaq, state>>
      /\ transmit' = RemoveAt(transmit, k) /\ issued' = Append(issued, [service |-> "HIRQ-6", info |-> cur])
      /\ infos' = [infos EXCEPT ![cur].packet = transmit[k].packet]
  BY DEF FinishedTransmitting, queues
<1>2. infos \in [Infos -> Info] /\ issued \in Seq(Request) /\ cur \in Infos /\ Main.info \in Infos
      /\ transmit \in Seq(Transmission)
  BY TypeParts, WhoRuns DEF InfosOK, RequestOK, ThreadsOK, RadioOK
<1>3. infos'[Main.info].targets["writtentotxfifo"] = Callback(Main.info, "writtentotxfifo")
  <2>1. infos[cur] \in Info
    BY <1>2
  <2>2. infos' = [infos EXCEPT ![cur] = [infos[cur] EXCEPT !.packet = transmit[k].packet]]
    BY <1>1, <1>2
  <2>3. [infos[cur] EXCEPT !.packet = transmit[k].packet].targets = infos[cur].targets
    BY <2>1 DEF Info
  <2> QED
    BY <1>2, <2>2, <2>3 DEF Callback
<1>4. Loading' <=> Loading
  BY <1>1, <1>3, SteadyLoading DEF Main
<1>5. Requests("HIRQ-6", issued') = Requests("HIRQ-6", issued) + 1
  <2>1. [service |-> "HIRQ-6", info |-> cur] \in Request
    BY <1>2 DEF Request
  <2>2. Requests("HIRQ-6", issued') = Requests("HIRQ-6", issued) + One("HIRQ-6" = "HIRQ-6")
    BY <1>1, <1>2, <2>1, RequestsAppend
  <2> QED
    BY <2>2 DEF One
<1>6. Len(transmit') = Len(transmit) - 1
  BY <1>1, <1>2, Shortened
<1>7. One(Loading)' = One(Loading) /\ One(Irq.at = "sendDone")' = One(Irq.at = "sendDone")
  BY <1>1, <1>4 DEF One, Irq
<1>8. Requests("HIRQ-6", issued)' = Requests("HIRQ-6", issued) + 1
      /\ Requests("HIRQ-6", pending)' = Requests("HIRQ-6", pending)
  BY <1>1, <1>5 DEF Requests, Positions
<1>9. Tokens' = Tokens
  <2>1. /\ One(Loading) \in Int /\ Len(transmit) \in Int /\ One(Irq.at = "sendDone") \in Int
        /\ Requests("HIRQ-6", issued) \in Int /\ Requests("HIRQ-6", pending) \in Int
    BY TokenTypes
  <2>2. Tokens' = One(Loading) + (Len(transmit) - 1) + (Requests("HIRQ-6", issued) + 1) + Requests("HIRQ-6", pending)
                    + One(Irq.at = "sendDone")
    BY <1>6, <1>7, <1>8, Zenon DEF Tokens
  <2> QED
    BY <2>1, <2>2 DEF Tokens
<1> QED
  BY <1>1, <1>9 DEF TokensKept

(* A request is handled, waits, or is lost because too many wait. *)
LEMMA IssueInterruptTokens ==
  ASSUME TypeOK, Awake, NEW k \in DOMAIN issued, IssueInterrupt(k)
  PROVE  /\ Tokens' \in Nat /\ Tokens' <= Tokens /\ state'.busy = state.busy /\ ipaq' = ipaq
         /\ Len(pending) < QueueSize => TokensKept
<1>1. issued \in Seq(Request) /\ pending \in Seq(Request) /\ issued[k] \in Request
  BY TypeParts, Shortened DEF RequestOK
<1>2. UNCHANGED <<transmit, infos, ipaq, state>> /\ issued' = RemoveAt(issued, k)
  BY DEF IssueInterrupt, queues
<1> DEFINE o == One(issued[k].service = "HIRQ-6")
           a == Requests("HIRQ-6", issued)
           a1 == Requests("HIRQ-6", issued')
           b == Requests("HIRQ-6", pending)
           b1 == Requests("HIRQ-6", pending')
           d == One(Irq.at = "sendDone")
           d1 == One(Irq'.at = "sendDone")
           l == One(Loading)
           n == Len(transmit)
<1>3. /\ o \in {0, 1} /\ a \in Nat /\ b \in Nat /\ d \in {0, 1} /\ l \in {0, 1} /\ n \in Nat
  <2> HIDE DEF o, a, b, d, l, n
  <2>1. o \in {0, 1}
    BY OneType, Zenon DEF o
  <2> QED
    BY <2>1, TokenTypes DEF a, b, d, l, n
<1>4. a1 \in Nat /\ a = a1 + o
  BY <1>1, <1>2, RequestsRemove
<1>5. Loading' <=> Loading
  <2>1. Main' = Main
    <3>1. CASE th["irq"].at = "none"
      BY <3>1, <1>1, InterruptType DEF IssueInterrupt
    <3>2. CASE th["irq"].at # "none"
      BY <3>2 DEF IssueInterrupt, Main
    <3> QED
      BY <3>1, <3>2
  <2> QED
    BY <2>1, <1>2 DEF Loading, Callback
<1>6. Tokens = l + n + a + b + d
  BY DEF Tokens
<1>7. Tokens' = l + n + a1 + b1 + d1
  <2>1. One(Loading)' = l
    BY <1>5 DEF One
  <2>2. Len(transmit)' = n
    BY <1>2
  <2>3. Requests("HIRQ-6", issued)' = a1 /\ Requests("HIRQ-6", pending)' = b1
    BY DEF Requests, Positions
  <2>4. One(Irq.at = "sendDone")' = d1
    BY DEF One
  <2> HIDE DEF l, n, a1, b1, d1
  <2> QED
    BY <2>1, <2>2, <2>3, <2>4, Zenon DEF Tokens
<1>8. \/ b1 = b /\ d = 0 /\ d1 = o
      \/ d1 = d /\ b1 = b + o
      \/ d1 = d /\ b1 = b /\ ~(Len(pending) < QueueSize)
  <2>1. CASE th["irq"].at = "none"
    <3>1. pending' = pending /\ Irq'.at = IF issued[k].service = "HIRQ-1" THEN "writing" ELSE "sendDone"
      BY <2>1, <1>1, InterruptType DEF IssueInterrupt
    <3>2. issued[k].service = "HIRQ-1" \/ issued[k].service = "HIRQ-6"
      BY <1>1 DEF Request
    <3>3. Irq'.at = "sendDone" <=> issued[k].service = "HIRQ-6"
      BY <3>1, <3>2
    <3>4. d1 = o /\ b1 = b
      BY <3>1, <3>3 DEF One
    <3>5. d = 0
      BY <2>1 DEF Irq, One
    <3> QED
      BY <3>4, <3>5
  <2>2. CASE th["irq"].at # "none"
    <3>1. /\ pending' = (IF Len(pending) < QueueSize THEN Append(pending, issued[k]) ELSE pending)
          /\ th' = th
      BY <2>2 DEF IssueInterrupt
    <3>2. d1 = d
      BY <3>1 DEF Irq
    <3>3. Requests("HIRQ-6", Append(pending, issued[k])) = b + o
      BY <1>1, RequestsAppend
    <3> QED
      BY <3>1, <3>2, <3>3
  <2> QED
    BY <2>1, <2>2
<1>9. /\ Tokens' \in Nat /\ Tokens' <= Tokens
      /\ Len(pending) < QueueSize => Tokens' = Tokens
  <2> HIDE DEF o, a, a1, b, b1, d, d1, l, n
  <2>1. b1 \in Nat /\ d1 \in Nat
    BY <1>3, <1>8
  <2>2. CASE b1 = b /\ d = 0 /\ d1 = o
    BY <2>1, <2>2, <1>3, <1>4, <1>6, <1>7
  <2>3. CASE d1 = d /\ b1 = b + o
    BY <2>1, <2>3, <1>3, <1>4, <1>6, <1>7
  <2>4. CASE d1 = d /\ b1 = b /\ ~(Len(pending) < QueueSize)
    BY <2>1, <2>4, <1>3, <1>4, <1>6, <1>7
  <2> QED
    BY <2>2, <2>3, <2>4, <1>8
<1> QED
  BY <1>2, <1>9 DEF TokensKept

LEMMA EndOfInterruptTokens ==
  ASSUME TypeOK, Awake, EndOfInterrupt
  PROVE  TokensKept
<1>1. pending \in Seq(Request)
  BY TypeParts DEF RequestOK
<1>2. UNCHANGED <<transmit, infos, ipaq, state, issued>>
  BY DEF EndOfInterrupt, queues
<1>3. Irq.at = "return"
  BY WhoRuns DEF EndOfInterrupt, At
<1> DEFINE b == Requests("HIRQ-6", pending)
           b1 == Requests("HIRQ-6", pending')
           d1 == One(Irq'.at = "sendDone")
<1>4. b \in Nat /\ b1 \in Nat /\ b = b1 + d1 /\ d1 \in Nat
  <2>1. CASE pending # <<>>
    <3>1. Interrupt(Head(pending), th["main"]) /\ pending' = Tail(pending)
      BY <2>1 DEF EndOfInterrupt
    <3>2. 1 \in DOMAIN pending /\ Head(pending) = pending[1] /\ Head(pending) \in Request
          /\ Tail(pending) = RemoveAt(pending, 1)
      BY <1>1, <2>1, TailRemoves
    <3>3. b1 \in Nat /\ b = b1 + One(Head(pending).service = "HIRQ-6")
      <4>1. /\ Requests("HIRQ-6", RemoveAt(pending, 1)) \in Nat
            /\ Requests("HIRQ-6", pending) = Requests("HIRQ-6", RemoveAt(pending, 1)) + One(pending[1].service = "HIRQ-6")
        BY <1>1, <3>2, RequestsRemove
      <4>2. pending' = RemoveAt(pending, 1)
        BY <3>1, <3>2
      <4> QED
        BY <4>1, <4>2, <3>2
    <3>4. Irq'.at = "sendDone" <=> Head(pending).service = "HIRQ-6"
      <4>1. Irq'.at = IF Head(pending).service = "HIRQ-1" THEN "writing" ELSE "sendDone"
        BY <3>1, <3>2, InterruptType
      <4>2. Head(pending).service = "HIRQ-1" \/ Head(pending).service = "HIRQ-6"
        BY <3>2 DEF Request
      <4> QED
        BY <4>1, <4>2
    <3>5. d1 = One(Head(pending).service = "HIRQ-6") /\ d1 \in Nat
      BY <3>4 DEF One
    <3> HIDE DEF b, b1, d1
    <3>6. b1 + d1 \in Nat
      BY <3>3, <3>5
    <3> QED
      BY <3>3, <3>5, <3>6
  <2>2. CASE pending = <<>>
    <3>1. pending' = pending /\ Irq' = [at |-> "none", info |-> 0]
      BY <2>2, EndOfInterruptType, BothThreads DEF EndOfInterrupt, Irq, Both, Threads
    <3>2. d1 = 0 /\ b1 = b
      BY <3>1 DEF One
    <3>3. b = 0
      BY <2>2, RequestsNone
    <3> QED
      BY <3>2, <3>3
  <2> QED
    BY <2>1, <2>2
<1>5. Loading' <=> Loading
  <2>1. Main' = Main \/ (Main.at = "awake" /\ Main'.at = "taskloop")
    <3>1. CASE pending # <<>>
      <4>1. Head(pending) \in Request
        BY <1>1, <3>1, TailRemoves
      <4> QED
        BY <3>1, <4>1, InterruptType DEF EndOfInterrupt
    <3>2. CASE pending = <<>>
      <4>1. Main' = [Main EXCEPT !.at = IF @ = "awake" THEN "taskloop" ELSE @] /\ Main \in ThreadType
        BY <3>2, WhoRuns DEF EndOfInterrupt, Main, Both, Threads
      <4> QED
        BY <4>1 DEF ThreadType
    <3> QED
      BY <3>1, <3>2
  <2> QED
    BY <2>1, <1>2 DEF Loading, Callback
<1>6. /\ One(Loading)' = One(Loading) /\ One(Irq.at = "sendDone")' = d1 /\ One(Irq.at = "sendDone") = 0
      /\ Requests("HIRQ-6", issued)' = Requests("HIRQ-6", issued) /\ Requests("HIRQ-6", pending)' = b1
      /\ Len(transmit)' = Len(transmit)
  BY <1>2, <1>3, <1>5 DEF One, Requests, Positions
<1>7. Tokens' = Tokens
  <2>1. /\ One(Loading) \in Int /\ Len(transmit) \in Int /\ Requests("HIRQ-6", issued) \in Int
    BY TokenTypes
  <2> HIDE DEF b, b1, d1
  <2>2. Tokens' = One(Loading) + Len(transmit) + Requests("HIRQ-6", issued) + b1 + d1
    BY <1>6, Zenon DEF Tokens
  <2>3. Tokens = One(Loading) + Len(transmit) + Requests("HIRQ-6", issued) + b + 0
    BY <1>6, Zenon DEF Tokens, b
  <2> QED
    BY <2>1, <2>2, <2>3, <1>4
<1> QED
  BY <1>2, <1>7 DEF TokensKept

LEMMA StageDoneTokens ==
  ASSUME TypeOK, Awake, StageDone
  PROVE  TokensKept
<1>1. PICK p \in Stages : At(p) /\ Moved(After[p], here)
  BY StageDoneType
<1>2. UNCHANGED <<transmit, infos, ipaq, state, issued, pending>>
  BY DEF StageDone, queues
<1>3. After[p] \in Places /\ After[p] # "sendDone" /\ th[Running].at = p /\ p # "sendDone" /\ here \in Infos
  BY <1>1, WhoRuns DEF At, After, Stages, Places, MainPlaces, IrqPlaces
<1>4. Loading' <=> Loading
  <2>1. CASE p = "loading"
    <3>1. "loading" \in Places \ IrqPlaces
      BY DEF Places, MainPlaces, IrqPlaces, Stages, After
    <3>2. Running = "main" /\ Main.at = "loading" /\ here = Main.info
      BY <3>1, <2>1, <1>1, MainOnly
    <3>3. Main'.at = "written" /\ Main'.info = Main.info
      BY <3>2, <2>1, <1>1 DEF Moved, After
    <3> QED
      BY <3>2, <3>3, <1>2 DEF Loading, Callback
  <2>2. CASE p # "loading"
    <3>1. p \notin {"loading", "written"} /\ After[p] \notin {"loading", "written"}
      BY <2>2 DEF After, Stages
    <3>2. infos'[Main.info].targets["writtentotxfifo"] = Callback(Main.info, "writtentotxfifo")
      BY <1>2 DEF Callback
    <3> QED
      BY <3>1, <3>2, <1>1, <1>3, MovedLoading
  <2> QED
    BY <2>1, <2>2
<1> QED
  BY <1>1, <1>2, <1>3, <1>4, MovedTokens

(* Statements of the device file that have nothing to do with sending. *)
LEMMA SteadyTargets ==
  ASSUME TypeOK
  PROVE  /\ \A i \in Infos : Invoked("readdonepayload")[i].targets["writtentotxfifo"] = Callback(i, "writtentotxfifo")
         /\ \A i \in Infos, p \in Packets \cup {None} :
              Chained("readdonepayload", "receivedone", p)[i].targets["writtentotxfifo"] = Callback(i, "writtentotxfifo")
<1>1. {"readdonepayload", "receivedone", "writtentotxfifo"} \subseteq Triggers
  BY TriggerNames
<1>2. \A i \in Infos : Invoked("readdonepayload")[i].targets["writtentotxfifo"] = Callback(i, "writtentotxfifo")
  BY <1>1, InvokedInfos
<1>3. ASSUME NEW i \in Infos, NEW p \in Packets \cup {None}
      PROVE  Chained("readdonepayload", "receivedone", p)[i].targets["writtentotxfifo"] = Callback(i, "writtentotxfifo")
  BY <1>1, ChainedInfos
<1> QED
  BY <1>2, <1>3

(* Which places are of one thread only. *)
LEMMA Places1 ==
  /\ {"dequeue", "return", "receive", "sendTask", "asleep", "taskloop", "check", "readDone", "readNext", "writing",
      "receiveDone", "ipaqFull", "dropping", "queueing", "post", "written", "transmitting", "loading"} \subseteq Places
  /\ {"dequeue", "receive", "sendTask", "asleep", "taskloop", "receiveDone", "ipaqFull", "dropping", "queueing",
      "post", "written", "transmitting", "loading", "awake"} \subseteq Places \ IrqPlaces
  /\ {"sendDone", "sent", "none"} \subseteq Places \ MainPlaces
BY DEF Places, MainPlaces, IrqPlaces, Stages, After

LEMMA DequeueTokens ==
  ASSUME TypeOK, Awake, Dequeue
  PROVE  TokensKept
<1>1. UNCHANGED <<transmit, infos, ipaq, state, issued, pending>>
  BY DEF Dequeue
<1>2. Main.at = "dequeue" /\ Irq' = Irq /\ Main'.at \in {"receive", "sendTask"}
  BY DequeueType DEF Task
<1>3. Loading' <=> Loading
  BY <1>2 DEF Loading
<1> QED
  BY <1>1, <1>2, <1>3 DEF TokensKept, Tokens, Requests, Positions, One

LEMMA ReturnTokens ==
  ASSUME TypeOK, Awake, Return
  PROVE  TokensKept
<1>1. UNCHANGED <<transmit, infos, ipaq, state, issued, pending>>
  BY DEF Return, queues
<1>2. Main.at = "return" /\ Irq' = Irq /\ Main'.at \in {"asleep", "taskloop"}
  BY ReturnType
<1>3. Loading' <=> Loading
  BY <1>2 DEF Loading
<1> QED
  BY <1>1, <1>2, <1>3 DEF TokensKept, Tokens, Requests, Positions, One

LEMMA ReadDonePayloadTokens ==
  ASSUME TypeOK, Awake, ReadDonePayload
  PROVE  TokensKept
<1>1. UNCHANGED <<transmit, ipaq, issued, pending>> /\ th[Running].at = "readDone"
  BY DEF ReadDonePayload, queues, At
<1>2. Moved("check", here) /\ here \in Infos /\ Main.info \in Infos
  BY ReadDonePayloadType, WhoRuns
<1> DEFINE p == Target("readdonepayload")
<1>3. p \in Packets \cup {None}
  BY TargetType, TriggerNames
<1>4. /\ infos' = infos \/ infos' = Invoked("readdonepayload") \/ infos' = Chained("readdonepayload", "receivedone", p)
      /\ state' = state \/ \E b \in BOOLEAN : state' = [state EXCEPT !.collided = b]
  BY DEF ReadDonePayload
<1>5. state'.busy = state.busy
  BY <1>4, TypeParts DEF StateOK, StateType
<1> HIDE DEF p
<1>6. infos'[Main.info].targets["writtentotxfifo"] = Callback(Main.info, "writtentotxfifo")
  BY <1>2, <1>3, <1>4, SteadyTargets DEF Callback
<1>7. Loading' <=> Loading
  BY <1>1, <1>2, <1>6, Places1, MovedLoading
<1> QED
  BY <1>1, <1>2, <1>5, <1>7, Places1, MovedTokens

LEMMA CheckIfPacketCollidedTokens ==
  ASSUME TypeOK, Awake, CheckIfPacketCollided
  PROVE  TokensKept
<1>1. UNCHANGED <<transmit, infos, ipaq, state, issued, pending>> /\ th[Running].at = "check"
  BY DEF CheckIfPacketCollided, At
<1>2. infos'[Main.info].targets["writtentotxfifo"] = Callback(Main.info, "writtentotxfifo") /\ here \in Infos
  BY <1>1, WhoRuns DEF Callback
<1>3. CASE state.collided
  <2>1. Moved("readNext", here)
    BY <1>3, CheckIfPacketCollidedType
  <2>2. Loading' <=> Loading
    BY <2>1, <1>1, <1>2, Places1, MovedLoading
  <2> QED
    BY <2>1, <2>2, <1>1, <1>2, Places1, MovedTokens
<1>4. CASE ~state.collided
  <2>1. /\ Loading' <=> Loading
        /\ Irq'.at = "sendDone" <=> Irq.at = "sendDone"
    <3>1. CASE Running = "main"
      <4>1. Main'.at = "return" /\ Irq' = Irq /\ Main.at = "check"
        BY <1>1, <1>4, <3>1, CheckIfPacketCollidedType, WhoRuns
      <4> QED
        BY <4>1 DEF Loading
    <3>2. CASE Running = "irq"
      <4>1. Main' = Thread(Main) /\ Irq'.at = "return" /\ Irq.at = "check"
        BY <1>1, <1>4, <3>2, CheckIfPacketCollidedType, WhoRuns
      <4> QED
        BY <4>1, <1>2, SteadyLoading
    <3> QED
      BY <3>1, <3>2, WhoRuns
  <2> QED
    BY <2>1, <1>1 DEF TokensKept, Tokens, Requests, Positions, One
<1> QED
  BY <1>3, <1>4

LEMMA MainInfoUsed ==
  ASSUME TypeOK
  PROVE  Main.info \in Used \cap Infos
BY WhoRuns DEF Used, Main

LEMMA ReadNextPacketInRxfifoTokens ==
  ASSUME ~IsFiniteSet(Infos), TypeOK, Awake, ReadNextPacketInRxfifo
  PROVE  TokensKept
<1>1. UNCHANGED <<transmit, ipaq, state, issued, pending>> /\ th[Running].at = "readNext" /\ here \in Infos
  BY WhoRuns DEF ReadNextPacketInRxfifo, At
<1>2. CASE rxfifo = <<>>
  <2>1. Moved("return", here) /\ infos' = infos
    BY <1>2, ReadNextPacketInRxfifoType
  <2>2. Loading' <=> Loading
    BY <2>1, <1>1, Places1, MovedLoading DEF Callback
  <2> QED
    BY <2>1, <2>2, <1>1, Places1, MovedTokens
<1>3. CASE rxfifo # <<>>
  <2>1. Moved("writing", Fresh) /\ Copy(Head(rxfifo)) /\ Head(rxfifo) \in Info
    BY <1>3, ReadNextPacketInRxfifoType
  <2>2. infos'[Main.info].targets["writtentotxfifo"] = Callback(Main.info, "writtentotxfifo")
    BY <2>1, MainInfoUsed, CopiedInfos DEF Callback
  <2>3. Fresh \in Infos
    BY FreshInfo
  <2>4. Loading' <=> Loading
    BY <2>1, <2>2, <2>3, <1>1, Places1, MovedLoading
  <2> QED
    BY <2>1, <2>3, <2>4, <1>1, Places1, MovedTokens
<1> QED
  BY <1>2, <1>3

LEMMA ReceiveDoneTaskTokens ==
  ASSUME TypeOK, Awake, ReceiveDoneTask
  PROVE  TokensKept
<1>1. UNCHANGED <<transmit, ipaq, issued, pending>> /\ th[Running].at = "receive" /\ here \in Infos
  BY WhoRuns DEF ReceiveDoneTask, queues, At
<1>2. Moved("receiveDone", here) /\ Running = "main"
  BY Places1, MainOnly, ReceiveDoneTaskType DEF ReceiveDoneTask
<1>3. state' = state \/ state' = [state EXCEPT !.full = Full]
  BY DEF ReceiveDoneTask
<1>4. state'.busy = state.busy
  BY <1>3, TypeParts DEF StateOK, StateType
<1>5. Loading' <=> Loading
  BY <1>1, <1>2, Places1, MovedLoading
<1> QED
  BY <1>1, <1>2, <1>4, <1>5, Places1, MovedTokens

LEMMA IpaqFullTokens ==
  ASSUME TypeOK, Awake, IpaqFull
  PROVE  TokensKept
<1> DEFINE p == IF state.full THEN "dropping" ELSE "queueing"
<1>1. UNCHANGED <<transmit, issued, pending, state>> /\ th[Running].at = "ipaqFull" /\ here \in Infos
  BY WhoRuns DEF IpaqFull, At
<1>2. Moved(p, here) /\ Running = "main" /\ (ipaq # <<>> => ipaq' # <<>>)
  BY Places1, MainOnly, IpaqFullType DEF IpaqFull
<1>3. p \in {"dropping", "queueing"}
  OBVIOUS
<1> HIDE DEF p
<1>4. Loading' <=> Loading
  BY <1>1, <1>2, <1>3, Places1, MovedLoading
<1> QED
  BY <1>1, <1>2, <1>3, <1>4, Places1, MovedTokens

LEMMA PostSendTaskTokens ==
  ASSUME TypeOK, Awake, PostSendTask
  PROVE  TokensKept
<1>1. UNCHANGED <<transmit, issued, pending, state, ipaq>> /\ th[Running].at = "post" /\ here \in Infos
  BY WhoRuns DEF PostSendTask, At
<1>2. Moved("readNext", here) /\ Running = "main"
  BY Places1, MainOnly, PostSendTaskType DEF PostSendTask
<1>3. Loading' <=> Loading
  BY <1>1, <1>2, Places1, MovedLoading
<1> QED
  BY <1>1, <1>2, <1>3, Places1, MovedTokens

(* No sendTask goes on to load a packet when its info has lost the callback to sendTask *)
(* (telosb.cc:188), which sets ip-radio-busy, but holds an old one to writtenToTxFifo.  *)
(* An info can hold an old one: a packet that arrives while another is loaded is queued *)
(* with a copy of the info of the one that is loaded. What the model does not exclude   *)
(* for any number of packets is that such an info loses the other callback as well; a   *)
(* packet would then be transmitted while the radio counts as free.                     *)
NoStaleSend ==
  At("sendTask") /\ ~state.busy /\ ipaq # <<>>
    => Callback(here, "sendtask") # None \/ Callback(here, "writtentotxfifo") = None

LEMMA SendTaskTokens ==
  ASSUME TypeOK, Awake, SendTask, NoStaleSend
  PROVE  /\ ipaq' = ipaq
         /\ \/ TokensKept
            \/ ~state.busy /\ ipaq # <<>> /\ Tokens' = Tokens + One(state'.busy)
<1>1. UNCHANGED <<transmit, issued, pending, ipaq>> /\ th[Running].at = "sendTask" /\ here \in Infos
  BY WhoRuns DEF SendTask, At
<1>2. Running = "main" /\ Main.at = "sendTask" /\ Irq.at = "none" /\ here = Main.info /\ ~Loading
  BY SendTaskType DEF Loading
<1>3. CASE state.busy \/ ipaq = <<>>
  <2>1. Moved("return", here) /\ state' = state
    BY <1>3, SendTaskType
  <2>2. Loading' <=> Loading
    BY <2>1, <1>1, <1>2, Places1, MovedLoading
  <2> QED
    BY <2>1, <2>2, <1>1, Places1, MovedTokens
<1>4. CASE ~state.busy /\ ipaq # <<>>
  <2> DEFINE p == Target("sendtask")
  <2>1. /\ Moved("loading", here)
        /\ infos' = IF p = None THEN infos ELSE Chained("sendtask", "writtentotxfifo", p)
        /\ state'.busy = (p # None)
    BY <1>4, SendTaskType
  <2>2. p \in Packets \cup {None} /\ p = Callback(here, "sendtask")
    BY TargetType, TriggerNames
  <2>3. p = None => Callback(here, "writtentotxfifo") = None
    BY <2>2, <1>1, <1>4 DEF NoStaleSend, At
  <2> HIDE DEF p
  <2>4. p # None => infos'[here].targets["writtentotxfifo"] = p
    <3>1. "sendtask" \in Triggers /\ "writtentotxfifo" \in Triggers /\ "sendtask" # "writtentotxfifo"
      BY TriggerNames
    <3>2. Chained("sendtask", "writtentotxfifo", p)[here].targets["writtentotxfifo"] = p
      BY <3>1, <2>2, <1>1, ChainedInfos
    <3> QED
      BY <3>2, <2>1
  <2>5. p = None => infos'[here].targets["writtentotxfifo"] = None
    BY <2>1, <2>3 DEF Callback
  <2>6. Main'.at = "loading" /\ Main'.info = here /\ Irq' = Irq
    BY <2>1, <1>2 DEF Moved
  <2>7. Loading' <=> p # None
    BY <2>4, <2>5, <2>6 DEF Loading, Callback
  <2>8. /\ One(Loading)' = One(state'.busy) /\ One(Loading) = 0
        /\ One(Irq.at = "sendDone")' = One(Irq.at = "sendDone")
        /\ Requests("HIRQ-6", issued)' = Requests("HIRQ-6", issued)
        /\ Requests("HIRQ-6", pending)' = Requests("HIRQ-6", pending)
        /\ Len(transmit)' = Len(transmit)
    BY <2>1, <2>6, <2>7, <1>1, <1>2 DEF One, Requests, Positions
  <2>9. Tokens' = Tokens + One(state'.busy)
    <3>1. /\ Len(transmit) \in Int /\ One(Irq.at = "sendDone") \in Int /\ One(state'.busy) \in Int
          /\ Requests("HIRQ-6", issued) \in Int /\ Requests("HIRQ-6", pending) \in Int
      BY TokenTypes DEF One
    <3>2. Tokens' = One(state'.busy) + Len(transmit) + Requests("HIRQ-6", issued) + Requests("HIRQ-6", pending)
                      + One(Irq.at = "sendDone")
      BY <2>8, Zenon DEF Tokens
    <3>3. Tokens = 0 + Len(transmit) + Requests("HIRQ-6", issued) + Requests("HIRQ-6", pending)
                      + One(Irq.at = "sendDone")
      BY <2>8, Zenon DEF Tokens
    <3> QED
      BY <3>1, <3>2, <3>3
  <2> QED
    BY <2>9, <1>1, <1>4
<1> QED
  BY <1>1, <1>3, <1>4

LEMMA WrittenToTxFifoTokens ==
  ASSUME TypeOK, Awake, WrittenToTxFifo
  PROVE  TokensKept
<1>1. UNCHANGED <<issued, pending, ipaq, state>> /\ th[Running].at = "written" /\ here \in Infos
  BY WhoRuns DEF WrittenToTxFifo, queues, At
<1>2. Running = "main" /\ Main.at = "written" /\ Irq.at = "none" /\ here = Main.info /\ Moved("transmitting", here)
  BY WrittenToTxFifoType
<1>3. Main'.at = "transmitting" /\ Irq' = Irq /\ ~Loading'
  BY <1>2 DEF Moved, Loading
<1>4. Loading <=> Target("writtentotxfifo") # None
  BY <1>2, TargetType, TriggerNames DEF Loading
<1>5. Len(transmit') = Len(transmit) + One(Loading)
  <2>1. Len(transmit) \in Nat
    BY TokenTypes
  <2> QED
    BY <2>1, <1>4, WrittenToTxFifoType DEF One
<1>6. /\ One(Loading)' = 0 /\ Len(transmit)' = Len(transmit) + One(Loading)
      /\ One(Irq.at = "sendDone")' = One(Irq.at = "sendDone")
      /\ Requests("HIRQ-6", issued)' = Requests("HIRQ-6", issued)
      /\ Requests("HIRQ-6", pending)' = Requests("HIRQ-6", pending)
  BY <1>1, <1>3, <1>5 DEF One, Requests, Positions
<1>7. Tokens' = Tokens
  <2>1. /\ One(Loading) \in Int /\ Len(transmit) \in Int /\ One(Irq.at = "sendDone") \in Int
        /\ Requests("HIRQ-6", issued) \in Int /\ Requests("HIRQ-6", pending) \in Int
    BY TokenTypes
  <2>2. Tokens' = 0 + (Len(transmit) + One(Loading)) + Requests("HIRQ-6", issued) + Requests("HIRQ-6", pending)
                    + One(Irq.at = "sendDone")
    BY <1>6, Zenon DEF Tokens
  <2> QED
    BY <2>1, <2>2 DEF Tokens
<1> QED
  BY <1>1, <1>7 DEF TokensKept

LEMMA SendDoneTokens ==
  ASSUME ~IsFiniteSet(Infos), TypeOK, Awake, SendDone
  PROVE  Irq.at = "sendDone" /\ Tokens' = Tokens - 1 /\ ~state'.busy
<1>1. UNCHANGED <<transmit, issued, pending>> /\ state' = [state EXCEPT !.busy = FALSE]
  BY DEF SendDone
<1>2. Irq.at = "sendDone" /\ Irq'.at = "sent" /\ (Main' = Main \/ Main' = Thread(Main))
  BY SendDoneType
<1>3. ~state'.busy
  BY <1>1, TypeParts DEF StateOK, StateType
<1>4. infos'[Main.info].targets["writtentotxfifo"] = Callback(Main.info, "writtentotxfifo")
  <2>1. PICK h \in Holder : Copy(infos[h.info])
    <3>1. ipaq \in Seq(Holder) /\ postponed \in Seq(Holder) /\ ipaq # <<>>
      BY TypeParts DEF QueuesOK, SendDone
    <3>2. CASE postponed = <<>>
      BY <3>1, <3>2, TailRemoves DEF SendDone
    <3>3. CASE postponed # <<>>
      BY <3>1, <3>3, TailRemoves DEF SendDone
    <3> QED
      BY <3>2, <3>3
  <2>2. infos[h.info] \in Info
    BY InfoTypes DEF Holder
  <2> QED
    BY <2>1, <2>2, MainInfoUsed, CopiedInfos DEF Callback
<1>5. Loading' <=> Loading
  BY <1>2, <1>4, SteadyLoading
<1>6. /\ One(Loading)' = One(Loading) /\ Len(transmit)' = Len(transmit)
      /\ One(Irq.at = "sendDone")' = 0 /\ One(Irq.at = "sendDone") = 1
      /\ Requests("HIRQ-6", issued)' = Requests("HIRQ-6", issued)
      /\ Requests("HIRQ-6", pending)' = Requests("HIRQ-6", pending)
  BY <1>1, <1>2, <1>5 DEF One, Requests, Positions
<1>7. Tokens' = Tokens - 1
  <2>1. /\ One(Loading) \in Int /\ Len(transmit) \in Int
        /\ Requests("HIRQ-6", issued) \in Int /\ Requests("HIRQ-6", pending) \in Int
    BY TokenTypes
  <2>2. Tokens' = One(Loading) + Len(transmit) + Requests("HIRQ-6", issued) + Requests("HIRQ-6", pending) + 0
    BY <1>6, Zenon DEF Tokens
  <2>3. Tokens = One(Loading) + Len(transmit) + Requests("HIRQ-6", issued) + Requests("HIRQ-6", pending) + 1
    BY <1>6, Zenon DEF Tokens
  <2> QED
    BY <2>1, <2>2, <2>3
<1> QED
  BY <1>2, <1>3, <1>7

(* What Tokens and busy may become in a step. *)
TokensMove ==
  \/ TokensKept
  \/ Tokens' \in Nat /\ Tokens' <= Tokens /\ state'.busy = state.busy /\ ipaq' = ipaq /\ Len(pending) >= QueueSize
       /\ \E k \in DOMAIN issued : IssueInterrupt(k)
  \/ ~state.busy /\ ipaq # <<>> /\ ipaq' = ipaq /\ Tokens' = Tokens + One(state'.busy)
  \/ Irq.at = "sendDone" /\ Tokens' = Tokens - 1 /\ ~state'.busy

LEMMA NextTokens ==
  ASSUME ~IsFiniteSet(Infos), TypeOK, Awake, NoStaleSend, [Next]_vars
  PROVE  TokensMove
<1>1. ASSUME NEW p \in Packets, SendPacket(p) PROVE TokensMove
  BY <1>1, SendPacketTokens DEF TokensMove
<1>2. CASE ReceivePacket
  BY <1>2, ReceivePacketTokens DEF TokensMove
<1>3. ASSUME NEW k \in DOMAIN transmit, Retry(k) PROVE TokensMove
  BY <1>3, RetryTokens DEF TokensMove
<1>4. ASSUME NEW k \in DOMAIN transmit, FinishedTransmitting(k) PROVE TokensMove
  BY <1>4, FinishedTransmittingTokens DEF TokensMove
<1>5. ASSUME NEW k \in DOMAIN issued, IssueInterrupt(k) PROVE TokensMove
  <2>1. Len(pending) \in Nat /\ QueueSize \in Nat
    BY TypeParts, MoteAssumption DEF RequestOK
  <2>2. CASE Len(pending) < QueueSize
    BY <2>2, <1>5, IssueInterruptTokens DEF TokensMove
  <2>3. CASE Len(pending) >= QueueSize
    BY <2>3, <1>5, IssueInterruptTokens DEF TokensMove
  <2> QED
    BY <2>1, <2>2, <2>3
<1>6. CASE StageDone
  BY <1>6, StageDoneTokens DEF TokensMove
<1>7. CASE Statement
  <2>1. CASE Dequeue
    BY <2>1, DequeueTokens DEF TokensMove
  <2>2. CASE Return
    BY <2>2, ReturnTokens DEF TokensMove
  <2>3. CASE ReadDonePayload
    BY <2>3, ReadDonePayloadTokens DEF TokensMove
  <2>4. CASE CheckIfPacketCollided
    BY <2>4, CheckIfPacketCollidedTokens DEF TokensMove
  <2>5. CASE ReadNextPacketInRxfifo
    BY <2>5, ReadNextPacketInRxfifoTokens DEF TokensMove
  <2>6. CASE ReceiveDoneTask
    BY <2>6, ReceiveDoneTaskTokens DEF TokensMove
  <2>7. CASE IpaqFull
    BY <2>7, IpaqFullTokens DEF TokensMove
  <2>8. CASE PostSendTask
    BY <2>8, PostSendTaskTokens DEF TokensMove
  <2>9. CASE SendTask
    BY <2>9, SendTaskTokens DEF TokensMove
  <2>10. CASE WrittenToTxFifo
    BY <2>10, WrittenToTxFifoTokens DEF TokensMove
  <2>11. CASE SendDone
    BY <2>11, SendDoneTokens DEF TokensMove
  <2>12. CASE EndOfInterrupt
    BY <2>12, EndOfInterruptTokens DEF TokensMove
  <2> QED
    BY <1>7, <2>1, <2>2, <2>3, <2>4, <2>5, <2>6, <2>7, <2>8, <2>9, <2>10, <2>11, <2>12 DEF Statement
<1>8. CASE UNCHANGED vars
  <2>1. TokensKept
    BY <1>8 DEF vars, medium, pkts, cpu, queues, TokensKept, Tokens, Loading, Callback, Requests, Positions, Main, Irq
  <2> QED
    BY <2>1 DEF TokensMove
<1> QED
  BY <1>1, <1>2, <1>3, <1>4, <1>5, <1>6, <1>7, <1>8 DEF Next

(* The packet that has the radio is one at most, and in ipaq. *)
LEMMA OwnedKept ==
  ASSUME TypeOK, TypeOK', Owned, TokensMove
  PROVE  Owned'
<1> DEFINE b  == One(state.busy)
           b1 == One(state'.busy)
<1>1. Tokens \in Nat /\ b \in {0, 1} /\ Tokens <= b
  BY TokenTypes DEF Owned
<1>2. /\ b1 \in {0, 1} /\ (state'.busy = state.busy => b1 = b) /\ (~state.busy => b = 0) /\ (~state'.busy => b1 = 0)
  BY DEF One
<1>3. Tokens' <= b1
  <2>1. CASE TokensKept
    BY <2>1, <1>1, <1>2 DEF TokensKept
  <2>2. CASE Tokens' \in Nat /\ Tokens' <= Tokens /\ state'.busy = state.busy
    BY <2>2, <1>1, <1>2
  <2>3. CASE ~state.busy /\ Tokens' = Tokens + One(state'.busy)
    <3>1. Tokens = 0 /\ Tokens' = Tokens + b1
      BY <2>3, <1>1, <1>2
    <3> HIDE DEF b, b1
    <3> QED
      BY <3>1, <1>2
  <2>4. CASE Irq.at = "sendDone" /\ Tokens' = Tokens - 1 /\ ~state'.busy
    <3> HIDE DEF b, b1
    <3> QED
      BY <2>4, <1>1, <1>2
  <2> QED
    BY <2>1, <2>2, <2>3, <2>4 DEF TokensMove
<1>4. state'.busy => ipaq' # <<>>
  BY DEF TokensMove, TokensKept, Owned
<1>5. One(state.busy)' = b1
  BY DEF One
<1> QED
  BY <1>3, <1>4, <1>5 DEF Owned

LEMMA InitOwned == ASSUME Init PROVE Owned
<1>1. transmit = <<>> /\ issued = <<>> /\ pending = <<>> /\ Main.at = "asleep" /\ Irq.at = "none" /\ ~state.busy
  BY DEF Init, Main, Irq, Both, Threads
<1>2. ~Loading
  BY <1>1 DEF Loading
<1>3. Requests("HIRQ-6", issued) = 0 /\ Requests("HIRQ-6", pending) = 0 /\ Len(transmit) = 0
  BY <1>1, RequestsNone
<1>4. Tokens = 0 + 0 + 0 + 0 + 0
  BY <1>1, <1>2, <1>3 DEF Tokens, One
<1> QED
  BY <1>1, <1>4 DEF Owned, One

LEMMA OwnedRadio ==
  ASSUME TypeOK, Owned
  PROVE  OneTransmission /\ SendDoneHasPacket
<1> DEFINE l == One(Loading)
           n == Len(transmit)
           a == Requests("HIRQ-6", issued)
           c == Requests("HIRQ-6", pending)
           d == One(Irq.at = "sendDone")
           b == One(state.busy)
<1>1. Tokens = l + n + a + c + d
  BY DEF Tokens
<1>2. /\ l \in Nat /\ n \in Nat /\ a \in Nat /\ c \in Nat /\ d \in Nat /\ b \in {0, 1} /\ Tokens <= b
  BY TokenTypes DEF Owned
<1>3. (n # 0 => n = 1 /\ b = 1) /\ (d = 1 => b = 1)
  <2> HIDE DEF l, n, a, b, c, d
  <2> QED
    BY <1>1, <1>2
<1>4. b = 1 => state.busy
  BY DEF One
<1>5. OneTransmission
  <2>1. transmit # <<>> => n # 0
    BY TypeParts DEF RadioOK
  <2> HIDE DEF b
  <2> QED
    BY <2>1, <1>3, <1>4 DEF OneTransmission
<1>6. SendDoneHasPacket
  <2> SUFFICES ASSUME At("sendDone") PROVE ipaq # <<>>
    BY DEF SendDoneHasPacket
  <2>1. Irq.at = "sendDone"
    BY Places1, IrqOnly
  <2>2. d = 1
    BY <2>1 DEF One
  <2> HIDE DEF b, d
  <2> QED
    BY <2>2, <1>3, <1>4 DEF Owned
<1> QED
  BY <1>5, <1>6

(* One packet at a time is between writtenToTxFifo and finishedTransmitting, and only  *)
(* while ip-radio-busy is set, in the runs in which no sendTask loads a packet without *)
(* taking the radio. The code does not ensure NoStaleSend; the run Mote, where it may  *)
(* fail, checks the property for three packets.                                        *)
LEMMA OneHasTheRadio ==
  ASSUME ~IsFiniteSet(Infos)
  PROVE  Spec /\ []NoStaleSend => []OneTransmission
<1>1. TypeOK /\ Awake /\ Owned /\ NoStaleSend /\ [Next]_vars => (TypeOK /\ Awake /\ Owned)'
  BY NextType, NextTokens, OwnedKept
<1>2. Init => TypeOK /\ Awake /\ Owned
  BY InitType, InitOwned
<1>3. TypeOK /\ Owned => OneTransmission
  BY OwnedRadio
<1> QED
  BY <1>1, <1>2, <1>3, PTL DEF Spec

(* The SendDone interrupt (HIRQ-6) always finds a packet in ipaq to take out, even when *)
(* requests for interrupts are lost, in the same runs.                                  *)
LEMMA SendDoneFindsPacket ==
  ASSUME ~IsFiniteSet(Infos)
  PROVE  Spec /\ []NoStaleSend => []SendDoneHasPacket
<1>1. TypeOK /\ Awake /\ Owned /\ NoStaleSend /\ [Next]_vars => (TypeOK /\ Awake /\ Owned)'
  BY NextType, NextTokens, OwnedKept
<1>2. Init => TypeOK /\ Awake /\ Owned
  BY InitType, InitOwned
<1>3. TypeOK /\ Owned => SendDoneHasPacket
  BY OwnedRadio
<1> QED
  BY <1>1, <1>2, <1>3, PTL DEF Spec

-----------------------------------------------------------------------------
(* Nothing is lost: three requests at most wait, so that with room for three of them  *)
(* every packet that has the radio gets its SendDone, and whatever is in rxfifo is    *)
(* read.                                                                              *)

Whole == Tokens = One(state.busy)

(* HIRQ-1 is issued for the first packet only after receivingPacket was cleared; a    *)
(* second may wait while a SendDone interrupt is handled.                             *)
Unread == Requests("HIRQ-1", issued) + Requests("HIRQ-1", pending)

Reads ==
  /\ Requests("HIRQ-1", issued) <= 1
  /\ Unread <= 2
  /\ Irq.at \notin {"sendDone", "sent", "return"} => Unread <= 1
  /\ ~receiving => Unread <= 1
  /\ Irq.at = "writing" /\ ~receiving => Unread = 0

(* What is in rxfifo is for somebody to read, with the callback readDonePayload.      *)
Fifo ==
  /\ rxfifo # <<>> => receiving
  /\ \A k \in DOMAIN rxfifo : rxfifo[k].targets["readdonepayload"] # None
  /\ radio.overflow => receiving /\ radio.bytes > 0

LEMMA UnreadTypes ==
  ASSUME TypeOK
  PROVE  /\ Requests("HIRQ-1", issued) \in Nat /\ Requests("HIRQ-1", pending) \in Nat /\ Unread \in Nat
         /\ Len(pending) = Requests("HIRQ-1", pending) + Requests("HIRQ-6", pending)
         /\ Len(issued) = Requests("HIRQ-1", issued) + Requests("HIRQ-6", issued)
         /\ (pending = <<>> => Requests("HIRQ-1", pending) = 0)
<1>1. issued \in Seq(Request) /\ pending \in Seq(Request)
  BY TypeParts DEF RequestOK
<1>2. Requests("HIRQ-1", issued) \in Nat /\ Requests("HIRQ-1", pending) \in Nat
  BY <1>1, RequestsType
<1>3. \A x \in Request : x.service \in {"HIRQ-1", "HIRQ-6"}
  BY DEF Request
<1>4. /\ Len(pending) = Requests("HIRQ-1", pending) + Requests("HIRQ-6", pending)
      /\ Len(issued) = Requests("HIRQ-1", issued) + Requests("HIRQ-6", issued)
  BY <1>1, <1>3, RequestsSum
<1> QED
  BY <1>2, <1>4, RequestsNone DEF Unread

(* With room for three, no request is lost. *)
LEMMA RoomForRequests ==
  ASSUME TypeOK, Owned, Reads, QueueSize >= 3, NEW k \in DOMAIN issued
  PROVE  Len(pending) < QueueSize
<1> DEFINE l == One(Loading)
           n == Len(transmit)
           a == Requests("HIRQ-6", issued)
           c == Requests("HIRQ-6", pending)
           d == One(Irq.at = "sendDone")
           b == One(state.busy)
           e == Requests("HIRQ-1", issued)
           f == Requests("HIRQ-1", pending)
<1>1. Tokens = l + n + a + c + d
  BY DEF Tokens
<1>2. /\ l \in Nat /\ n \in Nat /\ a \in Nat /\ c \in Nat /\ d \in Nat /\ b \in {0, 1} /\ Tokens <= b
      /\ e \in Nat /\ f \in Nat /\ e + f <= 2
  <2>1. /\ l \in Nat /\ n \in Nat /\ a \in Nat /\ c \in Nat /\ d \in Nat /\ b \in {0, 1}
    BY TokenTypes
  <2>2. Tokens <= b
    BY DEF Owned
  <2>3. e \in Nat /\ f \in Nat
    BY UnreadTypes
  <2>4. e + f <= 2
    <3>1. Unread <= 2
      BY DEF Reads
    <3> QED
      BY <3>1, <2>3 DEF Unread
  <2> QED
    BY <2>1, <2>2, <2>3, <2>4
<1>3. Len(pending) = f + c /\ Len(issued) = e + a
  BY UnreadTypes
<1>4. Len(issued) >= 1
  <2>1. issued \in Seq(Request)
    BY TypeParts DEF RequestOK
  <2> QED
    BY <2>1, Shortened
<1>5. f + c <= 2
  <2>1. f + c + e + a <= 3 /\ e + a >= 1
    <3> HIDE DEF l, n, a, b, c, d, e, f
    <3>1. a + c <= 1
      BY <1>1, <1>2
    <3> QED
      BY <3>1, <1>2, <1>3, <1>4
  <2> HIDE DEF a, c, e, f
  <2> QED
    BY <2>1, <1>2
<1> HIDE DEF c, f
<1> QED
  BY <1>3, <1>5, MoteAssumption

LEMMA WholeKept ==
  ASSUME TypeOK, Owned, Whole, Reads, QueueSize >= 3, TokensMove
  PROVE  Whole'
<1> DEFINE b  == One(state.busy)
           b1 == One(state'.busy)
<1>1. Tokens \in Nat /\ b \in {0, 1} /\ Tokens = b
  BY TokenTypes DEF Whole
<1>2. /\ b1 \in {0, 1} /\ (state'.busy = state.busy => b1 = b) /\ (~state.busy => b = 0) /\ (~state'.busy => b1 = 0)
  BY DEF One
<1>3. ~(\E k \in DOMAIN issued : Len(pending) >= QueueSize)
  <2> SUFFICES ASSUME NEW k \in DOMAIN issued, Len(pending) >= QueueSize PROVE FALSE
    OBVIOUS
  <2>1. Len(pending) < QueueSize
    BY RoomForRequests
  <2>2. Len(pending) \in Nat /\ QueueSize \in Nat
    BY TypeParts, MoteAssumption DEF RequestOK
  <2> QED
    BY <2>1, <2>2
<1>4. Tokens' = b1
  <2>1. CASE TokensKept
    BY <2>1, <1>1, <1>2 DEF TokensKept
  <2>2. CASE ~state.busy /\ Tokens' = Tokens + One(state'.busy)
    <3>1. Tokens = 0 /\ Tokens' = Tokens + b1
      BY <2>2, <1>1, <1>2
    <3> HIDE DEF b, b1
    <3> QED
      BY <3>1, <1>2
  <2>3. CASE Irq.at = "sendDone" /\ Tokens' = Tokens - 1 /\ ~state'.busy
    <3>1. One(Irq.at = "sendDone") = 1
      BY <2>3 DEF One
    <3>2. Tokens >= 1
      <4> DEFINE l == One(Loading)
                 n == Len(transmit)
                 a == Requests("HIRQ-6", issued)
                 c == Requests("HIRQ-6", pending)
      <4>1. Tokens = l + n + a + c + 1
        BY <3>1 DEF Tokens
      <4>2. l \in Nat /\ n \in Nat /\ a \in Nat /\ c \in Nat
        BY TokenTypes
      <4> HIDE DEF l, n, a, c
      <4> QED
        BY <4>1, <4>2
    <3> HIDE DEF b, b1
    <3> QED
      BY <3>2, <2>3, <1>1, <1>2
  <2> QED
    BY <2>1, <2>2, <2>3, <1>3 DEF TokensMove
<1>5. One(state.busy)' = b1
  BY DEF One
<1> QED
  BY <1>4, <1>5 DEF Whole

Apart == {"sendDone", "sent", "return"}

(* A step that changes no queue of requests for HIRQ-1. *)
LEMMA ReadsKept ==
  ASSUME TypeOK, Reads,
         Requests("HIRQ-1", issued') = Requests("HIRQ-1", issued),
         Requests("HIRQ-1", pending') = Requests("HIRQ-1", pending),
         Irq'.at \in Apart \/ Irq.at \notin Apart,
         receiving' \/ ~receiving \/ Irq.at \notin Apart,
         Irq'.at = "writing" => receiving' \/ (Irq.at = "writing" /\ ~receiving)
  PROVE  Reads'
<1>1. /\ Unread' = Unread /\ Unread \in Nat
      /\ Requests("HIRQ-1", issued)' = Requests("HIRQ-1", issued)
  BY UnreadTypes DEF Unread, Requests, Positions
<1>2. /\ Requests("HIRQ-1", issued) <= 1 /\ Unread <= 2
      /\ Irq.at \notin Apart => Unread <= 1
      /\ ~receiving => Unread <= 1
      /\ Irq.at = "writing" /\ ~receiving => Unread = 0
  BY DEF Reads, Apart
<1>3. /\ Requests("HIRQ-1", issued)' <= 1 /\ Unread' <= 2
      /\ Irq'.at \notin Apart => Unread' <= 1
      /\ ~receiving' => Unread' <= 1
      /\ Irq'.at = "writing" /\ ~receiving' => Unread' = 0
  BY <1>1, <1>2
<1> QED
  BY <1>3 DEF Reads, Apart

(* The thread that runs moves on. *)
LEMMA MovedReads ==
  ASSUME TypeOK, Reads, NEW p \in Places, NEW i \in Infos, Moved(p, i),
         issued' = issued, pending' = pending,
         p \in Apart \/ th[Running].at \notin Apart,
         receiving' \/ ~receiving \/ th[Running].at \notin Apart,
         p = "writing" => receiving'
  PROVE  Reads'
<1>1. \/ Running = "main" /\ Irq' = Irq /\ Irq.at = "none"
      \/ Running = "irq" /\ Irq'.at = p /\ Irq = th[Running]
  BY WhoRuns DEF Moved
<1>2. /\ Irq'.at \in Apart \/ Irq.at \notin Apart
      /\ receiving' \/ ~receiving \/ Irq.at \notin Apart
      /\ Irq'.at = "writing" => receiving'
  BY <1>1 DEF Apart
<1> QED
  BY <1>2, ReadsKept

LEMMA SamePlaceReads ==
  ASSUME TypeOK, Reads, Irq' = Irq, issued' = issued, pending' = pending, receiving' = receiving
  PROVE  Reads'
BY ReadsKept

LEMMA ReceivePacketReads ==
  ASSUME TypeOK, Awake, Reads, ReceivePacket
  PROVE  Reads'
<1>1. UNCHANGED <<pending, th>> /\ Irq' = Irq
  BY DEF ReceivePacket, Irq
<1>2. issued \in Seq(Request) /\ cur \in Infos
  BY TypeParts DEF RequestOK, ThreadsOK
<1>3. CASE radio.overflow \/ receiving
  <2>1. issued' = issued /\ receiving' = receiving
    BY <1>3, TypeParts DEF ReceivePacket, Store, RadioOK
  <2> QED
    BY <1>1, <2>1, ReadsKept
<1>4. CASE ~radio.overflow /\ ~receiving
  <2>1. issued' = Append(issued, [service |-> "HIRQ-1", info |-> cur]) /\ receiving'
    BY <1>4 DEF ReceivePacket, Store
  <2>2. Requests("HIRQ-1", issued) = 0
    BY <1>2, RequestsType DEF ReceivePacket
  <2>3. Requests("HIRQ-1", issued') = 1
    <3>1. [service |-> "HIRQ-1", info |-> cur] \in Request
      BY <1>2 DEF Request
    <3>2. Requests("HIRQ-1", issued') = Requests("HIRQ-1", issued) + One("HIRQ-1" = "HIRQ-1")
      BY <1>2, <2>1, <3>1, RequestsAppend
    <3> QED
      BY <2>2, <3>2 DEF One
  <2>4. Requests("HIRQ-1", issued)' = 1 /\ Requests("HIRQ-1", pending)' = Requests("HIRQ-1", pending)
    BY <1>1, <2>3 DEF Requests, Positions
  <2>5. Unread' = Unread + 1 /\ Unread \in Nat /\ Unread <= 1
    BY <2>2, <2>4, <1>4, UnreadTypes DEF Unread, Reads
  <2>6. Irq.at \in Apart \/ Unread = 0
    <3>1. CASE Irq.at = "none"
      BY <3>1, <2>2, UnreadTypes DEF Awake, Unread
    <3>2. CASE Irq.at = "writing"
      BY <3>2, <1>4 DEF Reads
    <3>3. CASE Irq.at \notin {"none", "writing"}
      <4>1. Irq.at \in Stages \cup {"asleep"} /\ Irq.at \in IrqPlaces
        BY <3>3, WhoRuns, TypeParts DEF ReceivePacket, Computing, ThreadsOK
      <4>2. Irq.at = "sent"
        BY <4>1, <3>3 DEF IrqPlaces, Stages, After
      <4> QED
        BY <4>2 DEF Apart
    <3> QED
      BY <3>1, <3>2, <3>3
  <2> QED
    BY <1>1, <2>1, <2>4, <2>5, <2>6 DEF Reads, Apart
<1> QED
  BY <1>3, <1>4

LEMMA FinishedTransmittingReads ==
  ASSUME TypeOK, Reads, NEW k \in DOMAIN transmit, FinishedTransmitting(k)
  PROVE  Reads'
<1>1. UNCHANGED <<pending, th, receiving>> /\ Irq' = Irq /\ issued' = Append(issued, [service |-> "HIRQ-6", info |-> cur])
  BY DEF FinishedTransmitting, Irq
<1>2. issued \in Seq(Request) /\ cur \in Infos
  BY TypeParts DEF RequestOK, ThreadsOK
<1>3. Requests("HIRQ-1", issued') = Requests("HIRQ-1", issued)
  <2>1. [service |-> "HIRQ-6", info |-> cur] \in Request
    BY <1>2 DEF Request
  <2>2. Requests("HIRQ-1", issued') = Requests("HIRQ-1", issued) + One("HIRQ-6" = "HIRQ-1")
    BY <1>1, <1>2, <2>1, RequestsAppend
  <2>3. Requests("HIRQ-1", issued) \in Nat /\ One("HIRQ-6" = "HIRQ-1") = 0
    BY UnreadTypes DEF One
  <2> QED
    BY <2>2, <2>3
<1> QED
  BY <1>1, <1>3, ReadsKept

(* The interrupt that starts is for a request of HIRQ-1, or is a SendDone. *)
LEMMA InterruptReads ==
  ASSUME TypeOK, Reads, NEW ir \in Request, Interrupt(ir, th["main"]), receiving' = receiving,
         Irq.at \in {"none", "return"},
         Requests("HIRQ-1", issued') \in Nat, Requests("HIRQ-1", issued') <= 1,
         Requests("HIRQ-1", pending') \in Nat,
         Unread = Requests("HIRQ-1", issued') + Requests("HIRQ-1", pending') + One(ir.service = "HIRQ-1")
  PROVE  Reads'
<1>1. Unread' = Requests("HIRQ-1", issued') + Requests("HIRQ-1", pending')
      /\ Requests("HIRQ-1", issued)' = Requests("HIRQ-1", issued')
  BY DEF Unread, Requests, Positions
<1>2. Unread <= 2 /\ (~receiving => Unread <= 1) /\ Unread \in Nat
  BY UnreadTypes DEF Reads
<1>3. CASE ir.service = "HIRQ-1"
  <2>1. Irq'.at = "writing"
    BY <1>3, InterruptType
  <2>2. Unread = Unread' + 1 /\ Unread' \in Nat
    BY <1>1, <1>3 DEF One
  <2>3. Unread' <= 1 /\ (~receiving => Unread' = 0)
    <3> DEFINE u == Unread
               v == Unread'
    <3>1. u = v + 1 /\ v \in Nat /\ u <= 2 /\ (~receiving => u <= 1)
      BY <2>2, <1>2
    <3> HIDE DEF u, v
    <3>2. v <= 1 /\ (u <= 1 => v = 0)
      BY <3>1
    <3> QED
      BY <3>1, <3>2 DEF v
  <2> QED
    BY <2>1, <2>3, <1>1 DEF Reads
<1>4. CASE ir.service # "HIRQ-1"
  <2>1. Irq'.at = "sendDone"
    BY <1>4, InterruptType
  <2>2. Unread = Unread' /\ Unread' \in Nat
    BY <1>1, <1>4 DEF One
  <2> QED
    BY <2>1, <2>2, <1>1, <1>2 DEF Reads
<1> QED
  BY <1>3, <1>4

LEMMA IssueInterruptReads ==
  ASSUME TypeOK, Awake, Reads, NEW k \in DOMAIN issued, IssueInterrupt(k)
  PROVE  Reads'
<1>1. issued \in Seq(Request) /\ pending \in Seq(Request) /\ issued[k] \in Request
      /\ issued' = RemoveAt(issued, k) /\ receiving' = receiving
  BY TypeParts, Shortened DEF RequestOK, IssueInterrupt
<1> DEFINE o == One(issued[k].service = "HIRQ-1")
           e == Requests("HIRQ-1", issued)
           e1 == Requests("HIRQ-1", issued')
           f == Requests("HIRQ-1", pending)
           f1 == Requests("HIRQ-1", pending')
<1>2. e1 \in Nat /\ e = e1 + o /\ o \in {0, 1} /\ f \in Nat /\ e <= 1 /\ e \in Nat
  <2>1. e1 \in Nat /\ e = e1 + o
    BY <1>1, RequestsRemove
  <2>2. o \in {0, 1}
    BY OneType, Zenon
  <2>3. f \in Nat /\ e <= 1 /\ e \in Nat
    BY UnreadTypes DEF Reads
  <2> QED
    BY <2>1, <2>2, <2>3
<1>3. Unread = e + f
  BY DEF Unread
<1>4. Unread' = e1 + f1 /\ Requests("HIRQ-1", issued)' = e1
  BY DEF Unread, Requests, Positions
<1>5. CASE th["irq"].at = "none"
  <2>1. Interrupt(issued[k], th["main"]) /\ pending' = pending
    BY <1>5 DEF IssueInterrupt
  <2>2. f1 \in Nat /\ e1 <= 1 /\ Unread = e1 + f1 + o
    <3>1. f1 = f
      BY <2>1
    <3> HIDE DEF e, e1, f, f1, o
    <3> QED
      BY <3>1, <1>2, <1>3
  <2>3. Irq.at = "none"
    BY <1>5 DEF Irq
  <2> QED
    BY <1>1, <1>2, <2>1, <2>2, <2>3, InterruptReads
<1>6. CASE th["irq"].at # "none"
  <2>1. /\ pending' = (IF Len(pending) < QueueSize THEN Append(pending, issued[k]) ELSE pending)
        /\ th' = th
    BY <1>6 DEF IssueInterrupt
  <2>2. Requests("HIRQ-1", Append(pending, issued[k])) = f + o
    BY <1>1, RequestsAppend
  <2>3. f1 = f + o \/ f1 = f
    BY <2>1, <2>2
  <2>4. e1 <= 1 /\ Unread' <= Unread /\ Unread' \in Nat /\ Unread \in Nat
    <3> HIDE DEF e, e1, f, f1, o
    <3> QED
      BY <1>2, <1>3, <1>4, <2>3
  <2>5. Irq' = Irq
    BY <2>1 DEF Irq
  <2> QED
    BY <1>1, <1>4, <2>4, <2>5 DEF Reads
<1> QED
  BY <1>5, <1>6

LEMMA EndOfInterruptReads ==
  ASSUME TypeOK, Awake, Reads, EndOfInterrupt
  PROVE  Reads'
<1>1. pending \in Seq(Request) /\ issued' = issued /\ receiving' = receiving /\ Irq.at = "return"
  BY TypeParts, WhoRuns DEF RequestOK, EndOfInterrupt, At
<1> DEFINE e == Requests("HIRQ-1", issued)
           f == Requests("HIRQ-1", pending)
           f1 == Requests("HIRQ-1", pending')
<1>2. e \in Nat /\ f \in Nat /\ Unread = e + f /\ e <= 1
  BY UnreadTypes DEF Unread, Reads
<1>3. CASE pending # <<>>
  <2> DEFINE o == One(Head(pending).service = "HIRQ-1")
  <2>1. Interrupt(Head(pending), th["main"]) /\ pending' = Tail(pending)
    BY <1>3 DEF EndOfInterrupt
  <2>2. 1 \in DOMAIN pending /\ Head(pending) = pending[1] /\ Head(pending) \in Request
        /\ Tail(pending) = RemoveAt(pending, 1)
    BY <1>1, <1>3, TailRemoves
  <2>3. f1 \in Nat /\ f = f1 + o
    <3>1. /\ Requests("HIRQ-1", RemoveAt(pending, 1)) \in Nat
          /\ Requests("HIRQ-1", pending) = Requests("HIRQ-1", RemoveAt(pending, 1)) + One(pending[1].service = "HIRQ-1")
      BY <1>1, <2>2, RequestsRemove
    <3>2. pending' = RemoveAt(pending, 1)
      BY <2>1, <2>2
    <3> QED
      BY <3>1, <3>2, <2>2
  <2>4. Unread = e + f1 + o
    <3>1. o \in Nat
      BY DEF One
    <3> HIDE DEF e, f, f1, o
    <3> QED
      BY <1>2, <2>3, <3>1
  <2>5. Requests("HIRQ-1", issued') = e
    BY <1>1
  <2> QED
    BY <1>1, <1>2, <2>1, <2>2, <2>3, <2>4, <2>5, InterruptReads
<1>4. CASE pending = <<>>
  <2>1. Irq' = [at |-> "none", info |-> 0] /\ pending' = pending
    BY <1>4 DEF EndOfInterrupt, Irq, Both, Threads
  <2>2. f = 0
    BY <1>4, RequestsNone
  <2>3. Unread' = Unread /\ Unread <= 1 /\ Requests("HIRQ-1", issued)' = e
    BY <1>1, <1>2, <2>1, <2>2 DEF Unread, Requests, Positions
  <2> QED
    BY <1>2, <2>1, <2>3 DEF Reads
<1> QED
  BY <1>3, <1>4

LEMMA NextReads ==
  ASSUME ~IsFiniteSet(Infos), TypeOK, Awake, Reads, Fifo, [Next]_vars
  PROVE  Reads'
<1>0. here \in Infos
  BY WhoRuns
<1>1. ASSUME NEW p \in Packets, SendPacket(p) PROVE Reads'
  BY <1>1, SamePlaceReads DEF SendPacket, cpu, Irq
<1>2. CASE ReceivePacket
  BY <1>2, ReceivePacketReads
<1>3. ASSUME NEW k \in DOMAIN transmit, Retry(k) PROVE Reads'
  BY <1>3, SamePlaceReads DEF Retry, cpu, Irq
<1>4. ASSUME NEW k \in DOMAIN transmit, FinishedTransmitting(k) PROVE Reads'
  BY <1>4, FinishedTransmittingReads
<1>5. ASSUME NEW k \in DOMAIN issued, IssueInterrupt(k) PROVE Reads'
  BY <1>5, IssueInterruptReads
<1>6. CASE StageDone
  <2>1. PICK p \in Stages : At(p) /\ Moved(After[p], here)
    BY <1>6, StageDoneType
  <2>2. /\ After[p] \in Places /\ After[p] # "writing" /\ th[Running].at = p
        /\ p \notin Apart \/ After[p] \in Apart
    BY <2>1 DEF At, After, Stages, Places, MainPlaces, IrqPlaces, Apart
  <2>3. issued' = issued /\ pending' = pending /\ receiving' = receiving
    BY <1>6 DEF StageDone
  <2> QED
    BY <1>0, <2>1, <2>2, <2>3, MovedReads
<1>7. CASE Dequeue
  BY <1>7, DequeueType, SamePlaceReads DEF Dequeue
<1>8. CASE Return
  BY <1>8, ReturnType, SamePlaceReads DEF Return
<1>9. CASE ReadDonePayload
  <2>1. Moved("check", here) /\ th[Running].at = "readDone" /\ issued' = issued /\ pending' = pending
    BY <1>9, ReadDonePayloadType DEF ReadDonePayload, At
  <2> QED
    BY <2>1, <1>0, Places1, MovedReads DEF Apart
<1>10. CASE CheckIfPacketCollided
  <2>1. issued' = issued /\ pending' = pending /\ receiving' = receiving /\ th[Running].at = "check"
    BY <1>10 DEF CheckIfPacketCollided, At
  <2>2. CASE state.collided
    <3>1. Moved("readNext", here)
      BY <1>10, <2>2, CheckIfPacketCollidedType
    <3> QED
      BY <3>1, <2>1, <1>0, Places1, MovedReads DEF Apart
  <2>3. CASE ~state.collided
    <3>1. \/ Irq' = Irq
          \/ Irq'.at = "return" /\ Irq.at = "check"
      BY <1>10, <2>1, <2>3, CheckIfPacketCollidedType, WhoRuns
    <3>2. Irq'.at \in Apart \/ Irq.at \notin Apart
      BY <3>1 DEF Apart
    <3>3. Irq'.at = "writing" => receiving' \/ (Irq.at = "writing" /\ ~receiving)
      BY <3>1, <2>1
    <3> QED
      BY <3>2, <3>3, <2>1, ReadsKept
  <2> QED
    BY <2>2, <2>3
<1>11. CASE ReadNextPacketInRxfifo
  <2>1. issued' = issued /\ pending' = pending /\ receiving' = receiving /\ th[Running].at = "readNext"
    BY <1>11 DEF ReadNextPacketInRxfifo, At
  <2>2. CASE rxfifo = <<>>
    <3>1. Moved("return", here)
      BY <1>11, <2>2, ReadNextPacketInRxfifoType
    <3> QED
      BY <3>1, <2>1, <1>0, Places1, MovedReads DEF Apart
  <2>3. CASE rxfifo # <<>>
    <3>1. Moved("writing", Fresh) /\ receiving /\ Fresh \in Infos
      BY <1>11, <2>3, ReadNextPacketInRxfifoType, FreshInfo DEF Fifo
    <3> QED
      BY <3>1, <2>1, <1>0, Places1, MovedReads DEF Apart
  <2> QED
    BY <2>2, <2>3
<1>12. CASE ReceiveDoneTask
  <2>1. issued' = issued /\ pending' = pending /\ th[Running].at = "receive"
    BY <1>12 DEF ReceiveDoneTask, At
  <2>2. Moved("receiveDone", here)
    BY <1>12, ReceiveDoneTaskType
  <2> QED
    BY <2>1, <2>2, <1>0, Places1, MovedReads DEF Apart
<1>13. CASE IpaqFull
  <2> DEFINE p == IF state.full THEN "dropping" ELSE "queueing"
  <2>1. issued' = issued /\ pending' = pending /\ receiving' = receiving /\ th[Running].at = "ipaqFull"
    BY <1>13 DEF IpaqFull, At
  <2>2. Moved(p, here) /\ p \in {"dropping", "queueing"}
    BY <1>13, IpaqFullType
  <2> HIDE DEF p
  <2> QED
    BY <2>1, <2>2, <1>0, Places1, MovedReads DEF Apart
<1>14. CASE PostSendTask
  <2>1. issued' = issued /\ pending' = pending /\ receiving' = receiving /\ th[Running].at = "post"
    BY <1>14 DEF PostSendTask, At
  <2>2. Moved("readNext", here)
    BY <1>14, PostSendTaskType
  <2> QED
    BY <2>1, <2>2, <1>0, Places1, MovedReads DEF Apart
<1>15. CASE SendTask
  <2>1. issued' = issued /\ pending' = pending /\ receiving' = receiving /\ th[Running].at = "sendTask"
    BY <1>15 DEF SendTask, At
  <2>2. Moved("return", here) \/ Moved("loading", here)
    BY <1>15, SendTaskType
  <2> QED
    BY <2>1, <2>2, <1>0, Places1, MovedReads DEF Apart
<1>16. CASE WrittenToTxFifo
  <2>1. issued' = issued /\ pending' = pending /\ receiving' = receiving /\ th[Running].at = "written"
    BY <1>16 DEF WrittenToTxFifo, At
  <2>2. Moved("transmitting", here)
    BY <1>16, WrittenToTxFifoType
  <2> QED
    BY <2>1, <2>2, <1>0, Places1, MovedReads DEF Apart
<1>17. CASE SendDone
  <2>1. issued' = issued /\ pending' = pending /\ receiving' = receiving
    BY <1>17 DEF SendDone
  <2>2. Irq'.at = "sent"
    BY <1>17, SendDoneType
  <2> QED
    BY <2>1, <2>2, ReadsKept DEF Apart
<1>18. CASE EndOfInterrupt
  BY <1>18, EndOfInterruptReads
<1>19. CASE UNCHANGED vars
  BY <1>19, SamePlaceReads DEF vars, cpu, Irq
<1> QED
  BY <1>1, <1>2, <1>3, <1>4, <1>5, <1>6, <1>7, <1>8, <1>9, <1>10, <1>11, <1>12, <1>13, <1>14, <1>15, <1>16,
     <1>17, <1>18, <1>19 DEF Next, Statement

(* Counting transmissions and collisions does not touch the FIFO. *)
LEMMA SameFifo ==
  ASSUME TypeOK, Fifo, rxfifo' = rxfifo, receiving' = receiving,
         radio'.overflow => radio.overflow /\ radio'.bytes = radio.bytes
  PROVE  Fifo'
BY DEF Fifo

LEMMA CountedRadio ==
  ASSUME NEW r \in RadioType
  PROVE  /\ LET s == [r EXCEPT !.nr = @ + 1, !.collision = @ \/ r.nr > 0] IN s.overflow = r.overflow /\ s.bytes = r.bytes
         /\ LET s == [r EXCEPT !.nr = @ - 1] IN s.overflow = r.overflow /\ s.bytes = r.bytes
         /\ Cleared(r).overflow = r.overflow /\ Cleared(r).bytes = r.bytes
         /\ r.overflow /\ r.bytes > 0 => ~Flushed(r).overflow
         /\ ~(r.overflow /\ r.bytes > 0) => Flushed(r) = r
BY DEF RadioType, Cleared, Flushed

LEMMA WrittenFifo ==
  ASSUME TypeOK, Fifo, NEW p, NEW rest, Written(p, rest), rxfifo' = rxfifo, receiving' = receiving
  PROVE  Fifo'
<1>1. radio \in RadioType
  BY TypeParts DEF RadioOK
<1>2. radio' = radio \/ radio' = [radio EXCEPT !.nr = @ + 1, !.collision = @ \/ radio.nr > 0]
  BY Zenon DEF Written
<1>3. radio'.overflow = radio.overflow /\ radio'.bytes = radio.bytes
  BY <1>1, <1>2, CountedRadio, Zenon
<1> QED
  BY <1>3, SameFifo

(* After a packet is read, no packet waits unless one is received. *)
LEMMA RestFifo ==
  ASSUME TypeOK, Fifo, NEW r \in RadioType, Rest(r), rxfifo' = rxfifo,
         r.overflow => receiving /\ r.bytes > 0
  PROVE  Fifo'
<1>1. receiving' = (receiving /\ rxfifo # <<>>) /\ radio' = IF rxfifo = <<>> THEN Flushed(r) ELSE r
  BY DEF Rest
<1>2. CASE rxfifo = <<>>
  <2>1. ~radio'.overflow
    <3>1. CASE r.overflow /\ r.bytes > 0
      BY <3>1, <1>1, <1>2, CountedRadio
    <3>2. CASE ~(r.overflow /\ r.bytes > 0)
      BY <3>2, <1>1, <1>2, CountedRadio
    <3> QED
      BY <3>1, <3>2
  <2> QED
    BY <2>1, <1>2 DEF Fifo
<1>3. CASE rxfifo # <<>>
  <2>1. radio' = r /\ receiving
    BY <1>1, <1>3 DEF Fifo
  <2>2. receiving' = receiving
    BY <1>1, <1>3, <2>1, TypeParts DEF RadioOK
  <2> QED
    BY <2>1, <2>2 DEF Fifo
<1> QED
  BY <1>2, <1>3

LEMMA ReceivePacketFifo ==
  ASSUME TypeOK, Fifo, ReceivePacket
  PROVE  Fifo'
<1> DEFINE over == Overflows(air)
           now  == Cleared([radio EXCEPT !.nr = @ - 1])
<1>1. radio \in RadioType /\ air \in Packets /\ cur \in Infos /\ rxfifo \in Seq(Info)
  BY TypeParts DEF RadioOK, MediumOK, ReceivePacket, ThreadsOK, QueuesOK
<1>2. now \in RadioType /\ now.overflow = radio.overflow /\ now.bytes = radio.bytes
  <2>1. [radio EXCEPT !.nr = @ - 1] \in RadioType
    BY <1>1, RadioSteps, Zenon
  <2> QED
    BY <1>1, <2>1, RadioSteps, CountedRadio, Zenon
<1>3. CASE radio.overflow
  <2>1. radio' = now /\ rxfifo' = rxfifo /\ receiving' = receiving
    BY <1>3 DEF ReceivePacket
  <2> HIDE DEF now
  <2> QED
    BY <2>1, <1>2, SameFifo
<1>4. CASE ~radio.overflow
  <2>1. /\ radio' = [now EXCEPT !.overflow = over,
                                !.bytes = IF over THEN FifoSize ELSE (now.bytes + size[air]) % Modulus]
        /\ Store(air, cur)
    BY <1>4 DEF ReceivePacket
  <2>2. receiving' = TRUE
    BY <2>1, <1>1, StoreType
  <2>3. radio'.overflow => radio'.bytes > 0
    <3> HIDE DEF now, over
    <3>1. radio'.overflow = over /\ (over => radio'.bytes = FifoSize)
      BY <2>1, <1>2 DEF RadioType
    <3>2. FifoSize > 0
      BY MoteAssumption
    <3> QED
      BY <3>1, <3>2
  <2>4. ASSUME NEW k \in DOMAIN rxfifo'
        PROVE  rxfifo'[k].targets["readdonepayload"] # None
    <3>1. CASE receiving
      <4> DEFINE y == [Registered(cur, "readdonepayload", air) EXCEPT !.packet = air]
      <4>1. rxfifo' = Append(rxfifo, y)
        BY <2>1, <3>1 DEF Store
      <4>2. y \in Info
        BY <1>1, InfoTypes, TriggerNames
      <4>3. y.targets["readdonepayload"] = air /\ air # None
        <5>1. infos[cur] \in Info /\ infos[cur].targets \in [Triggers -> Packets \cup {None}]
          BY <1>1, InfoTypes
        <5>2. "readdonepayload" \in Triggers
          BY TriggerNames
        <5> QED
          BY <5>1, <5>2 DEF Registered, Info, ReceivePacket
      <4> HIDE DEF y
      <4>4. \/ k \in DOMAIN rxfifo /\ rxfifo'[k] = rxfifo[k]
            \/ rxfifo'[k] = y
        BY <4>1, <4>2, <1>1
      <4> QED
        BY <4>3, <4>4 DEF Fifo
    <3>2. CASE ~receiving
      <4>1. rxfifo' = rxfifo
        BY <2>1, <3>2 DEF Store
      <4> QED
        BY <4>1 DEF Fifo
    <3> QED
      BY <3>1, <3>2
  <2> QED
    BY <2>2, <2>3, <2>4 DEF Fifo
<1> QED
  BY <1>3, <1>4

LEMMA ReadDonePayloadFifo ==
  ASSUME TypeOK, Fifo, ReadDonePayload
  PROVE  Fifo'
<1> DEFINE p == Target("readdonepayload")
<1>1. p \in Packets \cup {None} /\ (p # None => p \in Packets) /\ rxfifo' = rxfifo
  BY TargetType, TriggerNames DEF ReadDonePayload, queues
<1>2. CASE p = None
  BY <1>1, <1>2, SameFifo DEF ReadDonePayload
<1>3. CASE p # None
  <2>1. ReadOut(p) \in RadioType /\ (ReadOut(p).overflow => radio.overflow /\ ReadOut(p).bytes > 0)
    BY <1>1, <1>3, ReadOutType
  <2>2. Rest(ReadOut(p)) \/ (radio' = ReadOut(p) /\ receiving' = receiving)
    BY <1>3 DEF ReadDonePayload
  <2> HIDE DEF p
  <2>3. ReadOut(p).overflow => receiving /\ ReadOut(p).bytes > 0
    BY <2>1 DEF Fifo
  <2>4. CASE Rest(ReadOut(p))
    BY <2>1, <2>3, <2>4, <1>1, RestFifo
  <2>5. CASE radio' = ReadOut(p) /\ receiving' = receiving
    BY <2>3, <2>5, <1>1 DEF Fifo
  <2> QED
    BY <2>2, <2>4, <2>5
<1> QED
  BY <1>2, <1>3

LEMMA NextFifo ==
  ASSUME ~IsFiniteSet(Infos), TypeOK, Awake, Fifo, [Next]_vars
  PROVE  Fifo'
<1>0. radio \in RadioType /\ rxfifo \in Seq(Info)
  BY TypeParts DEF RadioOK, QueuesOK
<1>1. ASSUME NEW p \in Packets, SendPacket(p) PROVE Fifo'
  <2>1. radio' = radio \/ radio' = [radio EXCEPT !.nr = @ + 1, !.collision = @ \/ radio.nr > 0]
    BY <1>1, Zenon DEF SendPacket
  <2>2. radio'.overflow = radio.overflow /\ radio'.bytes = radio.bytes
    BY <2>1, <1>0, CountedRadio, Zenon
  <2> QED
    BY <2>2, <1>1, SameFifo DEF SendPacket, queues
<1>2. CASE ReceivePacket
  BY <1>2, ReceivePacketFifo
<1>3. ASSUME NEW k \in DOMAIN transmit, Retry(k) PROVE Fifo'
  BY <1>3, WrittenFifo DEF Retry, queues
<1>4. ASSUME NEW k \in DOMAIN transmit, FinishedTransmitting(k) PROVE Fifo'
  <2>1. radio' = Cleared([radio EXCEPT !.nr = @ - 1]) /\ rxfifo' = rxfifo /\ receiving' = receiving
    BY <1>4 DEF FinishedTransmitting, queues
  <2>2. [radio EXCEPT !.nr = @ - 1] \in RadioType
    BY <1>0, RadioSteps, Zenon
  <2>3. radio'.overflow = radio.overflow /\ radio'.bytes = radio.bytes
    BY <2>1, <2>2, <1>0, CountedRadio, Zenon
  <2> QED
    BY <2>1, <2>3, SameFifo
<1>5. CASE ReadDonePayload
  BY <1>5, ReadDonePayloadFifo
<1>6. CASE ReceiveDoneTask
  <2>1. rxfifo' = rxfifo
    BY <1>6 DEF ReceiveDoneTask, queues
  <2>2. Rest(radio) \/ UNCHANGED <<radio, receiving>>
    BY <1>6 DEF ReceiveDoneTask
  <2>3. radio.overflow => receiving /\ radio.bytes > 0
    BY DEF Fifo
  <2> QED
    BY <2>1, <2>2, <2>3, <1>0, RestFifo, SameFifo
<1>7. CASE ReadNextPacketInRxfifo
  <2>1. radio' = radio /\ receiving' = receiving
    BY <1>7 DEF ReadNextPacketInRxfifo
  <2>2. CASE rxfifo = <<>>
    BY <1>7, <2>1, <2>2, ReadNextPacketInRxfifoType, SameFifo
  <2>3. CASE rxfifo # <<>>
    <3>1. rxfifo' = RemoveAt(rxfifo, 1) /\ 1 \in DOMAIN rxfifo
      BY <1>7, <2>3, <1>0, ReadNextPacketInRxfifoType, TailRemoves
    <3>2. \A k \in DOMAIN rxfifo' : k + 1 \in DOMAIN rxfifo /\ rxfifo'[k] = rxfifo[k + 1]
      <4>1. /\ Len(rxfifo) \in Nat \ {0} /\ DOMAIN rxfifo = 1 .. Len(rxfifo)
            /\ DOMAIN RemoveAt(rxfifo, 1) = 1 .. Len(rxfifo) - 1
            /\ \A k \in 1 .. Len(rxfifo) - 1 : RemoveAt(rxfifo, 1)[k] = IF k < 1 THEN rxfifo[k] ELSE rxfifo[k + 1]
        BY <3>1, <1>0, Shortened
      <4>2. \A k \in 1 .. Len(rxfifo) - 1 : ~(k < 1) /\ k + 1 \in 1 .. Len(rxfifo)
        BY <4>1
      <4> QED
        BY <3>1, <4>1, <4>2
    <3> QED
      BY <2>1, <2>3, <3>2 DEF Fifo
  <2> QED
    BY <2>2, <2>3
<1>8. CASE WrittenToTxFifo
  <2>1. rxfifo' = rxfifo /\ receiving' = receiving
    BY <1>8 DEF WrittenToTxFifo, queues
  <2>2. radio' = radio \/ Written(Target("writtentotxfifo"), transmit)
    BY <1>8 DEF WrittenToTxFifo
  <2> QED
    BY <2>1, <2>2, WrittenFifo, SameFifo
<1>9. ASSUME rxfifo' = rxfifo, receiving' = receiving, radio' = radio PROVE Fifo'
  BY <1>9, SameFifo
<1>10. ASSUME NEW k \in DOMAIN issued, IssueInterrupt(k) PROVE Fifo'
  BY <1>9, <1>10 DEF IssueInterrupt, queues
<1>11. CASE StageDone \/ Dequeue \/ Return \/ CheckIfPacketCollided \/ IpaqFull \/ PostSendTask
  BY <1>9, <1>11 DEF StageDone, Dequeue, Return, CheckIfPacketCollided, IpaqFull, PostSendTask, queues
<1>12. CASE SendTask \/ SendDone \/ EndOfInterrupt
  BY <1>9, <1>12 DEF SendTask, SendDone, EndOfInterrupt, queues
<1>13. CASE UNCHANGED vars
  BY <1>9, <1>13 DEF vars, queues
<1> QED
  BY <1>1, <1>2, <1>3, <1>4, <1>5, <1>6, <1>7, <1>8, <1>10, <1>11, <1>12, <1>13 DEF Next, Statement

-----------------------------------------------------------------------------
(* While receivingPacket is set, the next packet only goes to rxfifo; somebody must   *)
(* come to clear it. Either the main thread or an interrupt is on its way to          *)
(* read-next-packet-in-rxfifo and finds a packet there, or the callback of some info  *)
(* that clears it, or hands over to one that does, is still to come.                  *)

Heading == {"receiveDone", "ipaqFull", "dropping", "queueing", "post", "readNext"}
Heads(t) == t.at \in Heading \/ (t.at = "check" /\ state.collided)

Asked(i)  == \/ Contains(issued, [service |-> "HIRQ-1", info |-> i])
             \/ Contains(pending, [service |-> "HIRQ-1", info |-> i])
Posted(i) == Contains(tasks, [service |-> "receive", info |-> i])

Works(t, i) ==
  /\ t.info = i
  /\ \/ t.at \in {"writing", "readDone"} /\ Callback(i, "readdonepayload") # None
     \/ t.at = "receive" /\ Callback(i, "receivedone") # None
     \/ t.at = "check" /\ ~state.collided /\ Callback(i, "receivedone") # None

Agent(i) ==
  \/ Works(Main, i) \/ Works(Irq, i)
  \/ Asked(i) /\ Callback(i, "readdonepayload") # None
  \/ Posted(i) /\ Callback(i, "receivedone") # None

Progress ==
  receiving => \/ rxfifo # <<>> /\ (Heads(Main) \/ Heads(Irq))
               \/ \E i \in Infos : Agent(i)

LEMMA ContainsAppend ==
  ASSUME NEW S, NEW q \in Seq(S), NEW y \in S
  PROVE  Contains(Append(q, y), y) /\ \A x : Contains(q, x) => Contains(Append(q, y), x)
<1>1. /\ DOMAIN q = 1 .. Len(q) /\ Len(q) \in Nat /\ DOMAIN Append(q, y) = 1 .. Len(q) + 1
      /\ \A i \in DOMAIN q : Append(q, y)[i] = q[i]
      /\ Append(q, y)[Len(q) + 1] = y
  OBVIOUS
<1>2. /\ Len(Append(q, y)) = Len(q) + 1 /\ Len(q) + 1 \in 1 .. Len(Append(q, y))
      /\ \A i \in 1 .. Len(q) : i \in DOMAIN q /\ i \in 1 .. Len(Append(q, y))
  BY <1>1, Appending
<1> QED
  BY <1>1, <1>2, Zenon DEF Contains

LEMMA ContainsRemove ==
  ASSUME NEW S, NEW q \in Seq(S), NEW i \in DOMAIN q
  PROVE  \A x : Contains(q, x) => Contains(RemoveAt(q, i), x) \/ x = q[i]
<1> SUFFICES ASSUME NEW x, NEW k \in 1 .. Len(q), q[k] = x, x # q[i]
             PROVE  \E j \in 1 .. Len(RemoveAt(q, i)) : RemoveAt(q, i)[j] = x
  BY DEF Contains
<1>1. /\ Len(q) \in Nat \ {0} /\ DOMAIN q = 1 .. Len(q) /\ i \in 1 .. Len(q)
      /\ Len(RemoveAt(q, i)) = Len(q) - 1
      /\ \A j \in 1 .. Len(q) - 1 : RemoveAt(q, i)[j] = IF j < i THEN q[j] ELSE q[j + 1]
  BY Shortened
<1>2. CASE k < i
  <2>1. k \in 1 .. Len(q) - 1
    BY <1>1, <1>2
  <2> QED
    BY <2>1, <1>1, <1>2
<1>3. CASE ~(k < i)
  <2>1. k # i
    OBVIOUS
  <2>2. k - 1 \in 1 .. Len(q) - 1 /\ ~(k - 1 < i) /\ (k - 1) + 1 = k
    BY <2>1, <1>1, <1>3
  <2>3. RemoveAt(q, i)[k - 1] = q[(k - 1) + 1]
    BY <2>2, <1>1
  <2> QED
    BY <2>2, <2>3, <1>1
<1> QED
  BY <1>2, <1>3

(* The info of whoever still has something to read is in use. *)
LEMMA AgentUsed ==
  ASSUME TypeOK, NEW i \in Infos, Agent(i)
  PROVE  i \in Used
<1>1. \A q, s : DOMAIN q = 1 .. Len(q) /\ Contains(q, [service |-> s, info |-> i]) => i \in Held(q)
  BY DEF Contains, Held
<1>2. DOMAIN issued = 1 .. Len(issued) /\ DOMAIN pending = 1 .. Len(pending) /\ DOMAIN tasks = 1 .. Len(tasks)
  BY TypeParts DEF RequestOK, TasksOK
<1>3. Asked(i) => i \in Held(issued) \/ i \in Held(pending)
  BY <1>1, <1>2, Zenon DEF Asked
<1>4. Posted(i) => i \in Held(tasks)
  BY <1>1, <1>2, Zenon DEF Posted
<1> QED
  BY <1>3, <1>4 DEF Agent, Works, Used, Main, Irq

(* The callbacks to read a packet stay registered. *)
Registers ==
  \A i \in Infos \cap Used : \A t \in {"readdonepayload", "receivedone"} :
     Callback(i, t) # None => infos'[i].targets[t] # None

LEMMA RegistersAgain ==
  ASSUME Registers, NEW i \in Infos \cap Used, NEW t \in {"readdonepayload", "receivedone"}, Callback(i, t) # None
  PROVE  Callback(i, t)' # None
BY DEF Registers, Callback

LEMMA SteadyProgress ==
  ASSUME TypeOK, Progress, Registers, receiving' => receiving,
         rxfifo # <<>> => rxfifo' # <<>> /\ (Heads(Main) => Heads(Main)') /\ (Heads(Irq) => Heads(Irq)'),
         \A i \in Infos : Works(Main, i) => Agent(i)',
         \A i \in Infos : Works(Irq, i) => Agent(i)',
         \A i \in Infos : Asked(i) => Asked(i)' \/ (Irq'.at = "writing" /\ Irq'.info = i),
         \A i \in Infos : Posted(i) => Posted(i)' \/ (Main'.at = "receive" /\ Main'.info = i)
  PROVE  Progress'
<1> SUFFICES ASSUME receiving'
             PROVE  \/ rxfifo' # <<>> /\ (Heads(Main)' \/ Heads(Irq)')
                    \/ \E i \in Infos : Agent(i)'
  BY DEF Progress
<1>1. CASE rxfifo # <<>> /\ (Heads(Main) \/ Heads(Irq))
  BY <1>1
<1>2. CASE \E i \in Infos : Agent(i)
  <2>1. PICK i \in Infos : Agent(i)
    BY <1>2
  <2>2. i \in Used
    BY <2>1, AgentUsed
  <2>3. CASE Works(Main, i) \/ Works(Irq, i)
    BY <2>3
  <2>4. CASE Asked(i) /\ Callback(i, "readdonepayload") # None
    <3>1. Callback(i, "readdonepayload")' # None
      BY <2>2, <2>4, RegistersAgain
    <3>2. CASE Asked(i)'
      BY <3>1, <3>2 DEF Agent
    <3>3. CASE Irq'.at = "writing" /\ Irq'.info = i
      BY <3>1, <3>3 DEF Agent, Works
    <3> QED
      BY <2>4, <3>2, <3>3
  <2>5. CASE Posted(i) /\ Callback(i, "receivedone") # None
    <3>1. Callback(i, "receivedone")' # None
      BY <2>2, <2>5, RegistersAgain
    <3>2. CASE Posted(i)'
      BY <3>1, <3>2 DEF Agent
    <3>3. CASE Main'.at = "receive" /\ Main'.info = i
      BY <3>1, <3>3 DEF Agent, Works
    <3> QED
      BY <2>5, <3>2, <3>3
  <2> QED
    BY <2>1, <2>3, <2>4, <2>5 DEF Agent
<1> QED
  BY <1>1, <1>2 DEF Progress

(* A thread that does not move has the same to do. *)
LEMMA SameMain ==
  ASSUME TypeOK, Registers, state'.collided = state.collided, Main' = Main \/ Main' = Thread(Main)
  PROVE  (Heads(Main) => Heads(Main)') /\ \A i \in Infos : Works(Main, i) => Agent(i)'
<1>1. /\ Main \in ThreadType /\ Main'.info = Main.info
      /\ Main.at # "asleep" => Main' = Main
  BY WhoRuns, Woken
<1>2. Heads(Main) => Heads(Main)'
  BY <1>1 DEF Heads, Heading
<1>3. ASSUME NEW i \in Infos, Works(Main, i)
      PROVE  Agent(i)'
  <2>1. Main' = Main /\ i \in Infos \cap Used
    BY <1>1, <1>3, AgentUsed DEF Works, Agent
  <2>2. \A t \in {"readdonepayload", "receivedone"} : Callback(i, t) # None => Callback(i, t)' # None
    BY <2>1, RegistersAgain
  <2>3. Works(Main, i)'
    BY <2>1, <2>2, <1>3 DEF Works
  <2> QED
    BY <2>3 DEF Agent
<1> QED
  BY <1>2, <1>3

LEMMA SameIrq ==
  ASSUME TypeOK, Registers, state'.collided = state.collided, Irq' = Irq
  PROVE  (Heads(Irq) => Heads(Irq)') /\ \A i \in Infos : Works(Irq, i) => Agent(i)'
<1>2. Heads(Irq) => Heads(Irq)'
  BY DEF Heads, Heading
<1>3. ASSUME NEW i \in Infos, Works(Irq, i)
      PROVE  Agent(i)'
  <2>1. i \in Infos \cap Used
    BY <1>3, AgentUsed DEF Agent
  <2>2. \A t \in {"readdonepayload", "receivedone"} : Callback(i, t) # None => Callback(i, t)' # None
    BY <2>1, RegistersAgain
  <2>3. Works(Irq, i)'
    BY <2>2, <1>3 DEF Works
  <2> QED
    BY <2>3 DEF Agent
<1> QED
  BY <1>2, <1>3

(* The thread that runs moves on and leaves nothing undone. *)
LEMMA MovedProgress ==
  ASSUME TypeOK, Progress, Registers, NEW p \in Places, NEW j \in Infos, Moved(p, j),
         receiving' => receiving, rxfifo # <<>> => rxfifo' # <<>>, state'.collided = state.collided,
         \A i \in Infos : Asked(i) => Asked(i)', \A i \in Infos : Posted(i) => Posted(i)',
         rxfifo # <<>> /\ Heads(th[Running]) => p \in Heading,
         \A i \in Infos : Works(th[Running], i) => Agent(i)'
  PROVE  Progress'
<1>1. ([at |-> p, info |-> j]).at = p
  OBVIOUS
<1>2. CASE Running = "main"
  <2>1. th[Running] = Main /\ Main'.at = p /\ Irq' = Irq
    BY <1>1, <1>2, WhoRuns DEF Moved
  <2>2. rxfifo # <<>> /\ Heads(Main) => Heads(Main)'
    BY <2>1 DEF Heads
  <2>3. (Heads(Irq) => Heads(Irq)') /\ \A i \in Infos : Works(Irq, i) => Agent(i)'
    BY <2>1, SameIrq
  <2>4. \A i \in Infos : Works(Main, i) => Agent(i)'
    BY <2>1
  <2> QED
    BY <2>2, <2>3, <2>4, SteadyProgress
<1>3. CASE Running = "irq"
  <2>1. th[Running] = Irq /\ Irq'.at = p /\ Main' = Main
    BY <1>1, <1>3, WhoRuns DEF Moved
  <2>2. rxfifo # <<>> /\ Heads(Irq) => Heads(Irq)'
    BY <2>1 DEF Heads
  <2>3. (Heads(Main) => Heads(Main)') /\ \A i \in Infos : Works(Main, i) => Agent(i)'
    BY <2>1, SameMain
  <2>4. \A i \in Infos : Works(Irq, i) => Agent(i)'
    BY <2>1
  <2> QED
    BY <2>2, <2>3, <2>4, SteadyProgress
<1> QED
  BY <1>2, <1>3, WhoRuns

(* The thread that runs now does something for j. *)
LEMMA MovedWorks ==
  ASSUME TypeOK, NEW p \in Places, NEW j \in Infos, Moved(p, j),
         \/ p \in {"writing", "readDone"} /\ infos'[j].targets["readdonepayload"] # None
         \/ p = "check" /\ ~state'.collided /\ infos'[j].targets["receivedone"] # None
  PROVE  Agent(j)'
<1>1. ([at |-> p, info |-> j]).at = p /\ ([at |-> p, info |-> j]).info = j
  OBVIOUS
<1>2. (Main'.at = p /\ Main'.info = j) \/ (Irq'.at = p /\ Irq'.info = j)
  BY <1>1, WhoRuns DEF Moved
<1> QED
  BY <1>2 DEF Agent, Works, Callback

LEMMA SameRequests ==
  ASSUME issued' = issued, pending' = pending
  PROVE  \A i \in Infos : Asked(i) => Asked(i)'
BY DEF Asked, Contains

LEMMA SameTasks ==
  ASSUME TypeOK, tasks' = tasks \/ \E y \in Task : tasks' = Append(tasks, y)
  PROVE  \A i \in Infos : Posted(i) => Posted(i)'
<1>1. tasks \in Seq(Task)
  BY TypeParts DEF TasksOK
<1>2. \A x : Contains(tasks, x) => Contains(tasks', x)
  <2>1. CASE tasks' = tasks
    BY <2>1
  <2>2. ASSUME NEW y \in Task, tasks' = Append(tasks, y)
        PROVE  \A x : Contains(tasks, x) => Contains(tasks', x)
    <3>1. \A x : Contains(tasks, x) => Contains(Append(tasks, y), x)
      BY <1>1, ContainsAppend
    <3> QED
      BY <3>1, <2>2
  <2> QED
    BY <2>1, <2>2
<1> QED
  BY <1>2 DEF Posted, Contains

LEMMA SameInfos ==
  ASSUME infos' = infos
  PROVE  Registers
BY DEF Registers, Callback

LEMMA CopiedRegisters ==
  ASSUME ~IsFiniteSet(Infos), TypeOK, NEW r \in Info, Copy(r)
  PROVE  Registers
BY CopiedInfos DEF Registers, Callback

LEMMA UnmovedProgress ==
  ASSUME TypeOK, Progress, Registers, Main' = Main \/ Main' = Thread(Main), Irq' = Irq,
         state'.collided = state.collided, receiving' => receiving, rxfifo # <<>> => rxfifo' # <<>>,
         \A i \in Infos : Asked(i) => Asked(i)', \A i \in Infos : Posted(i) => Posted(i)'
  PROVE  Progress'
BY SameMain, SameIrq, SteadyProgress

LEMMA ReceivePacketProgress ==
  ASSUME TypeOK, Awake, Progress, ReceivePacket
  PROVE  Progress'
<1>1. UNCHANGED <<th, pending, tasks, state>> /\ Main' = Main /\ Irq' = Irq
  BY DEF ReceivePacket, Main, Irq
<1>2. /\ infos \in [Infos -> Info] /\ issued \in Seq(Request) /\ cur \in Infos /\ air \in Packets
      /\ rxfifo \in Seq(Info) /\ receiving \in BOOLEAN
  BY TypeParts, WhoRuns DEF InfosOK, RequestOK, ThreadsOK, MediumOK, RadioOK, QueuesOK, ReceivePacket
<1>3. \A i \in Infos : Posted(i) => Posted(i)'
  BY <1>1, SameTasks
<1>4. CASE radio.overflow
  <2>1. UNCHANGED <<receiving, infos, rxfifo, issued>>
    BY <1>4 DEF ReceivePacket
  <2>2. Registers /\ \A i \in Infos : Asked(i) => Asked(i)'
    BY <2>1, <1>1, SameInfos, SameRequests
  <2> QED
    BY <2>1, <2>2, <1>1, <1>3, UnmovedProgress
<1>5. CASE ~radio.overflow
  <2>1. Store(air, cur)
    BY <1>5 DEF ReceivePacket
  <2> DEFINE g == Registered(cur, "readdonepayload", air)
             h == [Registered(cur, "readdonepayload", air) EXCEPT !.packet = air]
  <2>2. /\ infos[cur].targets \in [Triggers -> Packets \cup {None}] /\ infos[cur] \in Info
        /\ "readdonepayload" \in Triggers /\ "receivedone" \in Triggers /\ air # None
    BY <1>2, InfoTypes, TriggerNames DEF ReceivePacket
  <2>3. /\ g.targets["readdonepayload"] = air /\ h.targets["readdonepayload"] = air
        /\ g.targets["receivedone"] = infos[cur].targets["receivedone"]
        /\ h.targets["receivedone"] = infos[cur].targets["receivedone"]
    BY <2>2 DEF Registered, Info
  <2>4. CASE receiving
    <3>1. rxfifo' = Append(rxfifo, h) /\ infos' = [infos EXCEPT ![cur] = g] /\ issued' = issued
      BY <2>1, <2>4 DEF Store
    <3>2. h \in Info
      BY <1>2, <2>2, InfoTypes
    <3> HIDE DEF g, h
    <3>3. rxfifo' # <<>>
      BY <3>1, <3>2, <1>2, Appending
    <3>4. Registers
      BY <3>1, <2>2, <2>3, <1>2 DEF Registers, Callback
    <3>5. \A i \in Infos : Asked(i) => Asked(i)'
      BY <3>1, <1>1, SameRequests
    <3> QED
      BY <3>3, <3>4, <3>5, <2>4, <1>1, <1>3, UnmovedProgress
  <2>5. CASE ~receiving
    <3>1. infos' = [infos EXCEPT ![cur] = h] /\ issued' = Append(issued, [service |-> "HIRQ-1", info |-> cur])
      BY <2>1, <2>5 DEF Store
    <3> HIDE DEF g, h
    <3>2. infos'[cur].targets["readdonepayload"] # None
      BY <3>1, <2>2, <2>3, <1>2
    <3>3. Contains(issued', [service |-> "HIRQ-1", info |-> cur])
      <4>1. [service |-> "HIRQ-1", info |-> cur] \in Request
        BY <1>2 DEF Request
      <4> QED
        BY <4>1, <3>1, <1>2, ContainsAppend
    <3>4. PICK i \in Infos : i = cur
      BY <1>2
    <3>5. Agent(i)'
      BY <3>2, <3>3, <3>4 DEF Agent, Callback, Asked, Contains
    <3> QED
      BY <3>5 DEF Progress
  <2> QED
    BY <2>4, <2>5
<1> QED
  BY <1>4, <1>5

LEMMA FinishedTransmittingProgress ==
  ASSUME TypeOK, Progress, NEW k \in DOMAIN transmit, FinishedTransmitting(k)
  PROVE  Progress'
<1>1. UNCHANGED <<th, pending, tasks, state, receiving, rxfifo>> /\ Main' = Main /\ Irq' = Irq
      /\ issued' = Append(issued, [service |-> "HIRQ-6", info |-> cur])
      /\ infos' = [infos EXCEPT ![cur].packet = transmit[k].packet]
  BY DEF FinishedTransmitting, queues, Main, Irq
<1>2. infos \in [Infos -> Info] /\ issued \in Seq(Request) /\ cur \in Infos
  BY TypeParts DEF InfosOK, RequestOK, ThreadsOK
<1>3. Registers
  <2>1. infos[cur] \in Info /\ infos' = [infos EXCEPT ![cur] = [infos[cur] EXCEPT !.packet = transmit[k].packet]]
    BY <1>1, <1>2
  <2>2. [infos[cur] EXCEPT !.packet = transmit[k].packet].targets = infos[cur].targets
    BY <2>1 DEF Info
  <2>3. \A i \in Infos : infos'[i].targets = infos[i].targets
    BY <2>1, <2>2, <1>2
  <2> QED
    BY <2>3 DEF Registers, Callback
<1>4. \A i \in Infos : Asked(i) => Asked(i)'
  <2>1. [service |-> "HIRQ-6", info |-> cur] \in Request
    BY <1>2 DEF Request
  <2>2. \A x : Contains(issued, x) => Contains(issued', x)
    BY <2>1, <1>1, <1>2, ContainsAppend
  <2> QED
    BY <2>2, <1>1 DEF Asked, Contains
<1>5. \A i \in Infos : Posted(i) => Posted(i)'
  BY <1>1, SameTasks
<1> QED
  BY <1>1, <1>3, <1>4, <1>5, UnmovedProgress

LEMMA IssueInterruptProgress ==
  ASSUME TypeOK, Awake, Progress, NEW k \in DOMAIN issued, IssueInterrupt(k), Len(pending) < QueueSize
  PROVE  Progress'
<1>1. UNCHANGED <<tasks, state, receiving, rxfifo, infos>> /\ issued' = RemoveAt(issued, k)
  BY DEF IssueInterrupt, queues
<1>2. issued \in Seq(Request) /\ pending \in Seq(Request) /\ issued[k] \in Request
  BY TypeParts, Shortened DEF RequestOK
<1>3. \A x : Contains(issued, x) => Contains(issued', x) \/ x = issued[k]
  BY <1>1, <1>2, ContainsRemove
<1>4. Registers /\ \A i \in Infos : Posted(i) => Posted(i)'
  BY <1>1, SameInfos, SameTasks
<1>5. CASE th["irq"].at = "none"
  <2>1. Interrupt(issued[k], th["main"]) /\ pending' = pending
    BY <1>5 DEF IssueInterrupt
  <2>2. Main' = Main /\ Irq'.at = (IF issued[k].service = "HIRQ-1" THEN "writing" ELSE "sendDone")
        /\ Irq'.info = issued[k].info
    BY <2>1, <1>2, InterruptType
  <2>3. ~Heads(Irq) /\ \A i \in Infos : ~Works(Irq, i)
    BY <1>5 DEF Heads, Heading, Works, Irq
  <2>4. ASSUME NEW i \in Infos, Asked(i)
        PROVE  Asked(i)' \/ (Irq'.at = "writing" /\ Irq'.info = i)
    <3>1. CASE Contains(issued, [service |-> "HIRQ-1", info |-> i])
      <4>1. CASE Contains(issued', [service |-> "HIRQ-1", info |-> i])
        BY <4>1 DEF Asked, Contains
      <4>2. CASE [service |-> "HIRQ-1", info |-> i] = issued[k]
        <5>1. issued[k].service = "HIRQ-1" /\ issued[k].info = i
          BY <4>2
        <5> QED
          BY <5>1, <2>2
      <4> QED
        BY <3>1, <4>1, <4>2, <1>3
    <3>2. CASE Contains(pending, [service |-> "HIRQ-1", info |-> i])
      BY <3>2, <2>1 DEF Asked, Contains
    <3> QED
      BY <3>1, <3>2, <2>4 DEF Asked
  <2>5. (Heads(Main) => Heads(Main)') /\ \A i \in Infos : Works(Main, i) => Agent(i)'
    BY <2>2, <1>1, <1>4, SameMain
  <2> QED
    BY <2>3, <2>4, <2>5, <1>1, <1>4, SteadyProgress
<1>6. CASE th["irq"].at # "none"
  <2>1. pending' = Append(pending, issued[k]) /\ Main' = Main /\ Irq' = Irq
    BY <1>6 DEF IssueInterrupt, Main, Irq
  <2>2. Contains(pending', issued[k]) /\ \A x : Contains(pending, x) => Contains(pending', x)
    BY <2>1, <1>2, ContainsAppend
  <2>3. \A i \in Infos : Asked(i) => Asked(i)'
    <3>1. \A x : Contains(issued, x) \/ Contains(pending, x) => Contains(issued', x) \/ Contains(pending', x)
      BY <2>2, <1>3
    <3> QED
      BY <3>1 DEF Asked, Contains
  <2> QED
    BY <2>1, <2>3, <1>1, <1>4, UnmovedProgress
<1> QED
  BY <1>5, <1>6

LEMMA EndOfInterruptProgress ==
  ASSUME TypeOK, Awake, Progress, EndOfInterrupt
  PROVE  Progress'
<1>1. UNCHANGED <<tasks, state, receiving, rxfifo, infos, issued>>
  BY DEF EndOfInterrupt, queues
<1>2. pending \in Seq(Request) /\ Irq.at = "return"
  BY TypeParts, WhoRuns DEF RequestOK, EndOfInterrupt, At
<1>3. Registers /\ \A i \in Infos : Posted(i) => Posted(i)'
  BY <1>1, SameInfos, SameTasks
<1>4. ~Heads(Irq) /\ \A i \in Infos : ~Works(Irq, i)
  BY <1>2 DEF Heads, Heading, Works
<1>5. CASE pending # <<>>
  <2>1. Interrupt(Head(pending), th["main"]) /\ pending' = Tail(pending)
    BY <1>5 DEF EndOfInterrupt
  <2>2. 1 \in DOMAIN pending /\ Head(pending) = pending[1] /\ Head(pending) \in Request
        /\ Tail(pending) = RemoveAt(pending, 1)
    BY <1>2, <1>5, TailRemoves
  <2>3. Main' = Main /\ Irq'.at = (IF Head(pending).service = "HIRQ-1" THEN "writing" ELSE "sendDone")
        /\ Irq'.info = Head(pending).info
    BY <2>1, <2>2, InterruptType
  <2>4. \A x : Contains(pending, x) => Contains(pending', x) \/ x = Head(pending)
    <3>1. \A x : Contains(pending, x) => Contains(RemoveAt(pending, 1), x) \/ x = pending[1]
      BY <2>2, <1>2, ContainsRemove
    <3> QED
      BY <3>1, <2>1, <2>2
  <2>5. ASSUME NEW i \in Infos, Asked(i)
        PROVE  Asked(i)' \/ (Irq'.at = "writing" /\ Irq'.info = i)
    <3>1. CASE Contains(pending, [service |-> "HIRQ-1", info |-> i])
      <4>1. CASE Contains(pending', [service |-> "HIRQ-1", info |-> i])
        BY <4>1 DEF Asked, Contains
      <4>2. CASE [service |-> "HIRQ-1", info |-> i] = Head(pending)
        <5>1. Head(pending).service = "HIRQ-1" /\ Head(pending).info = i
          BY <4>2
        <5> QED
          BY <5>1, <2>3
      <4> QED
        BY <3>1, <4>1, <4>2, <2>4
    <3>2. CASE Contains(issued, [service |-> "HIRQ-1", info |-> i])
      BY <3>2, <1>1 DEF Asked, Contains
    <3> QED
      BY <3>1, <3>2, <2>5 DEF Asked
  <2>6. (Heads(Main) => Heads(Main)') /\ \A i \in Infos : Works(Main, i) => Agent(i)'
    BY <2>3, <1>1, <1>3, SameMain
  <2> QED
    BY <2>5, <2>6, <1>1, <1>3, <1>4, SteadyProgress
<1>6. CASE pending = <<>>
  <2>1. pending' = pending /\ Main' = [Main EXCEPT !.at = IF @ = "awake" THEN "taskloop" ELSE @] /\ Main \in ThreadType
    BY <1>6, WhoRuns DEF EndOfInterrupt, Main, Both, Threads
  <2>2. \A i \in Infos : Asked(i) => Asked(i)'
    BY <2>1, <1>1, SameRequests
  <2>3. (Heads(Main) => Heads(Main)') /\ \A i \in Infos : Works(Main, i) => Agent(i)'
    <3>1. CASE Main.at = "awake"
      BY <3>1 DEF Heads, Heading, Works
    <3>2. CASE Main.at # "awake"
      <4>1. Main' = Main
        BY <2>1, <3>2 DEF ThreadType
      <4> QED
        BY <4>1, <1>1, <1>3, SameMain
    <3> QED
      BY <3>1, <3>2
  <2> QED
    BY <2>2, <2>3, <1>1, <1>3, <1>4, SteadyProgress
<1> QED
  BY <1>5, <1>6

LEMMA StageDoneProgress ==
  ASSUME TypeOK, Awake, Progress, StageDone
  PROVE  Progress'
<1>1. PICK p \in Stages : At(p) /\ Moved(After[p], here)
  BY StageDoneType
<1>2. UNCHANGED <<infos, issued, pending, tasks, rxfifo, receiving, state>>
  BY DEF StageDone, queues
<1>3. /\ After[p] \in Places /\ th[Running].at = p /\ here \in Infos
      /\ p \in Heading => After[p] \in Heading
      /\ p = "writing" => After[p] = "readDone"
      /\ p \notin {"readDone", "receive", "check"}
  BY <1>1, WhoRuns DEF At, After, Stages, Places, MainPlaces, IrqPlaces, Heading
<1>4. Registers /\ (\A i \in Infos : Asked(i) => Asked(i)') /\ (\A i \in Infos : Posted(i) => Posted(i)')
  BY <1>2, SameInfos, SameRequests, SameTasks
<1>5. Heads(th[Running]) => After[p] \in Heading
  BY <1>3 DEF Heads
<1>6. ASSUME NEW i \in Infos, Works(th[Running], i)
      PROVE  Agent(i)'
  <2>1. p = "writing" /\ i = here /\ Callback(i, "readdonepayload") # None
    BY <1>3, <1>6 DEF Works, here
  <2> QED
    BY <2>1, <1>1, <1>2, <1>3, MovedWorks DEF Callback
<1> QED
  BY <1>1, <1>2, <1>3, <1>4, <1>5, <1>6, MovedProgress

LEMMA DequeueProgress ==
  ASSUME TypeOK, Awake, Progress, Dequeue
  PROVE  Progress'
<1>1. UNCHANGED <<infos, issued, pending, rxfifo, receiving, state>>
  BY DEF Dequeue
<1>2. /\ Main.at = "dequeue" /\ Irq' = Irq /\ tasks # <<>> /\ tasks' = Tail(tasks)
      /\ Main'.at = Head(tasks).service /\ Main'.info = Head(tasks).info
  BY DequeueType
<1>3. Registers /\ \A i \in Infos : Asked(i) => Asked(i)'
  BY <1>1, SameInfos, SameRequests
<1>4. ~Heads(Main) /\ \A i \in Infos : ~Works(Main, i)
  BY <1>2 DEF Heads, Heading, Works
<1>5. (Heads(Irq) => Heads(Irq)') /\ \A i \in Infos : Works(Irq, i) => Agent(i)'
  BY <1>1, <1>2, <1>3, SameIrq
<1>6. ASSUME NEW i \in Infos, Posted(i)
      PROVE  Posted(i)' \/ (Main'.at = "receive" /\ Main'.info = i)
  <2> DEFINE y == [service |-> "receive", info |-> i]
  <2>1. tasks \in Seq(Task)
    BY TypeParts DEF TasksOK
  <2>2. 1 \in DOMAIN tasks /\ Head(tasks) = tasks[1] /\ Tail(tasks) = RemoveAt(tasks, 1)
    BY <2>1, <1>2, TailRemoves
  <2>3. \A x : Contains(tasks, x) => Contains(RemoveAt(tasks, 1), x) \/ x = tasks[1]
    BY <2>1, <2>2, ContainsRemove
  <2>4. Contains(tasks', y) \/ y = Head(tasks)
    BY <2>2, <2>3, <1>2, <1>6 DEF Posted
  <2>5. CASE Contains(tasks', y)
    BY <2>5 DEF Posted, Contains
  <2>6. CASE y = Head(tasks)
    <3>1. Head(tasks).service = "receive" /\ Head(tasks).info = i
      BY <2>6
    <3> QED
      BY <3>1, <1>2
  <2> QED
    BY <2>4, <2>5, <2>6
<1> QED
  BY <1>1, <1>3, <1>4, <1>5, <1>6, SteadyProgress

LEMMA ReturnProgress ==
  ASSUME TypeOK, Awake, Progress, Return
  PROVE  Progress'
<1>1. UNCHANGED <<infos, issued, pending, tasks, rxfifo, receiving, state>>
  BY DEF Return, queues
<1>2. Main.at = "return" /\ Irq' = Irq
  BY ReturnType
<1>3. Registers /\ (\A i \in Infos : Asked(i) => Asked(i)') /\ (\A i \in Infos : Posted(i) => Posted(i)')
  BY <1>1, SameInfos, SameRequests, SameTasks
<1>4. ~Heads(Main) /\ \A i \in Infos : ~Works(Main, i)
  BY <1>2 DEF Heads, Heading, Works
<1>5. (Heads(Irq) => Heads(Irq)') /\ \A i \in Infos : Works(Irq, i) => Agent(i)'
  BY <1>1, <1>2, <1>3, SameIrq
<1> QED
  BY <1>1, <1>3, <1>4, <1>5, SteadyProgress

(* After Rest nothing is read any more, or whoever called it goes on to rxfifo. *)
LEMMA RestProgress ==
  ASSUME TypeOK, NEW r, Rest(r), rxfifo' = rxfifo, Heads(Main)' \/ Heads(Irq)'
  PROVE  Progress'
BY DEF Rest, Progress

LEMMA MovedHeads ==
  ASSUME TypeOK, NEW p \in Places, NEW j \in Infos, Moved(p, j), p \in Heading \/ (p = "check" /\ state'.collided)
  PROVE  Heads(Main)' \/ Heads(Irq)'
<1>1. Main'.at = p \/ Irq'.at = p
  BY WhoRuns DEF Moved
<1> QED
  BY <1>1 DEF Heads

LEMMA ReadDonePayloadProgress ==
  ASSUME TypeOK, Awake, Progress, ReadDonePayload
  PROVE  Progress'
<1>1. UNCHANGED <<issued, pending, tasks, rxfifo>> /\ th[Running].at = "readDone"
  BY DEF ReadDonePayload, queues, At
<1>2. Moved("check", here) /\ here \in Infos /\ "check" \in Places
  BY ReadDonePayloadType, WhoRuns, Places1
<1> DEFINE p == Target("readdonepayload")
<1>3. p \in Packets \cup {None} /\ p = Callback(here, "readdonepayload") /\ (p # None => p \in Packets)
  BY TargetType, TriggerNames
<1>4. CASE p = None
  <2>1. UNCHANGED <<infos, state, receiving>>
    BY <1>4 DEF ReadDonePayload
  <2>2. Registers /\ (\A i \in Infos : Asked(i) => Asked(i)') /\ (\A i \in Infos : Posted(i) => Posted(i)')
    BY <1>1, <2>1, SameInfos, SameRequests, SameTasks
  <2>3. ~Heads(th[Running]) /\ \A i \in Infos : ~Works(th[Running], i)
    BY <1>1, <1>3, <1>4 DEF Heads, Heading, Works, here
  <2> QED
    BY <2>1, <2>2, <2>3, <1>1, <1>2, MovedProgress
<1>5. CASE p # None /\ collided[p]
  <2>1. Rest(ReadOut(p)) /\ state' = [state EXCEPT !.collided = TRUE]
    BY <1>5 DEF ReadDonePayload
  <2>2. state'.collided
    BY <2>1, TypeParts DEF StateOK, StateType
  <2> HIDE DEF p
  <2> QED
    BY <2>1, <2>2, <1>1, <1>2, MovedHeads, RestProgress
<1>6. CASE p # None /\ ~collided[p]
  <2>1. infos' = Chained("readdonepayload", "receivedone", p) /\ state' = [state EXCEPT !.collided = FALSE]
    BY <1>6 DEF ReadDonePayload
  <2>2. ~state'.collided
    BY <2>1, TypeParts DEF StateOK, StateType
  <2> HIDE DEF p
  <2>3. infos'[here].targets["receivedone"] = p
    <3>1. "readdonepayload" \in Triggers /\ "receivedone" \in Triggers /\ "readdonepayload" # "receivedone"
      BY TriggerNames
    <3>2. Chained("readdonepayload", "receivedone", p)[here].targets["receivedone"] = p
      BY <3>1, <1>2, <1>3, ChainedInfos
    <3> QED
      BY <3>2, <2>1
  <2>4. PICK i \in Infos : i = here
    BY <1>2
  <2>5. Agent(i)'
    BY <2>2, <2>3, <2>4, <1>2, <1>6, MovedWorks
  <2> QED
    BY <2>5 DEF Progress
<1> QED
  BY <1>4, <1>5, <1>6

LEMMA CheckIfPacketCollidedProgress ==
  ASSUME TypeOK, Awake, Progress, CheckIfPacketCollided
  PROVE  Progress'
<1>1. UNCHANGED <<infos, issued, pending, rxfifo, receiving, state>> /\ th[Running].at = "check" /\ here \in Infos
  BY WhoRuns DEF CheckIfPacketCollided, At
<1>2. Registers /\ \A i \in Infos : Asked(i) => Asked(i)'
  BY <1>1, SameInfos, SameRequests
<1>3. CASE state.collided
  <2>1. Moved("readNext", here) /\ tasks' = tasks /\ "readNext" \in Places /\ "readNext" \in Heading
    BY <1>3, CheckIfPacketCollidedType, Places1 DEF Heading
  <2>2. \A i \in Infos : Posted(i) => Posted(i)'
    BY <2>1, SameTasks
  <2>3. \A i \in Infos : ~Works(th[Running], i)
    BY <1>1, <1>3 DEF Works
  <2> QED
    BY <2>1, <2>2, <2>3, <1>1, <1>2, MovedProgress
<1>4. CASE ~state.collided
  <2> DEFINE y == [service |-> "receive", info |-> here]
  <2>1. /\ tasks' = Append(tasks, y) /\ y \in Task /\ tasks \in Seq(Task)
        /\ Running = "main" => Irq' = Irq
        /\ Running = "irq" => Main' = Thread(Main)
    BY <1>1, <1>4, CheckIfPacketCollidedType, TypeParts DEF TasksOK, Task
  <2>2. (\A i \in Infos : Posted(i) => Posted(i)') /\ Contains(tasks', y)
    BY <2>1, SameTasks, ContainsAppend
  <2>3. ~Heads(th[Running])
    BY <1>1, <1>4 DEF Heads, Heading
  <2>4. ASSUME NEW i \in Infos, Works(th[Running], i)
        PROVE  Agent(i)'
    <3>1. i = here /\ Callback(i, "receivedone") # None
      BY <1>1, <2>4 DEF Works, here
    <3>2. infos'[i].targets["receivedone"] # None
      BY <3>1, <1>1 DEF Callback
    <3> QED
      BY <3>1, <3>2, <2>2 DEF Agent, Callback, Posted, Contains
  <2>5. CASE Running = "main"
    <3>1. th[Running] = Main /\ Irq' = Irq
      BY <2>1, <2>5, WhoRuns
    <3>2. (Heads(Irq) => Heads(Irq)') /\ \A i \in Infos : Works(Irq, i) => Agent(i)'
      BY <3>1, <1>1, <1>2, SameIrq
    <3>3. ~Heads(Main) /\ \A i \in Infos : Works(Main, i) => Agent(i)'
      BY <3>1, <2>3, <2>4
    <3> QED
      BY <3>2, <3>3, <2>2, <1>1, <1>2, SteadyProgress
  <2>6. CASE Running = "irq"
    <3>1. th[Running] = Irq /\ Main' = Thread(Main)
      BY <2>1, <2>6, WhoRuns
    <3>2. (Heads(Main) => Heads(Main)') /\ \A i \in Infos : Works(Main, i) => Agent(i)'
      BY <3>1, <1>1, <1>2, SameMain
    <3>3. ~Heads(Irq) /\ \A i \in Infos : Works(Irq, i) => Agent(i)'
      BY <3>1, <2>3, <2>4
    <3> QED
      BY <3>2, <3>3, <2>2, <1>1, <1>2, SteadyProgress
  <2> QED
    BY <2>5, <2>6, WhoRuns
<1> QED
  BY <1>3, <1>4

LEMMA ReadNextPacketInRxfifoProgress ==
  ASSUME ~IsFiniteSet(Infos), TypeOK, Awake, Fifo, Progress, ReadNextPacketInRxfifo
  PROVE  Progress'
<1>1. UNCHANGED <<issued, pending, tasks, receiving, state>> /\ th[Running].at = "readNext" /\ here \in Infos
  BY WhoRuns DEF ReadNextPacketInRxfifo, At
<1>2. CASE rxfifo = <<>>
  <2>1. Moved("return", here) /\ rxfifo' = rxfifo /\ infos' = infos /\ "return" \in Places
    BY <1>2, ReadNextPacketInRxfifoType, Places1
  <2>2. Registers /\ (\A i \in Infos : Asked(i) => Asked(i)') /\ (\A i \in Infos : Posted(i) => Posted(i)')
    BY <1>1, <2>1, SameInfos, SameRequests, SameTasks
  <2>3. \A i \in Infos : ~Works(th[Running], i)
    BY <1>1 DEF Works
  <2> QED
    BY <2>1, <2>2, <2>3, <1>1, <1>2, MovedProgress
<1>3. CASE rxfifo # <<>>
  <2>1. Moved("writing", Fresh) /\ Copy(Head(rxfifo)) /\ Head(rxfifo) \in Info /\ Fresh \in Infos
        /\ "writing" \in Places
    BY <1>3, ReadNextPacketInRxfifoType, Places1, FreshInfo
  <2>2. Head(rxfifo).targets["readdonepayload"] # None
    <3>1. 1 \in DOMAIN rxfifo /\ Head(rxfifo) = rxfifo[1]
      <4>1. rxfifo \in Seq(Info)
        BY TypeParts DEF QueuesOK
      <4> QED
        BY <4>1, <1>3, TailRemoves
    <3> QED
      BY <3>1 DEF Fifo
  <2>3. infos'[Fresh].targets["readdonepayload"] # None
    BY <2>1, <2>2, CopiedInfos
  <2>4. PICK i \in Infos : i = Fresh
    BY <2>1
  <2>5. Moved("writing", i) /\ infos'[i].targets["readdonepayload"] # None
    BY <2>1, <2>3, <2>4
  <2>6. Agent(i)'
    BY <2>1, <2>5, MovedWorks
  <2> QED
    BY <2>6 DEF Progress
<1> QED
  BY <1>2, <1>3

LEMMA ReceiveDoneTaskProgress ==
  ASSUME TypeOK, Awake, Progress, ReceiveDoneTask
  PROVE  Progress'
<1>1. UNCHANGED <<issued, pending, tasks, rxfifo>> /\ th[Running].at = "receive"
  BY DEF ReceiveDoneTask, queues, At
<1>2. Moved("receiveDone", here) /\ here \in Infos /\ "receiveDone" \in Places /\ "receiveDone" \in Heading
  BY ReceiveDoneTaskType, WhoRuns, Places1 DEF Heading
<1> DEFINE p == Target("receivedone")
<1>3. p = Callback(here, "receivedone")
  BY TargetType, TriggerNames
<1>4. CASE p = None
  <2>1. UNCHANGED <<infos, state, receiving>>
    BY <1>4 DEF ReceiveDoneTask
  <2>2. Registers /\ (\A i \in Infos : Asked(i) => Asked(i)') /\ (\A i \in Infos : Posted(i) => Posted(i)')
    BY <1>1, <2>1, SameInfos, SameRequests, SameTasks
  <2>3. \A i \in Infos : ~Works(th[Running], i)
    BY <1>1, <1>3, <1>4 DEF Works, here
  <2> QED
    BY <2>1, <2>2, <2>3, <1>1, <1>2, MovedProgress
<1>5. CASE p # None
  <2>1. Rest(radio)
    BY <1>5 DEF ReceiveDoneTask
  <2> QED
    BY <2>1, <1>1, <1>2, MovedHeads, RestProgress
<1> QED
  BY <1>4, <1>5

LEMMA IpaqFullProgress ==
  ASSUME TypeOK, Awake, Progress, IpaqFull
  PROVE  Progress'
<1> DEFINE p == IF state.full THEN "dropping" ELSE "queueing"
<1>1. UNCHANGED <<infos, issued, pending, tasks, rxfifo, receiving, state>> /\ th[Running].at = "ipaqFull"
      /\ here \in Infos
  BY WhoRuns DEF IpaqFull, At
<1>2. Moved(p, here) /\ p \in Places /\ p \in Heading
  BY IpaqFullType, Places1 DEF Heading
<1>3. Registers /\ (\A i \in Infos : Asked(i) => Asked(i)') /\ (\A i \in Infos : Posted(i) => Posted(i)')
  BY <1>1, SameInfos, SameRequests, SameTasks
<1>4. \A i \in Infos : ~Works(th[Running], i)
  BY <1>1 DEF Works
<1> HIDE DEF p
<1> QED
  BY <1>1, <1>2, <1>3, <1>4, MovedProgress

LEMMA PostSendTaskProgress ==
  ASSUME TypeOK, Awake, Progress, PostSendTask
  PROVE  Progress'
<1>1. UNCHANGED <<infos, issued, pending, rxfifo, receiving, state>> /\ th[Running].at = "post" /\ here \in Infos
  BY WhoRuns DEF PostSendTask, At
<1>2. Moved("readNext", here) /\ "readNext" \in Places /\ "readNext" \in Heading
      /\ tasks' = Append(tasks, [service |-> "sendTask", info |-> here])
  BY PostSendTaskType, Places1 DEF Heading
<1>3. [service |-> "sendTask", info |-> here] \in Task
  BY <1>1 DEF Task
<1>4. Registers /\ (\A i \in Infos : Asked(i) => Asked(i)') /\ (\A i \in Infos : Posted(i) => Posted(i)')
  BY <1>1, <1>2, <1>3, SameInfos, SameRequests, SameTasks
<1>5. \A i \in Infos : ~Works(th[Running], i)
  BY <1>1 DEF Works
<1> QED
  BY <1>1, <1>2, <1>4, <1>5, MovedProgress

LEMMA SendTaskProgress ==
  ASSUME TypeOK, Awake, Progress, SendTask
  PROVE  Progress'
<1>1. UNCHANGED <<issued, pending, tasks, rxfifo, receiving>> /\ th[Running].at = "sendTask" /\ here \in Infos
  BY WhoRuns DEF SendTask, At
<1>2. PICK p \in {"return", "loading"} : Moved(p, here)
  BY SendTaskType
<1>3. state'.collided = state.collided
  <2>1. state' = state \/ \E b \in BOOLEAN : state' = [state EXCEPT !.busy = b]
    <3>1. \A b : Takes(b) \in BOOLEAN
      BY DEF Takes
    <3> QED
      BY <3>1 DEF SendTask
  <2> QED
    BY <2>1, TypeParts DEF StateOK, StateType
<1>4. Registers
  <2>1. infos' = infos \/ infos' = Chained("sendtask", "writtentotxfifo", Target("sendtask"))
    BY DEF SendTask
  <2>2. Target("sendtask") \in Packets \cup {None} /\ Triggers = {"readdonepayload", "receivedone", "sendtask", "writtentotxfifo"}
    BY TargetType, TriggerNames
  <2>3. \A i \in Infos, u \in {"readdonepayload", "receivedone"} :
          Chained("sendtask", "writtentotxfifo", Target("sendtask"))[i].targets[u] = Callback(i, u)
    BY <2>2, ChainedInfos
  <2>4. CASE infos' = infos
    BY <2>4, SameInfos
  <2>5. CASE infos' = Chained("sendtask", "writtentotxfifo", Target("sendtask"))
    BY <2>3, <2>5 DEF Registers
  <2> QED
    BY <2>1, <2>4, <2>5
<1>5. (\A i \in Infos : Asked(i) => Asked(i)') /\ (\A i \in Infos : Posted(i) => Posted(i)')
  BY <1>1, SameRequests, SameTasks
<1>6. ~Heads(th[Running]) /\ \A i \in Infos : ~Works(th[Running], i)
  BY <1>1 DEF Heads, Heading, Works
<1>7. p \in Places
  BY Places1
<1> QED
  BY <1>1, <1>2, <1>3, <1>4, <1>5, <1>6, <1>7, MovedProgress

LEMMA WrittenToTxFifoProgress ==
  ASSUME TypeOK, Awake, Progress, WrittenToTxFifo
  PROVE  Progress'
<1>1. UNCHANGED <<issued, pending, tasks, rxfifo, receiving, state>> /\ th[Running].at = "written" /\ here \in Infos
  BY WhoRuns DEF WrittenToTxFifo, queues, At
<1>2. Moved("transmitting", here) /\ "transmitting" \in Places
  BY WrittenToTxFifoType, Places1
<1>3. Registers
  <2>1. infos' = infos \/ infos' = Invoked("writtentotxfifo")
    BY DEF WrittenToTxFifo
  <2>2. Triggers = {"readdonepayload", "receivedone", "sendtask", "writtentotxfifo"}
    BY TriggerNames
  <2>3. \A i \in Infos, u \in {"readdonepayload", "receivedone"} :
          Invoked("writtentotxfifo")[i].targets[u] = Callback(i, u)
    BY <2>2, InvokedInfos
  <2>4. CASE infos' = infos
    BY <2>4, SameInfos
  <2>5. CASE infos' = Invoked("writtentotxfifo")
    BY <2>3, <2>5 DEF Registers
  <2> QED
    BY <2>1, <2>4, <2>5
<1>4. (\A i \in Infos : Asked(i) => Asked(i)') /\ (\A i \in Infos : Posted(i) => Posted(i)')
  BY <1>1, SameRequests, SameTasks
<1>5. ~Heads(th[Running]) /\ \A i \in Infos : ~Works(th[Running], i)
  BY <1>1 DEF Heads, Heading, Works
<1> QED
  BY <1>1, <1>2, <1>3, <1>4, <1>5, MovedProgress

LEMMA SendDoneProgress ==
  ASSUME ~IsFiniteSet(Infos), TypeOK, Awake, Progress, SendDone
  PROVE  Progress'
<1>1. UNCHANGED <<issued, pending, rxfifo, receiving>> /\ state' = [state EXCEPT !.busy = FALSE]
  BY DEF SendDone
<1>2. Irq.at = "sendDone" /\ Irq'.at = "sent" /\ (Main' = Main \/ Main' = Thread(Main))
      /\ (tasks' = tasks \/ tasks' = Append(tasks, [service |-> "sendTask", info |-> Fresh]))
  BY SendDoneType
<1>3. state'.collided = state.collided
  BY <1>1, TypeParts DEF StateOK, StateType
<1>4. Registers
  <2>1. PICK h \in Holder : Copy(infos[h.info])
    <3>1. ipaq \in Seq(Holder) /\ postponed \in Seq(Holder) /\ ipaq # <<>>
      BY TypeParts DEF QueuesOK, SendDone
    <3>2. CASE postponed = <<>>
      BY <3>1, <3>2, TailRemoves DEF SendDone
    <3>3. CASE postponed # <<>>
      BY <3>1, <3>3, TailRemoves DEF SendDone
    <3> QED
      BY <3>2, <3>3
  <2>2. infos[h.info] \in Info
    BY InfoTypes DEF Holder
  <2> QED
    BY <2>1, <2>2, CopiedRegisters
<1>5. [service |-> "sendTask", info |-> Fresh] \in Task
  BY FreshInfo DEF Task
<1>6. (\A i \in Infos : Asked(i) => Asked(i)') /\ (\A i \in Infos : Posted(i) => Posted(i)')
  BY <1>1, <1>2, <1>5, SameRequests, SameTasks
<1>7. (Heads(Main) => Heads(Main)') /\ \A i \in Infos : Works(Main, i) => Agent(i)'
  BY <1>2, <1>3, <1>4, SameMain
<1>8. ~Heads(Irq) /\ \A i \in Infos : ~Works(Irq, i)
  BY <1>2 DEF Heads, Heading, Works
<1> QED
  BY <1>1, <1>4, <1>6, <1>7, <1>8, SteadyProgress

LEMMA NextProgress ==
  ASSUME ~IsFiniteSet(Infos), TypeOK, Awake, Owned, Reads, Fifo, Progress, QueueSize >= 3, [Next]_vars
  PROVE  Progress'
<1>1. ASSUME UNCHANGED <<th, infos, issued, pending, tasks, rxfifo, receiving, state>>
      PROVE  Progress'
  <2>1. Main' = Main /\ Irq' = Irq
    BY <1>1 DEF Main, Irq
  <2>2. Registers /\ (\A i \in Infos : Asked(i) => Asked(i)') /\ (\A i \in Infos : Posted(i) => Posted(i)')
    BY <1>1, SameInfos, SameRequests, SameTasks
  <2> QED
    BY <2>1, <2>2, <1>1, UnmovedProgress
<1>2. ASSUME NEW p \in Packets, SendPacket(p) PROVE Progress'
  BY <1>1, <1>2 DEF SendPacket, cpu, queues
<1>3. CASE ReceivePacket
  BY <1>3, ReceivePacketProgress
<1>4. ASSUME NEW k \in DOMAIN transmit, Retry(k) PROVE Progress'
  BY <1>1, <1>4 DEF Retry, cpu, queues
<1>5. ASSUME NEW k \in DOMAIN transmit, FinishedTransmitting(k) PROVE Progress'
  BY <1>5, FinishedTransmittingProgress
<1>6. ASSUME NEW k \in DOMAIN issued, IssueInterrupt(k) PROVE Progress'
  BY <1>6, RoomForRequests, IssueInterruptProgress
<1>7. CASE StageDone
  BY <1>7, StageDoneProgress
<1>8. CASE Statement
  <2>1. CASE Dequeue
    BY <2>1, DequeueProgress
  <2>2. CASE Return
    BY <2>2, ReturnProgress
  <2>3. CASE ReadDonePayload
    BY <2>3, ReadDonePayloadProgress
  <2>4. CASE CheckIfPacketCollided
    BY <2>4, CheckIfPacketCollidedProgress
  <2>5. CASE ReadNextPacketInRxfifo
    BY <2>5, ReadNextPacketInRxfifoProgress
  <2>6. CASE ReceiveDoneTask
    BY <2>6, ReceiveDoneTaskProgress
  <2>7. CASE IpaqFull
    BY <2>7, IpaqFullProgress
  <2>8. CASE PostSendTask
    BY <2>8, PostSendTaskProgress
  <2>9. CASE SendTask
    BY <2>9, SendTaskProgress
  <2>10. CASE WrittenToTxFifo
    BY <2>10, WrittenToTxFifoProgress
  <2>11. CASE SendDone
    BY <2>11, SendDoneProgress
  <2>12. CASE EndOfInterrupt
    BY <2>12, EndOfInterruptProgress
  <2> QED
    BY <1>8, <2>1, <2>2, <2>3, <2>4, <2>5, <2>6, <2>7, <2>8, <2>9, <2>10, <2>11, <2>12 DEF Statement
<1>9. CASE UNCHANGED vars
  BY <1>1, <1>9 DEF vars, cpu, queues
<1> QED
  BY <1>2, <1>3, <1>4, <1>5, <1>6, <1>7, <1>8, <1>9 DEF Next

-----------------------------------------------------------------------------
(* A mote at rest *)

Alive == TypeOK /\ Awake /\ Owned /\ Whole /\ Reads /\ Fifo /\ Progress

LEMMA InitAlive == ASSUME Init PROVE Alive
<1>1. /\ TypeOK /\ Awake /\ Owned
  BY InitType, InitOwned
<1>2. /\ ~receiving /\ rxfifo = <<>> /\ ~radio.overflow /\ issued = <<>> /\ pending = <<>> /\ ~state.busy
      /\ Irq.at = "none"
  BY DEF Init, Irq, Both, Threads
<1>3. Whole
  <2>1. Tokens \in Nat /\ Tokens <= 0 /\ One(state.busy) = 0
    BY <1>1, <1>2, TokenTypes DEF Owned, One
  <2> QED
    BY <2>1 DEF Whole
<1>4. Requests("HIRQ-1", issued) = 0 /\ Requests("HIRQ-1", pending) = 0
  BY <1>2, RequestsNone
<1>5. Reads /\ Fifo /\ Progress
  BY <1>2, <1>4 DEF Reads, Unread, Fifo, Progress
<1> QED
  BY <1>1, <1>3, <1>5 DEF Alive

(* What ReceivePacket and the reading of rxfifo tell each other through receivingPacket: *)
(* what is in rxfifo has its callback and waits only while the flag is set, an overflow  *)
(* stands only until it is read, and at most two HIRQ-1 requests are under way.          *)
RxfifoWatched == Fifo /\ Unread <= 2

(* No packet waits in rxfifo behind a cleared receivingPacket (TelosB::ReceivePacket      *)
(* then raises no interrupt for it), whatever sendTask loads, for any number of packets,  *)
(* sizes of queues and settings, and even if requests for interrupts are dropped.         *)
THEOREM RxfifoIsWatched ==
  ASSUME ~IsFiniteSet(Infos)
  PROVE  Spec => []RxfifoWatched
<1>1. TypeOK /\ Awake /\ Reads /\ Fifo /\ [Next]_vars => (TypeOK /\ Awake /\ Reads /\ Fifo)'
  BY NextType, NextReads, NextFifo
<1>2. Init => TypeOK /\ Awake /\ Reads /\ Fifo
  BY InitAlive DEF Alive
<1>3. Reads /\ Fifo => RxfifoWatched
  BY DEF Reads, RxfifoWatched
<1> QED
  BY <1>1, <1>2, <1>3, PTL DEF Spec

LEMMA AliveRests ==
  ASSUME Alive
  PROVE  NeverStuck
<1> SUFFICES ASSUME AtRest
             PROVE  ~receiving /\ rxfifo = <<>> /\ ~state.busy /\ ~radio.overflow
  BY DEF NeverStuck
<1>1. /\ TypeOK /\ Main.at = "asleep" /\ Irq.at = "none" /\ issued = <<>> /\ transmit = <<>>
      /\ pending = <<>> /\ tasks = <<>>
  BY DEF Alive, AtRest, Awake, Main, Irq
<1>2. ~Heads(Main) /\ ~Heads(Irq) /\ \A i \in Infos : ~Works(Main, i) /\ ~Works(Irq, i)
  BY <1>1 DEF Heads, Heading, Works
<1>3. \A i \in Infos : ~Asked(i) /\ ~Posted(i)
  BY <1>1 DEF Asked, Posted, Contains
<1>4. ~receiving
  BY <1>2, <1>3 DEF Alive, Progress, Agent
<1>5. rxfifo = <<>> /\ ~radio.overflow
  BY <1>4 DEF Alive, Fifo
<1>6. ~state.busy
  <2>1. ~Loading
    BY <1>1 DEF Loading
  <2>2. Requests("HIRQ-6", issued) = 0 /\ Requests("HIRQ-6", pending) = 0 /\ Len(transmit) = 0
    BY <1>1, RequestsNone
  <2>3. Tokens = 0 + 0 + 0 + 0 + 0
    BY <2>1, <2>2, <1>1 DEF Tokens, One
  <2>4. One(state.busy) = 0
    BY <2>3 DEF Alive, Whole
  <2> QED
    BY <2>4 DEF One
<1> QED
  BY <1>4, <1>5, <1>6

(* A mote that has nothing scheduled and computes nothing has nothing left to do: it    *)
(* reads the next packet, its radio is free, and its FIFO did not stay overflowed. With *)
(* room for three requests, none of which is then dropped by the interrupt controller,  *)
(* for any number of packets and sizes of queues, in the same runs.                     *)
LEMMA MoteNeverStuck ==
  ASSUME ~IsFiniteSet(Infos), QueueSize >= 3
  PROVE  Spec /\ []NoStaleSend => []NeverStuck
<1>1. Alive /\ NoStaleSend /\ [Next]_vars => Alive'
  <2> SUFFICES ASSUME Alive, NoStaleSend, [Next]_vars
               PROVE  Alive'
    OBVIOUS
  <2>1. TypeOK /\ Awake /\ Owned /\ Whole /\ Reads /\ Fifo /\ Progress
    BY DEF Alive
  <2>2. TypeOK' /\ Awake' /\ TokensMove
    BY <2>1, NextType, NextTokens
  <2>3. Owned' /\ Whole'
    BY <2>1, <2>2, OwnedKept, WholeKept
  <2>4. Reads' /\ Fifo' /\ Progress'
    BY <2>1, NextReads, NextFifo, NextProgress
  <2> QED
    BY <2>2, <2>3, <2>4 DEF Alive
<1>2. Init => Alive
  BY InitAlive
<1>3. Alive => NeverStuck
  BY AliveRests
<1> QED
  BY <1>1, <1>2, <1>3, PTL DEF Spec
=============================================================================
