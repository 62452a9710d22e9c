---------------------------- MODULE VisualizerProofs ----------------------------
(* Theorems about module Visualizer, for all sample periods and all bounds on the     *)
(* simulated time, the user's events and the pauses.                                  *)
EXTENDS VisualizerProps, FiniteSetTheorems, TLAPS

(* How often m is in q, and in how many frames of the stack s it is. *)
Count(q, m) == Cardinality({i \in DOMAIN q : q[i] = m})
Taken(s, m) == Cardinality({i \in DOMAIN s : Count(s[i].messages, m) = 1})

(* The lock has one holder: the simulation thread from before the simulator runs until  *)
(* its messages are posted, or the innermost callback, while all others wait in their   *)
(* event loops. So nobody takes the list away while it is being extended.                *)
Shut == {"run", "fetch", "post", "release"}
Locked == {"take", "reset", "target", "release", "locked"}
Below == \A i \in DOMAIN stack : i # Len(stack) => stack[i].pc = "pump"
LockOK ==
    /\ lock \in {"free", "sim", "gtk"} /\ (lock = "sim" <=> sim \in Shut)
    /\ Below /\ (lock = "gtk" <=> stack # <<>> /\ Top.pc \in Locked)
    /\ posting = IF sim = "post" THEN "current" ELSE "none"

(* A callback has messages only after it has taken them, and none of them twice. *)
Loaded == {"target", "release", "after"}
FrameOK(f) ==
    /\ f.pc \notin Loaded => f.messages = <<>>
    /\ \A m \in 1 .. raised : Count(f.messages, m) <= 1
FramesOK == \A i \in DOMAIN stack : FrameOK(stack[i])

Once(m) ==
    Count(messages, m) + Count(shown, m) + Taken(stack, m)
      + (IF sim \in {"fetch", "post"} THEN Count(vizMessages, m) ELSE 0) = 1

Inv == TypeOK /\ LockOK /\ FramesOK /\ \A m \in 1 .. raised : Once(m)

-----------------------------------------------------------------------------------
(* Sequences as stacks *)

LEMMA TopOfStack ==
  ASSUME NEW F, NEW s \in Seq(F), s # <<>>, NEW f \in F
  PROVE  /\ Len(s) \in Nat /\ Len(s) > 0 /\ Len(s) \in DOMAIN s /\ DOMAIN s = 1 .. Len(s)
         /\ s[Len(s)] \in F
         /\ [s EXCEPT ![Len(s)] = f] \in Seq(F)
         /\ DOMAIN [s EXCEPT ![Len(s)] = f] = DOMAIN s
         /\ [s EXCEPT ![Len(s)] = f][Len(s)] = f
         /\ \A i \in DOMAIN s : i # Len(s) => [s EXCEPT ![Len(s)] = f][i] = s[i]
<1>1. /\ Len(s) \in Nat /\ Len(s) > 0 /\ Len(s) \in DOMAIN s /\ DOMAIN s = 1 .. Len(s)
      /\ s[Len(s)] \in F
  OBVIOUS
<1>2. [s EXCEPT ![Len(s)] = f] \in Seq(F) BY <1>1
<1> QED BY <1>1, <1>2

LEMMA InSequence == ASSUME NEW S, NEW q \in Seq(S) PROVE \A i \in DOMAIN q : q[i] \in S
OBVIOUS

LEMMA Popped ==
  ASSUME NEW F, NEW s \in Seq(F), s # <<>>
  PROVE  /\ SubSeq(s, 1, Len(s) - 1) \in Seq(F)
         /\ DOMAIN SubSeq(s, 1, Len(s) - 1) = DOMAIN s \ {Len(s)}
         /\ \A i \in DOMAIN s \ {Len(s)} : SubSeq(s, 1, Len(s) - 1)[i] = s[i]
<1>1. Len(s) \in Nat /\ Len(s) > 0 /\ DOMAIN s = 1 .. Len(s) /\ \A i \in 1 .. Len(s) : s[i] \in F
  OBVIOUS
<1>2. /\ SubSeq(s, 1, Len(s) - 1) \in Seq(F) /\ Len(SubSeq(s, 1, Len(s) - 1)) = Len(s) - 1
      /\ \A i \in 1 .. Len(s) - 1 : SubSeq(s, 1, Len(s) - 1)[i] = s[i]
  BY <1>1
<1> QED BY <1>1, <1>2

LEMMA Pushed ==
  ASSUME NEW F, NEW s \in Seq(F), NEW f \in F
  PROVE  /\ Append(s, f) \in Seq(F) /\ Len(s) + 1 \notin DOMAIN s
         /\ DOMAIN Append(s, f) = DOMAIN s \cup {Len(s) + 1}
         /\ \A i \in DOMAIN s : Append(s, f)[i] = s[i]
         /\ Append(s, f)[Len(s) + 1] = f
<1>1. Len(s) \in Nat /\ DOMAIN s = 1 .. Len(s) OBVIOUS
<1>2. Len(Append(s, f)) = Len(s) + 1 /\ Append(s, f) \in Seq(F) OBVIOUS
<1> QED BY <1>1, <1>2

LEMMA Joined ==
  ASSUME NEW S, NEW q \in Seq(S), NEW r \in Seq(S)
  PROVE  /\ q \o r \in Seq(S)
         /\ DOMAIN q = 1 .. Len(q) /\ DOMAIN r = 1 .. Len(r)
         /\ DOMAIN (q \o r) = 1 .. Len(q) + Len(r) /\ Len(q) \in Nat /\ Len(r) \in Nat
         /\ \A i \in 1 .. Len(q) : (q \o r)[i] = q[i]
         /\ \A i \in 1 .. Len(r) : (q \o r)[Len(q) + i] = r[i]
<1>1. Len(q \o r) = Len(q) + Len(r) /\ q \o r \in Seq(S) OBVIOUS
<1>2. Len(q) \in Nat /\ Len(r) \in Nat OBVIOUS
<1> QED BY <1>1, <1>2

-----------------------------------------------------------------------------------
(* Counting *)

LEMMA CountIsNat ==
  ASSUME NEW S, NEW q \in Seq(S), NEW m
  PROVE  /\ IsFiniteSet({i \in DOMAIN q : q[i] = m}) /\ Count(q, m) \in Nat
         /\ (\A i \in DOMAIN q : q[i] # m) => Count(q, m) = 0
<1> DEFINE A == {i \in DOMAIN q : q[i] = m}
<1>1. DOMAIN q = 1 .. Len(q) /\ Len(q) \in Nat OBVIOUS
<1>2. IsFiniteSet(1 .. Len(q)) BY <1>1, FS_Interval
<1>3. A \in SUBSET (1 .. Len(q)) BY <1>1
<1>4. IsFiniteSet(A) /\ Cardinality(A) \in Nat BY <1>2, <1>3, FS_Subset, FS_CardinalityType
<1>5. (\A i \in DOMAIN q : q[i] # m) => A = {} OBVIOUS
<1> QED BY <1>4, <1>5, FS_EmptySet DEF Count

LEMMA CountEmpty == \A m : Count(<<>>, m) = 0
<1> TAKE m
<1>1. {i \in DOMAIN <<>> : <<>>[i] = m} = {} OBVIOUS
<1> QED BY <1>1, FS_EmptySet DEF Count

LEMMA CountSingle == \A n, m : Count(<<n>>, m) = IF n = m THEN 1 ELSE 0
<1> TAKE n, m
<1>1. CASE n = m
  <2>1. {i \in DOMAIN <<n>> : <<n>>[i] = m} = {1} BY <1>1
  <2> QED BY <2>1, <1>1, FS_Singleton DEF Count
<1>2. CASE n # m
  <2>1. {i \in DOMAIN <<n>> : <<n>>[i] = m} = {} BY <1>2
  <2> QED BY <2>1, <1>2, FS_EmptySet DEF Count
<1> QED BY <1>1, <1>2

LEMMA CountJoined ==
  ASSUME NEW S, NEW q \in Seq(S), NEW r \in Seq(S), NEW m
  PROVE  Count(q \o r, m) = Count(q, m) + Count(r, m)
<1> DEFINE A == {i \in DOMAIN q : q[i] = m}
           B == {i \in DOMAIN r : r[i] = m}
           C == {i \in DOMAIN (q \o r) : (q \o r)[i] = m}
           D == {i \in C : i > Len(q)}
           shift == [i \in B |-> Len(q) + i]
<1>1. A \cup D = C /\ A \cap D = {}
  <2>1. \A i \in C : i \notin A => i > Len(q) BY Joined
  <2>2. \A i \in A : i \in C /\ ~(i > Len(q)) BY Joined
  <2> QED BY <2>1, <2>2
<1>2. shift \in Bijection(B, D)
  <2>1. \A i \in B : Len(q) + i \in D BY Joined
  <2>2. \A j \in D : j - Len(q) \in B /\ j = Len(q) + (j - Len(q))
    <3> TAKE j \in D
    <3>1. /\ j \in Nat /\ j > Len(q) /\ j <= Len(q) + Len(r)
          /\ Len(q) \in Nat /\ Len(r) \in Nat /\ (q \o r)[j] = m
      BY Joined
    <3>2. j - Len(q) \in 1 .. Len(r) /\ j = Len(q) + (j - Len(q)) BY <3>1
    <3>3. r[j - Len(q)] = m BY <3>1, <3>2, Joined
    <3> QED BY <3>2, <3>3, Joined
  <2>3. \A i, j \in B : Len(q) + i = Len(q) + j => i = j BY Joined
  <2> HIDE DEF B, D
  <2>4. shift \in [B -> D] BY <2>1
  <2>5. \A i, j \in B : shift[i] = shift[j] => i = j BY <2>3
  <2>6. \A j \in D : \E i \in B : shift[i] = j BY <2>2
  <2> HIDE DEF shift
  <2>7. shift \in Injection(B, D) BY <2>4, <2>5 DEF Injection, IsInjective
  <2>8. shift \in Surjection(B, D) BY <2>4, <2>6 DEF Surjection
  <2> QED BY <2>7, <2>8 DEF Bijection
<1>8. ExistsBijection(B, D) BY <1>2 DEF ExistsBijection
<1>3. IsFiniteSet(A) /\ IsFiniteSet(B) BY CountIsNat
<1> HIDE DEF A, B, C, D, shift
<1>4. IsFiniteSet(D) /\ Cardinality(D) = Cardinality(B) BY <1>3, <1>8, FS_Bijection
<1>5. Cardinality(C) = Cardinality(A) + Cardinality(D) - Cardinality({})
  BY <1>1, <1>3, <1>4, FS_Union
<1>6. Cardinality(A) \in Nat /\ Cardinality(B) \in Nat /\ Cardinality({}) = 0
  BY <1>3, FS_CardinalityType, FS_EmptySet
<1>7. Cardinality(C) = Cardinality(A) + Cardinality(B) BY <1>4, <1>5, <1>6
<1> QED BY <1>7 DEF Count, A, B, C

LEMMA CountNew ==
  ASSUME NEW r \in Nat, NEW n \in Nat, NEW m \in Nat
  PROVE  Count([i \in 1 .. n |-> r + i], m) = IF r < m /\ m <= r + n THEN 1 ELSE 0
<1> DEFINE q == [i \in 1 .. n |-> r + i]
<1>1. CASE r < m /\ m <= r + n
  <2>2. m - r \in DOMAIN q /\ q[m - r] = m BY <1>1
  <2>3. \A i \in DOMAIN q : q[i] = m => i = m - r OBVIOUS
  <2>1. {i \in DOMAIN q : q[i] = m} = {m - r} BY <2>2, <2>3
  <2> QED BY <2>1, <1>1, FS_Singleton DEF Count
<1>2. CASE ~(r < m /\ m <= r + n)
  <2>1. {i \in DOMAIN q : q[i] = m} = {} BY <1>2
  <2> QED BY <2>1, <1>2, FS_EmptySet DEF Count
<1> QED BY <1>1, <1>2

-----------------------------------------------------------------------------------
(* The lock *)

LEMMA Pushing ==
  ASSUME stack \in Seq(Frames), Below, stack = <<>> \/ Top.pc = "pump",
         NEW f \in Frames, Push(f)
  PROVE  Below' /\ stack' # <<>> /\ Top' = f
<1>1. stack' = Append(stack, f) /\ Len(stack) \in Nat /\ DOMAIN stack = 1 .. Len(stack)
  BY DEF Push
<1>2. Len(stack') = Len(stack) + 1 /\ stack'[Len(stack')] = f /\ DOMAIN stack' = 1 .. Len(stack')
      /\ \A i \in DOMAIN stack : stack'[i] = stack[i]
  BY <1>1
<1>3. \A i \in DOMAIN stack : stack[i].pc = "pump"
  <2>1. stack # <<>> => Len(stack) \in DOMAIN stack /\ Top = stack[Len(stack)]
    BY TopOfStack DEF Top
  <2> QED BY <2>1 DEF Below
<1>4. \A i \in DOMAIN stack' : i # Len(stack') => i \in DOMAIN stack BY <1>1, <1>2
<1>5. Top' = f /\ stack' # <<>> BY <1>1, <1>2 DEF Top
<1> QED BY <1>2, <1>3, <1>4, <1>5 DEF Below

LEMMA Moving ==
  ASSUME stack \in Seq(Frames), Below, stack # <<>>, NEW f \in Frames,
         stack' = [stack EXCEPT ![Len(stack)] = f]
  PROVE  Below' /\ stack' # <<>> /\ Top' = f
<1>1. /\ DOMAIN stack' = DOMAIN stack /\ stack'[Len(stack)] = f
      /\ \A i \in DOMAIN stack : i # Len(stack) => stack'[i] = stack[i]
      /\ Len(stack) \in Nat /\ Len(stack) > 0 /\ DOMAIN stack = 1 .. Len(stack)
      /\ stack' \in Seq(Frames)
  BY TopOfStack
<1>2. Len(stack') = Len(stack) /\ stack' # <<>> BY <1>1
<1> QED BY <1>1, <1>2 DEF Below, Top

LEMMA Popping ==
  ASSUME stack \in Seq(Frames), Below, stack # <<>>, Pop
  PROVE  Below' /\ (stack' # <<>> => Top'.pc = "pump")
<1> DEFINE r == SubSeq(stack, 1, Len(stack) - 1)
<1>4. Len(stack) \in Nat /\ Len(stack) > 0 /\ DOMAIN stack = 1 .. Len(stack) BY TopOfStack
<1>5. r \in Seq(Frames) /\ DOMAIN r = 1 .. Len(stack) - 1
      /\ \A i \in DOMAIN r : r[i] = stack[i]
  BY <1>4, Popped
<1>6. stack' = r BY DEF Pop
<1>7. Len(r) = Len(stack) - 1 BY <1>4
<1> HIDE DEF r
<1>1. /\ stack' \in Seq(Frames) /\ Len(stack') = Len(stack) - 1
      /\ DOMAIN stack' = 1 .. Len(stack) - 1 /\ DOMAIN stack = 1 .. Len(stack)
      /\ \A i \in DOMAIN stack' : stack'[i] = stack[i]
      /\ Len(stack) \in Nat
  BY <1>4, <1>5, <1>6, <1>7
<1>2. \A i \in DOMAIN stack' : stack'[i].pc = "pump" BY <1>1 DEF Below
<1>3. stack' # <<>> => Len(stack') \in DOMAIN stack' BY <1>1
<1> QED BY <1>2, <1>3 DEF Below, Top

LEMMA InitLock == Init => LockOK
BY DEF Init, LockOK, Below, Shut

-----------------------------------------------------------------------------------
(* Types *)

LEMMA InitType == Init => TypeOK
<1> SUFFICES ASSUME Init PROVE TypeOK OBVIOUS
<1>1. MaxNow \in Nat /\ MaxEvents \in Nat /\ MaxPauses \in Nat /\ 1 \in Periods
  BY VisualizerAssumption DEF VisualizerAssumption
<1>2. <<>> \in Seq(1 .. raised) /\ <<>> \in Seq(Frames) OBVIOUS
<1>3. 1 \in 1 .. created BY DEF Init
<1>4. /\ sim \in SimPlaces /\ lock \in {"free", "sim", "gtk"} /\ posting \in {"none"}
      /\ lock = "sim" <=> sim \in {"run", "fetch", "post", "release"}
  BY DEF Init, SimPlaces
<1>5. vizMessages = <<>> /\ messages = <<>> /\ shown = <<>> /\ stack = <<>> BY DEF Init
<1>6. {vizMessages, messages, shown} \subseteq Seq(1 .. raised) /\ stack \in Seq(Frames)
  BY <1>2, <1>5
<1>9. {go, quit, active, running} \subseteq BOOLEAN BY DEF Init
<1>7. /\ {now, target} \subseteq 0 .. MaxNow
      /\ raised \in 0 .. MaxPauses /\ idle \in Nat /\ events \in 0 .. MaxEvents
  BY <1>1 DEF Init
<1>8. /\ created \in Nat /\ live \subseteq TimerIds /\ timerId \in TimerIds \union {None}
      /\ period \in Periods
  BY <1>1, <1>3 DEF Init, TimerIds
<1> QED BY <1>4, <1>6, <1>7, <1>8, <1>9 DEF TypeOK

LEMMA MoreFrames ==
  ASSUME created \in Nat, created' \in Nat, created' >= created,
         raised \in Nat, raised' \in Nat, raised' >= raised
  PROVE  Frames \subseteq Frames' /\ Seq(Frames) \subseteq Seq(Frames')
         /\ Seq(1 .. raised) \subseteq Seq(1 .. raised')
<1>1. \A S, T : S \subseteq T => Seq(S) \subseteq Seq(T) OBVIOUS
<1>2. 1 .. raised \subseteq 1 .. raised' /\ 1 .. created \subseteq 1 .. created' OBVIOUS
<1>3. Seq(1 .. raised) \subseteq Seq(1 .. raised') BY <1>1, <1>2
<1>4. Frames \subseteq Frames' BY <1>2, <1>3 DEF Frames, TimerIds
<1> QED BY <1>1, <1>3, <1>4

Places == {"try", "pump", "take", "reset", "target", "release", "after",
           "acquire", "locked", "flag", "go", "join"}

(* The GTK thread never makes the simulation thread's messages or timers out of range. *)
LEMMA Dispatched ==
  ASSUME TypeOK, NEW c \in {"view", "model", "user", "quit"},
         NEW p \in Places,
         NEW t \in TimerIds \cup {None}
  PROVE  Append(stack, Frame(c, p, t, <<>>)) \in Seq(Frames)
<1>1. Frame(c, p, t, <<>>) \in Frames BY DEF Frame, Frames, Places
<1>2. stack \in Seq(Frames) BY DEF TypeOK
<1> QED BY <1>1, <1>2, Pushed

LEMMA Moved ==
  ASSUME TypeOK, stack # <<>>, NEW p \in Places
  PROVE  /\ [stack EXCEPT ![Len(stack)].pc = p] \in Seq(Frames)
         /\ SubSeq(stack, 1, Len(stack) - 1) \in Seq(Frames)
         /\ Top \in Frames
<1>1. stack \in Seq(Frames) BY DEF TypeOK
<1>2. Top \in Frames BY <1>1, TopOfStack DEF Top
<1>3. [Top EXCEPT !.pc = p] \in Frames BY <1>2 DEF Frames, Places
<1>4. [stack EXCEPT ![Len(stack)] = [Top EXCEPT !.pc = p]] \in Seq(Frames)
  BY <1>1, <1>3, TopOfStack
<1>5. [stack EXCEPT ![Len(stack)].pc = p] = [stack EXCEPT ![Len(stack)] = [Top EXCEPT !.pc = p]]
  BY DEF Top
<1> QED BY <1>1, <1>2, <1>4, <1>5, Popped

-----------------------------------------------------------------------------------
(* The lock *)

LockTypes ==
    /\ lock \in {"free", "sim", "gtk"}
    /\ lock = "sim" <=> sim \in {"run", "fetch", "post", "release"}
    /\ posting \in {"none", "current", "taken", "dropped"}

LEMMA LockTyped == (LockOK => LockTypes) /\ (LockOK' => LockTypes')
BY DEF LockOK, LockTypes, Shut

LEMMA SimLock == ASSUME TypeOK, LockOK, SimStep PROVE LockOK' /\ stack' = stack
<1>1. stack' = stack
  BY DEF SimStep, Loop, Wake, Clear, CheckQuit, Acquire, Run, Fetch, Post, Release, LockOK
<1>2. Below' /\ ((stack # <<>> /\ Top.pc \in Locked) <=> (stack # <<>> /\ Top.pc \in Locked)')
  BY <1>1 DEF LockOK, Below, Top
<1>7. \/ lock = "gtk" /\ stack # <<>> /\ Top.pc \in Locked
      \/ lock # "gtk" /\ ~(stack # <<>> /\ Top.pc \in Locked)
  BY DEF LockOK
<1>3. CASE Acquire BY <1>2, <1>3 DEF Acquire, LockFree, LockOK, Shut, posts
<1>4. CASE Release BY <1>2, <1>4 DEF Release, LockOK, Shut, posts
<1>5. CASE Loop \/ Wake \/ Clear \/ CheckQuit
  BY <1>2, <1>5 DEF Loop, Wake, Clear, CheckQuit, LockOK, Shut, posts
<1>6. CASE Run \/ Fetch \/ Post BY <1>2, <1>6 DEF Run, Fetch, Post, LockOK, Shut, posts
<1> QED BY <1>1, <1>3, <1>4, <1>5, <1>6 DEF SimStep

(* A callback is pushed on a loop; it goes from place to place and returns to a loop. *)
LEMMA PushLock ==
  ASSUME TypeOK, LockOK, UNCHANGED <<sim, lock, posting>>, stack = <<>> \/ Top.pc = "pump",
         NEW f \in Frames, Push(f), f.pc \notin Locked
  PROVE  LockOK'
<1>1. Below' /\ stack' # <<>> /\ Top' = f BY Pushing DEF TypeOK, LockOK
<1>2. lock # "gtk" BY DEF LockOK, Locked
<1> QED BY <1>1, <1>2 DEF LockOK

LEMMA MoveLock ==
  ASSUME TypeOK, LockOK, UNCHANGED <<sim, posting>>, stack # <<>>, NEW f \in Frames,
         stack' = [stack EXCEPT ![Len(stack)] = f],
         \/ lock' = lock /\ (Top.pc \in Locked <=> f.pc \in Locked)
         \/ LockFree /\ lock' = "gtk" /\ f.pc \in Locked
         \/ lock = "gtk" /\ lock' = "free" /\ f.pc \notin Locked
  PROVE  LockOK'
<1>1. Below' /\ stack' # <<>> /\ Top' = f BY Moving DEF TypeOK, LockOK
<1> QED BY <1>1 DEF LockOK, LockFree

LEMMA PopLock ==
  ASSUME TypeOK, LockOK, UNCHANGED <<sim, posting>>, stack # <<>>, Pop,
         \/ lock' = lock /\ Top.pc \notin Locked
         \/ lock = "gtk" /\ lock' = "free"
  PROVE  LockOK'
<1>1. Below' /\ (stack' # <<>> => Top'.pc = "pump") BY Popping DEF TypeOK, LockOK
<1>2. "pump" \notin Locked BY DEF Locked
<1> QED BY <1>1, <1>2 DEF LockOK

LEMMA GuiLock == ASSUME TypeOK, LockOK, GuiStep \/ \E k \in live : DispatchView(k) PROVE LockOK'
<1>1. CASE DispatchModel \/ \E k \in live : DispatchView(k)
  <2>1. UNCHANGED <<sim, lock, posting>> /\ (stack = <<>> \/ Top.pc = "pump")
    BY <1>1 DEF DispatchModel, DispatchView, simVars, posts, Looping
  <2>2. \E f \in Frames : Push(f) /\ f.pc \in {"acquire", "try"}
    <3>1. CASE DispatchModel
      <4>1. Frame("model", "acquire", None, <<>>) \in Frames BY DEF Frame, Frames
      <4> QED BY <3>1, <4>1 DEF DispatchModel, Frame
    <3>2. ASSUME NEW k \in live, DispatchView(k)
          PROVE  \E f \in Frames : Push(f) /\ f.pc \in {"acquire", "try"}
      <4>1. k \in TimerIds BY DEF TypeOK
      <4>2. Frame("view", "try", k, <<>>) \in Frames BY <4>1 DEF Frame, Frames
      <4> QED BY <3>2, <4>2 DEF DispatchView, Frame
    <3> QED BY <1>1, <3>1, <3>2
  <2>3. PICK f \in Frames : Push(f) /\ f.pc \in {"acquire", "try"} BY <2>2
  <2> QED BY <2>1, <2>3, PushLock DEF Locked
<1>2. ASSUME stack # <<>>, UNCHANGED <<sim, posting>>, NEW p \in Places, Goto(p),
             \/ lock' = lock /\ (Top.pc \in Locked <=> p \in Locked)
             \/ LockFree /\ lock' = "gtk" /\ p \in Locked
             \/ lock = "gtk" /\ lock' = "free" /\ p \notin Locked
      PROVE  LockOK'
  <2> DEFINE f == [Top EXCEPT !.pc = p]
  <2>1. f \in Frames /\ f.pc = p BY <1>2, Moved DEF Frames, Places
  <2>2. stack' = [stack EXCEPT ![Len(stack)] = f] BY <1>2 DEF Goto, Top
  <2> HIDE DEF f
  <2> QED BY <1>2, <2>1, <2>2, MoveLock
<1>3. CASE TakeLock \/ GiveLock
  <2>1. CASE TakeLock BY <2>1, <1>2 DEF TakeLock, In, simVars, posts, Places, Locked
  <2>2. CASE GiveLock
    <3>1. stack # <<>> /\ Top.pc = "locked" /\ lock' = "free" /\ Pop /\ UNCHANGED <<sim, posting>>
      BY <2>2 DEF GiveLock, In, simVars, posts
    <3> QED BY <3>1, PopLock DEF LockOK, Locked
  <2> QED BY <1>3, <2>1, <2>2
<1>4. CASE Try \/ TryAgain \/ Take \/ SetTarget \/ ReleaseView
  <2>1. CASE Try
    <3>1. stack # <<>> /\ Top.pc = "try" /\ UNCHANGED <<sim, posting>> BY <2>1 DEF Try, In, simVars, posts
    <3>2. \/ LockFree /\ lock' = "gtk" /\ Goto("take")
          \/ lock' = lock /\ Goto("pump")
      BY <2>1 DEF Try
    <3>3. CASE LockFree /\ lock' = "gtk" /\ Goto("take") BY <3>1, <3>3, <1>2 DEF Places, Locked
    <3>4. CASE lock' = lock /\ Goto("pump") BY <3>1, <3>4, <1>2 DEF Places, Locked
    <3> QED BY <3>2, <3>3, <3>4
  <2>2. CASE TryAgain BY <2>2, <1>2 DEF TryAgain, In, simVars, posts, Places, Locked
  <2>3. CASE Take BY <2>3, <1>2 DEF Take, In, simVars, posts, Places, Locked
  <2>4. CASE SetTarget BY <2>4, <1>2 DEF SetTarget, In, simVars, posts, Places, Locked
  <2>5. CASE ReleaseView
    <3>1. stack # <<>> /\ Top.pc = "release" /\ UNCHANGED <<sim, posting>>
          /\ lock' = "free" /\ Goto("after")
      BY <2>5 DEF ReleaseView, In, simVars, posts
    <3>2. lock = "gtk" BY <3>1 DEF LockOK, Locked
    <3> QED BY <3>1, <3>2, <1>2 DEF Places, Locked
  <2> QED BY <1>4, <2>1, <2>2, <2>3, <2>4, <2>5
<1>5. CASE Reset
  <2> DEFINE f == Frame("view", "target", Top.timer, messages)
  <2>1. /\ stack # <<>> /\ Top.pc = "reset" /\ UNCHANGED <<sim, lock>>
        /\ stack' = [stack EXCEPT ![Len(stack)] = f]
        /\ posting' = IF posting = "current" THEN "taken" ELSE posting
    BY <1>5 DEF Reset, In, simVars
  <2>2. lock = "gtk" BY <2>1 DEF LockOK, Locked
  <2>3. posting' = posting BY <2>1, <2>2 DEF LockOK, Shut
  <2>4. f \in Frames /\ f.pc = "target"
    <3>1. Top.timer \in TimerIds \cup {None} BY <2>1, Moved DEF Frames, Places
    <3>2. messages \in Seq(1 .. raised) BY DEF TypeOK
    <3> QED BY <3>1, <3>2 DEF Frame, Frames
  <2> HIDE DEF f
  <2> QED BY <2>1, <2>3, <2>4, MoveLock DEF Locked
<1>6. CASE AfterView \/ Join
  <2>1. stack # <<>> /\ Pop /\ UNCHANGED <<sim, lock>> /\ Top.pc \in {"after", "join"}
    BY <1>6 DEF AfterView, Join, In, simVars
  <2>2. posting' = posting BY <1>6 DEF AfterView, Join, posts, LockOK
  <2> QED BY <2>1, <2>2, PopLock DEF Locked
<1>7. CASE TellThread
  <2>1. /\ stack # <<>> /\ Top.pc \in {"flag", "go"} /\ UNCHANGED <<sim, lock, posting>>
        /\ \E p \in {"go", "join"} : Goto(p)
    BY <1>7 DEF TellThread, In, simVars, posts
  <2> QED BY <2>1, <1>2 DEF Places, Locked
<1> QED BY <1>1, <1>3, <1>4, <1>5, <1>6, <1>7 DEF GuiStep

LEMMA UserLock == ASSUME TypeOK, LockOK, UserStep PROVE LockOK'
<1>1. UNCHANGED <<sim, lock, posting>>
  BY DEF UserStep, Toggle, ChangeSpeed, TouchModel, CloseWindow, simVars, posts
<1>2. CASE Toggle \/ ChangeSpeed
  <2>1. stack' = stack BY <1>2 DEF Toggle, ChangeSpeed
  <2> QED BY <1>1, <2>1 DEF LockOK, Below, Top
<1>3. CASE TouchModel \/ CloseWindow
  <2>1. stack = <<>> \/ Top.pc = "pump" BY <1>3 DEF TouchModel, CloseWindow, UserCan, Looping
  <2>2. \A c \in {"user", "quit"}, p \in {"acquire", "flag"} :
          Frame(c, p, None, <<>>) \in Frames /\ Frame(c, p, None, <<>>).pc = p
    BY DEF Frame, Frames
  <2>3. PICK f \in Frames : Push(f) /\ f.pc \in {"acquire", "flag"}
    BY <1>3, <2>2 DEF TouchModel, CloseWindow
  <2> QED BY <1>1, <2>1, <2>3, PushLock DEF Locked
<1> QED BY <1>2, <1>3 DEF UserStep

LEMMA LockNext == ASSUME TypeOK, LockOK, [Next]_vars PROVE LockOK'
<1>1. CASE UNCHANGED vars
  BY <1>1 DEF vars, simVars, posts, LockOK, Below, Top
<1> QED BY <1>1, SimLock, GuiLock, UserLock DEF Next

-----------------------------------------------------------------------------------
(* Types *)

LEMMA Frozen ==
  ASSUME TypeOK, LockOK', UNCHANGED simVars, created' = created, stack' \in Seq(Frames),
         UNCHANGED <<messages, shown>>
  PROVE  /\ Frames' = Frames /\ TimerIds' = TimerIds /\ stack' \in Seq(Frames')
         /\ {vizMessages', messages', shown'} \subseteq Seq(1 .. raised')
         /\ raised' \in 0 .. MaxPauses /\ created' \in Nat /\ now' \in 0 .. MaxNow
         /\ sim' \in SimPlaces /\ LockTypes'
<1>1. LockTypes' BY LockTyped
<1> QED BY <1>1 DEF TypeOK, simVars, Frames, TimerIds

LEMMA SimType == ASSUME TypeOK, LockOK, LockOK', SimStep PROVE TypeOK'
<1>1. UNCHANGED <<timers, user, quit, target, shown, stack, running>>
  BY SimLock DEF SimStep, Loop, Wake, Clear, CheckQuit, Acquire, Run, Fetch, Post, Release, timers, user
<1>2. created \in Nat /\ raised \in Nat /\ MaxPauses \in Nat
  BY VisualizerAssumption DEF TypeOK, VisualizerAssumption
<1>3. raised' \in Nat /\ raised' >= raised /\ raised' <= MaxPauses
  BY <1>2 DEF TypeOK, SimStep, Loop, Wake, Clear, CheckQuit, Acquire, Run, Fetch, Post, Release
<1>4. Seq(Frames) \subseteq Seq(Frames') /\ Seq(1 .. raised) \subseteq Seq(1 .. raised')
  BY <1>1, <1>2, <1>3, MoreFrames DEF timers
<1>9. sim' \in SimPlaces
  BY DEF SimStep, Loop, Wake, Clear, CheckQuit, Acquire, Run, Fetch, Post, Release, SimPlaces
<1>10. LockTypes' BY LockTyped
<1>5. go' \in BOOLEAN /\ idle' \in Nat
  <2>1. go' = go \/ go' = FALSE
    BY DEF SimStep, Loop, Wake, Clear, CheckQuit, Acquire, Run, Fetch, Post, Release
  <2>2. idle' = idle \/ idle' = idle + 1
    BY DEF SimStep, Loop, Wake, Clear, CheckQuit, Acquire, Run, Fetch, Post, Release
  <2>3. go \in BOOLEAN /\ idle \in Nat BY DEF TypeOK
  <2>4. go' \in BOOLEAN BY <2>1, <2>3
  <2> QED BY <2>2, <2>3, <2>4
<1>6. vizMessages' \in Seq(1 .. raised') /\ now' \in 0 .. MaxNow
  <2>1. CASE Run
    <3>1. now \in Nat /\ target \in Nat /\ now <= MaxNow /\ target <= MaxNow /\ MaxNow \in Nat
      BY VisualizerAssumption DEF TypeOK, VisualizerAssumption
    <3>2. now' \in 0 .. MaxNow BY <2>1, <3>1 DEF Run
    <3>3. PICK n \in 0 .. MaxPauses - raised :
                 raised' = raised + n /\ vizMessages' = [i \in 1 .. n |-> raised + i]
      BY <2>1 DEF Run
    <3>4. n \in Nat /\ \A i \in 1 .. n : raised + i \in 1 .. raised' BY <3>3, <1>2
    <3>5. [i \in 1 .. n |-> raised + i] \in Seq(1 .. raised') BY <3>4
    <3> QED BY <3>2, <3>3, <3>5
  <2>2. CASE ~Run
    <3>1. UNCHANGED <<now, vizMessages, raised>>
      BY <2>2 DEF SimStep, Loop, Wake, Clear, CheckQuit, Acquire, Fetch, Post, Release
    <3> QED BY <3>1 DEF TypeOK
  <2> QED BY <2>1, <2>2
<1>7. messages' \in Seq(1 .. raised')
  <2>1. messages' = messages \/ messages' = messages \o vizMessages
    BY DEF posts, SimStep, Loop, Wake, Clear, CheckQuit, Acquire, Run, Fetch, Post, Release
  <2>2. messages \in Seq(1 .. raised) /\ vizMessages \in Seq(1 .. raised) BY DEF TypeOK
  <2>3. messages \o vizMessages \in Seq(1 .. raised) BY <2>2, Joined
  <2>4. messages' \in Seq(1 .. raised) BY <2>1, <2>2, <2>3
  <2> QED BY <2>4, <1>4
<1>8. stack' \in Seq(Frames') /\ shown' \in Seq(1 .. raised') BY <1>1, <1>4 DEF TypeOK
<1> QED BY <1>1, <1>2, <1>3, <1>5, <1>6, <1>7, <1>8, <1>9, <1>10 DEF TypeOK, LockTypes, timers, user, TimerIds

LEMMA GuiType ==
  ASSUME TypeOK, LockOK', GuiStep \/ \E k \in live : DispatchView(k)
  PROVE  TypeOK'
<1>1. MaxNow \in Nat /\ Periods \subseteq Nat /\ None \notin Nat
  BY VisualizerAssumption DEF VisualizerAssumption
<1>2. stack \in Seq(Frames) /\ idle \in Nat BY DEF TypeOK
<1>9. LockTypes' BY LockTyped
<1>3. CASE DispatchModel \/ \E k \in live : DispatchView(k)
  <2>1. /\ UNCHANGED <<simVars, timers, user, go, quit, target, messages, shown, running>>
        /\ idle' \in Nat
    BY <1>2, <1>3 DEF DispatchModel, DispatchView, posts
  <2>2. stack' \in Seq(Frames)
    <3>1. CASE DispatchModel BY <3>1, Dispatched DEF DispatchModel, Push, Places
    <3>2. ASSUME NEW k \in live, DispatchView(k) PROVE stack' \in Seq(Frames)
      <4>1. k \in TimerIds BY DEF TypeOK
      <4> QED BY <4>1, <3>2, Dispatched DEF DispatchView, Push, Places
    <3> QED BY <1>3, <3>1, <3>2
  <2> QED BY <2>1, <2>2, <1>9, Frozen DEF TypeOK, LockTypes, timers, user
<1>4. CASE TakeLock \/ GiveLock \/ Try \/ TryAgain \/ Take \/ ReleaseView
  <2>1. /\ UNCHANGED <<simVars, timers, user, go, quit, target, messages, shown, idle, running>>
        /\ stack # <<>>
    BY <1>4 DEF TakeLock, GiveLock, Try, TryAgain, Take, ReleaseView, In, posts
  <2>2. Pop \/ \E p \in Places : Goto(p)
    BY <1>4 DEF TakeLock, GiveLock, Try, TryAgain, Take, ReleaseView, Places
  <2>3. stack' \in Seq(Frames)
    <3>1. CASE Pop BY <2>1, <3>1, Moved DEF Pop, Places
    <3>2. ASSUME NEW p \in Places, Goto(p) PROVE stack' \in Seq(Frames)
      BY <2>1, <3>2, Moved DEF Goto
    <3> QED BY <2>2, <3>1, <3>2
  <2> QED BY <2>1, <2>3, <1>9, Frozen DEF TypeOK, LockTypes, timers, user
<1>10. CASE SetTarget
  <2>1. /\ UNCHANGED <<simVars, timers, user, go, quit, messages, shown, idle, running>>
        /\ stack # <<>> /\ target' = NewTarget /\ Goto("release")
    BY <1>10 DEF SetTarget, In, posts
  <2>2. stack' \in Seq(Frames) BY <2>1, Moved DEF Goto, Places
  <2>3. target' \in 0 .. MaxNow BY <2>1, <1>1 DEF NewTarget, TypeOK
  <2> QED BY <2>1, <2>2, <2>3, <1>9, Frozen DEF TypeOK, LockTypes, timers, user
<1>5. CASE TellThread \/ Join
  <2>1. /\ UNCHANGED <<simVars, timers, user, target, messages, shown, idle>>
        /\ stack # <<>> /\ {go', quit', running'} \subseteq BOOLEAN
    BY <1>5 DEF TellThread, Join, In, Flag, TypeOK, posts
  <2>2. stack' \in Seq(Frames)
    <3>1. Pop \/ \E p \in {"go", "join"} : Goto(p) BY <1>5 DEF TellThread, Join
    <3> QED BY <3>1, <2>1, Moved DEF Pop, Goto, Places
  <2> QED BY <2>1, <2>2, <1>9, Frozen DEF TypeOK, LockTypes, timers, user
<1>6. CASE Reset
  <2>1. /\ UNCHANGED <<simVars, timers, user, go, quit, target, shown, idle, running>>
        /\ stack # <<>> /\ messages' = <<>>
    BY <1>6 DEF Reset, In
  <2>2. Top \in Frames /\ messages \in Seq(1 .. raised) BY <2>1, Moved DEF TypeOK, Places
  <2>3. stack' \in Seq(Frames)
    <3>1. Frame("view", "target", Top.timer, messages) \in Frames BY <2>2 DEF Frame, Frames
    <3> QED BY <3>1, <2>1, <1>2, <1>6, TopOfStack DEF Reset
  <2>5. messages' \in Seq(1 .. raised) BY <2>1
  <2>6. UNCHANGED <<raised, created>> BY <2>1 DEF simVars, timers
  <2>7. Frames' = Frames /\ TimerIds' = TimerIds BY <2>6 DEF Frames, TimerIds
  <2> QED BY <2>1, <2>3, <2>5, <2>6, <2>7, <1>9 DEF TypeOK, LockTypes, simVars, timers, user
<1>7. CASE AfterView
  <2>1. /\ UNCHANGED <<simVars, created, period, events, quit, target, messages, idle, running>>
        /\ stack # <<>> /\ stack' = SubSeq(stack, 1, Len(stack) - 1)
        /\ shown' = shown \o Top.messages
    BY <1>7 DEF AfterView, In, Pop
  <2>2. Top.messages \in Seq(1 .. raised) /\ shown \in Seq(1 .. raised) /\ stack' \in Seq(Frames)
    BY <2>1, Moved DEF TypeOK, Frames, Places
  <2>3. shown' \in Seq(1 .. raised) BY <2>1, <2>2, Joined
  <2>4. /\ active' \in BOOLEAN /\ go' \in BOOLEAN /\ live' \subseteq TimerIds
        /\ timerId' \in TimerIds \cup {None}
    <3>1. active' = (active /\ ~ShowMessages) /\ active \in BOOLEAN BY <1>7 DEF AfterView, TypeOK
    <3>2. live' \subseteq live /\ timerId' \in {timerId, None} /\ go' \in {go, TRUE}
      BY <1>7 DEF AfterView
    <3> QED BY <3>1, <3>2 DEF TypeOK
  <2>5. UNCHANGED <<raised, created>> BY <2>1 DEF simVars
  <2>6. Frames' = Frames /\ TimerIds' = TimerIds BY <2>5 DEF Frames, TimerIds
  <2> QED BY <2>1, <2>2, <2>3, <2>4, <2>5, <2>6, <1>9 DEF TypeOK, LockTypes, simVars
<1> QED BY <1>3, <1>4, <1>5, <1>6, <1>7, <1>10 DEF GuiStep

LEMMA UserType == ASSUME TypeOK, LockOK', UserStep PROVE TypeOK'
<1>1. /\ UNCHANGED <<simVars, go, quit, target, messages, shown, idle, running>>
      /\ created \in Nat /\ stack \in Seq(Frames) /\ events \in 0 .. MaxEvents /\ MaxEvents \in Nat
  BY VisualizerAssumption
  DEF UserStep, Toggle, ChangeSpeed, TouchModel, CloseWindow, TypeOK, VisualizerAssumption, posts
<1>2. created' \in {created, created + 1}
  BY DEF UserStep, Toggle, ChangeSpeed, TouchModel, CloseWindow, StartTimer, timers, user
<1>3. /\ raised' = raised /\ raised \in Nat /\ Frames \subseteq Frames'
      /\ Seq(Frames) \subseteq Seq(Frames') /\ TimerIds \subseteq TimerIds'
      /\ created' \in TimerIds' \/ created' = created
  <2>1. raised' = raised /\ raised \in Nat BY <1>1 DEF simVars, TypeOK
  <2>2. TimerIds \subseteq TimerIds' /\ (created' = created + 1 => created' \in TimerIds')
    BY <1>1, <1>2 DEF TimerIds
  <2> QED BY <2>1, <2>2, <1>1, <1>2, MoreFrames
<1>4. stack' \in Seq(Frames')
  <2>1. stack' \in Seq(Frames)
    BY <1>1, Dispatched DEF UserStep, Toggle, ChangeSpeed, TouchModel, CloseWindow, Push, Places
  <2> QED BY <2>1, <1>3
<1>5. live' \subseteq TimerIds' /\ timerId' \in TimerIds' \cup {None}
  <2>1. live \subseteq TimerIds /\ timerId \in TimerIds \cup {None} BY DEF TypeOK
  <2>2. StartTimer => created' = created + 1 /\ live' \subseteq live \cup {created'} /\ timerId' = created'
    BY DEF StartTimer
  <2>3. StartTimer => created' \in TimerIds' BY <2>2, <1>1 DEF TimerIds
  <2>4. StartTimer \/ (live' \subseteq live /\ timerId' \in {timerId, None})
    BY DEF UserStep, Toggle, ChangeSpeed, TouchModel, CloseWindow, timers
  <2> QED BY <2>1, <2>2, <2>3, <2>4, <1>3
<1>6. active' \in BOOLEAN /\ period' \in Periods /\ events' \in 0 .. MaxEvents
  <2>1. active \in BOOLEAN /\ period \in Periods BY DEF TypeOK
  <2>2. events' = events \/ (events' = events + 1 /\ events < MaxEvents)
    BY DEF UserStep, Toggle, ChangeSpeed, TouchModel, CloseWindow, UserCan, user
  <2>3. active' \in BOOLEAN /\ period' \in Periods
    <3>1. CASE Toggle
      <4>1. active' = ~active /\ period' = period BY <3>1 DEF Toggle
      <4> QED BY <4>1, <2>1
    <3>2. CASE ~Toggle
      BY <3>2, <2>1 DEF UserStep, ChangeSpeed, TouchModel, CloseWindow, user
    <3> QED BY <3>1, <3>2
  <2> QED BY <2>1, <2>2, <2>3, <1>1
<1>7. LockTypes' BY LockTyped
<1> QED BY <1>1, <1>2, <1>3, <1>4, <1>5, <1>6, <1>7 DEF TypeOK, LockTypes, simVars

LEMMA TypeNext == TypeOK /\ LockOK /\ [Next]_vars => TypeOK' /\ LockOK'
<1> SUFFICES ASSUME TypeOK, LockOK, [Next]_vars PROVE TypeOK' /\ LockOK' OBVIOUS
<1>1. LockOK' BY LockNext
<1>2. CASE UNCHANGED vars
  BY <1>1, <1>2 DEF TypeOK, vars, simVars, posts, timers, user, Frames, TimerIds
<1>3. CASE SimStep BY <1>1, <1>3, SimType
<1>4. CASE GuiStep \/ \E k \in live : DispatchView(k) BY <1>1, <1>4, GuiType
<1>5. CASE UserStep BY <1>1, <1>5, UserType
<1> QED BY <1>1, <1>2, <1>3, <1>4, <1>5 DEF Next

-----------------------------------------------------------------------------------
(* Where a pause message is *)

LEMMA Messages ==
  ASSUME TypeOK
  PROVE  /\ messages \in Seq(1 .. raised) /\ shown \in Seq(1 .. raised)
         /\ vizMessages \in Seq(1 .. raised) /\ stack \in Seq(Frames) /\ raised \in Nat
         /\ \A i \in DOMAIN stack : stack[i].messages \in Seq(1 .. raised)
<1>1. stack \in Seq(Frames) BY DEF TypeOK
<1>2. \A i \in DOMAIN stack : stack[i] \in Frames BY <1>1
<1>3. \A f \in Frames : f.messages \in Seq(1 .. raised) BY DEF Frames
<1> QED BY <1>1, <1>2, <1>3 DEF TypeOK

LEMMA TakenIsNat ==
  ASSUME NEW F, NEW s \in Seq(F), NEW m
  PROVE  Taken(s, m) \in Nat /\ IsFiniteSet({i \in DOMAIN s : Count(s[i].messages, m) = 1})
<1>1. DOMAIN s = 1 .. Len(s) /\ Len(s) \in Nat OBVIOUS
<1>2. IsFiniteSet(1 .. Len(s)) BY <1>1, FS_Interval
<1>3. {i \in DOMAIN s : Count(s[i].messages, m) = 1} \in SUBSET (1 .. Len(s)) BY <1>1
<1> QED BY <1>2, <1>3, FS_Subset, FS_CardinalityType DEF Taken

(* Only what the innermost callback has taken changes when it comes, moves or goes. *)
LEMMA TakenSame ==
  ASSUME NEW m, NEW s, NEW r,
         {i \in DOMAIN s : Count(s[i].messages, m) = 1} = {i \in DOMAIN r : Count(r[i].messages, m) = 1}
  PROVE  Taken(s, m) = Taken(r, m)
BY DEF Taken

LEMMA TakenTop ==
  ASSUME NEW F, NEW s \in Seq(F), s # <<>>, NEW m, Count(s[Len(s)].messages, m) = 0,
         NEW f \in F, NEW n \in {0, 1}, Count(f.messages, m) = n
  PROVE  Taken([s EXCEPT ![Len(s)] = f], m) = Taken(s, m) + n
<1> DEFINE A == {i \in DOMAIN s : Count(s[i].messages, m) = 1}
           r == [s EXCEPT ![Len(s)] = f]
           B == {i \in DOMAIN r : Count(r[i].messages, m) = 1}
<1>1. IsFiniteSet(A) /\ Cardinality(A) \in Nat BY TakenIsNat DEF Taken
<1>2. Len(s) \notin A /\ Len(s) \in DOMAIN s BY TopOfStack
<1>3. /\ DOMAIN r = DOMAIN s /\ r[Len(s)] = f
      /\ \A i \in DOMAIN s : i # Len(s) => r[i] = s[i]
  BY TopOfStack
<1>4. B = IF n = 1 THEN A \cup {Len(s)} ELSE A BY <1>2, <1>3
<1> HIDE DEF A, B, r
<1>5. Cardinality(B) = Cardinality(A) + n
  <2>1. CASE n = 1 BY <2>1, <1>1, <1>2, <1>4, FS_AddElement
  <2>2. CASE n = 0 BY <2>2, <1>1, <1>4
  <2> QED BY <2>1, <2>2
<1> QED BY <1>5 DEF Taken, A, B, r

LEMMA TakenPopped ==
  ASSUME NEW F, NEW s \in Seq(F), s # <<>>, NEW m,
         NEW n \in {0, 1}, Count(s[Len(s)].messages, m) = n
  PROVE  Taken(s, m) = Taken(SubSeq(s, 1, Len(s) - 1), m) + n
<1> DEFINE A == {i \in DOMAIN s : Count(s[i].messages, m) = 1}
           r == SubSeq(s, 1, Len(s) - 1)
           B == {i \in DOMAIN r : Count(r[i].messages, m) = 1}
<1>1. /\ r \in Seq(F) /\ DOMAIN r = DOMAIN s \ {Len(s)}
      /\ \A i \in DOMAIN s \ {Len(s)} : r[i] = s[i]
  BY Popped
<1>2. IsFiniteSet(B) /\ Cardinality(B) \in Nat
  <2>1. r \in Seq(F) BY <1>1
  <2> HIDE DEF r
  <2>2. Taken(r, m) \in Nat /\ IsFiniteSet(B) BY <2>1, TakenIsNat
  <2> QED BY <2>2 DEF Taken
<1>3. Len(s) \in DOMAIN s /\ Len(s) \notin B BY <1>1, TopOfStack
<1>4. A = IF n = 1 THEN B \cup {Len(s)} ELSE B BY <1>1, <1>3
<1> HIDE DEF A, B, r
<1>5. Cardinality(A) = Cardinality(B) + n
  <2>1. CASE n = 1 BY <2>1, <1>2, <1>3, <1>4, FS_AddElement
  <2>2. CASE n = 0 BY <2>2, <1>2, <1>4
  <2> QED BY <2>1, <2>2
<1> QED BY <1>5 DEF Taken, A, B, r

LEMMA TakenPushed ==
  ASSUME NEW F, NEW s \in Seq(F), NEW f \in F, NEW m, f.messages = <<>>
  PROVE  Taken(Append(s, f), m) = Taken(s, m)
<1>1. Count(f.messages, m) = 0 BY CountEmpty
<1>2. {i \in DOMAIN s : Count(s[i].messages, m) = 1}
      = {i \in DOMAIN Append(s, f) : Count(Append(s, f)[i].messages, m) = 1}
  BY <1>1, Pushed
<1> QED BY <1>2, TakenSame

LEMMA Counts ==
  ASSUME TypeOK, NEW m
  PROVE  /\ Count(messages, m) \in Nat /\ Count(shown, m) \in Nat /\ Count(vizMessages, m) \in Nat
         /\ Taken(stack, m) \in Nat
BY Messages, CountIsNat, TakenIsNat

LEMMA InitOnce == Init => FramesOK /\ \A m \in 1 .. raised : Once(m)
BY DEF Init, FramesOK

(* The messages the simulator raises are new; Post moves them with their sequence to   *)
(* the list that is still the simulation's.                                             *)
LEMMA SimOnce == ASSUME Inv, TypeOK', SimStep PROVE FramesOK' /\ (\A m \in 1 .. raised : Once(m))'
<1>1. stack' = stack /\ shown' = shown /\ TypeOK /\ LockOK
  BY SimLock DEF Inv, SimStep, Loop, Wake, Clear, CheckQuit, Acquire, Run, Fetch, Post, Release
<1>2. CASE Run
  <2>1. messages' = messages /\ sim = "run" /\ sim' = "fetch" BY <1>2 DEF Run, posts
  <2>2. PICK n \in 0 .. MaxPauses - raised :
               raised' = raised + n /\ vizMessages' = [i \in 1 .. n |-> raised + i]
    BY <1>2 DEF Run
  <2>9. raised \in Nat /\ n \in Nat
    <3>1. raised \in Nat /\ MaxPauses \in Nat
      BY <1>1, Messages, VisualizerAssumption DEF VisualizerAssumption
    <3> QED BY <3>1
  <2>3. ASSUME NEW m, m \notin 1 .. raised
        PROVE  /\ Count(messages, m) = 0 /\ Count(shown, m) = 0 /\ Taken(stack, m) = 0
               /\ \A i \in DOMAIN stack : Count(stack[i].messages, m) = 0
    <3>1. \A q \in Seq(1 .. raised) : Count(q, m) = 0
      <4> TAKE q \in Seq(1 .. raised)
      <4>1. \A i \in DOMAIN q : q[i] \in 1 .. raised BY InSequence
      <4>2. \A i \in DOMAIN q : q[i] # m BY <4>1, <2>3
      <4> QED BY <4>2, CountIsNat
    <3>2. \A i \in DOMAIN stack : Count(stack[i].messages, m) = 0 BY <3>1, <1>1, Messages
    <3>3. {i \in DOMAIN stack : Count(stack[i].messages, m) = 1} = {} BY <3>2
    <3> QED BY <3>1, <3>2, <3>3, <1>1, Messages, FS_EmptySet DEF Taken
  <2>4. \A m \in 1 .. raised' : Count(vizMessages', m) = IF raised < m THEN 1 ELSE 0
    <3> TAKE m \in 1 .. raised'
    <3>1. Count([i \in 1 .. n |-> raised + i], m) = IF raised < m /\ m <= raised + n THEN 1 ELSE 0
      BY <2>2, <2>9, CountNew
    <3> QED BY <3>1, <2>2, <2>9
  <2>5. \A m \in 1 .. raised : m \in 1 .. raised' /\ Count(vizMessages', m) = 0
    BY <2>2, <2>4, <2>9
  <2>6. FramesOK'
    <3>1. ASSUME NEW i \in DOMAIN stack, NEW m \in 1 .. raised'
          PROVE  Count(stack[i].messages, m) <= 1
      <4>1. CASE m \in 1 .. raised BY <4>1 DEF Inv, FramesOK, FrameOK
      <4>2. CASE m \notin 1 .. raised BY <4>2, <2>3
      <4> QED BY <4>1, <4>2
    <3> QED BY <3>1, <1>1 DEF Inv, FramesOK, FrameOK
  <2>7. ASSUME NEW m \in 1 .. raised' PROVE Once(m)'
    <3>1. CASE m \in 1 .. raised
      <4>1. Once(m) BY <3>1 DEF Inv
      <4> QED BY <4>1, <3>1, <2>1, <2>5, <1>1 DEF Once
    <3>2. CASE m \notin 1 .. raised
      <4>2. Count(vizMessages', m) = 1 BY <3>2, <2>4, <2>9
      <4> QED BY <4>2, <3>2, <2>1, <2>3, <1>1 DEF Once
    <3> QED BY <3>1, <3>2
  <2> QED BY <2>6, <2>7
<1>3. CASE Post
  <2>1. /\ messages' = messages \o vizMessages /\ UNCHANGED <<raised, vizMessages>>
        /\ sim = "post" /\ sim' = "release"
    BY <1>3, <1>1 DEF Post, LockOK
  <2>2. FramesOK' BY <2>1, <1>1 DEF Inv, FramesOK, FrameOK
  <2>3. ASSUME NEW m \in 1 .. raised PROVE Once(m)'
    <3>1. Once(m) BY DEF Inv
    <3>2. Count(messages', m) = Count(messages, m) + Count(vizMessages, m)
      BY <2>1, <1>1, Messages, CountJoined
    <3> QED BY <3>1, <3>2, <2>1, <1>1, Counts DEF Once
  <2> QED BY <2>1, <2>2, <2>3
<1>4. CASE ~Run /\ ~Post
  <2>1. UNCHANGED <<messages, vizMessages, raised>>
        /\ (sim \in {"fetch", "post"} <=> sim' \in {"fetch", "post"})
    BY <1>4 DEF SimStep, Loop, Wake, Clear, CheckQuit, Acquire, Fetch, Release, posts
  <2>2. FramesOK' BY <2>1, <1>1 DEF Inv, FramesOK, FrameOK
  <2>3. ASSUME NEW m \in 1 .. raised PROVE Once(m)'
    <3>1. Once(m) BY DEF Inv
    <3> QED BY <3>1, <2>1, <1>1 DEF Once
  <2> QED BY <2>1, <2>2, <2>3
<1> QED BY <1>2, <1>3, <1>4

(* Callbacks without messages come and go. *)
LEMMA Elsewhere ==
  ASSUME Inv, UNCHANGED <<simVars, messages, shown>>,
         \/ stack' = stack
         \/ \E f \in Frames : f.messages = <<>> /\ Push(f)
         \/ /\ stack # <<>>
            /\ \/ Pop /\ Top.pc \notin Loaded
               \/ \E p \in Places : Goto(p) /\ (Top.pc \in Loaded <=> p \in Loaded)
  PROVE  FramesOK' /\ (\A m \in 1 .. raised : Once(m))'
<1>1. TypeOK /\ FramesOK /\ UNCHANGED <<messages, shown, sim, vizMessages, raised>>
  BY DEF Inv, simVars
<1>2. stack \in Seq(Frames) BY <1>1, Messages
<1>3. SUFFICES /\ \A i \in DOMAIN stack' : FrameOK(stack'[i])
               /\ \A m \in 1 .. raised : Taken(stack', m) = Taken(stack, m)
  <2>1. FramesOK' BY <1>1, <1>3 DEF FramesOK, FrameOK
  <2>2. ASSUME NEW m \in 1 .. raised PROVE Once(m)'
    <3>1. Once(m) BY DEF Inv
    <3> QED BY <3>1, <1>1, <1>3 DEF Once
  <2> QED BY <2>1, <2>2, <1>1
<1>4. CASE stack' = stack BY <1>4, <1>1 DEF FramesOK
<1>5. ASSUME NEW f \in Frames, f.messages = <<>>, Push(f)
      PROVE  /\ \A i \in DOMAIN stack' : FrameOK(stack'[i])
             /\ \A m \in 1 .. raised : Taken(stack', m) = Taken(stack, m)
  <2>1. stack' = Append(stack, f) BY <1>5 DEF Push
  <2>2. FrameOK(f) BY <1>5, CountEmpty DEF FrameOK
  <2>3. \A i \in DOMAIN stack' : FrameOK(stack'[i]) BY <2>1, <2>2, <1>1, <1>2, Pushed DEF FramesOK
  <2>4. \A m : Taken(stack', m) = Taken(stack, m) BY <2>1, <1>2, <1>5, TakenPushed
  <2> QED BY <2>3, <2>4
<1>6. CASE stack # <<>> /\ stack' # stack
  <2>1. Len(stack) \in DOMAIN stack /\ Top = stack[Len(stack)] /\ Top \in Frames
    BY <1>2, <1>6, TopOfStack DEF Top
  <2>4. ASSUME Pop, Top.pc \notin Loaded
        PROVE  /\ \A i \in DOMAIN stack' : FrameOK(stack'[i])
               /\ \A m \in 1 .. raised : Taken(stack', m) = Taken(stack, m)
    <3>2. Top.messages = <<>> BY <2>1, <2>4, <1>1 DEF FramesOK, FrameOK
    <3>3. \A m : Count(stack[Len(stack)].messages, m) = 0 BY <2>1, <3>2, CountEmpty
    <3>1. stack' = SubSeq(stack, 1, Len(stack) - 1) BY <2>4 DEF Pop
    <3>4. \A i \in DOMAIN stack' : FrameOK(stack'[i]) BY <3>1, <1>1, <1>2, <1>6, Popped DEF FramesOK
    <3>5. ASSUME NEW m PROVE Taken(stack', m) = Taken(stack, m)
      <4>1. Taken(stack, m) = Taken(stack', m) + 0 BY <3>1, <3>3, <1>2, <1>6, TakenPopped
      <4>2. stack' \in Seq(Frames) BY <3>1, <1>2, <1>6, Popped
      <4> HIDE DEF Frames
      <4>3. Taken(stack', m) \in Nat BY <4>2, TakenIsNat
      <4> QED BY <4>1, <4>3
    <3> QED BY <3>4, <3>5
  <2>5. ASSUME NEW p \in Places, Goto(p), Top.pc \in Loaded <=> p \in Loaded
        PROVE  /\ \A i \in DOMAIN stack' : FrameOK(stack'[i])
               /\ \A m \in 1 .. raised : Taken(stack', m) = Taken(stack, m)
    <3> DEFINE f == [Top EXCEPT !.pc = p]
    <3>1. f \in Frames /\ f.messages = Top.messages /\ f.pc = p BY <2>1 DEF Frames, Places
    <3>2. stack' = [stack EXCEPT ![Len(stack)] = f] BY <2>5, <2>1 DEF Goto
    <3>3. FrameOK(f) BY <3>1, <2>1, <2>5, <1>1 DEF FramesOK, FrameOK
    <3> HIDE DEF f
    <3>4. \A i \in DOMAIN stack' : FrameOK(stack'[i])
      BY <3>1, <3>2, <3>3, <1>1, <1>2, <1>6, TopOfStack DEF FramesOK
    <3>5. ASSUME NEW m PROVE Taken(stack', m) = Taken(stack, m)
      <4>1. /\ DOMAIN stack' = DOMAIN stack
            /\ \A i \in DOMAIN stack : stack'[i].messages = stack[i].messages
        BY <3>1, <3>2, <2>1, <1>2, <1>6, TopOfStack
      <4>2. {i \in DOMAIN stack : Count(stack[i].messages, m) = 1}
            = {i \in DOMAIN stack' : Count(stack'[i].messages, m) = 1}
        BY <4>1
      <4> QED BY <4>2, TakenSame
    <3> QED BY <3>4, <3>5
  <2>6. /\ \A i \in DOMAIN stack' : FrameOK(stack'[i])
        /\ \A m \in 1 .. raised : Taken(stack', m) = Taken(stack, m)
    BY <2>4, <2>5, <1>5, <1>6
  <2> QED BY <2>6
<1> QED BY <1>4, <1>5, <1>6

LEMMA UserOnce == ASSUME Inv, UserStep PROVE FramesOK' /\ (\A m \in 1 .. raised : Once(m))'
<1>1. UNCHANGED <<simVars, messages, shown>>
  BY DEF UserStep, Toggle, ChangeSpeed, TouchModel, CloseWindow, posts
<1>2. stack' = stack \/ \E f \in Frames : f.messages = <<>> /\ Push(f)
  <2>1. \A c \in {"user", "quit"}, p \in {"acquire", "flag"} :
          Frame(c, p, None, <<>>) \in Frames /\ Frame(c, p, None, <<>>).messages = <<>>
    BY DEF Frame, Frames
  <2> QED BY <2>1 DEF UserStep, Toggle, ChangeSpeed, TouchModel, CloseWindow
<1> QED BY <1>1, <1>2, Elsewhere

(* The view takes the messages in one statement and shows them in another. *)
LEMMA ResetOnce == ASSUME Inv, Reset PROVE FramesOK' /\ (\A m \in 1 .. raised : Once(m))'
<1>1. TypeOK /\ FramesOK /\ UNCHANGED <<simVars, shown>> /\ stack # <<>> /\ Top.pc = "reset"
  BY DEF Inv, Reset, In
<1>2. stack \in Seq(Frames) /\ messages \in Seq(1 .. raised) BY <1>1, Messages
<1> DEFINE f == Frame("view", "target", Top.timer, messages)
<1>11. stack' = [stack EXCEPT ![Len(stack)] = f] /\ messages' = <<>>
  BY DEF Reset
<1>12. Len(stack) \in DOMAIN stack /\ Top = stack[Len(stack)] /\ Top \in Frames
  BY <1>1, <1>2, TopOfStack DEF Top
<1>13. f \in Frames /\ f.messages = messages /\ f.pc = "target"
  BY <1>2, <1>12 DEF Frame, Frames
<1>14. Top.messages = <<>> BY <1>1, <1>12 DEF FramesOK, FrameOK, Loaded
<1> HIDE DEF f
<1>15. ASSUME NEW m \in 1 .. raised PROVE Count(messages, m) \in {0, 1} /\ Once(m)
  <2>1. Once(m) BY DEF Inv
  <2> QED BY <2>1, <1>1, Counts DEF Once
<1>16. FrameOK(f) BY <1>13, <1>15 DEF FrameOK, Loaded
<1>17. FramesOK'
  <2>1. \A i \in DOMAIN stack' : FrameOK(stack'[i])
    BY <1>11, <1>13, <1>16, <1>1, <1>2, TopOfStack DEF FramesOK
  <2> QED BY <2>1, <1>1 DEF FramesOK, FrameOK, simVars
<1>18. ASSUME NEW m \in 1 .. raised PROVE Once(m)'
  <2>1. Count(stack[Len(stack)].messages, m) = 0 BY <1>12, <1>14, CountEmpty
  <2>2. Count(f.messages, m) = Count(messages, m) BY <1>13
  <2>3. Taken([stack EXCEPT ![Len(stack)] = f], m) = Taken(stack, m) + Count(messages, m)
    BY <2>1, <2>2, <1>13, <1>15, <1>1, <1>2, TakenTop
  <2>4. Taken(stack', m) = Taken(stack, m) + Count(messages, m) /\ Count(messages', m) = 0
    BY <2>3, <1>11, CountEmpty
  <2> QED BY <2>4, <1>15, <1>1, Counts DEF Once, simVars
<1> QED BY <1>17, <1>18, <1>1 DEF simVars

LEMMA AfterOnce == ASSUME Inv, AfterView PROVE FramesOK' /\ (\A m \in 1 .. raised : Once(m))'
<1>1. /\ TypeOK /\ FramesOK /\ UNCHANGED <<simVars, messages>> /\ stack # <<>>
      /\ stack' = SubSeq(stack, 1, Len(stack) - 1) /\ shown' = shown \o Top.messages
  BY DEF Inv, AfterView, In, Pop
<1>2. stack \in Seq(Frames) /\ shown \in Seq(1 .. raised) BY <1>1, Messages
<1>3. Len(stack) \in DOMAIN stack /\ Top = stack[Len(stack)]
  BY <1>1, <1>2, TopOfStack DEF Top
<1>4. Top.messages \in Seq(1 .. raised) BY <1>1, <1>3, Messages
<1>5. FramesOK'
  <2>1. \A i \in DOMAIN stack' : FrameOK(stack'[i]) BY <1>1, <1>2, Popped DEF FramesOK
  <2> QED BY <2>1, <1>1 DEF FramesOK, FrameOK, simVars
<1>6. ASSUME NEW m \in 1 .. raised PROVE Once(m)'
  <2>1. Count(Top.messages, m) \in {0, 1}
    <3>1. Count(Top.messages, m) \in Nat BY <1>4, CountIsNat
    <3>2. Count(Top.messages, m) <= 1 BY <1>1, <1>3 DEF FramesOK, FrameOK
    <3> QED BY <3>1, <3>2
  <2>2. Taken(stack, m) = Taken(stack', m) + Count(Top.messages, m)
    BY <2>1, <1>1, <1>2, <1>3, TakenPopped
  <2>3. Count(shown', m) = Count(shown, m) + Count(Top.messages, m)
    BY <1>1, <1>2, <1>4, CountJoined
  <2>4. stack' \in Seq(Frames) BY <1>1, <1>2, Popped
  <2>5. Taken(stack', m) \in Nat BY <2>4, TakenIsNat
  <2>6. Once(m) BY DEF Inv
  <2> QED BY <2>1, <2>2, <2>3, <2>5, <2>6, <1>1, Counts DEF Once, simVars
<1> QED BY <1>5, <1>6, <1>1 DEF simVars

LEMMA GuiOnce ==
  ASSUME Inv, GuiStep \/ \E k \in live : DispatchView(k)
  PROVE  FramesOK' /\ (\A m \in 1 .. raised : Once(m))'
<1>1. CASE DispatchModel \/ \E k \in live : DispatchView(k)
  <2>1. UNCHANGED <<simVars, messages, shown>> BY <1>1 DEF DispatchModel, DispatchView, posts
  <2>2. \E f \in Frames : f.messages = <<>> /\ Push(f)
    <3>1. CASE DispatchModel
      <4>1. Frame("model", "acquire", None, <<>>) \in Frames BY DEF Frame, Frames
      <4> QED BY <3>1, <4>1 DEF DispatchModel, Frame
    <3>2. ASSUME NEW k \in live, DispatchView(k) PROVE \E f \in Frames : f.messages = <<>> /\ Push(f)
      <4>1. k \in TimerIds BY DEF Inv, TypeOK
      <4>2. Frame("view", "try", k, <<>>) \in Frames BY <4>1 DEF Frame, Frames
      <4> QED BY <3>2, <4>2 DEF DispatchView, Frame
    <3> QED BY <1>1, <3>1, <3>2
  <2> QED BY <2>1, <2>2, Elsewhere
<1>2. CASE TakeLock \/ GiveLock \/ Try \/ TryAgain \/ Take \/ SetTarget \/ ReleaseView
           \/ TellThread \/ Join
  <2>1. UNCHANGED <<simVars, messages, shown>> /\ stack # <<>>
    BY <1>2 DEF TakeLock, GiveLock, Try, TryAgain, Take, SetTarget, ReleaseView, TellThread, Join,
                simVars, posts, In
  <2>2. \/ Pop /\ Top.pc \notin Loaded
        \/ \E p \in Places : Goto(p) /\ (Top.pc \in Loaded <=> p \in Loaded)
    BY <1>2 DEF TakeLock, GiveLock, Try, TryAgain, Take, SetTarget, ReleaseView, TellThread, Join,
                In, Places, Loaded
  <2> QED BY <2>1, <2>2, Elsewhere
<1> QED BY <1>1, <1>2, ResetOnce, AfterOnce DEF GuiStep

LEMMA NextInv == Inv /\ [Next]_vars => Inv'
<1> SUFFICES ASSUME Inv, [Next]_vars PROVE Inv' OBVIOUS
<1>1. TypeOK' /\ LockOK' BY TypeNext DEF Inv
<1>2. CASE UNCHANGED vars
  <2>1. UNCHANGED <<simVars, messages, shown>> /\ stack' = stack BY <1>2 DEF vars, posts
  <2> QED BY <2>1, <1>1, Elsewhere DEF Inv
<1> QED BY <1>1, <1>2, SimOnce, GuiOnce, UserOnce DEF Next, Inv

LEMMA Invariance == Spec => []Inv
<1>1. Init => Inv BY InitType, InitLock, InitOnce DEF Inv
<1> QED BY <1>1, NextInv, PTL DEF Spec

(* The two threads keep the types of what they share, and the simulation thread holds *)
(* the lock exactly from before the simulator runs until its results are posted.      *)
THEOREM TypeCorrect == Spec => []TypeOK
<1>1. Inv => TypeOK BY DEF Inv
<1> QED BY <1>1, Invariance, PTL

(* However many pauses fall into one run of the simulator, however often the event     *)
(* loop is entered again inside update_view_timeout, and between whichever statements   *)
(* the threads are switched, a pause message is shown in exactly one dialog: the list    *)
(* that is being extended is never the one that a callback has taken.                    *)
THEOREM PausesShownOnce == Spec => []PauseShownOnce
<1>1. Inv => PauseShownOnce BY DEF Inv, PauseShownOnce, Once, Count, Taken
<1> QED BY <1>1, Invariance, PTL
=================================================================================
