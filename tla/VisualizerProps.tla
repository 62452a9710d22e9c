----------------------------- MODULE VisualizerProps -----------------------------
(* What the two threads of PyViz must keep right. *)
EXTENDS Visualizer

SimPlaces ==
    {"loop", "wait", "awake", "cleared", "acquire", "run", "fetch", "post", "release", "ended"}
TimerIds == 1 .. created
Frames == [callback : {"view", "model", "user", "quit"},
           pc : {"try", "pump", "take", "reset", "target", "release", "after",
                 "acquire", "locked", "flag", "go", "join"},
           timer : TimerIds \union {None}, messages : Seq(1 .. raised)]

(* Type invariant of the visualizer; the lock is the simulation thread's while it     *)
(* runs the simulator.                                                                *)
TypeOK ==
    /\ sim \in SimPlaces /\ lock \in {"free", "sim", "gtk"}
    /\ lock = "sim" <=> sim \in {"run", "fetch", "post", "release"}
    /\ posting \in {"none", "current", "taken", "dropped"}
    /\ {go, quit, active, running} \subseteq BOOLEAN
    /\ {now, target} \subseteq 0 .. MaxNow
    /\ raised \in 0 .. MaxPauses
    /\ {vizMessages, messages, shown} \subseteq Seq(1 .. raised)
    /\ stack \in Seq(Frames) /\ idle \in Nat
    /\ created \in Nat /\ live \subseteq TimerIds /\ timerId \in TimerIds \union {None}
    /\ period \in Periods /\ events \in 0 .. MaxEvents

(* Every pause message is shown exactly once, or is still in one place on its way to   *)
(* the dialog: in PyViz until it is posted, in the thread's list, or with the callback *)
(* that took the list.                                                                 *)
PauseShownOnce ==
    \A m \in 1 .. raised :
      LET in(q) == Cardinality({i \in DOMAIN q : q[i] = m})
          taken == Cardinality({i \in DOMAIN stack : in(stack[i].messages) = 1})
      IN  in(messages) + in(shown) + taken + (IF sim \in {"fetch", "post"} THEN in(vizMessages) ELSE 0) = 1

(* Play makes the simulation advance until it is paused, closed or at its end: neither *)
(* a go signal nor the lock is lost between the threads.                                *)
PlayAdvances ==
    \A n \in 0 .. MaxNow - 1 :
      (active /\ now = n) ~> (now > n \/ ~active \/ quit)

(* Closing the window ends both threads: the thread that is joined sees quit, also     *)
(* when it is waiting for go or for the lock.                                           *)
Over == sim = "ended" /\ ~running /\ stack = <<>>
QuitEnds == (In("quit", "flag") \/ quit) ~> Over
=================================================================================
