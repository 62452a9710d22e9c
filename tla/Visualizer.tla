------------------------------- MODULE Visualizer -------------------------------
(* PyViz, visualizer/core.py: the simulation thread advances the simulator by one    *)
(* period whenever the view says go; the GTK thread updates the view from a timer,   *)
(* and while the simulator holds the lock runs the event loop again inside it. The    *)
(* simulated time is counted in sample periods of normal speed. One step is what no   *)
(* other thread can interrupt: the interpreter switches threads between statements,   *)
(* and within one between the evaluation of a receiver and the call; a call of         *)
(* SimulatorRunUntil keeps the interpreter's lock.                                     *)
EXTENDS Naturals, Sequences, FiniteSets

CONSTANTS
    Periods,          \* the sample periods the speed control can choose
    MaxNow,           \* bound: when the scenario ends
    MaxEvents,        \* bound: what the user does
    MaxPauses,        \* bound: calls of PyViz::Pause
    None

ASSUME VisualizerAssumption ==
    /\ Periods \subseteq Nat \ {0} /\ 1 \in Periods
    /\ {MaxNow, MaxEvents, MaxPauses} \subseteq Nat /\ None \notin Nat

VARIABLES
    sim,              \* where the simulation thread is
    lock,             \* which thread has simulation.lock: "sim", "gtk" or "free"
    go, quit,         \* of SimulationThread
    now, target,      \* simulated time and target_time
    raised,           \* pause messages so far: 1 .. raised
    vizMessages,      \* PyViz::m_pauseMessages
    messages,         \* SimulationThread.pause_messages
    posting,          \* what became of the list that the simulation thread extends
    shown,            \* messages shown in a dialog
    stack,            \* callbacks the GTK thread is in, the innermost last
    idle,             \* idle sources for update_model
    live,             \* timers not destroyed
    timerId,          \* _update_timeout_id
    created,          \* timers created so far: 1 .. created
    active,           \* the play button
    period,           \* sample_period
    events, running

simVars  == <<sim, now, raised, vizMessages>>
posts    == <<messages, posting>>
timers   == <<live, timerId, created>>
user     == <<active, period, events>>
vars     == <<simVars, lock, timers, user, go, quit, target, posts, shown, stack, idle,
              running>>

Init ==
    /\ sim = "loop" /\ lock = "free" /\ go = FALSE /\ quit = FALSE
    /\ now = 0 /\ target = 0 /\ posting = "none"
    /\ raised = 0
    /\ vizMessages = <<>> /\ messages = <<>> /\ shown = <<>>
    /\ stack = <<>> /\ idle = 0
    /\ live = {1} /\ timerId = 1 /\ created = 1    \* the speed control starts a timer
    /\ active = FALSE /\ period = 1 /\ events = 0 /\ running = TRUE

-----------------------------------------------------------------------------------
(* threading.Lock is not reentrant: who has it would wait for itself, too. (The wrong   *)
(* variant: the GTK thread works without it.)                                            *)
LockFreeBug == lock # "sim"
LockFree == lock = "free"

(* Simulation thread *)

Loop ==
    /\ sim = "loop"
    /\ sim' = IF quit THEN "ended" ELSE "wait"
    /\ UNCHANGED <<now, raised, vizMessages, lock, timers, user, go, quit, target, posts,
                   shown, stack, idle, running>>

Wake ==
    /\ sim = "wait" /\ go
    /\ sim' = "awake"
    /\ UNCHANGED <<now, raised, vizMessages, lock, timers, user, go, quit, target, posts,
                   shown, stack, idle, running>>

Clear ==
    /\ sim = "awake"
    /\ go' = FALSE /\ sim' = "cleared"
    /\ UNCHANGED <<now, raised, vizMessages, lock, timers, user, quit, target, posts,
                   shown, stack, idle, running>>

CheckQuit ==
    /\ sim = "cleared"
    /\ sim' = IF quit THEN "ended" ELSE "acquire"
    /\ UNCHANGED <<now, raised, vizMessages, lock, timers, user, go, quit, target, posts,
                   shown, stack, idle, running>>

Acquire ==
    /\ sim = "acquire" /\ LockFree
    /\ lock' = "sim" /\ sim' = "run"
    /\ UNCHANGED <<now, raised, vizMessages, timers, user, go, quit, target, posts,
                   shown, stack, idle, running>>

(* SimulatorRunUntil: the messages of the run before are cleared; unless the simulator *)
(* is at the target, it runs up to it. The scenario may call Pause any number of times *)
(* on the way: that appends a message and sets m_stop, which nothing reads.            *)
Run ==
    /\ sim = "run"
    /\ sim' = "fetch"
    /\ \E n \in 0 .. MaxPauses - raised :
          /\ n > 0 => now < target
          /\ raised' = raised + n
          /\ vizMessages' = [i \in 1 .. n |-> raised + i]
    /\ now' = IF now < target THEN target ELSE now
    /\ UNCHANGED <<lock, timers, user, go, quit, target, posts, shown, stack, idle, running>>

(* pause_messages.extend(GetPauseMessages()) finds the list first and extends it then. *)
Fetch ==
    /\ sim = "fetch"
    /\ posting' = "current" /\ sim' = "post"
    /\ UNCHANGED <<now, raised, vizMessages, lock, timers, user, go, quit, target, messages,
                   shown, stack, idle, running>>

(* The list may no longer be the simulation's by then: taken by the callback that the  *)
(* GTK thread is in, or dropped after that. An idle source follows, still locked.      *)
Post ==
    /\ sim = "post"
    /\ messages' = IF posting = "current" THEN messages \o vizMessages ELSE messages
    /\ stack' = IF posting = "taken"
                THEN [stack EXCEPT ![Len(stack)].messages = @ \o vizMessages] ELSE stack
    /\ posting' = "none"
    /\ idle' = idle + 1
    /\ sim' = "release"
    /\ UNCHANGED <<now, raised, vizMessages, lock, timers, user, go, quit, target, shown,
                   running>>

ReleaseBug ==
    /\ sim = "release" /\ sim' = "loop"
    /\ UNCHANGED <<now, raised, vizMessages, lock, timers, user, go, quit, target, posts,
                   shown, stack, idle, running>>
Release ==
    /\ sim = "release"
    /\ lock' = "free" /\ sim' = "loop"
    /\ UNCHANGED <<now, raised, vizMessages, timers, user, go, quit, target, posts,
                   shown, stack, idle, running>>

SimStep == Loop \/ Wake \/ Clear \/ CheckQuit \/ Acquire \/ Run \/ Fetch \/ Post \/ Release

-----------------------------------------------------------------------------------
(* GTK thread: the event loop, at the top or inside update_view_timeout *)

Frame(c, p, t, m) == [callback |-> c, pc |-> p, timer |-> t, messages |-> m]
Top == stack[Len(stack)]
In(c, p) == stack # <<>> /\ Top.callback = c /\ Top.pc = p
Push(f) == stack' = Append(stack, f)
Goto(p) == stack' = [stack EXCEPT ![Len(stack)].pc = p]
Pop == stack' = SubSeq(stack, 1, Len(stack) - 1)

Looping == IF stack = <<>> THEN running ELSE Top.pc = "pump"

(* Idle sources of update_model come before everything else, update timers after it;  *)
(* a timer whose callback is running is not dispatched again.                          *)
DispatchModel ==
    /\ Looping /\ idle > 0
    /\ idle' = idle - 1
    /\ Push(Frame("model", "acquire", None, <<>>))
    /\ UNCHANGED <<simVars, lock, timers, user, go, quit, target, posts, shown, running>>

DispatchView(k) ==
    /\ Looping /\ idle = 0
    /\ k \in live /\ \A i \in DOMAIN stack : stack[i].timer # k
    /\ Push(Frame("view", "try", k, <<>>))
    /\ UNCHANGED <<simVars, lock, timers, user, go, quit, target, posts, shown, idle, running>>

(* What waits for the lock: update_model, which reads the samples, and on behalf of the *)
(* user dragging a node, tooltips, set_nodes_of_interest. None changes this state.       *)
TakeLock ==
    /\ In("model", "acquire") \/ In("user", "acquire")
    /\ LockFree
    /\ lock' = "gtk" /\ Goto("locked")
    /\ UNCHANGED <<simVars, timers, user, go, quit, target, posts, shown, idle, running>>

GiveLock ==
    /\ In("model", "locked") \/ In("user", "locked")
    /\ lock' = "free" /\ Pop
    /\ UNCHANGED <<simVars, timers, user, go, quit, target, posts, shown, idle, running>>

(* update_view_timeout. While the lock is taken, run the event loop until nothing is   *)
(* pending and try again.                                                               *)
Try ==
    /\ In("view", "try")
    /\ IF LockFree THEN lock' = "gtk" /\ Goto("take") ELSE Goto("pump") /\ UNCHANGED lock
    /\ UNCHANGED <<simVars, timers, user, go, quit, target, posts, shown, idle, running>>

TryAgain ==
    /\ In("view", "pump") /\ idle = 0
    /\ Goto("try")
    /\ UNCHANGED <<simVars, lock, timers, user, go, quit, target, posts, shown, idle, running>>

(* Its list is now the simulation's own, which gets a new one in the next statement.    *)
Take ==
    /\ In("view", "take")
    /\ Goto("reset")
    /\ UNCHANGED <<simVars, lock, timers, user, go, quit, target, posts, shown, idle, running>>

Reset ==
    /\ In("view", "reset")
    /\ stack' = [stack EXCEPT ![Len(stack)] = Frame("view", "target", Top.timer, messages)]
    /\ messages' = <<>>
    /\ posting' = IF posting = "current" THEN "taken" ELSE posting
    /\ UNCHANGED <<simVars, lock, timers, user, go, quit, target, shown, idle, running>>

NewTarget == IF now + period > MaxNow THEN MaxNow ELSE now + period

SetTarget ==
    /\ In("view", "target")
    /\ target' = NewTarget /\ Goto("release")
    /\ UNCHANGED <<simVars, lock, timers, user, go, quit, posts, shown, idle, running>>

ReleaseView ==
    /\ In("view", "release")
    /\ lock' = "free" /\ Goto("after")
    /\ UNCHANGED <<simVars, timers, user, go, quit, target, posts, shown, idle, running>>

(* Its rest: a dialog for the messages and the button released, whose handler removes  *)
(* the timer; then either the timer ends or the simulation goes on.                     *)
ShowMessages == Top.messages # <<>>

AfterView ==
    /\ In("view", "after")
    /\ shown' = shown \o Top.messages
    /\ active' = (active /\ ~ShowMessages)
    /\ IF active'
       THEN go' = TRUE /\ UNCHANGED <<live, timerId>>
       ELSE /\ live' = live \ ({Top.timer} \union IF active THEN {timerId} ELSE {})
            /\ timerId' = None /\ UNCHANGED go
    /\ posting' = IF posting = "taken" THEN "dropped" ELSE posting
    /\ Pop
    /\ UNCHANGED <<simVars, lock, created, period, events, quit, target, messages, idle,
                   running>>

-----------------------------------------------------------------------------------
(* The user *)

UserCan == Looping /\ idle = 0 /\ running /\ ~quit /\ events < MaxEvents

StartTimer ==
    /\ created' = created + 1
    /\ live' = (live \ {timerId}) \union {created'}
    /\ timerId' = created'

(* _on_play_button_toggled *)
Toggle ==
    /\ UserCan /\ events' = events + 1
    /\ active' = ~active
    /\ IF active' THEN StartTimer
       ELSE live' = live \ {timerId} /\ UNCHANGED <<timerId, created>>
    /\ UNCHANGED <<simVars, lock, period, go, quit, target, posts, shown, stack, idle,
                   running>>

ChangeSpeed ==
    /\ UserCan /\ events' = events + 1
    /\ period' \in Periods
    /\ StartTimer
    /\ UNCHANGED <<simVars, lock, active, go, quit, target, posts, shown, stack, idle,
                   running>>

TouchModel ==
    /\ UserCan /\ events' = events + 1
    /\ Push(Frame("user", "acquire", None, <<>>))
    /\ UNCHANGED <<simVars, lock, timers, active, period, go, quit, target, posts, shown, idle,
                   running>>

(* _quit: remove the timer, tell the thread, join it, leave the main loop. *)
CloseWindow ==
    /\ Looping /\ idle = 0 /\ running /\ ~quit
    /\ live' = live \ {timerId} /\ timerId' = None
    /\ Push(Frame("quit", "flag", None, <<>>))
    /\ UNCHANGED <<simVars, lock, created, user, go, quit, target, posts, shown, idle,
                   running>>

FlagBug == IF Top.pc = "flag" THEN go' = TRUE /\ UNCHANGED quit ELSE quit' = TRUE /\ UNCHANGED go
Flag == IF Top.pc = "flag" THEN quit' = TRUE /\ UNCHANGED go ELSE go' = TRUE /\ UNCHANGED quit

TellThread ==
    /\ In("quit", "flag") \/ In("quit", "go")
    /\ Flag
    /\ Goto(IF Top.pc = "flag" THEN "go" ELSE "join")
    /\ UNCHANGED <<simVars, lock, timers, user, target, posts, shown, idle, running>>

Join ==
    /\ In("quit", "join") /\ sim = "ended"
    /\ running' = FALSE
    /\ Pop
    /\ UNCHANGED <<simVars, lock, timers, user, go, quit, target, posts, shown, idle>>

-----------------------------------------------------------------------------------
(* What the GTK thread does without the user *)
GuiStep ==
    \/ DispatchModel \/ TakeLock \/ GiveLock
    \/ Try \/ TryAgain \/ Take \/ Reset \/ SetTarget \/ ReleaseView \/ AfterView
    \/ TellThread \/ Join

UserStep == Toggle \/ ChangeSpeed \/ TouchModel \/ CloseWindow

Next == SimStep \/ GuiStep \/ UserStep \/ \E k \in live : DispatchView(k)

Spec == Init /\ [][Next]_vars

(* The interpreter runs both threads, and timers expire. The GTK thread has the lock    *)
(* for moments and leaves it free from one timer to the next, so that the simulation    *)
(* thread, when it waits for the lock, is not passed over for ever.                      *)
FairSpec ==
    /\ Spec /\ WF_vars(SimStep) /\ WF_vars(GuiStep) /\ SF_vars(Acquire)
    /\ \A k \in 1 .. 1 + MaxEvents : WF_vars(DispatchView(k))
=================================================================================
