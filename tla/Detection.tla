------------------------------ MODULE Detection ------------------------------
(* What an event engine promises: every event is shown once, in the order of   *)
(* arrival, to every operator; a pair an operator finds is consumed at once,   *)
(* and reported before the results of the event that completed it are          *)
(* collected.                                                                  *)
EXTENDS Naturals, Sequences

CONSTANTS
  Operators,        \* the operators
  Events,           \* the events that may arrive
  Put(_, _, _),     \* Put(o, b, e): the buffers b of o with the event e
  Partner(_, _, _), \* Partner(o, b, e): the events in b that e completes a pair with
  Consume(_, _)     \* Consume(b, c): the buffers without the events of the pair c

VARIABLES arrived, seen, buffers, found, reported, collected

dvars == <<arrived, seen, buffers, found, reported, collected>>

Pair(o, f, e) == [op |-> o, first |-> f, second |-> e]

Init ==
  /\ arrived = <<>>
  /\ seen = [o \in Operators |-> 0]
  /\ buffers = [o \in Operators |-> [first |-> <<>>, second |-> <<>>]]
  /\ found = {} /\ reported = {}
  /\ collected = 0

Arrive ==
  /\ \E e \in Events : arrived' = Append(arrived, e)
  /\ UNCHANGED <<seen, buffers, found, reported, collected>>

(* An operator looks at its next event: the first partner is taken. *)
Evaluate(o) ==
  /\ seen[o] < Len(arrived)
  /\ LET e == arrived[seen[o] + 1]
         b == Put(o, buffers[o], e)
         p == Partner(o, b, e)
     IN  \/ /\ p = <<>>
            /\ buffers' = [buffers EXCEPT ![o] = b]
            /\ UNCHANGED found
         \/ /\ p # <<>>
            /\ buffers' = [buffers EXCEPT ![o] = Consume(b, Pair(o, p[1], e))]
            /\ found' = found \cup {Pair(o, p[1], e)}
  /\ seen' = [seen EXCEPT ![o] = @ + 1]
  /\ UNCHANGED <<arrived, reported, collected>>

Report ==
  /\ \E c \in found \ reported : reported' = reported \cup {c}
  /\ UNCHANGED <<arrived, seen, buffers, found, collected>>

Collect ==
  /\ \A o \in Operators : seen[o] > collected
  /\ \A c \in found : c.second.seq <= collected + 1 => c \in reported
  /\ collected' = collected + 1
  /\ UNCHANGED <<arrived, seen, buffers, found, reported>>

Next == Arrive \/ (\E o \in Operators : Evaluate(o)) \/ Report \/ Collect

Spec == Init /\ [][Next]_dvars
=============================================================================
