---------------------------- MODULE FifoSemaphore ----------------------------
(* What a counting semaphore promises its clients, whatever schedules them:   *)
(* it admits the initial number of clients, makes the others stand in line    *)
(* and hands a place that is given back to the first of the line.             *)
EXTENDS Naturals, Sequences

CONSTANTS Clients, Names, Initial

VARIABLES free, line, inside

InLine(w, s) == \E i \in DOMAIN line[s] : line[s][i] = w

Init ==
  /\ free = Initial
  /\ line = [s \in Names |-> <<>>]
  /\ inside = [s \in Names |-> {}]

Enter(w, s) ==
  /\ w \notin inside[s] /\ ~InLine(w, s)
  /\ free[s] > 0
  /\ free' = [free EXCEPT ![s] = @ - 1]
  /\ inside' = [inside EXCEPT ![s] = @ \cup {w}]
  /\ UNCHANGED line

StandInLine(w, s) ==
  /\ w \notin inside[s] /\ ~InLine(w, s)
  /\ free[s] = 0
  /\ line' = [line EXCEPT ![s] = Append(@, w)]
  /\ UNCHANGED <<free, inside>>

Leave(w, s) ==
  /\ w \in inside[s]
  /\ \/ /\ line[s] = <<>>
        /\ free' = [free EXCEPT ![s] = @ + 1]
        /\ inside' = [inside EXCEPT ![s] = @ \ {w}]
        /\ UNCHANGED line
     \/ /\ line[s] # <<>>
        /\ line' = [line EXCEPT ![s] = Tail(@)]
        /\ inside' = [inside EXCEPT ![s] = (@ \ {w}) \cup {Head(line[s])}]
        /\ UNCHANGED free

Next == \E w \in Clients, s \in Names : Enter(w, s) \/ StandInLine(w, s) \/ Leave(w, s)

Spec == Init /\ [][Next]_<<free, line, inside>>
=============================================================================
