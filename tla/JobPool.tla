--------------------------------- MODULE JobPool ---------------------------------
(* What run_tests of test.py promises, whatever its threads and queues: every job    *)
(* it has selected is taken by at most one worker at a time, no more of them than    *)
(* there are processors, is answered once and reported once, and test.py ends well   *)
(* only when all are reported. A job may be lost, and an end may be untimely.        *)
EXTENDS Naturals, FiniteSets

CONSTANT Parallel   \* jobs that may be worked on at once

VARIABLES
    stage,          \* of each job
    ended           \* "no", "well" or "badly"

Stages == {"waiting", "taken", "answered", "reported", "lost"}
At(s) == {n \in DOMAIN stage : stage[n] = s}

Init == /\ DOMAIN stage = 1 .. Cardinality(DOMAIN stage)
        /\ stage = [n \in DOMAIN stage |-> "waiting"]
        /\ ended = "no"

Move(n, from, to) == stage[n] = from /\ stage' = [stage EXCEPT ![n] = to]

Take(n)   == Move(n, "waiting", "taken") /\ Cardinality(At("taken")) < Parallel /\ UNCHANGED ended
Answer(n) == Move(n, "taken", "answered") /\ UNCHANGED ended
Lose(n)   == Move(n, "taken", "lost") /\ UNCHANGED ended

(* The last report of a run that ends badly may coincide with its end. *)
Report(n) == /\ ended = "no" /\ Move(n, "answered", "reported")
             /\ ended' \in {"no", "badly"}

End == /\ ended = "no"
       /\ \/ ended' = "badly"
          \/ ended' = "well" /\ At("reported") = DOMAIN stage
       /\ UNCHANGED stage

Next == End \/ \E n \in DOMAIN stage : Take(n) \/ Answer(n) \/ Lose(n) \/ Report(n)

Spec == Init /\ [][Next]_<<stage, ended>>
=================================================================================
