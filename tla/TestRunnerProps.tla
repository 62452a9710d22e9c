----------------------------- MODULE TestRunnerProps -----------------------------
(* What the threads of test.py must keep right. *)
EXTENDS TestRunner, SequencesExt

JobSet == 1 .. Total
Held == {worker[w].job : w \in {v \in Workers : worker[v].pc \in {"got", "running"}}}
Reported(n) == n \in collected /\ n \notin broken

(* Type invariant of the runner. *)
TypeOK ==
    /\ inv \in Invocations /\ phase \in Phases
    /\ sent \in 0 .. (Total + Breaks) /\ answers \in 0 .. Total
    /\ input \in Seq(1 .. (Total + Breaks)) /\ output \in Seq(JobSet)
    /\ worker \in [Workers -> [pc : {"get", "got", "running", "gone"}, job : 0 .. Total]]
    /\ threadExit \in BOOLEAN
    /\ broken \subseteq JobSet /\ collected \subseteq JobSet /\ faults \subseteq JobSet
    /\ DOMAIN outcome \subseteq JobSet /\ \A n \in DOMAIN outcome : outcome[n] \in Outcomes
    /\ tally \in [Statuses -> 0 .. Total]
    /\ results \subseteq [job : JobSet, text : Files \union Statuses]
    /\ retcode \in {None, 0, 1, 2}

(* Every job that was dispatched is in one place and there once: in the input queue, *)
(* with a worker, in the output queue, collected, or lost with its worker. The main  *)
(* thread counts answers, not jobs, so one answer too many would hide a lost one.    *)
NoJobLost ==
    \A n \in JobSet :
      LET copies(q) == Cardinality({i \in DOMAIN q : q[i] = n})
          workers == Cardinality({w \in Workers : worker[w].pc \in {"got", "running"}
                                                   /\ worker[w].job = n})
          in(S) == IF n \in S THEN 1 ELSE 0
      IN  copies(input) + workers + copies(output) + in(collected) + in(faults)
            = in(1 .. sent)

(* test.py returns 0 only if every selected job came back and passed, by its own     *)
(* return code and not only by the one test.py made of it, or was skipped; in        *)
(* particular not after SIGINT has kept a job from running.                          *)
ExitCode ==
    retcode = 0 =>
      /\ phase = "done"
      /\ \A n \in JobSet : Reported(n) /\ (Skipped(n) \/ outcome[n].real = 0)

(* At the end the results file has one entry for every job that ran or was skipped,  *)
(* the counters of the summary agree with the entries, and the file a suite left is  *)
(* copied whole. The exception is a suite that crashed after writing what does not   *)
(* decode: test.py counts it as failed and copies what there is.                     *)
ResultsComplete ==
    phase = "done" =>
      /\ {e.job : e \in results} = collected \ broken
      /\ Cardinality(results) = Cardinality(collected \ broken)
      /\ \A s \in Statuses :
           tally[s] = Cardinality({n \in collected \ broken : Status(n) = s})
      /\ \A e \in results :
           /\ JobAt(e.job).kind = "suite" /\ Status(e.job) \in {"PASS", "FAIL", "VALGR"}
                => e.text \in {"whole", "partial"}
           /\ e.text = "partial" => Status(e.job) = "FAIL" /\ outcome[e.job].real = Crash

(* A job that fails only under valgrind is seen in the results file: "we need to     *)
(* indicate a valgrind error somehow, so we fake up an xml entry with a VALGR        *)
(* result" (test.py, before the results of a suite are copied).                      *)
ValgrindReported ==
    phase = "done" =>
      \A n \in collected \ broken :
        Status(n) = "VALGR" => \E e \in results : e.job = n /\ e.text = "VALGR"

(* run_tests returns, unless a process could not be created. *)
Terminates == <>(phase \in {"done", "dead", "exit"} \/ faults # {})

(* Whatever becomes of the main thread, every worker thread ends: a break is left    *)
(* for each, even when some have died with their job.                                *)
WorkersEnd == <>(phase = "exit" \/ Gone)

(* The runner implements the pool of jobs. *)
StageOf(n) ==
    CASE n \in collected -> "reported"
      [] n \in faults -> "lost"
      [] n \in Held -> "taken"
      [] Contains(output, n) -> "answered"
      [] OTHER -> "waiting"
Ended == CASE phase = "done" -> "well" [] phase \in {"dead", "exit"} -> "badly" [] OTHER -> "no"
Pool == INSTANCE JobPool WITH
            Parallel <- Breaks, stage <- [n \in JobSet |-> StageOf(n)], ended <- Ended
ImplementsPool == Pool!Spec
=================================================================================
