------------------------------- MODULE TestRunner -------------------------------
(* test.py: the main thread of run_tests hands jobs to one worker thread per        *)
(* processor through a queue, sends each worker a break, and turns the answers into *)
(* a verdict, a results file and a return code. SIGINT only sets thread_exit.       *)
(* A job is its position in the list of jobs; the breaks follow the last one.       *)
EXTENDS Naturals, Sequences, FiniteSets

CONSTANTS
    Workers,          \* the worker threads, one per processor
    Invocations,      \* [opt, valid, jobs]: options and the jobs they select
    Known,            \* names that test-runner has a suite for
    Undecodable,      \* may a job write what is no UTF-8?
    MaxFaults,        \* bound: jobs whose process cannot be created
    Crash,            \* any return code but 0, 1 and 2
    None

Kinds == {"suite", "example", "pyexample"}
Codes == {0, 1, 2, Crash}
Files == {"none", "partial", "whole"}
Outcomes == [real : Codes, code : Codes, file : Files]
Statuses == {"SKIP", "PASS", "FAIL", "VALGR", "CRASH"}
Phases == {"start", "dispatch", "collect", "join", "done", "dead", "exit"}

ASSUME WorkersAssumption == Workers # {} /\ IsFiniteSet(Workers)

ASSUME InvocationsAssumption ==
    /\ \A v \in Invocations : v.jobs \in Seq([name : STRING, kind : Kinds, skip : BOOLEAN])
    /\ Crash \notin Nat /\ None \notin Codes /\ MaxFaults \in Nat

VARIABLES
    inv,              \* the invocation
    phase,            \* where the main thread is; "dead" after an uncaught exception
    sent,             \* jobs and breaks put into the input queue
    input, output,    \* the two queues
    worker,           \* [pc, job] of each worker thread
    threadExit,       \* thread_exit
    broken,           \* jobs that came back with is_break set
    outcome,          \* of each job that has run: its own return code and test.py's
    answers,          \* i of the loop that takes them from the output queue
    collected,        \* which they were
    tally,            \* the five counters
    results,          \* entries of the results file, one per job
    faults,           \* jobs lost to a process that could not be created
    retcode           \* of test.py

main == <<phase, sent, answers, collected, tally, results, retcode>>
vars == <<inv, input, output, worker, threadExit, broken, outcome, faults, main>>

Total == Len(inv.jobs)
Breaks == Cardinality(Workers)
JobAt(n) == inv.jobs[n]
IsBreak(n) == n > Total
Idle == [pc |-> "get", job |-> 0]

Init ==
    /\ inv \in Invocations
    /\ phase = "start" /\ sent = 0 /\ answers = 0
    /\ input = <<>> /\ output = <<>>
    /\ worker = [w \in Workers |-> Idle]
    /\ threadExit = FALSE
    /\ broken = {} /\ outcome = <<>> /\ collected = {}
    /\ tally = [s \in Statuses |-> 0]
    /\ results = {} /\ faults = {} /\ retcode = None

-----------------------------------------------------------------------------------
(* Environment *)

SigInt ==
    /\ ~threadExit /\ phase \notin {"done", "exit"}
    /\ threadExit' = TRUE
    /\ UNCHANGED <<inv, input, output, worker, broken, outcome, faults, main>>

(* The return code of a job's process and what it leaves in its results file. A     *)
(* suite that test-runner knows writes the whole file unless it crashes; what is no *)
(* suite is refused by test-runner (0) or by the shell (2), without a file.         *)
Processes(n) ==
    LET real(codes, files) == [code : codes, file : files]
    IN  CASE JobAt(n).kind # "suite" -> real(Codes, {"none"})
          [] JobAt(n).name \notin Known -> real({0, 2}, {"none"})
          [] OTHER -> real(IF inv.opt.valgrind THEN {0, 1, 2} ELSE {0, 1}, {"whole"})
                      \union real({Crash}, {"none", "partial"})

(* run_job_synchronously: output that does not decode makes the return code 1. *)
RetVal(code, garbled) == IF garbled THEN 1 ELSE code

-----------------------------------------------------------------------------------
(* Worker threads *)

(* A worker leaves only on its break, whatever thread_exit says. *)
LeavesBug(n) == IsBreak(n) \/ threadExit
Leaves(n) == IsBreak(n)

Get(w) ==
    /\ worker[w].pc = "get" /\ input # <<>>
    /\ input' = Tail(input)
    /\ worker' = [worker EXCEPT ![w] =
                    IF Leaves(Head(input)) THEN [pc |-> "gone", job |-> 0]
                    ELSE [pc |-> "got", job |-> Head(input)]]
    /\ UNCHANGED <<inv, output, threadExit, broken, outcome, faults, main>>

Skipped(n) == JobAt(n).skip

AnswerBug(w) ==
    /\ output' = IF threadExit THEN output ELSE Append(output, worker[w].job)
    /\ worker' = [worker EXCEPT ![w] = Idle]
AnswerTwiceBug(w) ==
    /\ output' = IF output = <<>> THEN <<worker[w].job, worker[w].job>>
                 ELSE Append(output, worker[w].job)
    /\ worker' = [worker EXCEPT ![w] = Idle]
Answer(w) ==
    /\ output' = Append(output, worker[w].job)
    /\ worker' = [worker EXCEPT ![w] = Idle]

(* The job comes back unrun: as a break after SIGINT, as it is if it is to be skipped. *)
PassBack(w) ==
    /\ worker[w].pc = "got"
    /\ threadExit \/ Skipped(worker[w].job)
    /\ broken' = IF threadExit THEN broken \union {worker[w].job} ELSE broken
    /\ Answer(w)
    /\ UNCHANGED <<inv, input, threadExit, outcome, faults, main>>

Launch(w) ==
    /\ worker[w].pc = "got"
    /\ ~threadExit /\ ~Skipped(worker[w].job)
    /\ worker' = [worker EXCEPT ![w].pc = "running"]
    /\ UNCHANGED <<inv, input, output, threadExit, broken, outcome, faults, main>>

(* Popen raises: the worker's thread ends with the exception, and nobody answers. *)
LaunchFails(w) ==
    /\ worker[w].pc = "running" /\ Cardinality(faults) < MaxFaults
    /\ faults' = faults \union {worker[w].job}
    /\ worker' = [worker EXCEPT ![w] = [pc |-> "gone", job |-> 0]]
    /\ UNCHANGED <<inv, input, output, threadExit, broken, outcome, main>>

Finish(w) ==
    /\ worker[w].pc = "running"
    /\ \E p \in Processes(worker[w].job), garbled \in {FALSE, Undecodable} :
         outcome' = [n \in DOMAIN outcome \union {worker[w].job} |->
                       IF n = worker[w].job
                       THEN [real |-> p.code, code |-> RetVal(p.code, garbled), file |-> p.file]
                       ELSE outcome[n]]
    /\ Answer(w)
    /\ UNCHANGED <<inv, input, threadExit, broken, faults, main>>

-----------------------------------------------------------------------------------
(* Main thread *)

(* An unknown suite ends test.py before any thread exists. *)
Start ==
    /\ phase = "start"
    /\ IF inv.valid THEN phase' = "dispatch" /\ UNCHANGED retcode
       ELSE phase' = "exit" /\ retcode' = 2
    /\ UNCHANGED <<inv, input, output, worker, threadExit, broken, outcome, faults,
                   sent, answers, collected, tally, results>>

AllSentLateBug == sent > Total + Breaks
AllSentBug == sent = Total + 1
AllSent == sent = Total + Breaks

Dispatch ==
    /\ phase = "dispatch" /\ ~AllSent
    /\ sent' = sent + 1
    /\ input' = Append(input, sent')
    /\ UNCHANGED <<inv, output, worker, threadExit, broken, outcome, faults,
                   phase, answers, collected, tally, results, retcode>>

StartCollecting ==
    /\ phase = "dispatch" /\ AllSent
    /\ phase' = "collect"
    /\ UNCHANGED <<inv, input, output, worker, threadExit, broken, outcome, faults,
                   sent, answers, collected, tally, results, retcode>>

Status(n) ==
    IF Skipped(n) THEN "SKIP"
    ELSE CASE outcome[n].code = 0 -> "PASS"
           [] outcome[n].code = 1 -> "FAIL"
           [] outcome[n].code = 2 -> "VALGR"
           [] OTHER -> "CRASH"

(* An example gets an entry with its status, a suite the text of its own file unless *)
(* it was skipped or crashed.                                                        *)
UsesFileBug(n) == JobAt(n).kind = "suite" /\ Status(n) # "SKIP"
UsesFile(n) == JobAt(n).kind = "suite" /\ Status(n) \notin {"SKIP", "CRASH"}

Entry(n) == [job |-> n, text |-> IF UsesFile(n) THEN outcome[n].file ELSE Status(n)]

(* open of a results file that does not exist raises in the main thread. *)
NoFile(n) == UsesFile(n) /\ outcome[n].file = "none"

Counted(n) == [tally EXCEPT ![Status(n)] = @ + 1]

Collect ==
    /\ phase = "collect" /\ answers < Total /\ output # <<>>
    /\ LET n == Head(output) IN
         /\ output' = Tail(output)
         /\ answers' = answers + 1
         /\ collected' = collected \union {n}
         /\ IF n \in broken THEN UNCHANGED <<tally, results, phase, retcode>>
            ELSE /\ tally' = Counted(n)
                 /\ IF NoFile(n) THEN phase' = "dead" /\ retcode' = 1 /\ UNCHANGED results
                    ELSE results' = results \union {Entry(n)} /\ UNCHANGED <<phase, retcode>>
    /\ UNCHANGED <<inv, input, worker, threadExit, broken, outcome, faults, sent>>

StartJoining ==
    /\ phase = "collect" /\ answers = Total
    /\ phase' = "join"
    /\ UNCHANGED <<inv, input, output, worker, threadExit, broken, outcome, faults,
                   sent, answers, collected, tally, results, retcode>>

Gone == \A w \in Workers : worker[w].pc = "gone"

Joined == Gone

(* A report (--html, --text) parses the results file; a partial entry makes it raise. *)
Unreadable == inv.opt.report /\ \E e \in results : e.text = "partial"

ReturnCodeBug == IF tally["FAIL"] + tally["CRASH"] = 0 THEN 0 ELSE 1
ReturnCode == IF tally["PASS"] + tally["SKIP"] = Total THEN 0 ELSE 1

(* Close the file, write the report, remove the temporary directory, return. *)
End ==
    /\ phase = "join" /\ Joined
    /\ IF Unreadable THEN phase' = "dead" /\ retcode' = 1
       ELSE phase' = "done" /\ retcode' = ReturnCode
    /\ UNCHANGED <<inv, input, output, worker, threadExit, broken, outcome, faults,
                   sent, answers, collected, tally, results>>

-----------------------------------------------------------------------------------
WorkerStep(w) ==
    Get(w) \/ PassBack(w) \/ Launch(w) \/ LaunchFails(w) \/ Finish(w)

MainStep == Start \/ Dispatch \/ StartCollecting \/ Collect \/ StartJoining \/ End

Next == SigInt \/ MainStep \/ \E w \in Workers : WorkerStep(w)

Spec == Init /\ [][Next]_vars

(* The interpreter runs every thread that can run, and processes end. *)
FairSpec == Spec /\ WF_vars(MainStep) /\ \A w \in Workers : WF_vars(WorkerStep(w))
=================================================================================
