--------------------------- MODULE TestRunnerProofs ---------------------------
(* Theorems about module TestRunner, for every number of workers and every set  *)
(* of invocations.                                                               *)
EXTENDS TestRunnerProps, FiniteSetTheorems, TLAPS

Owns(w) == worker[w].pc \in {"got", "running"}
Taken == sent - Len(input)       \* jobs and breaks that have left the input queue

(* The ranges of the variables, as far as steps preserve them by themselves. *)
Types ==
  /\ inv \in Invocations /\ phase \in Phases
  /\ sent \in 0 .. (Total + Breaks) /\ answers \in 0 .. Total
  /\ input \in Seq(1 .. (Total + Breaks)) /\ output \in Seq(JobSet)
  /\ worker \in [Workers -> [pc : {"get", "got", "running", "gone"}, job : 0 .. Total]]
  /\ threadExit \in BOOLEAN
  /\ broken \subseteq JobSet /\ collected \subseteq JobSet /\ faults \subseteq JobSet
  /\ tally \in [Statuses -> Nat]
  /\ results \subseteq [job : JobSet, text : Files \cup Statuses]
  /\ retcode \in {None, 0, 1, 2}

(* The input queue holds the numbers sent last, in order. *)
InOrder ==
  /\ Len(input) <= sent
  /\ \A i \in 1 .. Len(input) : input[i] = sent - Len(input) + i

(* A job is with one worker, in one place of the output queue, collected or lost. *)
Apart ==
  /\ \A w \in Workers : Owns(w) =>
       /\ worker[w].job \in JobSet /\ worker[w].job <= Taken
       /\ worker[w].job \notin collected \cup faults \cup broken
  /\ \A w, v \in Workers : Owns(w) /\ Owns(v) /\ w # v => worker[w].job # worker[v].job
  /\ \A i \in 1 .. Len(output) :
       /\ output[i] <= Taken /\ output[i] \notin collected \cup faults
       /\ \A w \in Workers : Owns(w) => output[i] # worker[w].job
  /\ \A i, k \in 1 .. Len(output) : output[i] = output[k] => i = k
  /\ \A n \in collected \cup faults \cup broken : n <= Taken
  /\ collected \cap faults = {}

InOutput(n) == \E i \in 1 .. Len(output) : output[i] = n

(* And it is in one of these once it has left the input queue. *)
Somewhere ==
  \A n \in JobSet : n <= Taken =>
    \/ n \in collected \cup faults
    \/ InOutput(n)
    \/ \E w \in Workers : Owns(w) /\ worker[w].job = n

(* What test.py makes of a process: it calls no failure a success, and a file is only *)
(* cut short by a crash, which it may take for a failure.                             *)
Judged(o) ==
  /\ o.code = 0 => o.real = 0
  /\ o.file = "partial" => o.real = Crash
  /\ o.real = Crash => o.code \in {Crash, 1}

(* A job that was answered, and not as a break, has run or is to be skipped. *)
HasRun ==
  /\ DOMAIN outcome \subseteq JobSet
  /\ \A n \in DOMAIN outcome : outcome[n] \in Outcomes /\ Judged(outcome[n])
  /\ \A n \in JobSet : (n \in collected \/ InOutput(n)) /\ n \notin broken /\ ~Skipped(n)
       => n \in DOMAIN outcome

(* The counters count the jobs collected. *)
With(s) == {n \in collected \ broken : Status(n) = s}
Counts == \A s \in Statuses : tally[s] = Cardinality(With(s))

(* The results file has the entry of each job that was collected. *)
Filed ==
  phase # "dead" => /\ results = {Entry(n) : n \in collected \ broken}
                    /\ \A n \in collected \ broken : ~NoFile(n)

ReturnedZero == retcode = 0 => phase = "done" /\ tally["PASS"] + tally["SKIP"] = Total

Inv == Types /\ InOrder /\ Apart /\ Somewhere /\ HasRun /\ Counts /\ Filed /\ ReturnedZero

-----------------------------------------------------------------------------
LEMMA Numbers ==
  ASSUME inv \in Invocations
  PROVE  /\ Total \in Nat /\ Breaks \in Nat /\ Breaks > 0
         /\ IsFiniteSet(JobSet) /\ Cardinality(JobSet) = Total
<1>1. inv.jobs \in Seq([name : STRING, kind : Kinds, skip : BOOLEAN])
  BY InvocationsAssumption
<1>2. Total \in Nat
  BY <1>1 DEF Total
<1>3. Breaks \in Nat /\ Breaks > 0
  BY WorkersAssumption, FS_CardinalityType, FS_EmptySet DEF Breaks
<1>4. IsFiniteSet(JobSet) /\ Cardinality(JobSet) = Total
  BY <1>2, FS_Interval DEF JobSet
<1> QED BY <1>2, <1>3, <1>4

(* What the two ends of a queue do to it. *)
LEMMA AtTheEnd ==
  ASSUME NEW S, NEW q \in Seq(S), NEW x \in S
  PROVE  /\ Append(q, x) \in Seq(S) /\ Len(q) \in Nat
         /\ Len(Append(q, x)) = Len(q) + 1
         /\ \A i \in 1 .. Len(q) : Append(q, x)[i] = q[i]
         /\ Append(q, x)[Len(q) + 1] = x
  OBVIOUS

LEMMA AtTheFront ==
  ASSUME NEW S, NEW q \in Seq(S), q # <<>>
  PROVE  /\ Tail(q) \in Seq(S) /\ Len(q) \in Nat /\ Len(q) > 0
         /\ Len(Tail(q)) = Len(q) - 1
         /\ \A i \in 1 .. Len(q) - 1 : Tail(q)[i] = q[i + 1]
         /\ Head(q) = q[1] /\ q[1] \in S
  OBVIOUS

(* Counters and entries stay right while the jobs collected and their outcomes do. *)
LEMMA CountsStay ==
  ASSUME Counts, Filed, inv' = inv, tally' = tally, results' = results,
         phase = "dead" => phase' = "dead",
         collected' \ broken' = collected \ broken,
         \A n \in collected \ broken : ~Skipped(n) => outcome'[n] = outcome[n]
  PROVE  Counts' /\ Filed'
<1>1. \A n \in collected \ broken :
        /\ Status(n)' = Status(n)
        /\ UsesFile(n) => Status(n) # "SKIP" /\ ~Skipped(n)
  BY DEF Status, Skipped, JobAt, UsesFile
<1>2. \A n \in collected \ broken :
        /\ UsesFile(n)' <=> UsesFile(n)
        /\ UsesFile(n) => outcome'[n] = outcome[n]
  BY <1>1 DEF UsesFile, JobAt
<1>3. \A n \in collected \ broken : Entry(n)' = Entry(n) /\ (NoFile(n)' <=> NoFile(n))
  BY <1>1, <1>2 DEF Entry, NoFile
<1>4. Filed' BY <1>3 DEF Filed
<1>5. \A s \in Statuses : With(s)' = With(s)
  BY <1>1 DEF With
<1>6. Counts' BY <1>5 DEF Counts
<1> QED BY <1>4, <1>6

LEMMA InitInv == Init => Inv
<1> SUFFICES ASSUME Init PROVE Inv OBVIOUS
<1>0. inv \in Invocations BY DEF Init
<1>1. Total \in Nat /\ Breaks \in Nat BY <1>0, Numbers
<1>2. Types
  <2>1. input \in Seq(1 .. (Total + Breaks)) /\ output \in Seq(JobSet) BY DEF Init
  <2>2. worker \in [Workers -> [pc : {"get", "got", "running", "gone"}, job : 0 .. Total]]
    BY <1>1 DEF Init, Idle
  <2>3. tally \in [Statuses -> Nat] BY DEF Init
  <2>4. sent \in 0 .. (Total + Breaks) /\ answers \in 0 .. Total BY <1>1 DEF Init
  <2> QED BY <1>0, <2>1, <2>2, <2>3, <2>4 DEF Init, Types, Phases
<1>3. Taken = 0
  <2>1. sent = 0 /\ Len(input) = 0 BY DEF Init
  <2> QED BY <2>1 DEF Taken
<1>4. InOrder BY DEF Init, InOrder
<1>5. Apart BY <1>3 DEF Init, Apart, Owns, Idle
<1>6. Somewhere BY <1>3 DEF Somewhere, JobSet
<1>7. HasRun BY DEF Init, HasRun, InOutput
<1>8. Counts
  <2>1. \A s \in Statuses : With(s) = {} BY DEF Init, With
  <2> QED BY <2>1, FS_EmptySet DEF Init, Counts
<1>9. Filed BY DEF Init, Filed
<1>10. ReturnedZero BY InvocationsAssumption DEF Init, ReturnedZero, Codes
<1> QED BY <1>2, <1>4, <1>5, <1>6, <1>7, <1>8, <1>9, <1>10 DEF Inv

(* Steps that touch no job and no queue. *)
LEMMA JobsStay ==
  ASSUME Inv, UNCHANGED <<inv, sent, input, output, worker, broken, outcome, collected,
                          tally, results, faults>>,
         phase = "dead" => phase' = "dead"
  PROVE  InOrder' /\ Apart' /\ Somewhere' /\ HasRun' /\ Counts' /\ Filed'
<1> USE DEF Inv
<1>1. InOrder' BY DEF InOrder
<1>2. \A w : Owns(w)' <=> Owns(w) BY DEF Owns
<1>3. Taken' = Taken BY DEF Taken
<1>4. Total' = Total /\ JobSet' = JobSet BY DEF Total, JobSet
<1>5. Apart' BY <1>2, <1>3, <1>4 DEF Apart
<1>6. \A n : InOutput(n)' <=> InOutput(n) BY DEF InOutput
<1>7. Somewhere' BY <1>2, <1>3, <1>4, <1>6 DEF Somewhere
<1>8. HasRun' BY <1>4, <1>6 DEF HasRun, Skipped, JobAt
<1>9. Counts' /\ Filed' BY CountsStay
<1> QED BY <1>1, <1>5, <1>7, <1>8, <1>9

LEMMA SigIntInv == ASSUME Inv, SigInt PROVE Inv'
<1> USE DEF SigInt, main
<1>1. InOrder' /\ Apart' /\ Somewhere' /\ HasRun' /\ Counts' /\ Filed' BY JobsStay
<1>2. Types' BY DEF Inv, Types, Total, Breaks, JobSet
<1>3. ReturnedZero' BY DEF Inv, ReturnedZero, Total
<1> QED BY <1>1, <1>2, <1>3 DEF Inv

LEMMA StartInv == ASSUME Inv, Start PROVE Inv'
<1> USE DEF Start
<1>1. InOrder' /\ Apart' /\ Somewhere' /\ HasRun' /\ Counts' /\ Filed' BY JobsStay
<1>2. Types' BY DEF Inv, Types, Total, Breaks, JobSet, Phases
<1>3. ReturnedZero' BY DEF Inv, ReturnedZero, Total
<1> QED BY <1>1, <1>2, <1>3 DEF Inv

LEMMA StartCollectingInv == ASSUME Inv, StartCollecting PROVE Inv'
<1> USE DEF StartCollecting
<1>1. InOrder' /\ Apart' /\ Somewhere' /\ HasRun' /\ Counts' /\ Filed' BY JobsStay
<1>2. Types' BY DEF Inv, Types, Total, Breaks, JobSet, Phases
<1>3. ReturnedZero' BY DEF Inv, ReturnedZero, Total
<1> QED BY <1>1, <1>2, <1>3 DEF Inv

LEMMA StartJoiningInv == ASSUME Inv, StartJoining PROVE Inv'
<1> USE DEF StartJoining
<1>1. InOrder' /\ Apart' /\ Somewhere' /\ HasRun' /\ Counts' /\ Filed' BY JobsStay
<1>2. Types' BY DEF Inv, Types, Total, Breaks, JobSet, Phases
<1>3. ReturnedZero' BY DEF Inv, ReturnedZero, Total
<1> QED BY <1>1, <1>2, <1>3 DEF Inv

LEMMA EndInv == ASSUME Inv, End PROVE Inv'
<1> USE DEF End
<1>1. InOrder' /\ Apart' /\ Somewhere' /\ HasRun' /\ Counts' /\ Filed' BY JobsStay
<1>2. Types' BY DEF Inv, Types, Total, Breaks, JobSet, Phases, ReturnCode
<1>3. ReturnedZero' BY DEF Inv, ReturnedZero, Total, ReturnCode
<1> QED BY <1>1, <1>2, <1>3 DEF Inv

(* The next job or break joins the end of the input queue. *)
LEMMA DispatchInv == ASSUME Inv, Dispatch PROVE Inv'
<1> USE DEF Dispatch, Inv
<1>0. Total \in Nat /\ Breaks \in Nat /\ inv' = inv BY Numbers DEF Types
<1>1. Total' = Total /\ JobSet' = JobSet BY DEF Total, JobSet
<1>2. sent \in 0 .. (Total + Breaks) /\ sent # Total + Breaks /\ sent' = sent + 1
  BY DEF Types, AllSent
<1>3. sent' \in 1 .. (Total + Breaks) BY <1>0, <1>2
<1>4. /\ input' \in Seq(1 .. (Total + Breaks)) /\ Len(input) \in Nat
      /\ Len(input') = Len(input) + 1
      /\ \A i \in 1 .. Len(input) : input'[i] = input[i]
      /\ input'[Len(input) + 1] = sent'
  BY <1>3, AtTheEnd DEF Types
<1>5. Taken' = Taken BY <1>2, <1>4 DEF Taken
<1>6. Types'
  BY <1>0, <1>1, <1>3, <1>4 DEF Types, Breaks
<1>7. InOrder'
  BY <1>2, <1>4 DEF InOrder
<1>8. \A w : Owns(w)' <=> Owns(w) BY DEF Owns
<1>9. Apart' BY <1>1, <1>5, <1>8 DEF Apart
<1>10. \A n : InOutput(n)' <=> InOutput(n) BY DEF InOutput
<1>11. Somewhere' BY <1>1, <1>5, <1>8, <1>10 DEF Somewhere
<1>12. HasRun' BY <1>1, <1>10 DEF HasRun, Skipped, JobAt
<1>13. Counts' /\ Filed' BY CountsStay
<1>14. ReturnedZero' BY <1>1 DEF ReturnedZero
<1> QED BY <1>6, <1>7, <1>9, <1>11, <1>12, <1>13, <1>14

(* A worker takes what comes next: a job nobody has yet, or a break. *)
LEMMA GetInv == ASSUME Inv, NEW w \in Workers, Get(w) PROVE Inv'
<1> DEFINE m == Head(input)
<1> USE DEF Inv
<1>0. Total \in Nat /\ Breaks \in Nat /\ inv' = inv BY Numbers DEF Types, Get
<1>1. Total' = Total /\ JobSet' = JobSet BY <1>0 DEF Total, JobSet
<1>2. /\ input' \in Seq(1 .. (Total + Breaks)) /\ Len(input) \in Nat /\ Len(input) > 0
      /\ Len(input') = Len(input) - 1
      /\ \A i \in 1 .. Len(input) - 1 : input'[i] = input[i + 1]
      /\ m = input[1] /\ m \in 1 .. (Total + Breaks)
  <2>1. input \in Seq(1 .. (Total + Breaks)) BY DEF Types
  <2>2. input # <<>> /\ input' = Tail(input) BY DEF Get
  <2> QED BY <2>1, <2>2, AtTheFront
<1>3. sent' = sent /\ sent \in Nat BY <1>0 DEF Types, Get, main
<1>4. Taken \in Nat /\ m = Taken + 1 /\ Taken' = Taken + 1
  BY <1>2, <1>3 DEF InOrder, Taken
<1>5. \/ /\ m > Total /\ worker' = [worker EXCEPT ![w] = [pc |-> "gone", job |-> 0]]
      \/ /\ m \in JobSet /\ worker' = [worker EXCEPT ![w] = [pc |-> "got", job |-> m]]
  <2>1. worker' = [worker EXCEPT ![w] = IF m > Total THEN [pc |-> "gone", job |-> 0]
                                       ELSE [pc |-> "got", job |-> m]]
    BY DEF Get, Leaves, IsBreak
  <2>2. m > Total \/ m \in JobSet BY <1>0, <1>2 DEF JobSet
  <2>3. m \in JobSet => ~(m > Total) BY <1>0 DEF JobSet
  <2> QED BY <2>1, <2>2, <2>3
<1>6. /\ \A v \in Workers \ {w} : worker'[v] = worker[v]
      /\ worker[w].pc = "get"
      /\ \/ m > Total /\ worker'[w] = [pc |-> "gone", job |-> 0]
         \/ m \in JobSet /\ worker'[w] = [pc |-> "got", job |-> m]
  BY <1>5 DEF Types, Get
<1>7. worker' \in [Workers -> [pc : {"get", "got", "running", "gone"}, job : 0 .. Total]]
  <2>1. worker \in [Workers -> [pc : {"get", "got", "running", "gone"}, job : 0 .. Total]]
    BY DEF Types
  <2>2. 0 \in 0 .. Total /\ (m \in JobSet => m \in 0 .. Total) BY <1>0 DEF JobSet
  <2> QED BY <1>5, <2>1, <2>2
<1>8. UNCHANGED <<output, threadExit, broken, outcome, faults, main>> BY DEF Get
<1>9. Types' BY <1>0, <1>1, <1>2, <1>3, <1>7, <1>8 DEF Types, Breaks, main
<1>10. InOrder' BY <1>2, <1>3, <1>8 DEF InOrder, main
<1>11. /\ \A v \in Workers \ {w} : Owns(v)' <=> Owns(v)
       /\ ~Owns(w) /\ (Owns(w)' <=> m \in JobSet)
       /\ Owns(w)' => worker'[w].job = m
  BY <1>0, <1>6 DEF Owns, JobSet
<1>12. \A n : n \in JobSet /\ n <= Taken => n # m BY <1>4 DEF JobSet
<1>13. collected' = collected /\ faults' = faults /\ broken' = broken /\ output' = output
  BY <1>8 DEF main
<1>14. m \notin collected \cup faults \cup broken
  BY <1>4, <1>12 DEF Apart, Types
<1>15. Apart'
  <2>1. \A v \in Workers : Owns(v)' =>
          /\ worker'[v].job \in JobSet /\ worker'[v].job <= Taken + 1
          /\ worker'[v].job \notin collected \cup faults \cup broken
    BY <1>4, <1>6, <1>11, <1>14 DEF Apart, JobSet
  <2>2. \A v, u \in Workers : Owns(v)' /\ Owns(u)' /\ v # u => worker'[v].job # worker'[u].job
    BY <1>6, <1>11, <1>12 DEF Apart
  <2>3. \A i \in 1 .. Len(output) :
          /\ output[i] <= Taken + 1 /\ output[i] \notin collected \cup faults
          /\ \A v \in Workers : Owns(v)' => output[i] # worker'[v].job
    <3>1. \A i \in 1 .. Len(output) : output[i] \in JobSet /\ output[i] <= Taken
      BY DEF Apart, Types
    <3> QED BY <3>1, <1>4, <1>6, <1>11, <1>12 DEF Apart, JobSet
  <2>4. \A n \in collected \cup faults \cup broken : n <= Taken + 1
    BY <1>4 DEF Apart, Types, JobSet
  <2> QED BY <2>1, <2>2, <2>3, <2>4, <1>1, <1>4, <1>13 DEF Apart
<1>16. \A n : InOutput(n)' <=> InOutput(n) BY <1>13 DEF InOutput
<1>17. Somewhere'
  <2> SUFFICES ASSUME NEW n \in JobSet, n <= Taken + 1
               PROVE  \/ n \in collected \cup faults \/ InOutput(n)
                      \/ \E v \in Workers : Owns(v)' /\ worker'[v].job = n
    BY <1>1, <1>4, <1>13, <1>16 DEF Somewhere
  <2>1. CASE n = m BY <2>1, <1>11
  <2>2. CASE n # m
    <3>1. n <= Taken BY <2>2, <1>4 DEF JobSet
    <3> QED BY <3>1, <1>6, <1>11 DEF Somewhere
  <2> QED BY <2>1, <2>2
<1>18. HasRun' BY <1>0, <1>1, <1>8, <1>13, <1>16 DEF HasRun, Skipped, JobAt
<1>19. Counts' /\ Filed' BY <1>0, <1>8, CountsStay DEF main
<1>20. ReturnedZero' BY <1>1, <1>8 DEF ReturnedZero, main
<1> QED BY <1>9, <1>10, <1>15, <1>17, <1>18, <1>19, <1>20

LEMMA LaunchInv == ASSUME Inv, NEW w \in Workers, Launch(w) PROVE Inv'
<1> USE DEF Inv
<1>0. Total \in Nat /\ inv' = inv BY Numbers DEF Types, Launch
<1>1. Total' = Total /\ JobSet' = JobSet BY <1>0 DEF Total, JobSet
<1>2. UNCHANGED <<input, output, threadExit, broken, outcome, faults, main>> BY DEF Launch
<1>3. /\ \A v \in Workers : worker'[v].job = worker[v].job /\ (Owns(v)' <=> Owns(v))
      /\ worker' \in [Workers -> [pc : {"get", "got", "running", "gone"}, job : 0 .. Total]]
  <2>1. worker' = [worker EXCEPT ![w].pc = "running"] /\ worker[w].pc = "got" BY DEF Launch
  <2>2. worker \in [Workers -> [pc : {"get", "got", "running", "gone"}, job : 0 .. Total]]
    BY DEF Types
  <2> QED BY <2>1, <2>2 DEF Owns
<1>4. Taken' = Taken BY <1>2 DEF Taken, main
<1>5. Types' BY <1>0, <1>1, <1>2, <1>3 DEF Types, Breaks, main
<1>6. InOrder' BY <1>2 DEF InOrder, main
<1>7. Apart' BY <1>1, <1>2, <1>3, <1>4 DEF Apart, main
<1>8. \A n : InOutput(n)' <=> InOutput(n) BY <1>2 DEF InOutput
<1>9. Somewhere' BY <1>1, <1>2, <1>3, <1>4, <1>8 DEF Somewhere, main
<1>10. HasRun' BY <1>0, <1>1, <1>2, <1>8 DEF HasRun, Skipped, JobAt, main
<1>11. Counts' /\ Filed' BY <1>0, <1>2, CountsStay DEF main
<1>12. ReturnedZero' BY <1>1, <1>2 DEF ReturnedZero, main
<1> QED BY <1>5, <1>6, <1>7, <1>9, <1>10, <1>11, <1>12

(* An answer moves a job from its worker to the end of the output queue. *)
LEMMA AnswerMoves ==
  ASSUME Inv, NEW w \in Workers, Owns(w), Answer(w),
         UNCHANGED <<inv, sent, input, collected, faults>>,
         broken \subseteq broken', broken' \subseteq broken \cup {worker[w].job}
  PROVE  /\ output' \in Seq(JobSet)
         /\ worker' \in [Workers -> [pc : {"get", "got", "running", "gone"}, job : 0 .. Total]]
         /\ broken' \subseteq JobSet
         /\ InOrder' /\ Apart' /\ Somewhere'
         /\ \A n : InOutput(n)' <=> InOutput(n) \/ n = worker[w].job
<1> DEFINE m == worker[w].job
<1> USE DEF Inv
<1>0. Total \in Nat BY Numbers DEF Types
<1>1. Total' = Total /\ JobSet' = JobSet /\ Taken' = Taken BY DEF Total, JobSet, Taken
<1>2. m \in JobSet /\ m <= Taken /\ m \notin collected \cup faults \cup broken BY DEF Apart
<1>3. /\ output' \in Seq(JobSet) /\ Len(output) \in Nat
      /\ Len(output') = Len(output) + 1
      /\ \A i \in 1 .. Len(output) : output'[i] = output[i]
      /\ output'[Len(output) + 1] = m
  <2>1. output \in Seq(JobSet) /\ output' = Append(output, m) BY DEF Types, Answer
  <2> QED BY <2>1, <1>2, AtTheEnd
<1>4. /\ worker' \in [Workers -> [pc : {"get", "got", "running", "gone"}, job : 0 .. Total]]
      /\ \A v \in Workers \ {w} : worker'[v] = worker[v]
      /\ worker'[w].pc = "get"
  <2>1. worker \in [Workers -> [pc : {"get", "got", "running", "gone"}, job : 0 .. Total]]
    BY DEF Types
  <2>2. worker' = [worker EXCEPT ![w] = [pc |-> "get", job |-> 0]] BY DEF Answer, Idle
  <2>3. 0 \in 0 .. Total BY <1>0
  <2> QED BY <2>1, <2>2, <2>3
<1>5. ~Owns(w)' /\ \A v \in Workers \ {w} : Owns(v)' <=> Owns(v) BY <1>4 DEF Owns
<1>6. broken' \subseteq JobSet BY <1>2 DEF Types
<1>7. InOrder' BY DEF InOrder
<1>8. \A n : InOutput(n)' <=> InOutput(n) \/ n = m
  <2>1. ASSUME NEW n, InOutput(n)' PROVE InOutput(n) \/ n = m
    BY <2>1, <1>3 DEF InOutput
  <2>2. ASSUME NEW n, InOutput(n) \/ n = m PROVE InOutput(n)'
    <3>1. CASE InOutput(n) BY <3>1, <1>3 DEF InOutput
    <3>2. CASE n = m
      <4>1. Len(output) + 1 \in 1 .. Len(output') BY <1>3
      <4> QED BY <3>2, <4>1, <1>3 DEF InOutput
    <3> QED BY <2>2, <3>1, <3>2
  <2> QED BY <2>1, <2>2
<1>9. Apart'
  <2>1. \A v \in Workers : Owns(v)' =>
          /\ worker'[v].job \in JobSet /\ worker'[v].job <= Taken
          /\ worker'[v].job \notin collected \cup faults \cup broken'
          /\ worker'[v].job # m
    BY <1>4, <1>5 DEF Apart
  <2>2. \A v, u \in Workers : Owns(v)' /\ Owns(u)' /\ v # u => worker'[v].job # worker'[u].job
    BY <1>4, <1>5 DEF Apart
  <2>3. \A i \in 1 .. Len(output') : i \in 1 .. Len(output) \/ i = Len(output) + 1
    BY <1>3
  <2>4. \A i \in 1 .. Len(output') :
          /\ output'[i] <= Taken /\ output'[i] \notin collected \cup faults
          /\ \A v \in Workers : Owns(v)' => output'[i] # worker'[v].job
    <3> SUFFICES ASSUME NEW i \in 1 .. Len(output')
                 PROVE  /\ output'[i] <= Taken /\ output'[i] \notin collected \cup faults
                        /\ \A v \in Workers : Owns(v)' => output'[i] # worker'[v].job
      OBVIOUS
    <3>1. CASE i \in 1 .. Len(output)
      <4>1. output'[i] = output[i] BY <3>1, <1>3
      <4> QED BY <3>1, <4>1, <1>4, <1>5 DEF Apart
    <3>2. CASE i = Len(output) + 1
      <4>1. output'[i] = m BY <3>2, <1>3
      <4> QED BY <4>1, <2>1, <1>2
    <3> QED BY <2>3, <3>1, <3>2
  <2>5. \A i \in 1 .. Len(output) : output[i] # m BY DEF Apart
  <2>6. \A i, k \in 1 .. Len(output') : output'[i] = output'[k] => i = k
    BY <2>3, <2>5, <1>3 DEF Apart
  <2>7. \A n \in collected \cup faults \cup broken' : n <= Taken BY <1>2 DEF Apart
  <2>8. collected \cap faults = {} BY DEF Apart
  <2> QED BY <2>1, <2>2, <2>4, <2>6, <2>7, <2>8, <1>1 DEF Apart
<1>10. Somewhere'
  <2> SUFFICES ASSUME NEW n \in JobSet, n <= Taken
               PROVE  \/ n \in collected \cup faults \/ InOutput(n)'
                      \/ \E v \in Workers : Owns(v)' /\ worker'[v].job = n
    BY <1>1 DEF Somewhere
  <2>1. CASE n = m BY <2>1, <1>8
  <2>2. CASE n # m BY <2>2, <1>4, <1>5, <1>8 DEF Somewhere
  <2> QED BY <2>1, <2>2
<1> QED BY <1>3, <1>4, <1>6, <1>7, <1>8, <1>9, <1>10

LEMMA PassBackInv == ASSUME Inv, NEW w \in Workers, PassBack(w) PROVE Inv'
<1> DEFINE m == worker[w].job
<1> USE DEF Inv
<1>1. Owns(w) /\ Answer(w) /\ UNCHANGED <<inv, input, threadExit, outcome, faults, main>>
  BY DEF PassBack, Owns
<1>2. \/ broken' = broken \cup {m}
      \/ broken' = broken /\ Skipped(m)
  BY DEF PassBack
<1>3. sent' = sent /\ collected' = collected BY <1>1 DEF main
<1>4. /\ output' \in Seq(JobSet)
      /\ worker' \in [Workers -> [pc : {"get", "got", "running", "gone"}, job : 0 .. Total]]
      /\ broken' \subseteq JobSet
      /\ InOrder' /\ Apart' /\ Somewhere'
      /\ \A n : InOutput(n)' <=> InOutput(n) \/ n = m
  BY <1>1, <1>2, <1>3, AnswerMoves
<1>5. Total' = Total /\ JobSet' = JobSet BY <1>1 DEF Total, JobSet
<1>6. Types' BY <1>1, <1>4, <1>5 DEF Types, Breaks, main
<1>7. HasRun'
  <2>1. \A n \in JobSet : (n \in collected \/ InOutput(n)') /\ n \notin broken' /\ ~Skipped(n)
          => n \in DOMAIN outcome
    BY <1>2, <1>4 DEF HasRun
  <2> QED BY <2>1, <1>1, <1>3, <1>5 DEF HasRun, Skipped, JobAt
<1>8. m \notin collected BY <1>1 DEF Apart
<1>9. Counts' /\ Filed' BY <1>1, <1>2, <1>3, <1>8, CountsStay DEF main
<1>10. ReturnedZero' BY <1>1, <1>5 DEF ReturnedZero, main
<1> QED BY <1>4, <1>6, <1>7, <1>9, <1>10

(* A job that test.py takes for passed has passed. *)
LEMMA FinishInv == ASSUME Inv, NEW w \in Workers, Finish(w) PROVE Inv'
<1> DEFINE m == worker[w].job
<1> USE DEF Inv
<1>1. Owns(w) /\ Answer(w) /\ UNCHANGED <<inv, input, threadExit, broken, faults, main>>
  BY DEF Finish, Owns
<1>2. sent' = sent /\ collected' = collected BY <1>1 DEF main
<1>3. m \in JobSet /\ m \notin collected BY <1>1 DEF Apart
<1>4. /\ output' \in Seq(JobSet)
      /\ worker' \in [Workers -> [pc : {"get", "got", "running", "gone"}, job : 0 .. Total]]
      /\ broken' \subseteq JobSet
      /\ InOrder' /\ Apart' /\ Somewhere'
      /\ \A n : InOutput(n)' <=> InOutput(n) \/ n = m
  BY <1>1, <1>2, AnswerMoves
<1>5. Total' = Total /\ JobSet' = JobSet BY <1>1 DEF Total, JobSet
<1>6. Types' BY <1>1, <1>4, <1>5 DEF Types, Breaks, main
<1>7. PICK p \in Processes(m), garbled \in {FALSE, Undecodable} :
        outcome' = [n \in DOMAIN outcome \cup {m} |->
                     IF n = m THEN [real |-> p.code, code |-> RetVal(p.code, garbled), file |-> p.file]
                     ELSE outcome[n]]
  BY DEF Finish
<1>8. p \in [code : Codes, file : Files] BY DEF Processes, Codes, Files
<1>9. /\ outcome'[m] \in Outcomes
      /\ Judged(outcome'[m])
      /\ DOMAIN outcome' = DOMAIN outcome \cup {m}
      /\ \A n \in DOMAIN outcome : n # m => outcome'[n] = outcome[n]
  <2>1. outcome'[m] = [real |-> p.code, code |-> RetVal(p.code, garbled), file |-> p.file]
    BY <1>7
  <2>2. /\ RetVal(p.code, garbled) \in Codes
        /\ RetVal(p.code, garbled) = 0 => p.code = 0
        /\ p.code = Crash => RetVal(p.code, garbled) \in {Crash, 1}
    BY <1>8 DEF RetVal, Codes
  <2>3. p.file = "partial" => p.code = Crash BY <1>7 DEF Processes
  <2> QED BY <2>1, <2>2, <2>3, <1>7, <1>8 DEF Outcomes, Judged
<1>10. HasRun'
  <2>1. \A n \in DOMAIN outcome' :
          outcome'[n] \in Outcomes /\ Judged(outcome'[n])
    BY <1>9 DEF HasRun
  <2>2. \A n \in JobSet : (n \in collected \/ InOutput(n)') /\ n \notin broken /\ ~Skipped(n)
          => n \in DOMAIN outcome'
    BY <1>4, <1>9 DEF HasRun
  <2>3. DOMAIN outcome' \subseteq JobSet BY <1>3, <1>9 DEF HasRun
  <2> QED BY <2>1, <2>2, <2>3, <1>1, <1>2, <1>5 DEF HasRun, Skipped, JobAt
<1>11. Counts' /\ Filed'
  <2>1. \A n \in collected \ broken : ~Skipped(n) => outcome'[n] = outcome[n]
    BY <1>3, <1>9 DEF HasRun, Types
  <2> QED BY <2>1, <1>1, <1>2, CountsStay DEF main
<1>12. ReturnedZero' BY <1>1, <1>5 DEF ReturnedZero, main
<1> QED BY <1>4, <1>6, <1>10, <1>11, <1>12

(* A job whose process cannot be created is lost with its worker. *)
LEMMA LaunchFailsInv == ASSUME Inv, NEW w \in Workers, LaunchFails(w) PROVE Inv'
<1> DEFINE m == worker[w].job
<1> USE DEF Inv
<1>0. Total \in Nat /\ inv' = inv BY Numbers DEF Types, LaunchFails
<1>1. Total' = Total /\ JobSet' = JobSet BY <1>0 DEF Total, JobSet
<1>2. UNCHANGED <<input, output, threadExit, broken, outcome, main>> /\ faults' = faults \cup {m}
  BY DEF LaunchFails
<1>3. Owns(w) BY DEF LaunchFails, Owns
<1>4. m \in JobSet /\ m <= Taken /\ m \notin collected BY <1>3 DEF Apart
<1>5. /\ worker' \in [Workers -> [pc : {"get", "got", "running", "gone"}, job : 0 .. Total]]
      /\ \A v \in Workers \ {w} : worker'[v] = worker[v]
      /\ worker'[w].pc = "gone"
  <2>1. worker \in [Workers -> [pc : {"get", "got", "running", "gone"}, job : 0 .. Total]]
    BY DEF Types
  <2>2. worker' = [worker EXCEPT ![w] = [pc |-> "gone", job |-> 0]] BY DEF LaunchFails
  <2>3. 0 \in 0 .. Total BY <1>0
  <2> QED BY <2>1, <2>2, <2>3
<1>6. ~Owns(w)' /\ \A v \in Workers \ {w} : Owns(v)' <=> Owns(v) BY <1>5 DEF Owns
<1>7. Taken' = Taken /\ output' = output /\ collected' = collected /\ broken' = broken
  BY <1>2 DEF Taken, main
<1>8. Types' BY <1>0, <1>1, <1>2, <1>4, <1>5 DEF Types, Breaks, main
<1>9. InOrder' BY <1>2 DEF InOrder, main
<1>10. Apart'
  <2>1. \A v \in Workers : Owns(v)' =>
          /\ worker'[v].job \in JobSet /\ worker'[v].job <= Taken
          /\ worker'[v].job \notin collected \cup faults \cup broken
          /\ worker'[v].job # m
    BY <1>3, <1>5, <1>6 DEF Apart
  <2>2. \A v, u \in Workers : Owns(v)' /\ Owns(u)' /\ v # u => worker'[v].job # worker'[u].job
    BY <1>5, <1>6 DEF Apart
  <2>3. \A i \in 1 .. Len(output) :
          /\ output[i] <= Taken /\ output[i] \notin collected \cup faults
          /\ output[i] # m
          /\ \A v \in Workers : Owns(v)' => output[i] # worker'[v].job
    BY <1>3, <1>5, <1>6 DEF Apart
  <2>4. \A n \in collected \cup faults \cup broken \cup {m} : n <= Taken BY <1>4 DEF Apart
  <2>5. collected \cap (faults \cup {m}) = {} BY <1>4 DEF Apart
  <2>6. \A i, k \in 1 .. Len(output) : output[i] = output[k] => i = k BY DEF Apart
  <2> QED BY <2>1, <2>2, <2>3, <2>4, <2>5, <2>6, <1>1, <1>2, <1>7 DEF Apart
<1>11. \A n : InOutput(n)' <=> InOutput(n) BY <1>7 DEF InOutput
<1>12. Somewhere'
  <2> SUFFICES ASSUME NEW n \in JobSet, n <= Taken
               PROVE  \/ n \in collected \cup faults \cup {m} \/ InOutput(n)
                      \/ \E v \in Workers : Owns(v)' /\ worker'[v].job = n
    BY <1>1, <1>2, <1>7, <1>11 DEF Somewhere
  <2> QED BY <1>5, <1>6 DEF Somewhere
<1>13. HasRun' BY <1>0, <1>1, <1>2, <1>7, <1>11 DEF HasRun, Skipped, JobAt
<1>14. Counts' /\ Filed' BY <1>0, <1>2, CountsStay DEF main
<1>15. ReturnedZero' BY <1>1, <1>2 DEF ReturnedZero, main
<1> QED BY <1>8, <1>9, <1>10, <1>12, <1>13, <1>14, <1>15

LEMMA StatusType == \A n : Status(n) \in Statuses
BY DEF Status, Statuses

(* The main thread takes an answer, counts it and files it. *)
LEMMA CollectInv == ASSUME Inv, Collect PROVE Inv'
<1> DEFINE m == Head(output)
<1> USE DEF Inv
<1>0. Total \in Nat /\ inv' = inv /\ IsFiniteSet(JobSet) BY Numbers DEF Types, Collect
<1>1. Total' = Total /\ JobSet' = JobSet BY <1>0 DEF Total, JobSet
<1>2. /\ UNCHANGED <<inv, input, worker, threadExit, broken, outcome, faults, sent>>
      /\ phase = "collect" /\ answers < Total /\ answers' = answers + 1
      /\ output # <<>> /\ output' = Tail(output)
      /\ collected' = collected \cup {m}
      /\ \/ m \in broken /\ UNCHANGED <<tally, results, phase, retcode>>
         \/ /\ m \notin broken /\ tally' = Counted(m)
            /\ \/ NoFile(m) /\ phase' = "dead" /\ retcode' = 1 /\ results' = results
               \/ /\ ~NoFile(m) /\ results' = results \cup {Entry(m)}
                  /\ phase' = phase /\ retcode' = retcode
  BY DEF Collect
<1>3. /\ output' \in Seq(JobSet) /\ Len(output) \in Nat /\ Len(output) > 0
      /\ Len(output') = Len(output) - 1
      /\ \A i \in 1 .. Len(output) - 1 : output'[i] = output[i + 1]
      /\ m = output[1] /\ m \in JobSet
  <2>1. output \in Seq(JobSet) BY DEF Types
  <2> QED BY <2>1, <1>2, AtTheFront
<1>4. /\ m <= Taken /\ m \notin collected \cup faults
      /\ \A w \in Workers : Owns(w) => m # worker[w].job
      /\ \A i \in 1 .. Len(output) - 1 : output[i + 1] # m
  BY <1>3 DEF Apart
<1>5. Taken' = Taken /\ \A w : Owns(w)' <=> Owns(w) BY <1>2 DEF Taken, Owns
<1>6. InOutput(m)
  <2>1. 1 \in 1 .. Len(output) BY <1>3
  <2> QED BY <2>1, <1>3 DEF InOutput
<1>7. \A n : InOutput(n)' <=> InOutput(n) /\ n # m
  <2>1. ASSUME NEW n, InOutput(n)' PROVE InOutput(n) /\ n # m
    <3>1. PICK i \in 1 .. Len(output) - 1 : output'[i] = n BY <2>1, <1>3 DEF InOutput
    <3>2. output[i + 1] = n /\ i + 1 \in 1 .. Len(output) BY <3>1, <1>3
    <3> QED BY <3>1, <3>2, <1>4 DEF InOutput
  <2>2. ASSUME NEW n, InOutput(n), n # m PROVE InOutput(n)'
    <3>1. PICK i \in 1 .. Len(output) : output[i] = n BY <2>2 DEF InOutput
    <3>2. i - 1 \in 1 .. Len(output') /\ output'[i - 1] = output[i] BY <3>1, <2>2, <1>3
    <3> QED BY <3>1, <3>2 DEF InOutput
  <2> QED BY <2>1, <2>2
<1>8. m \notin broken /\ ~Skipped(m) => m \in DOMAIN outcome BY <1>3, <1>6 DEF HasRun
<1>9. m \notin broken => Entry(m) \in [job : JobSet, text : Files \cup Statuses]
  <2>1. UsesFile(m) => ~Skipped(m) BY DEF UsesFile, Status
  <2>2. m \notin broken /\ UsesFile(m) => outcome[m].file \in Files
    BY <2>1, <1>8 DEF HasRun, Outcomes
  <2> QED BY <2>2, <1>3, StatusType DEF Entry
<1>10. m \notin broken =>
         /\ tally' \in [Statuses -> Nat]
         /\ tally'[Status(m)] = tally[Status(m)] + 1
         /\ \A s \in Statuses : s # Status(m) => tally'[s] = tally[s]
  <2>1. tally \in [Statuses -> Nat] BY DEF Types
  <2>2. m \notin broken => tally' = [tally EXCEPT ![Status(m)] = @ + 1] BY <1>2 DEF Counted
  <2> QED BY <2>1, <2>2, StatusType
<1>11. Types'
  <2>1. answers' \in 0 .. Total BY <1>0, <1>2 DEF Types
  <2>2. tally' \in [Statuses -> Nat] BY <1>2, <1>10 DEF Types
  <2>3. results' \subseteq [job : JobSet, text : Files \cup Statuses] BY <1>2, <1>9 DEF Types
  <2>4. phase' \in Phases /\ retcode' \in {None, 0, 1, 2} BY <1>2 DEF Types, Phases
  <2>5. collected' \subseteq JobSet BY <1>2, <1>3 DEF Types
  <2> QED BY <2>1, <2>2, <2>3, <2>4, <2>5, <1>1, <1>2, <1>3 DEF Types, Breaks
<1>12. InOrder' BY <1>2 DEF InOrder
<1>13. Apart'
  <2>1. \A v \in Workers : Owns(v) =>
          /\ worker[v].job \in JobSet /\ worker[v].job <= Taken
          /\ worker[v].job \notin collected \cup {m} \cup faults \cup broken
    BY <1>4 DEF Apart
  <2>2. \A v, u \in Workers : Owns(v) /\ Owns(u) /\ v # u => worker[v].job # worker[u].job
    BY DEF Apart
  <2>3. \A i \in 1 .. Len(output') :
          /\ i + 1 \in 1 .. Len(output) /\ output'[i] = output[i + 1]
          /\ output[i + 1] # m
    BY <1>3, <1>4
  <2>4. \A i \in 1 .. Len(output') :
          /\ output'[i] <= Taken /\ output'[i] \notin collected \cup {m} \cup faults
          /\ \A w \in Workers : Owns(w) => output'[i] # worker[w].job
    BY <2>3 DEF Apart
  <2>5. \A i, k \in 1 .. Len(output') : output'[i] = output'[k] => i = k
    <3> SUFFICES ASSUME NEW i \in 1 .. Len(output'), NEW k \in 1 .. Len(output'),
                        output'[i] = output'[k]
                 PROVE  i = k
      OBVIOUS
    <3>1. i + 1 = k + 1 BY <2>3 DEF Apart
    <3> QED BY <3>1, <1>3
  <2>6. \A n \in collected \cup {m} \cup faults \cup broken : n <= Taken BY <1>4 DEF Apart
  <2>7. (collected \cup {m}) \cap faults = {} BY <1>4 DEF Apart
  <2> QED BY <2>1, <2>2, <2>4, <2>5, <2>6, <2>7, <1>1, <1>2, <1>5 DEF Apart
<1>14. Somewhere' BY <1>1, <1>2, <1>5, <1>7 DEF Somewhere
<1>15. HasRun'
  <2>1. \A n \in JobSet : (n \in collected' \/ InOutput(n)') /\ n \notin broken /\ ~Skipped(n)
          => n \in DOMAIN outcome
    BY <1>2, <1>7, <1>8 DEF HasRun
  <2> QED BY <2>1, <1>1, <1>2 DEF HasRun, Skipped, JobAt
<1>16. Counts' /\ Filed'
  <2>1. CASE m \in broken
    <3>1. collected' \ broken' = collected \ broken BY <2>1, <1>2
    <3>2. UNCHANGED <<inv, tally, results, phase, outcome>> BY <2>1, <1>2
    <3> QED BY <3>1, <3>2, CountsStay
  <2>2. CASE m \notin broken
    <3>1. collected' \ broken' = (collected \ broken) \cup {m} BY <2>2, <1>2
    <3>2. \A n : Status(n)' = Status(n) BY <1>2 DEF Status, Skipped, JobAt
    <3>3. \A s \in Statuses :
            With(s)' = IF s = Status(m) THEN With(s) \cup {m} ELSE With(s)
      BY <3>1, <3>2 DEF With
    <3>4. \A s \in Statuses : IsFiniteSet(With(s)) /\ m \notin With(s)
      <4>1. \A s \in Statuses : With(s) \subseteq JobSet BY DEF With, Types
      <4> QED BY <4>1, <1>0, <1>4, FS_Subset DEF With
    <3>5. Cardinality(With(Status(m)) \cup {m}) = Cardinality(With(Status(m))) + 1
      BY <3>4, StatusType, FS_AddElement
    <3>6. Counts' BY <3>3, <3>5, <2>2, <1>10, StatusType DEF Counts
    <3>7. /\ \A n : UsesFile(n)' <=> UsesFile(n)
          /\ \A n : Entry(n)' = Entry(n) /\ (NoFile(n)' <=> NoFile(n))
      BY <3>2, <1>2 DEF UsesFile, Entry, NoFile, JobAt
    <3>8. Filed'
      <4>1. CASE phase' = "dead" BY <4>1 DEF Filed
      <4>2. CASE phase' # "dead"
        <5>1. phase # "dead" /\ ~NoFile(m) /\ results' = results \cup {Entry(m)}
          BY <4>2, <2>2, <1>2
        <5>2. results = {Entry(n) : n \in collected \ broken} BY <5>1 DEF Filed
        <5>3. results' = {Entry(n) : n \in collected' \ broken'} BY <5>1, <5>2, <3>1
        <5>4. \A n \in collected' \ broken' : ~NoFile(n) BY <5>1, <3>1 DEF Filed
        <5> QED BY <5>3, <5>4, <3>7 DEF Filed
      <4> QED BY <4>1, <4>2
    <3> QED BY <3>6, <3>8
  <2> QED BY <2>1, <2>2
<1>17. ReturnedZero' BY <1>2 DEF ReturnedZero
<1> QED BY <1>11, <1>12, <1>13, <1>14, <1>15, <1>16, <1>17

(* The invariant holds in every reachable state. *)
THEOREM Invariance == Spec => []Inv
<1>1. Inv /\ [Next]_vars => Inv'
  <2> SUFFICES ASSUME Inv, [Next]_vars PROVE Inv' OBVIOUS
  <2>1. CASE SigInt BY <2>1, SigIntInv
  <2>2. CASE MainStep
    BY <2>2, StartInv, DispatchInv, StartCollectingInv, CollectInv, StartJoiningInv, EndInv
       DEF MainStep
  <2>3. CASE \E w \in Workers : WorkerStep(w)
    BY <2>3, GetInv, PassBackInv, LaunchInv, LaunchFailsInv, FinishInv DEF WorkerStep
  <2>4. CASE UNCHANGED vars
    <3>1. InOrder' /\ Apart' /\ Somewhere' /\ HasRun' /\ Counts' /\ Filed'
      BY <2>4, JobsStay DEF vars, main
    <3>2. Types' BY <2>4 DEF vars, main, Inv, Types, Total, Breaks, JobSet
    <3>3. ReturnedZero' BY <2>4 DEF vars, main, Inv, ReturnedZero, Total
    <3> QED BY <3>1, <3>2, <3>3 DEF Inv
  <2> QED BY <2>1, <2>2, <2>3, <2>4 DEF Next
<1> QED BY <1>1, InitInv, PTL DEF Spec

-----------------------------------------------------------------------------
LEMMA Tallied == ASSUME Inv PROVE \A s \in Statuses :
  /\ IsFiniteSet(With(s)) /\ With(s) \subseteq JobSet
  /\ tally[s] = Cardinality(With(s)) /\ tally[s] \in 0 .. Total
<1>1. /\ Total \in Nat /\ IsFiniteSet(JobSet) /\ Cardinality(JobSet) = Total
  BY Numbers DEF Inv, Types
<1>2. \A s \in Statuses : With(s) \subseteq JobSet BY DEF Inv, Types, With
<1>3. \A s \in Statuses : IsFiniteSet(With(s)) /\ Cardinality(With(s)) <= Total
  BY <1>1, <1>2, FS_Subset
<1>4. \A s \in Statuses : tally[s] = Cardinality(With(s)) /\ tally[s] \in Nat
  BY DEF Inv, Counts, Types
<1> QED BY <1>1, <1>2, <1>3, <1>4

(* The runner's state is well typed whatever is run: no counter passes the number   *)
(* of jobs, no entry of the results file names what is no job.                       *)
THEOREM TypeCorrect == Spec => []TypeOK
<1>1. Inv => TypeOK
  <2> SUFFICES ASSUME Inv PROVE TypeOK OBVIOUS
  <2>1. tally \in [Statuses -> 0 .. Total] BY Tallied DEF Inv, Types
  <2>2. DOMAIN outcome \subseteq JobSet /\ \A n \in DOMAIN outcome : outcome[n] \in Outcomes
    BY DEF Inv, HasRun
  <2> QED BY <2>1, <2>2 DEF TypeOK, Inv, Types
<1> QED BY <1>1, Invariance, PTL

(* test.py returns 0 only when every job was answered and has passed by its own     *)
(* return code or was to be skipped.                                                 *)
THEOREM ZeroMeansAllPassed == Spec => []ExitCode
<1>1. Inv => ExitCode
  <2> SUFFICES ASSUME Inv, retcode = 0
               PROVE  /\ phase = "done"
                      /\ \A n \in JobSet : Reported(n) /\ (Skipped(n) \/ outcome[n].real = 0)
    BY DEF ExitCode
  <2>1. Total \in Nat /\ IsFiniteSet(JobSet) /\ Cardinality(JobSet) = Total
    BY Numbers DEF Inv, Types
  <2>2. phase = "done" /\ tally["PASS"] + tally["SKIP"] = Total BY DEF Inv, ReturnedZero
  <2> DEFINE P == With("PASS") S == With("SKIP")
  <2>3. /\ IsFiniteSet(P) /\ P \subseteq JobSet /\ tally["PASS"] = Cardinality(P)
        /\ IsFiniteSet(S) /\ S \subseteq JobSet /\ tally["SKIP"] = Cardinality(S)
        /\ Cardinality(P) \in Nat /\ Cardinality(S) \in Nat
    BY Tallied, FS_CardinalityType DEF Statuses
  <2>4. P \cap S = {} BY DEF With
  <2> HIDE DEF P, S
  <2>5. Cardinality(P \cap S) = 0 BY <2>4, FS_EmptySet
  <2>6. Cardinality(P \cup S) = Cardinality(P) + Cardinality(S) - Cardinality(P \cap S)
    BY <2>3, FS_Union
  <2>7. Cardinality(P \cup S) = Cardinality(JobSet) BY <2>1, <2>2, <2>3, <2>5, <2>6
  <2>8. P \cup S = JobSet
    <3>1. P \cup S \in SUBSET JobSet BY <2>3
    <3> QED BY <3>1, <2>1, <2>7, FS_Subset
  <2> USE DEF P, S
  <2> SUFFICES ASSUME NEW n \in JobSet
               PROVE  Reported(n) /\ (Skipped(n) \/ outcome[n].real = 0)
    BY <2>2
  <2>9. n \in collected \ broken /\ Status(n) \in {"PASS", "SKIP"} BY <2>8 DEF With
  <2>10. Skipped(n) \/ outcome[n].code = 0 BY <2>9 DEF Status
  <2>11. Skipped(n) \/ n \in DOMAIN outcome BY <2>9 DEF Inv, HasRun
  <2> QED BY <2>9, <2>10, <2>11 DEF Reported, Inv, HasRun, Judged
<1> QED BY <1>1, Invariance, PTL

(* The cardinality of a set with at most one element. *)
LEMMA AtMostOne ==
  ASSUME NEW S, \A x, y \in S : x = y
  PROVE  Cardinality(S) = IF S = {} THEN 0 ELSE 1
<1>1. CASE S = {} BY <1>1, FS_EmptySet
<1>2. CASE S # {}
  <2>1. PICK x : x \in S BY <1>2
  <2>2. S = {x} BY <2>1
  <2> QED BY <1>2, <2>2, FS_Singleton
<1> QED BY <1>1, <1>2

(* No job is lost on its way and none is there twice. *)
THEOREM EveryJobAccountedFor == Spec => []NoJobLost
<1>1. Inv => NoJobLost
  <2> SUFFICES ASSUME Inv, NEW n \in JobSet
               PROVE  LET copies(q) == Cardinality({i \in DOMAIN q : q[i] = n})
                          workers == Cardinality({w \in Workers :
                                        worker[w].pc \in {"got", "running"} /\ worker[w].job = n})
                          in(S) == IF n \in S THEN 1 ELSE 0
                      IN  copies(input) + workers + copies(output) + in(collected) + in(faults)
                            = in(1 .. sent)
    BY DEF NoJobLost
  <2> DEFINE I == {i \in DOMAIN input : input[i] = n}
             O == {i \in DOMAIN output : output[i] = n}
             W == {w \in Workers : worker[w].pc \in {"got", "running"} /\ worker[w].job = n}
  <2>1. /\ sent \in Nat /\ Len(input) \in Nat /\ n \in Nat /\ n > 0
        /\ DOMAIN input = 1 .. Len(input) /\ DOMAIN output = 1 .. Len(output)
        /\ Len(input) <= sent
        /\ \A i \in 1 .. Len(input) : input[i] = sent - Len(input) + i
    <3>1. Total \in Nat /\ Breaks \in Nat BY Numbers DEF Inv, Types
    <3>2. input \in Seq(1 .. (Total + Breaks)) /\ output \in Seq(JobSet) BY DEF Inv, Types
    <3> QED BY <3>1, <3>2 DEF Inv, Types, InOrder, JobSet
  <2>2. Taken \in Nat /\ Taken = sent - Len(input) BY <2>1 DEF Taken
  <2>3. Cardinality(I) = IF I = {} THEN 0 ELSE 1
    <3>1. \A i, k \in I : i = k BY <2>1
    <3> QED BY <3>1, AtMostOne
  <2>4. Cardinality(O) = IF O = {} THEN 0 ELSE 1
    <3>1. \A i, k \in O : i = k BY <2>1 DEF Inv, Apart
    <3> QED BY <3>1, AtMostOne
  <2>5. Cardinality(W) = IF W = {} THEN 0 ELSE 1
    <3>1. \A w, v \in W : w = v BY DEF Inv, Apart, Owns
    <3> QED BY <3>1, AtMostOne
  <2>6. I # {} <=> n > Taken /\ n <= sent
    <3>1. \A i \in I : n = Taken + i /\ i \in 1 .. Len(input) BY <2>1, <2>2
    <3>2. n > Taken /\ n <= sent => n - Taken \in I BY <2>1, <2>2
    <3>3. ASSUME NEW i \in I PROVE n > Taken /\ n <= sent BY <3>1, <2>1, <2>2
    <3> QED BY <3>2, <3>3
  <2>7. O # {} => n <= Taken /\ n \notin collected /\ n \notin faults /\ W = {}
    BY <2>1 DEF Inv, Apart, Owns
  <2>8. W # {} => n <= Taken /\ n \notin collected /\ n \notin faults
    BY DEF Inv, Apart, Owns
  <2>9. /\ n \in collected \cup faults => n <= Taken
        /\ ~(n \in collected /\ n \in faults)
    BY DEF Inv, Apart
  <2>10. n <= Taken => n \in collected \/ n \in faults \/ O # {} \/ W # {}
    BY <2>1 DEF Inv, Somewhere, InOutput, Owns
  <2>11. n \in 1 .. sent <=> n <= sent BY <2>1
  <2>12. Taken <= sent BY <2>1, <2>2
  <2> HIDE DEF I, O, W
  <2>13. Cardinality(I) + Cardinality(W) + Cardinality(O)
           + (IF n \in collected THEN 1 ELSE 0) + (IF n \in faults THEN 1 ELSE 0)
         = IF n \in 1 .. sent THEN 1 ELSE 0
    BY <2>1, <2>2, <2>3, <2>4, <2>5, <2>6, <2>7, <2>8, <2>9, <2>10, <2>11, <2>12
  <2> QED BY <2>13 DEF I, O, W
<1> QED BY <1>1, Invariance, PTL

(* When test.py is done, the results file has one entry for each job that ran or    *)
(* was skipped, the counters are right, and the file of a suite is copied whole      *)
(* unless a crash passed for a failure.                                              *)
THEOREM ResultsAreComplete == Spec => []ResultsComplete
<1>1. Inv => ResultsComplete
  <2> DEFINE C == collected \ broken
  <2> SUFFICES ASSUME Inv, phase = "done"
               PROVE  /\ {e.job : e \in results} = C
                      /\ Cardinality(results) = Cardinality(C)
                      /\ \A s \in Statuses : tally[s] = Cardinality({n \in C : Status(n) = s})
                      /\ \A e \in results :
                           /\ JobAt(e.job).kind = "suite" /\ Status(e.job) \in {"PASS", "FAIL", "VALGR"}
                                => e.text \in {"whole", "partial"}
                           /\ e.text = "partial" => Status(e.job) = "FAIL" /\ outcome[e.job].real = Crash
    BY DEF ResultsComplete
  <2>1. results = {Entry(n) : n \in C} /\ \A n \in C : ~NoFile(n) BY DEF Inv, Filed
  <2>2. \A n : Entry(n).job = n BY DEF Entry
  <2>3. {e.job : e \in results} = C BY <2>1, <2>2
  <2>4. Cardinality(results) = Cardinality(C)
    <3>1. IsFiniteSet(C)
      <4>1. IsFiniteSet(JobSet) /\ C \in SUBSET JobSet BY Numbers DEF Inv, Types
      <4> QED BY <4>1, FS_Subset
    <3>2. [n \in C |-> Entry(n)] \in Bijection(C, results)
      <4> DEFINE M == [n \in C |-> Entry(n)]
      <4>1. M \in [C -> results] BY <2>1
      <4>2. \A n, k \in C : M[n] = M[k] => n = k BY <2>2
      <4>3. \A e \in results : \E n \in C : M[n] = e BY <2>1
      <4> HIDE DEF M
      <4>4. M \in Bijection(C, results)
        BY <4>1, <4>2, <4>3 DEF Bijection, Injection, Surjection, IsInjective
      <4> QED BY <4>4 DEF M
    <3>3. ExistsBijection(C, results) BY <3>2 DEF ExistsBijection
    <3> QED BY <3>1, <3>3, FS_Bijection
  <2>5. \A s \in Statuses : tally[s] = Cardinality({n \in C : Status(n) = s})
    BY DEF Inv, Counts, With
  <2>6. ASSUME NEW n \in C, JobAt(n).kind = "suite", Status(n) \in {"PASS", "FAIL", "VALGR"}
        PROVE  Entry(n).text \in {"whole", "partial"}
    <3>1. UsesFile(n) BY <2>6 DEF UsesFile
    <3>2. ~Skipped(n) BY <2>6 DEF Status
    <3>3. n \in DOMAIN outcome /\ outcome[n].file \in Files
      BY <3>2, <2>6 DEF Inv, HasRun, Types, Outcomes
    <3>4. outcome[n].file # "none" BY <3>1, <2>1 DEF NoFile
    <3> QED BY <3>1, <3>3, <3>4 DEF Entry, Files
  <2>7. ASSUME NEW n \in C, Entry(n).text = "partial"
        PROVE  Status(n) = "FAIL" /\ outcome[n].real = Crash
    <3>1. UsesFile(n) /\ outcome[n].file = "partial"
      BY <2>7, StatusType DEF Entry, Statuses
    <3>2. ~Skipped(n) /\ Status(n) # "CRASH" BY <3>1 DEF UsesFile, Status
    <3>3. n \in DOMAIN outcome BY <3>2 DEF Inv, HasRun, Types
    <3>4. outcome[n].real = Crash /\ outcome[n].code \in {Crash, 1}
      BY <3>1, <3>3 DEF Inv, HasRun, Judged
    <3>5. outcome[n].code = 1 BY <3>2, <3>4, InvocationsAssumption DEF Status
    <3> QED BY <3>2, <3>4, <3>5 DEF Status
  <2> QED BY <2>1, <2>2, <2>3, <2>4, <2>5, <2>6, <2>7
<1> QED BY <1>1, Invariance, PTL
-------------------------------------------------------------------------------
(* Every step of the runner is a step of the pool of jobs or changes nothing the  *)
(* pool knows of.                                                                  *)

Stage == [n \in JobSet |-> StageOf(n)]

(* One answer is taken per job, and the main thread joins when it has all. *)
Answered ==
  /\ answers = Cardinality(collected)
  /\ phase = "join" => answers = Total

LEMMA AnsweredStep == ASSUME Inv, Answered, [Next]_vars PROVE Answered'
<1>0. /\ IsFiniteSet(collected) /\ Total \in Nat
      /\ answers \in Nat
  <2>1. IsFiniteSet(JobSet) /\ Total \in Nat BY Numbers DEF Inv, Types
  <2> QED BY <2>1, FS_Subset DEF Inv, Types
<1>1. CASE Collect
  <2> DEFINE m == Head(output)
  <2>1. /\ collected' = collected \cup {m} /\ answers' = answers + 1
        /\ phase' \in {"collect", "dead"} /\ output # <<>>
    BY <1>1 DEF Collect
  <2>2. m \notin collected
    <3>1. output \in Seq(JobSet) BY DEF Inv, Types
    <3>2. Len(output) \in Nat /\ Len(output) > 0 /\ m = output[1] BY <3>1, <2>1, AtTheFront
    <3>3. 1 \in 1 .. Len(output) BY <3>2
    <3> QED BY <3>2, <3>3 DEF Inv, Apart
  <2>3. Cardinality(collected \cup {m}) = Cardinality(collected) + 1 BY <1>0, <2>2, FS_AddElement
  <2> QED BY <2>1, <2>3 DEF Answered
<1>2. CASE SigInt \/ UNCHANGED vars BY <1>2 DEF SigInt, vars, main, Answered, Total
<1>3. CASE Start \/ Dispatch \/ StartCollecting \/ StartJoining \/ End
  BY <1>3 DEF Start, Dispatch, StartCollecting, StartJoining, End, Answered, Total
<1>4. ASSUME NEW w \in Workers, WorkerStep(w) PROVE Answered'
  BY <1>4 DEF WorkerStep, Get, PassBack, Launch, LaunchFails, Finish, main, Answered, Total
<1> QED BY <1>1, <1>2, <1>3, <1>4 DEF Next, MainStep

LEMMA AnsweredInit == Init => Answered
BY FS_EmptySet DEF Init, Answered

(* The five stages exclude each other. *)
StagesApart ==
  \A n \in JobSet :
    /\ StageOf(n) = "reported" <=> n \in collected
    /\ StageOf(n) = "lost" <=> n \in faults
    /\ StageOf(n) = "taken" <=> \E w \in Workers : Owns(w) /\ worker[w].job = n
    /\ StageOf(n) = "answered" <=> InOutput(n)
    /\ StageOf(n) \in {"waiting", "taken", "answered", "reported", "lost"}

LEMMA Stages == Inv => StagesApart
<1> SUFFICES ASSUME Inv, NEW n \in JobSet
    PROVE  /\ StageOf(n) = "reported" <=> n \in collected
           /\ StageOf(n) = "lost" <=> n \in faults
           /\ StageOf(n) = "taken" <=> \E w \in Workers : Owns(w) /\ worker[w].job = n
           /\ StageOf(n) = "answered" <=> InOutput(n)
           /\ StageOf(n) \in {"waiting", "taken", "answered", "reported", "lost"}
  BY DEF StagesApart
<1>1. n \in Held <=> \E w \in Workers : Owns(w) /\ worker[w].job = n BY DEF Held, Owns
<1>2. Contains(output, n) <=> InOutput(n) BY DEF Contains, InOutput
<1>3. ~(n \in collected /\ n \in faults) BY DEF Inv, Apart
<1>4. n \in Held => n \notin collected /\ n \notin faults /\ ~InOutput(n)
  BY <1>1 DEF Inv, Apart, InOutput
<1>5. InOutput(n) => n \notin collected /\ n \notin faults BY DEF Inv, Apart, InOutput
<1> QED BY <1>1, <1>2, <1>3, <1>4, <1>5 DEF StageOf

LEMMA StagesNext == Inv' => StagesApart'
BY Stages, PTL

(* A step that moves one job, or none, of those the pool knows. *)
LEMMA OneMoves ==
  ASSUME NEW m \in JobSet, inv' = inv, \A n \in JobSet : n # m => StageOf(n)' = StageOf(n)
  PROVE  Stage' = [Stage EXCEPT ![m] = StageOf(m)'] /\ Stage[m] = StageOf(m)
<1>1. JobSet' = JobSet BY DEF JobSet, Total
<1> QED BY <1>1 DEF Stage

LEMMA NoneMoves ==
  ASSUME inv' = inv, \A n \in JobSet : StageOf(n)' = StageOf(n)
  PROVE  Stage' = Stage
<1>1. JobSet' = JobSet BY DEF JobSet, Total
<1> QED BY <1>1 DEF Stage

(* Fewer jobs are taken than there are workers while one of them waits for a job. *)
LEMMA RoomToTake ==
  ASSUME Inv, NEW w \in Workers, ~Owns(w)
  PROVE  Cardinality({n \in DOMAIN Stage : Stage[n] = "taken"}) < Breaks
<1> DEFINE T == {n \in DOMAIN Stage : Stage[n] = "taken"}
           B == {v \in Workers : Owns(v)}
<1>1. T = {n \in JobSet : \E v \in B : worker[v].job = n} BY Stages DEF Stage, StagesApart
<1>2. IsFiniteSet(B) /\ Cardinality(B) <= Breaks /\ (Cardinality(B) = Breaks => B = Workers)
      /\ Cardinality(B) \in Nat /\ Breaks \in Nat
  <2>1. IsFiniteSet(Workers) /\ B \in SUBSET Workers BY WorkersAssumption
  <2> QED BY <2>1, FS_Subset, FS_CardinalityType DEF Breaks
<1>3. Cardinality(B) < Breaks BY <1>2
<1>4. Cardinality(T) = Cardinality(B)
  <2> DEFINE M == [v \in B |-> worker[v].job]
  <2>1. M \in [B -> T] BY <1>1 DEF Inv, Apart
  <2>2. \A v, u \in B : M[v] = M[u] => v = u BY DEF Inv, Apart
  <2>3. \A n \in T : \E v \in B : M[v] = n BY <1>1
  <2> HIDE DEF M, B, T
  <2>4. M \in Bijection(B, T)
    BY <2>1, <2>2, <2>3 DEF Bijection, Injection, Surjection, IsInjective
  <2>5. ExistsBijection(B, T) BY <2>4 DEF ExistsBijection
  <2> QED BY <2>5, <1>2, FS_Bijection
<1> QED BY <1>3, <1>4

-----------------------------------------------------------------------------
LEMMA SameCardinality == ASSUME NEW S PROVE Pool!Cardinality(S) = Cardinality(S)
BY DEF Pool!Cardinality, Cardinality

LEMMA PoolInit == Init => Pool!Init
<1> SUFFICES ASSUME Init PROVE Pool!Init OBVIOUS
<1>1. Inv BY InitInv
<1>2. \A n \in JobSet : StageOf(n) = "waiting"
  BY <1>1, Stages DEF StagesApart, Init, Owns, Idle, InOutput
<1>3. DOMAIN Stage = JobSet /\ Stage = [n \in DOMAIN Stage |-> "waiting"] BY <1>2 DEF Stage
<1>4. Cardinality(JobSet) = Total BY <1>1, Numbers DEF Inv, Types
<1>5. DOMAIN Stage = 1 .. Cardinality(DOMAIN Stage) BY <1>3, <1>4 DEF JobSet
<1>6. Ended = "no" BY DEF Init, Ended
<1> QED BY <1>2, <1>3, <1>5, <1>6, SameCardinality DEF Pool!Init, Stage

PoolStep == Pool!Next \/ UNCHANGED <<[n \in JobSet |-> StageOf(n)], Ended>>

LEMMA PoolStutter ==
  ASSUME Stage' = Stage, Ended' = Ended
  PROVE  PoolStep
BY DEF Stage, PoolStep

LEMMA PoolMove ==
  ASSUME NEW m \in JobSet,
         \/ /\ Stage[m] = "waiting" /\ Stage' = [Stage EXCEPT ![m] = "taken"] /\ Ended' = Ended
            /\ Cardinality({n \in DOMAIN Stage : Stage[n] = "taken"}) < Breaks
         \/ /\ Stage[m] = "taken" /\ Stage' = [Stage EXCEPT ![m] = "answered"] /\ Ended' = Ended
         \/ /\ Stage[m] = "taken" /\ Stage' = [Stage EXCEPT ![m] = "lost"] /\ Ended' = Ended
         \/ /\ Stage[m] = "answered" /\ Stage' = [Stage EXCEPT ![m] = "reported"]
            /\ Ended = "no" /\ Ended' \in {"no", "badly"}
  PROVE  PoolStep
<1>1. m \in DOMAIN Stage BY DEF Stage
<1>2. Pool!Take(m) \/ Pool!Answer(m) \/ Pool!Lose(m) \/ Pool!Report(m)
  BY SameCardinality
     DEF Stage, Pool!Take, Pool!Answer, Pool!Lose, Pool!Report, Pool!Move, Pool!At
<1> QED BY <1>1, <1>2 DEF Stage, Pool!Next, PoolStep

LEMMA GetIsTake ==
  ASSUME Inv, Inv', NEW w \in Workers, Get(w)
  PROVE  PoolStep
<1>0. PICK m : m = Head(input) OBVIOUS
<1>1. /\ UNCHANGED <<inv, output, collected, faults, phase>>
      /\ worker[w].pc = "get"
      /\ worker' = [worker EXCEPT ![w] = IF m > Total THEN [pc |-> "gone", job |-> 0]
                                         ELSE [pc |-> "got", job |-> m]]
      /\ input # <<>> /\ sent' = sent /\ input' = Tail(input)
  BY <1>0 DEF Get, main, Leaves, IsBreak
<1>2. Total' = Total /\ JobSet' = JobSet /\ Ended' = Ended BY <1>1 DEF Total, JobSet, Ended
<1>3. /\ \A v \in Workers \ {w} : worker'[v] = worker[v] /\ (Owns(v)' <=> Owns(v))
      /\ ~Owns(w)
      /\ worker'[w] = IF m > Total THEN [pc |-> "gone", job |-> 0] ELSE [pc |-> "got", job |-> m]
  BY <1>1 DEF Inv, Types, Owns
<1>4. \A n : (InOutput(n)' <=> InOutput(n)) BY <1>1 DEF InOutput
<1>5. ASSUME NEW n \in JobSet, n # m \/ m > Total PROVE StageOf(n)' = StageOf(n)
  <2>1. (\E v \in Workers : Owns(v)' /\ worker'[v].job = n)
          <=> (\E v \in Workers : Owns(v) /\ worker[v].job = n)
    <3>1. ~(Owns(w)' /\ worker'[w].job = n) BY <1>3, <1>5 DEF Owns
    <3> QED BY <3>1, <1>3
  <2>2. /\ StageOf(n)' = "reported" <=> n \in collected'
        /\ StageOf(n)' = "lost" <=> n \in faults'
        /\ StageOf(n)' = "taken" <=> \E v \in Workers : Owns(v)' /\ worker'[v].job = n
        /\ StageOf(n)' = "answered" <=> InOutput(n)'
        /\ StageOf(n)' \in {"waiting", "taken", "answered", "reported", "lost"}
    BY <1>2, StagesNext DEF StagesApart
  <2> QED BY <2>1, <2>2, <1>1, <1>4, Stages DEF StagesApart
<1>6. CASE m > Total
  <2>1. Stage' = Stage BY <1>1, <1>5, <1>6, NoneMoves
  <2> QED BY <2>1, <1>2, PoolStutter
<1>7. CASE ~(m > Total)
  <2>1. /\ m \in JobSet /\ StageOf(m) = "waiting"
    <3>1. Total \in Nat /\ Breaks \in Nat BY Numbers DEF Inv, Types
    <3>2. input \in Seq(1 .. (Total + Breaks)) BY DEF Inv, Types
    <3>3. m = input[1] /\ m \in 1 .. (Total + Breaks) /\ Len(input) \in Nat /\ Len(input) > 0
      BY <3>2, <1>0, <1>1, AtTheFront
    <3>4. m \in JobSet BY <3>1, <3>3, <1>7 DEF JobSet
    <3>5. m > Taken /\ Taken \in Nat
      <4>1. sent \in Nat /\ Len(input) <= sent BY <3>1 DEF Inv, Types, InOrder
      <4>2. 1 \in 1 .. Len(input) BY <3>3
      <4>3. m = sent - Len(input) + 1 BY <3>3, <4>2 DEF Inv, InOrder
      <4> QED BY <3>3, <4>1, <4>3 DEF Taken
    <3>6. /\ m \notin collected /\ m \notin faults
          /\ ~\E v \in Workers : Owns(v) /\ worker[v].job = m
          /\ ~InOutput(m)
      BY <3>4, <3>5 DEF Inv, Apart, InOutput, JobSet
    <3> QED BY <3>4, <3>6, Stages DEF StagesApart
  <2>2. StageOf(m)' = "taken"
    <3>1. Owns(w)' /\ worker'[w].job = m BY <1>3, <1>7 DEF Owns
    <3> QED BY <3>1, <2>1, <1>2, StagesNext DEF StagesApart
  <2>3. Stage[m] = "waiting" /\ Stage' = [Stage EXCEPT ![m] = "taken"]
    BY <1>1, <1>5, <2>1, <2>2, OneMoves
  <2>4. Cardinality({n \in DOMAIN Stage : Stage[n] = "taken"}) < Breaks BY <1>3, RoomToTake
  <2> QED BY <2>1, <2>3, <2>4, <1>2, PoolMove
<1> QED BY <1>6, <1>7

LEMMA LaunchIsNothing ==
  ASSUME Inv, Inv', NEW w \in Workers, Launch(w)
  PROVE  PoolStep
<1>1. /\ UNCHANGED <<inv, output, collected, faults, phase>>
      /\ worker[w].pc = "got" /\ worker' = [worker EXCEPT ![w].pc = "running"]
  BY DEF Launch, main
<1>2. Ended' = Ended /\ JobSet' = JobSet BY <1>1 DEF Ended, JobSet, Total
<1>3. \A v \in Workers : worker'[v].job = worker[v].job /\ (Owns(v)' <=> Owns(v))
  BY <1>1 DEF Inv, Types, Owns
<1>4. \A n : (InOutput(n)' <=> InOutput(n)) BY <1>1 DEF InOutput
<1>5. \A n \in JobSet : StageOf(n)' = StageOf(n)
  BY <1>1, <1>2, <1>3, <1>4, Stages, StagesNext DEF StagesApart
<1>6. Stage' = Stage BY <1>1, <1>5, NoneMoves
<1> QED BY <1>2, <1>6, PoolStutter

LEMMA AnswerIsAnswer ==
  ASSUME Inv, Inv', NEW w \in Workers, PassBack(w) \/ Finish(w)
  PROVE  PoolStep
<1>0. PICK m : m = worker[w].job OBVIOUS
<1>1. /\ UNCHANGED <<inv, sent, input, collected, faults, phase>>
      /\ Owns(w) /\ Answer(w)
      /\ broken \subseteq broken' /\ broken' \subseteq broken \cup {m}
  BY <1>0 DEF PassBack, Finish, Owns, main
<1>2. Ended' = Ended /\ JobSet' = JobSet BY <1>1 DEF Ended, JobSet, Total
<1>3. \A n : InOutput(n)' <=> InOutput(n) \/ n = m BY <1>0, <1>1, AnswerMoves
<1>4. ~Owns(w)' /\ \A v \in Workers \ {w} : worker'[v] = worker[v] /\ (Owns(v)' <=> Owns(v))
  BY <1>1 DEF Inv, Types, Owns, Answer, Idle
<1>5. m \in JobSet /\ StageOf(m) = "taken"
  <2>1. m \in JobSet BY <1>0, <1>1 DEF Inv, Apart
  <2> QED BY <2>1, <1>0, <1>1, Stages DEF StagesApart
<1>6. StageOf(m)' = "answered" BY <1>2, <1>3, <1>5, StagesNext DEF StagesApart
<1>7. ASSUME NEW n \in JobSet, n # m PROVE StageOf(n)' = StageOf(n)
  <2>1. (\E v \in Workers : Owns(v)' /\ worker'[v].job = n)
          <=> (\E v \in Workers : Owns(v) /\ worker[v].job = n)
    BY <1>0, <1>4, <1>7
  <2>2. InOutput(n)' <=> InOutput(n) BY <1>3, <1>7
  <2> QED BY <2>1, <2>2, <1>1, <1>2, Stages, StagesNext DEF StagesApart
<1>8. Stage[m] = "taken" /\ Stage' = [Stage EXCEPT ![m] = "answered"]
  BY <1>1, <1>5, <1>6, <1>7, OneMoves
<1> QED BY <1>2, <1>5, <1>8, PoolMove

LEMMA FaultIsLose ==
  ASSUME Inv, Inv', NEW w \in Workers, LaunchFails(w)
  PROVE  PoolStep
<1>0. PICK m : m = worker[w].job OBVIOUS
<1>1. /\ UNCHANGED <<inv, output, collected, phase>> /\ faults' = faults \cup {m} /\ Owns(w)
      /\ worker' = [worker EXCEPT ![w] = [pc |-> "gone", job |-> 0]]
  BY <1>0 DEF LaunchFails, Owns, main
<1>2. Ended' = Ended /\ JobSet' = JobSet BY <1>1 DEF Ended, JobSet, Total
<1>3. ~Owns(w)' /\ \A v \in Workers \ {w} : worker'[v] = worker[v] /\ (Owns(v)' <=> Owns(v))
  BY <1>1 DEF Inv, Types, Owns
<1>4. \A n : (InOutput(n)' <=> InOutput(n)) BY <1>1 DEF InOutput
<1>5. m \in JobSet /\ StageOf(m) = "taken"
  <2>1. m \in JobSet BY <1>0, <1>1 DEF Inv, Apart
  <2> QED BY <2>1, <1>0, <1>1, Stages DEF StagesApart
<1>6. StageOf(m)' = "lost" BY <1>1, <1>2, <1>5, StagesNext DEF StagesApart
<1>7. ASSUME NEW n \in JobSet, n # m PROVE StageOf(n)' = StageOf(n)
  <2>1. (\E v \in Workers : Owns(v)' /\ worker'[v].job = n)
          <=> (\E v \in Workers : Owns(v) /\ worker[v].job = n)
    BY <1>0, <1>3, <1>7
  <2>2. n \in faults' <=> n \in faults BY <1>1, <1>7
  <2> QED BY <2>1, <2>2, <1>1, <1>2, <1>4, Stages, StagesNext DEF StagesApart
<1>8. Stage[m] = "taken" /\ Stage' = [Stage EXCEPT ![m] = "lost"]
  BY <1>1, <1>5, <1>6, <1>7, OneMoves
<1> QED BY <1>2, <1>5, <1>8, PoolMove

LEMMA CollectIsReport ==
  ASSUME Inv, Inv', Collect
  PROVE  PoolStep
<1>0. PICK m : m = Head(output) OBVIOUS
<1>1. /\ UNCHANGED <<inv, worker, faults>> /\ collected' = collected \cup {m}
      /\ output # <<>> /\ output' = Tail(output)
      /\ phase = "collect" /\ phase' \in {"collect", "dead"}
  BY <1>0 DEF Collect
<1>2. JobSet' = JobSet /\ Ended = "no" /\ Ended' \in {"no", "badly"} BY <1>1 DEF Ended, JobSet, Total
<1>3. /\ Len(output) \in Nat /\ Len(output) > 0 /\ Len(output') = Len(output) - 1
      /\ \A i \in 1 .. Len(output) - 1 : output'[i] = output[i + 1]
      /\ m = output[1] /\ m \in JobSet
  <2>1. output \in Seq(JobSet) BY DEF Inv, Types
  <2> QED BY <2>1, <1>0, <1>1, AtTheFront
<1>4. InOutput(m)
  <2>1. 1 \in 1 .. Len(output) BY <1>3
  <2> QED BY <2>1, <1>3 DEF InOutput
<1>5. StageOf(m) = "answered" BY <1>3, <1>4, Stages DEF StagesApart
<1>6. StageOf(m)' = "reported" BY <1>1, <1>2, <1>3, StagesNext DEF StagesApart
<1>7. ASSUME NEW n \in JobSet, n # m PROVE StageOf(n)' = StageOf(n)
  <2>1. ASSUME InOutput(n) PROVE InOutput(n)'
    <3>1. PICK i \in 1 .. Len(output) : output[i] = n BY <2>1 DEF InOutput
    <3>2. i - 1 \in 1 .. Len(output') /\ output'[i - 1] = output[i] BY <3>1, <1>3, <1>7
    <3> QED BY <3>1, <3>2 DEF InOutput
  <2>2. ASSUME InOutput(n)' PROVE InOutput(n)
    <3>1. PICK i \in 1 .. Len(output) - 1 : output'[i] = n BY <2>2, <1>3 DEF InOutput
    <3>2. output[i + 1] = n /\ i + 1 \in 1 .. Len(output) BY <3>1, <1>3
    <3> QED BY <3>2 DEF InOutput
  <2>3. \A v : Owns(v)' <=> Owns(v) BY <1>1 DEF Owns
  <2>4. n \in collected' <=> n \in collected BY <1>1, <1>7
  <2> QED BY <2>1, <2>2, <2>3, <2>4, <1>1, <1>2, Stages, StagesNext DEF StagesApart
<1>8. Stage[m] = "answered" /\ Stage' = [Stage EXCEPT ![m] = "reported"]
  BY <1>1, <1>3, <1>5, <1>6, <1>7, OneMoves
<1> QED BY <1>2, <1>3, <1>8, PoolMove

(* The main thread's other steps, and SIGINT: they move no job. *)
LEMMA OthersEndOrNothing ==
  ASSUME Inv, Inv', Answered,
         SigInt \/ Start \/ Dispatch \/ StartCollecting \/ StartJoining \/ End \/ UNCHANGED vars
  PROVE  PoolStep
<1>1. UNCHANGED <<inv, output, worker, faults, collected>>
  BY DEF SigInt, Start, Dispatch, StartCollecting, StartJoining, End, vars, main
<1>2. JobSet' = JobSet BY <1>1 DEF JobSet, Total
<1>3. \A n : (InOutput(n)' <=> InOutput(n)) /\ (Owns(n)' <=> Owns(n)) BY <1>1 DEF InOutput, Owns
<1>4. \A n \in JobSet : StageOf(n)' = StageOf(n)
  BY <1>1, <1>2, <1>3, Stages, StagesNext DEF StagesApart
<1>5. Stage' = Stage BY <1>1, <1>4, NoneMoves
<1>6. \/ Ended' = Ended
      \/ Ended = "no" /\ (Ended' = "badly" \/ (Ended' = "well" /\ phase = "join"))
  <2>1. \/ phase' = phase
        \/ phase \in {"start", "dispatch", "collect"} /\ phase' \in {"dispatch", "collect", "join", "exit"}
        \/ phase = "join" /\ phase' \in {"done", "dead"}
    BY DEF SigInt, Start, Dispatch, StartCollecting, StartJoining, End, vars, main
  <2>2. CASE phase' = phase BY <2>2 DEF Ended
  <2>3. CASE phase \in {"start", "dispatch", "collect"} /\ phase' \in {"dispatch", "collect", "join", "exit"}
    BY <2>3 DEF Ended
  <2>4. CASE phase = "join" /\ phase' \in {"done", "dead"} BY <2>4 DEF Ended
  <2> QED BY <2>1, <2>2, <2>3, <2>4
<1>7. phase = "join" => \A n \in JobSet : StageOf(n) = "reported"
  <2> SUFFICES ASSUME phase = "join" PROVE \A n \in JobSet : StageOf(n) = "reported" OBVIOUS
  <2>1. IsFiniteSet(JobSet) /\ Cardinality(JobSet) = Total BY Numbers DEF Inv, Types
  <2>2. collected \in SUBSET JobSet /\ Cardinality(collected) = Cardinality(JobSet)
    BY <2>1 DEF Answered, Inv, Types
  <2>3. collected = JobSet BY <2>1, <2>2, FS_Subset
  <2> QED BY <2>3, Stages DEF StagesApart
<1>8. CASE Ended' = Ended BY <1>5, <1>8, PoolStutter
<1>9. CASE Ended = "no" /\ (Ended' = "badly" \/ (Ended' = "well" /\ phase = "join"))
  <2>1. Pool!End BY <1>5, <1>7, <1>9 DEF Pool!End, Pool!At, Stage
  <2> QED BY <2>1 DEF Pool!Next, PoolStep
<1> QED BY <1>6, <1>8, <1>9

(* The threads, queues and counters of run_tests implement the pool of jobs: a job  *)
(* is taken, answered and reported once, by no more workers than there are, and     *)
(* test.py ends well only when every job is reported.                                *)
THEOREM RunnerImplementsPool == Spec => ImplementsPool
<1>1. Inv /\ Inv' /\ Answered /\ [Next]_vars => PoolStep
  BY GetIsTake, LaunchIsNothing, AnswerIsAnswer, FaultIsLose, CollectIsReport, OthersEndOrNothing
     DEF Next, MainStep, WorkerStep
<1>2. Spec => []Answered
  <2>1. Inv /\ Answered /\ [Next]_vars => Answered' BY AnsweredStep
  <2> QED BY <2>1, AnsweredInit, Invariance, PTL DEF Spec
<1> QED BY <1>1, <1>2, Invariance, PoolInit, PTL DEF Spec, ImplementsPool, Pool!Spec, PoolStep
=============================================================================
