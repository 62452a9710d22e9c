------------------------------ MODULE TestSelection ------------------------------
(* Which jobs an invocation of test.py runs, and in which order (run_tests before  *)
(* any worker has answered). An invocation is the record of the options that decide *)
(* it: suite, example, pyexample and constrain are names or "" as on the command    *)
(* line, valgrind is a Boolean.                                                     *)
EXTENDS Sequences, FiniteSets, Naturals

CONSTANTS
    SuiteList,        \* what test-runner --print-test-name-list prints, in order
    SuiteType,        \* the type of each suite
    TypeLines,        \* what test-runner prints for a type it does not know
    ExampleTests,     \* examples-to-run: [name, run, grind]
    PythonTests,      \* the same for scripts: [name, run]
    Runnable,         \* the programs and scripts in build-status.py
    ValgrindSkips,    \* core_valgrind_skip_tests
    NscSkips,         \* core_nsc_missing_skip_tests
    NscEnabled, ExamplesEnabled, BindingsEnabled   \* of waf's configuration

Types == {"bvt", "unit", "system", "example", "performance"}

ASSUME SelectionAssumption ==
    /\ SuiteList \in Seq(STRING) /\ TypeLines \in Seq(STRING)
    /\ \A i \in DOMAIN SuiteList : SuiteType[SuiteList[i]] \in Types
    /\ {NscEnabled, ExamplesEnabled, BindingsEnabled} \subseteq BOOLEAN

Job(n, k, s) == [name |-> n, kind |-> k, skip |-> s]

SuitesOfType(t) == SelectSeq(SuiteList, LAMBDA s : SuiteType[s] = t)

(* The answer to --print-test-name-list --test-type=t. A type test-runner does not  *)
(* know makes it print the list of types, and test.py ignores its return code.      *)
ListOfType(t) ==
    CASE t \in {"", "core"} -> SuiteList
      [] t \in Types -> SuitesOfType(t)
      [] OTHER -> TypeLines

NothingNamed(o) == o.suite = "" /\ o.example = "" /\ o.pyexample = ""

IsSuite(s) == \E i \in DOMAIN SuiteList : SuiteList[i] = s

(* An unknown suite is refused, test.py exits with 2. *)
Valid(o) == o.suite = "" \/ IsSuite(o.suite)

RequestedSuites(o) ==
    IF o.suite # "" THEN <<o.suite>>
    ELSE IF NothingNamed(o) THEN ListOfType(o.constrain) ELSE <<>>

KeepPerformance(o) == o.suite # "" \/ o.constrain = "performance"

Suites(o) ==
    IF KeepPerformance(o) THEN RequestedSuites(o)
    ELSE LET performance == SuitesOfType("performance")
         IN  SelectSeq(RequestedSuites(o),
                       LAMBDA s : \A i \in DOMAIN performance : s # performance[i])

SkipSuite(o, s) == \/ o.valgrind /\ s \in ValgrindSkips
                   \/ ~NscEnabled /\ s \in NscSkips

SuiteJobs(o) == LET s == Suites(o)
                IN  [i \in DOMAIN s |-> Job(s[i], "suite", SkipSuite(o, s[i]))]

(* A list of examples is walked only if nothing was named and the constraint allows *)
(* that kind; a named example runs irrespective of its condition.                   *)
Walk(o, kind) == NothingNamed(o) /\ o.constrain \in {"", kind} /\ ExamplesEnabled

Named(e, kind) == IF e # "" /\ e \in Runnable THEN <<Job(e, kind, FALSE)>> ELSE <<>>

CanRun(e) == e.name \in Runnable /\ e.run

ExampleJobs(o) ==
    IF Walk(o, "example")
    THEN LET s == SelectSeq(ExampleTests, CanRun)
         IN  [i \in DOMAIN s |-> Job(s[i].name, "example", o.valgrind /\ ~s[i].grind)]
    ELSE Named(o.example, "example")

PyexampleJobs(o) ==
    IF Walk(o, "pyexample")
    THEN LET s == SelectSeq(PythonTests, CanRun)
         IN  [i \in DOMAIN s |-> Job(s[i].name, "pyexample", o.valgrind \/ ~BindingsEnabled)]
    ELSE Named(o.pyexample, "pyexample")

Plan(o) == SuiteJobs(o) \o ExampleJobs(o) \o PyexampleJobs(o)
=================================================================================
