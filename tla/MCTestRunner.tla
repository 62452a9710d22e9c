------------------------------- MODULE MCTestRunner ------------------------------
(* A small repository for TLC: four suites, one of them a performance test and one   *)
(* that needs NSC, an example that may not run under valgrind, a script, and the     *)
(* invocations that select them in different ways.                                   *)
EXTENDS TestRunnerProps, TestSelection

Option(s, e, p, c, g, r) ==
    [suite |-> s, example |-> e, pyexample |-> p, constrain |-> c, valgrind |-> g, report |-> r]

Options ==
    { Option("", "", "", "unit", FALSE, TRUE),
      Option("", "", "", "", TRUE, FALSE),
      Option("", "", "", "core", FALSE, FALSE),
      Option("perf", "", "", "", FALSE, FALSE),
      Option("", "", "", "performance", FALSE, FALSE),
      Option("", "", "", "example", TRUE, FALSE),
      Option("", "", "", "pyexample", FALSE, FALSE),
      Option("", "ex", "py", "", TRUE, FALSE),
      Option("nosuch", "", "", "", FALSE, FALSE) }

MCInvocations == {[opt |-> o, valid |-> Valid(o), jobs |-> Plan(o)] : o \in Options}

MCSuites == <<"unit1", "perf", "nsc", "unit2">>
MCTypes == [unit1 |-> "unit", unit2 |-> "unit", nsc |-> "system", perf |-> "performance"]
MCKnown == {"unit1", "unit2", "nsc", "perf"}
MCLines == <<"Invalid test type specified: pyexample", "bvt: ...">>
MCExamples == <<[name |-> "ex", run |-> TRUE, grind |-> FALSE],
                [name |-> "cond", run |-> FALSE, grind |-> TRUE]>>
MCScripts == <<[name |-> "py", run |-> TRUE]>>
=================================================================================
