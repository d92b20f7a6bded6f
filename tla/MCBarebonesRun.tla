--------------------------- MODULE MCBarebonesRun ---------------------------
(* Model-checking instance of BarebonesRun: a structured criterion, a human   *)
(* test and a template-satisfied criterion over two source files.            *)
EXTENDS BarebonesRun

MCCriteria == {"AC-structured", "AC-human", "AC-template"}

MCForm == [c \in MCCriteria |->
    CASE c = "AC-structured" -> "structured"
      [] c = "AC-human" -> "human_test"
      [] c = "AC-template" -> "satisfied_by_template"]

MCModule == [c \in MCCriteria |->
    IF c = "AC-human" THEN "service.py" ELSE "product.py"]

MCTestFile == [c \in MCCriteria \ {"AC-structured"} |->
    IF c = "AC-human" THEN "tests/test_human.py" ELSE "tests/test_template.py"]

MCSources == {"product.py", "service.py"}

\* More calls than attempts, and more attempts than calls.
MCBudgets ==
    {[max_attempts |-> 2, max_model_calls |-> 3, max_model_output_bytes |-> 3],
     [max_attempts |-> 3, max_model_calls |-> 2, max_model_output_bytes |-> 3]}
=============================================================================
