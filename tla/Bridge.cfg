SPECIFICATION Spec
CONSTANTS
    Runs = {r1, r2}
    NoRun = none
    Selections = {s1, s2}
    MaxRunBindings = 1
    Timeout = 2
    MaxWrong = 1
INVARIANTS BindingsTrue AnswersTrue MismatchExplained
