SPECIFICATION Spec
CONSTANTS
    c1 = c1
    c2 = c2
    s = s
    Callers = {c1, c2}
    Starter = s
    MaxGeneration = 6
SYMMETRY Symmetry
INVARIANTS
    RunningSurvivesEveryShutdown
