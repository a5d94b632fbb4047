SPECIFICATION Spec
CONSTANTS
    Sources = {s1}
    Texts = {1}
    Configs = {B}
    Names = {v2}
    Protected = {}
    Commands = {p}
    MaxBuilds = 0
    MaxRuns = 2
    MaxInterrupts = 1
CHECK_DEADLOCK FALSE
INVARIANTS EmptyIsBootstrapped
