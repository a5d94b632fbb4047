SPECIFICATION OfflineSpec
CONSTANTS
    Sources = {s1, s2}
    Texts = {1, 2}
    Configs = {B}
    Names = {v2, legacy}
    Protected = {legacy}
    Commands = {p, q}
    MaxBuilds = 1
    MaxRuns = 3
    MaxInterrupts = 1
    MaxLength = 6
    Sizes <- MCSizes
    Chunks = {1, 2, 3}
    Source <- MCSource
    District <- MCDistrict
    Poi <- MCPoi
    Languages = {"en", "tr"}
    LanguageOf <- MCLanguageOf
    Queries <- MCQueries
    Objects <- MCObjects
    Signals <- MCSignals
    KnownPois = {"p1", "p9"}
    Questions <- MCQuestions
    Unanswerable = {"r"}
    SmokeQuestions <- MCQuestions
    SmokeMustAnswer = {"a"}
    SmokeMustRefuse = {"r"}
    Setups <- MCSetups
    FirstSetup <- MCFirstSetup
    Envs <- MCEnvs
    Cases <- MCCases
    Depth = 3
    RrfK = 60
    PostAttempts = 6
    TransientAttempts = 3
    Attempts = 3
    MaxEvals = 2
    MaxChanges = 1
    MaxRepairs = 1
    OutageLength = 2
    MaxStarts = 2
CHECK_DEADLOCK FALSE
INVARIANTS  ChunksKeepText SearchIsFaithful     PassIsGenuine
PROPERTIES LegacyUntouched
