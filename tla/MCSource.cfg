SPECIFICATION MCSpec
CONSTANTS
    r1 = r1
    r2 = r2
    a = a
    b = b
    q1 = q1
    q2 = q2
    key = key
    k1 = k1
    k2 = k2
    Compilers = {k1, k2}
    MaxCompiled = 1
    log = log
    Requests = {r1, r2}
    Kinds = {"load", "merge", "clear", "stamp", "query", "look"}
    Cases = {a, b}
    CaseRequests = {q1, q2}
    Keys = {key}
    Sizes = {1}
    Quota <- Quotas
    Live = 2
    Retained = 2
    MaxEntries = 2
    NoCase = NoCase
    Paths = {log}
    MaxGeneration = 2
    MaxRevision = 1
    MaxAnalysis = 1
    NoRequest = NoRequest
    NoAnswer = NoAnswer
    Refused = Refused
    Published = Published
INVARIANTS CaseTypeOK SourceFaithful CreditExact PinnedAnswered CompiledExact
PROPERTIES ImplementsRegister OthersKept
CHECK_DEADLOCK FALSE
SYMMETRY Alike
