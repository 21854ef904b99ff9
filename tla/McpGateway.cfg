SPECIFICATION McpSpec
CONSTANTS
    Namespaces = {n1}
    Names = {x}
    ToolRequests = {p1, p2}
    ServerEntries = {q1, q2}
    MaxUpdates = 3
    Worker = w
    NoEntry = NoEntry
    GwRequests = {p1, p2}
    SessionIds = {q1, q2}
    MaxSessions = 1
    IdleTimeout = 1
    MaxVersions = 2
    MaxResponse = 1
    NoSession = NoSession
    Filters = {p1, p2}
    Runtimes = {q1, q2}
    Holders = {h1, h2, h3}
    Starter = st
    NoHolder = NoHolder
    Executions = {p1, p2}
    MaxExecutions = 1
    MaxHostCalls = 2
    MaxDispatches = 1
    CpuBudget = 1
    MaxLogEntries = 2
    MaxOutput = 4
    ToolCount = 3
    DefaultLimit = 2
    MaxLimit = 2
    MaxScore = 1
SYMMETRY Symmetry
INVARIANTS
    McpStateKept
    McpAnswersWhole
CHECK_DEADLOCK FALSE
