SPECIFICATION PageSpec
CONSTANTS
    bohr = bohr
    botchain = botchain
    r1 = r1
    r2 = r2
    a1 = a1
    a2 = a2
    Networks = {bohr, botchain}
    Deployed = {bohr, botchain}
    DEFAULT_NETWORK = bohr
    Executions = {r1, r2}
    Agents = {a1, a2}
    AgentOf <- MCAgentOf
    Everyone = everyone
    Window = 2
    MaxTxs <- MCMaxTxs
    MaxVisits = 2
    MaxLost = 1
INVARIANTS
    RowsAreOfThisPage
    WholeReadsAreExact
PROPERTIES
    CatchesUp
CHECK_DEADLOCK FALSE
