SPECIFICATION Spec
CONSTANTS
    Depth = 2
    Files = {p1, p2, p3}
    Rules = {r1, r2}
    Builtin <- BuiltinRules
    Plugins = {g1, g2}
    Types = {t1, t2}
    TypeOf <- TypeOfRule
    Agents = {a1, a2}
    ConfigContents <- Configs
    PolicyContents <- PolicyFiles
    Contexts <- AllContexts
    MaxMessages = 2
    MaxFiles = 2
    MaxReloads = 1
    None = None
    p1 = p1
    p2 = p2
    p3 = p3
    r1 = r1
    r2 = r2
    g1 = g1
    g2 = g2
    t1 = t1
    t2 = t2
    a1 = a1
    a2 = a2
CHECK_DEADLOCK FALSE
INVARIANTS TypeOK EnforcedAtStart CoveredByAll AgentOfLast OneSource
PROPERTY Terminates
