SPECIFICATION CalmSpec
CONSTANTS
    Nobody = Nobody
    Principal = {"a", "b", "c"}
    Template = {"x", "y"}
    Workspace = {"a1", "a2", "b1", "b2", "c1"}
    Owner <- MCOwner
    TemplateOf <- MCTemplateOf
    TemplateLimit <- MCTemplateLimit
    GlobalLimit = 1
    PrincipalLimit = 1
    MaxQueued = 3
    MaxLaunchAttempts = 2
    Coordinator = {"k1"}
    WarmPool = FALSE
PROPERTY EveryoneServed
