SPECIFICATION Spec
CONSTANTS
    Nobody = Nobody
    Principal = {"a", "b"}
    Template = {"x", "y"}
    Workspace = {"a1", "a2", "b1", "b2"}
    Owner <- MCOwner
    TemplateOf <- MCTemplateOf
    TemplateLimit <- MCTemplateLimit
    GlobalLimit = 2
    PrincipalLimit = 1
    MaxQueued = 2
    MaxLaunchAttempts = 2
    Coordinator = {"k1"}
    WarmPool = TRUE
PROPERTY FirstComeFirstServed
