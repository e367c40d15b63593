CONSTANTS
    c1 = c1
    c2 = c2
    w1 = w1
    w2 = w2
    Callers <- MCCallers
    Principals <- MCPrincipals
    NodeTypes = {0, 3}
    MaxCalls = 2
SPECIFICATION Spec
PROPERTY RegistryRefinement
