\* The host www.cz is not reduced to its registrable domain.
SPECIFICATION NamesSpec
CONSTANTS
    Labels <- SomeLabels
    Hosts <- AllHosts
    Spellings <- Spelt
    Underscored = {"a_b"}
    NoDomain = NoDomain
    MaxFound = 2
    MaxLines = 0
INVARIANT
    ReducesToRegistrable
CHECK_DEADLOCK FALSE
