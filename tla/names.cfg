\* Every host name of up to four labels, alone and in tables and files of a few.
SPECIFICATION NamesSpec
CONSTANTS
    Labels <- SomeLabels
    Hosts <- AllHosts
    Spellings <- Spelt
    Underscored = {"a_b"}
    NoDomain = NoDomain
    MaxFound = 2
    MaxLines = 3
INVARIANTS
    SourcesAgree
    ReadBack
    InputsDistinct
\* The input is read once.
CHECK_DEADLOCK FALSE
