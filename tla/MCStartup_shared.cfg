\* Two instances, of either of two images, and every deployment.
SPECIFICATION Spec
CONSTANTS
    i1 = i1
    i2 = i2
    NULL = NULL
    Instance = {i1, i2}
    Last = 2
    Broken = {"settings", "app", "agent", "observability"}
    MaxWrites = 1
    MaxTokens = 1
    MaxFaults = 1
INVARIANTS SchemaIsWhole WrittenIsRead TokensCarryOver
PROPERTIES BootsInTheEnd
