CONSTANTS
    UintMax = 65535
    Scripts <- SmallScripts
    Inputs <- SmallInputs
SPECIFICATION RegexSpec
INVARIANT NegativeOnFailure
