CONSTANTS
    UintMax = 65535
    Scripts <- SmallScripts
    Inputs <- SmallInputs
SPECIFICATION RegexSpec
INVARIANTS RunsCleanly AnswersRight
PROPERTIES LaterIsLonger TakesPatterns Halts
