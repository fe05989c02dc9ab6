SPECIFICATION Spec
CONSTANTS
    Alphabets = {}
    Builders = {}
    ValueKinds = {"string"}
    ValueChars <- DollarChars
    MaxValue = 3
    Indents = {0}
    AvoidedPairs = {}
    AvoidedNames = {}
INVARIANT PrintedIsReadBack
CHECK_DEADLOCK FALSE
