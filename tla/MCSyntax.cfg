SPECIFICATION Spec
CONSTANTS
    Alphabets <- MCAlphabets
    Builders <- MCBuilders
    ValueKinds = {"string", "symbol", "identifier"}
    ValueChars <- MCValueChars
    MaxValue = 4
    Indents = {0, 2}
    AvoidedPairs <- MCAvoidedPairs
    AvoidedNames <- MCAvoidedNames
INVARIANTS
    DerivedByGrammar
    GrammarIsParsed
    LocationsSpanPhrases
    PrintedIsReadBack
    TokensAreLongest
CHECK_DEADLOCK FALSE
