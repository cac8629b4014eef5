CONSTANTS
    Sources <- MCSources
    Printed <- AstText
    Letters <- MCLetters
    Digits <- MCDigits
SPECIFICATION FrontSpec
INVARIANTS
    FrontTypeOK
    YieldIsSource
    PrecedenceRespected
    RoundTrip
    SlashAfterOperandDivides
    ParsesAsMeant
    EachAnnotationMarksOneRule
    OperandsBind
PROPERTIES
    EveryParseAnswers
    ParserReadsOn
