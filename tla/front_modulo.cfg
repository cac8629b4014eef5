CONSTANTS
    Sources <- Modulo
    Printed <- AstText
    Letters <- MCLetters
    Digits <- MCDigits
SPECIFICATION FrontSpec
INVARIANT PrecedenceRespected
