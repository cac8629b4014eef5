CONSTANTS
    Sources <- Elses
    Printed <- AstText
    Letters <- MCLetters
    Digits <- MCDigits
SPECIFICATION FrontSpec
INVARIANT ParsesAsMeant
