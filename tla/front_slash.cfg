CONSTANTS
    Sources <- Slashes
    Printed <- AstText
    Letters <- MCLetters
    Digits <- MCDigits
SPECIFICATION FrontSpec
INVARIANT SlashAfterOperandDivides
