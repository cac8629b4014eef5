SPECIFICATION AwkSpec
CONSTANTS
    U8 = 8
    U16 = 256
    Idents = {"x", "y", "z", "pad", "a"}
    Consts = {"zero", "two", "ten", "str2", "empty"}
    LooseEq = {}
    ValueOf <- MCValueOf
    PanicUnwinds = FALSE
    DebugAssertions = FALSE
    Answers = {"usage", "error", "panic", "noaction", "rule"}
    Stdouts = {"open", "full", "closed"}
    Programs <- ProcessPrograms
    Stmts <- ProcessStmts
    Exprs <- ProcessExprs
INVARIANTS
    AwkTypeOK
    PanicExitsTwo
    NoSilentWriteError
PROPERTIES
    FullDeviceExitsOne
CHECK_DEADLOCK FALSE
