SPECIFICATION AwkSpec
CONSTANTS
    U8 = 16
    U16 = 256
    Idents = {"x", "y", "z", "pad", "a"}
    Consts = {"zero", "two", "ten", "str2", "empty"}
    LooseEq = {}
    ValueOf <- MCValueOf
    PanicUnwinds = FALSE
    DebugAssertions = FALSE
    Answers = {"rule"}
    Stdouts = {"open"}
    Programs <- PrintPrograms
    Stmts <- PrintStmts
    Exprs <- PrintExprs
INVARIANTS
    OperandsExist
CHECK_DEADLOCK FALSE
