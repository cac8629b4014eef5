SPECIFICATION Spec
CONSTANTS
    U8 = 5
    U16 = 64
    Idents = {"x", "y", "a"}
    Consts = {"c", "d"}
    LooseEq = {}
    Programs <- FlatPrograms
    Stmts <- FlatStatements
    Exprs <- FlatExpressions
INVARIANTS
    TypeOK
    OwnersDistinct
    FreeListSound
    NoRegisterLost
    RegistersFit
PROPERTIES
    ImplementsPool
CHECK_DEADLOCK FALSE
