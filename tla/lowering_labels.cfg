SPECIFICATION Spec
CONSTANTS
    U8 = 8
    U16 = 64
    Idents = {"x", "y", "a"}
    Consts = {"c", "d"}
    LooseEq <- LooseConsts
    Programs <- AllPrograms
    Stmts <- AllStatements
    Exprs <- AllExpressions
INVARIANTS
    PatchesAreJumps
    BranchesExitForward
    LabelsInCode
    IndicesInterned
    OperandsConsumed
PROPERTIES
    EmittedIsFinal
    ScopesKeepRegisters
CHECK_DEADLOCK FALSE
