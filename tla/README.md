# A verification development for uutils-awk

TLA+ models of the awk implementation in `src/`, the TLC runs that check them
and the TLAPS proofs about them.  Everything is translated from the Rust code at
this commit; line numbers are in `PROJECT.json` ("map").

* [The system](#the-system): inventory
* [Modules](#modules): what models what
* [Runs](#runs): questions, bounds, results
* [Disagreements](#disagreements-found)
* [Fairness](#fairness), [Proofs](#proofs), [What is not modelled](#what-is-not-modelled)
* [Plan](#plan)

## The system

`awk 'program'` runs one process with one thread.  The text is lexed on demand
by the parser, the parser builds an AST in an arena, `uu_main` prints the AST,
the body of the first rule is lowered to bytecode, a register machine runs the
bytecode, and the machine is dumped.  Nothing is shared between threads and
nothing is persisted; what is hard here is bookkeeping that spans recursive
calls (registers, labels, modes, binding powers), limits of small integer
types, and a process that may fail at any write or panic.

| component | source | state | operations | what makes it correct | status |
|---|---|---|---|---|---|
| lexer | `lexer/src/lib.rs` | position, context (expression or operator expected) | the logos rules and their callbacks | longest match; `/` divides exactly behind an operand | partly |
| token stream | `parser/src/lex.rs` | the stream, one token of look-ahead | next, peek, classes of tokens | no token lost, end and error told apart | modelled |
| expression parser | `parser/src/pratt.rs` | call stack, `typed_regex` flag | parse_lhs, fold_rhs, prefix, place, call, getline | grouping as the binding powers say, every token in the tree once | modelled |
| statement and rule parser | `parser/src/lib.rs` | the AST so far, the namespace, a pending `@concurrent` | parse_top, rules, functions, directives, every statement | every text answered; the AST is the one the grammar gives; an annotation marks one rule | modelled |
| AST, operators | `parser/src/ast.rs` | none | constructors, binding powers | the binding powers documented beside them | modelled |
| printer | `parser/src/idempotency.rs` | none | Display | what it prints parses to the same AST | modelled |
| lowering | `interpreter/src/ir/lower.rs` | `Code`: bytecode, constants, symbols, `RegsState`; the locals of the recursion | lower_statement, lower_expr(_into), lower_atom(_mi, _into), load_place, store_place, gen_call_convention, scope, scope_hwm, alloc_reg, free_reg | no register has two owners or none; labels lead where the text goes; indices stay valid | modelled |
| bytecode | `interpreter/src/ir.rs` | `Bytecode` | emit, nth, set_label, push_start_label | only labels of emitted instructions change | partly |
| interpreter | `interpreter/src/vm.rs` | program counter, registers, user variables | new, run, intrinsic_print | computes what the AST says; no index out of range | modelled |
| values | `interpreter/src/types.rs` | none | conversions, comparison, arithmetic | awk's conversions | partly |
| process | `src/main.rs`, `src/utils.rs` | stage, exit status; standard output | uu_main, ensure_consistent_panic, write errors | exit status 2 on a panic, no write error reported as success | modelled |
| command line, S-expressions, diagnostics | `src/cli.rs`, `parser/src/sexpr.rs`, `parser/src/diagnostics.rs` | none | declaration and wording | | not modelled |

Interactions: the parser pulls tokens, and the *tokens* set the lexer's context
(not the parser); the parser hands the AST to the printer and to the lowering;
the lowering hands `Code` to the interpreter, which trusts its indices and takes
the size of its register file from the lowering's final register pointer; all
three write to the same standard output; a panic anywhere is turned into an exit
status by `utils.rs`.

## Modules

```
Code ── Lowering ── Awk ── MCAwk
          │  │       └─ Vm ── Values
          │  └─ MCLowering
          └─ Pool                        (INSTANCE, what the allocator implements)

Grammar ─┬─ Lexer ── Pratt ── Rules ── Frontend ─┬─ FrontendTrees ── MCFrontend
         └─ Printer ─────────────────────────────┘

LoweringProofs ─┬─ PoolProofs ─── StackProofs            PoolSafety
                ├─ LabelProofs                           FrontProofs
                └─ IndexProofs ── AwkProofs
```

**Code** is struct `Code`: an instruction is one record shape with an opcode,
operands (`MaybeImm`), a register range and labels; each method of `Code`,
`Bytecode`, `RegsState` and `SymbolTable` is an operator on `Code` records.
`U8` and `U16` stand for 2^8 and 2^16, so that running out of registers or
labels happens in small programs.  The constants are an `IndexSet` whose `==` is
wider than its hash: interning a value that is loosely equal (`LooseEq`) to an
entry finds it or not, and both outcomes are allowed (`ConstSlots`).

**Lowering** is `lower_body` and all it calls.  The Rust call stack is the
sequence `control` of tasks still to do: a task is the code between two
recursive calls with the locals that code reads.  `locals` is the stack of the
operands (`LinearReg`, `MaybeImm`) the suspended frames own.  Each action is one
such stretch of code, with all its emits, frees and label patches in their
order; `Panics` names every path to `todo!()`, `register overflow` and
`too many call args`.

**Pool** is what the register allocator promises, without a free list: holders
and the registers they hold, a pool that hands out a register nobody holds and
grows only when all it has are held.  `ImplementsPool` in Lowering instantiates
it with the owned operands (`Held`) and the register pointer.

**Values** has the conversions and operators of `Value` on whole numbers and
texts of symbols; **Vm** is the interpreter, one instruction per step, with
every fault (`unwrap` of `None`, index out of range, asserts, `todo!()`) leading
to `run = "panic"`.

**Awk** composes the parser's answer (or its panic, or a command line that is
not understood), lowering, interpreter and the writes of
`uu_main` into a process with an exit status.  Standard output may turn full or
be closed by its reader at any moment.  `PanicUnwinds` and `DebugAssertions` are
the build profile: with both, a panic that unwinds past a live `LinearReg` meets
the assertion in its destructor and aborts.

**Grammar** has the operator tokens, their spelling and the binding powers, and
the constructors of the AST; **Lexer** the rules over symbols with longest match
and the context callbacks; **Pratt** the expression parser as a stack machine:
`ctl` is what runs or what is returned, `frames` the callers that wait.
**Rules** is the rest of the parser on the same stack: `parse_top` with
directives, namespaces, rules and functions, and every statement.  A frame is
the rest of a function that waits for an expression, a simple statement, a
statement or a body, with the locals that rest reads; an action is the code from
one such call to the next; tokens are looked at as the code looks at them, and
consumed where it consumes them.  `ast`, `namespace` and `concurrent` are the
fields of the parser that outlive a call.  `ctl.go = "panicked"` is the
`todo!()` of an include.  **Printer** is `Display` of expressions, statements
and rules, functions in any order of the hash map; **Frontend** lexes and parses
a program, prints its AST and lexes and parses what was printed.  What `Display`
writes is a parameter of Frontend (`Printed`), which the runs set to Printer's
`AstText`; **FrontendTrees** has the properties that recurse over the AST.

The MC modules hold families of programs and sources, and in MCAwk an evaluator
of the AST (`Reference`), which is the specification of lowering and
interpreter together.

## Runs

Five runs pass:

| run | question | instance |
|---|---|---|
| `lowering_registers` | Do live operands have registers of their own, is none lost, does exhaustion panic, does the register file hold all registers that are named, and is every step one of the abstract pool (`ImplementsPool`)? | `U8 = 5`: four registers, so that operands exhaust them; all expression shapes up to depth 3 over unary and binary (183), assignments and increments of every scalar place, every loop and `if` around bodies of 0 to 2 statements; alone and after a statement that has left registers on the free list in another order.  Programs without a scope (call window, ternary, `else`): with one, `FreeListSound` and `NoRegisterLost` do not hold, see `awk_scope`; with a call window `RegistersFit` does not, see `awk_register_file`. |
| `lowering_labels` | Is what is patched a jump, do exits lead forward, are labels inside the code, indices interned, operands consumed, is what was emitted final, and do owners and windows keep their registers as long as every scope leaves the free list below its pointer (`ScopesKeepRegisters`)? | `U8 = 8`, `U16 = 64`; everything: windows in windows, ternaries in ternaries, `else` in `else`, loops around calls, redirections, array places, constants that are loosely equal, too many arguments; elements assigned in the second arm of a ternary beside another operand, where a scope does leave the free list above its pointer and `WindowIsPrivate` alone is false. |
| `awk_executed` | Do lowered and executed programs leave the variables and print what the evaluator computes (values, line ends and the separators between two values), without a wild index, and do they end? | about 270 bodies (operators × operand kinds, nested ternaries, assignments, all loops, prints of 0, 1 and 3 arguments) with 5 settings of `x` and `y` before them, in the shapes where the two known defects do not bite: no `else`, and a last statement `Pad` that takes the register pointer past every window. |
| `awk_process` | Is the exit status right on every way to end? | every parser answer, a command line that is not understood (`Usage`, status 1), the panic of an include and every panic path of lowering and interpreter (status 2), standard output failing before any step; `U8 = 8` so that a nested sum overflows the registers. |
| `front_programs` | Does every text get an answer; does a program get the AST gawk's grammar gives it, and is what is no program rejected; is the grouping of expressions the documented one with all tokens in the tree, and does each operator get its operand at every step (`OperandsBind`); does each step bring the answer closer (`ParserReadsOn`); does the printed program parse to the same AST? | about 300 000 states over 3 640 texts. *Expressions*: chains of two and three operators out of 11 (each beside each), groups on either side, 21 kinds of operand before and behind an operator, redirections, the remaining forms (`in`, `getline`, typed regexes, calls, nested subscripts). *Statements*: every simple one, `return` in a function, `break` and `continue` in loops and switches; every compound one around every kind of body (one statement, braces, inner braces, empty) and around every compound one again. *Programs*: sequences of up to three rules, special rules, functions and directives, in two namespaces, annotated or not, and namespaces of several letters; each written together with the AST it means. *Broken*: every prefix of three programs that contain every statement, and about 85 texts that are one token away from a program. |

The bounds are small because the state that matters is small: the register
allocator is a stack and a counter, so three nested operands already exercise
every order of take and give back; a label is patched by the frame that emitted
it, so two levels of nesting have every pair of patches interleaved; the parser
decides by comparing the binding power of its caller with the next operator, so
three operators in a row have every outcome of two comparisons; the statement
parser looks at most three tokens ahead and hands on a body as a whole, so two
levels of nesting have every statement as the body, and before the terminator,
of every other.  `ImplementsPool` is checked with the programs of
`lowering_registers`, where four registers make every order of take and give
back, and the growth of the pool to its size, happen.

`front_programs` leaves out the sources for which a disagreement is known, as
each of them is a counterexample to a property of the run: `%` (see
`front_modulo`), a special variable before `/` (`front_slash`), an `else` behind
a newline behind a brace (`front_else`), `in` behind an operator that binds more
(`in` ignores its caller's binding power), `++x` behind an operand that is not
alone (`2 * 1 ++x`), `^` (it has a binding power and is printed, but
`BinaryOperator::parse` does not know it), a function that is defined twice (the
later definition replaces the first), and for the printer a negative number or
`++x` behind a concatenation, `- 1`, a ternary as the condition of a ternary,
concurrent rules (not printed) and functions outside the namespace `awk`.  They
are listed as hazards, with no property where none covers them.

`ParsesAsMeant` compares with gawk's grammar (and `@concurrent`, which is this
program's own): what a text means is written down from that grammar, not from
the parser's answer.  The texts of `Peculiar` have no meaning there: extensions
and panics, and three that gawk takes, or may take, and this program rejects.

### Disagreements without a run

Met while writing the sources.  All but the last would make `ParsesAsMeant`
false: the run's sources have no such text, or leave its meaning open.

* The empty statement as a body or branch (`if (x); else z`, `while (x);`,
  `for (;;);`) is rejected: `parse_statement` wants a token that starts one
  (parser/src/lib.rs:360-364).
* `@load "x"`, or another directive, at the end of a source without a newline is
  rejected (lib.rs:117); gawk's lexer supplies the newline.
* `break` and `continue` outside a loop and `return` outside a function are
  accepted (lib.rs:346-359).
* A `do` whose body is no block, and more than one separator between the
  statements of a `switch`, are rejected (lib.rs:340-341, 319-325).
* `print` writes the output separator before the first value too (vm.rs:252):
  `PrintsTheValues` exempts a separator at the beginning of a line.

### Disagreements found

Seven runs expect a violation; each checks one property, which a comment or the
README of the repository states, and TLC shows the program that breaks it.

| run | what the code does |
|---|---|
| `awk_else` | `push_start_label` moves the wrong label of a branch: with an `else`, a true condition skips the first instruction of the then-body and a false one lands on the jump over the else-body. |
| `awk_register_file` | The register file has `reg_pointer` entries after the last scope was closed, not at its high-water mark: a `print` at the end indexes past it and panics. |
| `awk_scope` | `scope` truncates the free list to its old length, which keeps a register of the closed scope when older ones were popped meanwhile: one register is given out twice. |
| `awk_debug_panic` | In a build that unwinds with debug assertions, a panic while a `LinearReg` is alive aborts instead of exiting with 2. |
| `front_modulo` | `%` has the binding power of exponentiation; the comment beside the constants lists it with `*` and `/`. |
| `front_slash` | Behind `NR` and the other special variables `/` starts a regex. |
| `front_else` | `if (x) { y }`, newline, `else z` is rejected: no newline is skipped between a closing brace and the `else`. |

## Fairness

`Lowering` and `Awk` have weak fairness of the process's own steps (`Next`,
`uu_main`): one thread that runs until it exits and never waits for anything,
so a step that stays enabled is taken.  There is none for the environment
(`StdoutFails`): the device need not fail.  `Exits` is thus a statement about
the loops of lowered programs that terminate in the evaluator, and
`FullDeviceExitsOne` about all parsed programs of its run.  `Frontend` has weak
fairness of its next step for the same reason, and `EveryParseAnswers` says that
the loops of the lexer and the parser, over blocks, separators, cases, items and
binding powers, all consume something: no text keeps it from an answer.

`CHECK_DEADLOCK FALSE` is set where the program ends (the lowering finishes or
panics, the process exits); `Frontend` has a `Stop` step instead and is checked
for deadlock: the parser is never without a next step before it has answered.

## Proofs

Checked by TLAPS (Z3, Zenon, LS4), for every program and every width of
registers and labels:

* `TypeCorrect == Spec => []TypeOK` (LoweringProofs).  `TypeOK` is inductive as
  it stands.  Its content is the range of registers: `alloc_reg` and
  `gen_call_convention` panic before the `u8` pointer overflows, `scope`
  restores a pointer that was in range, and the addition after the then-body of
  an `if` is guarded by the overflow panic, without which `ElseEnd` could hold a
  pointer of 2^8.  There is one lemma per method of `Code` and one per action,
  and the operands' ranges follow from the closure assumptions.
* `CodeIsFinal == Spec => EmittedIsFinal` (LoweringProofs).  `Grown` relates a
  `Code` record to one in which every instruction is still there up to its
  labels and both tables are extended; it is a preorder, every method of `Code`
  grows its argument, and every action is a chain of methods.  The proof needs
  no more than three sequences of `TypeOK`: what is emitted is irrelevant.
* `OwnersAreDistinct`, `FreeListIsSound`, `NoRegisterIsLost`, `AllocatorIsPool`
  (PoolProofs): `OwnersDistinct`, `FreeListSound`, `NoRegisterLost` and the
  refinement `ImplementsPool`, under the hypothesis `Flat`: no statement or
  expression opens a register scope.  Without it they are false (`awk_scope` is
  a program whose scope gives one register to two owners), so it is a condition
  of the code and not of the proof; TLC evaluates it for the instance of
  `lowering_registers` (`FlatInstance`).  All of them speak of the owned
  operands, the free list and the pointer only, and an action changes these in
  one of five ways (`Effect`): they stay (`Kept`), one register is taken
  (`Obtained`), one or two are given back (`Given`, `GivenTwo`), one is taken
  and given back at once (`Borrowed`).  Each way keeps the invariants and is a
  step of the pool; each action of a flat program has one of the five.  What
  makes the invariants inductive is `FlatControl`: the tasks on the stack are
  in an order in which an action that drops an operand without freeing it finds
  one that owns no register.
* `PoolIsSafe` (PoolSafety): the pool of any size never gives one register to
  two holders, and stays within its size.  With `AllocatorIsPool`, the abstract
  reading of the register invariants.
* `PatchesHitJumps`, `ExitsLeadForward`, `LabelsStayInCode` (LabelProofs):
  `PatchesAreJumps`, `BranchesExitForward` and `LabelsInCode`, of all programs,
  as long as the bytecode is within the width of a label (a condition of the
  properties: beyond it labels wrap, which the code does not check).  The invariant `Labelled`
  says of the bytecode that every label is a position of it and every branch
  leads on or is owed by a task, and of each task (`TaskOK`) that the labels it
  will set belong to instructions that have one, that the top of its loop is in
  the code, and that the label it kept for the other arm of a ternary lies
  behind the branch.  Code only grows and keeps its opcodes, so tasks stay
  right (`TaskLater`); actions that emit no jump keep the rest at once
  (`Adds`), and the nine that emit or patch one are looked at one by one:
  `Owes` says which exits are still to be set, and setting one pays for it
  (`OwesSet`).
* `IndicesStayInTables` (IndexProofs): `IndicesInterned`, of all programs, at
  any width and whatever slot interning a constant answers.  The invariant
  `IndexInv` says it of the emitted instructions (`Sound`), of the operands of
  the frames (`LocalsIdx`) and of what pending tasks will still emit
  (`TasksIdx`: the operand to store, and the instruction of a call, which is
  made before its arguments are lowered).  Each method of `Code` is `Fine`: the
  tables only grow, so an index that was in its table stays in it, and what is
  emitted names operands or slots just interned; an index that wraps gets
  smaller (`ModuloSmaller`), so it is in the table also when it is wrong.
* `OperandsAreConsumed`, `OperandsAreThere` (StackProofs): `OperandsConsumed`, of
  all programs at any width, and that no action reads below the stack of
  operands.  `Takes` and `Gives` say how many operands the code of a task takes
  from the top of the stack and leaves there; `Climbs` follows the height of the
  stack along the control stack.  The invariant `StackInv` says that the pending
  tasks climb from the present height to zero and that none takes more than is
  there.  Each action replaces a task by tasks that climb to the same height.
* `ScopesKeepThem`, `ListGuardsOwners` (StackProofs): what is left of the
  register invariants in programs that do open scopes, of all of them at any
  width.  `scope` sets the pointer back and cuts the free list to its old
  length; if the code inside took registers from the list and gave others back,
  the list it leaves has a register at or above the pointer, which is then
  given out twice (`awk_scope`), or lies in the next argument window: so
  `WindowIsPrivate` is false too, for `(x ? -x + -x : (a[x] = -x)) + x`
  among others.  `ScopesClose` says that a scope does not end that way, and
  `ScopesKeepRegisters` that as long as none does, `OwnersDistinct`,
  `FreeListSound` and `WindowIsPrivate` hold.  The invariant `ScopeInv` has the
  registers of owners, free list and windows apart from each other and below the
  pointer (`Apart`), and two facts about the scopes that are open: the operands
  below a scope, which by the heights of `StackInv` no task in it touches, are
  below the pointer it goes back to (`ScopesGuarded`), and so is every window
  around it (`ScopesNested`).  A step takes and gives registers (`Change`), ends
  a scope (`Returns`, `Raises`) or opens one (`Widens`); each keeps the three.
  `ListGuardsOwners` replaces the condition on scopes by `FreeListSound`: while
  the list is sound, the rest is.
* `RegistersAlwaysFit` (IndexProofs): `RegistersFit` under the hypothesis
  `Windowless`: no command and no array element, elses and ternaries nested in
  any way (TLC evaluates it for such programs, `WindowlessInstance`).  The
  interpreter allocates as many registers as the pointer says at the end of the
  lowering; `scope` sets the pointer back, and only `max_regs`, where the arms of
  a ternary or an `if` meet, takes it past what an arm has named.  The invariant
  `FileInv` has one bound for the registers named so far, the operands of the
  frames, the free list and what pending tasks will write to; the pointer has
  reached it, or a pending task will raise the pointer to it.  After a call
  nothing raises the pointer, so with a command the theorem is false:
  `awk_register_file`.
* `OperandsExistIfTheyFit`, `OperandsAlwaysExist` (AwkProofs): `OperandsExist` of
  the composed process.  The interpreter indexes the register file, the user
  variables and the constants without a check; that they are there is a promise
  of the lowering.  Every step of the process is a step of the lowering or
  leaves it alone (`LoweringSteps`), so `IndicesInterned` carries over; the
  interpreter starts with a slot for each entry of each table and a file of
  `reg_pointer.max(1)` registers and never shrinks one (`VmReady`).  That the
  registers fit the file is a hypothesis on the behaviour in the first theorem,
  as it fails for calls, and is `RegistersAlwaysFit` in the second.
* `ProcessTypes`, `WritesAreChecked`, `PanicStatus` (AwkProofs): `AwkTypeOK`,
  `NoSilentWriteError` and `PanicExitsTwo` of the process, for every behaviour
  of standard output.  The second needs what each stage knows of the two
  machines (`StageKnows`).  The third has the hypothesis `NoAbort`, that the
  build does not both unwind and check the destructor of `LinearReg`:
  `awk_debug_panic` shows that with both the status is another.

* `FrontTypes`, `AnnotationsMarkRules` (FrontProofs): `FrontTypeOK` and
  `EachAnnotationMarksOneRule` of any sources and whatever `Display` writes.
  The recursive descent is a stack machine here, so the first claim is that it
  is one of functions: `Answer` names the sort of value the function behind a
  frame gives back in the end (an expression, a list, a statement, a body),
  `Waits` the frames that go on with it, and `CallStack` says of each two
  neighbours on the stack that the lower waits for what the upper answers, of
  the lowest that it is the top level's.  `Running` says the same of what runs
  and the first frame.  A step passes the tokens it has looked at (`Passes`):
  each of them is there, and but for the step that reads an annotation none is
  one.  Every action of the parser is shown to be such a step (`RulesMove`), and
  all that is claimed follows: the position stays within the tokens, and
  annotations read are counted by `Marks`.
* `OperandsAlwaysBind` (FrontProofs): `OperandsBind`, of any sources: while the
  loop of `fold_rhs` runs, no operator is applied to a value that a weaker one
  has folded, and an operator that gets its right operand finds nothing weaker
  in it and leaves nothing behind that binds more.  It is a statement about each
  step of the parser, so unlike `PrecedenceRespected`, which compares finished
  trees, it needs no recursion over trees and holds of operators nested in any
  way.  The invariant `BindInv` reads the stack of callers from the top as long
  as they belong to one expression (`Bound`): of each two neighbours the lower
  one has asked for what the upper one may fold (`Between`: the loop below an
  operator asks for that operator's right binding power, and was itself asked
  for no more than its left one).  `Bears` says what the value or the function
  on top owes its caller.  What the parser sees of the tokens is one value
  (`View`), so that a step which passes tokens is seen to change nothing but the
  next token and what is known to be behind.  The exceptions are in the
  definitions, as they are in the code: nothing is said of what a parenthesis
  closes; `=` and `in` take what they find on their left; a prefix `++` behind an
  operand and what follows a `getline` are concatenated without asking; a typed
  regex that is assigned ends before a ternary.  Whether the binding powers are
  the documented ones is not its subject: `%` has the wrong one (`front_modulo`).
* `ParserAnswers` (FrontProofs): `ParserReadsOn`, of any sources.  The parser is
  a set of functions that call each other, and its loops end because each of them
  takes a token; nothing in the code says so in one place.  `Effort` does: 200 for
  each token that is left, 10 for each caller that waits and less than 120 for
  what runs (`WorkOf`).  A step that passes a token pushes at most eight frames
  (`PassFalls`) and so lowers it whatever else it does.  A step that passes none must go down in
  `WorkOf`: from a statement to the simple statement, to its expression, to the
  operand, which is a token; and on the way back a value given to a caller costs
  the frame that is popped.  The one cycle without a token in which values go up
  and down, operands through `Fold` and `fold_rhs`, is ordered by the kind of
  caller, which is why `WorkOf` looks at it and why the proof needs `BindInv`
  (what is below an operand is one of four kinds, `BelowOperand`).  So a text of n
  tokens is answered after at most 200 n + 102 steps.
* `SlashesDivide`, `LexerAnswers` (FrontProofs), of sources that are texts
  (`SourceIsText`: sequences, which is a hypothesis on the behaviour as `Printed`
  may be anything): behind a token that ends an operand a slash is no regex, so
  `SlashAfterOperandDivides` holds of a source without special variables, and by
  `front_slash` only of those; and each rule of the lexer reads a symbol or is
  the last, the part of `EveryParseAnswers` that is about the lexer.  The proofs
  show that what the rules look for (`RunOf`, `Until`, the longest match of
  `Munch`) exists, and that no rule but the one for `/` makes a regex.

Assumptions: `WidthAssumption` (widths are positive), `LooseEqAssumption`
(pairs of constants), `ExprsClosed` and `StmtsClosed` (a sub-expression of an
expression is an expression: the AST is a tree of the shapes the lowering
knows), `ProgramsAssumption` (a body is a sequence of statements),
`BuildAssumption` and `InputAssumption` (the build profile, what the parser and
the device may answer), `SymbolsAssumption` (the end of a source is no symbol).  TLC evaluates them in every run of the modules that
declare them.

Only model-checked: the values and outputs of executed programs (`VariablesMatch`,
`PrintsTheValues`); of the front end that the AST is the one that is meant
(`ParsesAsMeant`), keeps all tokens (`YieldIsSource`), groups as documented when it is
finished (`PrecedenceRespected`) and survives printing (`RoundTrip`).  Without the hypotheses of their theorems `OwnersDistinct`,
`FreeListSound`, `WindowIsPrivate`, `RegistersFit` and `OperandsExist` are false
of the code.  Out of the prover's reach: liveness (`Exits`, `FullDeviceExitsOne`,
`EveryParseAnswers`, which follows from `ParserAnswers` and `LexerAnswers` by
fairness and the absence of deadlock, both TLC's) and ENABLED; facts about recursive functions of the AST
(the evaluator, `Yield`, `Respects`), which need induction over data; and any
statement in MCAwk, MCLowering, Printer and FrontendTrees, which declare
RECURSIVE operators.

## What is not modelled

* `cli.rs`: a clap declaration without state.  `sexpr.rs`, `diagnostics.rs`:
  wording only.
* The contents of an included file: `@include` and `@nsinclude` are `todo!()`
  in the code, which the model ends in a panic.
* Lexer: escapes in strings and regexes, UTF-8 checks, the posix and gnu modes
  (no caller turns them on).
* Values: fractions, rounding, overflow of isize, arrays; NaN only as the result
  of `n % 0`.
* Instructions the lowering never emits, and the Display of bytecode.
* That a constant merged with a loosely equal one is the wrong constant: indices
  are checked with merging (`lowering_labels`), execution is not.
* Indentation of the printed AST, which the lexer skips again.

## Plan

In order of importance; all but 6 are done.

1. Code, Lowering, their runs and `TypeCorrect`; `CodeIsFinal`.
2. Values, Vm, Awk: execution against an evaluator, exit statuses.
3. Grammar, Lexer, Pratt, Printer, FrontendTrees: expressions.
4. Rules for `parser/src/lib.rs`, Printer and Frontend for whole programs.
5. Pool and the refinement; proofs of the register invariants of flat programs,
   of the label and index invariants and of the process.
6. Compose: the AST of Frontend as a program of Lowering; merging of loosely
   equal constants, with LooseEq taken from Values, in an executed run.
7. Proofs of programs that open scopes: `OperandsConsumed`, `RegistersFit` where
   it holds, `ScopesKeepRegisters`.
8. Proofs about the front end: `EachAnnotationMarksOneRule`, `FrontTypeOK`,
   `SlashAfterOperandDivides`, `OperandsBind`, `ParserReadsOn`.
