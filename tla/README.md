# Coddl in TLA+

Coddl is a compiler, written in Rust, for a relational language after *The Third
Manifesto*, with a runtime library that compiled programs link against. This
directory holds TLA+ models of its pipeline where correctness is easy to lose: the
lexer, parser and formatter; the flow rules and headings of the type checker; the
ownership discipline of lowered code; the two code generators; the in-process
relational operators; the path on which a relational statement becomes SQL; and
the storage engine of the runtime. Paths below are relative to `src/crates/` unless they start with
`docs/`.

Contents: [1 Inventory](#1-inventory) - [2 Modules](#2-modules) -
[3 Runs](#3-runs) - [4 Proofs](#4-proofs) -
[5 Disagreements between code and documents](#5-disagreements-between-code-and-documents) -
[6 Not modelled](#6-not-modelled) - [7 Plan](#7-plan)

## 1 Inventory

A source file goes through `coddl-syntax` (lexer, parser, syntax tree),
`coddl-types` (checker), and `coddl-procir`, which lowers the checked tree to SSA
instructions. While lowering, a relational expression over a *public* relvar (a
table of a database) is turned into a RelIR tree (`coddl-relir`), and from there
into one SQL statement (`coddl-sqlemit`) whenever the whole tree can be pushed;
otherwise its operands are read and the operators run in the process
(`coddl-runtime/src/relation.rs`). SQL texts become numbered *plans*. A code
generator (`coddl-codegen-cranelift`, `coddl-codegen-llvm`) emits the object file,
linked with `coddl-runtime`. The program's prologue registers the databases and
then the plans; its body opens transaction brackets and fires plans; its epilogue
shuts the runtime down.

| Component | State it keeps | Operations | Interacts with | What is hard about it |
|---|---|---|---|---|
| SQLite storage engine (`coddl-runtime/src/sqlite.rs`) | database and plan registries, connection pool, nesting counter `tx_depth`, session temp tables, the database files | register, begin / commit / rollback, query, exec, exec_insert, shutdown | called by compiled code; calls SQLite | control statements go out one connection at a time; four ways to fire a read; crashes and refused statements between two statements; rows shipped into temp tables |
| Writes on public relvars (`coddl-procir/src/lower.rs`, `coddl-sqlemit/src/lib.rs`) | the instructions of a statement, the tables | assign, truncate, delete, insert, update | fires plans of the engine | recognizing by its shape that a value is a small change of the target; statements of several instructions; keys |
| Reads of relational expressions (same files, `coddl-relir/src/expr.rs`) | none | build_rel_expr, resolve, emit_select, cut | produces plans | pushing a tree whole, in parts, or not must not change the answer |
| RelIR inference (`coddl-relir/src/expr.rs`) | none | headings, candidate keys, cardinality, needs_distinct, card1_sibling | read by lowering and SQL | a wrong key drops a DISTINCT that was needed |
| In-process operators (`coddl-runtime/src/relation.rs`) | payload buffers | literals, seal, restrict, project, rename, wrap, group, join and its relatives, union, minus, tclose, load order | called by compiled code | records as words, pointers inside cells, duplicates, comparison of nested relations |
| Reference counts (`coddl-runtime/src/rc.rs`) | a counter per payload | alloc, retain, release | every operator and lowered scope | one release too many or too few on some path |
| Procedural lowering (`coddl-procir`) | scopes, owned values, deferred releases, SSA values | statements and expressions | checker's types, code generators | deferred `let` aliases, releases on early exits, joins of paths |
| Code generators (`coddl-codegen-cranelift`, `coddl-codegen-llvm`) | the shape of every value, the slot of every relvar | one translation per ProcIR instruction, twice | calls of the runtime | two independent encodings of the same values |
| Checker (`coddl-types`) | environments, diagnostics | transaction rules, definite assignment, types, headings | lowering trusts it | rules that make runtime preconditions true (T0025, T0093) on every path |
| Lexer, parser, tree (`coddl-syntax`) | a cursor, the open nodes | lex, parse, recover | checker, formatter, language server | contextual keywords, recovery that must make progress and report what it skips |
| Formatter (`coddl-fmt`, `coddl fmt`, formatting in `coddl-lsp`) | none | print, check, write, edit | lexer and parser | keeping every token and comment, being idempotent |
| Plans and modules (`coddl-plan`) | module graph, catalog | load, resolve | driver | cycles, duplicate names |
| Constant evaluation, driver, provisioning, store configuration, language server, web host, diagnostics, standard library, stubs | see `PROJECT.json` | | | |

A compiled program is single-threaded. What interleaves is therefore not
threads but *statements*: one runtime call sends several statements to several
SQLite connections, each may be refused, and the process may die between any two
of them, while the database files survive.

What makes the modelled components correct:

- **Engine**: the nesting counter agrees with every connection; SQLite never has
  to refuse a control statement; nested brackets are one transaction per
  database, published whole or not at all, and outside them each statement is a
  transaction by itself; a query returns what its plan means
  on the table as the program sees it, whichever way it is fired; an escalated
  query joins the rows shipped for it and no others; a call that starts ends.
- **Writes**: after a statement the target has exactly the value that was asked
  for, everything else is unchanged, keys hold, also of what is on disk after a
  statement was refused, and a statement is refused only when it has to be.
- **Reads**: the rows returned are those the expression denotes, each of them once,
  with or without DISTINCT.
- **In-process operators**: each is the operator of the algebra on the values its
  operands denote; no relation holds a tuple twice; every reference is counted;
  the closure ends.
- **Lowering**: a payload lives exactly as long as something reaches it, on every
  path through arms, rounds, returns and calls.
- **Code generators**: a value stays itself in registers, cells, arguments and
  slots, and both generators ask the runtime for the same things.
- **Checker**: what it accepts is true of every execution, and what it refuses for
  a reason about executions has an execution that shows it.
- **Parser**: what the grammar writes is read back as it was meant; a damaged text
  is refused or means all it says; every parse ends.
- **Formatter**: nothing but space changes, and a second pass over a text without
  errors changes nothing.

## 2 Modules

| Module | Role |
|---|---|
| `FlatTx` | abstract: what transaction brackets promise a program |
| `SqliteStore` | `sqlite.rs`: registries, connections, brackets, queries, DML, batched inserts, shutdown, crash, restart |
| `SqliteStore_proofs` | its theorems |
| `MCSqliteStore` | plans and rows for TLC |
| `RelAlgebra` | relational expressions and what they denote: the reference definition |
| `SqlEmit` | expression to RelIR (`build_rel_expr`) to SQL (`emit_select`), the text by what it means to SQLite; the keys inferred on the way (`surviving_keys`, `card_le_one`) |
| `PublicWrite` | statements on a public relvar: lowering, shape recognition, running the instructions |
| `MCPublicWrite`, `MCAssign` | a catalogue of statements and small databases; that the faithful part of it meets the theorems' hypotheses |
| `Recursion` | recursion and induction over trees, in a form the prover takes |
| `SqlEmit_proofs`, `PublicWrite_proofs` | theorems on the SQL of an expression and on statements |
| `Headings` | types, headings and the typing rule of each relational operator (`ty.rs`, `checker.rs`) |
| `Values` | abstract: variables hold values, operators are those of the algebra |
| `Cells` | records as words in name order, and the comparison of cells (`layout.rs`, `relation.rs`) |
| `Records` | `relation.rs` and `rc.rs`: the operators on reference-counted payloads; implements `Values` |
| `MCRecords` | literals, headings and operator arguments for TLC |
| `Lowering` | `lower.rs`: which Retain and Release each statement emits, and what they do when run |
| `Lowering_proofs`, `LoweringEnds_proofs` | theorems on it: what an instruction reads has been computed. The first goes up to the statements that open a structure, the second has those that close one, and the theorems |
| `Codegen`, `MCCodegen` | the two emitters, instruction by instruction, side by side |
| `Checker` | the checker's walk over an operator body, next to every execution of it |
| `Checker_proofs` | theorems on the transaction rules, definite assignment, names and types; lemmas on scopes, frames and the marks on bindings |
| `CheckerVerdicts_proofs` | theorems on the warnings and on refusals |
| `Syntax` | the parser's productions, the tree builder and the accessors of the tree |
| `Grammar` | the reference: from what is meant to the sentence that says it |
| `Parser` | files written by `Grammar`, damaged by one slip, parsed and read back |
| `Lexer` | characters to tokens |
| `Formatter` | tokens, tree and printer; `coddl fmt`; the language server's formatting request |
| `MCForms`, `MCParser`, `MCFormatter` | the sentences, files, slips and layouts TLC writes |

`Headings` is used by `Cells`, `Values` and `Records`; `Records` is refined to
`Values`; `Syntax` is the parser of both `Parser` and `Formatter`, the latter
composing it with `Lexer`.

### SqliteStore

| Variable | Code |
|---|---|
| `registry`, `plans` | `database_registry`, `plan_registry` |
| `conns` | `db_connections` |
| `depth` | `tx_depth` |
| `ctl` | the loop of `tx_broadcast`: the verb, and the names it still has to go to |
| `inTx` | per database file: SQLite's autocommit flag of the program's connection |
| `disk`, `work` | the committed table, and the table this connection sees |
| `temp`, `tempSaved` | temp tables `temp_rel_table(plan, slot)`, and what ROLLBACK would restore |
| `call` | the multi-statement call in flight (`fire_escalated`, `coddl_exec_insert`) |
| `binds`, `answer` | values bound by the last statement, relation last returned |

One action is one runtime call or, where a call runs several statements, one
statement. `BeginTx`, `CommitTx`, `RollbackTx` move the counter and, at the
outermost level only, start a broadcast that `ExecBegin`, `ExecCommit`,
`ExecRollback` carry out one name at a time in any order (the code iterates a hash
map). `coddl_query` tries, in this order: `QueryEmpty` (an empty relation in an
absorbing slot or a false gate: no statement at all), `QuerySibling` (one row in
the dispatch slot: the sibling text), `QueryValues` (slots expanded in place), and
`QueryEscalated` followed by `ClearTemp`, `FillTemp`, `NextSlot`, `SelectEscalated`
and `TidyTemp`. `ExecDml` is `coddl_exec`; `ExecInsert` and `InsertBatch` are
`coddl_exec_insert`. `Crash` may take any step's place, `Restart` begins a new
process on the same files. A statement SQLite refuses aborts the process in the
code, and is `Gone("crashed")` here; a refused *control* statement is
`Gone("aborted")`, so that a property can tell it.

Neither `coddl_query` nor the two calls that write look at the counter, and neither do
their actions (`Firing`): outside every bracket a statement is in autocommit, and `Published` puts
what it writes on disk at once. That is where the bare replacement of section 5 runs, and
the batches of its insert are then published one by one. Only `CommitTx` and `RollbackTx`
need an open bracket (`InBracket`), since the compiler emits them in pairs with a begin and
refuses a `return` between (T0093).

Abstracted: a tuple is a member of `Rows`; the SQL of a plan is the constant
operator `Meaning` or `Effect`. `SqlAssumption` states what the emitter owes the
engine for that to make sense: absorbing slots and gates do empty the result, and
the sibling means the same as the general text. The width of cells, marshalling
and text are left out.

`FlatTx` is the abstract specification: brackets nest in a counter, a database
joins when the bracket reaches it, writes are pending until the outermost bracket
is left, and a stop discards what was not published. With no bracket open, a write is
published as it is made (`WriteThrough`), one at a time: what takes several of them may
stop after any, and nothing promises it will not. `FlatTx` has no connections, no
temp tables and no plans. The mapping is `level <- depth`, `committed <- disk`,
`pending <- work`, `active <- inTx`.

### RelAlgebra, SqlEmit, PublicWrite

An expression is a record whose operands are expressions; the program's are the
constant `Exprs`, which has with an expression its operands, and `Height` falls
from each to its operands. `WellTyped` is what the checker lets through.
`RelAlgebra!Eval` is the meaning of an expression, written with sets, and is also
what the in-process operators compute. `SqlEmit` translates the compiler:
`Build` is `build_rel_expr` with its reasons to decline (a literal, a predicate
between two attributes); `Collapsed` is the operand that ships as a parameter, and
`Narrowed` the right side of a semijoin, cut down to the shared attributes.
The RelIR trees so built are `Trees`. `Resolves` says which of them a FROM clause
can hold, `Columns` the physical column of each attribute there, `From` the rows;
`Core` and `Computes` recognize the chain `rename(project(extend(x)))`, which is
one SELECT; `Exists` recognizes a semijoin, projected or not, and `Correlated` are the rows
its `WHERE [NOT] EXISTS` leaves; `Terms` lists the SELECTs of a root set operation as the flat compound the
text really is, and `Answer` is what SQLite makes of one, from left to right. `Value`
is `lower_expr`: pushed whole when the tree emits, otherwise operand by operand, a semijoin
as the join projected back. `join` and `times` are one operator of the model, as they
are one node of the tree.

Relations are sets here, and SQL returns bags. `Repeated` makes up the difference: it is the
set of rows a statement returns more than once. `Listed` are the rows of the FROM clause,
`Shown` what the SELECT list makes of one, and a row repeats where two of the former show the
same and `Distinct` says that the emitter has left DISTINCT out. That decision is
`NeedsDistinct`, which follows `SurvivingKeys` and `CardLeOne` through the tree. A relvar
has the keys it was declared with (`Keys`), its table only the first of them as
PRIMARY KEY (`Primary`).

`lower_expr` does not take everything to the process: `guard_no_full_relvar_pull` panics
where an operator that was not pushed would pull in a public relvar whole, that is, one
that no restriction filters (`Filtered`, `PullsAll`). `Compiles` says of an
expression that it gets past the guard at every level, and a program is made of
`CompiledStatements`.

`PublicWrite!Lower` yields the instructions of a statement. `EmitAssignment` and
`EmitUpdate` are the recognizers, in the code's order. The actions run one
instruction each: `ExecDelete`, `ExecAntiJoin`, `ExecInsert`, `ExecRefill`,
`ExecInsertFrom`, `ExecUpdate` and `UpdateRow` (SQLite checks a key after each
row of an UPDATE), `ExecQuery`, `ExecEval`. A refusal by the PRIMARY KEY aborts
the program (`Refuse`). A row that the SELECT of an
INSERT returns twice is refused as a clash with itself; a relation shipped by the process
is sealed and has none.

`OpenBracket` and `CloseBracket` are the ends of the outermost `transaction [...]`, and
`inTx` tells that one is open. Beside `db`, which the program sees, `published` is the target on disk:
a statement in a transaction reaches it at the commit, one outside with the statement.
`Refuse` restores nothing: it leaves what `published` holds, which is
the table before the *transaction*, or, after a bare replacement, what its first
instructions have already published. A statement may begin outside only if it is `Bare`, a replacement
whose right-hand side reads no public relvar, because T0025 asks for nothing else there.

Six definitions say what the code takes for granted of a program without looking:
`SetOpsNestLeft` and `JoinsAlign` of its trees, `UpdatesAreWhole`, `JoinsFillTheTarget` and
`OpaqueIsIndependent` of its assignments, `KeysAreEnforced` of its declarations. They are the
hypotheses of section 4, and section 5 has a program for each that does not meet it.

### Headings, Values, Cells, Records

`mem` is the heap: a payload per address with its count `rc`, its kind, its
heading (the descriptor) and its records; `vars` holds the address each variable
owns a reference to; `work` is a transitive closure under way, which takes one
step per round (`Round`) where every other call is one step; `status` becomes
`panic` where the code indexes past a slice. A record is a flat sequence of words in
name order of its heading, as `layout.rs` lays it out: a Text is a pointer and a
length, an inline tuple its own words, a nested relation a pointer. `Compare` is
`cmp_cell`: numbers by their bytes, Text by content, nested relations record by
record, nested tuples word by word. `Sealed` sorts, drops duplicates and
releases what the dropped records held. Each unary or binary action is one
exported function, with the retains of the cells it copies. `Values` has the same actions on
sets of tuples; `Abstract` maps a variable to the set its payload denotes, and the
headings on both sides are computed by `Headings`, the checker's rules, so the run also
compares the runtime's descriptors with the checker's types. The history variable
`meaning` of `MCRecords` only spares TLC work.

### Lowering

A behaviour *writes a program*, one statement per step, in the order the lowerer
meets it. `fn` is the lowerer's per-function state: `locals` (a stack of scopes),
`pending` (a `var` without a value), `owned`, `borrowed`, `temps` and `heads` (tuples
that own their cells), `deferred` (extract sources released at the end); `open` is the
stack of structures being lowered. When the statement lies on the path taken
(`live`), `Run` executes the emitted instructions on `memory`. An `if` is taken or
not, a loop goes round 0 or `Rounds` times, its log repeated; both arms are always
*lowered*, so state left over from the arm not taken is seen by the other. Types are
Text, a relation and a flat tuple, the three ownership regimes of the code.
`Excluded` names program shapes whose counts the code does not balance: each is an
operator of its own, quoted in section 5, and a run without it in the list shows a trace.

### Codegen

One step appends one ProcIR instruction and lets both emitters translate it. `regs`
is each emitter's `ValueRepr` map with the machine words it stands for; `cell` the
relvar slot; `calls` what the emitted code asks of the runtime; `values` and `effects`
what ProcIR means. `Encode` is the layout of a value in words, the reference for both. A
tuple of `BoxThreshold` slots is boxed. `status` says whether an emitter or the
verifier behind it gave up. `Shapes` lists programs on which the emitters differ
or fail; the run excludes them.

### Checker

A behaviour writes the body of one operator. `scope`, `txDepth`, `errors`, `warned`,
`blocks`, `tail` and `returns` are the checker's; an action is the arm of `check_stmt` or
`check_block` for one construct, a block an opening and a closing action. `worlds` is the reference: all
the executions that reach this point, each with its frames, its bracket depth and
what its cells hold. `events` and `touched` record what some execution did. Conditions
are never decided, so both arms and any number of rounds are in `worlds`; a
condition of a loop is evaluated again after each round.

### Syntax, Grammar, Parser

A production of `parser.rs` is a sequence of steps, one per call of a primitive
(`bump`, `expect`, `start_node_at`, `skip_to_*`), and `Run` executes it on a state with the
cursor, the stack of open nodes and the errors; `stuck` is set when a loop comes
round without having moved. The cursor counts meaningful tokens; `gaps` are the tokens with
white space or comments before them, and `spaced` tells that those before the next
token are still to be read. The parser compares raw positions where it asks whether an
expression was there, after `parse_expr_prec` has passed over trivia (`parser.rs:1318`), so `Moved`
counts that as progress: the recovery depends on the layout, as it does in the code. Words are tokens and keywords are words in a position, by
the tables of `keywords.rs`. `ReadFile` reads the tree through the accessors of
`ast.rs`. `Grammar!SentenceOf` goes the other way with no knowledge of the parser:
precedence decides parentheses. In `Parser` a file is written (`Write`), may
suffer one slip (`Drop`, `Mistype`, `Intrude`) and is parsed (`Compile`), under two
`Layouts`: space between any two tokens, and only between those that would run together.

### Lexer, Formatter

`Lex` is `next_token` repeated: longest match by lookahead, nested comments, strings
and their escapes, numbers with exponents. Characters stand for classes. `Formatter` cuts the text into tokens,
parses the meaningful ones with `Syntax`, gives every token its node, decides
which bracket groups are on several lines (`Multiline`), and computes each separator
(`separator` of `printer.rs`). `Command` is `coddl fmt --check`, `--write`, or the language
server's edit; `exit` keeps the commands and their outcome.

## 3 Runs

| Run | What it asks | Result |
|---|---|---|
| `SqliteRead` | one database, all ways of firing a read between writes, nested brackets or none, crashes, restarts: type invariant, temp tables, bind ceiling, answers, calls return | holds, 63,272 states |
| `SqliteWrite` | two databases, writes inside and outside brackets: counter against connections, no refused control statement, the outermost bracket ends alike on every database, implements `FlatTx` | holds, 24,240 states |
| `Assign` | any sequence of statements from a catalogue of some ninety writes and reads, in transactions and, for bare replacements, outside: every write means its value, every read its expression, no SELECT returns a row twice, keys hold of the table seen and of the disk | holds, 29,844 states |
| `Records` | any four calls of the in-process operators: exact counts, no duplicates, equality is set equality, implements `Values`, the closure ends | holds, 19,906 states |
| `Lowering` | every program of four statements: nothing freed while reachable, nothing released where it was not computed, nothing leaked, names bound to values of the path taken | holds, 441,445 states |
| `Codegen` | every function of four values: both emitters compile it, keep each value whole and make the calls asked for | holds, 188,864 states |
| `Checker` | every body of three statements and a block: the flow rules against all executions, in both directions | holds, 647,579 states |
| `Parser` | every form within every form, names that are keywords elsewhere, files with one slip: read as written, lossless, nothing skipped in silence, declared names can be read, every parse ends, whatever the layout | holds, 40,629 states |
| `Formatter` | short texts and laid-out files: tokens stand alone, writing keeps them, a second pass is idle unless there are errors, lines are indented by their groups | holds, 46,679 states |
| `OpaqueReplace` | an assigned value that reads a filtered part of its target and does not push | violated, see 5 |
| `SetOps` | a set operation nested on the right | violated, see 5 |
| `CdstoreLoop` | a `.cdstore` file with one slip: does its parse end? | violated, see 5 |

**Bounds.** `SqliteRead` has two tuples and six plans: one with a sibling, one with
two slots of different arity, one gated, one whose slot does not absorb, one DML.
`BindCeiling` is 2 (999 in the code) and `InsertBudget` 1 (900): two shipped cells
fit and three do not, so both sides of every comparison are reached; a populate
needs two batches; and the arity-2 slot is wider than the budget, which is where
the clamp to one row per batch matters. `MaxDepth` 2 gives one inner bracket; a
third level would repeat the second, as only 0 and 1 are compared with. Two
database names on two paths suffice for a broadcast that has reached one and not
the other. In `SqliteWrite` three tuples, two with the same key, make an insert
and an update that are refused, in the first or a later batch, with a bracket open or
none. `PublicWrite` has one key and one other attribute over {1, 2}, every keyed value of
the target, and two contents of its neighbours: two tuples are enough to have a row that matches and one that does
not, and to swap or merge keys. Beside the target stand a relvar of its heading, one that
shares its key (a join keeps the keys of both sides) and one that shares only its
other attribute and is all key (a join multiplies rows, and what is left after a projection
has no key). Its statements are a list, not a grammar: one per
recognizer and decline, with both operand orders. The shapes that break are kept
out of the passing catalogue (section 5); two of them have violation runs of their own.
One read of the catalogue does not compile, on purpose: the guard must hold it back.
`Assign` evaluates `CatalogueAssumption`: the whole passing catalogue meets the
six hypotheses of the theorems, so these speak of every program made of such statements.

`Records`: three variables and four calls reach a nested literal, the grouping of
it, a join with a closure. A word has `Base` 4 byte values, so the numbers of a run fit
one byte (multi-byte order is in section 5); every constant has two
copies, so that equal Texts have different pointers. Attribute names are chosen so
that wraps and groups move leaves across the name order. `Lowering`: two names,
four statements (a tail expression counts), two levels of nesting, a block opened
only where a statement may still follow; an inactive arm may be written while
fewer than three statements stand; a loop goes round twice, which is once over
each back edge after the first round. `Codegen`: `BoxThreshold` is 4 slots instead of 8, so that
two Texts are boxed; four values make a tuple of tuples, its cell and its use;
two runtime calls see a value built by one and read by the other. `Checker`: one
name, declared again in inner scopes, one public and one private relvar, three
statements and a block in any arrangement; two blocks exceed the time limit, and
the theorems of section 4 hold for any nesting. `Parser`: depth two suffices for
precedence, which compares two levels; one slip at every place of a file with
something after it shows what recovery leaves; and the two layouts are the most and
the least space a text can have. `Formatter`: separators look at two
neighbouring tokens and an operator at three characters, so all texts of three
characters per alphabet; files have one unusual gap each and otherwise no space or
one line break everywhere; two commands. One space per level of indentation
(four in the code). Octal and decimal prefixes, which lex as hexadecimal does, are omitted.

**Deadlock** is checked in the runs of the engine and of statements: a process can
always be restarted, except after `aborted`, which the passing runs show unreachable.
In the others the system may stop: a program, a function or a file is complete.

**Fairness.** `WF_vars(Step)`, where `Step` holds exactly the statements of a call
in flight: one thread executes the call and nothing in the process can block it.
Nothing is assumed of the program's next call, of crashes, or of restarts. A
crash in flight ends the call too, so `CallsReturn` reads "returns or takes the
process down"; it is only about loops of the runtime ending. `Records` assumes that the
loop of `tclose` goes on (`RoundFairness`, the weak fairness of `Round` with its
enabling condition written out): it is a plain loop in one thread. `ClosureEnds` then
says that the loop's condition becomes false. The other specifications state safety
only; that a parse ends is there an invariant, since a parse is one step.

## 4 Proofs

### The engine

`SqliteStore_proofs` proves, for all databases, plans, rows and bounds:

| Theorem | Statement |
|---|---|
| `Invariance` | `Spec => []IndInv` |
| `TypeCorrect` | `Spec => []TypeOK` |
| `DepthCorrect` | `Spec => []ConnectionsFollowDepth` |
| `TempsCorrect` | `Spec => []TempsHoldThisReadsRows` |
| `NoRefusedControl` | `Spec => []NoSelfInflictedAbort`, if no two names share a path |
| `AnswersCorrect` | `Spec => QueriesAnswerFromView` |
| `WidthCorrect` | `Spec => []OnlyTooWide` |
| `BindsCorrect` | `Spec => []BindsWithinCeiling`, if no plan's scalars and no row alone exceed the ceiling |
| `Refinement` | `Spec => ImplementsFlatTx` |
| `OutcomeCorrect` | `Spec => OneOutcome` |

**Inductive invariant.** `IndInv == TypeOK /\ BracketsOK /\ EscalationOK`. None of
the properties is inductive alone. `ConnectionsFollowDepth` speaks only of a
runtime at rest; `BracketsOK` adds what holds *during* a broadcast: after a BEGIN
has reached some names, exactly their paths are in a transaction and the counter
is already 1. The COMMIT and ROLLBACK cases are the mirror image. Two names with
the same path are allowed there, hence the sets of paths (`Holders`).
`EscalationOK` says how far the temp tables have followed the call: slots before
the current one hold their shipped rows, the current one holds those no longer
in `left`, tables of other plans are empty; while tidying, the slots already
visited are empty and the result computed is what the plan means *now*, because
no write can happen in between. That last conjunct makes an escalated answer as
good as an immediate one. `TempsCorrect` is the part of it a reader should know: the tables
hold this read's rows, whichever brackets were opened, left or rolled back before.
`Refinement` promises what `FlatTx` does and no more: whole transactions inside brackets,
single statements outside.

**Layout.** Lemmas first (types of the helpers, what `Gone`, `Control` and the
broadcasts do), then one lemma per family of actions and part of the invariant,
then one step lemma per part, `InitInv`, and the theorems. `NoRefusedControl`
needs the extra assumption because the code needs it: with two names on one file,
the second BEGIN goes into an open transaction and aborts. A compiled program
registers one database, which makes the assumption true of it. `WidthCorrect` says
without any assumption which statements can be too wide: a sibling text, fired before
the ceiling is looked at, and a batch or a filling that cannot be made smaller than one row.
It needs `ScalarsFit`: an escalation in flight has scalars that fit, since
`coddl_query` gives up otherwise. `BindsCorrect` excludes the two cases by hypothesis, because
no line of the runtime does; the plans of the run satisfy it.

`OutcomeCorrect` needs one more invariant, `Settled`: a path that is not in a transaction
shows the program what is published. It is read off the refinement, since every step is a
step of `FlatTx`, and there every way out of a transaction (`Publish`, `Discard`, `Stop`) makes
the two agree. When the last name is served, all other paths have left theirs. A crash half way is excluded by the property
(`phase' = "running"`): the code has no two-phase commit, and then some databases are
published and others are not.

**Assumptions** are the named `ASSUME`s of `SqliteStore`: resolution of names,
positive bounds with the batch budget within the ceiling, finitely many rows,
well-formed plan entries, and the emitter's obligations above. TLC evaluates them
in both engine runs.

### Writes and reads

`SqlEmit_proofs` and `PublicWrite_proofs` prove, for every set of expressions, every
heading and key, all values (integers) and all contents of the tables:

| Theorem | Statement |
|---|---|
| `BuildMeans` | the tree built for an expression means what the expression denotes |
| `SqlMeans` | the SQL of a tree that emits returns what the tree means |
| `ValueMeans` | `Value(e, db) = Eval(e, db)`, however much of `e` is pushed |
| `DistinctIsRedundant` | where the declared keys hold, `Repeated(x, db) = {}` for every tree that emits |
| `WritesAreInvariant` | `Spec => []Inv` |
| `WritesAreCorrect` | `Spec => []WritesMeanTheirValue` |
| `ReadsAreCorrect` | `Spec => []ReadsMeanTheirExpression` |
| `KeysAreKept` | `Spec => []GoldenRule` |
| `RowsComeOnce` | `Spec => []EachRowOnce` |

`BuildMeans` needs no hypothesis. `SqlMeans`, `ValueMeans` and `DistinctIsRedundant` need the
first two, and the theorems of `Spec` all six: a refused or repeated row would end
the statement that brings it. Each is a property of the *program* that the compiler does not check,
and without which the theorem is false (section 5 names the program):

- `SetOpsNestLeft`: a set operation that is the right operand of another one may be
  spliced into the compound. Unions under a union may, anything under a difference may not.
- `JoinsAlign`: both sides of a join keep each shared attribute in a column of one name, which
  the comment at `sqlemit/src/lib.rs:1620` assumes; they have no other column of one name;
  and the right side is not itself a join. A chain of joins nested to the left meets it.
- `UpdatesAreWhole`: an assignment that is recognized as an UPDATE has one restriction
  on the target, no more, and renames only what it computed. The `update` statement needs no
  such hypothesis: that the chain it is lowered to has this form is part of the proof.
- `OpaqueIsIndependent`: in a statement that compiles, an assigned value without a tree, which
  is not a union with the target either, does not read the target. The guard of `lower_expr`
  sees to most of it, but not to a value that reads a filtered part of the target.
- `JoinsFillTheTarget`: a join assigned to one of its own operands is an intersection: the
  comment at `sqlemit/src/lib.rs:760` says that the headings are identical.
- `KeysAreEnforced`: every declared key contains the one the table has as PRIMARY KEY.
  A relvar with one key, or with superkeys of its first, meets it.

**Inductive invariant.** `Inv == Sound /\ Steady /\ Midway /\ Finished /\ Rejected`. The
properties speak of the end of a statement. Before it, a statement is a list of
instructions of which some have run: `Steady` says that those left, run over the
tables and the shipped rows *as they are now*, make what was asked for when the
statement began (`Writes`, which follows the instructions one by one as a relation between
code, tables and result). It is this that an emptied table or a value computed too late
would break. `Midway` is for an UPDATE, which the model runs row by row: each row found is
still to change and as it was, or changed, and no changed row is one of those still
to change, so each is changed exactly once (`Partway`). `Sound` keeps keys and types, of
the disk as well, and `Rejected` the reason of a refusal.

**Argument.** One lemma per recognizer turns the instruction into an identity of
sets: a difference is a DELETE of the conjuncts or an anti-join, an intersection
its negation, and so on; for an UPDATE the rows that match and those that do not
are complements because `CmpOp::negate` is a complement on integers. `Lower` is then
shown to yield code that `Writes` what was asked, statement by statement, and one lemma per
action shows that `Inv` is kept. A refusal comes from a key that is broken in the value asked for: what is
inserted is all of it that is new, so a clash among the rows is a clash in that value.

**Rows once.** `DistinctIsRedundant` goes by induction over the tree, with two statements about
the rows that are listed, columns and all: every key `surviving_keys` infers identifies
them (`Identifies`), and where `card_le_one` says so there is at most one. Each arm of
the inference is one step: a filter keeps keys; a projection those it keeps whole, since the
two rows would differ in one of its attributes; a renaming maps them, one to one; and for
a join, the cover rule says that rows with one left key have one left row, hence
one value of the shared attributes, which a right key within them turns into one right row. The keys of
the leaves are the declared ones, which is where `Sound` and `KeysAreEnforced` come in: `RowsComeOnce` needs that no
earlier write has broken the key of the target.

**Recursion.** Every function over expressions or trees here (`Build`, `Evaluated`, `Columns`,
`Terms`, ...) is recursive, and the library's theorems on recursion and induction take operators
as parameters. `Recursion` goes round that: it proves, of the *constants* `Dom`, `Depth` and
`Step`, that a function determined by its values on lower trees exists (`Defined`), and
that what passes from lower trees to a tree holds of all of them (`Induction`, with a set
in place of a predicate). Each function is one instance of the module,
`INSTANCE Recursion WITH Dom <- ..., Depth <- ..., Step <- ...`, whose theorems
the prover takes like any other. What remains is to show `Local`: that the step looks at lower
trees only.

**Assumptions** are the named ones of `RelAlgebra`, `SqlEmit` and `PublicWrite`:
`Exprs` and `Trees` contain operands, which are lower; expressions and statements are well typed; the
temporary names of an `update` are fresh; the initial tables keep the key.

### The transaction rules

`Checker_proofs` proves, for all names, relvars, literals and bounds on size,
with blocks nested to any depth:

| Theorem | Statement |
|---|---|
| `DepthIsReal` | `Spec => []IndInv` |
| `AccessBracketed` | `Spec => []PublicAccessIsBracketed`, if bare replacements are left out |
| `Replayable` | `Spec => []TransactionsAreReplayable` |

The checker keeps one number, `transaction_depth`, along a walk over the text; the
properties speak of all executions. The argument is that the number is true of
each of them. `IndInv`, for a program not yet refused, says: every execution that
reaches this point has exactly `txDepth` brackets open (`DepthsAgree`); nothing
forbidden has happened (`Clean`); and the stack of open blocks has a depth before
each of its blocks, `d[i]` the number of transactions among the first i, at which the executions put
aside in that block (those that skip an arm, leave a loop, took the then arm) stand
too (`Nested`). The last part is needed because closing a block brings those executions back. Leaving a
transaction by `return` would bring them back at the wrong depth: T0093 refuses it,
and the proof uses it there. `AccessBracketed` names its assumption because the
code does not check a replacement whose right-hand side reads no public relvar
(section 5). The lemmas go from expressions (a call in a bracket is pure, a relvar
read is inside one), over the steps common to all statements (`Keeps`,
`StatementKeeps`, `OpenKeeps`, `CloseKeeps`), to one lemma per action.

### Assignment, names and types

`Checker_proofs` proves further:

| Theorem | Statement |
|---|---|
| `FlowIsReal` | `Spec => [](Ground /\ FlowInv)` |
| `AssignedBeforeRead` | `Spec => []ReadsAreAssigned` |
| `NamesMeanCells` | `Spec => []TypesMeanValues` |

The checker marks bindings in a stack of layers and restores marks when arms join; an
execution has a stack of frames with cells. The claim is that they are one stack.
`Agrees(s, m, w, U)` says so of one execution `w` and the first `m` layers: frame
`l` has a cell for exactly the names bound in layer `l`, the cell of a name is that of its last
binding there (same declaration, same id), it holds a value of the binding's type, and
it is empty only at a place in `U`, the vars the checker still takes for unassigned. Neither
property is inductive, because closing a block brings back executions that the current
scope no longer describes. `Walk` therefore adds, for every open block:

- `SetAside`: the executions put aside there (`before`: where the block was opened, `after`:
  where its first arm ended) agree with the layers below the block, with the marks saved in
  `snap`, less what the first arm assigned (`thenInit`). Layers below an open block only ever
  gain marks, and are never reordered (`Kept`), so this survives whatever is written inside.
- `Nest`: what is unassigned now, or was when an inner block was opened, was
  unassigned when an enclosing arm was opened. This is what makes the join right: the
  checker restores by place, and places saved by different blocks must be
  comparable.
- `Quiet`: behind a statement that returned on all paths there are no executions at all, so
  whatever the checker marks there is true of each of them. This is how an arm that
  returns counts as assigning everything.
- a `while` condition is evaluated again after each round; it names only what had a value when
  the loop was opened, so the second evaluation reads nothing empty.

### Warnings

`CheckerVerdicts_proofs` proves `BindingsAreTracked` (`Spec => [](Ground /\ FlowInv /\ IdInv)`)
and `WarningsHold` (`Spec => []WarningsAreTrue`). A warning is given when a binding leaves
its scope, and must be true of executions that are still to come. `Known` says, of every
id: at most one binding in scope has it, or one block has promised it to the variable that
will take its value, never both; once warned of it has gone for good; and if any
execution has read or written it, it was not warned of and its binding is marked. The
link from an execution's cell to the mark is `FlowInv`: the cell that is read carries the id
of the binding that `lookup` found and marked.

### Refusals

`CheckerVerdicts_proofs` proves `RefusalsHold` (`Spec => []RefusalsAreReal`), the converse of
`AssignedBeforeRead`, `AccessBracketed`, `Replayable` and the last part of `WarningsHold`: the
rules refuse nothing for safety's sake alone. Here it is not enough that each execution agrees with
the marks; for each mark *unassigned* there must be an execution in which the
cell is empty (`Exact`), in the current scope and for what each open block has put aside
(`Spread`, together `Shown`), and there must be an execution at all. T0025, T0026 and T0093 need
`DepthsAgree` from the section above: the execution that exists has `txDepth` brackets
open. The condition `"left early" \notin events` is necessary: the checker goes on behind
a return it has accepted, where no execution arrives, and may refuse what stands there
(`checker.rs` has no notion of unreachable code). It is recorded only for a return
without a diagnostic of its own.

**Assumptions** of all four: relvars and names a program binds are different names and the
relvars finitely many (`RelvarsAreNotBound`, `RelvarsAreFinite`); no type a program writes is
one of the checker's own markers (`TypesAreWritten`); and the two words for how a
block is used are not names (`UsesAreNoNames`), which only concerns the encoding. Nothing
is assumed of the bounds: bodies of any length, blocks of any depth.

### What lowered code reads

`LoweringEnds_proofs` proves, for programs of any length over any names, nested to
any depth, with loops of any number of rounds:

| Theorem | Statement |
|---|---|
| `LoweringIsConsistent` | `Spec => []IInv` |
| `ReleasesAreAlwaysDominated` | `Spec => []ReleasesAreDominated` |
| `NamesAlwaysHaveValues` | `Spec => []NamesHaveValues`, the part of `NamesAreBoundHere` that is not about counts |

The lowerer keeps values under names, in lists of releases put off to the end, in notes
taken when an arm or a loop was opened, and emits instructions that read them in other places. The
property is SSA dominance: on every path that is taken, what is read there
has been computed before. It is not inductive, since a release put off, the other arm
of an `if`, or the next round of a loop reads values that no instruction reads now. With V the
values computed so far, `IInv` says that there is a stack of open structures, the innermost
open call at place `lo`, for which:

- `Ready`: where the path is taken, what a name or a deferred release stands for is in V;
  elsewhere it is at least a value already numbered, as both arms are lowered and
  only one is run.
- `Held`: what a structure that was reached leaves alone stays in V. An arm's values are
  not in V on the other arm, so a name of an outer layer must either be one of the `carried` (bound
  anew at the merge) or still stand for what it stood for before; a deferred release of
  an arm is drained in it, up to the `mark` taken when the `if` was opened.
- `Frame`: the layers of scopes are those of the structures above `lo`; each name is declared in one of
  them; and what an inner structure carries of the outer layers, an outer one carries too (`Nested`), which
  is how an assignment deep inside reaches every merge on its way out.
- `Saved`: the values an arm has left with (its result, what it carries) are in V if
  that arm was the one taken.
- `Chain`: the path taken passes through every structure whose inside it is in.
- `Caller`: the function of an open call is `Ready` and `Held` with V as it is, once its
  numbers are moved past the callee's.
- `Logs`: what a loop will repeat has already been found to read only what was there. A
  round can then be repeated any number of times, since what it defines stays defined.

The lemmas follow the lowerer. `RunIsSound` reduces execution to `Sound`: every
instruction reads what was there or what an earlier one defined; it goes
through `Recursion`, as the execution of a list of instructions is a recursive function. `Goes`
says what lowering an expression may change (`ExprLowers`, `EmitGoes`); `StatementConsistent`
carries the invariant over a statement; then there is one lemma per action of
`Next`. The merge of an `if` is lowered once and must fit both arms: `MergeIs` and `IfMergeSame`
show that it does the same to either.

**Assumptions.** The names are numbers, finitely many, 1 (the parameter's) among
them (`ConstantsAssumption`), and `ShapesExcluded`: three of the shapes of `Excluded` are left out, a tuple that a
block yields without owning its cells (`TupleEscapes`), a `var` first assigned in a block
(`PendingInBlock`) and an extract in the body of a loop (`DeferredInLoop`). Each of
them breaks dominance in the code (section 5): TLC finds a trace to a value not computed when
one of them is taken off the list, for the first in programs of seven statements (a
call's boxed result yielded by an arm). The other eleven shapes break counts, and need not be
left out here.

**Model-checked only**: `CallsReturn` and `ClosureEnds` (liveness, and the second
ENABLED); of `Lowering`, what is about counts (`NamesAreLive`, `NoLeak` and the rest of `NamesAreBoundHere`), which
needs an invariant that sums references over the heap, the names and all lists of releases;
and the properties of `Records` with its refinement of `Values`, `Codegen` and the
front end, whose modules use RECURSIVE operators over syntax
trees, types or memory. The way of `Recursion` is open to them only after they are
written with recursive functions over a given domain, as `Lowering` has been.

## 5 Disagreements between code and documents

Three have a run that shows them:

- **Replace-all of an opaque value** (`OpaqueReplace`): `R := (R where v >= 2) where k = v`
  should be declined as self-referential (`docs/sqlemit.md:201`). A comparison of two
  attributes does not push, so the value builds no tree and the check for self-reference
  (`lower.rs:3140`) has nothing to look at; the guard against pulling a relvar whole
  (`lower.rs:4450`) does not fire either, because the operand is filtered. The relvar is emptied
  (`lower.rs:3176`), and then read: it stays empty, without a diagnostic. The
  shorter `R := R where k = v` does not get so far: there the guard panics.
- **Nested set operations** (`SetOps`): `A minus (B minus C)` is emitted as a flat
  compound and read by SQLite as `(A minus B) minus C`.
- **A bracket too many** (`CdstoreLoop`): `parse_cdstore_root` calls `parse_stmt`
  until the end of the file; at a `]` `parse_stmt` returns without consuming it.

The rest were met while modelling. The passing runs leave these programs out, by
the names in brackets where a configuration lists them, or do what the code does.

*Outside a transaction.* `docs/storage.md:372` and `docs/typecheck.md:738` say that every access to
the database stands in a transaction and that nothing is in autocommit. T0025 asks this of
each *mention* of a public relvar that is read; the target of an assignment is not asked
(`checker.rs:2713`, which counts on a self-referencing right-hand side). So `R := Relation { ... }`
outside any bracket is accepted and runs in autocommit: the truncate and each batch
of the refill are published one by one, against "The two statements run in the enclosing
transaction (atomic — a failed refill rolls the truncate back)" (`docs/sqlemit.md:211`)
and "two `Inst::Dml` in the transaction — atomic" (`lower.rs:3122`). If the refill breaks a key, or
the process dies, the old value is gone and part of the new one, or nothing, is on disk. `SqliteStore`
and `PublicWrite` do what the code does; what still holds there is in their properties (each
statement by itself is atomic, the keys hold of the disk), and atomicity of the
assignment is claimed only inside a bracket. `Checker` has the same program under
[BareReplace], as one it has to leave out.

*Temp tables.* The comment at `sqlite.rs:1612` says that a ROLLBACK "may resurrect rows,
harmlessly — every use clears first". In the model a ROLLBACK finds nothing to resurrect, because
no read straddles a BEGIN and each read tidies up after itself (`sqlite.rs:1325`), so that a BEGIN
always finds the tables empty. The comment is careful rather than wrong, and
`TempsHoldThisReadsRows` claims what matters in either case: that a SELECT finds
its own rows and no others, which the clearing at `sqlite.rs:1635` alone would secure too.

*Engine and SQL.* `docs/runtime.md:100` gives child transactions savepoints, and
`coddl_rollback_tx` in an inner bracket only counts down (`sqlite.rs:776`). The ceiling on
bound values is checked after a sibling lookup has been taken (`sqlite.rs:1103`).
`emit_update` looks at less than `docs/sqlemit.md:223` promises (`sqlemit/src/lib.rs:926`):
a bare substitute over `R where k = 1` keeps the rows with another `k`; of two restrictions
only the last predicates are compared, so rows the deeper ones leave out are kept; a
renaming of an attribute that was not computed is ignored. A join takes the left
column of each shared attribute for both sides (`sqlemit/src/lib.rs:1620`), so a relvar
meets its own renaming column by column, not attribute by attribute; where the two tables
have a further column of one name that is projected away or renamed, as in
`(R project {k}) join S`, SQLite refuses the name as ambiguous; and a join as right
operand of a join gives `A INNER JOIN B INNER JOIN C USING (z) USING (x)`, a syntax
error. `R := R join S` with a part of R's heading on the right is taken for an intersection
(`sqlemit/src/lib.rs:760`, "identical headings"; `lower.rs:6462` gives joins
and intersections one node), and the `NOT EXISTS` it becomes names columns S does not
have. `docs/typecheck.md:187` says that only the first declared key is used; only that one becomes the
PRIMARY KEY (`coddl-provision/src/lib.rs:188`), but the catalog hands all of them to
`surviving_keys` (`coddl-plan/src/lib.rs:283`), and a projection onto a second key, which
nothing enforces, drops its DISTINCT. The catalogues `BareSubstitutes`,
`HalfComplements`, `RenamedTargets`, `PartialJoins` and `MisalignedJoins` of `MCPublicWrite` show this in the place of
`OpaqueSelfReplace` (the last of a read, `PartialJoins` as a refusal that `GoldenRule` does not allow, the others of a write) and its `TwoKeys` in the place of `MCKeys`; each of these, and of the
two violation runs, breaks one of the six hypotheses of section 4. An UPDATE that permutes keys is
refused, against "constraints checked at statement boundaries"
(`docs/conformance.md:33`).

*Records.* A Rational cell is 32 bytes to the group and order operators
(`relation.rs:1270`) and 16 to the layout (`layout.rs:93`). The header of `relation.rs` says every stored
payload is sealed; nested literals, the groups of `group` and query results are
stored as they are (`SealedCells`), and two nested relations are compared record by record. `load ... order` compares
little-endian bytes, so 256 comes before 1 (`docs/runtime.md:66`). `restructure` finds
leaves by name, and takes the first of two.

*Lowering* (`lower.rs`; the shapes of `Excluded`). A Text parameter that is
returned or yielded is not retained [ParamEscapes]. A tuple that a block yields without owning
its cells, or that a name owns, dangles [TupleEscapes]; two names of one tuple
free it twice [TupleAliased]; reassigning a tuple variable [TupleReassigned], a tuple literal as argument
[TupleArgument] and an alias of a parameter or of a relvar's value
[ParamAliased, RelvarAliased] leak. A local relation moves into a relvar without a
retain [LocalStored]. The source of an extracted tuple may be reassigned or go out of scope
before the tuple [SourceReassigned, SourceEndsFirst]. An extract in a
loop body is released in the epilogue, which its definition does not dominate
[DeferredInLoop]. An early return inside an arm forgets tuples of the outer scopes
[ReturnPastTuple] and releases a value shared by two names once [SharedOnReturn]. A
`var` first assigned in an arm or a loop is bound in the outer layer
[PendingInBlock]. Left out by construction: expression statements drop owned
temporaries, a loop body that returns on all paths ends the same block twice, and `return;` in
main skips the shutdown that `docs/procir.md:153` puts at its end.

*Code generators* (`Shapes`). `layout.rs:117` calls boxing "Purely a
representation knob"; a boxed tuple as field of another keeps its pointer where the
words should be [WideCell]. The emitters differ on a Boolean cell, a Rational
parameter or merge, a Boolean call result, a returned Boolean literal, the type
of an extracted tuple attribute, and values a loop carries back [the other six]. Division by
zero traps in Cranelift and is undefined in LLVM.

*Checker.* A replacement whose right-hand side reads no public relvar is accepted
outside a transaction (`checker.rs:2713`, against `docs/typecheck.md:776`; see above) [BareReplace].
Public relvars are looked up by name, so a local that shadows one is taken for it. Members of a cycle
of module-level lets are never registered and give a cascade of T0001.

*Parser and lexer.* An `update` whose predicate ends in a prefix operator is
refused (P0054, against `docs/grammar.md:669`). A stray closer makes the depth
of `skip_to_top_level_anchor` negative and the rest of the file is skipped.
`R tclose {}` is read as the bare `tclose`. A variable called like a statement head
cannot be the last expression of a block. (`MCParser!Trap` and the choice of slips.) The
escape `'\u{1F600}'` is reported as E0006 although `docs/grammar.md:197` lists it: the
check for `u{` runs one character too early (`lexer.rs:424`).

*Formatter.* Code after a block comment on a line of its own is joined onto the
comment's line, against `printer.rs`. `coddl-fmt/src/lib.rs:68` promises idempotence of any buffer
("The buffer doesn't need to parse cleanly"). It fails after a broken character literal (hence the
condition on whole tokens), and on texts with syntax errors, because the white space
that the first pass removes decides how the parser recovers: of

    oper m {} [ return Relation { ,x }[0]; ];

the first pass removes the space before the comma, and makes a line `return Relation {, x }[0];`. With the space,
`parse_expr` reports a missing expression (P0014), but has passed over the space, so
that `parse_relation_lit_body` (`parser.rs:1660`) sees progress and reads on to the brace. Without
it the literal ends before the comma, three more errors follow, and the `[0]` becomes a group of
its own: the second pass puts the `0` on a line by itself. `SecondPassSettles` therefore lets a second
edit change a text with errors, and no other. The
language server formats in spite of parse errors where `cmd_fmt` refuses to; the trailing
commas, width and lowercase of `docs/fmt.md:27` are not implemented.

## 6 Not modelled

Engine and SQL: marshalling of cells, reading of configuration, the startup load of a relvar
slot, reached only with pushdown switched off; tuple-valued attributes, `when` and
`otherwise`, ORDER BY, `wrap` and closure in SQL, and the arms of the inference for them; the rewrite of a
cardinality-1 operand to a sibling statement, which `SqliteStore` assumes right. An I/O error is
a crash. Two processes on one database file are not modelled: SQLite's locking
makes the second fail, which is again a crash of that process. Records: `replace`
and arithmetic in `extend`, Binary, wider integers. Lowering: deferred `let` aliases of
relational expressions, arithmetic, formatted strings, sequences. Code generators: Binary, Character,
Approximate, sequences, the wasm stub. Checker: operator overloads, type declarations, modules,
the typing of scalar expressions. Front end: Unicode classes, spans, wording.

Components without a model, with the reason in `PROJECT.json`: runtime entry points, the catalog and the module graph, constant
evaluation, provisioning, store configuration, the web host, the stubs
(`coddl-backend-postgres`, `coddl-execlocal`), diagnostics and the standard library;
of the driver and the language server only formatting.

## 7 Plan

Done: the engine with its abstract specification and proofs; writes and reads of
public relvars, with proofs; records and counts; ownership; the code generators; the flow rules of
the checker with proofs; the front end and the formatter. Next, in this order:

1. **The sibling rewrite** of `expr.rs`, to discharge that part of `SqlAssumption`, with
   `when`, `otherwise` and the closure as operators of `SqlEmit`.
2. **Deferred aliases**: a pushable `let` against its value at the binding, and
   shadowing, on top of `SqlEmit`.
3. **Provisioning and restart**: provisioning an existing file, the startup load.
4. **Modules and language server**: the module-graph walk; document versions
   against published diagnostics.
5. **Proofs**: the operators of `Records` against those of `Values`, after their
   recursion over types is a function over a given domain.
