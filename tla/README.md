# JuicyC in TLA+

JuicyC is a compiler for a part of C: a preprocessor written by hand, a scanner
made by flex, a parser made by bison, and visitors that walk the parse tree, one
of which generates LLVM IR. This directory models the hand-written parts that
have state, checks them with TLC on small instances, and proves their main
invariants with TLAPS for every value of the constants. `PROJECT.json` lists the
runs, the findings, the hazards, the mutants the properties catch, and the source
lines every definition stands for.

Run a model with `tlc -config <cfg> <module>` and a proof with `tlapm <module>`.

## The system

The compiler is one process with one thread. `cmd/juicyc.cc` builds the options,
`CompilerImpl::Run` seeks the first source, calls `yyparse()`, which pulls tokens
from `yylex()`, which pulls characters from the preprocessor, and then walks the
tree with `JsonDumper` and `SyntaxVisitor`. Nothing is concurrent and nothing is
persisted, so what is hard here is not interleaving. It is state that one method
leaves for a later one: cursors, stream bits, stacks and flags, over long sequences
of calls that the author did not enumerate.

| Component | State | Operations | Used by | Hard behaviour | Correct when |
|---|---|---|---|---|---|
| Preprocessor (`compiler/preprocessor_impl.h`) | sources, current source, its stream and line; stack of headers; macros, omit flag; status, eof; line buffer with two cursors | `push seek next get eof ok file_name line_no col_no` | scanner, tests | headers that end together, include themselves or are missing; failed streams; conditionals across files; eof inside `get()` | `get()` delivers the text with headers in place, each character once; locations are right; `get()` returns |
| Line buffer (second half of `ReadLine`) | `buffer_`, `write_cursor_` | read a line, doubling the buffer | `get()` | lengths at the capacity, the `'\0'` of `getline()`, one-character and last lines | the line is in the buffer unbroken and every later index is inside |
| Scanner (`frontend/c.l`) | flex's block, line counter | `YY_INPUT`, `yywrap`, `count` | parser | the end of a block, the end of the text, a failed preprocessor | no character lost or doubled; EOF after the whole text, and eventually |
| Parser and tree (`frontend/c.y`, `include/juicyc/symbol.h`) | the tree | `BUILD`, `Invoke`, `at` | visitors | which child is at which place in which rule | visitors see every symbol once, children between Visit and Exit |
| FrontEnv, UniqueSymtable (`frontend/front_env.h`, `util/unique_symtable.h`) | static preprocessor, root, status; tags | `Tag Untag Parse` | all of the front end | static state outlives a compilation; 16-bit ids; a status nobody sets | one id per name, for good; a run's tree is that of its source |
| SyntaxVisitor (`visitor/syntax_visitor.h`) | stacks of types, values, identifiers and contexts; six flags; the builder's block; status | a Visit and an Exit method for every symbol | compiler | flags and stacks set by one method for another; blocks replaced when a branch ends | the code does what the source says, or an error is reported |
| Function table, type checker (`visitor/syntax/`) | functions of each name, by tag | `Insert Get Tag Castable CastTo` | SyntaxVisitor | equal tags of different types; the order of declarations | the documented match rule |
| LLVM context (`visitor/syntax/context.h`) | module, builder, logger | `ExportIR ExportObj` | compiler | an output file that cannot be opened; a module that was never verified | OK means the files are there |
| JsonDumper (`visitor/json_dumper.h`) | indent, comma flag, terminal count, stream | as a visitor | compiler | one comma flag for all open objects; texts JSON cannot hold | the file is JSON, and is the tree |
| Compiler (`compiler/compiler_impl.h`, `cmd/juicyc.cc`) | options, environment | `Run` | user, tests (several in a process) | statuses ignored or overwritten between phases; a phase that ends the process | an error of any phase is returned; what OK promises is on disk |
| Utilities (`util/`) | logger's lines, a spin lock, files | string helpers, logging | everywhere | (nothing uses the lock) | |

## Modules

### Preprocessor

`Lines` says what one line contributes (how many characters `getline()` extracts,
whether the code completes it with `'\n'`). Both modules below use it, so what
`LineBuffer` shows about the bytes is what `Preprocessor` assumes about widths.

`LineBuffer` is the loop of `ReadLine` and the code behind it, on a vector indexed
from 1. A character is its index in its line, and whatever an earlier line left is
`Stale`, so that an index that is off by one is always visible. `StartLine`
picks the length of the next line, `GetlineChunk` is a round of the loop that does
not reach the end of the line, `GetlineLast` one that does, `AppendEnd` the code
after the loop.

`Preprocessor` is `PreprocessorImpl`. The variables have the names of the members,
without the underscore; `source_fs` and the streams of headers are records with a position and state
bits. `seek`, `next` and `push` are actions (`NextPastEnd` is `next()` on the last
source, where `input_source_[size()]` is read: the process crashes or finds some
file name). A call of `get()` is `CallGet`, then one `Fetch` for each round of its
loop (`ReadLine` and `ProcessLine` together, one disjunct for each kind of line and
outcome), then `ReturnChar` or `ReturnNul`. A file is a sequence of lines with a
kind, a name, a length and whether `'\n'` ends it. An `#include` that throws
(`substr(1)` of an empty string) makes `pc` "crashed". fopen() fails when
`MaxOpen` files are open, which is what ends a header that includes itself.

`Expansion` is the reference: what preprocessing a file means, defined by recursion
over files and groups and not by the code's loop. A walk maps a file and what was walked
before it to what was walked after it; `FileWalk(disk)[room]` is the walk when `room` files
can be open at the same time, and for an `#include` line uses that for `room - 1`. These are recursive functions, so that
they can be reasoned about. `DeliversExpansion` compares `out`, all that `get()` has returned,
with `Expanded`.

### Scanner

`ScannerInput` composes the preprocessor with its client: `YY_INPUT` with its
`result` and `max_size`, flex's rules as "match any piece of the text there is",
`EndOfFile` as `yywrap()`. A call of `get()` runs to its end before the scanner
moves, so the composition adds no interleavings that one thread cannot have.
`CharSource` is the abstract specification: a text fixed from the start is given in
pieces, in order; the end is told after all of it, and is told. `ScannerInput`
implements it (`Source`, `ImplementsCharSource`): the text wanted is `Wanted`, the expansion
of the first source, `text` is what was given, `yy = "end"` is `done`.

### Functions and types

`Overloads` has the operators without state: types, `Tag`, `Castable`, both forms
of `CastTo`, `Inserted` (`FunctionTable::Insert`) and `Get`. `FunctionTable` is the table of one
scope while functions are declared in any order.

### Code generation

`SyntaxTree` has the grammar's rules, contracted: chains of rules with one child and
punctuation are gone because the visitor's methods for them do nothing, and `op`
keeps what a method reads of terminals with `at(n)`. `SyntaxVisitor` is the walk:
`VisitSymbol` chooses a rule for the symbol it reaches and runs the Visit method,
`ExitSymbol` the Exit method, `VisitTerminal` the terminal's. So the state space is
all trees of a scheme (start symbols, rules, a budget of leaves) and all states of
the visitor while it walks them. Each method is one action with all of its calls.
Where an assertion fails, a vector is read out of bounds or a null pointer is followed, the
outcome is "aborted" (the conditions are the operators that end in `Survives`).

`SyntaxTree` states the grammar itself as well, for the proofs: `IsRule(kind, r, parts)` says which rules a part
of a tree can have when it derives, say, a declaration, a declarator or an expression (`Kinds`). A scheme
lists the parts of its trees by kind, and `SchemesAssumption` says that each part has only rules of its kind;
TLC checks it of the schemes of every run. The rules are those of `c.y` for the symbols that are
modelled, and more general where the visitor does not look: a chain or a list may have any number of children.

`IR` is what LLVM makes of the calls: blocks with a parent and instructions, the list of a function's
blocks (`PushBack` is `insertInto`, of a block that is in the list already as well), and what
`verifyFunction` refuses. `SourceMeaning` is the reference: it follows the walk with
the scopes and branches of C, and none of the visitor's state, and collects for each
function the ways through it (stores, calls, outcomes of conditions, result).
`MeaningPreserved` compares these with the routes through the blocks.

### Tags, the parser's result and the compiler's run

`Interner` is the abstract specification of tags: a name gets a number of its own
when it is first used and keeps it. `UniqueSymtable` is the vector and the map with their
16-bit ids; `Insert` is `FrontEnv::Tag`, `Name` is `Untag`. It implements `Interner`
with its map as the numbers.

`JsonDumper` extends it, because keys are names that `Untag` finds. `calls` is the stack
of `Symbol::Invoke`: for each active call the children it has yet to visit. A terminal, a
nonterminal's beginning and its end are actions; `Construct` and `Destruct` are the constructor and
destructor. What is written is kept twice: `reader` is a JSON reader that counts the
members of each open object and refuses a comma too many or too few, and `doc` is the
list of keys. `block_head` and `terminal_id` are the dumper's own.

`Parser` is `yyparse()` as the actions in `c.y` see it. Bison's choice of rules is the input:
a text is a sequence of "shift this token", "reduce this rule of n symbols", "an external
declaration is complete" and "no rule takes this token". `Build` is `BUILD`, with its tag; the
unit's rule sets the static root. Four rules do not link all of their symbols (`return e;`, `goto`,
an `enum` without a list, and a compound literal with a comma at its end): a rule's `drop` is the
place of the token it leaves out. A text has an end here; that of an invalid `#include` has none
(the run `bad_header_scan`), nor that of a directory, and `Run()` does not return from those.

`CompilerRun` composes them with `CompilerImpl::Run`. `StartRun` makes a new compiler
(`NewCompiler` replaces the one preprocessor of the process); the steps of the parser follow until it accepts
or refuses, then the dumper's if JSON is wanted, then the visitor as its verdict alone
(OK, Corruption, or a failed assertion), `ExportIR` and `ExportObj`. `s` is Run's only
status, overwritten as in the code. After a refusal the text flex has read stays and
comes before the next compiler's. The files that cannot be opened are chosen per run.
`Height` counts the values on bison's stack: a rule is only reduced when its symbols are there.
`Listing` reads a tree from left to right; `Derivations` reads bison's operations from it and
`Keys` the keys of its JSON object, which is what `TreeOfThisRun` compares with the source and
`DumpIsTree` with `doc`. What a tree can tell of a source is `Told`: all of bison's operations,
without the tokens that rules leave out (`Recorded`). `MCCompilerRun` has the sources, derived by rules of `c.y`.

## Runs

| Run | Question | Instance | Distinct states |
|---|---|---|---|
| `line_buffer` | Does every line arrive unbroken, whatever came before it? | initial size 4, lengths 0..20: up to three doublings, every length around each capacity | 4 065 |
| `preprocessor` | Is the text delivered the text with headers in place; are locations and eof right; does `get()` return? | all main files of up to 3 and headers of up to 1 line from 7 kinds; two sources, headers that include each other and themselves, missing and invalid includes; read errors; 3 open files; a push | 385 727 |
| `scanner_input` | Does the scanner get the whole text and then EOF (refinement of `CharSource`)? | block sizes 1 to 3, so that blocks end everywhere in lines of up to 3 characters; self-including headers, definitions and blank lines, a missing source, no source | 10 652 |
| `function_table` | Does `Get` follow the match rule? | 16 parameter lists of up to two types of five kinds, 3 declarations, with and without `...` | 30 784 |
| `syntax_visitor` | Is what is compiled without an error what the source says; are its contexts, types, identifiers and flags as at first after each declaration? | three schemes, below | 1 448 248 |
| `compiler_run` | Is the tree that is dumped and compiled this run's; is the JSON file the tree; does OK mean that the outputs are complete; do tags keep their meaning? | 3 compilers in a row; 7 sources: none, refused at the start or in the middle, up to two declarations, a `return`, an `enum` and a compound literal whose rules leave a token out, texts with quotes; 5 sets of outputs; one output or none that cannot be opened | 322 506 |

The schemes of `syntax_visitor` are `control` (blocks, nested `if`/`else`, scopes that
shadow each other, returns; budget 10, enough for an `if` in an `if`, or a shadowing
declaration and its use in a branch), `computation` (calls of overloaded functions,
nested calls, `=`, `+=`, `*=`, initializers, inside and outside of a branch; budget 6)
and `declaring` (any declarations in any order, with pointers, prototypes, variadic
functions, specifiers in any order and number, a `const` without a type, void and unknown types, then a
function; budget 6). `MeaningPreserved` is claimed of programs without an `if` in a branch of another,
which `nested_if` is about; `HookOwnsBlock` and `BuilderAtTop` hold of those as well.

Runs that end with a violation show where the code does not do what a comment, a test
or an assertion of the repository says; `PROJECT.json` quotes the lines.

| Run | What it finds |
|---|---|
| `omission_ends` | after a false `#ifdef` the rest of the source is dropped: `#endif` is not looked at in omit mode |
| `bad_header_scan` | after an invalid `#include` the scanner never gets EOF |
| `nested_if` | `if (x > 1) { if (x > 1) { } }` is compiled without the inner condition, with OK: the outer statement takes the inner one's `resume` for its branch, and the branch's own block is never inserted |
| `nested_call` | `f(1, g())` is compiled as `f(g())`: an inner call overwrites `value_top` |
| `variadic` | no function is variadic: `...` is looked for where the comma is |
| `error_reported` | `Run()` returns OK for a missing, empty or refused source |

Four disagreements more are named in the hazards and have no run: a branch that is not in braces
pushes no context, so that `if (x > 1) return 1;` fails the assertions at
`visitor/syntax_visitor.h:819-820`, though the comment at 811 and the grammar take any statement
there (`SelectionSurvives`); `f(int)` is dropped behind
`f(char)`, whose tag is the same (the condition `Plain` of `MatchRule`); lines of directives and
blank lines are not in the scanner's line numbers (`TokenLine` says by how much); a
source that can be opened but not read, such as a directory, makes `get()` loop,
because a stream with badbit is neither `eof(is)` nor `bad(is)` (lines of kind
"ioerror"; `NoReadErrors` is the condition of `GetReturns`, `LocationCorrect` and `DeliversExpansion`).

Deadlock is not checked: every model stops when its input has been read or its bound is
reached. Bounds besides those above: `MaxSources` (pushes), `MaxDeclared`,
`MaxRead` (block size), `LineModulus` (2^32 in the code; files have fewer lines than that),
`MaxRuns` (compilers in a process; with three, a run can follow an accepted and a refused one). In `CompilerRun` a
source fits into flex's block, so all that is behind a refusal is left over, and it starts at a
declaration or at another refusal.
They are small because the code treats all sizes alike
except at the edges the instances contain (a full buffer, a full block, the last line,
an empty stack, one element); the proofs below remove them where they could.

## Fairness

`LineBuffer` and `Preprocessor` have weak fairness on the steps inside a call only: a call that
was made runs on, because nothing else runs in the process; no client has to make a
call. `ScannerInput` has weak fairness on its whole next-state relation: `yyparse()`
runs until it returns. Matching text is a step as well, but each match moves
`matched`, so it cannot go on forever without input. `CompilerRun`, `SyntaxVisitor`, `UniqueSymtable` and
`FunctionTable` state safety only and assume no fairness. That `Run()` ends is not claimed: it does not
when the preprocessor's text does not end.

## Proofs

| Module | Theorems | Inductive invariant, and why it is needed |
|---|---|---|
| `LineBufferProofs` | `TypeCorrect`, `RoomAlways`, `CursorSafe`, `LineArrives`, `LineAlwaysCompleted` | `InLoop` (the cursor is what was taken, two places are left, the prefix is in place), `AfterLoop` (the `'\0'` is where `AppendEnd` looks for it), `LineRead`. The properties speak of the end of a line; the loop needs its own statement. |
| `Induction` | (lemmas for the others) | The library's induction theorems take an operator, which the provers cannot instantiate. Their first-order content can be had for sets: a set of numbers with 0 and all successors is `Nat`, and a recursion on numbers defines a function. With it recursive functions, and `FlattenSeq`, satisfy the equations they are written with. |
| `ExpansionProofs` | `FileWalkEquations` | The recursion equations of `LastLines` and `FileWalk` for every disk, and that a walk only ever adds to the text. |
| `PreprocessorProofs` | `TypeCorrect`, `LocationsCorrect`, `HeaderStackChained`, `EofWithNul`, `ExpansionDelivered` | `TInv` (types, and that every stream belongs to a file on disk), then `LInv`: a stream's position is the line counted for it as long as it has not failed, the stack is a chain of `#include` lines, the buffer holds the line at the top. Locations are right only because headers are removed lazily, when they have failed an extra read; that is what the clause on stream bits says. For the text, `DInv`: what was returned and what is in the buffer make up the walk up to the place of the innermost stream, and resuming the walk there, then at the `#include` line below it, and so on (`LeadsTo`), comes to the walk of the whole source. The property compares two texts only; the loop has to know how what is still to be read, on all levels, completes them. |
| `ScannerInputProofs` | `ScannerIsClient`, `ScanTypeCorrect`, `NoCharacterLost`, `EofAfterAll`, `ScanLocations`, `ScanImplementsSource`, `TokenLinesCounted` | Every step of the composition is one of the preprocessor or none, so its invariants carry over; `CallOK` ties the scanner's place to `pc`. `ScanImplementsSource` is initial state and step of the `CharSource` refinement (`SourceInv`: the text is a beginning of the wanted text, and all of it when the end is told), on disks without read errors and while no condition was false. `CountInv` relates the ends of lines among the characters returned to the lines read, minus the silent ones; `TokenLine` is about tokens, a part of them. |
| `FunctionTableProofs` | `TypeCorrect`, `ArityAlwaysMatches`, `BindingsStable`, `MatchRuleFollowed` | `TagsDistinct` (no tag twice in the table) and `Covered` (every declaration is in the table, up to its tag): the rule is about declarations, `Get` sees the table. |
| `SyntaxVisitorProofs` | `InvariantHolds`, `BuilderStaysAtTop`, `HooksOwnBlocks`, `VisitorTypesCorrect` | `InBlocks` (contexts and functions name blocks that exist) with the first two properties, and that contexts and blocks are records with their fields (`Records`; types of terms do not matter). `TypeInv` adds the flags, that values and functions are sequences, and what a context holds. For every scheme, hence for trees of every size. |
| | `StacksStayClean` | `CleanInv`. What one method pushes or sets another one takes back, many steps later, so no statement about the visitor alone is inductive. The invariant is about what is left of the walk: there is a list of expectations (at most so many types and identifiers, the flags, whether there may be contexts), one before each item of `todo` and one behind them all, such that the visitor meets the first, each item turns one into the next, and the last is that of a clean visitor. A Visit method replaces an item by its children and its Exit method, and the expectations between these follow from the grammar (`SymbolSteps`). Stacks are bounded and not counted: an `x ++` takes an identifier that is not its own, a prototype takes the type of its declaration, so fewer may be there. Two further parts: only the lowest context has a hook, so that the end of a function removes the last one; and `is_pointer_` stays set behind a declarator only if there was no type to put it in. |
| `CompilerRunProofs` | `TagsAlwaysDenoteNames`, `TableImplementsInterner` | `TagsDenoteNames` is inductive: the names in the vector are different, so there are at most as many as the grammar has, and the 16 bits never wrap. Every `Insert` is an `Interner` step or a stutter. |
| | `TypeCorrect`, `TagsDenoteInAllRuns`, `RunImplementsInterner`, `OutputsAlwaysComplete`, `JsonAlwaysSurvives` | The invariants of the parts carried through every step of the composition, with what holds at each place of `Run()`: which files are complete there, and that a dumper is at work only at "json". |
| | `DumpAlwaysWellFormed` | `DumpInv`: every open object but the innermost has a member, and `block_head` is TRUE exactly when the innermost has none. The flag alone says nothing of the outer objects; the invariant says why it need not. |
| | `TreesOfTheirRuns` | `TreeInv`: the values on bison's stack and the root belong to a forest in which every child has a smaller rank than its parent, which is what makes `Derivations` a recursion that ends; the derivations of the stack are `Recorded` of the operations taken so far, while every source before was accepted; and what is left of the text can be carried out on that stack and ends in the unit's rule. The last part says why a rule never finds fewer values than it has symbols, so that no symbol gets lost but those a rule leaves out. A token that a rule is going to leave out is still on top of the stack with nothing but tokens behind it, so that in the derivations it stands where `Recorded` removes it. |
| | `DumpsAreTrees` | `Writing`: at each level of `Invoke` some keys remain (the rest of this level's children, then the end of the object and what remains one level up), and what was written with what remains is the keys of the root. `Numbered`: the terminals written have the numbers from 0 on. `JsonInv` joins them with the places of `Run()`; the property is about the finished file only. |

The theorems on compiler runs hold for all sources, options, faults and any number of runs.

Assumptions: those the modules name (`InitSize >= 2`; files are well formed as
`WellFormed` says, with fewer lines than the line counter can count; at least one
character per block; fewer names in the grammar than ids; outputs are the three there are).
`SourcesAssumption` of `CompilerRun` is what bison does: tokens are leaves, rules have names of the
grammar, a rule finds as many values on the stack as it has symbols, what it leaves out is a token with
nothing but tokens behind it, and a source that is not
empty ends with the unit's rule or has a token that no rule takes. `SchemesAssumption` of
`SyntaxVisitor`, which only `StacksStayClean` uses, is that trees follow the grammar. The proofs are about the
models' specifications.

Only model-checked:

- liveness: `LineIsRead`, `GetReturns`, and of `ImplementsCharSource` that the
  end is told. The prover does not do fairness.
- `MeaningPreserved`: it compares the routes through the blocks with the ways through the
  source, both of them recursive over graphs.

## What is assumed, and what is left out

- External code is modelled from its use: `istream::getline` and the state bits,
  `fopen`, flex's loop, `IRBuilder`, `verifyFunction`.
- LLVM is a release build, as the repository's README asks for: its own assertions do
  not stop a wrong instruction, the verifier refuses it later. The assertions of
  JuicyC are on. A block that is in no function yet can take any instruction. Inserting a block that is
  in the function already is undefined without LLVM's assertion: the model goes on with the
  block linked as the new end of the function's list, or ends the run (`Defined`).
- Reading behind a vector's end or through a null pointer is modelled as the end of the
  run ("aborted"); what the process does afterwards has no meaning. `value_top` and
  `sticky_context_` are not initialized: the second is any Boolean at first, the first
  is never read before a call in the trees of the runs.
- `StacksClean` does not speak of `value_stack_`: the value of a statement `f(1);` stays there for good
  (`visitor/syntax_visitor.h:368`). What a later function makes of it is part of `MeaningPreserved`.
- The preprocessor's clients ask for another source between lines only, as the code does.
- The visitor is its verdict in `CompilerRun`; that it may abort is what `SyntaxVisitor` shows. What LLVM
  does with a module that was not verified is open there (it aborts or writes an invalid file).
- Tokens, in `Parser`, are what bison does with them. `NoMove` and `NoCopy` classes, `Env` and `Status` are values.
  The destructors of trees are left out: nothing deletes a root.
- Not modelled, because nothing calls it or it keeps no state the compiler reads: `util/spinlock.h`, `util/debug.h`,
  the logger's lines, the string helpers (their results are line kinds), `util/file.*` (Windows'
  file API, used by a test), parsing of `argv`, the ownership of `isys` and `osys` (a compiler that gets none
  allocates them and frees neither), the column, equal keys in one JSON object, the bison automaton.
- Not modelled: the value of numbers (operators are symbols; `<` being unsigned is
  therefore not visible), floating point and string constants, arrays, structs,
  enums and labels; `switch`, loops, ternary and unary operators, for which the visitor
  has no code; the bison automaton; which token a flex rule matches; the text of
  directives.
- A program that declares a name twice in a scope, or uses one that is not declared, is
  outside of `MeaningPreserved`; so are the trees that abort.

## Plan

Done, in this order: the preprocessor's buffer, the preprocessor, the scanner as its
client, the function table, code generation, the tags, the dumper, the parser's result
and the compiler's run, each with its proofs; then the comparisons with recursive
references (the text delivered, the tree of a run, the JSON file), by induction. Next:

1. Proofs: of `MeaningPreserved`, that what was generated into a block stays.
2. `SyntaxVisitor`: plain blocks, `return ;`, calls of variadic functions (once they are
   recognised), loops (a `while` body is compiled once), string constants.
3. The dumper on the trees of `SyntaxVisitor`'s schemes, so that dumper and visitor walk
   the same tree.
