# Verification of the dragonk compiler

dragonk compiles a small subset of C (`int main() { return <expression>; }`) to
x86-64 assembly and runs `nasm` and `ld` on the result. This directory holds TLA+
models of its components, the TLC configurations that check them on small
instances, and proofs, checked by TLAPS, of the properties that matter most.
`PROJECT.json` is the index: components, runs, the source lines of each definition,
seeded defects, hazards, findings and theorems.

Paths below are relative to the repository (`src/` is its root).

## Inventory

| Component | Source | State | Operations | What is hard | What makes it correct |
|---|---|---|---|---|---|
| Lexer | `src/src/compiler/lexer.c` | cursor, line and column, header-name mode, one token of lookahead | `lexer_new`, `lexer_next`, `lexer_first`, `lexer_done` | a mode that survives calls, loops that end at the end of the source, literals out of range | longest lexemes, no text lost, right locations, exact numbers, every source lexed to its end |
| Number parsing | `src/src/core/strtox.c` | locals of one call | `str2i64` | overflow decided before it happens, 35 bases, prefixes | the value of the text or the right error |
| Parser | `src/src/compiler/parser.c`, `token.c` | token buffer, the C call stack, heap of expressions, texts of tokens | `parser_new`, `parser_parse`, `parser_free` | error paths that free half-built trees; ten copies of one loop | accepts the grammar, C's precedence, every expression freed once |
| AST | `src/src/compiler/ast.c` | the tree, the strings of the dump | `expression_free`, `program_free`, `program_to_str` | strings reassigned while the dump is built | which strings and operands the dump loses; nothing used when it is gone |
| Code generator | `src/src/compiler/codegen.c` | output text, label counter, the C call stack | `codegen_program` | labels drawn before a recursive call and written after it; stack depth where jumps join | unique labels, forward jumps, balanced stack, C's meaning |
| Process runner | `src/src/core/process.c` | descriptors, pipe, child | `process_create`, `process_join`, `process_destroy`, `process_run` | eleven calls that may fail, a bounded pipe, two processes | nothing closed twice, known leaks only, output forwarded, no deadlock when the output fits |
| Driver | `src/src/driver/run.c`, `main.c` | options, source, tree, temporary directory, two children | `run` | cleanup on many ways out, calls whose failure nobody checks | keeps the promise of a compiler, removes its directory, leaves known allocations only |
| Argument parser | `src/src/core/arg.c` | place in argv, values of options, buffers | `argparser_parse`, `argparser_show_help` | joined short options, missing values, state left by a failed parse | agrees with a reading of the command line as a whole |
| Directories | `src/src/core/dir.c` | path strings, directory entries | `del_dir` | ownership of paths through a recursion, failures ignored | removes nothing outside, leaves only what failed, frees each path |
| Strings | `src/src/core/str.c`, `str.h` | values with an owner bit, the heap | `str_*`, `path_join` | ownership moves, copies and ends inside calls | no text lost, freed twice or read when it is gone |
| Files | `src/src/core/file.c` | descriptor, buffer, length | `slurp_file` | the file changes between two system calls | a text the file had, or an error; all released |
| Embedding tool | `src/src/embed/embed.c` | the two files it writes | `main` | failures in the middle, runs over old output | the header and the source agree |
| Test programs | `src/tests/*.c` | list of cases, working directory, descriptors, counters | `get_tests`, the suites | a flag that outlives its directory, files left by a failed case, pipes never closed | cases complete, verdicts about their own programs, the suite ends |
| Containers and macros | `src/include/dragon/core/*.h` | sequences | `BUF_*` | failure of `realloc`, which nothing handles | modelled as sequences where they are used |

Everything runs in one thread of one process, with two exceptions: the children of
`process_run`, with the kernel objects they share with the parent, and whoever edits a
file while it is read. The components call each other down a line, `main` → `run` →
argument parser → `slurp_file` → parser (which pulls tokens out of the lexer, which
calls `str2i64`) → code generator → `process_run` (nasm) → `process_run` (ld) →
`del_dir`, and pass values back up; there are no callbacks and no shared mutable state
besides the arguments. So the hard behaviours are seldom interleavings and mostly long
sequences: loops with several exits, recursion with locals that live across calls,
error paths in the middle of a construction, owners of strings that change hands.

`PROJECT.json` lists forty places where this code is hard to test (`hazards`), with the
properties that would notice.

## Modules

| Component modules | Composed or instantiated in |
|---|---|
| `Lexer`, `Parser`, `Process` | their own runs |
| `Codegen`, `AstPrinter` (over `Strings`) | `Output`: what `run()` makes of a tree, with or without `--dump-ast`; `MCCodegen` gives it values |
| `Machine` = `Codegen` + a processor | implements `CProgram`, the abstract specification of a compiled program |
| `Driver` = `run()` + `ArgParser` + `DelDir` | implements `Compilation`, the abstract promise of one run of dragonk |
| `StrToX`, `StringUse` (over `Strings`), `SlurpFile`, `Embed`, `DelDir` | `Library`: a behaviour uses one of them; `MCLibrary` gives it values |
| `TestList` + `TestSuite` | `Tests`: the cases that are found are the cases that are tested; `MCTests` gives it values |

`MC...` modules give the constants small values (`MCTrees` makes the expression trees),
`...Proofs` modules hold theorems.

A definition that stands right before another and is named for what it gets wrong
(`AtComment` / `AtCommentUnchecked`) is a *seeded defect*: replacing the right
definition by it makes the property that `PROJECT.json` pairs it with fail in the
run it names. They show that each property can fail.

### Lexer

`lexer_new` calls `lex()` once and every `lexer_next` calls it again; each call
leaves a token in `lookahead`. One iteration of one of the loops
(`skip_whitespace`, its comment loop, identifiers, numbers, directives, header
names) is an action, so is each exit of a loop and the dispatch on the first
character of a token. `pos`, `line` and `column` are the cursor of `lexer_advance`;
`tokens` is the history of `lookahead`. A character is a one-character string; the
keyword tables of `src/gperf/` are functions from texts to token types.

* `TokensExact`: the tokens partition the source, with blanks and comments between them
  (`Tiling`); each is the longest lexeme that starts there, of the right type
  (`MaximalMunch`); and the flag set by `#include` and cleared by `<` is what the history
  of tokens says, however many calls lie between (`HeaderModeTracksTokens`). The
  reference (`Shaped`, `Classify`) is the lexical grammar on whole texts and shares
  nothing with the lexer's steps but the tables.
* `PositionCorrect`: the lines and columns that are counted step by step are those
  read off the text.
* `NumbersExact`: a number token has the value of its text, or, only in a build
  without assertions, the zero of the failed conversion. `AssertionHolds` is violated
  (see Findings). The kind of build, `ndebug`, is chosen in the initial state.
* `SourceLexed`: every source is lexed to its end, or to the failed assertion.

### StrToX

`str2i64` with its cutoff test; `i` is the accumulator, and `exact` the same number
in unbounded arithmetic, a history variable. `AccumulatorExact` says that the
cutoff decides overflow exactly, `ResultCorrect` compares the result with a one-piece
definition of what the text denotes. Two lines of the code have no counterpart
because they have no effect: the test of the `end` pointer in the loop (it is NULL).

### Parser

The lexer is replaced by any sequence of token types that ends with `TT_EOF`, chosen
as the parser asks for tokens, so a run covers every source of its length. The C call
stack is `stack`; the ten functions from `parse_logical_or_expression` to
`parse_multiplicative_expression` are one function with a level, 1 to 10, the tables
`Levels` and `FreesOperator` holding their differences. `parse_factor`'s branches are
frames of their own. A node is named by its token; `heap` maps each allocated node to
the sets of nodes of its operands, so that a tree is a set and ownership is a
statement about sets. `live` holds the tokens whose text is allocated.

* `MemoryAccounted` joins three parts that fail together when a way out forgets its part
  of the cleaning or does another one's. The allocated expressions are the disjoint union
  of the trees that somebody will free, at every step, and nothing is left after a
  failure (`HeapAccounted`); nothing is freed that is not allocated (`NoStrayFree`);
  and exactly which texts of tokens leak (`TokenLeaks`: the `&&` and `||` of a valid
  program; the offending token and operators of an invalid one).
* `GrammarExact`: what is accepted, and the place of the first error, agree with a
  grammar read off by counting parentheses. `PrecedenceRespected`: the tree agrees with
  C's precedences, stated by spans of tokens rather than by a parser.
* `NeverStarved`: `advance_nonnull`'s "Unexpected end of file" cannot happen.

### AstPrinter

`program_to_str`, with the frames of `expr_to_str` and the strings of module `Strings`
they make, join, move and free, and the emitter that indents. `DumpSound` says what the
dump loses and that it loses it in one place: for a binary operator the string that
holds `(` and the left operand is overwritten (`ast.c:58`), so it leaks, and what
`--dump-ast` prints is the way down the right operands only (`RightSpine`). All other
strings are freed, once, and none is read when it is gone. `ProgramsAssumption` says that
the parser's nodes make a tree: every node but the last is an operand of one other node.

### Codegen

The tree is a sequence of nodes. `frames` is the C call stack of `codegen_expr` with
the local `end` that `&&` and `||` keep across the second recursive call; what one
call prints between two recursive calls is one action. `code` is the text written, a
sequence of instructions. `LabelsUnique`, `JumpsGoForward` and `StackBalanced` (on
every path the code of a call leaves one value) are stated of that text.

### Machine and CProgram

`CProgram` knows nothing of the compiler: a program ends once, with a status the C
standard allows for its expression (any, where the standard leaves it undefined), or
is not compiled. `Machine` generates the code with `Codegen`'s actions and then
executes it, an instruction per step, on a processor with words of `WordBits`; a push
immediate is truncated to `IntBits`, as nasm does. `ImplementsC` is `C!Spec` under
the mapping of the machine's final state to an outcome: it covers the status, traps
(a division error only where C leaves the division undefined) and termination.
`ExecutionSound` adds to the types of the registers that the stack at run time is as deep
as the depth counted along the text (`StackDiscipline`).

### Process

The parent makes up to `MaxRuns` calls of `process_run`, as the driver and the test
suite do. Each system call that may fail is a step with its failure branch, and
`ClosedWhenFailing` says what each branch closes. Options are the numbers of
`process_options.def` combined with `|`; because `COMBINED_STDOUT_STDERR` is 0, both
tests of it succeed, and the pipe for stderr is made and never used. The child reads
its input to the end or not, writes its output in chunks to a pipe of `Capacity`, and
exits or is killed. A read or write of one chunk is a step.

* `OnlyKnownLeaks` lists what each way out leaves open: two descriptors after every
  call that started a child, even when it is destroyed.
* `NoStrayClose`, `SetupReleased`: nothing is closed twice, and the file actions
  and the argument vector are released on all ways out.
* `ReturnsHonest`: what the child wrote is copied and its status reported
  (`OutputForwarded`); and since `process_run` waits for the child before it reads the
  pipe, it returns only if the output fits the pipe or the child was killed
  (`ReturnsOnlyIfOutputFits`). `FittingCallReturns` is the other direction: if the
  output fits, and the child sees the end of its input, the call is over eventually.

### Driver, ArgParser, DelDir and Compilation

`ArgParser` reads one argument, or one letter of a cluster of short options, per step.
`ReadsCommandLine` compares what it stored with a reading of the whole command line that
knows nothing of its loop (an argument is a value if it ends an odd run of arguments
that want the next one); a failed parse keeps what was set before. `LeftAllocated` names the buffers no caller can free.

`DelDir` is the `readdir` loop with the recursion as a stack of frames and the owner of
each path. `RemovesOnlyInside` is what makes it safe to call: nothing outside the
directory is removed, and nothing that is not empty. `RemovalOutcome`: only what a
system call failed on stays behind, and paths leak only where `opendir` failed.
`del_dir` reads and frees a path twice exactly when it is given a path it owns for a
directory with something in it; the property says so, and `TempDirRemoved` that the
driver never does that.

`Driver` is `run()`: the argument parser's and `del_dir`'s steps are its own, the results
of the other calls are every result they may have, with `mkdtemp` and the `fopen` of
`codegen_program`, which nobody checks, ending in a crash. `process_run` has one result
more (module `Process`): when a tool prints more than the pipe holds, it returns only if
somebody kills the tool. `floods` says of which tools that is so, chosen in the initial
state of a run that will start them; such a tool never succeeds, and `Hang` is the call
that does not return. `held` is what `run()` has acquired and not released.

* `LeftHeld`: nothing is left after a success or an early failure; exactly the known
  allocations after a failure of nasm or of ld.
* `TempDirRemoved`: short of a crash or a failing system call of `del_dir`, the directory
  is gone, whatever nasm and ld did.
* `CommandLineRead`: `ReadsCommandLine` and `LeftAllocated`, with the driver's own options.
* `KeepsPromise`: the run implements `Compilation`, which knows the request (read off the
  command line, not off the parser's variables), the output file, the scratch directory,
  the exit code, and whether what the tools print fits the pipe: success only if what was
  asked for is there or was printed, and for an executable only if all that the tools
  printed fits; no assembly after a failure; help never fails. The run ends, in a success,
  a failure or a crash, if what the tools print fits. If it does not, the run may hang in
  `process_run` instead, but only while it makes an executable, and then with its scratch
  directory still there. This happens: nasm warns of each `push` of a number above 32
  bits, and some 800 such literals fill a pipe of 64 KiB.

### Strings and StringUse

`Strings` is `str.c`: a `str` with its pointer, its owner bit and its text, and the
memory `malloc` knows. `StringUse` states the rules a caller has to keep (do not
overwrite an owner; do not use again what was given to `str_join`; use a reference only
while its text has an owner). `OwnershipKept`: who keeps them loses no text, frees none
twice and reads none that is gone. `AstPrinter` is a caller that breaks the first rule;
`DelDir` one that may break the second.

### SlurpFile and Embed

`SlurpFile` is `slurp_file`, one system call per step, beside an editor that may change
the file between any two of them. `SlurpSound`: what is returned is what the file began
with when it was read, all of it unless it grew since it was measured, or an error; the
descriptor and the buffer are released on every way out. What has no length, such as a
pipe, gives the empty text.

`Embed` is the build's tool, with its own copy of `slurp_file` (an instance that
releases nothing) and two runs over the same outputs: `PairAgrees`, the header and the
source of a successful run agree on the length; `PairKept`, a run that fails on its
input leaves both as they were.

### TestList, TestSuite and Tests

`TestList` is `get_tests` and `walk_stage_dir` over a tree of files whose entries come in
any order. `GetTestsComplete`: each case of an implemented stage is listed once, with
its path, and what lies in `valid` is expected to compile. `InvalidCasesListed` is
violated (see Findings). `TestSuite` is the loop of `execute.c`: compile with
`run()`, run both programs, compare, clean up; descriptors are counted, with what
module `Process` says each call leaves open. `VerdictsSound`: a verdict is about
the two programs of its own case, not about files an earlier case left. `PipesSuffice`:
with the cases the repository has, the pipes nobody closes do not use up the
descriptors. `SuiteEnds`: the program ends whatever fails, unless a `process_run` (of
gcc, of the program gcc made, or one in `run()`) never returns because its child prints
more than the pipe holds (`Block`); and it does end where nothing fails and what is printed
fits. A crash of `run()` would end it too, and is not modelled here. `Tests` puts the two
together: the suite tests the cases of the list that `get_tests` returned (`Listed`), where
anything may fail, or the 72 cases of the repository (`Shipped`), where nothing does.

## Runs

| Run | Question | Bounds, and why they are enough |
|---|---|---|
| `lexer` | longest lexemes, locations, values, the end of the source, in both builds | all texts of up to four chunks out of twelve (with assertions): a directive, a header name, a comment and a newline can all meet, cut off anywhere; all texts of up to four of eleven characters (without): every pair of operator characters with something on both sides. `MaxNum` = 20 is passed by two digits |
| `lexer_literal` | finding | two digits |
| `parser` | ownership, leaks, grammar, precedence | 14 tokens, eight of them fixed: the six free places hold two nested parentheses or three operators. One alphabet has a kind of operator whose token is freed, one whose is not, and wrong tokens; the other one operator of each of the ten levels, since operators of a level share a row of a table and precedence is a matter of pairs |
| `parser_invalid` | finding | 11 tokens |
| `codegen` | labels, jumps, balance; the dump | `&&` and `\|\|` nested three deep on both sides; `LESS` and `MODULUS` stand for the plain operators, which push and pop alike. For the dump, trees three deep on either side, with numbers that tell operands apart |
| `machine` | the program means what C says | 10,316 programs of up to three operators: every operator with every operator on either side, words of 8 bits, ints of 5, status of 4; the numbers include 0, 1, the width of an int, the largest int |
| `machine_wide` | finding | programs of one operator, with a number that needs more than an int |
| `library` | `str2i64`; ownership of strings; `slurp_file`; the embedding tool; `del_dir` | texts of up to four of eight characters in nine bases, and `MaxInt` = 10, reached exactly and passed by one digit; three strings, so that an owner, a reference to it and a third can be joined, and four allocations; files of up to three characters, two texts of each length, and two runs of the tool; every tree of up to four entries, three deep, with a file beside the directory |
| `process` | descriptors, output, deadlock | three calls under a limit of nine descriptors, so that the leak of the first calls makes the third fail; outputs of zero to three chunks for a pipe of two |
| `driver` | command lines, promise, directory, allocations | up to three of ten words: an option with its value and something after it, joined and not, and three mistakes; every outcome of every call; neither tool, one or both print more than the pipe holds |
| `tests` | discovery, verdicts, descriptors, termination | trees of two stages with up to five entries out of sixteen, in any order; limits of 19 and 30 descriptors, so that they run out at different places; and the 72 cases the repository has, under its usual limit |
| `invalid_cases` | finding | the same trees, without a directory `valid` inside one `invalid` |

`lexer_literal`, `parser_invalid`, `machine_wide` and `invalid_cases` end in a violation
on purpose.

A run that puts several modules side by side (`codegen`, `library`, `tests`, and the two
builds of `lexer`) chooses in its initial state which of them runs; the variables of the
others rest. Deadlock is checked in every run, so that a run of the parser or of the
code generator, whose steps never repeat a state, either ends as its last disjunct says
or is reported: this is how their termination is checked.

### Fairness

The lexer, the processor, the driver and the test program are sequential: weak fairness
of the next-state relation (in `MCLexer`, `Machine`, `Driver`, `Tests`) says that the program
keeps running. For the driver and the test program it also says that the calls they make
return, which `process_run` does not guarantee: where a child may print more than the pipe
holds, not to return is a step of its own (`Hang` in `Driver`, `Block` in `TestSuite`) to a
state without a way out, so fairness does not rule it out. That `process_run` returns
otherwise is `FittingCallReturns` of module `Process`; nasm, ld, gcc and the programs tested
read no input, and are taken to end by themselves. `Compilation` asks for weak fairness of
ending or hanging, and allows a hang only where the output does not fit. In `Process` the parent and the
child are scheduled by the kernel: each has weak fairness of its own steps. Being killed is
never fair, nor does any failure have to happen, nor does anybody have to edit a file.

## Proofs

| Module | Theorems | Argument |
|---|---|---|
| `LexerProofs` | `LexerTypeOK`, `LexerPositions` | The types are inductive together with the facts each value of `pc` gives about the characters already seen: a loop that goes on has a character under the cursor. The location of the cursor is kept by `Advance`, because one more character adds one to the column or begins a line; the location of a token is a copy of the cursor's. |
| | `LexerTokens`, `LexerNumbers` | `LexInv`: every token in the history fits (`AllFit`: only blanks before it, the longest lexeme where it starts, its type, the mode it was read in, its value); what the running loop has passed since the last token is a gap or the beginning of a lexeme (`Placed`); the header-name mode is what the tokens say (`Moded`). A loop that stops has a character under the cursor that no longer lexeme can contain: one lemma for each shape of lexeme. |
| `LibraryProofs` | `StrToXTypeOK`, `StrToXExact`, `StrToXResult` | `AccumulatorExact` is inductive once the base is known to be in 2..36: the cutoff test `i > MaxInt \div base`, or equal with a digit above the remainder, is equivalent to `i * base + digit > MaxInt`; once overflow is set the exact value only grows. For the result: each place of the call has passed exactly what the definition passes (`Spaces`, `Signed`, `Numbered`, `Reading`), and the exact accumulator is the definition's value of the digits read so far, one digit being one step of its recursion. |
| | `LibraryOwnership` | `Kept` says of a memory and an assignment of strings to variables that owners and allocated texts correspond one to one, and that pointers in use are below the next one. Lemmas show that to acquire, to refer, to free and to hand on each keep it; `str_join` frees its parts one by one and acquires the result (`TakenIsFreed`), so each call is a chain of lemmas. |
| | `LibraryFiles`, `LibraryPairs`, `LibraryPairKept` | At each place of `slurp_file` it is known what is open and allocated; the length is that of the file when it was measured (`Measured`); a read that succeeds gives that many characters of what the file is then (`TextRead`). The editor changes only what is not remembered. It is proved once, for an instance that releases and one that does not; for the tool, `Written` relates its files to the text the instance returned. |
| | `LibraryRemovals`, `LibraryRemovalLeaves` | The theorems of `DelDirProofs` for the instance in the library. |
| `ProcessProofs` | `ProcessTypeOK`, `ProcessLeaks`, `ProcessCloses`, `ProcessReleases`, `ProcessReturnsHonest` | The invariant names the open descriptors at every place of the call and which of them a `FILE*` owns; each failure branch then closes a subset of what is open. For the output, what was written is what is in the pipe and what was copied, together; for the wait, a pipe is never fuller than its capacity, and a child that was not killed exits only when it has written all. |
| `ParserProofs` | `ParserTypeOK`, `ParserIsFed`, `ParserMemory` | `PInv`: where the parser is says what it holds (`Located`); the frames have the shapes their functions give them (`FramesShaped`); the trees that the frames, the operand and the result hold are disjoint and together are the heap (`NodesHeld`); the operators the frames hold, the operands and the token read ahead are different tokens (`TokensApart`), and besides the known leaks only they have texts (`TokensHeld`). Each action moves a tree or a token from one holder to another, or frees it; an error pops one frame at a time and frees what that frame held. |
| | `ParserGrammar` | `GInv` adds that each frame was entered for an operand or a parenthesis (`Linked`), that a loop has the next token in its hand (`LookedAhead`), and that the tokens read are a beginning of a program whose open parentheses are the frames of `parse_paren_expression` (`Read`). So what follows is accepted exactly when the grammar goes on with it. The grammar counts by recursive functions; what they do with one more token are lemmas. |
| | `ParserPrecedence` | `SpanInv` gives each running call the place it was called at and the number of parentheses open there (`AllFit`). Since that place a call has passed no operator looser than its own, and before it lies something that ends the left operand of its operator (`Fits`); each call is deeper in parentheses, or for tighter operators, than those it runs in (`Below`). An operand covers every node since its call (`Span`); every node built has the operands that the spans give it, up to the token consumed last (`Right`), and a later token adds nothing to one, because its right operand has ended or it is still the concern of the innermost call (`Settled`). An operator goes to the call of its own level: the tighter ones were tried on it (`LookedAhead`), and it ends the operands of those calls, which have returned. |
| `CodegenProofs` | `CodegenTypeOK`, `CodegenLabels`, `CodegenJumps` | Every label written is below the counter; each running call of `&&` or `\|\|` that has drawn its end label holds one that is below the counter, not written and held by no other call; and every jump without a label behind it has the end label of a running call for its target. When no call runs, no jump is left. Lemmas say what concatenation does to the labels defined and the jumps dangling, so each action needs only the text it writes. |
| | `CodegenBalanced` | `DepthInv`: the depth at the end of the text is the number of running calls that keep a left operand on the stack, and one when an operand was just computed (`Reached`); all calls but the innermost have begun (`Begun`); the end label of a call of `&&` or `\|\|` is jumped to only from the depth below that call (`EndDepth`), and all jumps to one label leave from one depth (`SameDepth`). The depth of a text is that of its beginning and of what is appended, so the lemmas are about texts joined, with cardinalities of disjoint sets. |
| | `MachineSound` | `LayoutInv` says of the text what the processor needs: the header, then instructions of the body, none of which pops more than is there, then `ret`. Then `Held`: where the processor is, the stack is as deep as the text says, over the return address. An instruction moves depth and place together (`Advance`), a jump finds the one label it names, at the same depth (`TargetIs`), and at `ret` the depth is 0 (`AtRet`). That every result is a word rests on lemmas about powers of two, division and numbers put together of bits. |
| | `PrinterSound` | `DumpInv`: every string the printer holds is allocated, and no two hold the same text (`StringsHeld`), so whatever a join frees, nobody else needs. The calls go down the tree, each from a node to the operand its caller asked for (`CallsNested`), and what has returned is the right spine of that operand (`Texts`). For the leaks a set of nodes whose calls have returned is kept beside the state (`Finished`): it is closed under operands, and each node in it lies below another or below a running call, so no node is called twice. There are as many texts nobody holds as binary operators among these nodes and the calls past the operator's name (`Passed`); at the end the set is the whole tree (`AllFinished`). |
| `DelDirProofs` | `RemovalStaysInside`, `RemovalLeaves` | Every directory of a running call lies in the one to remove, and the names it has not read are names of entries, or dots. A path made of a name that is no dot lies inside again. What is removed is a file, in which nothing can lie in a tree, or the directory of a call, when it is empty; so the tree keeps its shape. For what is left (`RemInv`): each path that is there is waiting in a frame, is a frame's directory, lies below one of these, or is accounted for (`AllAccounted`), and the frames are nested (`Stacked`) in a tree closed under parents (`Rooted`). |
| `DriverProofs` | `DriverLeaves`, `DriverCleansUp` | What `run()` holds is a function of the place it is at, up to the process of the tool that failed; each step moves along. `RInv` says what the scratch directory contains at each place (`Scratch`), that `del_dir` is called once, with a path the caller keeps (`OneCall`), and that what is there when it runs is what it was given (`WhenThere`); then `RemovalLeaves` is about the driver's call. |
| | `DriverReadsArguments` | `CInv`: what is stored is the reading of the arguments passed so far, for flags, for values and for the rest (`ReadInv`). The reading says that an argument is a value if it ends an odd run of arguments that want the next one; that is first shown to be the same as a recurrence from each argument to the next, which is a step of the parser. A joined cluster of letters is read letter by letter against the same recurrence. |
| | `DriverPromises` | Step by step each action of `Driver` is an action of `Compilation` or changes nothing it sees. At every place it is known which files and which scratch directory exist (`OnItsWay`), which of the tools that have returned cannot have flooded the pipe, and by `CInv` what the parser stored is what `Compilation` reads off the command line (`RequestRead`). This is `KeepsPromise` but for the promise that the run ends. |
| `TestsProofs` | `TestsComplete` | The walk's open directories are the levels of a stack, each in the one below (`Nested`), and the entries they have not read are apart from each other. An entry is *done* if it lies in an implemented stage, in no directory that could not be opened, and neither it nor a directory on its way waits to be read. The cases found are exactly the `.c` files that are done (`WFound`), each once (`WOnce`); the paths allocated are those done or on the stack (`WLive`); a case is marked as its directories say (`WMarked`). When nothing waits any more, done is reached. |
| | `TestsVerdicts`, `TestsPipes` | `SuiteInv`: at each place of a test it is known for which case each file in the directory was made (`Programs`). `PipesInv` bounds the descriptors: 12 for each case that is over and `Spent` for the steps of the one that is tested, so 3 + 12 * 72 and six more stay below 1024. |

The theorems hold for all values of the constants that satisfy the named assumptions,
which TLC evaluates in the runs:

* `SourcesAssumption`, `TablesAssumption` (`Lexer`): texts are sequences of strings;
  no letter starts anything but a word, and the keyword
  tables hold no type that `lex()` gives a token of its own.
* `LibraryAssumption`, with the assumptions of what `Library` instantiates:
  `StringUseAssumption` (texts are sequences), `SlurpAssumption`, `EmbedAssumption`,
  and `DelDir`'s `TreesAssumption` (what exists lies in a directory that exists);
  and `StrToXAssumption` (bases, and values of digits).
* `ProcessAssumption` (numbers), `TokensAssumption` (`Parser`: the alphabet),
  `ProgramsAssumption` (`Codegen`: a tree's operands precede it), `DumpedAssumption`
  (`Output`: besides, every node but the last is an operand once), `WidthAssumption`
  (`Machine`: a byte is shorter than a word, and can count its bits).
* `DriverAssumption`: those of `ArgParser` (words are texts) and of `DelDir`. It also says
  that two file names are strings, since the provers take a literal and the set `STRING`
  as unrelated.
* `TreesAssumption` (`TestList`): the parents of a path are directories of the tree, and
  `valid` is not a name `str2i64` reads the number of a stage from; `SuitesAssumption` (`Tests`): a program may
  hold at least its standard streams.

Induction over the length of a text or of a command line is done with a least
counterexample (`LeastNumber`, from the well-foundedness of the natural numbers),
since the library's induction theorems take an operator for a parameter, which the provers
do not instantiate.

Only model-checked:

* what must eventually happen (`SourceLexed`, `FittingCallReturns`, `SuiteEnds`, and that
  the run of `KeepsPromise` and the program of `ImplementsC` end): the provers reason
  about neither fairness nor ENABLED;
* `ImplementsC`, on 10,316 programs: the proof would have to relate the machine's
  arithmetic on words, a bit at a time, to C's, and each piece of code to the value its
  expression has.

Every invariant and every action property that a passing run checks is a theorem, and of
`KeepsPromise` all but that the run ends (`DriverPromises`).

## Findings

* `lexer.c:139` asserts that a literal converts; a literal above `INT64_MAX` fails the
  assertion, and a Release build takes 0 for its value (`lexer_literal`).
* `parser.c:574` never looks behind the closing brace: a valid function followed by
  anything is accepted (`parser_invalid`).
* `codegen.c:20` prints `push` with any 64-bit number; the immediate has 32 bits, so
  `return 2147483648 > 0;` exits with 0 (`machine_wide`).
* `list.c:43` marks a case by a flag that stays set: a case of `invalid` is expected to
  compile when `readdir` returned the sibling `valid` first (`invalid_cases`).

Known to be so, and stated by properties that hold: the descriptors that leak
(`OnlyKnownLeaks`, `PipesSuffice`), the token texts that leak (`MemoryAccounted`), the wait
before the read (`ReturnsHonest`) and the hang it can lead to (`KeepsPromise`,
`SuiteEnds`), the left operands `--dump-ast` does not print and the
strings that held them (`DumpSound`), the buffers a failed parse of the command line leaves
(`CommandLineRead`), what a failing nasm or ld leaves allocated (`LeftHeld`), crashes where
`mkdtemp` or `fopen` fails (`KeepsPromise`), and the path `del_dir` uses after it freed it,
which the driver's call never meets (`RemovalOutcome`, `TempDirRemoved`).

## Not modelled

* Memory exhaustion: failure of `malloc` and `realloc`, except for the argument vector
  of `process_create` and the buffer of `slurp_file`, where the code handles it; and the
  depth of the C stack.
* Wording of messages and the layout of the assembly, which no property is about; the
  text of the help.
* Write errors on the output file, which the code ignores, on the files the embedding tool
  has opened, and a `remove` that fails in the suite (`execute.c:72`, `104`): a `gcc.out` that
  cannot be removed would be run for a later case that gcc rejects.
* A kill of the compiler itself, and time: a hang lasts for ever.
* nasm, ld, gcc and the kernel, except where a model needs what they do (truncation of a
  push immediate, pipes, descriptors, the files they write); the Windows branches of
  `file.c`.
* The lexer's and parser's test programs, which call the compiler on literals and
  files and keep no state; `str_eq`, `str_find` and the like, which change nothing and
  appear where their callers use them; the containers' own code (`BUF_*` is modelled as
  operations on sequences).

## Plan

Done, in this order: `Lexer`, `StrToX`, `Process`, `Parser`, `Codegen`, `Machine` with
`CProgram`; `ArgParser`, `DelDir`, `Driver` with `Compilation`; `Strings`, `StringUse`,
`AstPrinter`, `SlurpFile`, `Embed`; `TestList`, `TestSuite`; and the proofs above. What is
left to prove is `ImplementsC` without its promise that the program ends. What the
registers hold is an assertion at each place of the text (stack and `rax` hold the values
of the nodes whose code has run), kept by the generator as it appends an instruction, with
the jumps to labels still to come as pending assertions; the processor then only has to
follow them.
