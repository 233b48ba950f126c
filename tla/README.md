# TLA+ models of CMOC

CMOC is a cross-compiler from a C-like language to the Motorola 6809, made for
the TRS-80 Color Computer.  The repository holds the compiler, the library that
its programs are linked with, a tool that writes files into diskette images, and
a simulator of the processor that runs the regression tests.  This directory
holds models of these programs, the TLC configurations that check them and
proofs about them.

Every module names the functions it models, and `PROJECT.json` lists the source
lines of each definition.  To check a configuration or a proof:

    tlc -workers 2 -config MCStatementCode.cfg MCStatementCode
    tlapm CoCoDiskProofs.tla

Contents: [1 The system](#1-the-system), [2 The models](#2-the-models),
[3 What the runs check](#3-what-the-runs-check), [4 Fairness](#4-fairness),
[5 What is proved](#5-what-is-proved), [6 Findings](#6-findings),
[7 Left out](#7-left-out), [8 Plan](#8-plan).

## 1 The system

### Parts and how they interact

| Part | State it keeps | Operations | It is correct when |
|---|---|---|---|
| Driver, `main.cpp` | parameters of the command line, list of object files | preprocess, parse, passes, write the assembly, assemble, link, for each file | outputs are those of the last successful step; one file leaves nothing behind for the next |
| Parser, `lexer.ll`, `parser.yy` | the tree under construction | build a tree | (generated code) |
| `TranslationUnit` | scopes, the stack of break and continue labels, label counter, call graph, literals | push and pop of scopes and labels, registration of calls and literals, the order of the passes | the stacks follow the nesting of the source; every function that can be reached is emitted |
| Statements, `IfStmt`, `WhileStmt`, `ForStmt`, `SwitchStmt`, `JumpStmt`, `LabeledStmt`, `TreeSequence` | the tree | `emitCode()` | the emitted jumps do what C says, and each label they name is emitted once |
| Switch, `SwitchStmt` and `stdlib/jumpTableSwitch.asm` | the cases, their labels | choose comparisons or a table, emit it, read it | every value goes to its case; the shorter form is taken |
| Expressions, `BinaryOpExpr` and others | the tree | `emitCode()` | the code computes the value of the expression |
| Scopes, `Scope`, `ScopeCreator`, `Declaration` | the tree of scopes, displacements in the frame | declare, allocate | two variables that live together do not overlap |
| Peephole optimizer, `ASMText` | a list of instructions, labels and comments | eighteen rewriting rules at -O1, seventy more at -O2 | the program keeps its meaning, the passes end |
| Runtime library, `stdlib/`, `float/` | heap pointer, seed, hooks | called by the compiled program | the routines compute what their header says |
| Disk library, `stdlib/disk.c` | table and sector buffers, file descriptor | open, read, seek, rewind, select a drive | it delivers the bytes of the file, in order |
| Image tool, `writecocofile.cpp` | the image in memory | write, replace, kill, read, list | the image is a map from names to contents, at all times |
| Simulator, `usim-0.91-cmoc/` | registers, memory, a diskette | execute an instruction, a disk request | it runs what the processor would run |

The compiler is one sequential process.  Its hard behaviours are long sequences
of small rewritings whose preconditions are about distant instructions, passes
that must agree on a stack, and numbers at the edge of a byte or a word.  The
image tool is a sequential process too, but its file outlives it: it may be
interrupted while it writes it.  The disk library runs on a machine where any
sector may fail to be read, and where the application calls it in any order.
The image tool, the library and the simulator never call each other: they share
the layout of a diskette, each with arithmetic of its own.

`PROJECT.json` lists every part with its sources and says whether it is
modelled, and lists, line by line, what can go wrong in them that a test would
hardly reach (*hazards*), with the properties that cover it.

## 2 The models

### The diskette

`DecbGeometry` has the three computations of the place of a sector: the image
tool's (`getGranule`), the library's (`granuleToTrack`, `dskcon`) and the
simulator's (`trySeek`).  `DecbTables` has the file allocation table as the two
programs see it: sizes of files in granules and sectors, the walk along a chain,
allocation, release.

`CoCoDisk` is the image tool.  Its variables are the table (`fat`), the
directory (`dir`), the bytes of each granule (`data`), the outcome of the last
invocation (`status`) and, as a history variable, what it was asked (`asked`).
An action is a whole invocation, since the tool works on a copy in memory and
writes it back at the end:

| Action | Code |
|---|---|
| `WriteFile(n, bytes)` | `killAndWriteFile()`: `killFile()`, `addFile()`, `commit()` |
| `KillOnly(n)` | `--kill` |
| `RefuseFile(n)` | the native file cannot be opened or converted: `exit()` before `commit()` |

`WriteFile` and `KillOnly` end in `Commit`, which may fail: the image is
rewritten in place from its beginning, so that any prefix of the new one (`Cut`,
with the directory track between the granules) may stand before the rest of the
old one, and the tool reports "commit failed".  `CoCoDiskCrash` adds
`CrashInCommit`, an interruption that nobody reports: any set of the parts may be
the new ones and the rest the old.  `MCCoCoDisk` instantiates both for their
three runs.

`FileStore` is the abstract specification: a map from names to contents,
requests, and what their user is told.  A write that is reported as done puts the
bytes *of that request* under its name, a refused one changes nothing, one whose
commit failed spoils its own name at most.  `CoCoDisk` refines it (`StoreSpec`),
with `asked` and `status` as request and outcome and `ReadBack`, the extraction
of a file, as the refinement mapping of the map.

`DiskReader` is `disk.c`.  Its variables are the diskettes (`disks`), the
current drive, the table in memory (`fatBuffer`, `fatUpToDate`), the descriptor
(`fd`) and the read in progress (`left`, `got`).  A read is a loop of its own
(`StartRead`, `ReadRound`), since a sector may fail in the middle of it;
`OpenFile`, `Rewind`, `Seek`, `SetDefaultDriveNo` and `ForgetFAT` (the program
resets `fatUpToDate`, as a comment lets it) are calls.  The application makes them
in any order, with any argument, on any file, an empty one included: it may
change drives with a file open and seek to the end of a full sector.  What the
library cannot cope with is noted in a history variable, `amiss`, and the two
ways in which it goes wrong at once in `stuck` (a failed assertion, a read outside of
the table).  `ReadOnlyFile` is its abstract specification: a sequence of bytes
and a position, which may be lost until the next call that sets it.  `ReadsFile`
is the refinement.

### The code generator

`SourceWalk` says what C says of the order of statements: a walk over the syntax
tree, which enters and leaves nodes, knows the result of a condition, and looks
outward for the loop of a `break` or `continue`.  `IsTree` and `IsFunction` are
what the parser guarantees of such a tree.

`StatementCode` emits the code of a function in a first phase, and runs it in a
second.

| Variable | Code |
|---|---|
| `todo` | what the calls of `emitCode()` in progress have still to do |
| `out` | `ASMText` |
| `breakables` | `TranslationUnit::breakableStack` |
| `labels` | `TranslationUnit::labelGeneratorIndex` |
| `errors` | an error was reported |
| `pc`, `flag` | the emitted code, running |
| `control` | the walk over the source |

There is one action per kind of statement (`EmitIf`, `EmitWhile`, `EmitFor`,
`EmitSwitch`, `EmitJump`, `EmitReturn`, `EmitGoto`, `EmitLabeled`,
`EmitSequence`, `EmitPrimitive`), one for a turn of the loop over the cases of a
switch (`EmitCase`), one for `BinaryOpExpr::emitBoolJumps()`, one for the end of
a loop or switch, where its labels leave the stack (`EmitEnd`), and one for a
jump that is an error (`ReportJump`).  Each replaces the first of what is left to
emit by what its function emits and calls, and a part that the code leaves out is
an empty line (`Blank`), so that the parts of a text keep their places.
In the second phase the code and the walk take their silent steps in any order
and their observable ones together (`DoStatement`, `Test`, `Select`, `Return`):
the emitted code *simulates* the source when they never disagree on the next
one.  Expressions are opaque: an event that names its node.

`SwitchDispatch` is the choice of a case.  Actions add cases
(`compileLabeledStatements()`) and emit the code (`EmitSwitch`): the estimate of
both costs, the forced mode, the comparisons, the table.  `Dispatch` is what the
emitted code does with a value.  Values are bit patterns of a word; a byte has
`2 * HalfByte` values and a word is two bytes, so that signed and unsigned orders
and the wrapping of the index are those of the code.

### Expressions

`CTypes` has the types, and the tree of an expression with what the passes before
the code generator note in it: the type (`ExpressionTypeSetter`) and the value of
a constant (`Tree::evaluateConstantExpr()`).  `ArithmeticCode` and
`AssignmentCode` emit the code of each kind of operator, with its special cases;
`ExpressionCode` puts them together as `emitCode()` does.  `CMeaning` says, on
the same trees, what C says: the value and the memory that an evaluation leaves.
`ExpressionMachine` compiles an expression (`Compile`) and executes its code one
instruction at a time (`Step`).

### Functions and calls

`FrameLayout` gives a displacement to each parameter and variable: an action per
visit of `FunctionDef::declareFormalParams()` and of
`Scope::allocateLocalVariables()` to a variable, over any tree of scopes.
`ScopeTree` is where such trees come from: the scopes that `ScopeCreator` makes,
the lookup of a name, and the second walk in `SemanticsChecker`.  `CallCode` emits
the prologue and epilogue, arguments, calls, `return`, and the initialization of a
variable.  `CallMachine` composes them: it lays out the frames, compiles the
functions that are reached from `main`, and runs the code, with the return
addresses on the stack and an interrupt between any two instructions.

### The simulator

`Cpu6809` has the registers, flags and instructions of compiled code, for any
number of bits in a byte: every part of the project that runs code uses it.  It
also has the routines that compiled code calls for shifts, products and quotients
(`stdlib/MUL16.asm`, `DIV16.asm`, `SDIV16.asm`, ...), each as one operator that
says what it leaves in the registers, division by zero included.  `Usim` adds
what `usim` has besides: fetching and decoding bytes, the other instructions,
interrupts and their timer, and the disk controller `DSKCON`, whose transfer may
fail after any number of bytes and which may have no diskette.

### The peephole optimizer

`AsmText` is a list of elements with the queries that the rules use, such as
`InsEffects`, the registers that an instruction reads and writes.  `Peephole` is
the driver and the eighteen rules of stage 1, in the order in which they are
tried: a step is one turn of the inner loop, which rewrites the element at an
index or advances.  The fifty-five rules of stage 2, which -O2 (the default)
tries where none of the first applies, are grouped by what they look at:
`PeepholeStack` (values pushed and popped), `PeepholeWords` (the operand of a
push brought to its pop), `PeepholeLoads` (loads and operations that are not
needed), `PeepholePointers` (X and what it points to).  Many of them run
`Pseudo6809` over a block: a constant propagation that also notes which
instruction uses the result of which.  `PeepholeO2` composes both stages, and
`PeepholeMeaning` runs the original and the rewritten text on the processor.

### Deliberate slips

An operator with a suffix, such as `Walk_lastMissed` or `BoolText_swapped`, is a
plausible slip in the definition that follows it.  No specification uses it.
`PROJECT.json` pairs each checked property with one that violates it: a property
that no slip can violate says nothing.

## 3 What the runs check

| Run | Question | Bounds |
|---|---|---|
| `disk_tables` | Do the table and the directory stay consistent over any sequence of invocations? | 4 granules of 2 sectors, 3 entries, 3 names, files of 0 to 5 sectors, a commit that fails after any part |
| `disk_contents` | Does the tool implement a map from names to contents, and does the listing tell the length? | 3 granules of one sector of 2 bytes, 2 names, 2 entries, files of 0, 1, 4 and 5 bytes, as they are or converted, with LF and CR apart |
| `disk_crash` | What does an interrupted write-back damage? | 3 granules, 2 entries, 4 names of which one is too long to store, every prefix and every subset of the parts (6609 states) |
| `reader` | Does the library deliver the file, also when sectors fail? | 3 granules of 2 sectors of 2 bytes, 4 layouts (one empty), 2 drives, calls in any order (419484 states) |
| `switch` | Does every value reach its case, in the shorter form? | 6-bit words, 3-bit bytes, up to 4 cases out of 9 values or a default (89007 states) |
| `statements` | Do the emitted jumps do what the source does? | 2048 functions: 8 outer statements, 4 inner ones, 4 conditions, 4 jumps, the label of a `goto` in place or removed (381777 states) |
| `expressions` | Does the code compute what the expression means? | about 6700 expressions of one to three operators, 4-bit bytes, 3 machines |
| `expressions_divisor` | A byte divided in place (finding) | the same expressions |
| `calls` | Do arguments, results, frames and interrupts keep out of each other's way? | 16 programs, 42 scopes, 4-bit bytes, an interrupt at any point (44138 states) |
| `peephole` | Do -O1 and -O2 keep the outcome, and do they end? | two statements out of 6 first and 35 second ones, 9 shapes besides, 4 start machines, 3-bit bytes |
| `cpu` | Do instructions, interrupts and the disk controller do what they should? | three programs, 1422 calculations at the edges of a byte and a word, 196 pairs of disk requests, each of which may fail part way, and one without a diskette (49705 states) |
| `dskcon_status` | The status of a transfer (finding) | one request |

### Properties and why the bounds are enough

*Disk tables.*  `NoEntryPastEnd`, `OneEntryPerName`, `NoCrossLinks`,
`NoLostGranules` and `ChainsEnd` relate the directory to the table;
`WalkVisitsChain` says that the loops that follow a chain meet each granule of
the file once and stop.  `OnlyOneFileTouched` is about a step: an invocation
changes the file of one name, also when its commit fails.  Four granules
and three entries let the diskette run out of either, and let chains become
fragmented and run backwards; the proofs below cover every size.  After a failed
commit `OneEntryPerName`, `NoCrossLinks`, `NoLostGranules`, `ChainsEnd` and
`WalkVisitsChain` may be false of the image, which is why they have `Intact`;
`NoEntryPastEnd` still holds.

*Contents.*  The lengths are those that could be confused: none, a byte, a full
and a partial last sector.  `ListingAgrees` compares what `--dir` prints with the
length of the bytes that the last successful write under the name was given, not
with another computation from the table: `listDirectory()` and `extractFile()`
compute it by different formulas, and for an empty file they differ in a term.
`StoreSpec` says the same of the bytes.

*Crash.*  `RefusedOnlyWhenFull`: a file is refused for its name or because the
files of the other names leave no room for it.  The old version of the file does
not count, since `killFile()` comes first, and no granule is lost.
`TornFilesApart` and `TornOneFileTouched`: whatever mixture of old and new parts
an interruption leaves, the file of one name is at stake, and no granule belongs
to two names.  A torn image is only looked at; a further
invocation on it may follow a chain through a free granule (`killFile()` would
then index the table with $FF).

*Reader.*  `PositionAgrees` relates the three ways a descriptor tells where it
is (`offset`, the loaded sector, the sector to be loaded next).  `HaltsExplained`
says when an assertion of the library fails: as long as the calls have the table
of the right diskette, only on a seek to the end of a file that ends with its
granule; and when the table is left: only for an empty file.  `SeekToEnd` says
what each seek to the end or beyond does: with a full granule it halts, with
another full sector it leaves a descriptor before a sector that is not the
file's, else the sector to be loaded is one of the file.  The first two contradict `disk.h`
(section 6).  `ReadsFile` promises the bytes of the file in order while nothing
went amiss, and again from the first rewind, seek or open that puts it right:
a drive changed under an open file, a table that could not be read, and a seek to
a full end do no lasting damage.  `ReadReturns` has no such condition.  Requests
and targets fall before, on and after the limits of a sector and of a granule.
`Flaws` says which sectors may fail.

*Switch.*  Six bits hold both signs, a byte within a word, runs long enough for
a table to pay (three cases or more) below zero, above it and across it, and
values far apart, which span a whole word; `Excess` is 256 in the code and 40
here, in proportion to the largest table.  `DispatchesByValue` is checked for
every value of the expression, of every table that the address space can hold
(`InMemory`).  `StopsBelowZero` says for which switches the assertion of the loop
that writes the table fails, in both directions; `TakesLessMemory` by how much the
estimate of a table differs from what is written (`Uncounted`), so that it says
of every switch which form is taken.

*Statements.*  The functions nest two statements that may each be the target of
a `break` or `continue`, with every kind of condition, the constants included,
and a jump at each depth.  That is enough for a label to be taken from the wrong
level.  `LabelsDefined` is what the assembler requires; `SameBehaviour` and
`KeepsUp` are the simulation and its progress; `ErrorsReported` says for which
jumps an error is reported, by the nesting of the source rather than by the
stack.

*Expressions.*  `ComputesMeaning` compares the register and the memory that the
code leaves with those of `CMeaning`, `StackBalanced` its stack;
`NothingBelowStack` says that no memory below S is read, since an interrupt may
have changed it.  Four bits to a byte keep carries, both signs and scaling by
more than one place.  The expressions have one to three operators, over bytes,
words, pointers, arrays and members, with operands that a special case of the
code generator looks at.  Eleven classes of expressions are left out of
`ComputesMeaning`, each a defined predicate with the line of the code that is
wrong (`Miscompiled`); section 6 has the list.

*Calls.*  `ProgramMeans` compares what a program leaves with what C says of it,
`ReturnsToCaller` each call with what it owes its caller: S, U and the place to
go on.  `LiveVariablesApart` and `LinkageKept` are about the frame.  The programs
pass integers, structures and longs, in registers and on the stack, by name and
through pointers, return each kind of value, call recursively, and shadow names
in nested blocks.  Four classes of calls are left out (section 6).

*Peephole.*  Two statements in a row let a rule see the end of one and the start
of the other.  `SameOutcome` compares memory and S after each pass;
`PortAccessesKept` says that the accesses to a device register stay, for
statements that use each value they read from one (section 6 has the other);
`BranchTargetsKept` and `ShortBranchesReach` are what the assembler requires;
`Settled` says that no rule applies when the loop ends, and `Terminates` bounds
the number of passes by that of the rewritings that the code leaves room for: one
for an instruction, two for a long branch or a word that is loaded, three for a
zero that is loaded.  Bytes of three bits keep carries and signs, with
64 bytes of memory: the frame pointer is at 56, the stack below 32, the port at
60.  `ShortRange` replaces the 28 instructions of `shortenBranch()` in proportion
to the length of the statements.

*Cpu.*  `InterruptsUnseen`: a program that is interrupted once or twice, at any
point, leaves what it leaves undisturbed.  `ArithmeticAgrees`: the results and
flags of the simulator, which computes carries from bits, are those of the
numbers, but for the exceptions of section 6.  `SectorsMoved`: a request moves
the sector that it names, between the image and memory, and nothing else, when
its variables are valid and a diskette is there; one that fails part way changes
no other sector of the image, and no memory.

## 4 Fairness

`DiskReader`: `WF_vars(ReadRound)`.  The loop of `read()` is sequential code of
a machine without threads: once called it runs.  No fairness is assumed of the
calls, nor of the medium.

`StatementCode`: `WF_vars(Next)`: emission is sequential code, and a called
function runs.  The choices in `Test` and `Select` are not fair: a condition may
be true for ever.  `KeepsUp` is therefore about silent steps only.

The other specifications state no fairness: their properties are safety.  That
the passes of the optimizer end is stated as a bound on their number.

## 5 What is proved

`DecbTablesProofs` proves of `DecbGeometry` that the three computations of the
place of a sector agree for all 68 granules and 9 sectors (`SectorsAgree`), that
no file sector is on the directory track and that `dskcon()` accepts each
(`SectorsAccepted`), and that granules do not overlap and lie in the image
(`GranulesApart`).  No assumption is needed: the numbers are those of the code.

`CoCoDiskProofs` proves, for every number and size of granules, every directory
size, every set of names and of files, every property that the runs
`disk_tables`, `disk_contents` and `disk_crash` check but `RefusedOnlyWhenFull`;
`DiskReaderProofs` `HaltsExplained`, `PositionAgrees` and `ReadsFile` of `reader`
for every set of files that the tool may lay out and every order of the calls,
`SwitchDispatchProofs` all of `switch` for every width of a byte and every list
of cases, `FrameLayoutProofs` those of frames for every tree of scopes,
`PeepholeProofs` three of the optimizer at -O1 for every program, and
`StatementCodeProofs`, with the lemmas of `StatementLayout`, all three safety
properties of the code of statements for every function.

| Theorem | States | |
|---|---|---|
| `TypeCorrect` | `TypeOK` | `CoCoDiskProofs` |
| `DirectoryContiguous` | `NoEntryPastEnd` | |
| `NamesUnique` | `OneEntryPerName` | |
| `FilesDisjoint` | `NoCrossLinks` | |
| `NothingLost` | `NoLostGranules` | |
| `ChainsAreSound` | `ChainsEnd` | |
| `OthersUntouched` | `OnlyOneFileTouched` | |
| `WalksAreSound` | `WalkVisitsChain` | |
| `ListingIsRight` | `ListingAgrees` | |
| `StoreImplemented` | `StoreSpec`: the tool implements `FileStore` | |
| `TornApartAlways` | `TornFilesApart` | |
| `TornTouchesOne` | `TornOneFileTouched` | |
| `SoundUntilTorn` | chains are sound until a commit fails or is interrupted | |
| `TornDecodable` | `CrashTypeOK` | |
| `HaltsAtFullEnd` | `HaltsExplained` | `DiskReaderProofs` |
| `LengthIsRight` | a file opened with the table of its own diskette has the length that was stored | |
| `PositionIsRight` | `PositionAgrees` | |
| `FileIsRead` | `ReadsFile`: the library implements `ReadOnlyFile` | |
| `EveryValueFindsItsCase` | `DispatchesByValue` | `SwitchDispatchProofs` |
| `StopsOnlyBelowZero` | `StopsBelowZero` | |
| `ShorterFormTaken` | `TakesLessMemory` | |
| `VariablesApart` | `LiveVariablesApart` | `FrameLayoutProofs` |
| `LinkageUntouched` | `LinkageKept` | |
| `LabelsAreKept` | `BranchTargetsKept` | `PeepholeProofs` |
| `NothingLeftToDo` | `Settled` | |
| `PassesEnd` | `Terminates` | |
| `EmissionAccounted` | `EmitInv`: the text emitted so far, and what is left to emit, is that of the nodes in order | `StatementCodeProofs` |
| `ErrorsAreReported` | `ErrorsReported` | |
| `LabelsAreDefined` | `LabelsDefined` | |
| `RunInStep` | `RunInv`: the code that runs and the source are in step | |
| `BehaviourIsSame` | `SameBehaviour` | |

### Assumptions

Of the diskette: granule numbers are below the marks of the table ($C0), a
granule has one to nine sectors, a sector at least one byte, names and files are
what the tool accepts.

Of the reader: `LayoutsAssumption` says that a layout is what the tool writes, a
file of so many bytes in as many distinct granules as it needs; the theorems on
the tool say that it is.  Nothing is assumed of the application.

Of the switch: `~ Warned` leaves out the programs with a case that the type of the
expression does not hold, which the compiler warns of; it does not compare such
cases with the others, and `DispatchesByValue` is false of them (section 6).
Nothing is assumed of the cases otherwise.

Of the frames: the scope around another has a smaller number, `Around` is what
`Parent` makes it, a parameter is declared in the scope of a function.  The
properties say nothing once a displacement or a size has not fitted 16 bits
(`wrapped`), which the compiler does not notice (section 6).

Of the statements: `ProgramAssumption`, the shape of a syntax tree and of a
function (`IsTree`, `IsFunction`): the nodes below a node are those up to its last
one, each kind has its parts, a case is in a switch, a `goto` has its label.  The
grammar and the checks before the code generator guarantee it.

Of the optimizer: the text that it is given assembles (`ProgramsAssumption`): the
label of each branch is in it.  The theorems are about `Spec`, -O1; the run goes
on with -O2.

### Arguments

*Tables.*  That chains do not meet is not inductive: nothing in it says where
they start, so a kill could free a granule that another file goes on from.
`TablesInv` adds what the code maintains: the first granules of the files are
allocated, distinct and linked to by no granule; a link leads to an allocated
granule; no two granules have one successor; every allocated granule is in the
chain of a file, and every such chain has a last mark.  From it, `ChainsApart`
shows that two chains are disjoint: the set of granules of one that are not in
the other is closed under succession, since a granule of both has a single
predecessor.  A chain is defined as the least closed set, so that each such
argument is the choice of a set rather than an induction.  `KillKeepsTables` and
`AddKeepsTables` show that `killFile()` and `addFile()` keep the invariant; a
`WriteFile` is one after the other.

*Walks.*  The loop that follows a chain is a recursive function of the number of
rounds.  `RoundsExist` shows that such a function is there: the set of the
numbers up to which one exists contains zero and each successor
(`IntervalInduction`).  `RoundIsPath` shows in the same way that after n rounds
the walk has listed the first n granules of the path that `addFile()` linked,
and `WalkIsWhole` that it stops after the last.

*Contents.*  `DiskInv` is `TablesInv` and `MarksFit`: the last mark of a chain
and the bytes in the last sector are those of a file of the length that was
stored.  `WrittenRead` shows that a file just added is read back byte for byte,
`SparedRead` that every other one is read as before, since no granule of its
chain changed.  `StoreImplemented` follows action by action.

*Failed commits.*  A prefix of the parts is a set of parts: `InvocationIsStep`
shows that a commit that fails is one of the interruptions below, so that
`CrashSpec` allows what `Spec` does (`SpecIsCrashSpec`) and one invariant serves
both.

*Crash.*  A torn table satisfies nothing of `TablesInv`: its chains may branch,
be cut or run in circles.  But the granules are divided: those that the files of
other names own have the same entry in the old and in the new table, and the set
of all the rest (`Rest`) is closed under both tables, hence under any mixture of
them.  So a chain that starts in the rest stays there.

*Reader.*  None of the properties is inductive: nothing in them says that
`curGran` is a granule of the file.  `ReaderInv` says where a descriptor is, as
far as `amiss` lets it (`Truthful`): all of it when nothing is amiss; only what
`openfile()` wrote when the last move went wrong; only the types of the fields
when the file was opened with the table of another diskette.  A
*place* is a sector of the file, by the rank of its granule and its number in
it.  Either no sector is in memory (`Waiting`) and the place to be loaded next
starts the right number of bytes before the offset, or one is (`Holds`) and the
descriptor names the place after it, or the end.  After a seek to a full end, what
is in memory still has a byte to offer or is nothing (`Offered`), which keeps the
assertion of `getCurrentlyAvailableBytes()` true.  `PlaceOf` shows that each
offset has a place, `FollowFinds` that `seek()` finds its granule by following
the table, `NextSectorIs` what each outcome of `getNextSector()` leaves.  There
is one lemma per call.  Refinement: a read delivers bytes in rounds, and each
round is a step of `ReadOnlyFile`.

*Switch.*  `CaseInv` says what the collection of the cases has made sure of when
no error was reported: the cases are distinct and are values of the expression
(`GoodCases`), so that two of them differ in their low byte (`LowByteOnce`), and
that what was emitted is what `Mode` chose for them.  `LoopIsRight` is the
invariant of the loop that writes the table: after n entries those of the first
n values are right, and the cases not yet used are the ones of greater values;
as long as the last value is ahead there is one, which is what the code asserts.
`LimitsAre` shows what the limits are, with the default's zero among them:
the first and the last case, but zero below cases that are all above it, and zero
above cases that are all below it, where the loop runs out of cases.
`TableIsRight` shows the entries from these limits, and `TableDispatch` that the
index finds them, since no table that the address space holds is long enough for
the doubled index to wrap.  `CostsAre`, `TestsTake` and `AllCounted` compare the
estimates with what is written: `Uncounted` is the difference.

*Frames.*  Neither property is inductive: nothing in them says where a block
starts.  `FrameInv` adds that the variables of a block lie between its bottom and
that of the block around it, which is below the bottom of each one further out.

*Optimizer.*  `Assembles` says that a branch has its label, which is what
`LabelIndex()` searches.  Seventeen of the eighteen rules are patches: they leave
labels alone and give no branch a target that none had (`Patched`), which
composes (`PatchAgain`) and keeps `Assembles` (`PatchAssembles`); there is one
lemma per rule.  `clearD()` inserts an element, which moves all the others
(`InsertIs`).  For `Settled` the invariant adds what holds in the middle of a
pass: until something is rewritten, no rule applies to an element already passed.
For `Terminates` each instruction has a `Rank`, the rewritings that it leaves room
for.  A rule raises no rank and lowers at least one (`Lowered`), except that
`clearD()` makes two instructions of rank one from one of rank three
(`SplitLeavesFewer`); the passes that were begun and the ranks that are left add
up to no more than the ranks of the code that was given.  The number of
instructions is no such bound: `LDD #0`, `LDD ,X` takes four passes.

*Statements.*  Neither property is inductive: nothing in them says which part of
the text belongs to which statement.  `EmitInv` is that there is an *account* of
the text, the emitted one and the work left in one sequence (`Describes`): which
nodes are done and which wait, and for each node the item that called for it, the
place of each of its parts, and the labels and the stack with which it began.  It
relates each node to its parent only: the text of a node that is done is laid out
at its places, its labels are a range of its own, and the stack of a node is that
of its parent, with the labels of the parent on top when that is a loop or a
switch.  `ItemGood` shows, kind by kind, what the text of a node holds: each child
once, each label once, no target but its own labels and those it was given.
`Expand` shows that the account survives an expansion: all later places move by
the same amount.  From it, `LabelOwner` and `OwnersAgree` show that a label that
is emitted has one owner, since the ranges of two nodes are apart or nested;
`StackOf` that the top of the stack is the pair of the innermost loop or switch;
`TargetDefined` and `StrandedUndefined` give both directions of `LabelsDefined`.

*Running code.*  `SameBehaviour` is a simulation between the code, which runs
from an instruction to an observable one, and the source, which `SourceWalk` walks
from node to node.  When the text is whole and its jumps have their targets, its
account is `Final`.  A *spot* is a place in the text with the outcome of the last
test; `Leads` says that the code gets from one to another without anything that is
observed, as the least closed set of spots, so that no lemma is an induction over
steps.  `Spot` gives the place in the text where the walker stands: where the text
of its node begins, or where that of a child has ended.  There is no such place
for a branch that a constant condition removed; `Live` says that the walker never
stands in one, unless a `goto` leads there (section 6), for which the text is not
`Final`.  One lemma per kind of node (`DoCode`, `SwitchCode`, `ForCode`, ...)
says where its code leads; `WalkArrives` puts them together: the spot of the
walker leads to that of its next place.  Code and walker go on by turns, so either
may be ahead, and `RunInv` says that the spot of one leads to that of the other
(`Meets`).  An observable instruction leads nowhere: when both have come to one,
it is the same (`InStepMeeting`).  So code and source perform the same events, ask
the same tests, select on the same values and stop together.

### Only model-checked

- Liveness under fairness (`ReadReturns`, `KeepsUp`), out of the prover's reach.
- Whatever rests on an operator declared `RECURSIVE`: the expressions
  (`ComputesMeaning`, `StackBalanced`, `NothingBelowStack`), the calls
  (`ProgramMeans`, `ReturnsToCaller`), the simulator (`InterruptsUnseen`,
  `ArithmeticAgrees`, `SectorsMoved`), and the optimizer at -O2 (`SameOutcome`,
  `PortAccessesKept`).
- `ShortBranchesReach`: `shortenBranch()` counts instructions, not bytes, and so
  cannot be right for every text (28 instructions of five bytes are more than a
  short branch spans).  The run shows it of the code that the compiler generates.
- `RefusedOnlyWhenFull`, which counts granules over all files, and `SeekToEnd`.
- `DispatchesByValue` of the cases that the compiler warns of is false.

## 6 Findings

Two have a run that ends in a counterexample, to a comment of the code:

1. *`expressions_divisor`.*  `c /= n` with a byte `c`: loading the dividend
   overwrites A, the high byte of the divisor, where the comment promises not to
   touch D.
2. *`dskcon_status`.*  The simulator's controller sets `DCSTA` to $80 and never
   clears it: `dskcon()` reports a failure after each transfer.

The others were seen while modelling.  Those of expressions and calls, and the
cases that the compiler warns of, are excluded from a run by a named predicate or
constant, which shows where they bite.  Those of the switch and of the disk library are
in the runs, and the properties named below say exactly when they occur.

*Expressions* (`ExpressionMachine`): `MasksByteWithWord` (a byte variable and a
constant of a word), `LosesDivisor` (above), `KeepsByte` (`||` of bytes is their
last value), `MixesSigns` (a byte compared with one of the other sign),
`TakesByteUnextended` (a constant cast to `char`, operand of a word), `Unscaled`
and `MultipliesPointer` (pointers to neither bytes nor words), `StoresElsewhere`
(a store through a cast pointer plus a constant), `StoresAnywhere` (a byte
shifted in place by eight or more), `TimesTenByte`, `ShortensConstant` (`?:`).

*Calls* (`CallMachine`): `PassesFirstParamOnStack` (a call through a variable to a
function that takes it in a register, `FunctionCallExpr.cpp:563`),
`LeavesArgument` (a long through a pointer is not converted, `:613`),
`SkipsElements` (what follows an incomplete inner list is stored at the wrong
place), `SeesLaterVariable` (`int a = b, b = 2;` uses the inner `b`,
`ScopeCreator.cpp:89`).  An array of 65536 bytes gets none
(`Declaration.cpp:123`); a frame over 32767 bytes wraps (`Scope.cpp:125`).

*Optimizer*: `w1 & w2;`, whose value is unused, ends in `ANDB ,S+`, which is
removed as dead since `InsEffects` does not list S (`ASMText.cpp:2344`).  At -O2
`((struct S *) 0xFF20)->b` becomes a store to `$00` (`ASMText.cpp:2041`), and a
read of a port after a write to it, through a pointer variable, is dropped.  At
-O1 `*port;`, a read for its effect alone, is dropped when the register is loaded
again next (`stripConsecutiveLoadsToSameReg()`, `ASMText.cpp:875`): no statement
of the run discards what it reads, and with one that does `PortAccessesKept` is
violated.

*Switch*: the default is a case of value 0 for the limits of the table
(`SwitchStmt.cpp:222`).  With negative cases only, the compiler stops on an
assertion (`SwitchStmt.cpp:399`), which `StopsBelowZero` states; with positive
ones only, such as 1000 to 1003, the table starts at 0, and cases that span all of
a word make the count of entries wrap to zero (`:447`), which `TakesLessMemory`
states (`Uncounted`).  A table of more than 32768 entries, which takes all of the
address space, is written all the same and would be read at the wrong place
(`InMemory`).  A negative case matches an unsigned byte by its low byte, after a
warning (`Warned`).

*Statements*: `continue` in `do .. while (0)` jumps to a label that is not
emitted (`WhileStmt.cpp:93`).

*Image tool* (`CoCoDisk`): `--newlines` drops a last line that has no line feed
(`NewlinesKeepText`); `--kill LONGNAME99.BIN` kills `LONGNAME.BIN`, though that
name cannot be stored (`KillsDesignatedFile`).

*Disk library* (`DiskReader`): `seek()` to the end of a file of a
multiple of 2304 bytes fails an assertion (`disk.c:286`), where `disk.h:130`
promises 0 or -1 (`HaltsExplained`, `SeekToEnd`), and after one to the end of
another full sector a read delivers bytes that are not the file's (`SeekToEnd`);
`setDefaultDriveNo()` does not reset `fatUpToDate`, so that the next `openfile()`
uses the directory of one drive with the table of another (`disk.c:624`); a table
that cannot be read again in the middle of a file leaves the descriptor half
updated (`disk.c:384`): `ReadsFile` says until when.  `computeFileLength()` reads
outside of the table for an empty file (`disk.c:480`, `HaltsExplained`).

*Simulator* (`Usim`): V after a subtraction of $80 (of a byte) or $8000 (a
comparison of words), `NEG` of zero sets C, `DAA` drops the carry; an interrupt
does not set I, so that handlers nest; E stays set; the memory is cleared with
the arguments of `memset()` swapped (`mc6809.cc:20`).

## 7 Left out

`PROJECT.json` names each part that has no model, with the reason.  The main
reasons: the parser and the boot loader are generated or are fixed data; the
console, graphics, sound and floating-point routines write to hardware or call
the ROM, which is not in the repository; type descriptors are tables that are
filled once.  Within the modelled parts, messages, listings, comments of the
assembly, the syntax of options, the console and the loaders of the simulator
are left out.  A diskette image is a file on the host: that a write
to it fails late, when the stream is closed, is the interruption of
`CoCoDiskCrash`, and the simulator's `FILE *` is taken to be unbuffered.  Variables
declared `extern` in a function change nothing in its frame and are not listed in
`FrameLayout`; a structure that is not defined has no size there.  The arithmetic
routines of the library are modelled by their results, not by their
instructions; those on longs and real numbers have no model, nor have
expressions that call them.  The number of a label has no bound in
the models; `generateLabel()` keeps its first five digits, so that the theorems on
labels are about units of fewer than 100000 labels.

Constants that bound a model and are not in the code: `MaxCases`
(`SwitchDispatch`), `Fuel` (steps of a run, `PeepholeMeaning`), `StackRoom`
(`ExpressionMachine`), `Requests` and `Targets` (`DiskReader`), `Programs`
(`SourceWalk`, `Peephole`), `Expressions`, `Mains`, `Boots` (what is compiled and
run), `NativeFiles` (`CoCoDisk`), `SectorSize` (`Usim`).

## 8 Plan

Modelled, checked and proved: the image tool, its crashes, the disk library, the
layout of frames, the switch, the code of statements, labels and branches at -O1.
Modelled and checked: the code generator for expressions and calls, the rest of
the optimizer, the simulator.

Next:

1. `TranslationUnit::detectCalledFunctions()` against reachability; `main.cpp`
   over several files; `sbrk()`, `qsort()`, `bsearch()` and the arithmetic
   routines of the library as algorithms.
