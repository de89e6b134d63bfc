# Monkey: models and proofs

Models of the Monkey language implementation (Go): programs are parsed into a
syntax tree, macros are expanded in the tree, a compiler turns it into bytecode
and a stack machine runs the bytecode. A serializer writes bytecode to a file
and a loader reads it back, and a REPL keeps one compiler and one machine across
the lines that a user types. A second engine, a tree-walking evaluator, runs the
macros and serves the benchmark.

Everything here is sequential: one goroutine, no shared memory, no messages. What
is hard is of another kind. Three data structures with their own indices have to
agree (symbol tables, instruction operands, stack slots) across nested functions;
jumps are patched after the fact; failures leave state behind that the next call
finds; the machine trusts the code that it is given, and Go panics where it is
wrong.

## Inventory

| component (source) | state | operations | relies on | hard behaviour | what makes it correct | modelled |
|---|---|---|---|---|---|---|
| lexer, token | position, current character | `NextToken` | – | unterminated strings, escapes, lookahead | tokens spell the text and are as long as they can be; EOF comes | yes |
| parser | two tokens, errors, tables of parse functions | `ParseProgram`, `parseLetStatement`, … | lexer | precedence; nil nodes after an error; blocks without an end | a tree exactly for the programs of the grammar | yes |
| ast, `ast.Modify` | the tree | `Modify` rewrites in place, post-order | – | nodes that are missed, copies that are changed | every node is visited once and replaced | yes (no `String`) |
| macros, quote/unquote (evaluator/) | macro environment | `DefineMacros`, `ExpandMacros`, `quote` | evaluator, Modify | indices of removed statements; order of expansion and error checks | definitions disappear, calls are replaced | yes |
| evaluator | environments, chained | `Eval` | objects, ast | early return, errors as values | the reference meaning of a program | yes |
| objects, builtins (object/) | – | arithmetic, hash keys, seven builtins | – | nil results, Go panics, wrap-around, identity of null and booleans | no nil among the values | yes |
| code | – | `Make`, `ReadOperands` | – | silent truncation of operands | reading gives back what was written | yes (no disassembler) |
| symbol tables (compiler/symbol_table.go) | store, FreeSymbols, numDefinitions, outer | `Define…`, `Resolve` | – | capture through several functions, shadowing, redefinition | a use denotes the innermost binding; slots are not shared | yes |
| compiler | constants, symbol tables, scopes, last two instructions | `Compile`, `Bytecode`, `Reset` | symbol tables, code | back-patching, removed instructions, errors half-way | every path leaves one value; operands exist | yes |
| vm | constants, frames, stack, sp, globals | `New`, `Run`, `Recode` | code, objects | frames on the stack, limits, stale slots, panics | callers' slots stay as they are; the stack is balanced | yes |
| serializer, loader | output or read position | `Write`, `Load` | code, objects | narrow counts, ignored errors, lengths from the file | loading gives back what was written, and nothing else | yes |
| repl | compiler, machine and macro environment across lines | one line | all | what a failed line leaves behind | a failed line does not change what later lines mean | yes |
| main | – | compile, run, script | all | exit codes, files | errors are reported, files are whole | from the contents of a file on |
| benchmark | – | times both engines | all | – | – | no; that they agree is run `engines` |

The components call each other directly and share no state except through what
they return: the parser gives the compiler a tree, the compiler gives the machine
a `Bytecode` (instructions, constants), and the object package gives compiler
and machine one table of builtins, whose order is the operand of `OpGetBuiltin`.

## Modules

| module | models | how |
|---|---|---|
| `Bytecode` | code/code.go | opcodes in iota order, encoding and decoding of instructions as bytes; `Radix` is the number of values of a byte |
| `SymbolTable` | compiler/symbol_table.go | operators on the chain of tables: the sequence replaces the pointers `outer`; the recursion of `Resolve` is written by its effect on each table between the holder of a name and the current table |
| `Scopes` | the compiler's calls into the symbol tables | one action per AST node that touches them; `access` holds the symbols the node's instructions use |
| `LexicalScoping` | the abstract specification of `Scopes` | which function binds which names, and of which name a declaration or use reads which function's binding; no indices, no capture |
| `ScopesProofs` | – | theorems about `Scopes`; it implements `LexicalScoping` |
| `Ast` | ast/ast.go | constructors of nodes; `LetStatement` names the function it binds, as the parser does |
| `Lexer` | lexer/, token/ | `NextToken` as an operator on the lexer's record, over any alphabet; one step is one call of it |
| `Parser` | parser/parser.go | a parse function takes the parser's record and gives a node and the record after it |
| `Grammar` | – | the reference for `Parser`: the tokens of a tree with the fewest parentheses |
| `Tree` | the tree in memory | nodes refer to each other by their positions in a sequence, so that changes in place and shared nodes are what they are in Go |
| `EvaluatorState`, `Evaluator` | evaluator/, ast/modify.go, object's `Environment` | `Eval`, `Modify`, quote and macro calls, which call each other, as one family of recursive operators on nodes, objects and environments |
| `Macros` | evaluator/macro_expansion.go | `DefineMacros` and `ExpandMacros` on a program in memory |
| `Script` | main.go, `loadScript` | one action per stage: parse, define, expand, report, compile |
| `Objects` | object/, the operations of vm.go on values | a heap of immutable records; an operation comes to an outcome: a reference, a new object, an error, a panic |
| `Emitter` | compiler/compiler.go but for `Compile` | the record of the compiler's fields and what changes it: emission, patches, the last two instructions, scopes; and the parts of `Compile` that are not recursive |
| `Compiler` | compiler/compiler.go, `Compile` | a recursive operator on the tree and the compiler; every instruction, byte offset and patch is computed |
| `Compiling` | the same `Compile`, call by call | a state machine: the stack of open calls is a list of tasks, one list for each open scope; a step is the entry into one call, or what a call does when those it made have returned |
| `VM` | vm/vm.go | a state machine: one step is one turn of `Run`'s loop with the whole case of its opcode |
| `Limits` | vm/vm.go, the sizes of its arrays | constants that the machine and the check of its code share |
| `Certificate` | what vm.go takes for granted of its code | a check of the code alone |
| `Verifier` | – | the machine on certified code: what such code keeps true of it |
| `SymbolTableProofs` | – | lemmas about `SymbolTable`, for the two modules that use it |
| `CompilingProofs` | – | theorems about `Compiling`: compiled code is certified |
| `VMProofs` | – | theorems about `VM` and any code |
| `VerifierProofs` | – | theorems about `VM` and certified code |
| `ByteFileProofs` | – | theorems about `Serializer` and `ByteFile` |
| `LexerProofs` | – | theorems about `Lexer` and any text |
| `Numbers` | – | lemmas of several: non-empty sets of positions have a least and a greatest element; loops that count come to values |
| `Repl` | repl/repl.go, `Compiler.Reset`, `VM.Recode` | a line is an action, of the parser, macros and compiler at once; the machine of `VM` then runs step by step |
| `Serializer` | serializer/ | `Write` and `Load` on sequences of bytes |
| `ByteFile` | main.go, `compileScript` and `runBytecode` up to the machine | write, damage, load |
| `FileRun` | main.go, the whole of `runBytecode` | `ByteFile` and an instance of `VM`: what was loaded is run |
| `Families` | – | the families of small programs that runs take their sources from |
| `Meanings` | – | what a program comes to, without references, so that two engines can be compared |
| `MC…` | – | instances: constants, families of programs, texts and lines, and the properties that need a reference |

Compositions: `MCScript` joins `Compiler` and `VM` the way `runScript` (main.go:202) does:
every program of a family is compiled by `Compile`, and the bytecode of those
that compile is an initial state of the machine. `MCEngines` adds `Evaluator` to that,
`Script` joins `Parser`, `Macros` and `Compiler`, `Repl` joins all of them with `VM`, and
`FileRun` joins the files with `VM`.

`Compile` is there twice. The recursive operator is what the compositions need, and no
prover can reason about it. `Compiling` is the same function with Go's stack made explicit, and
that `MCCompiling` ends where the operator does is checked (`StepsAgree`). Both take everything that is
not recursive from `Emitter`.

### Correspondence in the VM

`frames`, `stack`, `sp`, `globals` and `constants` are the fields of the same
names (`frameIdx` is `Len(frames) - 1`); `heap` stands for Go's memory of objects,
so that pointers can be compared as `==` of the VM does; `status` says how `Run`
ended. `Executes(ops)` is the loop's condition, the fetch and the absence of a
panic; `Crash` is the complement: an index or a slice out of range. `MoveIp` is a turn of the
loop that only moves `ip`: OpJump, or a byte without a case, which no compiler emits and certified code does not
reach (`NothingSkipped`); the machine in `FileRun` meets it. Panics inside an
operation (division by zero, a method of nil) come out of `Objects` as the
outcome `Panic`. An error that `Run` returns keeps what the case had done before
it, an advanced `ip` and the operands popped; a panic keeps the state before the instruction,
since nothing reads it afterwards.

Abstracted: the texts of errors; the characters of strings (sequences over a
small alphabet); FNV hashes of strings, taken to be injective; what `puts`
prints. `IntHalf` stands for 2^63 and is 128 in the runs, so that wrap-around
happens. Go's stack of 2097152 slots and its 65536 frames are
`StackSize` and `MaxFrames`.

## Runs

| run | question | bounds and why they are enough |
|---|---|---|
| `scopes` | Do the symbol tables implement lexical scoping, and do captures and slots stay consistent, whatever the order of definitions, uses and nested functions? | a variable and a builtin (which may be shadowed), four tables: the smallest chain in which a function's local is captured through a function that does not use it; two definitions per table: a redefinition. Repeated parameters, fn(a, a), are covered by the proofs only |
| `programs` | Is the code of every program certified (below), and does the machine keep to the certificate? Do programs keep the frame discipline, leave the stack empty, keep nil and second nulls out of the values, and end; and what takes the process down? | three families. *Flow*: functions two deep that capture, shadow, recurse and return early out of conditionals in argument position. *Values*: every pair of 13 operands for every operator, index, hash literal and builtin, and four more operations on the result. *Limits*: eleven shapes of recursion started above 0 to 15 temporaries. Four frames and 16 slots: stack first, frames first, and the stack's end inside the locals of a call. 70,075 states |
| `compiling` | What is true of half-compiled code, between two calls of `Compile`; is what comes out at the end certified, and what `Compile` in one piece gives? | 431 programs: conditionals with blocks that end in every way, one inside another, in functions and outside; functions that capture, shadow and call themselves, three deep; every expression of the flow family, and the limits; `Radix` 31 with 30 and 31 arguments and three globals for two slots, so that every doubt occurs. 16,561 states |
| `lexer` | Is every text read to its end, into tokens that are as long as they can be and leave nothing out? | all texts of up to four characters of eleven kinds: two-character operators, escapes, unterminated strings and NUL in every combination of neighbours; and of five to seven quotes, backslashes and letters, so that an escape can follow another |
| `parser` | Are all tokens of an accepted text used, is every nil in a tree reported, do statements end where they should, and is what a tree is written as parsed back into that tree? | up to three tokens of 18 after each of 16 openings, one for every construct: every construct is cut off, closed wrongly and followed by another one; trees with every node type around every other, three deep, and three operators of different precedences on either side |
| `macros` | What does expansion do to a program, and when does it panic? | up to three statements of ten definitions and five uses, all prefixes of tokens of two, and a definition with a use in which one token is wrong; two definitions and a use are the smallest case in which the indices of removed statements matter, two calls that in which a macro's body has changed. Programs that meet one of the three faults of `macro_expansion` are left out (`IsAffected`), and everything else is plain substitution |
| `engines` | Do the compiler with the machine and the evaluator agree, and do the operands suffice for as many locals, captured values and arguments as a byte counts? | every operation of the values, two calls of every function of the flow family, the repository's sample programs in small; `Radix` 31: one byte counts 31 values, two count 961; 29 and 30 locals, captured values and arguments |
| `sessions` | Does a line of the REPL mean what it would in one program, whatever failed before it? | up to four of nineteen lines: definitions, uses, run-time and compile-time errors, errors inside functions, a macro and its use, a file, a stray return, commands; four are a definition, a failure, and two that find what both have left |
| `byte_file` | Is what was compiled loaded, and nothing else? | constants of every type in pairs; as many constants and locals as a byte counts (32), one fewer and one more; each position cut off or changed, twice; and what is loaded is run, all pairs of thirteen pieces of code that no compiler makes included, cut-off instructions and a byte that is no opcode: the machine has a step for each and keeps its references and frames in order |
| `let_in_block`, `unhashable_key`, `macro_expansion` | Findings, below | one program each |

Deadlock is checked in all of them: a stopped machine stutters in `Stopped`, and so do
the others where a process has ended, so that a deadlock would be a state that no
case of the code covers.

Fairness: `FairSpec` is weak fairness of `Next`. `Run` is the loop of a single goroutine
and every case of it is finite, so it always takes its next step. `Terminates`
holds then without any condition on the program: the language has no loops, jumps
go forward, and a recursion without end runs out of frames or stack.

The programs of the flow family leave a value in every block: the first finding below
shows what happens otherwise. Some of them read a variable that was never written;
`NilComesFromUnsetVariables` and `OnlyKnownPanics` say what comes of that.

### Where the engines differ

`EnginesAgree` holds on programs without the following, which are differences by
design or findings of their own:

- an error of a builtin is a value in the machine, which goes on with it, and ends
  everything in the evaluator (`HoldsError`);
- comparing strings, and `return` outside functions, see the divergences below;
- `return` inside an operand: the machine leaves the function, the evaluator goes on with a
  `ReturnValue` as if it were an operand;
- a variable that is redefined after a closure captured it: the machine captures values, the
  evaluator environments; a global that is used in a function before its `let` does not
  compile; a global defined twice is two variables for the compiler;
- recursion of a function that is a local of another one, and `pop`, which the evaluator
  does not have;
- an unhashable key in a hash literal, the second finding.

### What sessions leave behind

`SessionIsOneProgram` speaks of sessions in which no name is defined twice and no
failed line was to define one (nothing else leaves a name without a value, `GlobalsAreSet`),
and in which no error inside a function literal has left its scope open. Frames that an error leaves are never dropped: later lines run above them
(`LeftFramesRest`), so that about a thousand errors inside calls of 60 frames use them up.
A line without statements, and one that fails, write whatever lies at the end of the stack.

### Findings and other divergences

Three runs each show the violation of a property that a text of the repository states:

- `let_in_block`: a conditional whose block is empty or ends in `let` leaves no value
  (compiler.go:182), though its statement pops one: the machine then takes a
  local of the function for a temporary, or pops from an empty stack and panics.
  perm.monkey:22 has such a conditional.
- `unhashable_key`: the error for an unhashable key in a hash literal (vm.go:418) calls
  `Type` of the nil that the failed assertion left, and panics.
- `macro_expansion`: expanding a macro call is to put its arguments into what the macro quotes
  (`ExpansionIsSubstitution`). In the program of the run it goes wrong in three ways: the first
  call rewrites the macro's own body, so that every later call becomes the tree of
  the first (quote_unquote.go:16); a key or a value of a hash literal is expanded into a copy
  of the pair that is dropped (modify.go:64); and `unquote(true)` becomes a node with the value
  false (quote_unquote.go:51). The tests expect otherwise (macro_expansion_test.go:87-91,
  modify_test.go:143-147, quote_unquote_test.go:77-78) and pass, as they call each macro once,
  change the pair's nodes in place and compare what is printed. All other programs of `macros`
  expand by substitution (`OtherExpansionIsSubstitution`).

What else the code does otherwise than its tests and messages say is part of the models,
so that the properties state it as it is:

- a macro definition at the start of a program stays in it if there is another one
  (macro_expansion.go:25; `Staying` in `OnlyDefinitionsGo`);
- `let =` as a script panics in `DefineMacros` (main.go:180), and `[;]` in `ExpandMacros`, before
  the parser's errors are reported: `OnlyTheseTextsPanic` says of which texts this is true;
- `pushFrame` (vm.go:69) has no limit, while `push` reports "stack overflow": with 32 slots per
  frame on average, most recursions without end panic (`FrameAvailable` in `KnownPanic`);
- a file that ends in its header or checksum panics in the loader (loader.go:133, 139):
  `OnlyShortFilesPanic`;
- `compileScript` ignores the error of `Write` for too many constants and leaves a file without
  payload (main.go:147), and 256 locals are written as none (serializer.go:110): the conditions
  `ConstantsFit` and `LocalsFit` of `WholeFilesLoad`;
- an empty line (repl.go:33) and `:load` without a blank (repl.go:43) panic, and so does the answer to a stack
  overflow, which reads the stack beyond its end (repl.go:92): `CannotBeRead` and
  `CanBeWritten` in `Repl`;
- a compile error inside a function literal leaves the compiler in that function's scope
  (compiler.go:277) for all later lines: `spoilt` in `SessionIsOneProgram`;
- strings are compared as pointers by the machine (vm.go:475) and as texts by the evaluator, and
  `return` outside functions panics in the machine (vm.go:292) and ends the evaluator's
  program: programs that `EnginesAgree` is not asked about.

## Proofs

### ScopesProofs

For every set of names, list of builtins and bound: `Spec => []TypeOK`,
`CapturesAreFaithful`, `SlotsExist`, `SlotsAreNotShared` and
`AccessIsAddressable`. None but the first is inductive alone. The inductive
invariant `Inv` is their conjunction, stated for a chain of tables
(`ChainOK`) so that lemmas can follow a chain through `Resolve`, `Define`, function
entry and exit one after the other:

- *capture* (`ResolveKeepsChain`): the tables between the holder of a name and
  the current one did not have the name (`HolderIsInnermost`, which rests on
  `Greatest` and so on the well-foundedness of `<`). If one of them had captured it before,
  faithfulness would make the table outside it have it. So no captured symbol
  changes its meaning, and each new one is what the next table outside now holds;
- *definition* (`DefineKeepsChain`): the new index is the count of definitions,
  which `SlotsExist` puts above all others, so it is not shared; the table is the
  innermost one, so nothing captured the symbol it may replace;
- *leaving* (`CapturesAreAddressable`): the captured symbols that are loaded are, by
  faithfulness, symbols of the enclosing table, and `SlotsExist` of that table says
  they can be addressed there.

The only assumption is `NamesAssumption`.

### VMProofs

For every set of programs, every width of integers and all sizes of stack,
globals and frames: `Spec => []TypeOK` and `Spec => []SingletonsAreShared`. The
programs are arbitrary bytes and constants, not only what the compiler emits, so
this is about the checks that Go makes at run time: they are enough to keep every
reference valid and every frame within bounds, and not, of course, to keep a
program from crashing.

Neither is inductive alone: a builtin's index and the shared `Null`, `True` and
`False` are references that exist only because the ten shared objects stay at the
start of the heap, which is the third conjunct of `Inv`. The argument goes by
layers:

- an object that is put on the heap may refer to what is there (`Addable`), and then
  the grown heap is in order (`HeapGrows`) and so is everything that
  was above the old one (`FramesLater`, `SlotsLater`);
- every operation comes to a reference that exists, an addable object, an
  error or a panic (`OutcomeOK`; `BinaryResult`, `HashResult`, `BuiltinResult`, …);
- the machine delivers such an outcome in order (`Delivered`), and the operands an
  instruction takes are there (`Fetched`, `OneOrTwoRead`, `Taken`), so that each
  case of `Run` is one application of both.

That the bottom frame alone has base pointer 0 is what makes a return at top level a
panic and not a machine without frames (`FrameDropped`). The assumptions are
`RadixAssumption`, `IntHalfAssumption`, `SizesAssumption` and `ProgramsAssumption`.

### Scopes and LexicalScoping

`Spec => UsesFollowLexicalScoping`: `Scopes` implements `LexicalScoping` under the
refinement mapping that forgets indices and captures (`Bound`: the names that each
open function binds, and the name and the binding that a declaration or a use is about: the symbol's slot in the table
that holds it, and the name that this slot belongs to there). `Init` and `[Next]_vars` map to their
counterparts:

- entering and leaving a function, defining a name and giving a function its own name change
  what is bound as in the abstract specification. A capture changes nothing there
  (`ResolveBindsNothing`): the new entries of the tables in between are of scope FREE, and what
  is bound are the other ones;
- a use of a name reads the innermost binding of that name (`ResolvedBinding`): the operand of
  a captured symbol is followed, from the captured values of one table to those of the next, to the
  table where it is not a capture (`Origins`), which by `CapturesFaithful` is where the name was
  found; and the slot that is read there is that name's and no other's (`OwnSlot`).

The second case uses the invariant above: an entry FREE whose index does not
exist, or that captures another name, would be read from somewhere else.

### VerifierProofs

On arbitrary code the machine keeps its types and no more: `byte_file` runs code that
pops its locals or returns into them. So the other properties
have a hypothesis, and it is one about the code alone. `CodeIsCertified`
(`Verifier`, `Certificate`) is a check as a bytecode verifier does it: one pass over the code of
every function assigns a stack depth to each offset that control reaches, the same on all
paths (`Balanced`); every instruction there is whole, has its operands above the floor
of its frame and addresses a local, constant, builtin or captured value that exists (`Addresses`).
A function ends in a return; the program may run off its end, with depth 0.

The division of labour is then: certified code is the compiler's duty, and `CompilingProofs`
shows that the compiler does it. What the machine makes of certified code is
proved for all code, all sizes and all widths: under `Spec /\ CodeIsCertified` (a condition on
the first state only),

| theorem | property of `programs` |
|---|---|
| `RunsStayCertified` | `RunsCertified` |
| `OperandsAreOwn` | `TemporariesAboveLocals` |
| `FramesLieAboveCallers` | `FrameLayout` |
| `CallersAreFrozen` | `CallersFrozen` |
| `HaltsClean` | `CleanHalt` |
| `Executable` | `CodeIsExecutable` |
| `PanicsAreKnown` | `OnlyKnownPanics` |
| `NilIsUnsetVariables` | `NilComesFromUnsetVariables` |

`CertifiedBytecodeRuns` brings the two together. `New` allocates the constants behind the shared
objects, and the certificate of a `Bytecode` speaks of their positions among the constants; what is certified
there is certified in the heap of the machine (`CodeInHeap`, `CertifiedStart`). So a machine whose programs are
certified bytecode needs no hypothesis on its first state, and `CompiledIsCertified` says of which
programs the bytecode is. That the two specifications meet, in that what `Compiling` returns is what a
machine of `VM` starts on, is the value of a constant, and read off from runScript (main.go:202), not proved.

The hypothesis is not idle: run `let_in_block` is a program whose code is not certified, and
which breaks `TemporariesAboveLocals`.

The inductive invariant is `CertifiedInv`: the invariant of `VMProofs`, `RunsCertified` and
`OnlyKnownPanics`. `RunsCertified` says where every frame is:

- the current one is at an offset that control reaches, and sp is its floor plus the depth there
  (`Proceeds`). For a step within a function this is `Balanced` (`StaysInFrame`);
- every other one waits behind an `OpCall` of as many arguments as the callee has parameters,
  and the callee's base is its own floor plus its depth (`Waits`). So a return, which sets sp
  from the base of the frame it drops, brings the caller to the depth behind its call;
- every closure is of a function among the constants and has as many captured values as its code reads
  (`ClosuresAreCertified`). Closures are made by `OpClosure` alone, whose operand the certificate compares
  with the code;
- all but one: the program's own closure has no constant behind it. No instruction can get
  hold of it (`MainIsPrivate`), since it is on the stack and in the heap nowhere and certified
  program code has no `OpCurrentClosure`. If it could be called, the program would run in a frame that
  is not the bottom one, and off its end.

None of the properties is inductive alone. `TemporariesAboveLocals` needs the depths,
after a return those of the frame below, and these are worth something only if sp was not moved
by a callee. `CallersFrozen` needs that `OpSetLocal` has an operand below
the number of locals, so it needs the invariant, too. `NilComesFromUnsetVariables` is about the
temporaries of all frames: a step that is no load of a variable leaves them without nil
(`TemporariesFilled`, `NoNilDelivered`, `NoNilMoved`, `NoNilCalled`, `NoNilReturned`),
the slots of locals, in which nil may lie, are not among them, and a builtin's nil is
replaced before it is pushed.

A call reserves its locals without comparing sp with the stack's end (vm.go:353). So sp can be above
it while the depth is 0, and `Proceeds` says so. What happens then was worth a
second look; two properties were stronger than the code, and had to be corrected:

- `CodeIsExecutable` said that a local always exists when it is read. At the stack's end
  `OpGetLocal` of a local in the slots beyond it panics (vm.go:260, before the stack overflow
  could be reported): TLC finds it with a function of `let b = b`, now among the *limits* of `programs`;
- `KnownPanic` allowed a panic for any slot beyond the end and did not know that `puts` panics on an
  array or hash that holds nil. The first was more than happens and is left out (`sp > StackSize`
  says it), the second is added.

### CompilingProofs

For all programs over all sets of nodes whose children are nodes (`TreesAssumption`: what the parser
makes, any depth, nodes without a case included), every width of bytes and every size of the machine:
`Spec => []CodeSoFar` and `Spec => []CompilesCertified`. The second is what the machine needs, that every path
through every function keeps one depth of the stack, that jumps lead to instructions, that
operands exist. It says nothing of half-compiled code; the inductive invariant has to, and is `CodeSoFar`
with the shape of the compiler's data (`Good`). For each open scope it has

- the code (`CodeOK`): the instructions lie end to end, and each finds the values it takes.
  Control leads from each to an instruction that expects what it leaves, except from the jumps that are
  pending: those whose patch is among the tasks. Each jump is the business of one task;
- what instructions address (`Exists`), in terms of the compiler: a local has an index
  below `numDefinitions` of its table, a captured value is in `FreeSymbols`, a function constant captures
  no more than its closure is made of. These only grow while a scope is open (`Grows`), so what existed
  still does, and when the scope is left they are the numbers in the constant;
- the tasks (`TasksOK`, `Scheduled`): each starts at the depth that the one before it leaves, the first
  one at the depth that the code has reached, and the last comes to 0;
- the last instruction (`LastOK`). `removeLastInstruction` and the return that replaces the last OpPop look at
  `lastInstruction` alone. When a block or a body ends, that is the last instruction of the
  block, and no jump that is patched leads behind it, or else it is neither OpPop nor a return.
  `previousInstruction` is stale after a removal: it matters that no OpPop follows an OpPop.

There is a lemma for each thing that happens to code: an instruction is emitted (`EmitCode`), removed
(`CutCode`), replaced by a return (`ReturnCode`), a jump is patched (`PatchCode`). Then there is one for each
action: `FunctionStep` and `FinishStep` are the two that change the number of open scopes. When code is
complete, the code so far is right and the one pass of `Depths` agrees with it (`DepthsLaw`, `CodeIsBalanced`),
since all jumps go forward; `FunctionIsCertified` and `ProgramIsCertified` say so of a function and of the whole.

`depth`, `at` and `to` are auxiliary variables: no guard reads them, so they restrict nothing. So are
`doubts`, which record what `Compile` does without a check and the machine relies on; the
theorems speak of compilations without any:

- *operand*: an operand did not fit into its bytes (more than 255 locals, captured values or arguments, a jump or
  an index of a constant beyond 65535), and `Make` cuts it off silently;
- *global*: more globals than the machine has slots;
- *block*: the block of a conditional ended neither in an expression nor in a return: the first finding;
- *node*: a node without a case in `Compile`, for which nothing is emitted.

Nothing else is needed, and none of the four can be left out: `MCCompiling` has programs with each.
So these four are the whole of what the compiler leaves unchecked of what the machine takes for granted.

`OperandsComeBack` is about the encoding that compiler and machine share: wherever an instruction of `Make`
stands in code, `ReadOperands` finds it whole, with its operands modulo what their bytes
count (`AsEncoded`), so with its own exactly if they fit (`Fit`). `Make` checks nothing: an operand that does
not fit is a different one to the machine.

### ByteFileProofs

`RoundTrip` says that `LoadPayload` gives back what `Payload` has written: for all
constants that a compiler makes (`Constants`), all code that 4 bytes count (`Code`),
and fewer constants than a byte has values, whatever the values of `Radix`, `IntHalf` and `IntBytes`
are, as long as the bytes of an int64 count its values (`IntBytesAssumption`). What comes back
of a function are its numbers modulo `Radix` (`AsRead`), which is why `WholeFilesLoad` asks for `LocalsFit`.
The argument goes from the bytes outward:

- a number in big-endian bytes reads back, but for multiples of what they count
  (`BigEndianReadsBack`): after k bytes the reader's value is what the quotients of the
  writer come to. A size loses nothing (`SizesComeBack`), an integer only what wrap-around
  gives back (`IntegersComeBack`), negative ones included;
- a payload `Holds` bytes at a position. A concatenation is held where its first
  part is and then its second (`HeldInTwo`), and a slice takes what is held (`SliceOfHeld`);
- each reader, at a position that holds what its writer wrote, appends the object and stands
  behind the bytes (`ReadsInteger`, `ReadsString`, `ReadsFunction`, `ReadsObject`). A string ends
  right only because no character of it is the zero behind it;
- the loops of both sides are recursive functions. That such a function exists, and what
  holds of all its values, is shown once by the well-foundedness of `<` (`Counting`, `Iterated`):
  the induction theorems of the library take an operator as a parameter, which no prover here can instantiate.

The theorems about files follow for all sets of `Bytecodes` and all numbers of faults. Their inductive
invariant (`Inv`) bounds damage: a file does not get longer, a cell of the header is its own or "#",
one of the checksum is what was written or reserved, one of the payload is a byte. Then
the first cell of a checksum that fits determines the whole file (`AcceptedIsWhole`): it was
not reserved space, since no payload has a byte -1, so it is the checksum of the payload that was
written, and without collisions that is the payload that is there; so no length in a file
that is accepted is anything but what `Write` wrote, and `RoundTrip` says how its reading ends.
The assumptions are those of `Serializer` and `BytecodesAssumption`, which says that
what is compiled is of the types that the compiler gives: the characters of strings are not NUL, and
the parameters of a function are among its locals.

### LexerProofs

For every alphabet whose letters and digits are no other characters of the
language (`AlphabetAssumption`) and all texts over it (`TextsAssumption`): `Spelled` and `Longest`
are the action properties that the run `lexer` checks, and `EndsInTime` its invariant. What the
properties ask is stated without the lexer: `Spelling` writes a token, `IsQuoted` says
which sequences of characters are string literals by the characters that escape their
next one.

- `CHOOSE` in `EndOf` and `StringEnd` finds something because of the NUL behind every
  text, and this the least that fits (`EndOfLaws`, `StringEndLaws`). A loop of
  readString that a NUL does not end would be one that finds nothing;
- `Escaped`, `Str` and `WithEscapes` are recursive functions. `Counting` and
  `Iterated` show that they exist and what they come to (`EscapedLaws`, `StrLaws`, `WithEscapesLaws`);
- what readString has put together, written with escapes again, is the text so far; but for a
  backslash whose character has not come yet (`StringSoFar`, the invariant of its loop);
- of a string literal in the text, the characters that escape are those that readString takes
  for it, so that it stops at the end of the literal and not before (`QuotedEnds`), and what it stops
  at otherwise is not one (`FinishedIsQuoted`). This is where an escaped quote at the end of the text and
  two backslashes before a quote are decided;
- each case of `NextToken` reads what it should (`Reads`; `ReadsString`, `ReadsWord`, `ReadsNumber`,
  `ReadsOperator`, `ReadsEof`), since the first character alone says which kind of lexeme can begin
  there (`LexemeKinds`). A keyword can be spelled from its type as no two have the same (`KeywordTypes`).

The inductive invariant (`Inv`) is needed for two things: the lexer is not
past the NUL when it is asked (only EOF takes it there, and nobody asks after EOF), and each token has moved it
on, so that there are fewer tokens than its position.

### Left to TLC

Termination of the machine (liveness); and what only a recursion on the syntax tree can say
(RECURSIVE operators; induction over data is out of the prover's reach): that the steps of `Compiling`
end where the recursive `Compile` does (`StepsAgree`), that the engines agree, that a session is one program,
and the properties of parser and macros. `CompiledCodeIsCertified` is checked for the recursive
`Compile`; it is proved for the steps.

## Abstractions

- *Lexer*: letters, digits and the characters that begin no token are constants, of which the
  run takes one or two each; the proofs take any.
  NUL, which the lexer takes for the end of a text wherever it stands, is a character.
- *Parser*: names and strings are model values; digits are kept, because of the base
  and the limit of integers (`MaxInt`). An error of the lexer is an ILLEGAL token, since
  that is all the parser makes of it.
- *Tree and evaluator*: tokens are left out, but for the names of identifiers. A callee
  that is the string literal "quote" would be taken for quote by the code and is
  not by the model. `Modify` does not look at the callee and the arguments of calls;
  that is the code's own limit and in the model, too. `Eval` of a macro literal is an
  error; in the text of that error the code panics (evaluator.go:135) when the macro's body holds
  something that did not parse.
- *Machine and objects*: an OpHash with an odd operand does not read the slot above `sp`, and `puts` of a
  function with a byte that is no opcode comes to an end (code.go:92 loops): only a file that no
  compiler wrote has either.
- *Compiler*: the errors for unknown operators (compiler.go:121, 165) are left out, as the parser
  makes none, and so is a nil `*LetStatement`, as the parser's errors are looked at first.
- *Serializer*: SHA-256 is taken to have no collisions: a cell of the checksum is
  what it is the checksum of, with its position. `Radix`, `IntBytes` and `ChecksumSize`
  are 32, 2 and 2 instead of 256, 8 and 32. Slices of a file beyond its length are panics,
  though Go lets them reach into the capacity of the buffer; the checksum lets no file through
  for which that makes a difference. The errors that
  the loader makes of a malformed payload are modelled, though behind a right checksum only
  a malformed `Write` could get there.
- *REPL*: what is printed is abstracted to the kind of answer and the value.

## Not modelled, and the plan

The benchmark (timing), disassembly and `String` methods (formatting), flags, file names
and messages of main.go (I/O), the cases of `writeObj` for constants that no
compiler makes, and `Inspect` of the evaluator's own objects.

What could come next: the machine across the lines of the REPL (`Recode`) under the certificate, so that
`LeftFramesRest` is proved, and a machine of runScript that compiles step by step and then runs.
