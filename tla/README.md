# Models of the Lygos compiler

Lygos (`src/src`, Rust) compiles `.ly` sources to LLVM IR and object files through a small C++ binding
(`src/llvm`); `src/std` is its standard library, written in `.ly`. This directory holds TLA+ models of the
parts of the compiler whose correctness depends on the *order* in which state is changed, of the code it
generates for expressions, and of the containers of its library, with the TLC instances
that check them, and TLAPS proofs of theorems about them.

## 1. The system

A run of the compiler (`main.rs:38-98`) is one thread and one pass per phase:

    command line -> read file -> Lexer::get_tokens -> Parser::build_ast (owns the Preprocessor)
      -> Mod::collect_symbols -> Mod::gen_code (LLVM IRBuilder) -> .ll/.ast file -> object file or executable

Nothing is concurrent, nothing is persisted, no message is sent. An error is a message followed by
`process::exit(1)` (`log/mod.rs`) or a Rust panic. What makes the program hard is *shared mutable state
reached from recursive calls*: one token vector with one index that is rewritten while it is parsed, one LLVM
insertion point, one `current_function`, one stack of break targets, raw pointers to the current block, and
symbol tables that are completed out of order.

| component | state | operations | interacts with |
|---|---|---|---|
| driver, CLI (`main.rs`, `io.rs`) | options | read, run the phases, write files | all |
| error reports (`log/mod.rs`) | none | print a message and exit | all |
| lexer (`lexer/lexer.rs`) | characters, index | next_token, numbers, strings, identifiers, nested comments | parser, includes, `impl_debug$` |
| parser: bodies (`parse/parser.rs`) | `current_block`, the recursion | parse_func, parse_closure, parse_if_stmt, parse_for_stmt, parse_ret_expr | AST `Block.returns`, read by the generator |
| parser: token stream | `tokens`, `index` | build_ast, parse_globals, parse_pound, parse_macro, parse_call_expr | preprocessor |
| preprocessor (`ast/preprocessor.rs`) | `macros`, included files | add_macro, expand_macro, expand_include | lexer, parser |
| symbols (`ast/scope.rs`, `symbol.rs`, `struct.rs`, `impl.rs`, `trait.rs`, `module.rs`) | symbol tables | add_symbol, resolve, get_struct/function/variable, collect_symbols, check_structs | generator |
| type lowering (`scope.rs:170-229`, `types.rs`) | `Struct.generated`, LLVM structs | resolve_type | LLVM |
| control-flow generation (`function.rs`, `control_flow.rs`, `call.rs`) | builder, blocks, `ret_block`, `current_function`, `current_break_point`, return slots | gen_code of functions, closures, ifs, loops, breaks, returns | parser's flags, LLVM |
| calls (`call.rs:17-173`) | LLVM module's functions | find or create the function, check the arguments | symbols |
| expressions (`access.rs`, `binary.rs`, `casting.rs`, `assignment.rs`, `vardecl.rs`, `initializers.rs`, `literals.rs`) | local symbols | loads, stores, casts, operators | LLVM, symbols |
| intrinsics (`intrinsics.rs`, `macro.rs`) | none | `format$`, `sizeof$`, `impl_debug$` | parser, lexer |
| LLVM bindings (`llvm/`) | LLVM objects | one C function per LLVM call | generator |
| standard library (`std/**/*.ly`) | heap buffers, lengths, capacities | String, Vec, StringMap, StringSet, files, printing | libc |

What would make each part correct, and where it is hard:

* **Bodies and control flow.** The flag `returns` is exact for every block; the blocks generated are well
  formed for every source they should be; a break leaves the innermost loop of its own function or is refused; a
  return returns, or is known to go on. Hard because blocks are created, branched to and removed by different calls, and because closures
  are generated in the middle of the function around them.
* **Token stream.** The module is the expansion of the sources: each file once, each call its macro, nothing
  lost at the seams; parsing ends whatever includes what. Hard because the vector is cut and refilled under an
  index that several recursive calls hold.
* **Macros.** The right arm, all parameters replaced at once, names pasted; too few arguments reported.
* **Symbols.** The table says what the source says in whatever order it says it, and it is known which orders are
  refused; a call reaches the function it means; what has no definition is reported.
* **Calls.** The arguments are as many as the parameters and of their types, whatever the function returns.
* **Type lowering.** It ends, and no struct stays opaque.
* **Lexer.** The tokens are those the text says; every loop ends, or panics, at the end of the text.
* **Expressions.** What a programmer writes for a tree is parsed as that tree; what is generated for it
  computes what it says. Hard because get_type, should_load and gen_code are three separate walks over the
  tree whose decisions (is this a place? is it loaded already? with which type?) must agree for every
  combination of nodes, and each combination is another program.
* **Containers.** They are the sequence or the map the program has made, and stay inside their blocks. Hard at
  the boundaries: a full buffer, an empty one, an index past the end, a capacity that cannot be doubled, keys of one
  bucket.

`PROJECT.json` lists every hazard at its line with the properties that would show it going wrong, or why none does.

## 2. Modules

`FunctionBody` (state and actions of the body parser) is extended by `ControlFlow` (the generator that walks
its AST), which is extended by `CfgExec` (execution of the blocks); `SourceExec` is the abstract specification
that `CfgExec` implements. `TokenStream` is extended by `TokenExpansion`, which defines the expansion
it must compute. `ExprParser` (the grammar of one statement) is extended by `ExprCode` (what is generated for
the tree), which is extended by `ExprMeaning` (what the tree says). `Buffers` is extended by `Formatting`;
`AbstractMap` is the abstract specification `StringMap` implements. The other modules stand alone: the compiler's phases do not overlap, so each begins from
the states the phase before it can leave, enumerated over all sources within the bounds.

An operator with a suffix after an underscore (`JoinArm_HeadOnly`, ...) is a deliberate fault: the same
operator as a plausible slip would have written it. `PROJECT.json` pairs each with a property that it breaks.

**FunctionBody** (`parse/parser.rs:202-257, 540-620, 697-704, 939-971`). The AST of one function as the
sequence of its items in source order; `opened` is the parser's recursion, `currentBlock` the raw pointer.
Each `Parse*` action is one turn of a statement loop, which starts by setting `current_block`
(`EnterStatement`). The expressions of a statement are one item, which emits ordinary instructions.

**ControlFlow** (`control_flow.rs`, `function.rs`, `call.rs:288-337`, `scope.rs:25-43`, and of
`llvm/src/bindings.cpp` the calls that touch blocks). `pc` walks the AST; `code` holds the blocks,
`attached` those still in their function, `insert` the builder's insertion point, `frames` the recursion of
gen_code with the blocks each level keeps in local variables, `breakPoints`, `currentFunction` and `retBlock`
the generator's fields. One action per gen_code (`Return` and `ReturnValue` are ReturnExpr's two cases),
split only where gen_code calls itself for a body
(`BeginIf`, `BeginElse`, `EndIf`, ...). When the value of a return is generated, and a break is outside any
loop, the error paths lead to phase "error".

**SourceExec, CfgExec.** SourceExec executes the AST: each state is the next visible event (a statement, a
test, a stored return value, the return). CfgExec executes the blocks; a br is not an event. The refinement
mapping is `Shown`. It is checked for the sources `Faithful` allows: those `Clean` (see 3), without a return
that no ret block was created for, which stores its value and goes on (`call.rs:290-292`).

**TokenStream, TokenExpansion, MCTokenStream** (`parse/parser.rs:34-110, 446-470, 540-553, 781-835`,
`preprocessor.rs:24-49, 75-91, 201-228`). A token stands for a phrase the splices do not look into. `at`,
`operands` and `pending` are the parser's recursion: what it will parse next, the statement under way and the
statements around the macro calls under way. `Splice` is the loop of `remove`s and `insert`s; a file that `text` does not have
cannot be read, and a macro call with nothing behind it panics.
TokenExpansion defines the expansion by recursion over the texts (its RECURSIVE operators keep it out
of TLAPS).

**MacroArms** (`preprocessor.rs:84-199`). `TryArm` is a turn of the arm loop, and `NoArm` its end for a macro without
arms (`arms[0]` panics); `SubstituteHere` and `PasteHere` are turns of the two scans over the token vector, with its index.

**Symbols** (`scope.rs`, `symbol.rs`, `struct.rs:74-91`, `impl.rs`, `module.rs`, `function.rs:39-70`,
`call.rs:25-88`). A name is the sequence of its parts between underscores; mangling concatenates. One action
per kind of item in collect_symbols, then one per item or method in gen_code. A function mentions one other
symbol (a call, a method call or a variable) and may have one parameter, which its body sees in place of the module's
symbol of that name (`InBody`); that is enough for every way
resolution depends on order, as mentions do not influence one another except through the LLVM functions they
create.

**ExprParser** (`parse/parser.rs:540-1065`, `ast.rs:104-137`). Each parse function is an operator from an index to a
tree and the index after it, or `Failed`; `Tok` is the token vector. `Parse` is one call of parse_stmt. The
source is either what a programmer writes for a tree (`Written`: the fewest parentheses), or any row of
tokens.

**ExprCode** (`access.rs`, `binary.rs`, `casting.rs`, `assignment.rs`, `vardecl.rs`, `initializers.rs`, `literals.rs`,
`ast.rs:47-207`, `call.rs:298-337`, `types.rs:260-338`, `scope.rs:170-209`, and the arithmetic and comparisons of
`llvm/src/bindings.cpp`). `Gen`, `TypeOf` and `ShouldLoad` are gen_code, get_type and should_load, with one
`Gen...` for each node. Generation and execution are one evaluation: a generated value is what its
instruction yields, together with its LLVM type, and memory is a sequence of cells. A load, store or element address
whose pointer has another pointee type is "malformed", which LLVM asserts; an address outside memory "traps"; an
error message is "error". Integers have a width and wrap.

**ExprMeaning** says what a tree means without that code: an expression is a place or a value, a place is read
where a value is needed, an operator acts on the numbers its operands' types say, left operand first.

**Lexer** (`lexer/lexer.rs:82-321`). One action per turn of each loop: `mode` is the loop under way. The grammar
it is compared with (`LexemeEnd`, `Lexeme`, `Lexemes`) takes the longest lexeme at each place.

**Buffers** (`std/string.ly:44-147`, `std/containers/vec.ly`). A block of the heap is a function from 1..size; an
operation is an operator on the buffer record, with the u32 arithmetic the compiler gives it, and an action. push_str
is one action per turn. Nothing is checked that the code does not check: pop is called on an empty Vec, insert_item and
remove with any index, and any capacity may be asked for. `ok` is FALSE once memory outside the block was touched, `misuse` once
an index past the end was let through; after either nothing is said.
**Formatting** (`intrinsics.rs:11-90`, `std/core/fmt.ly:26-30, 78-98`) adds `DoFormat`, by which a String
comes from `format_args$` and `format_`.

**StringMap, AbstractMap** (`std/containers/map.ly`, `std/string.ly:28-42`). A call walks one chain, one action
per turn of the loop. AbstractMap is a map and the last reference handed out; the mapping is `Abstract`.
`Hash` and `Search` are recursive functions, not RECURSIVE operators, so that they can be proved about.

**CallArgs** (`call.rs:43-173`, `types.rs:294-301`). The check of one call; `LookUp` is what happens to a function called
by its name that returns a function pointer (`call.rs:63`). **TypeLowering**
(`scope.rs:170-229`, `struct.rs:47-56`). `stack` is the recursion of resolve_type, `made` the structs whose
`generated` is set, `bodies` what set_body was given.

## 3. Runs

All runs check within their bounds *every* source, chosen by the parser's actions or by Init. CHECK_DEADLOCK
is FALSE everywhere because the compiler stops: "done", "error", "panic" and "overflow" have no successor.

| run | bounds | shows |
|---|---|---|
| `functions` | 8 items, nesting 4 | `ReturnsFlagExact`: a block's flag says whether a return stands directly in it. `BranchTargetsAttached`: no branch to a removed block. `WellFormedIffClean`: LLVM accepts the function exactly for the sources `Clean` describes (a function with a closure never is). `BreakLeavesInnermostLoop`: of its own function or closure, if there is a loop in it. `ReturnsReachRet`: which returns branch (those an if with a returning arm comes before or stands around), and that they all reach the ret. `TypeOK` |
| `blocks_execute_source` | 10 items, no closures or return values | `ExecutesSource`: CfgExec implements SourceExec, safety and liveness; `WellFormedIffClean` where join blocks of join blocks are removed |
| `token_stream` | 3 files of at most 2 phrases, one of which may be missing; 1 file of at most 4 phrases with 2 macros | `BuildsExpansion`, `IncludedOnce`, `Ends` |
| `macro_expansion` | 0 to 3 arms and a fixed body, 1 arm and bodies of 3 phrases; 3 arguments of 0 to 2 tokens | `RightArm`, `ExpandsExactly` |
| `symbols` | 3 items | `CollectsInAnyOrder`: which orders are refused, and what the table says after any other. `CallsReachDefinition`, `CompilesIffResolvable`, `TypeOK` |
| `call_arguments` | 3 parameters, 3 arguments, 4 types | `ExactForNames` |
| `lexing` | comments of at most 9 characters over 3; strings, characters and runs of at most 5 over 6; all pairs of symbols | `TokensAsWritten`, `LexingEnds` |
| `expressions` | trees of 3 operators for the parser, of 2 for the generator; rows of 4 tokens over 5 alphabets, macro arguments of 5; i32 of 3 bits, i8 of 2 | `RoundTrip`: what is written for a tree is parsed as it. `KeepsOrder`: what is accepted has lost, doubled or moved no token (how macro arguments are grouped it does not say). `ComputesMeaning`: the code exists and computes the tree's meaning. `NeverSilentlyWrong`: outside the supported forms too, what is accepted computes nothing else |
| `containers` | u32 of 4 bits, 2 elements, capacities from 0, 1, 3 and 12, every index; 5 keys in 2 buckets, one of them with `_`; formats of 3 phrases with 2 arguments | `LenWithinBlock`, `ActsAsSequence`, `LeavesBlockExactlyWhen`; `ImplementsMap`, `ReferenceStays`, `CallsReturn`, `InTableForLetters` |
| `type_lowering` | 3 names, structs of at most 1 field, or 2 of pointers | `BodiesComplete`, `OverflowsOnlyOnAliasCycles` |

Why the bounds are enough: 8 items hold a loop with an if/else and a statement after it, or two loops and a
break; 10 items an if/else of which all arms return inside an arm of another one, the least in which the
removal of a join block decides about another one's. Three files are a cycle beside the root. Three symbol items are a type, its impl and a
user of both in every order. Three names make a cycle of aliases or structs with something outside it.
Nine characters hold a comment in a comment with a character around each delimiter. Three operators are every
operator in every operand of every pair of others; the generator decides about a node by itself and its operand,
so two are every such pair, in each of the places an expression can stand (a declaration with and without
a type, a return, both sides of an assignment). The names of the instance are a variable of every kind of type
(integer, unsigned, pointer, reference, pointer to pointer, struct, pointer and reference to it, array). Three
bits are the least with a sign, a carry and a wider type than i8. With u32 of 4 bits a String of 3
grows to 6, and the next doubling is the one that fails; 12 stands for the capacities malloc has no block for.
Two buckets for five keys make chains of three.
`MaxDepth` stands for the stack: 6 in TypeLowering (the least `StackAssumption` allows) is twice what a program of three names without a cycle
of aliases needs, 3 in TokenStream more than two macros can nest without recursion.

Two runs expect a violation; each is a disagreement between the code and its own error messages:

* `macro_too_few`: a macro call with too few arguments expands to the last arm (`preprocessor.rs:115` against
  `:117`); in the trace the body is `$q $p` and the call has an argument for `q` only, so that `$p` reads past the
  arguments (`:131`).
* `self_reference`: `struct C { x: [C; 4]; }` is lowered (`struct.rs:49` against `:77`).

The passing properties say precisely how far the code goes, with the limits as their preconditions:
`ExactForNames` (the last argument of `a.f(..)` is not compared with its parameter, `call.rs:138`, and a function that returns a function
pointer cannot be called by its name, `call.rs:63`),
`CollectsInAnyOrder` (a type known only from its impls is a struct without fields, `symbol.rs:80`, and an impl of a trait
without functions, in front of everything that makes its type's symbol, is refused, `Early`),
`BreakLeavesInnermostLoop` (a break in a closure without a loop of its own is not the error `control_flow.rs:188` has for a break
outside of loops: it branches out of the loop around the closure, a block of another function),
`ReturnsReachRet` (a return that no ret block was made for goes on, `call.rs:290`),
`Clean` (nothing after a statement control does not get past, no falling off the end once a ret block exists,
no closures), `Delimited` (macro calls that are whole statements), `Supported` and `Ordered` (variadic
parameters in second and last place, as in `std`), `Separate` (no two definitions of a name, no two impls of a trait for a
type). Narrowing is part of the meaning: a declaration with a type casts its value (`vardecl.rs:41`).
`TokensAsWritten` excepts comment delimiters that touch (`Touching`: the lexer skips a character behind each)
and comments that do not end, which hide the rest of the text without a message. `KeepsOrder` excepts macro
calls whose callee is not a name (`NamedMacros`). In ExprMeaning, `Supported` names the forms the compiler has no code for (it reports
an error, or makes code LLVM rejects), and `AsWritten` those it compiles to something else: `>=`, which is generated as
`>` (`bindings.cpp:278`); division, comparison and widening of unsigned operands, which are signed; a left operand that
is a place, which is read after the calls in the right one (`binary.rs:34`); and `->` on a reference field, which reaches
a copy (`access.rs:99`): what these compile to no property looks at. `LeavesBlockExactlyWhen` lists the operations that touch
memory outside their block: any on a capacity of 2^31 or more, a doubling to 2^31, pop of an empty Vec, insert_item and remove on a
full Vec or past the end, clone of a String (strcpy of a text nothing ends with a NUL, which stops inside the block only if
malloc left one there).
`WellFormed` leaves malformed placeholders out of Formatting, and `InTableForLetters` says for which keys the hash may be
negative.

## 4. Fairness

The compiler is one thread that never waits: while an action is possible it takes it. So `ControlFlow` has
weak fairness of `Generate`, `CfgExec` of `Running`, `TokenStream` and `MacroArms` of `Next`. The
parser's choice of the next item is the programmer's, and a source may be cut short at any item, so
FunctionBody's actions are not fair. `Lexer` has weak fairness of `Next`. A program's calls to the containers are its own choice, so
`StringMap` has weak fairness of `Step` only: a call under way goes on. The liveness properties are `Ends`, `LexingEnds`,
`CallsReturn` and the fairness of SourceExec inside `ExecutesSource`. The other modules state safety only.

## 5. Proofs

TLAPS checks the following for every value of the constants that satisfies the modules' assumptions, with no bound on
the sources other than the parameters. The assumptions say what the constants are and what the code takes for granted:

* `BodyAssumption`, `ArgsAssumption`: bounds are natural numbers, there is room for a function and its end, and the items
  are among those the parser has.
* `BuffersAssumption`: a text is made of elements and is shorter than half the range of the capacity; `Half` stands for
  2^31, so three bits and more.
* `MapAssumption`: keys are sequences of characters that have a code, which may be zero or negative; neither the modulus (a literal,
  `string.ly:31`) nor the length of the table (the argument of `new`) is 0.
* `SymbolAssumption`: what the parser builds. An item `fn` is one function of its own name, only an impl has others, a name has
  at least one part; a source has finitely many identifiers, and a mention says what it mentions.
* `MacroAssumption`: the types of arms and arguments only. Arms without conditions, macros without arms and calls without
  arguments are all allowed.
* `LoweringAssumption`: a program gives every name a definition of a known kind, an alias or enum exactly one type
  (the parser's `dest_type` and `typ`), and there are finitely many names. Which programs is free.
* `StackAssumption`: the stack has room for twice as many calls of resolve_type as there are names. Only `OnlyAliasCyclesOverflow` uses
  it: a program with more nested types than that would overflow without any cycle, at a depth of many thousand types on a real stack.

Control flow (`ControlFlow_proofs`, `Nesting_proofs`, `WellFormed_proofs`):

* **`TypeCorrect`**: `Spec => []TypeOK`. `TypeOK` is not inductive: that `EndIf` finds the blocks of its frame, and `Break` a
  target, depends on frames matching the AST's openers. `Typed` adds: the parser's stack holds items of the AST and
  is not empty before the end, only item 1 is the function (`ParseInv`); each frame names blocks made, the function's
  own frame is the outermost, retBlock and breakPoints name blocks made (`FrameInv`).
* **`NoDanglingBranch`**: `Spec => []BranchTargetsAttached`. `Linked` adds what
  blocks the steps still to come may name (`Kept`: break targets, ret blocks and loop heads), that an
  open if's f and m are attached, belong to no other frame and are none of these, and that f is not
  mentioned when there is no else. One lemma per action; `LinkKeep` and `LinkGrow` carry Linked over steps
  that only add instructions or blocks.
* **`FlagIsExact`**, **`BreaksLeaveInnermostLoop`**, **`ReturnsReachTheRet`**: `ReturnsFlagExact`, `BreakLeavesInnermostLoop` and
  `ReturnsReachRet` are always true. None is inductive, because each speaks of how the source nests, which parser and generator
  each know only by a stack of their own. `BreakLeavesInnermostLoop` asks for the loop of the break's own closure, `ReturnsReachRet` for the
  very returns that branch. `Nesting` relates the stacks to one view of the AST, `Open(ast, p)`, the blocks open
  in front of item p: the parser's recursion is `Open` at the end of what is parsed (`Bracketed`), the generator's frames are
  `Open` at `pc` (`Walked`), the break points are its loops (`Targeted`, where `Exit` ties a break point to the test of its
  loop). `Flagged` says of every block that its flag is exact, `Left` that every break emitted so far has gone to
  the exit of its innermost loop. In a function without closures `Returned` says that there is one ret block, and `Answered` that a
  return generated has branched exactly if an if had made that block. `OpenGrows` and `OpenNext` say how `Open` changes with an item parsed and an item generated.
* **`WellFormedExactlyWhenClean`**: `Spec => []WellFormedIffClean`. The property is about the end of the generation; the
  invariant `Whole` says what it comes to at every item before. The blocks an if or a loop keeps for later are its own, attached
  and empty until it hands them to the insertion point (`Apart`). While the source up to `pc` is clean (`Straight`), every other
  block ends in its only terminator, and the insertion point does exactly when control does not get past the item before `pc`; an
  if's `m` is branched to unless both arms leave. Once the source is not clean (`Crooked`), some block holds a terminator in
  front of its last instruction, or is about to: the back edge of the innermost loop comes behind one. Both are kept for functions
  without closures (`Tracked`). A closure spoils the block it stands in when it ends, as the insertion point stays in its
  body (`Closed`), and what is spoilt stays so. `Leaves` is a recursive function, of which its equation is proved by
  well-founded induction.

Symbols (`Symbols_proofs`), with invariants that build on one another:

* **`TypeCorrect`**, **`CallsReach`**: `Spec => []TypeOK` and `=> []CallsReachDefinition`. `Base` says which item a function symbol and a
  method come from (`Agreeing`) and where each phase stands (`Placed`); `Built` says, in the middle of code generation, which
  bodies an LLVM function has: the one generated so far under its name, or none. Calls and declarations make functions
  without a body, which is why their order does not matter.
* **`AnyOrder`**: `=> []CollectsInAnyOrder`. The property is about the end of collection; `Told` says the same of the items
  before `pos` (`Tells`), with an impl before its struct, of a type without definition, and of several impls as cases of their own;
  an impl without functions of a type no item before it has made is the one that is refused.
* **`Compiles`**: `=> []CompilesIffResolvable`. `Aliased` says where an alias leads, at any time, `Entered` when a static is a variable, and
  `Judged` that every function generated so far was resolvable, and that the compiler has stopped only at one that is not.
  With them each lookup of the generator finds a symbol exactly if `Resolvable` says so. That an alias is followed once is proved
  of the recursive function `Target` by induction over its hops.

Macros, calls, types and containers:

* **`ArmIsRight`** (`MacroArms_proofs`): `Spec => []RightArm`. `Choosing` says that no arm passed over fits or is where the
  loop reports too few arguments, and that the arm chosen fits or is the last one.
* **`CallsByNameChecked`** (`CallArgs_proofs`): `Spec => []ExactForNames`. `Compared` says that the
  arguments before `iter` match and why the count was accepted.
* **`NoneLeftOpaque`** (`TypeLowering_proofs`): `Spec => []BodiesComplete`. The property is about the moments when
  resolve_type has returned; `Inv` is about the middle of the recursion: a struct made is complete or has its frame on the stack
  (`Making`), a frame's part under way is the frame above it, and each part it has lowered is what its type denotes (`Lowering`). That
  an alias then denotes what its type does needs an argument about `Denotes`, which follows as many aliases as there are names:
  on the way to a type that is no alias all aliases differ (`WalkBound`, by the pigeonhole principle), so that one hop is
  always left (`DenotesItsType`). It holds for any depth of the stack.
* **`OnlyAliasCyclesOverflow`** (`TypeLowering_proofs`): `Spec => []OverflowsOnlyOnAliasCycles`, with the invariant `Visiting`: a name asked
  for is at the bottom of the stack until it is lowered, no struct is on the stack twice, and an overflow was on the way to one more
  name. The frames then are a path of more than twice as many names as there are (`Path`). Up to its last struct all names differ, since
  an alias met twice there would lead to one struct twice; so behind it come more aliases than exist, and one of
  them is its own (`LongPath`). That `Reached`, computed in as many rounds as there are names, is closed under one more hop is
  proved by counting (`RoundsExist`, `ReachedClosed`). The other half, that a name on a cycle never comes back, follows from `NoneLeftOpaque`'s
  `Inv`: what has been lowered ends somewhere.
* **`BufferFits`, `BufferIsSequence`, `BlockIsLeftExactly`** (`Containers_proofs`): `BuffersSpec => []LenWithinBlock`,
  `=> []ActsAsSequence` and `=> LeavesBlockExactlyWhen`, for every width of the capacity above two bits, all elements,
  texts, indices
  and initial capacities, those malloc has no block for included. `LenWithinBlock` alone is not inductive: that a reallocation keeps what is in the buffer depends
  on all of it being inside the block. `Inv` says that the buffer, as long as its block was not left, fits the
  block and agrees with the sequence (`Fits`). The block a growing
  buffer gets may be none at all; `Room` is what a reallocation keeps in any case, and one lemma per operation
  goes from `Fits` through `Room` to `Fits`. `BlockIsLeftExactly` follows from one lemma per operation that says exactly when
  it stays inside. `DoFormat`, which Formatting adds, is model-checked.
* **`ReferencesStay`, `LettersStayInTable`, `ImplementsTheMap`** (`Containers_proofs`): `MapSpec => []ReferenceStays`,
  `=> []InTableForLetters` and `=> ImplementsMap`, the refinement of AbstractMap, for all keys, values, codes, moduli and table lengths.
  `Mapping` says that a chain links the nodes of one bucket in the order of their addresses and leaves none out
  (`Chains`), that no two nodes have one key, and that the walk under way has left behind no node it could have been looking
  for (`Calling`). From it `Search`, the recursive function of the refinement mapping, is proved to find the node of a key
  (`MappingHolds`); a step that ends a call is then a step of AbstractMap, and every other one a stutter.

Model-checked only: `ExecutesSource` (what the generated blocks do as a whole), `BuildsExpansion` and `IncludedOnce`,
`ExpandsExactly`, the lexer, the expressions, and `DoFormat`. Out of the prover's reach are liveness
(`Ends`, `LexingEnds`, `CallsReturn`, the fairness in `ExecutesSource`) and what is defined by RECURSIVE operators (`Expand`,
`Gen`, `Mean`, `Lexemes`); `Replaced` and `PasteAll` concatenate with FlattenSeq, of which the library states no fact to induct
with. Recursive functions of one's own are within it: an induction over their argument is done by hand from
the least-number principle (`Least`, `Upward`), as for `Hash`, `Search`, `Target` and `Denotes`.

## 6. Not modelled

* `match` (parse_match_stmt is a `todo!`), the driver and its file output, error formatting.
* Of expressions: string and float literals, closures and member calls as operands, slices. In ControlFlow a return
  value or condition is one instruction (`&&` and `||` are parsed, and refused by the generator, so expressions
  never branch).
* Of the intrinsics: `impl_debug$`, which writes a source text and parses it, and `sizeof$`, a constant.
* Of the library: what only reads (eq, contains, as_str), drop, from_raw_parts, Vec's clone; files and
  printing, which forward to libc; `StringSet`, which the compiler rejects
  (`set.ly:12` names `$ty` outside any macro, `:19` writes a cast without its colon).
* In Symbols there are no nested scopes beyond a function's parameter; in TypeLowering a type is wrapped once.
* Memory exhaustion, other than blocks of 2^31 and more; the depth of the Rust stack is a bound only where the code's recursion
  may be endless.

## 7. Plan

Done in the order: control flow and its execution, token stream, macros, symbols, calls, type lowering; then
expressions, lexer, containers and format strings. What is left, in order of what it would add:

1. Theorems: `IncludedOnce`, over TokenStream alone; the safety part of `ExecutesSource`, from `WellFormedExactlyWhenClean`.
2. `Scopes`: local scopes, shadowing and the return slot, composed with Symbols and ExprCode.
3. Member calls as operands in ExprCode, composed with CallArgs: the object in front of the arguments.
4. `impl_debug$` as a third source of tokens in TokenStream.
