# A verification development for zeno-spec

zeno-spec is a small compiler front end in C: it reads one source file of the
language Zeno, makes tokens of it, parses one function item, type checks it and
compiles it to bytecode. `spec/` describes the language. This directory holds
TLA+ modules of the program, the TLC configurations that check them on small
instances, and proofs for TLAPS.

Paths below are relative to the repository; line numbers are those of the
commit the modules were written from. `PROJECT.json` maps every definition to
the lines it stands for.

    cd tla
    tlc -workers 2 -config HashMap.cfg MCHashMap    # a run: see "Runs"
    tlapm HashMapProofs.tla                         # proofs: any module that ends in Proofs

## Inventory

The program is one thread and one process that handles one file. What is hard
in it is therefore not concurrency but: states that only long sequences of calls
reach (a table after several resizes and resets), partial failure (an error in
the middle of a stage leaves by `longjmp`), the system underneath (short and
interrupted reads), arithmetic at its width, and agreement with the written
language.

| Component | State | Operations | Hard behaviour | What makes it correct | Modules |
|---|---|---|---|---|---|
| Hash map (`support/hash_map.c`) | entries array, bucket array of IDs with 8-, 16- or 32-bit elements, counts | get ID, get value, set, reset, and inside set: growth and rehashing | a rehash interleaves an inner probe loop with the outer call; element width changes; the byte count of a `memset` wraps at 2^30 buckets; a probe loop without a bound | behaves like an insertion-ordered map with stable IDs; every probe ends | HashMap, IdMap, HashMapProofs |
| Declaration map (`sema/decl_map.c`) | list of open scopes, list of popped ones for reuse | push, pop, set, get, destroy | nodes move between lists and are used again; the destructor runs in any state | a stack of scopes; each node on one list; nothing leaked or freed twice | DeclMap, ScopeStack, DeclMapProofs |
| Lexer (`parsing/lex.c`) | cursor, position, four counters, token list | one loop per kind of token; exits by `longjmp` | nested comments, limits, three line ends, embedded nul, bad UTF-8 | accepts and divides the file as `spec/parsing.md` says; positions and limits true; ends | Lexer, LexicalGrammar, LexerProofs |
| Parser (`parsing/parse.y`, and what byacc makes of it) | token index, stack of states, locations and values, result | shift, reduce with an action, accept; error, recovery, overflow of the stack | `error` rules end the parse from inside the recovery; success is recorded before the end of the file is read; parentheses on a stack of fixed depth | accepts the hierarchical grammar of `spec/parsing.md`; builds the item it describes; stops at the first wrong token; ends | Parser, HierarchicalGrammar, Frontend, ParserProofs |
| Type checker (`sema/type_checking.c`) | scopes, current return type, three cached fields on every node | constant evaluation, typing, lifting, all recursive | errors leave recursion by `longjmp`; fields that are NULL for two reasons | accepts what the rules of `spec/type-checking.md` derive; true reports | Compilation, FrontendProofs |
| Compiler, bytecode (`eval/`) | byte array | `compile_expr`, dump | relies on the type checker; operand encoding | compiles whatever type checks; what is printed is the code | Compilation, FrontendProofs |
| Big integers (`support/bigint.c`) | tagged 64-bit word | parse, convert, print | wrap-around, tag bit | literals an Int32 can hold are kept | Compilation (parsing, conversion), Dump (printing), FrontendProofs |
| System IO (`support/io.c`) | buffer, size, capacity, descriptor | open, read all, close; write | short reads and writes, EINTR, failure between chunks | the bytes of the file in order, nul-terminated in the buffer; nothing held after a failure; what is written arrives in order and once | SystemRead, Output, DriverProofs, OutputProofs |
| Driver (`driver/main.c`, `commands.c`), diagnostics (`basic/diagnostic.c`) | options, engine flag, what is held | parse options; run stages; report; release | every stage may fail; `--expect-failure` inverts one stage | exit code tells the truth; nothing leaked | Driver, DriverProofs |
| Diagnostics (`basic/diagnostic.c`, `driver/diagnostics.c`, `driver/terminal_diagnostic_consumer.c`) | engine flag, one builder with an array that is used again | one report per error; emit to the consumer | a report is put together by many calls whose results nobody looks at | the line names what the report is about, whole | Reports, Output, OutputProofs |
| Formatting and UTF-8 (`support/format.c`, `encoding.c`) | none | `Writer_vformat`, `print_number`, `utf8_decode` | widths and buffers at their edges; an error in the middle of a line; malformed bytes | the message means what it says; one character from a well-formed prefix | Encoding, Reports, Output, OutputProofs |
| AST (`ast/context.c`, `nodes.c`, `dump.c`) | arena, interned strings, files, nodes | intern, allocate, add file, delete; dump | two calls per interning; ownership of file bytes; a dump that looks through evaluated fields | names and sources stay; each block has one owner; the dump shows the item | AstContext, Parser (nodes), Dump, AstContextProofs, FrontendProofs |
| Arrays, arena (`support/malloc.c`, `array_writer.c`, `arena.c`) | capacity, size; list of chunks | grow, allocate, destroy | room before the write; `realloc` moves | room for what each caller stores | GrowingArray, with AstContext and Output, AstContextProofs, OutputProofs |

How they interact: `main` calls `do_command`, which opens the file and calls
`do_syntax`; that reads it (SystemRead) into a source that the AST context owns
(AstContext), calls `lex_source` (Lexer), `do_parse` (Parser, Dump), `do_check`
and `do_compile` (Compilation). What any of them has to say is a report
(Reports) that goes through the engine, its array and the consumer to the
terminal (Output). The type checker uses the declaration map, which uses one
hash map per scope; the AST context interns names in another.

The modules meet in two ways. **Frontend** composes Parser, Compilation and Dump
in one state machine, from a list of tokens to what the command prints, and
**Output** composes Encoding, Reports and GrowingArray, from the bytes of a file
to the terminal. The others meet at abstract specifications: DeclMap takes a
scope's hash map to be a function of names, and AstContext its set of strings,
which is what IdMap promises and HashMap is proved to implement; Compilation
looks names up in ScopeStack, which DeclMap is proved to implement; Driver
takes each stage as a choice between its outcomes, which the modules of the
stages describe.

## The modules and the code

**IdMap** is what `hash_map.h` promises: a sequence of entries, no key twice, an
entry's place is its ID until reset. Probing can be seen only as a delay between
a call and its answer.

**HashMap** is `hash_map.c`. One step is one iteration of the probe loop of
`get_internal` with everything its caller does up to its return or its next
probe loop. `call` and `rehash_id` are the C stack: the operation that runs and,
during `maybe_resize`, the entry that is placed again. `IdModulus` is the element width of
the bucket array; a stored ID is truncated to it. The widths are constants
(`U8Max`, `U16Max`, `UIntMod`) so that small instances pass through all three.
Clearing the buckets is a number of bytes at the width of `unsigned int`, as in
`reset_buckets`: a bucket that these bytes do not reach keeps what it held, or after an allocation
may hold anything. The hash function is an arbitrary constant function, which covers FNV-1a.

**ScopeStack** is a stack of finite functions from names to declarations, and
what `DeclMap_get` answers. **DeclMap** is `decl_map.c` with its two linked
lists as pointers (`active`, `cache`, `next`), the set of nodes that are
allocated, and list walks one node a step; `type_check` is its user and may
destroy it with any number of scopes open.

**Lexer** is `lex.c`. One step is one turn of the main loop, of a comment loop
or of the digit loop, with all the counter handling it calls. Characters are
named one-character strings; symbols and keywords are represented by those the
code tells apart (two keywords, all lengths of symbols with and without a
trailing `=`). **LexicalGrammar** is the parsing expression grammar of
`spec/parsing.md` as a recogniser with prioritised choice. With `UnderscoreOptional`
FALSE it is the document, with two readings to know of: it has the symbols the document lists
and no others, and in a block comment `.` is a character at which no delimiter begins (to the letter,
`.*` would run past every delimiter and no comment would ever match). With
`UnderscoreOptional` TRUE a digit may follow a digit, as `tests/lex/valid/tokens.zn:84-95` has it
and the document has not (see "Findings"). It uses RECURSIVE operators and is only used by runs.

**SystemRead** is `SystemFile_open_read`, `_read`, `_read_all`, `_close` and
what `AstContext_source_from_file` and `do_command` do with the result. The
kernel may return any number of bytes up to the number asked for, interrupt a
call (`MaxSignals` times) or fail it.

**Driver** is a process from command line to exit code, with the options
parser, the diagnostic engine's `has_errors` and every release on the way back.

**Compilation** is `do_check` and `do_compile` on one parsed item. The recursive functions of
the type checker are calls on an explicit stack; the fields `type`,
`const_eval` and `as_type` of the nodes are where answers are left, as in the
code. `Byte` scales all integer widths: with bytes of four values, `uint32_t`
has 256 values, `uintmax_t` 65536, and `BIGINT_INLINE_MAX` is 16383.

**Parser** is `parse.y` and the parser byacc makes of it. The rules are data;
the automaton is computed from them (a state is a set of rules with a dot), the
stack holds at most `YYMAXDEPTH` states, with locations and values. On an error
`yyerror` records a YaccError, states are popped until one can shift `error`,
and the rule of that `error` makes a ParseError and ends the parse.
**HierarchicalGrammar** holds the productions of `spec/parsing.md` as written
there, as sets of sentences up to a depth of parentheses, from which the
viable beginnings follow.

**Dump** is `dump.c`: the lines of an item, with its indentation, and with a
type wherever the type checker left one. **Frontend** is `do_parse` with
`do_check` and `do_compile` behind it.

**GrowingArray** is `ensure_array_capacity`. **AstContext** is `context.c` over
a memory: a function from addresses to what is in the block there. `malloc`
takes the lowest free address, so that what is freed is used again at once; the
caller's buffer is at an address of its own and is filled with something else
between the calls. `source_from_file` takes over the block that SystemRead
describes.

**Encoding** is `utf8_decode`, and what UTF-8 is, to compare with. **Reports**
says which calls of a `Writer` each report of `diagnostics.c`, `commands.c`,
`main.c` and `Token_dump` makes, and which writes `Writer_vformat` and
`print_number` make of each call. **Output** runs them: a message is put
together in the builder's array, write by write; what the consumer sends goes
to `write(2)`, which takes some of the units it is given, is interrupted
(`MaxSignals`) or fails (`MaxFailures`) at any call; and `Writer_vformat`
carries on after an error as the code does.

MC modules give the constants their values. A definition whose comment starts
with "Slip" is a plausible mistake in the definition that follows it; it is in
no specification. It is there to be put in place of that definition, which must
make a named property fail (`PROJECT.json`, `mutants`).

## Runs

| Run | Config | Shows |
|---|---|---|
| hash_map | MCHashMap, HashMap.cfg | six colliding keys, resets, two resizes, all element widths: index exact, the assertion of `maybe_resize` holds, IDs stable, no probe wraps, every call returns, refinement of IdMap |
| scopes | MCDeclMap, DeclMap.cfg | each node is allocated and on one list (NodesKept), no leak, refinement of ScopeStack |
| lex | MCLexer, Lexer.cfg | all files up to a length over five alphabets are accepted and divided exactly as LexicalGrammar says (as the document has it, but for files with two digits side by side, which follow the tests); positions true; refused for a limit exactly when one is exceeded; the lexer returns |
| read_file | MCSystemRead, SystemRead.cfg | with the constants of the code: bytes in order and inside the buffer, terminator too, nothing leaked, returns |
| driver | MCDriver, Driver.cfg | exit code tells the truth about the one diagnostic, as asked by `--expect-failure`, clean output, nothing held |
| frontend | MCFrontend, Frontend.cfg | sentences of the grammar, beginnings of sentences with every wrong token, and items over names and literals, through parser, type checker, compiler and dump: accepted is what the grammar and the typing rules derive, the first wrong token is where reading stops, reports are true, what type checks compiles, literals are kept, dumps show the item, every run ends |
| ast_context | MCAstContext, AstContext.cfg | names and sources stay what they were whatever the caller does to its buffer, array of files has room, every block has one owner and is freed once |
| output | MCOutput, Output.cfg | a character is decoded exactly from a well-formed prefix (and named by its code in the report), messages are whole, what the terminal got is a line with holes only where a write failed, output ends |

Four more runs are expected to fail, each on one property that quotes a
document: read_larger_file, lex_crlf, typing_literal and lex_residue; see "Findings".

### Bounds and why they are enough

- HashMap: 4 buckets at first; the third and the sixth key double them. 5
  and 11 in place of 255 and 65535 make the bucket array pass from one width to
  the next at the resizes, and `UIntMod` = 128 is hardly more than the assumption on
  `MaxEntries` asks for eleven (32 * 11 < 3 * 128), so that with 32 buckets the byte count would wrap. `Affordable`, an action constraint, lets only one key have
  the second value and a reset come when three keys have grown both arrays: a
  reset of a table that has grown, filled again to the next resize, is in.
- DeclMap: four addresses allow three pushed scopes above the first, or lists of
  two and two. All moves touch at most the first two nodes of a list.
- Lexer: the code looks at most three characters ahead and keeps no state but
  the counters; files of four to six characters (plus a prefix and suffix of
  comment delimiters) contain every pair of neighbouring tokens and comments of nesting 2.
  The limits (10 characters, 7 lines, 8 characters a line) are reached by files
  made for them and by no others. The uninitialised counter starts from 0, and for
  the short files also from 4 (ResidueAffordable, a constraint).
- SystemRead: sizes around the first growths (0, 1, 8, 509, 512, 515, 768), and
  8744 and 8748, the last sizes before the capacity stops being a
  multiple of eight. One signal: an interrupted read leaves no trace.
- Driver: four words after the command; each word sets a flag of its own.
- Frontend: sentences with up to four pairs of parentheses around the value or the
  type, with a stack of nine entries: some fit exactly, some overflow while
  shifting, and some in the recovery. Every beginning of a sentence is followed by every kind of
  token that a rule has, one that none has, and the end of the file. All item
  shapes; literals of up to five digits and underscores, whose values lie on both
  sides of 2^31, 2^32, 2^62 and 2^64 at scale.
- AstContext: three files with names and bytes of their own,
  the context, its table, a node and the array are thirteen blocks, and of fourteen four are
  free when the third file is added (`CanAddFile`); the array of files starts from 2 in place of 16, so that
  the third file moves it. Three contents, one of size 0.
- Output: arrays start from 4 units in place of 16, so that they grow in most
  messages and in the middle of some; names of zero to two letters; one signal and two failures,
  which is one error before and one after any other. Characters on both sides of
  each length of UTF-8 and of the surrogates, whole, cut off and with a byte
  after; and all sequences of up to four of the bytes that limit a class.

### Fairness

The program is one thread that waits for nothing but the kernel, so a step that
is enabled inside a call is taken: weak fairness of the steps inside a call
(`GoesOn` in SystemRead and Output, the probe steps in HashMap), or of `Next`
where the whole module is one call (Lexer, Frontend). DeclMap, Driver, AstContext and
Compilation on its own have no liveness property and assume no fairness.
That a user calls an operation, that a read or write fails or that a signal comes
is never assumed; that signals are finitely many is.

## Proofs

TLC checks an instance; the theorems below hold for every value of the
constants under the assumptions named. Each proof module has one invariant
that is inductive, the lemmas that say what each action does to its parts, and
at the end the theorems, each a property of a run unless the table says otherwise.

### HashMapProofs

For every set of keys, hash function, table size and element width:

| Theorem | Property |
|---|---|
| TypeCorrect | TypeOK |
| KeysDistinct | (DistinctKeys, part of the invariant) |
| BucketsExact | EachIdOnce, and LoadFactor |
| LookupsSound | NoGapBefore, and ProbeSound |
| RehashAssertionHolds | RehashFindsNoDuplicate (the `assert` of `maybe_resize`) |
| ProbesNeverWrap | NeverWraps |
| IdsStable | StableIds |
| Refinement | ImplementsIdMap, the refinement |

The invariant that is inductive is `IInv`. None of its parts is inductive
alone: that a lookup that stops at an empty bucket may answer "absent" needs
that every placed entry can be reached from its home without a gap
(NoGapBefore), which is preserved when an entry is placed only because the
cursor passed no free bucket and no equal key (ProbeSound); writing the ID does
not truncate it only because it is smaller than the number of buckets, which
follows from the load factor, which is preserved by a resize only if doubling
does not wrap. `CallOK` and `WithinBound` say what a call in progress knows of
its arguments, and that the bytes cleared are all the buckets (`ClearsAll`). That probes end is a counting argument: the IDs in the buckets
are distinct (EachIdOnce) and fewer than the buckets (LoadFactor), so some
bucket is free, by the pigeonhole principle on a full table, and a cursor that
returned home would have passed it.

Assumptions, in `HashMapAssumption`: the two initial sizes are those of a
non-degenerate table (a multiple of four buckets, at least two entries, and fewer buckets
than `UINT8_MAX`, because `HashMap_init` clears as many bytes as there are buckets); widths
increase; and `32 * MaxEntries < 3 * UIntMod`, where callers stop setting keys at
`MaxEntries`. The code has no such check. With 2^32 the bound is 3 * 2^27, or 402 653 184 entries:
the next resize would make 2^30 buckets, and `buckets_count * 4` at `hash_map.c:84` would be 0 and
clear nothing. No theorem of this module says anything beyond that. A source file has at most
4 194 303 characters (`limits.h`), and far fewer names.

Refinement is `HashMap!Spec => IdMap!Spec` with the
live prefix of the entries as the log. Each probe step, growth and rehash is a
stutter.

### DeclMapProofs

For any finite set of nodes and any names and declarations:

| Theorem | Property |
|---|---|
| TypeCorrect | TypeOK |
| NodesAreKept | NodesKept: both lists acyclic and disjoint, together every node allocated |
| DestructorFreesAll | NothingLeaked |
| StackOfScopes | ImplementsScopeStack, the refinement |

What the pointers reach cannot be said by following them (that would be
induction over the heap), so `Shape` has witnesses: the nodes of each list as a
function on `1 .. n` with `next` leading from each to the one after. Each
operation moves at most the head of a list, so the new witness is the old one
with an element added or taken off, and TypeOK alone is not inductive, because a
pop of an empty list is excluded only by Shape. The destructor's `node` walks what
is left of a witness (`Ahead`). For the refinement, the sequence of maps along the witness of the open
list is the stack; a lookup that has walked k nodes has looked into the k
innermost scopes in vain (`SearchedTo`). That `Walk`, a recursive function,
gives back the witness is its induction by least counterexample.

### LexerProofs

For any files, keywords, limits, tab stop and residue of the stack
(`LexerAssumption`: they have their types and no limit is zero):

| Theorem | Property |
|---|---|
| TypeCorrect | TypeOK |
| PositionsAsCounted | CountedPositionsTrue: in files counted as written, lines and columns are those of the text |
| LimitsAsCounted | CountedLimitsExact: in those files, accepted only within the limits and refused for one only if it is exceeded, or for a first line counted from the residue |
| LinesWithoutCrlf | LinesTrue (the property of lex_crlf), for files without CR LF, comments or not |
| TokensInOrder | (Order, part of the invariant): tokens follow one another in the file without overlap |

Files counted as written (`CountedAsWritten`) are those without CR LF and without `/*`, and those of one block
comment, with no `*` or `/` inside, and a name. For other files the two properties say nothing: findings 2 and
the note on `lex.c:240` are about them. The excuse of the second is finding 4.

The columns of the text (`ColumnOf`) go on to the first multiple of the tab stop after a tab (`TabStopAfter`), which is
stated as such a least multiple; that `handle_tab` computes it is TabStopIs.

The parts of `IInv`: Types; Order; Lines and Columns, which say that the
counters are those of the cursor; Characters, that the two counts of characters are and that
what was passed fits; and Course. Positions need Order, because a literal's position is that of its
first digit, which was passed some steps ago. Columns needs to know whether the lexer is in a line comment,
whose tabs count as one column, and that only the end of the line or of the file can come after one.
Characters needs FromResidue, for the first line starts from what the stack held. Course is for files of a
block comment and a name, the only ones with a block comment of which the counting properties speak.
`Steps` abstracts the 22 actions to the three things a step may do (leave
with an error, move on, move on and push a token) with how the move counts;
`Uncounted` and `HalfCrlf` are the two moves of the code that do not count as
the text does (findings), and CountedAsWritten is what excludes them.

### DriverProofs

For command lines of any length: ExitTells (ExitTellsTheTruth), ExitAsExpected
(ExitAsAsked), OutputIsClean (CleanOutput), EverythingGivenBack (NothingHeld). The invariant says for
each place in the program what is held there, that nothing was reported while the outcome is open,
and from then on which diagnostic and which dump go with it. The exit code alone is not inductive:
`has_errors` is overwritten by each diagnostic, and that there is no second one comes from
what each place has behind it.

The same module proves SystemRead, the file that the driver reads:

| Theorem | Property |
|---|---|
| LeavesNothing | NothingLeaked, for any constants and any answers of the kernel |
| AlignedCapacitiesSuffice | BytesInOrder and NulTerminated, if every capacity reached with bytes left to read is a multiple of SizeofSize (`CapacitiesFit`) |
| FilesUpTo8748 | both, for the constants of the code and files of at most 8748 bytes |

The hypothesis of the second theorem is what finding 1 violates: a chunk asks
for SizeofSize bytes whatever is free, and the invariant (`ChunkFits`: a chunk
began inside the buffer at a multiple of its size) needs capacities to be multiples. The third
theorem is the second one for the capacities 512 to 8748 computed; read_larger_file
is the first file for which it does not hold. The number of signals is arbitrary.

### ParserProofs

For any lists of tokens that end with the end of the file (`IsTokenList`, part of `FrontendAssumption`), and
any stack with room for a file without parentheses (`YYMAXDEPTH >= 8`):

| Theorem | Property |
|---|---|
| ParsesTheGrammar | AcceptsGrammar: what is accepted are the sentences of `spec/parsing.md` that the stack has room for, each with the item that is written, and a YaccError means that it has no room |
| StopsAtWrongToken | FirstWrongToken: a parse that fails has read up to the first token that no sentence goes on with |

`FrontendAssumption` also asks `GrammarDepth >= YYMAXDEPTH - 5`, which is about the reference and not the code: a
reference that stops at fewer parentheses than the stack can hold would refuse what the parser accepts.

The argument has three parts.

1. *The automaton.* The states of Parser are closures of sets of rules with a dot, computed from the rules. The
   proof computes them once: OpenedBy is what a nonterminal can begin with, by a recursive function that is a fixed point after
   two steps, and each state the parser can enter is the closure of one rule with one dot (`Single`). The lemmas
   From... say, for each of them, what every symbol leads to.
2. *The sentences.* A file is given by the two numbers of parentheses, N around the return type and M around the value.
   `KindsAt(N, M, k)` are the kinds of token that can stand at place k, and `Follows(n, N, M)` says that the first
   n tokens are such. The sets of sentences that HierarchicalGrammar builds by depth are
   exactly those sequences, which is its induction on the depth by least counterexample;
   and what goes on from a beginning follows from what two such sequences have in common (SameType, SameValue).
3. *The invariant.* `PInv` is that the parse has ended and `parse_result` is true (Finished), that a wrong token was
   met and states are being popped (Recovering) or the rule of an `error` is about to be reduced
   (Reporting), or that the parser is at one of 30 places of a file (Placed), in or between two zones of parentheses. A
   place names the states and values on the stack; in a zone the number of open parentheses
   tells what is on it. `Fits` is what the stack has room for. Each place steps to the next one, or meets a wrong
   token, or a stack that is full; there is a lemma for each.

AcceptsGrammar and FirstWrongToken are not inductive at all: they speak of the end, and everything between is in Placed.

### FrontendProofs

For every set of items of literals and names (`ItemsAssumption`) and every width of a byte above two values
(`CompilationAssumption`); `NullAssumption` says that NULL points at nothing. Spec is Compilation's specification,
from any items; FrontendSpec is that of the commands, from any lists of tokens:

| Theorem | Specification | Property |
|---|---|---|
| TypesBySpec | Spec | AcceptsBySpec: under the scope of the prelude, what is accepted the typing rules derive, and what is reported they do not |
| ReportsWhatIsWrong | Spec | ErrorsTrue |
| OnlyLiteralsCompiled | Spec | CompilesWhatTypeChecks: the unreachable places of `compile_expr` are not reached |
| CodeKeepsLiterals | Spec | LiteralKept: the code pushes, and the dump of it prints, the number the literal is written for |
| ChecksWhatIsParsed | FrontendSpec | AcceptsBySpec, ErrorsTrue and CompilesWhatTypeChecks, of what is parsed |
| DumpsAreTrue | FrontendSpec | DumpTrue |
| LiteralsReachTheCode | FrontendSpec | LiteralKept, from the tokens |

*Type checking.* `CInv` has two parts: Answers, what each of the three fields cached in
the nodes says of the item, and Course, which calls are on the stack in each pass
and what was decided before it. Neither is inductive without the other: a call reads the fields
that the calls above it filled, and a pass assumes that the one before succeeded.

*The composition.* `FInv` says which command is at which of its steps, that the item is the one that was parsed (here
ParserProofs' Finished is used: parsed items are items of literals and names), CInv while it is checked, and which fields
are filled when it is dumped (Filled). Compilation's steps keep CInv as they do alone.

*Literals.* NumberOf, what a literal is written for, is a sum over the places of its digits, and
`BigInt_parse` is a loop modulo the width of a `uintmax_t`. That they agree is Horner's rule, by least counterexample on the
number of digits read: the loop's value is the sum over those digits, which needs lemmas about the folds of the community
modules (the function that a fold is defined by exists on the subsets of a finite set, and the sum changes by one summand
when one element is added), and
a loop that wrapped has a number above the range that LiteralKept speaks of. Then the four bytes of a number below `Byte ^ 4` put
together are that number, and `KInv` says what of the code has been emitted and printed at each step.

*The dump.* The lines of an item are nine, ten with the type of the body when it was checked. The proof
computes them from the functions of Dump (AreLines, ItemLines), which gives layout and words (LinesLaidOut, LinesSay); that the
names and literals in them are those of the file is Finished, by what the two leaves among its tokens are.

### AstContextProofs

For any texts, any finite memory, and any number of files and nodes
(`AstContextAssumption`: a free block and a corrupted one are not contents, NULL is not an address):

| Theorem | Property |
|---|---|
| StringsReadTheSame | NamesForGood |
| SourcesStay | SourcesKept |
| EachBlockOwnedOnce | OwnedOnce |

`AInv` says that every block in use is in exactly one place of the context
(Owners, Covered), that keys of the set of strings point at copies in the arena
or at nothing (Names), and that each file's block has the name and bytes it was
given (Files, Sources). Names stay because nothing writes to a block that is
owned, which needs ownership; that each block is freed once needs that no
operation puts a block in two places, which malloc promises only of blocks that
are FREE. EnsuredHasRoom is about `ensure_array_capacity`: its loop, a recursive function, ends and
makes the room asked for.

### OutputProofs

For any bytes of a file, any reports and other messages in any number, any names, any initial capacity, and
any number of interruptions and failures of `write(2)`:

| Theorem | Property |
|---|---|
| CharactersDecoded | DecodesOneCharacter, for all bytes and scalar values |
| MessagesWhole | MessageWhole |
| LinesSent | LineSent |

The assumptions (`OutputAssumption`, and GrowingArray's on the first capacity) are types, and that a call gives its format as many
strings and numbers as it has conversions for (`Supplied`), which C leaves to the caller; numbers are
those of a `uintmax_t`. What the reports of the code are is therefore an instance.

CharactersDecoded is arithmetic on the bits that the branches of `utf8_decode` put together: for
each length, what is assembled has the form that was read (DecodesAny); and bytes that begin with the
form of a character give that character, because the lead byte tells the length and the form the bits.

For the other two, neither property is inductive: what is in the array or at the terminal says
nothing of what is still to come. `Due` is what the Writer has still to write, the rest of
the call at hand and the calls after it. In a message, text so far and Due make the message (InMessage); while it is
sent, there is a `done`, the part of the line that was written or lost, such that done and Due make the
line, and what the terminal has is in done in its order (InSend). ReturnDue says what an error does to Due:
the digits of a number are dropped when a zero before them failed, and the last chunk when the result kept last was an error; a
failed `%s` drops nothing but its own bytes. What is dropped moves to done. FormattedIs and PrintedIs are about the writes of a
call: put together they are what the call means, and the digits are those of the number. That the array holds what was put there is AddedIs, with EnsuredHasRoom. The
recursive functions of the modules are dealt with step by step: such a function exists (StepsExist), and what holds
of it holds up to each number (UpTo, by least counterexample).

### Only model-checked

- All liveness: probes, reads, writes, lexing and parsing end. Temporal proofs
  under fairness and ENABLED are out of the prover's reach.
- LexesByGrammar: the reference, LexicalGrammar, is made of RECURSIVE operators, which the prover cannot
  reason about, and what they accept is an induction over files. The theorems of LexerProofs are about the
  lexer without the reference.

## Findings

Each is a run that must fail; `PROJECT.json` quotes the line it contradicts.

1. `io.c:44` reads `sizeof(capacity - *size)` bytes a time, 8. Capacities are
   multiples of 8 up to 5832; after 8748, a file of 8749 bytes overruns its
   buffer and its terminator is outside (read_larger_file).
2. `lex.c:402`: CR LF outside of comments counts as two lines (lex_crlf).
3. `type_checking.c:245`: a literal as return type (`def f() -> 1 { ... }`)
   passes typing and then reads through a NULL type (typing_literal).
4. `lex.c:598`: `characters_in_line` is not initialised, so a short first line
   may be refused with ColumnLimitExceeded (lex_residue).

The passing runs leave out what these concern: `read_file` has files up to 8748
bytes; in `lex`, CountedPositionsTrue and CountedLimitsExact do not speak of files with CR LF outside of
comments, LexesByGrammar does; `frontend` has literal return types and checks
what holds of them, while RefusesBySpec, which they violate, is the property of
`typing_literal`; in `lex` a first line may be refused when its count did not
start at 0. FirstWrongToken is about the token at which the parser stops, which
is right, and not about the one it reports (see `parse.y:175` below).

Noted while modelling, and not a run:

- `parse.y:175`: the location of `error` is that of what the recovery popped, not
  of the token that was met. For `def return` the report is "expected item, found
  keyword `def`": `def` is what an item begins with, and what is wrong is the `return`.
- `lex.c:196`: a tab in a line comment counts as one column, where other tabs go on to
  the tab stop. No token follows on that line but, in a file without a last line end, the
  end of the file, whose column is then too low. It came up in the proof of
  PositionsAsCounted; PositionsTrue says so (TabInLastComment), and the run has such files.
- `lex.c:240`: a `*` or `/` in a block comment that is not a delimiter is passed
  by without being counted, so such a line can be longer than the limit and columns after it
  are too low. The module has this too; the counting properties leave such comments out.
- `diagnostics.c:17,20`: a `StringRef` structure is passed to `%s`, which reads a `char const*`. It
  works where the structure's first word, its data, is passed in the same place
  (x86-64), and the spellings end with a nul. Reports takes the spelling to be printed.
- `diagnostics.c:163-166`: the report of a type mismatch never closes the quote around the actual type.
- No report sets a position, so the consumer's code for line and column is not reached.
- `FunctionItem_new` does not set `base.kind`; the only kind is 0 and the memory is what malloc gives.
- `Writer` results are ignored everywhere: after an error the rest of the line still
  goes out, and the exit code does not tell. LineSent says exactly that.
- Literals above `BIGINT_INLINE_MAX` are dumped as "<bigint>" or "0"; DumpTrue leaves them out.
- `token.h:39`: the tokens that begin with `>` are spelled in messages as those that begin with `<`.
- `spec/parsing.md:122-126`: the rules of literals have `("_" digit)*`, an underscore before every further digit, so
  that `11` is no literal. `lex.c:307-311` takes digits with or without, and `tests/lex/valid/tokens.zn:84-95` has both. The
  document is taken to be what is wrong: LexesByGrammar compares the lexer with the document in the files
  without two digits side by side, and with the rule of the tests in the others.
- `spec/parsing.md:50-89`: the rule for symbols lists no symbol with `%`, `&`, `|` or `~`, which are in `token.h:33-51`
  and `lex.c:547-568`. The run has no file with them.
- `spec/parsing.md:48`: the repetition in a block comment is greedy and its `.` matches delimiters, so that to
  the letter no block comment matches.
- `hash_map.c:84`: `buckets_count * 4` is a product of 32 bits, 0 at 2^30 buckets: `memset` then clears nothing,
  and a table of more than 3 * 2^27 entries starts from what `xmalloc` returned. The wraps with a `FIXME` (`:96`, `:167`) come later.
- `utf8_decode` accepts overlong two- and four-byte sequences (`encoding.c:43`, `:61`);
  DecodesOneCharacter allows them and nothing else.
- `BigInt_as_uint32` loses bit 31 and `BigInt_parse` wraps above 2^64 (the code
  has a FIXME). LiteralKept speaks of literals below 2^31, which an Int32 holds.
- `SystemFile_close` repeats after success and always ends with EBADF (`io.c:127`); its callers ignore the result.
- `DiagnosticEngine.has_errors` is overwritten by each diagnostic; harmless
  while there is one at most, which ExitTellsTheTruth includes.
- `compile` looks at neither `--quiet` nor `--expect-failure` when it succeeds.
- `emit_u32` asks for one element of four bytes in an array counted in bytes; no
  function has more than six bytes of code yet.

## Abstractions to know of

- Lexer: a byte order mark counts as a character of the file and not of the
  line, as in the code. Only the characters that matter to a run are in its
  alphabet. Literal values and interning are not in Lexer; the digit loop of
  `BigInt_parse` is in Compilation.
- Driver: a stage is a choice of outcome. A stage that ends the process (finding 3)
  is not one of them. Messages are a level and a category.
- SystemRead: bytes are their indices, the buffer an array of them; malloc does
  not fail (the code exits when it does).
- DeclMap and ScopeStack: declarations are opaque; one name in the run, because
  names do not interact in a scope.
- Compilation: the code is a sequence, so the growth of its array is not modelled. A
  second `type_check` in the same process, which the program does not make, is left out.
- Parser: the lookahead is read where it is used up, which is sound in this
  grammar because every state has either one rule to reduce by or tokens to
  shift. byacc's own steps after the end of the file are one action (Accept).
  Tokens have a kind and a value; those that no rule has are represented by one.
- Dump: a line is an indentation and what it shows, and a number its value.
- AstContext: a string has size 0 or 1; a block of the arena is one with its
  header; the set of strings is a sequence of keys, as IdMap promises, and its storage one
  block. malloc does not fail.
- Reports and Output: a unit is a word of fixed text, a letter of a name or a
  digit, and `write(2)` may cut between any two; backquotes are written as
  apostrophes. Conversions that no caller uses (`%i`, `%d`, `%x`) and negative
  numbers are left out. A token is its kind, with the text of a name or, for a literal, whether the
  integer is held inline and its value.

## What could come next

Every safety property that a passing run checks is proved, but for LexesByGrammar. For that one, LexicalGrammar
would have to be stated with recursive functions, and the lexer's invariant extended by what the grammar
makes of the characters passed, as ParserProofs does with the sentences of HierarchicalGrammar.

## Not modelled

- `hash_map_test.c`, `lex_fuzz.c` and `tests/`: callers of the modelled interfaces,
  read for what they expect of them. Build files.
- Overflow of sizes in `malloc.c` and `io.c` (FIXME in the code: sizes near 2^64)
  and the exit when memory runs out.
- The dump of function types, which no expression has, and the getters of `source.c`.
- Concurrency and crashes: one thread, and nothing is kept between runs.
