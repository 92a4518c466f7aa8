----------------------------- MODULE AstContext -----------------------------
(***************************************************************************)
(* src/ast/context.c: the owner of everything a compilation keeps.  Nodes  *)
(* and copies of strings are chunks of an arena; the set of strings, the   *)
(* array of files and the bytes of each file are blocks of their own.      *)
(*                                                                         *)
(* memory says what is in the block at an address; an arena chunk is one   *)
(* block with its header.  malloc takes the lowest free address, so what   *)
(* is freed is used again at once.  The set of strings is taken at the     *)
(* level of IdMap, with its storage as one block.  The caller has one      *)
(* buffer, which it passes to the operations and fills anew between them.  *)
(***************************************************************************)
EXTENDS GrowingArray, FiniteSetsExt, SequencesExt

CONSTANTS Texts,         \* contents of strings and of files
          NoText,        \* the one of size 0
          Addresses,     \* of blocks, numbers; the bound on memory
          MaxFiles,      \* bound on the files of a context
          Nodes,         \* the types and their expressions made by AstContext_new
          NULL, FREE, CORRUPTED

BUFFER == 0              \* where the caller's buffer is

(* What can be in a block, and what a pointer to a context can point to.   *)
StringRefs == [data : Addresses \cup {NULL}, size : {0, 1}]
Blocks == [kind : {"context", "set", "node", "none"}]
          \cup [kind : {"string"}, text : Texts]
          \cup [kind : {"bytes"}, text : Texts, nul : {TRUE}]
          \cup [kind : {"source"}, path : StringRefs, data : Addresses]
          \cup [kind : {"array"}, capacity : Nat, items : Seq(Addresses)]
Contexts == [at : Addresses, string_set : Seq(StringRefs), storage : Addresses,
             arena : Seq(Addresses), files : Addresses \cup {NULL},
             files_size : Nat, files_capacity : Nat]

ASSUME AstContextAssumption ==
    /\ NoText \in Texts /\ MaxFiles \in Nat /\ Nodes \in Nat
    /\ Addresses \subseteq Nat \ {BUFFER} /\ IsFiniteSet(Addresses)
    /\ {FREE, CORRUPTED} \cap Blocks = {} /\ FREE # CORRUPTED
    /\ NULL \notin Addresses \cup Contexts

VARIABLES memory, buffer,
          ast,               \* struct AstContext, NULL before and after
          strings, sources   \* what was returned, and for what

vars == <<memory, buffer, ast, strings, sources>>

-----------------------------------------------------------------------------
(* xmalloc and xfree on a memory m.                                        *)
Place(m) == Min({a \in Addresses : m[a] = FREE})
Put(m, content) == [m EXCEPT ![Place(m)] = content]
HasRoom(n) == Cardinality({a \in Addresses : memory[a] = FREE}) >= n

xfree(m, a) == IF a = NULL THEN m
               ELSE [m EXCEPT ![a] = IF @ = FREE THEN CORRUPTED ELSE FREE]

(* xfree of each of some blocks; the second one of an address is an error. *)
xfreeAll(m, blocks) ==
    LET times(a) == Cardinality({k \in DOMAIN blocks : blocks[k] = a})
    IN [a \in Addresses |-> IF times(a) = 0 THEN m[a]
                            ELSE IF times(a) = 1 /\ m[a] # FREE THEN FREE ELSE CORRUPTED]

(* A StringRef into a block or into the caller's buffer.                   *)
InBuffer == [data |-> BUFFER, size |-> IF buffer = NoText THEN 0 ELSE 1]
Text(string) == IF string.size = 0 THEN NoText
                ELSE IF string.data = BUFFER THEN buffer
                ELSE memory[string.data].text

(* Arena_allocate, for a context c and a memory m.                         *)
Allocated(c, m) == [c EXCEPT !.arena = <<Place(m)>> \o @]

-----------------------------------------------------------------------------
(* The context, the storage of its set of strings and its first nodes.     *)
New == /\ ast = NULL /\ HasRoom(Nodes + 2)
       /\ LET place == CHOOSE p \in [1 .. Nodes + 2 -> {a \in Addresses : memory[a] = FREE}] :
                           IsInjective(p)
              content(a) == CASE a = place[1] -> [kind |-> "context"]
                              [] a = place[2] -> [kind |-> "set"]
                              [] a \in Range(place) \ {place[1], place[2]} -> [kind |-> "node"]
                              [] a \notin Range(place) -> memory[a]
          IN /\ memory' = [a \in Addresses |-> content(a)]
             /\ ast' = [at |-> place[1], string_set |-> << >>, storage |-> place[2],
                        arena |-> [k \in 1 .. Nodes |-> place[k + 2]],
                        files |-> NULL, files_size |-> 0, files_capacity |-> 0]
       /\ UNCHANGED <<buffer, strings, sources>>

(* Slip: the string that was passed becomes the key.                       *)
InternedUncopied(c, m, value) ==
    LET known == {k \in Range(c.string_set) : Text(k) = Text(value)} IN
    IF known # {} THEN [context |-> c, memory |-> m, string |-> CHOOSE k \in known : TRUE]
    ELSE [context |-> [c EXCEPT !.string_set = Append(@, value)],
          memory |-> m, string |-> value]

(* AstContext_add_string: the key that is equal, or a copy that becomes    *)
(* one.  A copy of size 0 is NULL, in a chunk all the same.                *)
Interned(c, m, value) ==
    LET known == {k \in Range(c.string_set) : Text(k) = Text(value)}
        copy == [data |-> IF value.size = 0 THEN NULL ELSE Place(m), size |-> value.size]
    IN
    IF known # {} THEN [context |-> c, memory |-> m, string |-> CHOOSE k \in known : TRUE]
    ELSE [context |-> [Allocated(c, m) EXCEPT !.string_set = Append(@, copy)],
          memory |-> Put(m, [kind |-> "string", text |-> Text(value)]),
          string |-> copy]

AddString ==
    /\ ast # NULL /\ HasRoom(1)
    /\ LET result == Interned(ast, memory, InBuffer) IN
         /\ ast' = result.context /\ memory' = result.memory
         /\ strings' = strings \cup {[text |-> buffer, string |-> result.string]}
    /\ UNCHANGED <<buffer, sources>>

(* AstContext_allocate, for a node of the tree.                            *)
Allocate == /\ ast # NULL /\ HasRoom(1)
            /\ ast' = Allocated(ast, memory)
            /\ memory' = Put(memory, [kind |-> "node"])
            /\ UNCHANGED <<buffer, strings, sources>>

-----------------------------------------------------------------------------
(* add_file, for the block at data, which the context takes over.  realloc *)
(* may find the array a new place.                                         *)
AddFile(c, m, path, data) ==
    LET named == Interned(Allocated(c, m), Put(m, [kind |-> "none"]), path)
        source == [kind |-> "source", path |-> named.string, data |-> data]
        filled == [named.memory EXCEPT ![Place(m)] = source]
        capacity == Ensured(c.files_capacity, c.files_size, 1)
        grows == capacity # c.files_capacity
        items == IF c.files = NULL THEN << >> ELSE m[c.files].items
        room == IF grows THEN xfree(filled, c.files) ELSE filled
        files == IF grows THEN Place(room) ELSE c.files
    IN [source |-> Place(m),
        memory |-> [room EXCEPT ![files] = [kind |-> "array", capacity |-> capacity,
                                            items |-> Append(items, Place(m))]],
        context |-> [named.context EXCEPT !.files = files, !.files_capacity = capacity,
                                          !.files_size = @ + 1]]

Bytes(text) == [kind |-> "bytes", text |-> text, nul |-> TRUE]

NewSource(result, text) ==
    /\ ast' = result.context /\ memory' = result.memory
    /\ sources' = sources \cup {[at |-> result.source, path |-> buffer, text |-> text]}
    /\ UNCHANGED <<buffer, strings>>

CanAddFile == ast # NULL /\ ast.files_size < MaxFiles /\ HasRoom(4)

(* AstContext_source_from_file: read_all hands over a block (SystemRead).  *)
SourceFromFile(text) ==
    /\ CanAddFile
    /\ NewSource(AddFile(ast, Put(memory, Bytes(text)), InBuffer, Place(memory)), text)

(* AstContext_source_from_bytes.  Slip: the bytes are not copied.          *)
SourceFromOwnBytes ==
    /\ CanAddFile
    /\ NewSource(AddFile(ast, memory, InBuffer, BUFFER), buffer)

SourceFromBytes ==
    /\ CanAddFile
    /\ NewSource(AddFile(ast, Put(memory, Bytes(buffer)), InBuffer, Place(memory)), buffer)

-----------------------------------------------------------------------------
FileData == LET items == IF ast.files = NULL THEN << >> ELSE memory[ast.files].items
            IN [k \in 1 .. ast.files_size |-> memory[items[k]].data]

(* Slip: the bytes of the files stay.                                      *)
DeleteNoData ==
    /\ ast # NULL
    /\ memory' = xfreeAll(memory, <<ast.files, ast.storage>> \o ast.arena \o <<ast.at>>)
    /\ ast' = NULL /\ strings' = {} /\ sources' = {}
    /\ UNCHANGED buffer

(* AstContext_delete; what was returned is dead with it.                   *)
Delete ==
    /\ ast # NULL
    /\ memory' = xfreeAll(memory, FileData \o <<ast.files, ast.storage>>
                                  \o ast.arena \o <<ast.at>>)
    /\ ast' = NULL /\ strings' = {} /\ sources' = {}
    /\ UNCHANGED buffer

(* The caller fills its buffer with something else.                        *)
Refill(text) == /\ buffer' = text
                /\ UNCHANGED <<memory, ast, strings, sources>>

Init == /\ memory = [a \in Addresses |-> FREE]
        /\ buffer \in Texts
        /\ ast = NULL /\ strings = {} /\ sources = {}

Next == \/ New \/ AddString \/ Allocate \/ SourceFromBytes \/ Delete
        \/ \E text \in Texts : SourceFromFile(text) \/ Refill(text)

Spec == Init /\ [][Next]_vars

-----------------------------------------------------------------------------
(* A string that was returned reads the same for good, whatever the caller *)
(* does to its buffer, and equal strings are one: the keys of the set, and *)
(* the names the type checker compares by their hash and bytes, stay.      *)
NamesForGood ==
    /\ \A s \in strings : Text(s.string) = s.text
    /\ \A s, t \in strings : s.text = t.text => s.string = t.string

(* "Source file owned by an AstContext. data is nul-terminated": every     *)
(* source that was returned has the path and the bytes it was made with,   *)
(* and is in the array of files, which has room for it.                    *)
SourcesKept ==
    /\ \A f \in sources :
         /\ Text(memory[f.at].path) = f.path
         /\ memory[f.at].data \in Addresses /\ memory[memory[f.at].data] = Bytes(f.text)
         /\ f.at \in Range(memory[ast.files].items)
    /\ ast # NULL => ast.files_size <= ast.files_capacity

(* Every block that is not free belongs to one owner and to no second one, *)
(* so the context frees each exactly once; without a context none is left. *)
OwnedOnce ==
    LET owned == IF ast = NULL THEN << >>
                 ELSE FileData \o <<ast.at, ast.storage>> \o ast.arena
                      \o (IF ast.files = NULL THEN << >> ELSE <<ast.files>>)
    IN /\ IsInjective(owned)
       /\ Range(owned) = {a \in Addresses : memory[a] # FREE}
       /\ CORRUPTED \notin Range(memory)
=============================================================================
