----------------------------- MODULE SystemRead -----------------------------
(***************************************************************************)
(* src/support/io.c, the reading half: the life of one source file, from   *)
(* SystemFile_open_read through SystemFile_read_all and the SystemFile_read *)
(* it calls, to SystemFile_close, in the order do_command calls them.  One *)
(* step is one system call with the code up to the next one.  The kernel   *)
(* is external: read may be short, interrupted or fail at any call.        *)
(*                                                                         *)
(* The bytes themselves are left out: byte i of the file belongs at        *)
(* data[i], so the two cursors (kernel's and program's) say it all.        *)
(***************************************************************************)
EXTENDS Naturals, FiniteSetsExt

CONSTANTS FileSizes,        \* sizes of the file that is read
          InitialCapacity,  \* 512 in SystemFile_read_all
          SizeofSize,       \* sizeof(size_t), the most one chunk asks for
          MaxSignals        \* signals that arrive during the run

ASSUME SystemReadAssumption ==
    /\ FileSizes \subseteq Nat
    /\ InitialCapacity \in Nat /\ InitialCapacity >= 2
    /\ SizeofSize \in Nat \ {0}
    /\ MaxSignals \in Nat

VARIABLES
    read_pc,    \* the system call about to be made, or where the result is known
    file_size, left,    \* kernel: bytes of the file, bytes not read yet
    signals,            \* kernel: signals still to arrive
    fd,                 \* kernel: "none", "stdin", "open", "closed"
    allocated,  \* bytes behind *data, 0 when it is not owned
    capacity, size,     \* locals of SystemFile_read_all
    at, room, chunk_read,  \* SystemFile_read: data (as an offset), size, *out_size_read
    terminator,         \* where the nul was stored
    res                 \* "none", "success", "errno"

buffer == <<allocated, capacity, size>>
chunk == <<at, room, chunk_read>>
read_vars == <<read_pc, file_size, left, signals, fd, buffer, chunk, terminator, res>>

-----------------------------------------------------------------------------
NoTerminator == file_size + InitialCapacity + 1   \* past any place it can be at

ReadInit == /\ read_pc \in {"open", "alloc"}
            /\ fd = IF read_pc = "open" THEN "none" ELSE "stdin"
            /\ file_size \in FileSizes /\ left = file_size
            /\ signals \in 0 .. MaxSignals
            /\ allocated = 0 /\ capacity = 0 /\ size = 0
            /\ at = 0 /\ room = 0 /\ chunk_read = 0
            /\ terminator = NoTerminator
            /\ res = "none"

(* Slip: EINTR during read is handled as a read of no bytes.               *)
InterruptedIsEnd == /\ read_pc \in {"open", "read"}
                    /\ signals > 0 /\ signals' = signals - 1
                    /\ read_pc' = IF read_pc = "read" THEN "chunk" ELSE read_pc
                    /\ UNCHANGED <<file_size, left, fd, buffer, chunk, terminator, res>>

(* EINTR: the same call is made again with the same arguments.             *)
Interrupted == /\ read_pc \in {"open", "read"}
               /\ signals > 0 /\ signals' = signals - 1
               /\ UNCHANGED <<read_pc, file_size, left, fd, buffer, chunk, terminator, res>>

(* open, then fstat: a directory, or a file that cannot be looked at, is   *)
(* closed again and reported.                                              *)
OpenRead == /\ read_pc = "open"
            /\ \/ /\ fd' = "open" /\ read_pc' = "alloc" /\ UNCHANGED res
               \/ /\ fd' = "none" /\ read_pc' = "exit" /\ res' = "errno"
               \/ /\ fd' = "closed" /\ read_pc' = "exit" /\ res' = "errno"
            /\ UNCHANGED <<file_size, left, signals, buffer, chunk, terminator>>

Grown(n) == n + n \div 2

(* Slip: the buffer grows one chunk late.                                  *)
StartChunkLate(cap, sz) ==
    /\ capacity' = cap /\ size' = sz
    /\ allocated' = IF sz > allocated THEN cap ELSE allocated
    /\ at' = sz /\ room' = SizeofSize /\ chunk_read' = 0 /\ read_pc' = "read"

(* The first part of an iteration of read_all: room for at least one byte, *)
(* then SystemFile_read is asked for sizeof(capacity - size) bytes, which  *)
(* is the size of a size_t and not the number of free bytes.               *)
StartChunk(cap, sz) == /\ capacity' = cap /\ allocated' = cap /\ size' = sz
                       /\ at' = sz /\ room' = SizeofSize /\ chunk_read' = 0
                       /\ read_pc' = "read"

Allocate == /\ read_pc = "alloc"
            /\ StartChunk(InitialCapacity, 0)
            /\ UNCHANGED <<file_size, left, signals, fd, terminator, res>>

(* Slip: after a short read the next one goes to the same place.           *)
ReadBytesInPlace ==
    /\ read_pc = "read"
    /\ \E nread \in 1 .. Min({left, room}) :
         /\ left' = left - nread
         /\ room' = room - nread
         /\ chunk_read' = chunk_read + nread
         /\ UNCHANGED at
    /\ UNCHANGED <<read_pc, file_size, signals, fd, buffer, terminator, res>>

(* read: some bytes, at most as many as were asked for.                    *)
ReadBytes == /\ read_pc = "read"
             /\ \E nread \in 1 .. Min({left, room}) :
                  /\ left' = left - nread
                  /\ at' = at + nread
                  /\ room' = room - nread
                  /\ chunk_read' = chunk_read + nread
             /\ UNCHANGED <<read_pc, file_size, signals, fd, buffer, terminator, res>>

(* Slip: only the end of the file ends a chunk.                            *)
ReadNothingAtEnd ==
    /\ read_pc = "read" /\ (left = 0 \/ room = 0)
    /\ read_pc' = IF left = 0 THEN "chunk" ELSE "read"
    /\ UNCHANGED <<file_size, left, signals, fd, buffer, chunk, terminator, res>>

(* read answers 0 at the end of the file and when it is asked for nothing; *)
(* SystemFile_read returns.                                                *)
ReadNothing == /\ read_pc = "read" /\ (left = 0 \/ room = 0)
               /\ read_pc' = "chunk"
               /\ UNCHANGED <<file_size, left, signals, fd, buffer, chunk, terminator, res>>

(* Where the caller goes from read_all: do_command closes what it opened.  *)
AfterReadAll == IF fd = "open" THEN "close" ELSE "exit"

(* Slip: the caller leaves at once.                                        *)
ReadAllFailsUnclosed ==
    /\ read_pc = "read"
    /\ allocated' = 0
    /\ res' = "errno"
    /\ read_pc' = "exit"
    /\ UNCHANGED <<file_size, left, signals, fd, capacity, size, chunk, terminator>>

(* Any other errno: what was read is freed and the error handed up.        *)
ReadAllFails == /\ read_pc = "read"
                /\ allocated' = 0
                /\ res' = "errno"
                /\ read_pc' = AfterReadAll
                /\ UNCHANGED <<file_size, left, signals, fd, capacity, size, chunk, terminator>>

(* The rest of the iteration after a chunk with bytes, and the beginning   *)
(* of the next one.  The difference capacity - size is unsigned: it is     *)
(* zero only when the two are equal.                                       *)
NextChunk == /\ read_pc = "chunk" /\ chunk_read > 0
             /\ LET sz == size + chunk_read IN
                  StartChunk(IF capacity = sz THEN Grown(capacity) ELSE capacity, sz)
             /\ UNCHANGED <<file_size, left, signals, fd, terminator, res>>

(* After an empty chunk: nul-terminate.                                    *)
LastChunk == /\ read_pc = "chunk" /\ chunk_read = 0
             /\ allocated' = IF capacity = size THEN capacity + 1 ELSE allocated
             /\ terminator' = size
             /\ res' = "success"
             /\ read_pc' = AfterReadAll
             /\ UNCHANGED <<file_size, left, signals, fd, capacity, size, chunk>>

(* close is repeated after it has succeeded, and so ends with an error the *)
(* caller ignores.  An interrupted close may or may not have closed.       *)
Close == /\ read_pc = "close"
         /\ \/ fd = "open" /\ fd' = "closed" /\ UNCHANGED <<read_pc, signals>>
            \/ /\ signals > 0 /\ signals' = signals - 1
               /\ fd' \in {fd, "closed"}
               /\ UNCHANGED read_pc
            \/ read_pc' = "exit" /\ fd = "closed" /\ UNCHANGED <<fd, signals>>
         /\ UNCHANGED <<file_size, left, buffer, chunk, terminator, res>>

ReadNext == \/ Interrupted \/ OpenRead \/ Allocate
            \/ ReadBytes \/ ReadNothing \/ ReadAllFails
            \/ NextChunk \/ LastChunk \/ Close

(* The program always goes on and the calls come back; an error that could *)
(* come need not, and signals are not owed either.                         *)
GoesOn == OpenRead \/ Allocate \/ ReadBytes \/ ReadNothing
          \/ NextChunk \/ LastChunk \/ Close

ReadSpec == ReadInit /\ [][ReadNext]_read_vars /\ WF_read_vars(GoesOn)

-----------------------------------------------------------------------------
(* Byte i of the file is stored at data[i]: the place of the next byte is  *)
(* the number of bytes read so far, through short reads, interruptions and *)
(* growth of the buffer (the program keeps three cursors for this); and it *)
(* lies in the buffer that is owned at that moment.                        *)
BytesInOrder == read_pc \in {"read", "chunk"} =>
                    /\ at = file_size - left /\ at <= allocated
                    /\ at = size + chunk_read

(* What read_all promises of a success: the whole file, and a nul byte     *)
(* after it that lies in the buffer (ast/source.h:7-8, on which the lexer  *)
(* relies to stop).                                                        *)
NulTerminated == res = "success" =>
                     /\ left = 0 /\ size = file_size
                     /\ terminator = size /\ terminator < allocated

(* A file that was opened is closed on every path, and a buffer survives   *)
(* only as the result of a success.                                        *)
NothingLeaked == read_pc = "exit" => /\ fd # "open"
                                     /\ allocated > 0 <=> res = "success"

(* Reading ends, though a chunk ends only with a read that returns no      *)
(* bytes and close is repeated until it fails.                             *)
ReadAllReturns == <>(read_pc = "exit")
=============================================================================
