------------------------------- MODULE Output -------------------------------
(***************************************************************************)
(* How what the program says reaches the terminal: the engine of           *)
(* src/basic/diagnostic.c, array_writer.c, the consumer of                 *)
(* terminal_diagnostic_consumer.c, and SystemFile_write of io.c.           *)
(*                                                                         *)
(* One step of the message is one call of ArrayWriter_write, one step of   *)
(* what is sent is one call of write(2), which is external: it takes some  *)
(* of the units it is given, is interrupted, or fails at any call.         *)
(***************************************************************************)
EXTENDS Encoding, Reports, GrowingArray

CONSTANTS Files,        \* bytes of files that begin with no token
          Processes,    \* what a process may say: a sequence of jobs
          MaxSignals,   \* bounds on what write(2) does
          MaxFailures,
          path,         \* of the file in Files
          Characters    \* scalar values whose forms are among Files

(* A message is a diagnostic or what is written without one.               *)
Jobs(units) == Diagnostics(units) \cup [calls : Seq(Calls(units))]

ASSUME OutputAssumption ==
    /\ MaxSignals \in Nat /\ MaxFailures \in Nat
    /\ \A ch \in Characters : IsScalar(ch)
    /\ Files \subseteq Seq(0 .. 255) /\ Processes \subseteq Seq(Jobs(STRING))
    /\ path \in Seq(STRING) /\ program_name \in Seq(STRING)

VARIABLES
    pc,        \* "lex", "idle", "message", "send"
    file,      \* the bytes to be lexed
    jobs,      \* diagnostics and direct messages still to come
    job,       \* the one at hand, or the one before
    calls,     \* of a Writer, still to be made
    writes,    \* those of the call at hand still to be made
    res,       \* Writer_vformat: what it knows of the writes before
    writer,    \* the ArrayWriter of the builder
    sent,      \* what the terminal was given of the job
    signals, failures, failed   \* of write(2); whether one of this job failed

process == <<file, jobs, job>>
kernel == <<sent, signals, failures, failed>>
vars == <<pc, process, calls, writes, res, writer, kernel>>

JUNK == "junk"           \* what an array holds where nothing was stored

-----------------------------------------------------------------------------
(* lex_source at the first character, and do_syntax with what it says.     *)
Lexed(bytes) ==
    LET ch == utf8_decode(bytes, 1).ch
    IN IF ch = U_EOF THEN << >>
       ELSE IF ch = U_BAD THEN <<report_lex_error(path, "invalid UTF-8 encoding", "Error")>>
       ELSE <<report_unexpected_character(path, ch, "Error")>>

Lex == /\ pc = "lex"
       /\ jobs' = Lexed(file) /\ file' = << >>
       /\ pc' = "idle"
       /\ UNCHANGED <<job, calls, writes, res, writer, kernel>>

-----------------------------------------------------------------------------
IsDiagnostic(j) == "level" \in DOMAIN j

(* DiagnosticEngine_start_diagnostic: the writer is used again.            *)
StartDiagnostic ==
    /\ pc = "idle" /\ jobs # << >> /\ IsDiagnostic(Head(jobs))
    /\ job' = Head(jobs) /\ jobs' = Tail(jobs)
    /\ calls' = Head(jobs).calls /\ writes' = << >>
    /\ writer' = [writer EXCEPT !.size = 0]
    /\ sent' = << >> /\ failed' = FALSE
    /\ pc' = "message"
    /\ UNCHANGED <<file, res, signals, failures>>

StartDirect ==
    /\ pc = "idle" /\ jobs # << >> /\ ~IsDiagnostic(Head(jobs))
    /\ job' = Head(jobs) /\ jobs' = Tail(jobs)
    /\ calls' = Head(jobs).calls /\ writes' = << >>
    /\ sent' = << >> /\ failed' = FALSE
    /\ pc' = "send"
    /\ UNCHANGED <<file, res, writer, signals, failures>>

(* The next call: every result so far is forgotten.                        *)
Call == /\ pc \in {"message", "send"} /\ writes = << >> /\ calls # << >>
        /\ writes' = WritesOf(Head(calls)) /\ calls' = Tail(calls)
        /\ res' = "success"
        /\ UNCHANGED <<pc, process, writer, kernel>>

(* What is left of a call after a write with result r: the result of %s is *)
(* dropped, that of a chunk replaces the one before, a number stops at its *)
(* first error, which leaves out its digits if a zero was not written, and *)
(* the last chunk is written only after a success.                         *)
ResAfter(r) == IF Head(writes).part = "string" THEN res ELSE r

LeftAfter(r) ==
    LET rest == Tail(writes)
        after == {i \in 2 .. Len(rest) + 1 : rest[i - 1].part = "number"} \cup {Len(rest) + 1}
        more == IF Head(writes).part = "zero" /\ r # "success"
                THEN SubSeq(rest, Min(after), Len(rest)) ELSE rest
    IN IF more # << >> /\ Head(more).part = "last" /\ ResAfter(r) # "success"
       THEN << >> ELSE more

Return(r) == writes' = LeftAfter(r) /\ res' = ResAfter(r)

-----------------------------------------------------------------------------
(* ArrayWriter_write: what lies beyond stays, new room holds anything.     *)
ArrayWriter_write ==
    /\ pc = "message" /\ writes # << >>
    /\ LET bytes == Head(writes).bytes
           size == writer.size + Len(bytes)
           capacity == Ensured(writer.capacity, writer.size, Len(bytes))
           kept == SubSeq(writer.data, 1, writer.size) \o bytes
       IN writer' = [size |-> size, capacity |-> capacity,
                     data |-> kept \o [k \in 1 .. capacity - Len(kept) |->
                                         IF size + k <= writer.capacity
                                         THEN writer.data[size + k] ELSE JUNK]]
    /\ Return("success")
    /\ UNCHANGED <<pc, process, calls, kernel>>

Text == SubSeq(writer.data, 1, writer.size)

(* TerminalDiagnosticConsumer_handle.  No report sets a position.          *)
PositionCalls(d) ==
    (IF d.line > 0 THEN <<Str(<<":">>), Uint(d.line)>> ELSE << >>)
    \o (IF d.line > 0 /\ d.column > 0 THEN <<Str(<<":">>), Uint(d.column)>> ELSE << >>)

LevelText == [Info |-> ": info: ", Warning |-> ": warning: ", Error |-> ": error: "]

Handled(d) ==
    IF d.level = "Ignore" THEN << >>
    ELSE <<Str(IF d.source_name = << >> THEN program_name ELSE d.source_name)>>
         \o PositionCalls(d)
         \o <<Str(<<LevelText[d.level]>>), Str(Text), Str(<<"\n">>)>>

Emit == /\ pc = "message" /\ writes = << >> /\ calls = << >>
        /\ calls' = Handled(job)
        /\ pc' = "send"
        /\ UNCHANGED <<process, writes, res, writer, kernel>>

(* emit resets the writer behind the consumer.                             *)
Finish == /\ pc = "send" /\ writes = << >> /\ calls = << >>
          /\ writer' = IF IsDiagnostic(job) THEN [writer EXCEPT !.size = 0] ELSE writer
          /\ pc' = "idle"
          /\ UNCHANGED <<process, calls, writes, res, kernel>>

-----------------------------------------------------------------------------
(* SystemFile_write.                                                       *)
Sending == pc = "send" /\ writes # << >>

(* Slip: the loop does not look whether anything is left.                  *)
NothingToWrite == /\ Sending /\ Head(writes).bytes = << >>
                  /\ UNCHANGED vars

WriteReturns == /\ Sending /\ Head(writes).bytes = << >>
                /\ Return("success")
                /\ UNCHANGED <<pc, process, calls, writer, kernel>>

(* Slip: a short write is followed by one from the same place.             *)
WriteSomeInPlace ==
    /\ Sending
    /\ \E n \in 1 .. Len(Head(writes).bytes) :
         LET bytes == Head(writes).bytes IN
         /\ sent' = sent \o SubSeq(bytes, 1, n)
         /\ writes' = [writes EXCEPT ![1].bytes = SubSeq(@, 1, Len(bytes) - n)]
    /\ UNCHANGED <<pc, process, calls, res, writer, signals, failures, failed>>

WriteSome ==
    /\ Sending
    /\ \E n \in 1 .. Len(Head(writes).bytes) :
         LET bytes == Head(writes).bytes IN
         /\ sent' = sent \o SubSeq(bytes, 1, n)
         /\ writes' = [writes EXCEPT ![1].bytes = SubSeq(@, n + 1, Len(bytes))]
    /\ UNCHANGED <<pc, process, calls, res, writer, signals, failures, failed>>

WriteInterrupted == /\ Sending /\ Head(writes).bytes # << >>
                    /\ signals > 0 /\ signals' = signals - 1
                    /\ UNCHANGED <<pc, process, calls, writes, res, writer,
                                   sent, failures, failed>>

(* Any other errno: the rest of the write is lost.                         *)
WriteFails == /\ Sending /\ Head(writes).bytes # << >>
              /\ failures > 0 /\ failures' = failures - 1
              /\ failed' = TRUE
              /\ Return("errno")
              /\ UNCHANGED <<pc, process, calls, writer, sent, signals>>

-----------------------------------------------------------------------------
Init == /\ \/ pc = "lex" /\ file \in Files /\ jobs = << >>
           \/ pc = "idle" /\ file = << >> /\ jobs \in Processes
        /\ job = [calls |-> << >>] /\ calls = << >> /\ writes = << >> /\ res = "success"
        /\ writer = [data |-> << >>, size |-> 0, capacity |-> 0]
        /\ sent = << >> /\ failed = FALSE
        /\ signals \in 0 .. MaxSignals /\ failures \in 0 .. MaxFailures

Next == \/ Lex \/ StartDiagnostic \/ StartDirect \/ Call \/ ArrayWriter_write
        \/ Emit \/ Finish \/ WriteReturns \/ WriteSome \/ WriteInterrupted \/ WriteFails

(* The program goes on and write comes back; nobody owes it an error.      *)
GoesOn == \/ Lex \/ StartDiagnostic \/ StartDirect \/ Call \/ ArrayWriter_write
          \/ Emit \/ Finish \/ WriteReturns \/ WriteSome

Spec == Init /\ [][Next]_vars /\ WF_vars(GoesOn)

-----------------------------------------------------------------------------
(* The message handed to the consumer is what the report says, with every  *)
(* number in its width, however the array it is put together in has grown; *)
(* and it lies in the array.                                               *)
MessageWhole == pc = "send" /\ IsDiagnostic(job) =>
                    /\ Text = Message(job.calls)
                    /\ Len(writer.data) = writer.capacity

(* All of some is in all, in its order.                                    *)
InPlace(some, all) ==
    LET met[i \in 0 .. Len(all)] ==
            IF i = 0 THEN 0
            ELSE LET m == met[i - 1]
                 IN IF m < Len(some) /\ some[m + 1] = all[i] THEN m + 1 ELSE m
    IN met[Len(all)] = Len(some)

Line(j) == IF ~IsDiagnostic(j) THEN Message(j.calls)
           ELSE IF j.level = "Ignore" THEN << >>
           ELSE (IF j.source_name = << >> THEN program_name ELSE j.source_name)
                \o <<LevelText[j.level]>> \o Message(j.calls) \o <<"\n">>

(* What is sent is the line from its start, whole when all is done; after  *)
(* errors, which nobody looks at, some of it may be missing, but the rest  *)
(* is in its place and nothing is sent twice.                              *)
LineSent == /\ ~failed => IsPrefix(sent, Line(job))
            /\ InPlace(sent, Line(job))
            /\ pc = "idle" /\ ~failed => sent = Line(job)

(* The first character of a file: what is decoded has, in UTF-8, the form  *)
(* that was read, or an overlong form of two or four bytes; a character in *)
(* its shortest form is decoded, and the cursor does not pass the limit.   *)
DecodesOneCharacter ==
    pc = "lex" =>
        LET d == utf8_decode(file, 1)
            read == SubSeq(file, 1, d.cursor - 1)
        IN /\ d.cursor - 1 <= Len(file)
           /\ d.ch >= 0 => \/ IsScalar(d.ch) /\ read = Utf8(d.ch)
                           \/ /\ Len(read) \in {2, 4} /\ Shortest(d.ch) < Len(read)
                              /\ read = Form(d.ch, Len(read))
           /\ \A ch \in Characters : IsPrefix(Utf8(ch), file) => d.ch = ch

(* However writes are cut up and interrupted, what is said comes to an end. *)
OutputReturns == <>(pc = "idle" /\ jobs = << >>)
=============================================================================
