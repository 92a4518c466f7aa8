------------------------------ MODULE Encoding ------------------------------
(***************************************************************************)
(* utf8_decode of src/support/encoding.c, and what UTF-8 is.  A file is a  *)
(* sequence of bytes with a nul after it, at the limit.                    *)
(***************************************************************************)
EXTENDS Integers, Sequences, FiniteSetsExt, SequencesExt

U_EOF == -1
U_BAD == -2

lengths(byte) == CASE byte < 128 -> 1
                   [] byte \in 192 .. 223 -> 2
                   [] byte \in 224 .. 239 -> 3
                   [] byte \in 240 .. 247 -> 4
                   [] OTHER -> 0

is_utf8_continuation(byte) == byte \in 128 .. 191

ByteAt(data, i) == IF i <= Len(data) THEN data[i] ELSE 0

(* The bits of a lead byte for the character, then six of each byte after. *)
Assembled(data, cursor, length) ==
    LET bits[k \in 0 .. length - 1] ==
            IF k = 0 THEN data[cursor] % (CASE length = 1 -> 128 [] length = 2 -> 32
                                            [] length = 3 -> 16 [] OTHER -> 8)
            ELSE bits[k - 1] * 64 + (data[cursor + k] % 64)
    IN bits[length - 1]

(* Slip: the ends of the range of surrogates are characters.               *)
RefusedInside(length, ch) ==
    \/ length = 3 /\ (ch < 2048 \/ (ch > 55296 /\ ch < 57343))
    \/ length = 4 /\ ch > 1114111

(* Overlong forms and surrogates are refused in three bytes only.          *)
Refused(length, ch) == \/ length = 3 /\ (ch < 2048 \/ (ch >= 55296 /\ ch <= 57343))
                       \/ length = 4 /\ ch > 1114111

utf8_decode(data, cursor) ==
    LET length == lengths(ByteAt(data, cursor))
        wrong == {i \in 1 .. length - 1 : ~is_utf8_continuation(ByteAt(data, cursor + i))}
    IN IF cursor > Len(data) THEN [ch |-> U_EOF, cursor |-> cursor]
       ELSE IF wrong # {} THEN [ch |-> U_BAD, cursor |-> cursor + Min(wrong)]
       ELSE IF length = 0 THEN [ch |-> U_BAD, cursor |-> cursor + 1]
       ELSE LET ch == Assembled(data, cursor, length)
            IN [ch |-> IF Refused(length, ch) THEN U_BAD ELSE ch, cursor |-> cursor + length]

-----------------------------------------------------------------------------
(* UTF-8: the shortest form of every scalar value.                         *)
IsScalar(ch) == ch \in Nat /\ ch <= 1114111 /\ ~(ch >= 55296 /\ ch <= 57343)

Shortest(ch) == CASE ch < 128 -> 1
                  [] ch >= 128 /\ ch < 2048 -> 2
                  [] ch >= 2048 /\ ch < 65536 -> 3
                  [] ch >= 65536 -> 4

LeadByte(length) == CASE length = 1 -> 0 [] length = 2 -> 192 [] length = 3 -> 224 [] OTHER -> 240

Weight == <<1, 64, 64 * 64, 64 * 64 * 64>>

Form(ch, length) ==
    [i \in 1 .. length |->
        LET bits == ch \div Weight[length - i + 1]
        IN IF i = 1 THEN LeadByte(length) + bits ELSE 128 + (bits % 64)]

Utf8(ch) == Form(ch, Shortest(ch))
=============================================================================
