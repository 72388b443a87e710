---------------------------- MODULE CharStreams ----------------------------
(***************************************************************************)
(* The character writers and the strings under them: a buffer, an offset   *)
(* into it, and the place a full buffer goes to.                           *)
(*   "memory"    MemoryCharStreamWriter: the caller's buffer, text beyond  *)
(*               it is dropped                                             *)
(*   "file"      FileCharStreamWriter: the buffer is written to the file   *)
(*   "inplace"   VirtualStringWriter on an InplaceString of fixed size     *)
(*   "dynamic"   VirtualStringWriter on a DynamicString that grows         *)
(* The characters handed over are 1, 2, 3, ... in the order they are given *)
(* so that a lost, repeated or misplaced one shows; 0 is the terminator or *)
(* whatever the memory held.                                               *)
(***************************************************************************)
EXTENDS Naturals, Sequences

CONSTANTS BufferSizes,    \* of memory, file and in-place buffers
          Lengths,        \* of one piece of text
          MaxDynamicSize, \* getMaxBufferSize() of a DynamicString: 2^32 - 1
          MaxGiven        \* bound: characters given in one behaviour

\* No behaviour of the model fills the largest DynamicString.
ASSUME StreamsAssumption ==
    /\ BufferSizes \subseteq Nat \ {0} /\ Lengths \subseteq Nat
    /\ MaxGiven \in Nat /\ MaxDynamicSize \in Nat
    /\ 2 * MaxGiven + 16 < MaxDynamicSize

VARIABLES kind,    \* the writer, "absent" when there is none
          open,    \* the writer is open
          buffer,  \* its memory, a string's own
          offset,  \* bufferOffset
          length,  \* DynamicString::length, InplaceString::length
          file,    \* what the file holds
          given,   \* ghost: how many characters were given and not truncated
          fault    \* "none", or how the memory or the text was spoiled

writerVars == <<kind, open, buffer, offset, length, file, given, fault>>

Smaller(a, b) == IF a < b THEN a ELSE b
Larger(a, b) == IF a > b THEN a ELSE b

size == Len(buffer)   \* bufferSize

InitialBufferSize == 16
\* getMaxBufferSize().
maxBufferSize == IF kind = "dynamic" THEN MaxDynamicSize ELSE size

\* n more characters.
Piece(n) == [i \in 1..n |-> given + i]

\* memoryCopy of text to memory + at; reallocation to a larger size.
Copied(memory, at, chars) ==
    [i \in 1..Len(memory) |->
        IF i > at /\ i <= at + Len(chars) THEN chars[i - at] ELSE memory[i]]
Grown(memory, newSize) ==
    [i \in 1..Larger(newSize, Len(memory)) |-> IF i <= Len(memory) THEN memory[i] ELSE 0]

WriterInit ==
    /\ kind \in {"memory", "file", "inplace", "dynamic"}
    /\ open = TRUE
    /\ \E n \in IF kind = "dynamic" THEN {0} ELSE BufferSizes :
          buffer = [i \in 1..n |-> 0]
    /\ offset = 0
    /\ length = 0
    /\ file = <<>>
    /\ given = 0
    /\ fault = "none"

Writes(kinds, n) ==
    /\ kind \in kinds
    /\ open
    /\ fault = "none"
    /\ given + n <= MaxGiven
    /\ given' = given + n

-----------------------------------------------------------------------------
\* MemoryCharStreamWriter

\* put, write(data, length), write(cstr): what fits is copied.
MemoryWrite(n) ==
    LET fits == Smaller(n, size - offset)
    IN /\ Writes({"memory"}, n)
       /\ buffer' = Copied(buffer, offset, SubSeq(Piece(n), 1, fits))
       /\ offset' = offset + fits
       /\ UNCHANGED <<kind, open, length, file, fault>>

MemoryNullTerminate ==
    /\ Writes({"memory"}, 0)
    /\ buffer' = Copied(buffer, IF offset < size THEN offset ELSE size - 1, <<0>>)
    /\ UNCHANGED <<kind, open, offset, length, file, fault>>

-----------------------------------------------------------------------------
\* FileCharStreamWriter

\* A mutant: a buffer that is exactly full is left for the next call.
Fills_WhenOverfull(n) == IF n = 0 THEN 0 ELSE (n - 1) \div size

\* How many times n characters fill the buffer.
Fills(n) == n \div size

\* put and write(cstr): characters are stored one by one and the buffer is
\* written out whenever it is full.
FileWriteCStr(n) ==
    LET all == SubSeq(buffer, 1, offset) \o Piece(n)
        out == Fills(Len(all)) * size
        last == IF out = 0 THEN buffer ELSE SubSeq(all, out - size + 1, out)
    IN /\ Writes({"file"}, n)
       /\ file' = file \o SubSeq(all, 1, out)
       /\ buffer' = Copied(last, 0, SubSeq(all, out + 1, Len(all)))
       /\ offset' = Len(all) - out
       /\ UNCHANGED <<kind, open, length, fault>>

\* write(data, length).  The piece that fills the buffer is not copied into it
\* before the buffer is written out.
FileWrite(n) ==
    LET free == size - offset
        piece == Piece(n)
    IN /\ Writes({"file"}, n)
       /\ \/ /\ n > size
             /\ file' = file \o SubSeq(buffer, 1, offset) \o piece
             /\ offset' = 0
             /\ UNCHANGED <<buffer, fault>>
          \/ /\ n <= size
             /\ n >= free
             /\ file' = file \o buffer
             /\ buffer' = Copied(buffer, 0, SubSeq(piece, free + 1, n))
             /\ offset' = n - free
             /\ fault' = "first part lost"
          \/ /\ n < free
             /\ buffer' = Copied(buffer, offset, piece)
             /\ offset' = offset + n
             /\ UNCHANGED <<file, fault>>
       /\ UNCHANGED <<kind, open, length>>

\* flush, and close, which flushes and lets go of the buffer.
FileFlush(closing) ==
    /\ Writes({"file"}, 0)
    /\ file' = file \o SubSeq(buffer, 1, offset)
    /\ offset' = 0
    /\ open' = ~closing
    /\ buffer' = IF closing THEN <<>> ELSE buffer
    /\ UNCHANGED <<kind, length, fault>>

-----------------------------------------------------------------------------
\* VirtualStringWriter

\* growBufferExponentially: at least required, twice the size up to the maximum.
Enlarged(old, required) ==
    IF required <= old THEN old
    ELSE Larger(required, Smaller(2 * old, maxBufferSize))

StringPut ==
    LET full == size < offset + 2 /\ size = maxBufferSize
    IN /\ Writes({"inplace", "dynamic"}, 1)
       /\ IF full THEN UNCHANGED <<buffer, offset>>
          ELSE /\ buffer' = Copied(Grown(buffer, Enlarged(size, offset + 2)), offset, Piece(1))
               /\ offset' = offset + 1
       /\ UNCHANGED <<kind, open, length, file, fault>>

\* write(data, length): beyond the maximum the copy is clipped, the offset is not.
StringWrite(n) ==
    LET required == offset + n + 1
        overflow == maxBufferSize < required
        clipped == IF overflow THEN maxBufferSize - 1 - offset ELSE n
    IN /\ Writes({"inplace", "dynamic"}, n)
       /\ buffer' = Copied(Grown(buffer, Enlarged(size, Smaller(required, maxBufferSize))),
                           offset, SubSeq(Piece(n), 1, clipped))
       /\ offset' = offset + n
       /\ fault' = IF overflow THEN "offset beyond the buffer" ELSE fault
       /\ UNCHANGED <<kind, open, length, file>>

\* The size a buffer has reached when `needed` characters, the terminator
\* among them, went into it one by one.
SizeFor(needed) ==
    LET Reached[s \in 1..maxBufferSize] ==
            IF needed <= s \/ s = maxBufferSize THEN s ELSE Reached[Enlarged(s, s + 1)]
    IN Reached[size]

\* write(cstr): the buffer grows each time one place, the terminator's, is
\* left.  A string that has no buffer yet is written at its null pointer.
StringWriteCStr(n) ==
    LET newSize == SizeFor(offset + n + 1)
        fits == Smaller(n, newSize - 1 - offset)
    IN /\ Writes({"inplace", "dynamic"}, n)
       /\ IF size = 0
          THEN /\ fault' = IF n = 0 THEN fault ELSE "no buffer"
               /\ UNCHANGED <<buffer, offset>>
          ELSE /\ buffer' = Copied(Grown(buffer, newSize), offset, SubSeq(Piece(n), 1, fits))
               /\ offset' = offset + fits
               /\ UNCHANGED fault
       /\ UNCHANGED <<kind, open, length, file>>

\* setLength asserts that the terminator has its place.
HasPlaceFor(n) == n < size

\* flush and the destructor.
StringFlush(closing) ==
    /\ Writes({"inplace", "dynamic"}, 0)
    /\ IF HasPlaceFor(offset)
       THEN /\ length' = offset
            /\ buffer' = Copied(buffer, offset, <<0>>)
            /\ open' = ~closing
            /\ UNCHANGED fault
       ELSE /\ fault' = "no place for the terminator"
            /\ UNCHANGED <<length, buffer, open>>
    /\ UNCHANGED <<kind, offset, file>>

-----------------------------------------------------------------------------
\* The string between writers

Between(kinds) ==
    /\ kind \in kinds
    /\ ~open
    /\ fault = "none"

\* A writer opened on the string continues behind its text.
StringOpen ==
    /\ Between({"inplace", "dynamic"})
    /\ open' = TRUE
    /\ offset' = length
    /\ UNCHANGED <<kind, buffer, length, file, given, fault>>

\* The memory of a DynamicString that is appended n characters.
Extended(n) ==
    LET newSize == Larger(length + n + 1, Larger(2 * size, InitialBufferSize))
    IN IF size < length + n + 1 THEN Grown(buffer, newSize) ELSE buffer

\* append: an InplaceString clips, a DynamicString grows.
StringAppend(n) ==
    LET memory == IF kind = "dynamic" THEN Extended(n) ELSE buffer
        fits == IF kind = "inplace" THEN Smaller(n, size - 1 - length) ELSE n
    IN /\ Between({"inplace", "dynamic"})
       /\ given + n <= MaxGiven
       /\ given' = given + n
       /\ buffer' = Copied(memory, length, Append(SubSeq(Piece(n), 1, fits), 0))
       /\ length' = length + fits
       /\ UNCHANGED <<kind, open, offset, file, fault>>

\* truncate, and clear for n = 0.
StringTruncate(n) ==
    /\ Between(IF n = 0 THEN {"inplace", "dynamic"} ELSE {"dynamic"})
    /\ n <= length
    /\ length' = n
    /\ given' = n
    /\ buffer' = Copied(buffer, n, <<0>>)
    /\ UNCHANGED <<kind, open, offset, file, fault>>

StringShrinkBuffer ==
    /\ Between({"dynamic"})
    /\ buffer' = IF length = 0 THEN <<>> ELSE SubSeq(buffer, 1, Smaller(size, length + 1))
    /\ UNCHANGED <<kind, open, offset, length, file, given, fault>>

WriterNext ==
    \/ \E n \in Lengths :
          \/ MemoryWrite(n)
          \/ FileWriteCStr(n)
          \/ FileWrite(n)
          \/ StringWrite(n)
          \/ StringWriteCStr(n)
          \/ StringAppend(n)
          \/ StringTruncate(n)
    \/ MemoryNullTerminate
    \/ \E closing \in BOOLEAN : FileFlush(closing) \/ StringFlush(closing)
    \/ StringPut
    \/ StringOpen
    \/ StringShrinkBuffer

-----------------------------------------------------------------------------
\* The text is the first n characters given, in order.
FirstGiven(chars, n) == chars = [i \in 1..n |-> i]

(***************************************************************************)
(* No writer loses, repeats or misplaces a character: a file and its       *)
(* buffer together hold all that was given; memory and strings hold what   *)
(* was given up to their limit, closed strings are terminated, and the     *)
(* file's buffer is never left full, as its writer asserts.  Terminating a *)
(* full memory buffer costs its last character.  Nothing is promised after *)
(* the faults the code has: the first part of a piece that fills a file's  *)
(* buffer, the offset a clipped piece moves beyond its buffer, the string  *)
(* without a buffer.                                                       *)
(***************************************************************************)
TextKept ==
    fault = "none" =>
      CASE kind = "file" -> /\ FirstGiven(file \o SubSeq(buffer, 1, offset), given)
                            /\ open => offset < size
        [] kind = "memory" -> /\ offset = Smaller(given, size)
                              /\ \A i \in 1..offset : buffer[i] = i \/ (i = size /\ buffer[i] = 0)
        [] kind \in {"inplace", "dynamic"} ->
              LET kept == IF open THEN offset ELSE length
              IN /\ kept = (IF kind = "inplace" THEN Smaller(given, size - 1) ELSE given)
                 /\ FirstGiven(SubSeq(buffer, 1, kept), kept)
                 /\ ~open /\ size > 0 => buffer[kept + 1] = 0
        [] OTHER -> TRUE
=============================================================================
