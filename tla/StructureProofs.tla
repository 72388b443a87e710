-------------------------- MODULE StructureProofs --------------------------
(***************************************************************************)
(* The data structures.  Of the handle pool, for every capacity and every  *)
(* width of the generation: the type invariant, that the freelist is       *)
(* sound, that a live handle resolves, that a stale one does not before    *)
(* its entry was released Generations times, and that the pool implements  *)
(* a set of handles (ImplementsHandleSet).  Of the character writers, for  *)
(* every buffer size, every length of a piece and every string: that the   *)
(* text they were given is kept (TextKept).                                *)
(***************************************************************************)
EXTENDS Structures, IntegerLemmas, TLAPS

-----------------------------------------------------------------------------
(* The character writers.  The text so far is 1, 2, 3, ...                 *)
Text(chars, n) == \A i \in 1..n : chars[i] = i
(* Behind its first part.                                                  *)
Waiting(chars, from, n) == \A i \in 1..n : chars[i] = from + i

LEMMA PieceIs ==
  ASSUME given \in Nat, NEW n \in Nat, NEW m \in 0..n
  PROVE  /\ Piece(n) \in Seq(Nat) /\ Len(Piece(n)) = n /\ \A i \in 1..n : Piece(n)[i] = given + i
         /\ SubSeq(Piece(n), 1, m) \in Seq(Nat) /\ Len(SubSeq(Piece(n), 1, m)) = m
         /\ \A i \in 1..m : SubSeq(Piece(n), 1, m)[i] = given + i
<1>1. Piece(n) \in Seq(Nat) /\ Len(Piece(n)) = n /\ \A i \in 1..n : Piece(n)[i] = given + i
  BY DEF Piece
<1>2. QED
  BY <1>1

LEMMA CopiedIs ==
  ASSUME NEW memory \in Seq(Nat), NEW at \in Nat, NEW chars \in Seq(Nat)
  PROVE  /\ Copied(memory, at, chars) \in Seq(Nat) /\ Len(Copied(memory, at, chars)) = Len(memory)
         /\ \A i \in 1..Len(memory) :
              Copied(memory, at, chars)[i] = IF i > at /\ i <= at + Len(chars) THEN chars[i - at] ELSE memory[i]
<1>1. \A i \in 1..Len(memory) : (IF i > at /\ i <= at + Len(chars) THEN chars[i - at] ELSE memory[i]) \in Nat
  <2>1. ASSUME NEW i \in 1..Len(memory), i > at, i <= at + Len(chars) PROVE chars[i - at] \in Nat
    BY <2>1
  <2>2. QED
    BY <2>1
<1>2. QED
  BY <1>1 DEF Copied

LEMMA GrownIs ==
  ASSUME NEW memory \in Seq(Nat), NEW newSize \in Nat
  PROVE  /\ Grown(memory, newSize) \in Seq(Nat) /\ Len(Grown(memory, newSize)) = Larger(newSize, Len(memory))
         /\ \A i \in 1..Len(memory) : Grown(memory, newSize)[i] = memory[i]
<1>1. Larger(newSize, Len(memory)) \in Nat /\ Larger(newSize, Len(memory)) >= Len(memory)
  BY DEF Larger
<1> DEFINE larger == Larger(newSize, Len(memory))
<1> HIDE DEF larger
<1>2. \A i \in 1..larger : (IF i <= Len(memory) THEN memory[i] ELSE 0) \in Nat
  OBVIOUS
<1>3. Grown(memory, newSize) = [i \in 1..larger |-> IF i <= Len(memory) THEN memory[i] ELSE 0]
  BY DEF Grown, larger
<1>4. larger \in Nat /\ larger >= Len(memory)
  BY <1>1 DEF larger
<1>5. Grown(memory, newSize) \in Seq(Nat) /\ Len(Grown(memory, newSize)) = larger
  BY <1>2, <1>3, <1>4
<1>6. \A i \in 1..Len(memory) : Grown(memory, newSize)[i] = memory[i]
  BY <1>3, <1>4
<1>7. QED
  BY <1>5, <1>6 DEF larger

(* The same of a buffer copied into, the sizes named.                      *)
LEMMA CopyInto ==
  ASSUME NEW memory \in Seq(Nat), NEW at \in Nat, NEW chars \in Seq(Nat), NEW m \in Nat, NEW s \in Nat,
         Len(memory) = s, Len(chars) = m, NEW new, new = Copied(memory, at, chars)
  PROVE  /\ new \in Seq(Nat) /\ Len(new) = s
         /\ \A i \in 1..s : new[i] = IF i > at /\ i <= at + m THEN chars[i - at] ELSE memory[i]
<1>1. new \in Seq(Nat) /\ Len(new) = s
  BY CopiedIs
<1>2. ASSUME NEW i \in 1..s PROVE new[i] = IF i > at /\ i <= at + m THEN chars[i - at] ELSE memory[i]
  <2>1. Copied(memory, at, chars)[i] = IF i > at /\ i <= at + Len(chars) THEN chars[i - at] ELSE memory[i]
    BY CopiedIs
  <2>2. QED
    BY <2>1
<1>3. QED
  BY <1>1, <1>2

(* A terminator.                                                           *)
Terminator(chars) == chars \in Seq(Nat) /\ Len(chars) = 1 /\ chars[1] = 0

IsTerminated(new, memory, at) ==
  /\ new \in Seq(Nat) /\ Len(new) = Len(memory)
  /\ \A i \in 1..Len(memory) : new[i] = IF i = at + 1 THEN 0 ELSE memory[i]

LEMMA Terminated ==
  ASSUME NEW memory \in Seq(Nat), NEW at \in Nat, NEW zero, Terminator(zero)
  PROVE  IsTerminated(Copied(memory, at, zero), memory, at)
<1>1. zero \in Seq(Nat)
  BY DEF Terminator
<1>2. Copied(memory, at, zero) \in Seq(Nat) /\ Len(Copied(memory, at, zero)) = Len(memory)
  BY <1>1, CopiedIs
<1>3. ASSUME NEW i \in 1..Len(memory) PROVE Copied(memory, at, zero)[i] = IF i = at + 1 THEN 0 ELSE memory[i]
  <2>1. Copied(memory, at, zero)[i] = IF i > at /\ i <= at + Len(zero) THEN zero[i - at] ELSE memory[i]
    BY <1>1, CopiedIs
  <2>2. i > at /\ i <= at + 1 <=> i = at + 1
    OBVIOUS
  <2>3. i = at + 1 => i - at = 1
    OBVIOUS
  <2>4. QED
    BY <2>1, <2>2, <2>3 DEF Terminator
<1>4. QED
  BY <1>2, <1>3 DEF IsTerminated

(* Characters that continue the text behind its end continue it.           *)
LEMMA TextContinued ==
  ASSUME NEW memory \in Seq(Nat), NEW at \in Nat, Text(memory, at), NEW chars \in Seq(Nat),
         NEW m \in 0..Len(chars), \A i \in 1..m : chars[i] = at + i, at + m <= Len(memory)
  PROVE  Text(Copied(memory, at, chars), at + m)
<1> SUFFICES ASSUME NEW i \in 1..(at + m) PROVE Copied(memory, at, chars)[i] = i
  BY DEF Text
<1>1. Copied(memory, at, chars)[i] = IF i > at /\ i <= at + Len(chars) THEN chars[i - at] ELSE memory[i]
  BY CopiedIs
<1>2. CASE i > at
  <2>1. i - at \in 1..m /\ i <= at + Len(chars)
    BY <1>2
  <2>2. chars[i - at] = at + (i - at)
    BY <2>1
  <2>3. QED
    BY <1>1, <1>2, <2>1, <2>2
<1>3. CASE ~(i > at)
  BY <1>1, <1>3 DEF Text
<1>4. QED
  BY <1>2, <1>3

-----------------------------------------------------------------------------
(* How far a buffer grows.                                                 *)
LEMMA NextSize ==
  ASSUME maxBufferSize \in Nat, NEW s \in 1..(maxBufferSize - 1)
  PROVE  Enlarged(s, s + 1) \in (s + 1)..maxBufferSize /\ Enlarged(s, s + 1) <= 2 * s
BY DEF Enlarged, Larger, Smaller

GrowthRule(f, needed, s) == IF needed <= s \/ s = maxBufferSize THEN s ELSE f[Enlarged(s, s + 1)]

(* Sizes grow, so the recursion is defined from the largest one down.      *)
LEMMA GrowthExists ==
  ASSUME maxBufferSize \in Nat \ {0}, NEW needed \in Nat
  PROVE  \E f : f = [s \in 1..maxBufferSize |-> GrowthRule(f, needed, s)]
<1> DEFINE M == maxBufferSize
           From(k) == (M - k)..M
           S == {k \in 0..(M - 1) : \E f : f = [s \in From(k) |-> GrowthRule(f, needed, s)]}
<1>1. 0 \in S
  <2> DEFINE f == [s \in From(0) |-> s]
  <2>1. \A s \in From(0) : GrowthRule(f, needed, s) = s
    BY DEF GrowthRule
  <2>2. f = [s \in From(0) |-> GrowthRule(f, needed, s)]
    BY <2>1
  <2> HIDE DEF f
  <2>3. QED
    BY <2>2
<1>2. ASSUME NEW k \in 0..(M - 1 - 1), k \in S PROVE k + 1 \in S
  <2>1. PICK g : g = [s \in From(k) |-> GrowthRule(g, needed, s)]
    BY <1>2
  <2> DEFINE t == M - (k + 1)
             f == [s \in From(k + 1) |-> IF s = t THEN GrowthRule(g, needed, s) ELSE g[s]]
  <2>2. \A s \in From(k + 1) : s = t \/ s \in From(k)
    OBVIOUS
  <2>3. ASSUME NEW s \in From(k + 1), ~(needed <= s \/ s = M)
        PROVE  Enlarged(s, s + 1) \in From(k) /\ f[Enlarged(s, s + 1)] = g[Enlarged(s, s + 1)]
    <3>1. s \in 1..(M - 1)
      BY <2>3
    <3>2. Enlarged(s, s + 1) \in (s + 1)..M
      BY <3>1, NextSize
    <3>3. s + 1 >= M - k
      BY <2>3
    <3>4. \A e \in From(k) : e \in From(k + 1) /\ e # t
      OBVIOUS
    <3>5. Enlarged(s, s + 1) \in From(k)
      BY <3>1, <3>2, <3>3
    <3>6. QED
      BY <3>4, <3>5
  <2>4. ASSUME NEW s \in From(k + 1) PROVE f[s] = GrowthRule(f, needed, s)
    <3>1. GrowthRule(f, needed, s) = GrowthRule(g, needed, s)
      BY <2>3 DEF GrowthRule
    <3>2. s # t => g[s] = GrowthRule(g, needed, s)
      BY <2>1, <2>2
    <3>3. f[s] = IF s = t THEN GrowthRule(g, needed, s) ELSE g[s]
      OBVIOUS
    <3>4. QED
      BY <3>1, <3>2, <3>3
  <2>5. f = [s \in From(k + 1) |-> GrowthRule(f, needed, s)]
    <3>1. f = [s \in From(k + 1) |-> f[s]]
      OBVIOUS
    <3> HIDE DEF f
    <3>2. QED
      BY <2>4, <3>1
  <2> HIDE DEF f, t
  <2>6. QED
    BY <2>5
<1>3. M - 1 \in S
  <2>1. M - 1 \in Nat /\ M - 1 \in 0..(M - 1)
    OBVIOUS
  <2> HIDE DEF S
  <2>2. \A k \in 0..(M - 1) : k \in S
    BY <1>1, <1>2, <2>1, UpTo
  <2>3. QED
    BY <2>1, <2>2
<1>4. From(M - 1) = 1..M
  OBVIOUS
<1>5. QED
  BY <1>3, <1>4

(* A buffer that characters went into one by one holds them and their      *)
(* terminator or is the largest, and is less than twice what it holds.     *)
LEMMA SizeForIs ==
  ASSUME maxBufferSize \in Nat, size \in 1..maxBufferSize, NEW needed \in Nat
  PROVE  /\ SizeFor(needed) \in size..maxBufferSize
         /\ SizeFor(needed) >= needed \/ SizeFor(needed) = maxBufferSize
         /\ SizeFor(needed) <= Larger(size, 2 * needed)
<1> DEFINE M == maxBufferSize
           Reached[s \in 1..M] == GrowthRule(Reached, needed, s)
<1>1. SizeFor(needed) = Reached[size]
  BY DEF SizeFor, GrowthRule
<1>2. Reached = [s \in 1..M |-> GrowthRule(Reached, needed, s)]
  BY GrowthExists
<1> HIDE DEF Reached
<1> DEFINE Good(s) == /\ Reached[s] \in s..M
                      /\ Reached[s] >= needed \/ Reached[s] = M
                      /\ Reached[s] <= Larger(s, 2 * needed)
           S == {k \in 0..(M - 1) : \A s \in (M - k)..M : Good(s)}
<1>3. ASSUME NEW s \in 1..M, needed <= s \/ s = M PROVE Good(s)
  <2>1. Reached[s] = s
    BY <1>2, <1>3 DEF GrowthRule
  <2>2. QED
    BY <1>3, <2>1 DEF Larger
<1>4. 0 \in S
  BY <1>3
<1>5. ASSUME NEW k \in 0..(M - 1 - 1), k \in S PROVE k + 1 \in S
  <2>1. ASSUME NEW s \in (M - (k + 1))..M, s < needed, s # M PROVE Good(s)
    <3>1. s \in 1..(M - 1)
      BY <2>1
    <3>2. PICK e : e = Enlarged(s, s + 1)
      OBVIOUS
    <3>3. e \in (s + 1)..M /\ e <= 2 * s
      BY <3>1, <3>2, NextSize
    <3>4. Reached[s] = Reached[e]
      BY <1>2, <2>1, <3>1, <3>2 DEF GrowthRule
    <3>5. e \in (M - k)..M
      BY <2>1, <3>1, <3>3
    <3>6. Good(e)
      BY <1>5, <3>5
    <3>7. Larger(e, 2 * needed) = 2 * needed
      BY <2>1, <3>1, <3>3 DEF Larger
    <3>8. Larger(s, 2 * needed) = 2 * needed
      BY <2>1, <3>1 DEF Larger
    <3>9. QED
      BY <3>1, <3>3, <3>4, <3>6, <3>7, <3>8
  <2>2. \A s \in (M - (k + 1))..M : Good(s)
    BY <1>3, <2>1
  <2>3. QED
    BY <2>2
<1>6. M - 1 \in S
  <2>1. M - 1 \in Nat /\ M - 1 \in 0..(M - 1)
    OBVIOUS
  <2> HIDE DEF S
  <2>2. \A k \in 0..(M - 1) : k \in S
    BY <1>4, <1>5, <2>1, UpTo
  <2>3. QED
    BY <2>1, <2>2
<1>7. Good(size)
  BY <1>6
<1>8. QED
  BY <1>1, <1>7

-----------------------------------------------------------------------------
(* What the writers keep, by their kind: TextKept, element by element, and *)
(* that there is always a place for a terminator and a string that grows   *)
(* stays below the largest.                                                *)
Shape ==
  /\ buffer \in Seq(Nat) /\ file \in Seq(Nat) /\ open \in BOOLEAN
  /\ offset \in Nat /\ length \in Nat /\ given \in Nat /\ given <= MaxGiven

MemoryKept ==
  /\ size >= 1 /\ offset = Smaller(given, size)
  /\ \A i \in 1..offset : buffer[i] = i \/ (i = size /\ buffer[i] = 0)

FileKept ==
  /\ Len(file) + offset = given /\ Text(file, Len(file))
  /\ Waiting(buffer, Len(file), offset)
  /\ IF open THEN offset < size ELSE offset = 0

Kept == IF open THEN offset ELSE length
StringKept ==
  /\ Kept = (IF kind = "inplace" THEN Smaller(given, size - 1) ELSE given)
  /\ Kept < size \/ (kind = "dynamic" /\ Kept = 0 /\ size = 0)
  /\ Text(buffer, Kept)
  /\ ~open /\ size > 0 => buffer[Kept + 1] = 0
  /\ kind = "dynamic" => size <= 2 * MaxGiven + 16

WriterInv ==
  fault = "none" =>
    /\ Shape
    /\ kind = "memory" => MemoryKept
    /\ kind = "file" => FileKept
    /\ kind \in {"inplace", "dynamic"} => StringKept

LEMMA WriterInvInit == WriterInit \/ WriterAbsent => WriterInv
<1>0. \A n \in BufferSizes : n \in Nat \ {0}
  BY StreamsAssumption DEF StreamsAssumption
<1>3. MaxGiven \in Nat
  BY StreamsAssumption DEF StreamsAssumption
<1>1. ASSUME WriterAbsent PROVE WriterInv
  <2>1. buffer = <<>> /\ file = <<>> /\ open = FALSE /\ offset = 0 /\ length = 0 /\ given = 0
    BY <1>1 DEF WriterAbsent
  <2>3. Shape
    <3>1. buffer \in Seq(Nat) /\ file \in Seq(Nat)
      BY <2>1
    <3>2. offset \in Nat /\ length \in Nat /\ given \in Nat /\ given <= MaxGiven
      BY <1>3, <2>1
    <3>3. QED
      BY <2>1, <3>1, <3>2 DEF Shape
  <2>2. QED
    BY <1>1, <2>3 DEF WriterAbsent, WriterInv
<1>2. ASSUME WriterInit PROVE WriterInv
  <2>1. PICK n \in IF kind = "dynamic" THEN {0} ELSE BufferSizes : buffer = [i \in 1..n |-> 0]
    BY <1>2 DEF WriterInit
  <2>2. n \in Nat /\ (kind # "dynamic" => n >= 1)
    BY <1>0, <2>1
  <2>3. buffer \in Seq(Nat) /\ size = n /\ \A i \in 1..n : buffer[i] = 0
    BY <2>1, <2>2 DEF size
  <2>4. offset = 0 /\ length = 0 /\ file = <<>> /\ given = 0 /\ open = TRUE /\ MaxGiven \in Nat
    BY <1>2, <1>3 DEF WriterInit
  <2>5. Shape
    BY <2>3, <2>4 DEF Shape
  <2>6. kind = "memory" => MemoryKept
    BY <2>2, <2>3, <2>4 DEF MemoryKept, Smaller
  <2>7. kind = "file" => FileKept
    BY <2>2, <2>3, <2>4 DEF FileKept, Text, Waiting
  <2>8. kind \in {"inplace", "dynamic"} => StringKept
    BY <2>2, <2>3, <2>4 DEF StringKept, Kept, Text, Smaller
  <2>9. QED
    BY <2>5, <2>6, <2>7, <2>8 DEF WriterInv
<1>4. QED
  BY <1>1, <1>2

(* MemoryCharStreamWriter.                                                 *)
LEMMA MemoryStep ==
  ASSUME WriterInv, (\E n \in Lengths : MemoryWrite(n)) \/ MemoryNullTerminate
  PROVE  WriterInv'
<1>0. Shape /\ kind = "memory" /\ kind' = kind /\ open' = open /\ length' = length /\ file' = file /\ MemoryKept
  BY DEF MemoryWrite, MemoryNullTerminate, Writes, WriterInv
<1>1. PICK s \in Nat, o \in Nat, g \in Nat : s = Len(buffer) /\ o = offset /\ g = given
  BY <1>0 DEF Shape
<1>2. /\ buffer \in Seq(Nat) /\ s >= 1 /\ (g < s => o = g) /\ (~(g < s) => o = s)
      /\ \A i \in 1..o : buffer[i] = i \/ (i = s /\ buffer[i] = 0)
  BY <1>0, <1>1 DEF Shape, MemoryKept, Smaller, size
<1>3. ASSUME NEW n \in Lengths, MemoryWrite(n) PROVE Shape' /\ MemoryKept'
  <2>1. PICK fits : fits = (IF n < s - o THEN n ELSE s - o)
    OBVIOUS
  <2>2. n \in Nat
    BY StreamsAssumption DEF StreamsAssumption
  <2>3. given' = g + n /\ g + n <= MaxGiven /\ offset' = o + fits
    BY <1>1, <1>3, <2>1 DEF MemoryWrite, Writes, Smaller, size
  <2>4. fits \in 0..n /\ o + fits <= s /\ (fits > 0 => o = g) /\ o + fits = (IF g + n < s THEN g + n ELSE s)
    BY <1>1, <1>2, <2>1, <2>2
  <2>5. PICK chars : chars = SubSeq(Piece(n), 1, fits)
    OBVIOUS
  <2>6. chars \in Seq(Nat) /\ Len(chars) = fits /\ \A i \in 1..fits : chars[i] = g + i
    BY <1>1, <2>2, <2>4, <2>5, PieceIs
  <2>7. buffer' = Copied(buffer, o, chars)
    BY <1>1, <1>3, <2>1, <2>5 DEF MemoryWrite, Smaller, size
  <2>8. /\ buffer' \in Seq(Nat) /\ Len(buffer') = s
        /\ \A i \in 1..s : buffer'[i] = IF i > o /\ i <= o + fits THEN chars[i - o] ELSE buffer[i]
    <3>1. Len(buffer) = s /\ fits \in Nat
      BY <1>1, <2>4
    <3>2. QED
      BY <1>2, <2>6, <2>7, <3>1, CopyInto
  <2>9. ASSUME NEW i \in 1..(o + fits) PROVE buffer'[i] = i \/ (i = s /\ buffer'[i] = 0)
    <3>1. CASE i > o
      <4>1. i - o \in 1..fits /\ i \in 1..s
        BY <1>1, <2>4, <3>1
      <4>2. chars[i - o] = g + (i - o) /\ g = o
        BY <1>1, <2>4, <2>6, <4>1
      <4>3. QED
        BY <1>1, <2>8, <3>1, <4>1, <4>2
    <3>2. CASE ~(i > o)
      <4>1. i \in 1..o /\ i \in 1..s
        BY <1>1, <2>4, <3>2
      <4>2. QED
        BY <1>2, <2>8, <3>2, <4>1
    <3>3. QED
      BY <3>1, <3>2
  <2>10. Shape'
    BY <1>0, <1>1, <2>2, <2>3, <2>4, <2>8 DEF Shape
  <2>11. QED
    BY <1>2, <2>3, <2>4, <2>8, <2>9, <2>10 DEF MemoryKept, Smaller, size
<1>4. ASSUME MemoryNullTerminate PROVE Shape' /\ MemoryKept'
  <2>1. PICK at \in Nat : at = IF o < s THEN o ELSE s - 1
    BY <1>2
  <2>2. given' = g + 0 /\ offset' = o /\ buffer' = Copied(buffer, at, <<0>>)
    BY <1>1, <1>4, <2>1 DEF MemoryNullTerminate, Writes, size
  <2>3. (at = o \/ at = s - 1) /\ g + 0 = g
    BY <1>1, <1>2, <2>1
  <2>5. PICK zero : Terminator(zero) /\ buffer' = Copied(buffer, at, zero)
    <3>1. PICK z : z = <<0>>
      OBVIOUS
    <3>2. Terminator(z)
      BY <3>1 DEF Terminator
    <3>3. buffer' = Copied(buffer, at, z)
      BY <2>2, <3>1
    <3>4. QED
      BY <3>2, <3>3
  <2>6. /\ buffer' \in Seq(Nat) /\ Len(buffer') = s
        /\ \A i \in 1..s : buffer'[i] = IF i = at + 1 THEN 0 ELSE buffer[i]
    <3>1. buffer \in Seq(Nat)
      BY <1>2
    <3>2. IsTerminated(buffer', buffer, at)
      BY <2>1, <2>5, <3>1, Terminated
    <3>3. QED
      BY <1>1, <3>2 DEF IsTerminated
  <2>8. Shape'
    BY <1>0, <1>1, <2>2, <2>3, <2>6 DEF Shape
  <2>9. \A i \in 1..o : buffer'[i] = i \/ (i = s /\ buffer'[i] = 0)
    BY <1>1, <1>2, <2>3, <2>6
  <2>10. QED
    BY <1>2, <2>2, <2>3, <2>6, <2>8, <2>9 DEF MemoryKept, Smaller, size
<1>5. QED
  BY <1>0, <1>3, <1>4 DEF WriterInv

-----------------------------------------------------------------------------
(* FileCharStreamWriter.                                                   *)

(* The text goes on in a file that text is written to.                     *)
LEMMA TextAppended ==
  ASSUME NEW old \in Seq(Nat), Text(old, Len(old)), NEW chars \in Seq(Nat), Waiting(chars, Len(old), Len(chars))
  PROVE  /\ old \o chars \in Seq(Nat) /\ Len(old \o chars) = Len(old) + Len(chars)
         /\ Text(old \o chars, Len(old \o chars))
<1>1. old \o chars \in Seq(Nat) /\ Len(old \o chars) = Len(old) + Len(chars)
  OBVIOUS
<1>2. ASSUME NEW i \in 1..(Len(old) + Len(chars)) PROVE (old \o chars)[i] = i
  <2>1. CASE i <= Len(old)
    BY <2>1 DEF Text
  <2>2. CASE ~(i <= Len(old))
    <3>1. i - Len(old) \in 1..Len(chars) /\ (old \o chars)[i] = chars[i - Len(old)]
      BY <2>2
    <3>2. chars[i - Len(old)] = Len(old) + (i - Len(old))
      BY <3>1 DEF Waiting
    <3>3. QED
      BY <3>1, <3>2
  <2>3. QED
    BY <2>1, <2>2
<1>3. QED
  BY <1>1, <1>2 DEF Text

LEMMA WaitingParts ==
  ASSUME NEW chars \in Seq(Nat), NEW from \in Nat, NEW n \in 0..Len(chars), Waiting(chars, from, n),
         NEW m \in 0..n
  PROVE  /\ SubSeq(chars, 1, m) \in Seq(Nat) /\ Len(SubSeq(chars, 1, m)) = m /\ Waiting(SubSeq(chars, 1, m), from, m)
         /\ SubSeq(chars, m + 1, n) \in Seq(Nat) /\ Len(SubSeq(chars, m + 1, n)) = n - m
         /\ Waiting(SubSeq(chars, m + 1, n), from + m, n - m)
<1>1. /\ SubSeq(chars, 1, m) \in Seq(Nat) /\ Len(SubSeq(chars, 1, m)) = m
      /\ \A i \in 1..m : SubSeq(chars, 1, m)[i] = chars[i]
  OBVIOUS
<1>2. /\ SubSeq(chars, m + 1, n) \in Seq(Nat) /\ Len(SubSeq(chars, m + 1, n)) = n - m
      /\ \A i \in 1..(n - m) : SubSeq(chars, m + 1, n)[i] = chars[m + i]
  OBVIOUS
<1>3. Waiting(SubSeq(chars, 1, m), from, m)
  BY <1>1 DEF Waiting
<1>4. Waiting(SubSeq(chars, m + 1, n), from + m, n - m)
  BY <1>2 DEF Waiting
<1>5. QED
  BY <1>1, <1>2, <1>3, <1>4

LEMMA WaitingJoined ==
  ASSUME NEW a \in Seq(Nat), NEW from \in Nat, Waiting(a, from, Len(a)),
         NEW b \in Seq(Nat), Waiting(b, from + Len(a), Len(b))
  PROVE  a \o b \in Seq(Nat) /\ Len(a \o b) = Len(a) + Len(b) /\ Waiting(a \o b, from, Len(a) + Len(b))
<1>1. a \o b \in Seq(Nat) /\ Len(a \o b) = Len(a) + Len(b)
  OBVIOUS
<1>2. ASSUME NEW i \in 1..(Len(a) + Len(b)) PROVE (a \o b)[i] = from + i
  <2>1. CASE i <= Len(a)
    BY <2>1 DEF Waiting
  <2>2. CASE ~(i <= Len(a))
    <3>1. i - Len(a) \in 1..Len(b) /\ (a \o b)[i] = b[i - Len(a)]
      BY <2>2
    <3>2. b[i - Len(a)] = from + Len(a) + (i - Len(a))
      BY <3>1 DEF Waiting
    <3>3. QED
      BY <3>1, <3>2
  <2>3. QED
    BY <2>1, <2>2
<1>3. QED
  BY <1>1, <1>2 DEF Waiting

(* Characters copied behind what waits wait behind it.                     *)
LEMMA WaitingContinued ==
  ASSUME NEW memory \in Seq(Nat), NEW from \in Nat, NEW at \in Nat, Waiting(memory, from, at),
         NEW chars \in Seq(Nat), Waiting(chars, from + at, Len(chars)), at + Len(chars) <= Len(memory)
  PROVE  Waiting(Copied(memory, at, chars), from, at + Len(chars))
<1> SUFFICES ASSUME NEW i \in 1..(at + Len(chars)) PROVE Copied(memory, at, chars)[i] = from + i
  BY DEF Waiting
<1>0. i \in 1..Len(memory)
  OBVIOUS
<1>1. Copied(memory, at, chars)[i] = IF i > at /\ i <= at + Len(chars) THEN chars[i - at] ELSE memory[i]
  BY <1>0, CopiedIs
<1>2. CASE i > at
  <2>1. i - at \in 1..Len(chars) /\ i <= at + Len(chars)
    BY <1>2
  <2>2. chars[i - at] = from + at + (i - at)
    BY <2>1 DEF Waiting
  <2>3. QED
    BY <1>1, <1>2, <2>1, <2>2
<1>3. CASE ~(i > at)
  BY <1>1, <1>3 DEF Waiting
<1>4. QED
  BY <1>2, <1>3

LEMMA FillsWhole ==
  ASSUME NEW m \in Nat, NEW s \in Nat \ {0}
  PROVE  (m \div s) * s \in 0..m /\ m - (m \div s) * s < s /\ ((m \div s) * s = 0 \/ (m \div s) * s >= s)
<1>1. m \div s \in Int /\ m % s \in 0..(s - 1) /\ m = s * (m \div s) + (m % s)
  BY DivMod
<1>2. m \div s \in Nat
  BY DivBelow
<1> DEFINE q == m \div s
<1>3. q * s = s * q /\ q * s \in Nat
  BY <1>2, Z3
<1>4. q = 0 \/ q * s >= s
  <2>1. CASE q >= 1
    <3>1. 1 * s <= q * s
      BY <1>2, <2>1, TimesMonotone
    <3>2. QED
      BY <3>1
  <2>2. QED
    BY <1>2, <2>1
<1> DEFINE p == q * s
<1>5. q = 0 => p = 0
  OBVIOUS
<1>6. p \in Nat /\ m = p + (m % s) /\ (p = 0 \/ p >= s)
  BY <1>1, <1>3, <1>4, <1>5
<1> HIDE DEF q, p
<1>7. p \in 0..m /\ m - p < s
  BY <1>1, <1>6
<1>8. QED
  BY <1>6, <1>7 DEF p, q

LEMMA FileWriteCStrKeeps ==
  ASSUME Shape, FileKept, open = TRUE, NEW n \in Nat, FileWriteCStr(n)
  PROVE  Shape' /\ FileKept'
<1>1. PICK s \in Nat, o \in Nat, k \in Nat : s = size /\ o = offset /\ k = Len(file)
  BY DEF Shape, size
<1>2. s >= 1 /\ o < s /\ k + o = given /\ Len(buffer) = s
  BY <1>1 DEF FileKept, Shape, size
<1>3. buffer \in Seq(Nat) /\ file \in Seq(Nat) /\ Text(file, k) /\ Waiting(buffer, k, o)
  BY <1>1 DEF FileKept, Shape
<1>4. PICK all : all = SubSeq(buffer, 1, o) \o Piece(n)
  OBVIOUS
<1>5. all \in Seq(Nat) /\ Len(all) = o + n /\ Waiting(all, k, o + n)
  <2>1. /\ SubSeq(buffer, 1, o) \in Seq(Nat) /\ Len(SubSeq(buffer, 1, o)) = o
        /\ Waiting(SubSeq(buffer, 1, o), k, o)
    <3>1. o \in 0..Len(buffer) /\ o \in 0..o
      BY <1>2
    <3>2. QED
      BY <1>3, <3>1, WaitingParts
  <2>2. Piece(n) \in Seq(Nat) /\ Len(Piece(n)) = n /\ Waiting(Piece(n), k + o, n)
    <3>1. given \in Nat /\ n \in 0..n
      BY DEF Shape
    <3>2. QED
      BY <1>2, <3>1, PieceIs DEF Waiting
  <2> DEFINE a == SubSeq(buffer, 1, o)
             b == Piece(n)
  <2>3. a \in Seq(Nat) /\ Waiting(a, k, Len(a)) /\ b \in Seq(Nat) /\ Waiting(b, k + Len(a), Len(b))
    BY <2>1, <2>2
  <2> HIDE DEF a, b
  <2>4. a \o b \in Seq(Nat) /\ Len(a \o b) = Len(a) + Len(b) /\ Waiting(a \o b, k, Len(a) + Len(b))
    BY <2>3, WaitingJoined
  <2>5. QED
    BY <1>4, <2>1, <2>2, <2>4 DEF a, b
<1>6. PICK out : out = ((o + n) \div s) * s
  OBVIOUS
<1>7. out \in 0..(o + n) /\ o + n - out < s /\ (out = 0 \/ out >= s)
  <2>1. s \in Nat \ {0} /\ o + n \in Nat
    BY <1>2
  <2>2. QED
    BY <1>6, <2>1, FillsWhole
<1>8. PICK last : last = IF out = 0 THEN buffer ELSE SubSeq(all, out - s + 1, out)
  OBVIOUS
<1>9. last \in Seq(Nat) /\ Len(last) = s
  <2>1. CASE out = 0
    BY <1>2, <1>3, <1>8, <2>1
  <2>2. CASE out >= s /\ out # 0
    <3>1. last = SubSeq(all, out - s + 1, out)
      BY <1>8, <2>2
    <3>2. out - s + 1 \in 1..(Len(all) + 1) /\ out \in 0..Len(all)
      BY <1>2, <1>5, <1>7, <2>2
    <3>3. SubSeq(all, out - s + 1, out) \in Seq(Nat) /\ Len(SubSeq(all, out - s + 1, out)) = out - (out - s + 1) + 1
      BY <1>2, <1>5, <2>2, <3>2
    <3>4. QED
      BY <1>2, <1>7, <3>1, <3>3
  <2>3. QED
    BY <1>7, <2>1, <2>2
<1>10. PICK gone, rest : gone = SubSeq(all, 1, out) /\ rest = SubSeq(all, out + 1, o + n)
  OBVIOUS
<1>11. /\ gone \in Seq(Nat) /\ Len(gone) = out /\ Waiting(gone, k, out)
       /\ rest \in Seq(Nat) /\ Len(rest) = o + n - out /\ Waiting(rest, k + out, o + n - out)
  <2>1. PICK t \in Nat : t = o + n
    OBVIOUS
  <2>2. t \in 0..Len(all) /\ Waiting(all, k, t) /\ out \in 0..t
    BY <1>5, <1>7, <2>1
  <2>3. /\ SubSeq(all, 1, out) \in Seq(Nat) /\ Len(SubSeq(all, 1, out)) = out /\ Waiting(SubSeq(all, 1, out), k, out)
        /\ SubSeq(all, out + 1, t) \in Seq(Nat) /\ Len(SubSeq(all, out + 1, t)) = t - out
        /\ Waiting(SubSeq(all, out + 1, t), k + out, t - out)
    BY <1>5, <2>2, WaitingParts
  <2>4. gone = SubSeq(all, 1, out)
    BY <1>10
  <2>5. rest = SubSeq(all, out + 1, t)
    BY <1>10, <2>1
  <2>6. t - out = o + n - out
    BY <1>7, <2>1
  <2>7. QED
    BY <2>3, <2>4, <2>5, <2>6
<1>12. /\ given' = given + n /\ given + n <= MaxGiven /\ file' = file \o gone
       /\ buffer' = Copied(last, 0, rest) /\ offset' = o + n - out /\ UNCHANGED <<kind, open, length>>
  <2>1. given' = given + n /\ given + n <= MaxGiven /\ UNCHANGED <<kind, open, length>>
    BY DEF FileWriteCStr, Writes
  <2> DEFINE allNow == SubSeq(buffer, 1, offset) \o Piece(n)
             outNow == Fills(Len(allNow)) * size
             lastNow == IF outNow = 0 THEN buffer ELSE SubSeq(allNow, outNow - size + 1, outNow)
  <2>2. /\ file' = file \o SubSeq(allNow, 1, outNow)
        /\ buffer' = Copied(lastNow, 0, SubSeq(allNow, outNow + 1, Len(allNow)))
        /\ offset' = Len(allNow) - outNow
    BY DEF FileWriteCStr
  <2>3. allNow = all
    BY <1>1, <1>4
  <2>4. Fills(Len(all)) * size = out
    BY <1>1, <1>5, <1>6 DEF Fills
  <2>5. outNow = out
    BY <2>3, <2>4
  <2>6. lastNow = last
    BY <1>1, <1>8, <2>3, <2>5
  <2> HIDE DEF allNow, outNow, lastNow
  <2>7. SubSeq(allNow, 1, outNow) = gone /\ SubSeq(allNow, outNow + 1, Len(allNow)) = rest
    BY <1>5, <1>10, <2>3, <2>5
  <2>8. offset' = o + n - out
    <3>1. offset' = Len(all) - out
      BY <2>2, <2>3, <2>5
    <3>2. Len(all) - out = o + n - out
      BY <1>5, <1>7
    <3>3. QED
      BY <3>1, <3>2
  <2>9. QED
    BY <2>1, <2>2, <2>6, <2>7, <2>8
<1>13. file' \in Seq(Nat) /\ Len(file') = k + out /\ Text(file', k + out)
  BY <1>1, <1>3, <1>11, <1>12, TextAppended
<1>14. buffer' \in Seq(Nat) /\ Len(buffer') = s
  BY <1>9, <1>11, <1>12, CopiedIs
<1>15. Waiting(buffer', k + out, o + n - out)
  <2>1. k + out \in Nat /\ 0 \in Nat /\ Waiting(last, k + out, 0)
    BY <1>7 DEF Waiting
  <2>2. PICK from \in Nat, at \in Nat : from = k + out /\ at = 0
    BY <2>1
  <2>3. Waiting(last, from, at) /\ Waiting(rest, from + at, Len(rest)) /\ at + Len(rest) <= Len(last)
    BY <1>7, <1>9, <1>11, <2>1, <2>2
  <2>4. Waiting(Copied(last, at, rest), from, at + Len(rest))
    BY <1>9, <1>11, <2>3, WaitingContinued
  <2>5. QED
    BY <1>7, <1>11, <1>12, <2>2, <2>4
<1>16. o + n - out \in Nat /\ given + n \in Nat /\ (k + out) + (o + n - out) = given + n
  BY <1>2, <1>7
<1>17. Shape'
  BY <1>12, <1>13, <1>14, <1>16 DEF Shape
<1>18. QED
  BY <1>7, <1>12, <1>13, <1>14, <1>15, <1>16, <1>17 DEF FileKept, size

(* What the buffer holds, written to the file.                             *)
LEMMA WrittenOut ==
  ASSUME Shape, FileKept, open = TRUE, NEW written, written = file \o SubSeq(buffer, 1, offset)
  PROVE  written \in Seq(Nat) /\ Len(written) = given /\ Text(written, Len(written))
<1>0. size \in Nat /\ offset \in Nat /\ Len(file) \in Nat
  BY DEF Shape, size
<1>1. PICK s \in Nat, o \in Nat, k \in Nat : s = size /\ o = offset /\ k = Len(file)
  BY <1>0
<1>2. o < s /\ k + o = given /\ Len(buffer) = s
  BY <1>1 DEF FileKept, Shape, size
<1>3. buffer \in Seq(Nat) /\ file \in Seq(Nat) /\ Text(file, Len(file)) /\ Waiting(buffer, k, o)
  BY <1>1 DEF FileKept, Shape
<1>4. PICK held : held = SubSeq(buffer, 1, o)
  OBVIOUS
<1>5. held \in Seq(Nat) /\ Len(held) = o /\ Waiting(held, k, o)
  <2>1. o \in 0..Len(buffer) /\ o \in 0..o
    BY <1>2
  <2>2. /\ SubSeq(buffer, 1, o) \in Seq(Nat) /\ Len(SubSeq(buffer, 1, o)) = o
        /\ Waiting(SubSeq(buffer, 1, o), k, o)
    BY <1>3, <2>1, WaitingParts
  <2>3. QED
    BY <1>4, <2>2
<1>6. Waiting(held, Len(file), Len(held))
  BY <1>1, <1>5
<1>7. /\ file \o held \in Seq(Nat) /\ Len(file \o held) = Len(file) + Len(held)
      /\ Text(file \o held, Len(file \o held))
  BY <1>3, <1>5, <1>6, TextAppended
<1>8. written = file \o held
  BY <1>1, <1>4
<1>9. Len(file) + Len(held) = given
  BY <1>1, <1>2, <1>5
<1>10. QED
  BY <1>7, <1>8, <1>9

LEMMA FileWriteKeeps ==
  ASSUME Shape, FileKept, open = TRUE, fault = "none", NEW n \in Nat, FileWrite(n), fault' = "none"
  PROVE  Shape' /\ FileKept'
<1>1. PICK s \in Nat, o \in Nat, k \in Nat : s = size /\ o = offset /\ k = Len(file)
  BY DEF Shape, size
<1>2. s >= 1 /\ o < s /\ k + o = given /\ Len(buffer) = s
  BY <1>1 DEF FileKept, Shape, size
<1>3. buffer \in Seq(Nat) /\ file \in Seq(Nat) /\ Text(file, k) /\ Waiting(buffer, k, o)
  BY <1>1 DEF FileKept, Shape
<1>4. given' = given + n /\ given + n <= MaxGiven /\ UNCHANGED <<kind, open, length>> /\ length \in Nat /\ given \in Nat
  BY DEF FileWrite, Writes, Shape
<1>5. PICK piece : piece = Piece(n)
  OBVIOUS
<1>6. piece \in Seq(Nat) /\ Len(piece) = n /\ Waiting(piece, given, n)
  <2>1. given \in Nat /\ n \in 0..n
    BY DEF Shape
  <2>2. Piece(n) \in Seq(Nat) /\ Len(Piece(n)) = n /\ Waiting(Piece(n), given, n)
    BY <2>1, PieceIs DEF Waiting
  <2>3. QED
    BY <1>5, <2>2
<1>7. CASE /\ file' = file \o SubSeq(buffer, 1, offset) \o piece
           /\ offset' = 0 /\ UNCHANGED buffer
  <2>1. PICK written : written = file \o SubSeq(buffer, 1, offset)
    OBVIOUS
  <2>2. written \in Seq(Nat) /\ Len(written) = given /\ Text(written, Len(written))
    BY <2>1, WrittenOut
  <2>3. Waiting(piece, Len(written), Len(piece))
    BY <1>6, <2>2
  <2>4. /\ written \o piece \in Seq(Nat) /\ Len(written \o piece) = Len(written) + Len(piece)
        /\ Text(written \o piece, Len(written \o piece))
    BY <1>6, <2>2, <2>3, TextAppended
  <2>5. file' = written \o piece
    BY <1>7, <2>1
  <2>6. file' \in Seq(Nat) /\ Len(file') = given + n /\ Text(file', Len(file'))
    BY <1>6, <2>2, <2>4, <2>5
  <2>7. offset' = 0 /\ buffer' = buffer /\ Waiting(buffer', Len(file'), 0)
    BY <1>7 DEF Waiting
  <2>8. Shape'
    BY <1>3, <1>4, <2>6, <2>7 DEF Shape
  <2>9. Len(buffer') = s
    BY <1>2, <2>7
  <2>10. QED
    BY <1>2, <1>4, <2>6, <2>7, <2>8, <2>9 DEF FileKept, size
<1>8. CASE n < size - offset /\ buffer' = Copied(buffer, offset, piece) /\ offset' = offset + n /\ UNCHANGED file
  <2>1. o + n < s /\ offset' = o + n /\ file' = file /\ buffer' = Copied(buffer, o, piece)
    BY <1>1, <1>2, <1>8
  <2>2. Waiting(piece, k + o, Len(piece)) /\ o + Len(piece) <= Len(buffer)
    BY <1>2, <1>6, <2>1
  <2>3. Waiting(Copied(buffer, o, piece), k, o + Len(piece))
    BY <1>3, <1>6, <2>2, WaitingContinued
  <2>4. Waiting(buffer', k, o + n)
    BY <1>6, <2>1, <2>3
  <2>5. Copied(buffer, o, piece) \in Seq(Nat) /\ Len(Copied(buffer, o, piece)) = Len(buffer)
    BY <1>3, <1>6, CopiedIs
  <2>6. buffer' \in Seq(Nat) /\ Len(buffer') = s
    BY <1>2, <2>1, <2>5
  <2>7. file' \in Seq(Nat) /\ Len(file') = k /\ Text(file', k)
    BY <1>1, <1>3, <2>1
  <2>8. k + (o + n) = given + n /\ given + n \in Nat /\ o + n \in Nat
    BY <1>2, <1>4
  <2>9. Shape'
    BY <1>4, <2>1, <2>6, <2>7, <2>8 DEF Shape
  <2>10. QED
    BY <1>4, <2>1, <2>4, <2>6, <2>7, <2>8, <2>9 DEF FileKept, size
<1>9. \/ file' = file \o SubSeq(buffer, 1, offset) \o piece /\ offset' = 0 /\ UNCHANGED buffer
      \/ n < size - offset /\ buffer' = Copied(buffer, offset, piece) /\ offset' = offset + n /\ UNCHANGED file
  BY <1>5 DEF FileWrite
<1>10. QED
  BY <1>7, <1>8, <1>9

LEMMA FileFlushKeeps ==
  ASSUME Shape, FileKept, open = TRUE, NEW closing \in BOOLEAN, FileFlush(closing)
  PROVE  Shape' /\ FileKept'
<1>1. /\ given' = given /\ file' = file \o SubSeq(buffer, 1, offset) /\ offset' = 0 /\ open' = ~closing
      /\ buffer' = (IF closing THEN <<>> ELSE buffer) /\ length' = length
  BY DEF FileFlush, Writes, Shape
<1>2. file' \in Seq(Nat) /\ Len(file') = given /\ Text(file', Len(file'))
  BY <1>1, WrittenOut
<1>3. buffer \in Seq(Nat) /\ offset < Len(buffer) /\ offset \in Nat /\ length \in Nat /\ given \in Nat /\ given <= MaxGiven
  BY DEF Shape, FileKept, size
<1>4. buffer' \in Seq(Nat) /\ (~closing => Len(buffer') > 0)
  BY <1>1, <1>3
<1>5. Waiting(buffer', Len(file'), 0)
  BY DEF Waiting
<1>6. Shape'
  BY <1>1, <1>2, <1>3, <1>4 DEF Shape
<1>7. Len(file') + 0 = given'
  BY <1>1, <1>2, <1>3
<1>8. QED
  BY <1>1, <1>2, <1>4, <1>5, <1>6, <1>7 DEF FileKept, size

LEMMA FileStep ==
  ASSUME WriterInv,
         \/ \E n \in Lengths : FileWriteCStr(n) \/ FileWrite(n)
         \/ \E closing \in BOOLEAN : FileFlush(closing)
  PROVE  WriterInv'
<1>1. Shape /\ FileKept /\ kind = "file" /\ open = TRUE /\ fault = "none" /\ kind' = kind
  BY DEF FileWriteCStr, FileWrite, FileFlush, Writes, WriterInv, Shape
<1>2. \A n \in Lengths : n \in Nat
  BY StreamsAssumption DEF StreamsAssumption
<1>3. SUFFICES ASSUME fault' = "none" PROVE Shape' /\ FileKept'
  BY <1>1 DEF WriterInv
<1>4. QED
  BY <1>1, <1>2, <1>3, FileWriteCStrKeeps, FileWriteKeeps, FileFlushKeeps

-----------------------------------------------------------------------------
(* VirtualStringWriter and the strings.                                    *)

(* Text continued in a buffer that may have grown.                         *)
LEMMA TextGrown ==
  ASSUME NEW memory \in Seq(Nat), NEW at \in 0..Len(memory), Text(memory, at), NEW newSize \in Nat,
         NEW chars \in Seq(Nat), \A i \in 1..Len(chars) : chars[i] = at + i,
         at + Len(chars) <= Larger(newSize, Len(memory))
  PROVE  /\ Copied(Grown(memory, newSize), at, chars) \in Seq(Nat)
         /\ Len(Copied(Grown(memory, newSize), at, chars)) = Larger(newSize, Len(memory))
         /\ Text(Copied(Grown(memory, newSize), at, chars), at + Len(chars))
<1>1. /\ Grown(memory, newSize) \in Seq(Nat) /\ Len(Grown(memory, newSize)) = Larger(newSize, Len(memory))
      /\ \A i \in 1..Len(memory) : Grown(memory, newSize)[i] = memory[i]
  BY GrownIs
<1> DEFINE new == Grown(memory, newSize)
<1>2. new \in Seq(Nat) /\ Len(new) = Larger(newSize, Len(memory)) /\ at + Len(chars) <= Len(new)
  BY <1>1
<1>3. Text(new, at)
  BY <1>1 DEF Text
<1> HIDE DEF new
<1>4. at \in Nat /\ Len(chars) \in 0..Len(chars)
  OBVIOUS
<1>5. Text(Copied(new, at, chars), at + Len(chars))
  BY <1>2, <1>3, <1>4, TextContinued
<1>6. Copied(new, at, chars) \in Seq(Nat) /\ Len(Copied(new, at, chars)) = Len(new)
  BY <1>2, <1>4, CopiedIs
<1>7. QED
  BY <1>2, <1>5, <1>6 DEF new

(* What putting fits of n characters into an open string keeps, once the   *)
(* buffer has reached newSize.                                             *)
LEMMA StringWritten ==
  ASSUME Shape, StringKept, kind \in {"inplace", "dynamic"}, open = TRUE,
         NEW n \in Nat, NEW fits \in 0..n, NEW newSize \in Nat,
         buffer' = Copied(Grown(buffer, newSize), offset, SubSeq(Piece(n), 1, fits)),
         offset' = offset + fits, given' = given + n, given + n <= MaxGiven, UNCHANGED <<kind, open, length, file>>,
         kind = "inplace" => newSize <= size /\ offset + fits < size /\ (fits = n \/ offset + fits = size - 1),
         kind = "dynamic" => newSize <= 2 * MaxGiven + 16 /\ offset + n < Larger(newSize, size) /\ fits = n
  PROVE  Shape' /\ StringKept'
<1>0. size \in Nat /\ offset \in Nat /\ given \in Nat /\ length \in Nat /\ buffer \in Seq(Nat) /\ file \in Seq(Nat) /\ MaxGiven \in Nat
  BY StreamsAssumption DEF Shape, size, StreamsAssumption
<1>1. PICK s \in Nat, o \in Nat, g \in Nat : s = size /\ o = offset /\ g = given
  BY <1>0
<1>2. /\ kind = "inplace" => (g < s - 1 => o = g) /\ (~(g < s - 1) => o = s - 1) /\ o < s
      /\ kind = "dynamic" => o = g /\ o <= s /\ s <= 2 * MaxGiven + 16
  BY <1>1 DEF StringKept, Kept, Smaller
<1>3. o <= s /\ Text(buffer, o)
  BY <1>1, <1>2 DEF StringKept, Kept
<1>4. PICK t \in Nat : t = Larger(newSize, s)
  BY <1>0, <1>1 DEF Larger
<1>5. /\ kind = "inplace" => t = s /\ o + fits < s /\ (fits = n \/ o + fits = s - 1)
      /\ kind = "dynamic" => t <= 2 * MaxGiven + 16 /\ o + n < t /\ fits = n
  <2>1. kind = "inplace" => newSize <= s /\ o + fits < s /\ (fits = n \/ o + fits = s - 1)
    BY <1>1
  <2>2. kind = "dynamic" => newSize <= 2 * MaxGiven + 16 /\ o + n < t /\ fits = n
    BY <1>1, <1>4
  <2>3. newSize <= s => t = s
    BY <1>4 DEF Larger
  <2>4. t = newSize \/ t = s
    BY <1>4 DEF Larger
  <2>5. QED
    BY <1>2, <2>1, <2>2, <2>3, <2>4
<1>6. fits > 0 => o = g
  BY <1>2, <1>5
<1>7. PICK chars : chars = SubSeq(Piece(n), 1, fits)
  OBVIOUS
<1>8. chars \in Seq(Nat) /\ Len(chars) = fits /\ \A i \in 1..fits : chars[i] = g + i
  <2>1. /\ SubSeq(Piece(n), 1, fits) \in Seq(Nat) /\ Len(SubSeq(Piece(n), 1, fits)) = fits
        /\ \A i \in 1..fits : SubSeq(Piece(n), 1, fits)[i] = given + i
    BY <1>0, PieceIs
  <2>2. QED
    BY <1>1, <1>7, <2>1
<1>9. \A i \in 1..Len(chars) : chars[i] = o + i
  BY <1>6, <1>8
<1>10. buffer' = Copied(Grown(buffer, newSize), o, chars)
  BY <1>1, <1>7
<1>11. Len(buffer) = s /\ o \in 0..s
  BY <1>1, <1>3 DEF size
<1>12. o + fits <= t
  BY <1>5
<1>13. buffer' \in Seq(Nat) /\ Len(buffer') = t /\ Text(buffer', o + fits)
  <2>1. o \in 0..Len(buffer) /\ o + Len(chars) <= Larger(newSize, Len(buffer)) /\ Larger(newSize, Len(buffer)) = t
    BY <1>4, <1>8, <1>11, <1>12
  <2>2. /\ Copied(Grown(buffer, newSize), o, chars) \in Seq(Nat)
        /\ Len(Copied(Grown(buffer, newSize), o, chars)) = Larger(newSize, Len(buffer))
        /\ Text(Copied(Grown(buffer, newSize), o, chars), o + Len(chars))
    BY <1>0, <1>3, <1>8, <1>9, <2>1, TextGrown
  <2>3. QED
    BY <1>8, <1>10, <2>1, <2>2
<1>14. given' = g + n /\ offset' = o + fits
  BY <1>1
<1>15. Shape'
  BY <1>0, <1>1, <1>13, <1>14 DEF Shape
<1>16. /\ kind = "inplace" => o + fits < t /\ (g + n < t - 1 => o + fits = g + n) /\ (~(g + n < t - 1) => o + fits = t - 1)
       /\ kind = "dynamic" => o + fits < t /\ o + fits = g + n
  BY <1>2, <1>5
<1>17. Kept' = o + fits
  BY <1>14 DEF Kept
<1>18. Smaller(g + n, t - 1) = IF g + n < t - 1 THEN g + n ELSE t - 1
  BY DEF Smaller
<1>19. o + fits = (IF kind = "inplace" THEN Smaller(g + n, t - 1) ELSE g + n) /\ o + fits < t
  BY <1>16, <1>18
<1>20. kind = "dynamic" => t <= 2 * MaxGiven + 16
  BY <1>5
<1>21. QED
  BY <1>13, <1>14, <1>15, <1>17, <1>19, <1>20 DEF StringKept, size

(* The sizes of a string in reach of MaxGiven characters.                  *)
LEMMA StringSizes ==
  ASSUME Shape, StringKept, kind \in {"inplace", "dynamic"}, open = TRUE
  PROVE  /\ size \in Nat /\ offset \in Nat /\ given \in Nat /\ MaxGiven \in Nat /\ maxBufferSize \in Nat
         /\ kind = "inplace" => maxBufferSize = size /\ offset < size
         /\ kind = "dynamic" => /\ offset = given /\ maxBufferSize > 2 * MaxGiven + 16
                                /\ size <= 2 * MaxGiven + 16
BY StreamsAssumption DEF Shape, StringKept, Kept, size, maxBufferSize, StreamsAssumption

LEMMA EnlargedIs ==
  ASSUME NEW old \in Nat, NEW required \in Nat, maxBufferSize \in Nat
  PROVE  /\ Enlarged(old, required) \in Nat /\ Enlarged(old, required) >= required
         /\ required <= old => Enlarged(old, required) = old
         /\ required > old => Enlarged(old, required) <= Larger(required, 2 * old)
BY DEF Enlarged, Larger, Smaller

LEMMA StringPutKeeps ==
  ASSUME Shape, StringKept, kind \in {"inplace", "dynamic"}, open = TRUE, StringPut
  PROVE  Shape' /\ StringKept'
<1>0. /\ size \in Nat /\ offset \in Nat /\ given \in Nat /\ MaxGiven \in Nat /\ maxBufferSize \in Nat
      /\ kind = "inplace" => maxBufferSize = size /\ offset < size
      /\ kind = "dynamic" => /\ offset = given /\ maxBufferSize > 2 * MaxGiven + 16
                             /\ size <= 2 * MaxGiven + 16
  BY StringSizes
<1>1. given' = given + 1 /\ given + 1 <= MaxGiven /\ UNCHANGED <<kind, open, length, file>>
  BY DEF StringPut, Writes
<1>2. CASE size < offset + 2 /\ size = maxBufferSize
  <2>1. buffer' = buffer /\ offset' = offset
    BY <1>2 DEF StringPut
  <2>2. kind = "inplace" /\ offset = size - 1
    BY <1>0, <1>2
  <2>3. offset = Smaller(given, size - 1)
    BY <1>0, <2>2 DEF StringKept, Kept
  <2>4. offset = Smaller(given + 1, size - 1)
    BY <1>0, <2>2, <2>3 DEF Smaller
  <2>5. Shape'
    BY <1>0, <1>1, <2>1 DEF Shape
  <2>6. size' = size /\ Kept' = offset /\ Kept = offset
    BY <1>1, <2>1 DEF size, Kept
  <2>7. QED
    BY <1>1, <2>1, <2>2, <2>4, <2>5, <2>6 DEF StringKept
<1>3. CASE ~(size < offset + 2 /\ size = maxBufferSize)
  <2>1. PICK newSize : newSize = Enlarged(size, offset + 2)
    OBVIOUS
  <2>2. buffer' = Copied(Grown(buffer, newSize), offset, Piece(1)) /\ offset' = offset + 1
    BY <1>3, <2>1 DEF StringPut
  <2>3. PICK put : put = Piece(1) /\ put = SubSeq(Piece(1), 1, 1)
    <3>1. 1 \in Nat /\ 1 \in 0..1
      OBVIOUS
    <3>2. Piece(1) \in Seq(Nat) /\ Len(Piece(1)) = 1
      BY <1>0, <3>1, PieceIs
    <3>3. Piece(1) = SubSeq(Piece(1), 1, 1)
      <4> DEFINE p == Piece(1)
      <4>1. p \in Seq(Nat) /\ Len(p) = 1
        BY <3>2
      <4> HIDE DEF p
      <4>2. p = SubSeq(p, 1, 1)
        BY <4>1
      <4>3. QED
        BY <4>2 DEF p
    <3>4. QED
      BY <3>3
  <2>4. /\ newSize \in Nat /\ newSize >= offset + 2
        /\ offset + 2 <= size => newSize = size
        /\ offset + 2 > size => newSize <= Larger(offset + 2, 2 * size)
    <3>1. offset + 2 \in Nat
      BY <1>0
    <3>2. QED
      BY <1>0, <2>1, <3>1, EnlargedIs
  <2>5. kind = "inplace" => newSize <= size /\ offset + 1 < size
    BY <1>0, <1>3, <2>4
  <2>6. kind = "dynamic" => newSize <= 2 * MaxGiven + 16 /\ offset + 1 < Larger(newSize, size)
    BY <1>0, <1>1, <2>4 DEF Larger
  <2>7. 1 \in Nat /\ 1 \in 0..1 /\ buffer' = Copied(Grown(buffer, newSize), offset, SubSeq(Piece(1), 1, 1))
    <3>1. buffer' = Copied(Grown(buffer, newSize), offset, put)
      BY <2>2, <2>3
    <3>2. QED
      BY <2>3, <3>1
  <2>8. QED
    BY <1>1, <2>2, <2>4, <2>5, <2>6, <2>7, StringWritten
<1>4. QED
  BY <1>2, <1>3

LEMMA StringWriteKeeps ==
  ASSUME Shape, StringKept, kind \in {"inplace", "dynamic"}, open = TRUE, NEW n \in Nat, StringWrite(n), fault' = "none"
  PROVE  Shape' /\ StringKept'
<1>0. /\ size \in Nat /\ offset \in Nat /\ given \in Nat /\ MaxGiven \in Nat /\ maxBufferSize \in Nat
      /\ kind = "inplace" => maxBufferSize = size /\ offset < size
      /\ kind = "dynamic" => /\ offset = given /\ maxBufferSize > 2 * MaxGiven + 16
                             /\ size <= 2 * MaxGiven + 16
  BY StringSizes
<1>1. given' = given + n /\ given + n <= MaxGiven /\ UNCHANGED <<kind, open, length, file>> /\ offset' = offset + n
  BY DEF StringWrite, Writes
<1>2. ~(maxBufferSize < offset + n + 1)
  BY DEF StringWrite
<1>3. PICK newSize : newSize = Enlarged(size, offset + n + 1)
  OBVIOUS
<1>4. Smaller(offset + n + 1, maxBufferSize) = offset + n + 1
  BY <1>0, <1>2 DEF Smaller
<1>5. buffer' = Copied(Grown(buffer, newSize), offset, SubSeq(Piece(n), 1, n))
  BY <1>2, <1>3, <1>4 DEF StringWrite
<1>6. /\ newSize \in Nat /\ newSize >= offset + n + 1
      /\ offset + n + 1 <= size => newSize = size
      /\ offset + n + 1 > size => newSize <= Larger(offset + n + 1, 2 * size)
  <2>1. offset + n + 1 \in Nat
    BY <1>0
  <2>2. QED
    BY <1>0, <1>3, <2>1, EnlargedIs
<1>7. kind = "inplace" => newSize <= size /\ offset + n < size
  BY <1>0, <1>2, <1>6
<1>8. kind = "dynamic" => newSize <= 2 * MaxGiven + 16 /\ offset + n < Larger(newSize, size)
  BY <1>0, <1>1, <1>6 DEF Larger
<1>9. n \in 0..n
  OBVIOUS
<1>10. QED
  BY <1>1, <1>5, <1>6, <1>7, <1>8, <1>9, StringWritten

LEMMA StringWriteCStrKeeps ==
  ASSUME Shape, StringKept, kind \in {"inplace", "dynamic"}, open = TRUE, NEW n \in Nat, StringWriteCStr(n), fault' = "none"
  PROVE  Shape' /\ StringKept'
<1>0. /\ size \in Nat /\ offset \in Nat /\ given \in Nat /\ MaxGiven \in Nat /\ maxBufferSize \in Nat
      /\ kind = "inplace" => maxBufferSize = size /\ offset < size
      /\ kind = "dynamic" => /\ offset = given /\ maxBufferSize > 2 * MaxGiven + 16
                             /\ size <= 2 * MaxGiven + 16
  BY StringSizes
<1>1. given' = given + n /\ given + n <= MaxGiven /\ UNCHANGED <<kind, open, length, file>>
  BY DEF StringWriteCStr, Writes
<1>2. CASE size = 0
  <2>1. n = 0 /\ buffer' = buffer /\ offset' = offset
    BY <1>2 DEF StringWriteCStr
  <2>2. given' = given
    BY <1>0, <1>1, <2>1
  <2>3. Shape'
    BY <1>0, <1>1, <2>1, <2>2 DEF Shape
  <2>4. size' = size /\ Kept' = Kept
    BY <1>1, <2>1 DEF size, Kept
  <2>5. QED
    BY <1>1, <2>1, <2>2, <2>3, <2>4 DEF StringKept
<1>3. CASE size # 0
  <2>1. PICK newSize : newSize = SizeFor(offset + n + 1)
    OBVIOUS
  <2>2. /\ newSize \in size..maxBufferSize /\ (newSize >= offset + n + 1 \/ newSize = maxBufferSize)
        /\ newSize <= Larger(size, 2 * (offset + n + 1))
    <3>1. offset + n + 1 \in Nat /\ size \in 1..maxBufferSize
      BY <1>0, <1>3
    <3>2. QED
      BY <1>0, <2>1, <3>1, SizeForIs
  <2>3. PICK fits : fits = IF n < newSize - 1 - offset THEN n ELSE newSize - 1 - offset
    OBVIOUS
  <2>4. buffer' = Copied(Grown(buffer, newSize), offset, SubSeq(Piece(n), 1, fits)) /\ offset' = offset + fits
    BY <1>3, <2>1, <2>3 DEF StringWriteCStr, Smaller
  <2>5. newSize \in Nat /\ newSize <= maxBufferSize /\ size <= newSize
    BY <1>0, <2>2
  <2>6. kind = "dynamic" => newSize <= 2 * MaxGiven + 16 /\ newSize >= offset + n + 1
    BY <1>0, <1>1, <2>2, <2>5 DEF Larger
  <2>7. kind = "dynamic" => fits = n /\ offset + n < Larger(newSize, size)
    BY <1>0, <2>3, <2>5, <2>6 DEF Larger
  <2>8. kind = "inplace" => newSize = size
    BY <1>0, <2>5
  <2>9. kind = "inplace" => fits \in 0..n /\ offset + fits < size /\ (fits = n \/ offset + fits = size - 1)
    BY <1>0, <2>3, <2>8
  <2>10. fits \in 0..n
    BY <2>7, <2>9
  <2>11. QED
    BY <1>1, <2>4, <2>5, <2>6, <2>7, <2>8, <2>9, <2>10, StringWritten
<1>4. QED
  BY <1>2, <1>3

LEMMA StringFlushKeeps ==
  ASSUME Shape, StringKept, kind \in {"inplace", "dynamic"}, open = TRUE,
         NEW closing \in BOOLEAN, StringFlush(closing), fault' = "none"
  PROVE  Shape' /\ StringKept'
<1>0. size \in Nat /\ offset \in Nat /\ given \in Nat /\ buffer \in Seq(Nat) /\ Kept = offset /\ Text(buffer, offset)
  BY DEF Shape, StringKept, Kept, size
<1>1. /\ given' = given /\ kind' = kind /\ offset' = offset /\ file' = file /\ length' = offset
      /\ open' = ~closing /\ offset < size
  BY DEF StringFlush, Writes, HasPlaceFor, Shape
<1>2. PICK zero : Terminator(zero) /\ buffer' = Copied(buffer, offset, zero)
  <2>1. PICK z : z = <<0>>
    OBVIOUS
  <2>2. Terminator(z)
    BY <2>1 DEF Terminator
  <2>3. buffer' = Copied(buffer, offset, z)
    BY <2>1 DEF StringFlush
  <2>4. QED
    BY <2>2, <2>3
<1>3. IsTerminated(buffer', buffer, offset)
  BY <1>0, <1>2, Terminated
<1>4. buffer' \in Seq(Nat) /\ Len(buffer') = size
  BY <1>3 DEF IsTerminated, size
<1>5. Text(buffer', offset)
  BY <1>0, <1>1, <1>3 DEF IsTerminated, Text, size
<1>6. buffer'[offset + 1] = 0
  BY <1>0, <1>1, <1>3 DEF IsTerminated, size
<1>7. Shape'
  BY <1>0, <1>1, <1>4 DEF Shape
<1>8. Kept' = offset /\ size' = size
  BY <1>1, <1>4 DEF Kept, size
<1>9. QED
  BY <1>0, <1>1, <1>5, <1>6, <1>7, <1>8 DEF StringKept

LEMMA StringOpenKeeps ==
  ASSUME Shape, StringKept, StringOpen
  PROVE  Shape' /\ StringKept'
<1>1. open = FALSE /\ open' = TRUE /\ offset' = length /\ UNCHANGED <<kind, buffer, length, file, given>>
  BY DEF StringOpen, Between, Shape
<1>2. Shape'
  BY <1>1 DEF Shape
<1>3. Kept' = length /\ Kept = length /\ size' = size
  BY <1>1 DEF Kept, size
<1>4. QED
  BY <1>1, <1>2, <1>3 DEF StringKept

LEMMA StringAppendKeeps ==
  ASSUME Shape, StringKept, NEW n \in Nat, StringAppend(n)
  PROVE  Shape' /\ StringKept'
<1>0. /\ size \in Nat /\ length \in Nat /\ given \in Nat /\ offset \in Nat /\ MaxGiven \in Nat
      /\ buffer \in Seq(Nat) /\ file \in Seq(Nat)
  BY StreamsAssumption DEF Shape, size, StreamsAssumption
<1>1. PICK s \in Nat, l \in Nat, g \in Nat : s = size /\ l = length /\ g = given
  BY <1>0
<1>2. /\ kind \in {"inplace", "dynamic"} /\ open = FALSE /\ UNCHANGED <<kind, open, offset, file>>
      /\ given' = g + n /\ g + n <= MaxGiven
  BY <1>1 DEF StringAppend, Between, Shape
<1>3. /\ kind = "inplace" => (g < s - 1 => l = g) /\ (~(g < s - 1) => l = s - 1) /\ l < s
      /\ kind = "dynamic" => l = g /\ l <= s /\ s <= 2 * MaxGiven + 16
      /\ Text(buffer, l)
  BY <1>1, <1>2 DEF StringKept, Kept, Smaller
<1>4. PICK t \in Nat : t = Larger(l + n + 1, Larger(2 * s, InitialBufferSize))
  BY DEF Larger, InitialBufferSize
<1>5. PICK newSize \in Nat : newSize = IF kind = "dynamic" /\ s < l + n + 1 THEN t ELSE s
  OBVIOUS
<1>6. (IF kind = "dynamic" THEN Extended(n) ELSE buffer) = Grown(buffer, newSize)
  <2>1. Grown(buffer, s) = buffer
    <3>1. Len(buffer) = s /\ Larger(s, s) = s
      BY <1>1 DEF Larger, size
    <3>2. Grown(buffer, s) \in Seq(Nat) /\ Len(Grown(buffer, s)) = s /\ \A i \in 1..s : Grown(buffer, s)[i] = buffer[i]
      BY <1>0, <3>1, GrownIs
    <3>3. QED
      BY <1>0, <3>1, <3>2
  <2>2. Extended(n) = IF s < l + n + 1 THEN Grown(buffer, t) ELSE buffer
    BY <1>1, <1>4 DEF Extended
  <2>3. QED
    BY <1>5, <2>1, <2>2
<1>7. PICK fits : fits = IF kind = "inplace" THEN (IF n < s - 1 - l THEN n ELSE s - 1 - l) ELSE n
  OBVIOUS
<1>8. /\ buffer' = Copied(Grown(buffer, newSize), l, Append(SubSeq(Piece(n), 1, fits), 0))
      /\ length' = l + fits
  <2>1. fits = IF kind = "inplace" THEN Smaller(n, size - 1 - length) ELSE n
    BY <1>1, <1>7 DEF Smaller
  <2>2. /\ buffer' = Copied(IF kind = "dynamic" THEN Extended(n) ELSE buffer, length, Append(SubSeq(Piece(n), 1, fits), 0))
        /\ length' = length + fits
    BY <2>1 DEF StringAppend
  <2>3. QED
    BY <1>1, <1>6, <2>2
<1>9. /\ fits \in 0..n /\ (fits > 0 => l = g)
      /\ kind = "inplace" => l + fits < s /\ (fits = n \/ l + fits = s - 1)
      /\ kind = "dynamic" => fits = n
  <2>1. kind = "inplace" => /\ fits \in 0..n /\ l + fits < s /\ (fits = n \/ l + fits = s - 1)
    BY <1>3, <1>7
  <2>2. kind = "dynamic" => fits = n
    BY <1>7
  <2>3. kind = "inplace" \/ kind = "dynamic"
    BY <1>2
  <2>4. QED
    BY <1>3, <2>1, <2>2, <2>3
<1>10. PICK put : put = SubSeq(Piece(n), 1, fits)
  OBVIOUS
<1>11. put \in Seq(Nat) /\ Len(put) = fits /\ \A i \in 1..fits : put[i] = g + i
  <2>1. /\ SubSeq(Piece(n), 1, fits) \in Seq(Nat) /\ Len(SubSeq(Piece(n), 1, fits)) = fits
        /\ \A i \in 1..fits : SubSeq(Piece(n), 1, fits)[i] = given + i
    BY <1>0, <1>9, PieceIs
  <2>2. QED
    BY <1>1, <1>10, <2>1
<1>12. PICK chars : chars = Append(put, 0)
  OBVIOUS
<1>13. chars \in Seq(Nat) /\ Len(chars) = fits + 1 /\ chars[fits + 1] = 0 /\ \A i \in 1..fits : chars[i] = l + i
  <2>1. /\ Append(put, 0) \in Seq(Nat) /\ Len(Append(put, 0)) = Len(put) + 1 /\ Append(put, 0)[Len(put) + 1] = 0
        /\ \A i \in 1..Len(put) : Append(put, 0)[i] = put[i]
    BY <1>11
  <2>2. chars \in Seq(Nat) /\ Len(chars) = fits + 1 /\ chars[fits + 1] = 0 /\ \A i \in 1..fits : chars[i] = put[i]
    BY <1>11, <1>12, <2>1
  <2>3. QED
    BY <1>9, <1>11, <2>2
<1>14. PICK memory : memory = Grown(buffer, newSize)
  OBVIOUS
<1>15. memory \in Seq(Nat) /\ Len(memory) = newSize /\ Text(memory, l) /\ newSize >= s
  <2>1. newSize >= s /\ Len(buffer) = s /\ Larger(newSize, Len(buffer)) = newSize
    BY <1>1, <1>4, <1>5 DEF Larger, size, InitialBufferSize
  <2>2. /\ Grown(buffer, newSize) \in Seq(Nat) /\ Len(Grown(buffer, newSize)) = newSize
        /\ \A i \in 1..s : Grown(buffer, newSize)[i] = buffer[i]
    BY <1>0, <2>1, GrownIs
  <2>3. l <= s
    BY <1>2, <1>3
  <2>4. QED
    BY <1>3, <1>14, <2>1, <2>2, <2>3 DEF Text
<1>16. l + fits < newSize /\ (kind = "inplace" => newSize = s) /\ (kind = "dynamic" => newSize <= 2 * MaxGiven + 16)
  <2>1. kind = "inplace" => newSize = s /\ l + fits < s
    BY <1>5, <1>9
  <2>2. t >= l + n + 1 /\ (s < l + n + 1 /\ l + n <= MaxGiven => t <= 2 * MaxGiven + 16)
    BY <1>0, <1>4 DEF Larger, InitialBufferSize
  <2>3. kind = "dynamic" => newSize >= l + n + 1 /\ newSize <= 2 * MaxGiven + 16 /\ fits = n
    BY <1>2, <1>3, <1>5, <1>9, <2>2
  <2>4. QED
    BY <1>2, <2>1, <2>3
<1>17. buffer' = Copied(memory, l, chars)
  BY <1>8, <1>10, <1>12, <1>14
<1>18. buffer' \in Seq(Nat) /\ Len(buffer') = newSize /\ Text(buffer', l + fits) /\ buffer'[l + fits + 1] = 0
  <2>1. fits \in 0..Len(chars) /\ l + fits <= Len(memory) /\ l + fits + 1 \in 1..Len(memory)
    BY <1>9, <1>13, <1>15, <1>16
  <2>2. Text(Copied(memory, l, chars), l + fits)
    BY <1>13, <1>15, <2>1, TextContinued
  <2>3. Copied(memory, l, chars) \in Seq(Nat) /\ Len(Copied(memory, l, chars)) = Len(memory)
    BY <1>13, <1>15, CopiedIs
  <2>4. PICK z \in Nat : z = l + fits + 1
    BY <1>9
  <2>5. z \in 1..Len(memory) /\ z > l /\ z <= l + Len(chars) /\ z - l = fits + 1
    BY <1>9, <1>13, <2>1, <2>4
  <2>6. Copied(memory, l, chars)[z] = chars[z - l]
    BY <1>13, <1>15, <2>5, CopiedIs
  <2>7. Copied(memory, l, chars)[z] = 0
    BY <1>13, <2>5, <2>6
  <2>8. QED
    BY <1>15, <1>17, <2>2, <2>3, <2>4, <2>7
<1>19. Shape'
  BY <1>0, <1>1, <1>2, <1>8, <1>9, <1>18 DEF Shape
<1>20. Kept' = l + fits /\ open' = FALSE
  BY <1>2, <1>8 DEF Kept
<1>21. l + fits = (IF kind = "inplace" THEN Smaller(g + n, newSize - 1) ELSE g + n)
  <2>1. CASE kind = "inplace"
    <3>1. /\ newSize = s /\ (g < s - 1 => l = g) /\ (~(g < s - 1) => l = s - 1)
          /\ l + fits < s /\ (fits = n \/ l + fits = s - 1)
      BY <1>3, <1>9, <1>16, <2>1
    <3>2. (g + n < s - 1 => l + fits = g + n) /\ (~(g + n < s - 1) => l + fits = s - 1)
      BY <1>9, <3>1
    <3>3. QED
      BY <2>1, <3>1, <3>2 DEF Smaller
  <2>2. CASE kind = "dynamic"
    BY <1>3, <1>9, <2>2
  <2>3. QED
    BY <1>2, <2>1, <2>2
<1>22. QED
  BY <1>2, <1>16, <1>18, <1>19, <1>20, <1>21 DEF StringKept, size

LEMMA StringTruncateKeeps ==
  ASSUME Shape, StringKept, NEW n \in Nat, StringTruncate(n)
  PROVE  Shape' /\ StringKept'
<1>0. size \in Nat /\ length \in Nat /\ given \in Nat /\ offset \in Nat /\ buffer \in Seq(Nat)
  BY DEF Shape, size
<1>1. /\ kind \in {"inplace", "dynamic"} /\ (kind = "inplace" => n = 0) /\ open = FALSE /\ n <= length
      /\ UNCHANGED <<kind, open, offset, file>> /\ given' = n /\ length' = n
  BY DEF StringTruncate, Between, Shape
<1>2. /\ Kept = length /\ Text(buffer, length) /\ (length < size \/ (length = 0 /\ size = 0))
      /\ (kind = "dynamic" => length = given) /\ (kind = "inplace" => size >= 1)
  BY <1>0, <1>1 DEF StringKept, Kept
<1>3. PICK zero : Terminator(zero) /\ buffer' = Copied(buffer, n, zero)
  <2>1. PICK z : z = <<0>>
    OBVIOUS
  <2>2. Terminator(z)
    BY <2>1 DEF Terminator
  <2>3. buffer' = Copied(buffer, n, z)
    BY <2>1 DEF StringTruncate
  <2>4. QED
    BY <2>2, <2>3
<1>4. IsTerminated(buffer', buffer, n)
  BY <1>0, <1>3, Terminated
<1>5. buffer' \in Seq(Nat) /\ Len(buffer') = size
  BY <1>4 DEF IsTerminated, size
<1>6. Text(buffer', n) /\ (size > 0 => buffer'[n + 1] = 0)
  <2>1. \A i \in 1..size : buffer'[i] = IF i = n + 1 THEN 0 ELSE buffer[i]
    BY <1>4 DEF IsTerminated, size
  <2>2. n <= size /\ (size > 0 => n + 1 \in 1..size)
    BY <1>0, <1>1, <1>2
  <2>3. QED
    BY <1>0, <1>1, <1>2, <2>1, <2>2 DEF Text
<1>7. n <= MaxGiven
  <2>1. given <= MaxGiven /\ MaxGiven \in Nat
    BY StreamsAssumption DEF Shape, StreamsAssumption
  <2>2. QED
    BY <1>0, <1>1, <1>2, <2>1
<1>8. Shape'
  BY <1>1, <1>5, <1>7 DEF Shape
<1>9. Kept' = n /\ size' = size
  BY <1>1, <1>5 DEF Kept, size
<1>10. kind = "inplace" => n = Smaller(n, size - 1)
  BY <1>0, <1>1, <1>2 DEF Smaller
<1>11. n < size \/ (kind = "dynamic" /\ n = 0 /\ size = 0)
  BY <1>0, <1>1, <1>2
<1>12. kind = "dynamic" => size <= 2 * MaxGiven + 16
  BY DEF StringKept
<1>13. QED
  BY <1>1, <1>6, <1>8, <1>9, <1>10, <1>11, <1>12 DEF StringKept

LEMMA StringShrinkBufferKeeps ==
  ASSUME Shape, StringKept, StringShrinkBuffer
  PROVE  Shape' /\ StringKept'
<1>0. size \in Nat /\ length \in Nat /\ given \in Nat /\ offset \in Nat /\ buffer \in Seq(Nat) /\ MaxGiven \in Nat
  BY StreamsAssumption DEF Shape, size, StreamsAssumption
<1>1. kind = "dynamic" /\ open = FALSE /\ UNCHANGED <<kind, open, offset, length, file, given>>
  BY DEF StringShrinkBuffer, Between, Shape
<1>2. /\ Text(buffer, length) /\ (length < size \/ (length = 0 /\ size = 0)) /\ length = given
      /\ (size > 0 => buffer[length + 1] = 0) /\ size <= 2 * MaxGiven + 16
  BY <1>1 DEF StringKept, Kept
<1>3. CASE length = 0
  <2>1. buffer' = <<>>
    BY <1>3 DEF StringShrinkBuffer
  <2>2. buffer' \in Seq(Nat) /\ Len(buffer') = 0 /\ Text(buffer', 0)
    BY <2>1 DEF Text
  <2>3. Shape'
    BY <1>1, <2>2 DEF Shape
  <2>4. QED
    BY <1>0, <1>1, <1>2, <1>3, <2>2, <2>3 DEF StringKept, Kept, size
<1>4. CASE length # 0
  <2>1. length < size /\ Smaller(size, length + 1) = length + 1
    BY <1>0, <1>2, <1>4 DEF Smaller
  <2>2. buffer' = SubSeq(buffer, 1, length + 1)
    BY <1>4, <2>1 DEF StringShrinkBuffer
  <2>3. length + 1 \in 1..Len(buffer)
    BY <1>0, <2>1 DEF size
  <2>4. PICK m \in 1..Len(buffer) : m = length + 1
    BY <2>3
  <2>5. SubSeq(buffer, 1, m) \in Seq(Nat) /\ Len(SubSeq(buffer, 1, m)) = m /\ \A i \in 1..m : SubSeq(buffer, 1, m)[i] = buffer[i]
    BY <1>0, <2>4
  <2>6. buffer' \in Seq(Nat) /\ Len(buffer') = length + 1 /\ \A i \in 1..(length + 1) : buffer'[i] = buffer[i]
    BY <2>2, <2>4, <2>5
  <2>7. Text(buffer', length) /\ buffer'[length + 1] = 0
    BY <1>0, <1>2, <2>1, <2>6 DEF Text
  <2>8. Shape'
    BY <1>1, <2>6 DEF Shape
  <2>9. length + 1 <= 2 * MaxGiven + 16
    BY <1>0, <1>2, <2>1
  <2>10. Kept' = length /\ size' = length + 1
    BY <1>1, <2>6 DEF Kept, size
  <2>11. QED
    BY <1>0, <1>1, <1>2, <2>7, <2>8, <2>9, <2>10 DEF StringKept
<1>5. QED
  BY <1>3, <1>4

LEMMA StringStep ==
  ASSUME WriterInv,
         \/ \E n \in Lengths : StringWrite(n) \/ StringWriteCStr(n) \/ StringAppend(n) \/ StringTruncate(n)
         \/ StringPut \/ StringOpen \/ StringShrinkBuffer
         \/ \E closing \in BOOLEAN : StringFlush(closing)
  PROVE  WriterInv'
<1>1. /\ Shape /\ StringKept /\ kind \in {"inplace", "dynamic"} /\ fault = "none" /\ kind' = kind
  BY DEF StringWrite, StringWriteCStr, StringAppend, StringTruncate, StringPut, StringOpen, StringShrinkBuffer,
         StringFlush, Writes, Between, WriterInv
<1>2. \A n \in Lengths : n \in Nat
  BY StreamsAssumption DEF StreamsAssumption
<1>3. SUFFICES ASSUME fault' = "none" PROVE Shape' /\ StringKept'
  BY <1>1 DEF WriterInv
<1>4. ASSUME NEW n \in Lengths, StringWrite(n) \/ StringWriteCStr(n) PROVE Shape' /\ StringKept'
  <2>1. open = TRUE
    BY <1>1, <1>4 DEF StringWrite, StringWriteCStr, Writes, Shape
  <2>2. QED
    BY <1>1, <1>2, <1>3, <1>4, <2>1, StringWriteKeeps, StringWriteCStrKeeps
<1>5. ASSUME StringPut \/ \E closing \in BOOLEAN : StringFlush(closing) PROVE Shape' /\ StringKept'
  <2>1. open = TRUE
    BY <1>1, <1>5 DEF StringPut, StringFlush, Writes, Shape
  <2>2. QED
    BY <1>1, <1>3, <1>5, <2>1, StringPutKeeps, StringFlushKeeps
<1>6. QED
  BY <1>1, <1>2, <1>4, <1>5, StringOpenKeeps, StringAppendKeeps, StringTruncateKeeps, StringShrinkBufferKeeps

(* A step of any of the structures.                                        *)
LEMMA WriterInvStep == WriterInv /\ [StructuresNext]_structureVars => WriterInv'
<1> SUFFICES ASSUME WriterInv, [StructuresNext]_structureVars PROVE WriterInv'
  OBVIOUS
<1>1. CASE WriterNext
  BY <1>1, MemoryStep, FileStep, StringStep DEF WriterNext
<1>2. CASE UNCHANGED writerVars
  BY <1>2 DEF writerVars, WriterInv, Shape, MemoryKept, FileKept, StringKept, Kept, Text, Waiting, size
<1>3. QED
  BY <1>1, <1>2 DEF StructuresNext, structureVars

LEMMA WriterInvIsTextKept == WriterInv => TextKept
<1> SUFFICES ASSUME WriterInv, fault = "none" PROVE TextKept
  BY DEF TextKept
<1>0. Shape
  BY DEF WriterInv
<1>1. kind = "memory" => TextKept
  BY DEF WriterInv, MemoryKept, TextKept
<1>2. ASSUME kind = "file" PROVE TextKept
  <2>1. FileKept
    BY <1>2 DEF WriterInv
  <2>2. PICK o \in Nat, k \in Nat, g \in Nat : o = offset /\ k = Len(file) /\ g = given
    BY <1>0 DEF Shape
  <2>3. /\ k + o = g /\ Text(file, k) /\ Waiting(buffer, k, o) /\ o <= Len(buffer)
        /\ buffer \in Seq(Nat) /\ file \in Seq(Nat) /\ (open => offset < size)
    BY <1>0, <2>1, <2>2 DEF FileKept, Shape, size
  <2>4. PICK held : held = SubSeq(buffer, 1, o)
    OBVIOUS
  <2>5. held \in Seq(Nat) /\ Len(held) = o /\ Waiting(held, k, o)
    <3>1. o \in 0..Len(buffer) /\ o \in 0..o
      BY <2>3
    <3>2. /\ SubSeq(buffer, 1, o) \in Seq(Nat) /\ Len(SubSeq(buffer, 1, o)) = o
          /\ Waiting(SubSeq(buffer, 1, o), k, o)
      BY <2>3, <3>1, WaitingParts
    <3>3. QED
      BY <2>4, <3>2
  <2>6. Waiting(held, Len(file), Len(held)) /\ Text(file, Len(file))
    BY <2>2, <2>3, <2>5
  <2>7. /\ file \o held \in Seq(Nat) /\ Len(file \o held) = Len(file) + Len(held)
        /\ Text(file \o held, Len(file \o held))
    BY <2>3, <2>5, <2>6, TextAppended
  <2>8. Len(file) + Len(held) = given
    BY <2>2, <2>3, <2>5
  <2>9. FirstGiven(file \o held, given)
    <3>1. PICK whole : whole = file \o held
      OBVIOUS
    <3>2. whole \in Seq(Nat) /\ Len(whole) = given /\ \A i \in 1..given : whole[i] = i
      BY <2>7, <2>8, <3>1 DEF Text
    <3>3. whole = [i \in 1..given |-> i]
      BY <3>2
    <3>4. QED
      BY <3>1, <3>3 DEF FirstGiven
  <2>10. file \o held = file \o SubSeq(buffer, 1, offset)
    BY <2>2, <2>4
  <2>11. QED
    BY <1>2, <2>3, <2>9, <2>10 DEF TextKept
<1>3. ASSUME kind \in {"inplace", "dynamic"} PROVE TextKept
  <2>1. StringKept
    BY <1>3 DEF WriterInv
  <2>2. PICK l \in Nat : l = Kept
    BY <1>0 DEF Shape, Kept
  <2>3. l <= Len(buffer) /\ buffer \in Seq(Nat) /\ Text(buffer, l)
    BY <1>0, <2>1, <2>2 DEF StringKept, Shape, size
  <2>4. FirstGiven(SubSeq(buffer, 1, l), l)
    <3>1. SubSeq(buffer, 1, l) \in Seq(Nat) /\ Len(SubSeq(buffer, 1, l)) = l /\ \A i \in 1..l : SubSeq(buffer, 1, l)[i] = i
      BY <2>3 DEF Text
    <3>2. PICK kept : kept = SubSeq(buffer, 1, l)
      OBVIOUS
    <3>3. kept = [i \in 1..l |-> i]
      BY <3>1, <3>2
    <3>4. QED
      BY <3>2, <3>3 DEF FirstGiven
  <2>5. FirstGiven(SubSeq(buffer, 1, Kept), Kept)
    BY <2>2, <2>4
  <2>6. QED
    BY <1>3, <2>1, <2>5 DEF TextKept, StringKept, Kept
<1>4. kind \notin {"file", "memory", "inplace", "dynamic"} => TextKept
  BY DEF TextKept
<1>5. QED
  BY <1>1, <1>2, <1>3, <1>4

(* No writer loses, repeats or misplaces a character before one of its     *)
(* faults: whatever the sizes of the buffers and of the pieces, a file and *)
(* its buffer, memory and strings hold what they were given up to their    *)
(* limit, in order, and closed strings are terminated.                     *)
THEOREM TextAlwaysKept == StructuresSpec => []TextKept
<1>1. StructuresInit => WriterInv
  BY WriterInvInit DEF StructuresInit
<1>2. QED
  BY <1>1, WriterInvStep, WriterInvIsTextKept, PTL DEF StructuresSpec

-----------------------------------------------------------------------------
(* The handle pool.                                                        *)
USE CapacityAssumption, GenerationsAssumption, MaxReleasesAssumption
    DEF CapacityAssumption, GenerationsAssumption, MaxReleasesAssumption

LEMMA NextGenerationType ==
  ASSUME NEW g \in 0..(Generations - 1)
  PROVE  NextGeneration(g) \in 0..(Generations - 1)
  BY ModBounds DEF NextGeneration

(* The shape of the state, with freelistHeadIdx in the pool while the      *)
(* freelist is not empty, as FreelistSound has it.                         *)
Inv == TypeOK /\ FreelistSound

LEMMA InvInit == Init => Inv
<1> SUFFICES ASSUME Init PROVE Inv
  OBVIOUS
<1>1. TypeOK
  BY DEF Init, TypeOK, Entries
<1>2. FreelistSound
  BY DEF Init, FreelistSound
<1>3. QED
  BY <1>1, <1>2 DEF Inv

(* An entry handed out: what both kinds of allocation and Issue keep.      *)
LEMMA IssueType ==
  ASSUME TypeOK, NEW i \in Entries, Issue(i)
  PROVE  issued' \subseteq Handle
  BY DEF TypeOK, Issue, Handle

LEMMA InvStep == Inv /\ [Next]_vars => Inv'
<1> SUFFICES ASSUME TypeOK, FreelistSound, [Next]_vars PROVE TypeOK' /\ FreelistSound'
  BY DEF Inv
<1> USE DEF pool
<1>1. CASE AllocateFromFreelist
  <2> DEFINE i == freelistHeadIdx
             free == (0..(committedEntryCount - 1)) \ allocated
  <2>1. i \in free /\ i \in Entries /\ rank[i] = freelistLength /\ free \subseteq Entries
    BY <1>1 DEF AllocateFromFreelist, FreelistSound, TypeOK, Entries
  <2>2. TypeOK'
    <3>1. issued' \subseteq Handle
      BY <1>1, <2>1, IssueType DEF AllocateFromFreelist
    <3>2. freelistHeadIdx' \in Nat /\ freelistLength' \in Nat
      BY <1>1, <2>1 DEF AllocateFromFreelist, TypeOK
    <3>3. QED
      BY <1>1, <2>1, <3>1, <3>2 DEF AllocateFromFreelist, TypeOK
  <2>3. FreelistSound'
    <3>1. /\ allocated' = allocated \cup {i} /\ committedEntryCount' = committedEntryCount
          /\ freelistLength > 0 /\ freelistLength' = freelistLength - 1
          /\ freelistHeadIdx' = freelistNextIdx[i] /\ freelistNextIdx' = freelistNextIdx
          /\ freelistLength \in Nat
      BY <1>1 DEF AllocateFromFreelist, TypeOK
    <3>2. \A j \in Entries : rank'[j] = IF j = i THEN 0 ELSE rank[j]
      BY <1>1 DEF AllocateFromFreelist, TypeOK
    <3>3. (0..(committedEntryCount' - 1)) \ allocated' = free \ {i}
      BY <3>1
    <3>4. \A j \in free \ {i} : rank'[j] = rank[j] /\ rank[j] \in 1..(freelistLength - 1)
      BY <2>1, <3>1, <3>2 DEF FreelistSound
    <3>5. \A r \in 1..(freelistLength - 1) : \E j \in free \ {i} : rank'[j] = r
      <4>1. ASSUME NEW r \in 1..(freelistLength - 1) PROVE \E j \in free \ {i} : rank'[j] = r
        <5>1. r \in 1..freelistLength /\ r # freelistLength
          BY <3>1
        <5>2. PICK j \in free : rank[j] = r
          BY <5>1 DEF FreelistSound
        <5>3. QED
          BY <2>1, <3>4, <5>1, <5>2
      <4>2. QED
        BY <4>1
    <3>6. freelistLength - 1 > 0 =>
            freelistNextIdx[i] \in free \ {i} /\ rank'[freelistNextIdx[i]] = freelistLength - 1
      <4>1. SUFFICES ASSUME freelistLength > 1
                     PROVE  freelistNextIdx[i] \in free \ {i}
                            /\ rank'[freelistNextIdx[i]] = freelistLength - 1
        BY <3>1
      <4>2. freelistNextIdx[i] \in free /\ rank[freelistNextIdx[i]] = freelistLength - 1
        BY <2>1, <4>1 DEF FreelistSound
      <4>3. QED
        BY <2>1, <3>1, <3>4, <4>2
    <3>7. \A j \in free \ {i} : rank'[j] > 1 =>
            freelistNextIdx[j] \in free \ {i} /\ rank'[freelistNextIdx[j]] = rank'[j] - 1
      <4>1. SUFFICES ASSUME NEW j \in free \ {i}, rank[j] > 1
                     PROVE  freelistNextIdx[j] \in free \ {i}
                            /\ rank'[freelistNextIdx[j]] = rank[j] - 1
        BY <3>4
      <4>2. freelistNextIdx[j] \in free /\ rank[freelistNextIdx[j]] = rank[j] - 1
        BY <4>1 DEF FreelistSound
      <4>3. rank[j] - 1 # freelistLength
        BY <3>1, <3>4
      <4>4. QED
        BY <2>1, <3>4, <4>2, <4>3
    <3>8. \A j, k \in free \ {i} : rank'[j] = rank'[k] => j = k
      BY <3>4 DEF FreelistSound
    <3> HIDE DEF i, free
    <3>9. QED
      BY <3>1, <3>3, <3>4, <3>5, <3>6, <3>7, <3>8 DEF FreelistSound
  <2>4. QED
    BY <2>2, <2>3
<1>2. CASE AllocateNewEntry
  <2> DEFINE i == committedEntryCount
  <2>1. i \in Entries /\ i \in Nat /\ i \notin allocated
    BY <1>2 DEF AllocateNewEntry, TypeOK, Entries
  <2>2. TypeOK'
    <3>1. issued' \subseteq Handle
      BY <1>2, <2>1, IssueType DEF AllocateNewEntry
    <3>2. committedEntryCount' \in 0..Capacity
      BY <1>2 DEF AllocateNewEntry, TypeOK
    <3>3. allocated' \subseteq 0..(committedEntryCount' - 1)
      BY <1>2 DEF AllocateNewEntry, TypeOK
    <3>4. QED
      BY <1>2, <3>1, <3>2, <3>3 DEF AllocateNewEntry, TypeOK
  <2>3. FreelistSound'
    <3>1. (0..(committedEntryCount' - 1)) \ allocated' = (0..(committedEntryCount - 1)) \ allocated
      BY <1>2, <2>1 DEF AllocateNewEntry
    <3>2. UNCHANGED <<freelistHeadIdx, freelistLength, freelistNextIdx, rank>>
      BY <1>2 DEF AllocateNewEntry
    <3>3. QED
      BY <3>1, <3>2 DEF FreelistSound
  <2>4. QED
    BY <2>2, <2>3
<1>3. ASSUME NEW h \in issued, Release(h) PROVE TypeOK' /\ FreelistSound'
  <2> DEFINE i == h.index
             free == (0..(committedEntryCount - 1)) \ allocated
  <2>1. i \in Entries /\ i \in 0..(committedEntryCount - 1) /\ i \in allocated /\ i \notin free
    BY <1>3 DEF Release, Resolves, TypeOK, Handle
  <2>2. TypeOK'
    <3>1. handleGeneration' \in [Entries -> 0..(Generations - 1)]
      <4>1. handleGeneration[i] \in 0..(Generations - 1)
        BY <2>1 DEF TypeOK
      <4>2. NextGeneration(handleGeneration[i]) \in 0..(Generations - 1)
        BY <4>1, NextGenerationType
      <4>3. QED
        BY <1>3, <2>1, <4>2 DEF Release, TypeOK
    <3>2. releases' \in [Entries -> 0..MaxReleases]
      BY <1>3, <2>1 DEF Release, TypeOK
    <3>3. freelistNextIdx' \in [Entries -> Nat] /\ rank' \in [Entries -> Nat]
      <4>1. freelistHeadIdx \in Nat /\ freelistLength + 1 \in Nat
        BY DEF TypeOK
      <4>2. freelistNextIdx \in [Entries -> Nat] /\ rank \in [Entries -> Nat]
        BY DEF TypeOK
      <4>3. /\ freelistNextIdx' = [freelistNextIdx EXCEPT ![i] = freelistHeadIdx]
            /\ rank' = [rank EXCEPT ![i] = freelistLength + 1]
        BY <1>3 DEF Release
      <4>4. QED
        BY <4>1, <4>2, <4>3
    <3>4. freelistHeadIdx' \in Nat /\ freelistLength' \in Nat
      BY <1>3, <2>1 DEF Release, TypeOK, Entries
    <3>5. QED
      BY <1>3, <3>1, <3>2, <3>3, <3>4 DEF Release, TypeOK
  <2>3. FreelistSound'
    <3>1. /\ allocated' = allocated \ {i} /\ committedEntryCount' = committedEntryCount
          /\ freelistLength' = freelistLength + 1 /\ freelistHeadIdx' = i
          /\ freelistLength \in Nat
      BY <1>3 DEF Release, TypeOK
    <3>2. \A j \in Entries :
            /\ rank'[j] = IF j = i THEN freelistLength + 1 ELSE rank[j]
            /\ freelistNextIdx'[j] = IF j = i THEN freelistHeadIdx ELSE freelistNextIdx[j]
      BY <1>3 DEF Release, TypeOK
    <3>3. (0..(committedEntryCount' - 1)) \ allocated' = free \cup {i}
      BY <2>1, <3>1
    <3>4. free \subseteq Entries
      BY DEF TypeOK, Entries
    <3>5. \A j \in free : rank'[j] = rank[j] /\ rank[j] \in 1..freelistLength
                          /\ freelistNextIdx'[j] = freelistNextIdx[j]
      BY <2>1, <3>2, <3>4 DEF FreelistSound
    <3>6. rank'[i] = freelistLength + 1 /\ freelistNextIdx'[i] = freelistHeadIdx
      BY <2>1, <3>2
    <3>7. \A r \in 1..(freelistLength + 1) : \E j \in free \cup {i} : rank'[j] = r
      <4>1. ASSUME NEW r \in 1..(freelistLength + 1) PROVE \E j \in free \cup {i} : rank'[j] = r
        <5>1. CASE r = freelistLength + 1
          BY <3>6, <5>1
        <5>2. CASE r \in 1..freelistLength
          BY <3>5, <5>2 DEF FreelistSound
        <5>3. QED
          BY <3>1, <5>1, <5>2
      <4>2. QED
        BY <4>1
    <3>8. \A j, k \in free \cup {i} : rank'[j] = rank'[k] => j = k
      <4>1. \A j \in free : rank'[j] # rank'[i]
        BY <3>1, <3>5, <3>6
      <4>2. QED
        BY <3>5, <4>1 DEF FreelistSound
    <3>9. \A j \in free \cup {i} : rank'[j] > 1 =>
            freelistNextIdx'[j] \in free \cup {i} /\ rank'[freelistNextIdx'[j]] = rank'[j] - 1
      <4>1. ASSUME NEW j \in free, rank'[j] > 1
            PROVE  freelistNextIdx'[j] \in free /\ rank'[freelistNextIdx'[j]] = rank'[j] - 1
        BY <3>5, <4>1 DEF FreelistSound
      <4>2. ASSUME rank'[i] > 1
            PROVE  freelistNextIdx'[i] \in free /\ rank'[freelistNextIdx'[i]] = rank'[i] - 1
        <5>1. freelistLength > 0
          BY <3>1, <3>6, <4>2
        <5>2. freelistHeadIdx \in free /\ rank[freelistHeadIdx] = freelistLength
          BY <5>1 DEF FreelistSound
        <5>3. QED
          BY <3>1, <3>5, <3>6, <5>2
      <4>3. QED
        BY <4>1, <4>2
    <3>10. \A j \in free \cup {i} : rank'[j] \in 1..(freelistLength + 1)
      BY <3>1, <3>5, <3>6
    <3> HIDE DEF i, free
    <3>11. QED
      BY <3>1, <3>3, <3>6, <3>7, <3>8, <3>9, <3>10 DEF FreelistSound
  <2>4. QED
    BY <2>2, <2>3
<1>4. CASE UNCHANGED vars
  BY <1>4 DEF vars, TypeOK, FreelistSound
<1>5. QED
  BY <1>1, <1>2, <1>3, <1>4 DEF Next

(* The shape of the state, for every capacity.                             *)
THEOREM TypeCorrect == Spec => []TypeOK
<1>1. Inv => TypeOK
  BY DEF Inv
<1>2. QED
  BY <1>1, InvInit, InvStep, PTL DEF Spec

(* FreelistSound holds in every reachable state: no entry leaks, none is   *)
(* handed out twice.                                                       *)
THEOREM FreelistAlwaysSound == Spec => []FreelistSound
<1>1. Inv => FreelistSound
  BY DEF Inv
<1>2. QED
  BY <1>1, InvInit, InvStep, PTL DEF Spec

-----------------------------------------------------------------------------
(* A generation is the number of releases, wrapped.                        *)
GenerationInv ==
  /\ \A i \in Entries : handleGeneration[i] = releases[i] % Generations
  /\ \A h \in issued : h.generation = h.birth % Generations /\ h.birth <= releases[h.index]

LEMMA GenerationInvInit == Init => GenerationInv
<1> SUFFICES ASSUME Init PROVE GenerationInv
  OBVIOUS
<1>1. 0 % Generations = 0
  BY ModRange
<1>2. QED
  BY <1>1 DEF Init, GenerationInv

LEMMA GenerationInvStep == Inv /\ GenerationInv /\ [Next]_vars => GenerationInv'
<1> SUFFICES ASSUME TypeOK, FreelistSound, GenerationInv, [Next]_vars PROVE GenerationInv'
  BY DEF Inv
<1> USE DEF pool
<1>1. ASSUME NEW i \in Entries, Issue(i), UNCHANGED <<handleGeneration, releases>>
      PROVE  GenerationInv'
  <2> DEFINE new == [index |-> i, generation |-> handleGeneration[i], birth |-> releases[i]]
  <2>1. new.generation = new.birth % Generations /\ new.birth <= releases[new.index]
    BY DEF GenerationInv, TypeOK
  <2>2. issued' = issued \cup {new}
    BY <1>1 DEF Issue
  <2> HIDE DEF new
  <2>3. QED
    BY <1>1, <2>1, <2>2 DEF GenerationInv
<1>2. CASE AllocateFromFreelist
  <2>1. freelistHeadIdx \in Entries
    BY <1>2 DEF AllocateFromFreelist, FreelistSound, TypeOK, Entries
  <2>2. QED
    BY <1>1, <1>2, <2>1 DEF AllocateFromFreelist
<1>3. CASE AllocateNewEntry
  <2>1. committedEntryCount \in Entries
    BY <1>3 DEF AllocateNewEntry, TypeOK, Entries
  <2>2. QED
    BY <1>1, <1>3, <2>1 DEF AllocateNewEntry
<1>4. ASSUME NEW h \in issued, Release(h) PROVE GenerationInv'
  <2> DEFINE i == h.index
  <2>1. i \in Entries /\ releases[i] \in Nat
    BY <1>4 DEF TypeOK, Handle
  <2>2. NextGeneration(handleGeneration[i]) = (releases[i] + 1) % Generations
    BY <2>1, ModSuccessor DEF NextGeneration, GenerationInv
  <2>3. /\ handleGeneration' = [handleGeneration EXCEPT ![i] = NextGeneration(@)]
        /\ releases' = [releases EXCEPT ![i] = @ + 1]
        /\ issued' = issued
    BY <1>4 DEF Release
  <2>4. ASSUME NEW j \in Entries PROVE handleGeneration'[j] = releases'[j] % Generations
    BY <2>1, <2>2, <2>3 DEF GenerationInv, TypeOK
  <2>5. ASSUME NEW g \in issued PROVE g.birth <= releases'[g.index]
    <3>1. g.index \in Entries /\ g.birth \in Nat /\ g.birth <= releases[g.index]
          /\ releases[g.index] \in Nat
      BY DEF GenerationInv, TypeOK, Handle
    <3>2. QED
      BY <2>1, <2>3, <3>1 DEF TypeOK
  <2>6. QED
    BY <2>3, <2>4, <2>5 DEF GenerationInv
<1>5. CASE UNCHANGED vars
  BY <1>5 DEF vars, GenerationInv
<1>6. QED
  BY <1>2, <1>3, <1>4, <1>5 DEF Next

(* StaleHandleRejected holds in every reachable state, whatever the width  *)
(* of the generation.                                                      *)
THEOREM StaleHandlesRejected == Spec => []StaleHandleRejected
<1>1. Inv /\ GenerationInv => StaleHandleRejected
  <2> SUFFICES ASSUME TypeOK, GenerationInv, NEW h \in issued, Resolves(h),
                      releases[h.index] - h.birth < Generations
               PROVE  releases[h.index] = h.birth
    BY DEF Inv, StaleHandleRejected
  <2>1. h.index \in Entries /\ h.birth \in Nat /\ releases[h.index] \in Nat
    BY DEF TypeOK, Handle
  <2>2. releases[h.index] % Generations = h.birth % Generations /\ h.birth <= releases[h.index]
    BY <2>1 DEF GenerationInv, Resolves
  <2>3. QED
    BY <2>1, <2>2, ModDistinct
<1>2. QED
  BY <1>1, InvInit, InvStep, GenerationInvInit, GenerationInvStep, PTL DEF Spec

-----------------------------------------------------------------------------
(* A handle of an entry that is free was issued before its last release.   *)
LiveInv ==
  \A h \in issued : /\ h.index < committedEntryCount
                    /\ h.index \in allocated \/ h.birth < releases[h.index]

LEMMA LiveInvStep == Inv /\ GenerationInv /\ LiveInv /\ [Next]_vars => LiveInv'
<1> SUFFICES ASSUME TypeOK, FreelistSound, GenerationInv, LiveInv, [Next]_vars PROVE LiveInv'
  BY DEF Inv
<1> USE DEF pool
<1>1. ASSUME NEW i \in Entries, Issue(i), allocated' = allocated \cup {i},
             i < committedEntryCount', committedEntryCount <= committedEntryCount',
             UNCHANGED releases, committedEntryCount' \in Nat
      PROVE  LiveInv'
  <2>1. \A h \in issued' : h \in issued \/ h.index = i
    BY <1>1 DEF Issue
  <2>2. \A h \in issued : h.index \in Nat /\ committedEntryCount \in Nat
    BY DEF TypeOK, Handle, Entries
  <2>3. QED
    BY <1>1, <2>1, <2>2 DEF LiveInv
<1>2. CASE AllocateFromFreelist
  <2>1. freelistHeadIdx \in Entries /\ freelistHeadIdx < committedEntryCount
    BY <1>2 DEF AllocateFromFreelist, FreelistSound, TypeOK, Entries
  <2>2. QED
    BY <1>1, <1>2, <2>1 DEF AllocateFromFreelist, TypeOK
<1>3. CASE AllocateNewEntry
  <2>1. committedEntryCount \in Entries /\ committedEntryCount \in Nat
    BY <1>3 DEF AllocateNewEntry, TypeOK, Entries
  <2>2. QED
    BY <1>1, <1>3, <2>1 DEF AllocateNewEntry
<1>4. ASSUME NEW h \in issued, Release(h) PROVE LiveInv'
  <2> DEFINE i == h.index
  <2>1. /\ allocated' = allocated \ {i} /\ releases' = [releases EXCEPT ![i] = @ + 1]
        /\ UNCHANGED <<committedEntryCount, issued>>
    BY <1>4 DEF Release
  <2>2. ASSUME NEW g \in issued
        PROVE  g.index \in allocated' \/ g.birth < releases'[g.index]
    <3>1. g.index \in Entries /\ g.birth \in Nat /\ releases[g.index] \in Nat
          /\ g.birth <= releases[g.index]
      BY DEF GenerationInv, TypeOK, Handle
    <3>2. CASE g.index = i
      <4>1. releases'[g.index] = releases[g.index] + 1
        BY <2>1, <3>1, <3>2 DEF TypeOK
      <4>2. QED
        BY <3>1, <4>1
    <3>3. CASE g.index # i
      BY <2>1, <3>1, <3>3 DEF LiveInv, TypeOK
    <3>4. QED
      BY <3>2, <3>3
  <2>3. QED
    BY <2>1, <2>2 DEF LiveInv
<1>5. CASE UNCHANGED vars
  BY <1>5 DEF vars, LiveInv
<1>6. QED
  BY <1>2, <1>3, <1>4, <1>5 DEF Next

(* LiveHandleResolves holds in every reachable state: a handle stays good  *)
(* until its own entry is released, however the pool is used around it.    *)
THEOREM LiveHandlesResolve == Spec => []LiveHandleResolves
<1>1. Init => LiveInv
  BY DEF Init, LiveInv
<1>2. Inv /\ GenerationInv /\ LiveInv => LiveHandleResolves
  <2> SUFFICES ASSUME TypeOK, GenerationInv, LiveInv, NEW h \in issued,
                      releases[h.index] = h.birth
               PROVE  Resolves(h)
    BY DEF Inv, LiveHandleResolves
  <2>1. h.index \in Entries /\ h.birth \in Nat
    BY DEF TypeOK, Handle
  <2>2. h.generation = handleGeneration[h.index]
    BY <2>1 DEF GenerationInv
  <2>3. QED
    BY <2>1, <2>2 DEF LiveInv, Resolves
<1>3. QED
  BY <1>1, <1>2, InvInit, InvStep, GenerationInvInit, GenerationInvStep, LiveInvStep, PTL DEF Spec

-----------------------------------------------------------------------------
(* The pool as a set of handles.                                           *)
NameOf(i) == [index |-> i, generation |-> handleGeneration[i]]

LEMMA NameOfIs ==
  ASSUME TypeOK, NEW i \in Entries
  PROVE  NameOf(i) \in Names /\ NameOf(i).index = i /\ NameOf(i).generation = handleGeneration[i]
BY DEF TypeOK, NameOf, Names

(* An entry that is allocated has one valid handle, any other has none.    *)
LEMMA ValidIs ==
  ASSUME TypeOK, NEW h
  PROVE  h \in Valid <=> h \in Names /\ h.index \in allocated /\ h.generation = handleGeneration[h.index]
BY DEF TypeOK, Valid, Resolves, Names, Entries

LEMMA ValidSet == TypeOK => Valid = {h \in Names : h.index \in allocated /\ h.generation = handleGeneration[h.index]}
<1> SUFFICES ASSUME TypeOK
             PROVE  Valid = {h \in Names : h.index \in allocated /\ h.generation = handleGeneration[h.index]}
  OBVIOUS
<1>1. QED
  BY ValidIs

LEMMA NamesEqual ==
  ASSUME NEW g \in Names, NEW h \in Names, g.index = h.index, g.generation = h.generation
  PROVE  g = h
BY DEF Names

(* The code's test for a full pool, by FreelistSound, means what it says.  *)
LEMMA ExhaustedIs == Inv => (Exhausted <=> Promise!AllInUse(Valid))
<1> SUFFICES ASSUME TypeOK, FreelistSound PROVE Exhausted <=> Promise!AllInUse(Valid)
  BY DEF Inv
<1> DEFINE free == (0..(committedEntryCount - 1)) \ allocated
<1>1. freelistLength = 0 <=> free = {}
  <2>1. freelistLength \in Nat
    BY DEF TypeOK
  <2>2. freelistLength > 0 => freelistHeadIdx \in free
    BY DEF FreelistSound
  <2>3. \A i \in free : rank[i] \in 1..freelistLength
    BY DEF FreelistSound
  <2> HIDE DEF free
  <2>4. QED
    BY <2>1, <2>2, <2>3
<1>2. free = {} /\ committedEntryCount = Capacity <=> \A i \in Entries : i \in allocated
  BY DEF TypeOK, Entries
<1>3. ASSUME NEW i \in Entries PROVE i \in allocated <=> \E h \in Valid : h.index = i
  <2>1. ASSUME i \in allocated PROVE \E h \in Valid : h.index = i
    <3>1. NameOf(i) \in Valid
      BY <2>1, NameOfIs, ValidIs
    <3>2. QED
      BY <3>1, NameOfIs
  <2>2. QED
    BY <2>1, ValidIs
<1>4. QED
  BY <1>1, <1>2, <1>3 DEF Exhausted, Promise!AllInUse

(* The same of the next state.                                             *)
LEMMA ValidNext ==
  TypeOK' => Valid' = {h \in Names : h.index \in allocated' /\ h.generation = handleGeneration'[h.index]}
<1>1. TypeOK' => (Valid = {h \in Names : h.index \in allocated /\ h.generation = handleGeneration[h.index]})'
  BY ValidSet, PTL
<1>2. Names' = Names
  BY DEF Names
<1>3. QED
  BY <1>1, <1>2

LEMMA ExhaustedNext == Inv' => (Exhausted' <=> Promise!AllInUse(Valid'))
<1>1. Inv' => (Exhausted <=> Promise!AllInUse(Valid))'
  BY ExhaustedIs, PTL
<1>2. QED
  BY <1>1 DEF Promise!AllInUse, Entries

(* Both kinds of allocation make the entry's handle valid and issue it.    *)
LEMMA AllocationImplements ==
  ASSUME Inv, Inv', NEW i \in Entries, i \notin allocated, allocated' = allocated \cup {i},
         Issue(i), UNCHANGED handleGeneration, ~Exhausted
  PROVE  Promise!Allocate(NameOf(i))
<1>0. TypeOK /\ TypeOK'
  BY DEF Inv
<1>1. NameOf(i) \in Names /\ NameOf(i).index = i /\ NameOf(i).generation = handleGeneration[i]
  BY <1>0, NameOfIs
<1>2. ASSUME NEW h \in Valid PROVE h.index # NameOf(i).index
  BY <1>0, <1>1, <1>2, ValidIs
<1>3. Valid' = Valid \cup {NameOf(i)}
  <2>1. ASSUME NEW h PROVE h \in Valid' <=> h \in Names /\ h.index \in allocated' /\ h.generation = handleGeneration'[h.index]
    BY <1>0, ValidNext
  <2>2. ASSUME NEW h PROVE h \in Valid' <=> h \in Valid \/ h = NameOf(i)
    <3>1. CASE h \in Names
      BY <1>0, <1>1, <2>1, <3>1, ValidIs, NamesEqual
    <3>2. CASE h \notin Names
      BY <1>0, <1>1, <2>1, <3>2, ValidIs
    <3>3. QED
      BY <3>1, <3>2
  <2>3. QED
    BY <2>2
<1>4. HandedOut' = HandedOut \cup {NameOf(i)}
  <2> DEFINE Named(h) == [index |-> h.index, generation |-> h.generation]
             new == [index |-> i, generation |-> handleGeneration[i], birth |-> releases[i]]
  <2>1. Named(new) = NameOf(i) /\ issued' = issued \cup {new}
    BY DEF NameOf, Issue
  <2> HIDE DEF new, Named
  <2>2. {Named(h) : h \in issued'} = {Named(h) : h \in issued} \cup {NameOf(i)}
    BY <2>1
  <2>3. QED
    BY <2>2 DEF HandedOut, Named
<1>5. Exhausted' <=> Promise!AllInUse(Valid')
  BY ExhaustedNext
<1>6. QED
  BY <1>2, <1>3, <1>4, <1>5 DEF Promise!Allocate

LEMMA ReleaseImplements ==
  ASSUME Inv, Inv', NEW h \in issued, Release(h)
  PROVE  \E g \in Names : Promise!Release(g)
<1>0. TypeOK /\ TypeOK'
  BY DEF Inv
<1>1. PICK i \in Entries : i = h.index
  BY <1>0 DEF TypeOK, Handle
<1>2. NameOf(i) \in Names /\ NameOf(i).index = i /\ NameOf(i).generation = handleGeneration[i]
  BY <1>0, NameOfIs
<1>3. i \in allocated /\ h.generation = handleGeneration[i]
  BY <1>1 DEF Release, Resolves
<1>4. NameOf(i) \in Valid
  BY <1>0, <1>2, <1>3, ValidIs
<1>5. NameOf(i) \in HandedOut
  BY <1>1, <1>3 DEF HandedOut, NameOf
<1>6. Valid' = Valid \ {NameOf(i)}
  <2>1. ASSUME NEW g PROVE g \in Valid' <=> g \in Names /\ g.index \in allocated' /\ g.generation = handleGeneration'[g.index]
    BY <1>0, ValidNext
  <2>2. allocated' = allocated \ {i} /\ \A j \in Entries : j # i => handleGeneration'[j] = handleGeneration[j]
    BY <1>0, <1>1 DEF Release, TypeOK
  <2>3. ASSUME NEW g PROVE g \in Valid' <=> g \in Valid /\ g # NameOf(i)
    <3>1. CASE g \in Names
      <4>1. g.index \in Entries
        BY <3>1 DEF Names
      <4>2. CASE g.index = i
        <5>1. g \notin Valid'
          BY <2>1, <2>2, <4>2
        <5>2. g \in Valid => g = NameOf(i)
          BY <1>0, <1>2, <3>1, <4>2, ValidIs, NamesEqual
        <5>3. QED
          BY <5>1, <5>2
      <4>3. CASE g.index # i
        BY <1>0, <1>2, <2>1, <2>2, <3>1, <4>1, <4>3, ValidIs
      <4>4. QED
        BY <4>2, <4>3
    <3>2. CASE g \notin Names
      BY <1>0, <2>1, <3>2, ValidIs
    <3>3. QED
      BY <3>1, <3>2
  <2>4. QED
    BY <2>3
<1>7. HandedOut' = HandedOut
  BY DEF HandedOut, Release
<1>8. Exhausted' <=> Promise!AllInUse(Valid')
  BY ExhaustedNext
<1>9. Promise!Release(NameOf(i))
  BY <1>4, <1>5, <1>6, <1>7, <1>8 DEF Promise!Release
<1>10. QED
  BY <1>2, <1>9

LEMMA HandleSetInit == Init => Promise!Init
<1> SUFFICES ASSUME Init PROVE Promise!Init
  OBVIOUS
<1>1. Valid = {} /\ HandedOut = {}
  BY DEF Init, Valid, HandedOut, Resolves
<1>2. Exhausted <=> Promise!AllInUse({})
  <2>1. Exhausted <=> Promise!AllInUse(Valid)
    BY InvInit, ExhaustedIs
  <2>2. QED
    BY <1>1, <2>1
<1>3. QED
  BY <1>1, <1>2 DEF Promise!Init

LEMMA HandleSetStep == Inv /\ Inv' /\ [Next]_vars => [Promise!Next]_Promise!setVars
<1> SUFFICES ASSUME Inv, Inv', [Next]_vars PROVE [Promise!Next]_Promise!setVars
  OBVIOUS
<1> USE DEF pool
<1>1. CASE AllocateFromFreelist
  <2>1. freelistHeadIdx \in Entries /\ freelistHeadIdx \notin allocated
    BY <1>1 DEF AllocateFromFreelist, Inv, FreelistSound, TypeOK, Entries
  <2>2. ~Exhausted
    BY <1>1 DEF AllocateFromFreelist, Exhausted
  <2>3. Promise!Allocate(NameOf(freelistHeadIdx))
    BY <1>1, <2>1, <2>2, AllocationImplements DEF AllocateFromFreelist
  <2>4. NameOf(freelistHeadIdx) \in Names
    BY <2>1, NameOfIs DEF Inv
  <2>5. QED
    BY <2>3, <2>4 DEF Promise!Next
<1>2. CASE AllocateNewEntry
  <2>1. committedEntryCount \in Entries /\ committedEntryCount \notin allocated
    BY <1>2 DEF AllocateNewEntry, Inv, TypeOK, Entries
  <2>2. ~Exhausted
    BY <1>2 DEF AllocateNewEntry, Exhausted, Inv, TypeOK
  <2>3. Promise!Allocate(NameOf(committedEntryCount))
    BY <1>2, <2>1, <2>2, AllocationImplements DEF AllocateNewEntry
  <2>4. NameOf(committedEntryCount) \in Names
    BY <2>1, NameOfIs DEF Inv
  <2>5. QED
    BY <2>3, <2>4 DEF Promise!Next
<1>3. ASSUME NEW h \in issued, Release(h) PROVE Promise!Next
  BY <1>3, ReleaseImplements DEF Promise!Next
<1>4. CASE UNCHANGED vars
  <2>1. UNCHANGED <<Valid, HandedOut, Exhausted>>
    BY <1>4 DEF vars, Valid, HandedOut, Exhausted, Resolves
  <2>2. QED
    BY <2>1 DEF Promise!setVars
<1>5. QED
  BY <1>1, <1>2, <1>3, <1>4 DEF Next

(* The pool implements a set of handles (ImplementsHandleSet), for every   *)
(* capacity and number of generations: nothing but its own release makes a *)
(* handle invalid, nothing but its own allocation makes it valid, and an   *)
(* allocation is refused only while every entry has a valid handle.        *)
THEOREM PoolImplementsHandleSet == Spec => ImplementsHandleSet
<1>1. Inv /\ Inv' /\ [Next]_vars => [Promise!Next]_Promise!setVars
  BY HandleSetStep
<1>2. QED
  BY <1>1, HandleSetInit, InvInit, InvStep, PTL DEF Spec, ImplementsHandleSet, Promise!Spec

=============================================================================
