------------------------------- MODULE Lines -------------------------------
(***************************************************************************)
(* The translation of line ends (src/Source/Amiga/_write.c, _read.c) of a    *)
(* file that is not open for binary data: the C library empties its buffer   *)
(* in calls of _write of any length, and later fills it in calls of _read.   *)
(* The byte in memory after what is written may be anything; _write looks    *)
(* at it.                                                                  *)
(***************************************************************************)
EXTENDS Integers, Sequences

CONSTANTS
  Texts,         \* what a program writes
  WriteLengths,  \* the lengths of calls of _write
  ReadLength,    \* the length of the calls of _read
  Bytes,         \* all but CR and Ctrl-Z
  LF, CR, CtrlZ

\* A call of one or two bytes may find nothing but CR.
ASSUME LinesAssumption ==
  /\ LF \in Bytes /\ CR \notin Bytes /\ CtrlZ \notin Bytes
  /\ \A t \in Texts : t \in Seq(Bytes)
  /\ WriteLengths \subseteq Nat \ {0}
  /\ ReadLength \in Nat /\ ReadLength >= 3

VARIABLES
  text,
  left,     \* what of it no call of _write has got yet
  file,     \* the bytes written, without those that a call of _read has got
  buffer,   \* the bytes from buffer on in _write (one more than there is to be
            \* written), from nextptr on in _read
  length,   \* of what _write has still to write
  ptr,      \* the place of the next LF in buffer
  kept,     \* what _read leaves in its buffer
  got,      \* the text read
  phase     \* "write", "translate" (in _write), "read", "skip" (in _read), "end"

linesVars == <<text, left, file, buffer, length, ptr, kept, got, phase>>

LinesStart(t) ==
  /\ text = t /\ left = t
  /\ file = <<>> /\ got = <<>> /\ phase = "write"
  /\ buffer = <<>> /\ length = 0 /\ ptr = 0 /\ kept = <<>>

LinesInit == \E t \in Texts : LinesStart(t)

\* Where the first of the n bytes from place i on is that is c, 0 if none is.
memchr(b, i, c, n) ==
  LET found == {j \in i .. i + n - 1 : b[j] = c}
  IN  IF found = {} THEN 0 ELSE CHOOSE j \in found : \A k \in found : j <= k

\* The fault of taking the LF for written together with what is before it.
LessLF(n, count) == n - count - 1
Less(n, count) == n - count

\* Go on with the LF at place p, or write the n bytes that are left.
Translate(b, n, p, f) ==
  IF p # 0
  THEN file' = f /\ buffer' = b /\ length' = n /\ ptr' = p /\ phase' = "translate"
  ELSE /\ file' = f \o SubSeq(b, 1, n) /\ phase' = "write"
       /\ buffer' = <<>> /\ length' = 0 /\ ptr' = 0

Write ==
  /\ phase = "write" /\ left # <<>>
  /\ \E n \in WriteLengths, after \in Bytes :
       LET b == SubSeq(left, 1, n) \o <<after>>
       IN  /\ n <= Len(left)
           /\ Translate(b, n, memchr(b, 1, LF, n), file)
           /\ left' = SubSeq(left, n + 1, Len(left))
  /\ UNCHANGED <<text, kept, got>>

\* A CR before the LF, which is the first byte of the rest.
Round ==
  /\ phase = "translate"
  /\ LET count == ptr - 1
         rest == SubSeq(buffer, ptr, Len(buffer))
         n == Less(length, count)
     IN  Translate(rest, n, memchr(rest, 2, LF, n), file \o SubSeq(buffer, 1, count) \o <<CR>>)
  /\ UNCHANGED <<text, left, kept, got>>

Close ==
  /\ phase = "write" /\ left = <<>> /\ phase' = "read"
  /\ UNCHANGED <<text, left, file, buffer, length, ptr, kept, got>>

\* The last byte is dropped if it is a CR.  Reading 0 bytes means the end of the file.
Read ==
  /\ phase = "read"
  /\ LET count == IF ReadLength <= Len(file) THEN ReadLength ELSE Len(file)
         b == SubSeq(file, 1, count)
     IN  IF count = 0 THEN phase' = "end" /\ UNCHANGED <<file, buffer, kept>>
         ELSE /\ phase' = "skip" /\ kept' = <<>>
              /\ buffer' = IF b[count] = CR THEN SubSeq(b, 1, count - 1) ELSE b
              /\ file' = SubSeq(file, count + 1, Len(file))
  /\ UNCHANGED <<text, left, length, ptr, got>>

\* One byte of the buffer.
Skip ==
  /\ phase = "skip" /\ buffer # <<>>
  /\ kept' = IF Head(buffer) = CR THEN kept ELSE Append(kept, Head(buffer))
  /\ buffer' = Tail(buffer)
  /\ UNCHANGED <<text, left, file, length, ptr, got, phase>>

\* A Ctrl-Z is taken for the end of the text.
BeforeEnd(b) ==
  LET p == memchr(b, 1, CtrlZ, Len(b))
  IN  IF p = 0 THEN b ELSE SubSeq(b, 1, p - 1)

\* To the C library, which takes a count of 0 for the end of the file.
Returned ==
  /\ phase = "skip" /\ buffer = <<>>
  /\ LET b == BeforeEnd(kept)
     IN  got' = got \o b /\ phase' = IF b = <<>> THEN "end" ELSE "read"
  /\ kept' = <<>>
  /\ UNCHANGED <<text, left, file, buffer, length, ptr>>

LinesNext == Write \/ Round \/ Close \/ Read \/ Skip \/ Returned

LinesSpec == LinesInit /\ [][LinesNext]_linesVars

-----------------------------------------------------------------------------
(* Properties *)

\* A text without CR and Ctrl-Z comes back as it was written, however it is cut up, and
\* whatever the byte behind the buffer: that makes _write add a CR, but never so many that
\* a call of _read finds nothing else and reports the end of the file too soon.
TextComesBack == phase = "end" => got = text
=============================================================================
