--------------------------- MODULE AssemblyOutput ---------------------------
(***************************************************************************)
(* The assembly.ll writer of KModule::prepare (KModule.cpp 413-490): the   *)
(* printed module text is copied to the output file, and, unless           *)
(* --no-truncate-source-lines is given, every line of 255 characters or    *)
(* more (its newline counted) is cut to its first 254 characters and a new *)
(* newline ("kcachegrind parsing bug").  Both LLVM-version branches of the *)
(* code run the same loop over a different stream type.                    *)
(*                                                                         *)
(* A text is the sequence of its line lengths; the module printer ends     *)
(* every line, the last one included, with a newline.  A character is      *)
(* named by its offset in the text; the output is the sequence of the      *)
(* characters written, each a copy of the text's character at an offset,  *)
(* or a newline.                                                           *)
(***************************************************************************)
EXTENDS Naturals, Sequences, SequencesExt

CONSTANTS
  Texts   \* the printed module texts the writer may be handed

VARIABLES
  text,        \* the printed module (rss's string)
  outputSource, \* the --output-source option (default true)
  noTruncate,  \* the --no-truncate-source-lines option
  position,    \* the offset the loop has reached
  out,         \* what has been written to assembly.ll
  done         \* the loop (or the untruncated copy) has finished

vars == <<text, outputSource, noTruncate, position, out, done>>

\* Offset of the first character of line i, and the length of the text.
Start(t, i) == FoldLeft(LAMBDA acc, l : acc + l + 1, 0, SubSeq(t, 1, i - 1))
Size(t) == Start(t, Len(t) + 1)

Newlines(t) == {Start(t, i) + t[i] : i \in DOMAIN t}

\* The output never holds more characters than the text plus one newline
\* per line; the bound caps a writer that stops advancing.
OutBound(t) == Size(t) + Len(t)

\* index(position, '\n'): the offset of the next newline, -1 for NULL.
index(t, pos) ==
  LET nl == {o \in Newlines(t) : o >= pos}
  IN IF nl = {} THEN -1 ELSE Min(nl)

NL == [nl |-> TRUE, at |-> 0]
Char(o) == [nl |-> FALSE, at |-> o]

\* os->write(position, n): the n characters from position on.
write(t, pos, n) ==
  [k \in 1 .. n |-> IF pos + k - 1 \in Newlines(t) THEN NL ELSE Char(pos + k - 1)]

Init ==
  /\ text \in Texts
  /\ outputSource \in BOOLEAN
  /\ noTruncate \in BOOLEAN
  /\ position = 0
  /\ out = <<>>
  /\ done = ~outputSource

\* *ros << *module: the text is copied as it is.
CopyUntruncated ==
  /\ ~done /\ noTruncate
  /\ out' = write(text, 0, Size(text))
  /\ done' = TRUE
  /\ UNCHANGED <<text, outputSource, noTruncate, position>>

(* The loop body for a line ending at a newline: a line of count < 255    *)
(* bytes (its newline included) is written whole, a longer one as its      *)
(* first 254 characters and "\n".                                          *)
WriteLine_Cut255(t, pos, count) ==
  IF count < 255 THEN write(t, pos, count) ELSE write(t, pos, 255) \o <<NL>>

WriteLine(t, pos, count) ==
  IF count < 255 THEN write(t, pos, count) ELSE write(t, pos, 254) \o <<NL>>

\* position = end+1: the loop moves past the newline it found.
Advance_Stay(end) == end
Advance_SkipTwo(end) == end + 2
Advance(end) == end + 1

(* One iteration of the for(;;) loop: with no newline left, the rest is    *)
(* written and the loop breaks; otherwise the line is written and the      *)
(* position advances.                                                      *)
TruncateLine ==
  /\ ~done /\ ~noTruncate /\ Len(out) <= OutBound(text)
  /\ LET end == index(text, position)
     IN IF end = -1
        THEN /\ out' = out \o write(text, position, Size(text) - position)
             /\ done' = TRUE
             /\ UNCHANGED position
        ELSE /\ out' = out \o WriteLine(text, position, end - position + 1)
             /\ position' = Advance(end)
             /\ UNCHANGED done
  /\ UNCHANGED <<text, outputSource, noTruncate>>

Next == CopyUntruncated \/ TruncateLine

(* The loop runs in the one thread of prepare, with nothing scheduled      *)
(* between its iterations: while it has not finished, its next step is     *)
(* taken, which is weak fairness of Next.                                  *)
Spec == Init /\ [][Next]_vars /\ WF_vars(Next)

-----------------------------------------------------------------------------
TypeOK ==
  /\ text \in Texts
  /\ outputSource \in BOOLEAN
  /\ noTruncate \in BOOLEAN
  /\ position \in 0 .. Size(text)
  /\ done \in BOOLEAN
  /\ \A k \in DOMAIN out : out[k] \in {NL} \cup {Char(o) : o \in 0 .. Size(text) - 1}

(* What the writer promises: without --output-source nothing is written;   *)
(* otherwise each line of the module appears in assembly.ll once, in order,*)
(* as its first min(length, 254) characters followed by a newline, and     *)
(* nothing else is written; with --no-truncate-source-lines the text is    *)
(* copied as it is.  It is about the count < 255 test and the 254-byte     *)
(* write at the boundary lengths 253, 254 and 255.                         *)
Expected(t, copy) ==
  IF copy THEN write(t, 0, Size(t))
  ELSE FlattenSeq([i \in DOMAIN t |->
                     write(t, Start(t, i), Min({t[i], 254})) \o <<NL>>])

LinesTruncated == done => out = IF outputSource THEN Expected(text, noTruncate) ELSE <<>>
=============================================================================
