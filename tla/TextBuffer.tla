----------------------------- MODULE TextBuffer -----------------------------
(***************************************************************************)
(* What a text_edit promises of its text, whatever its positions are: the  *)
(* characters before the caret, those after it, and whether all of them    *)
(* are marked to be replaced.                                              *)
(***************************************************************************)
EXTENDS Naturals, Sequences

CONSTANT Letters

VARIABLES before, after, marked

vars == <<before, after, marked>>

Text == before \o after

\* The caret goes to p, or to the end, and nothing stays marked.
MoveTo(p) ==
  /\ before' \o after' = Text
  /\ Len(before') = IF p <= Len(Text) THEN p ELSE Len(Text)
  /\ ~marked'

MarkAll ==
  /\ before' = Text
  /\ after' = <<>>
  /\ marked' = (Text # <<>>)

Type(c) ==
  /\ before' = Append(IF marked THEN <<>> ELSE before, c)
  /\ after' = IF marked THEN <<>> ELSE after
  /\ ~marked'

\* Marked text is deleted first, and the application hears of that.  If it then puts b and
\* a before and after the caret, c is typed between them.
TypeInto(b, a, c) ==
  /\ marked /\ ~marked'
  /\ before' = Append(b, c)
  /\ after' = a

Backspace ==
  /\ ~marked'
  /\ IF marked THEN before' = <<>> /\ after' = <<>>
     ELSE /\ before' = IF before = <<>> THEN <<>> ELSE SubSeq(before, 1, Len(before) - 1)
          /\ after' = after

DeleteForward ==
  /\ ~marked'
  /\ IF marked THEN before' = <<>> /\ after' = <<>>
     ELSE /\ before' = before
          /\ after' = IF after = <<>> THEN <<>> ELSE Tail(after)

\* The text becomes t, with the caret after it, unless it is t already.
Replace(t) ==
  IF t = Text THEN UNCHANGED vars
  ELSE /\ before' = t
       /\ after' = <<>>
       /\ ~marked'

\* The focus comes: the caret is where it was, and nothing stays marked.
Unmark ==
  /\ ~marked'
  /\ UNCHANGED <<before, after>>

Init == before = <<>> /\ after = <<>> /\ marked = FALSE

Next ==
  \/ \E p \in 0..Len(Text) : MoveTo(p)
  \/ MarkAll
  \/ \E c \in Letters :
       \/ Type(c)
       \/ before' # <<>> /\ TypeInto(SubSeq(before', 1, Len(before') - 1), after', c)
  \/ Backspace
  \/ DeleteForward
  \/ Replace(Text')
  \/ Unmark

Spec == Init /\ [][Next]_vars
=============================================================================
