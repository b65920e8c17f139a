------------------------------ MODULE LineEditor ------------------------------
(***************************************************************************)
(* What the chat's input line promises: characters on either side of a     *)
(* cursor, never more than fit into MAX_INPUT_BYTES.  InputEditor, which   *)
(* keeps bytes and a character count, implements it.                       *)
(***************************************************************************)

EXTENDS Integers, SequencesExt

CONSTANTS
    Chars, Controls, Blanks,
    Width,                   \* len_utf8
    Pastes,                  \* what may be on the clipboard
    QuitWord,                \* "/quit"
    MAX_INPUT_BYTES

VARIABLES left, right, taken     \* taken: the input that was submitted last

lineVars == <<left, right, taken>>

Size(s) == FoldLeft(LAMBDA n, c : n + Width[c], 0, s)
Fits(s) == Size(s \o left \o right) <= MAX_INPUT_BYTES

Printable(s) == FoldLeft(LAMBDA p, c : IF c \in Controls THEN p ELSE Append(p, c), <<>>, s)
OnlyBlanks(s) == ToSet(s) \subseteq Blanks

LineInit == left = <<>> /\ right = <<>> /\ taken = <<>>

\* As much of s as fits: all, or the next character would not.
Enters(s) ==
    /\ \E p \in Prefixes(s) :
          /\ Fits(p)
          /\ p = s \/ ~Fits(SubSeq(s, 1, Len(p) + 1))
          /\ left' = left \o p
    /\ UNCHANGED <<right, taken>>

Moves(l, r) == left' = l /\ right' = r /\ UNCHANGED taken

Edits ==
    \/ \E c \in Chars : Enters(Printable(<<c>>))
    \/ \E s \in Pastes : Enters(Printable(s))
    \/ left # <<>> /\ Moves(Front(left), right)
    \/ right # <<>> /\ Moves(left, Tail(right))
    \/ left # <<>> /\ Moves(Front(left), <<Last(left)>> \o right)
    \/ right # <<>> /\ Moves(Append(left, Head(right)), Tail(right))
    \/ Moves(<<>>, left \o right)
    \/ Moves(left \o right, <<>>)
    \/ Moves(<<>>, <<>>)

\* Enter submits what is there, unless that is blank, or the word to quit.
Submits ==
    /\ ~OnlyBlanks(left \o right) /\ left \o right # QuitWord
    /\ taken' = left \o right
    /\ left' = <<>> /\ right' = <<>>

LineSpec == LineInit /\ [][Edits \/ Submits]_lineVars
=============================================================================
