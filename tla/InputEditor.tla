------------------------------ MODULE InputEditor ------------------------------
(***************************************************************************)
(* The input line of the full-screen chat: InputEditor, and the keys that  *)
(* handle_idle_event passes to it.                                         *)
(*                                                                         *)
(* text is a String, its UTF-8 bytes; cursor counts characters.  A byte is *)
(* known by the character it is part of and its place in it, which is what *)
(* a char boundary depends on.  String::insert and replace_range panic off *)
(* a boundary.  A definition marked "Slip" is a mistake the code could     *)
(* have made.                                                              *)
(***************************************************************************)

EXTENDS Integers, SequencesExt

CONSTANTS
    Chars, Controls, Blanks,
    Width,               \* len_utf8
    Pastes,              \* what may be on the clipboard
    QuitWord,            \* "/quit"
    MAX_INPUT_BYTES

ASSUME EditorAssumption ==
    /\ Controls \subseteq Chars /\ Blanks \subseteq Chars
    /\ Width \in [Chars -> 1 .. 4]
    /\ Pastes \subseteq Seq(Chars)
    /\ QuitWord \in Seq(Chars)
    /\ MAX_INPUT_BYTES \in Nat

VARIABLES text, cursor, submitted, notice, quit

editorVars == <<text, cursor, submitted, notice, quit>>

Bytes == [char : Chars, place : 1 .. 4]

EditorInit ==
    /\ text = <<>> /\ cursor = 0
    /\ submitted = <<>>
    /\ notice = "none" /\ quit = FALSE

-----------------------------------------------------------------------------

Encoded(c) == [k \in 1 .. Width[c] |-> [char |-> c, place |-> k]]
Starts(s) == {i \in DOMAIN s : s[i].place = 1}
char_count(s) == Cardinality(Starts(s))
\* The position behind the starts of n characters.
Start(s, n) == CHOOSE i \in Starts(s) : Cardinality({j \in Starts(s) : j < i}) = n

byte_index_of_ascii(s, n) ==           \* Slip: a byte is a character
    IF n >= char_count(s) THEN Len(s) ELSE n
\* Where the n-th character begins, counted from 0, or the end of the text.
byte_index(s, n) == IF n >= char_count(s) THEN Len(s) ELSE Start(s, n) - 1

Splice(s, start, end, new) == SubSeq(s, 1, start) \o new \o SubSeq(s, end + 1, Len(s))

Room(e, c) == c \notin Controls /\ Len(e.text) + Width[c] <= MAX_INPUT_BYTES

Inserted(e, c) ==
    [text |-> Splice(e.text, byte_index(e.text, e.cursor), byte_index(e.text, e.cursor),
                     Encoded(c)),
     cursor |-> e.cursor + 1, complete |-> e.complete]

Current == [text |-> text, cursor |-> cursor, complete |-> TRUE]

\* insert(): what does not go in is reported.
Typed(e, c) == IF Room(e, c) THEN Inserted(e, c) ELSE [e EXCEPT !.complete = FALSE]

\* insert_text(): control characters are passed over, and the first character
\* that finds no room ends it.
Pasted(s) ==
    FoldLeft(LAMBDA e, c : IF e.complete /\ c \notin Controls THEN Typed(e, c) ELSE e,
             Current, s)

-----------------------------------------------------------------------------
(* handle_idle_event.                                                      *)

Becomes(e) ==
    /\ text' = e.text /\ cursor' = e.cursor
    /\ notice' = IF e.complete THEN notice ELSE "limited"
    /\ UNCHANGED <<submitted, quit>>

Insert(c) == Becomes(Typed(Current, c))

Paste(s) == Becomes(Pasted(s))

Without(first, last) ==
    text' = Splice(text, byte_index(text, first), byte_index(text, last), <<>>)

Backspace ==
    /\ cursor # 0
    /\ Without(cursor - 1, cursor)
    /\ cursor' = cursor - 1
    /\ UNCHANGED <<submitted, notice, quit>>

Delete ==
    /\ cursor # char_count(text)
    /\ Without(cursor, cursor + 1)
    /\ UNCHANGED <<cursor, submitted, notice, quit>>

Left == IF cursor = 0 THEN 0 ELSE cursor - 1
Right == IF cursor + 1 < char_count(text) THEN cursor + 1 ELSE char_count(text)

MoveTo(n) == cursor' = n /\ UNCHANGED <<text, submitted, notice, quit>>
Move == MoveTo(Left) \/ MoveTo(Right) \/ MoveTo(0) \/ MoveTo(char_count(text))

\* Esc
Clear ==
    /\ text' = <<>> /\ cursor' = 0
    /\ notice' = "cleared"
    /\ UNCHANGED <<submitted, quit>>

Decoded(s) ==
    LET first[n \in 0 .. Len(s)] ==
            IF n = 0 THEN <<>>
            ELSE IF s[n].place = 1 THEN Append(first[n - 1], s[n].char) ELSE first[n - 1]
    IN  first[Len(s)]

EnterQuit ==
    /\ Decoded(text) = QuitWord
    /\ quit' = TRUE
    /\ UNCHANGED <<text, cursor, submitted, notice>>

\* take(): the text goes, and the cursor with it.
EnterSubmit ==
    /\ Decoded(text) # QuitWord
    /\ ~(ToSet(Decoded(text)) \subseteq Blanks)
    /\ submitted' = text
    /\ text' = <<>> /\ cursor' = 0
    /\ UNCHANGED <<notice, quit>>

IdleEvent ==
    /\ ~quit
    /\ \/ \E c \in Chars : Insert(c)
       \/ \E s \in Pastes : Paste(s)
       \/ Backspace \/ Delete \/ Move \/ Clear \/ EnterQuit \/ EnterSubmit

EditorSpec == EditorInit /\ [][IdleEvent]_editorVars

-----------------------------------------------------------------------------

\* Every byte is the first of a character or follows the one before it, and
\* every character is there to its last byte.
WholeCharacters(s) ==
    \A i \in DOMAIN s :
        /\ s[i].place = 1 \/ (i > 1 /\ s[i - 1] = [s[i] EXCEPT !.place = @ - 1])
        /\ s[i].place = Width[s[i].char] \/ (i < Len(s) /\ s[i + 1] = [s[i] EXCEPT !.place = @ + 1])

\* What is not UTF-8 is no text at all.
Text(s) == IF WholeCharacters(s) THEN Decoded(s) ELSE <<"not UTF-8">>

Prefix == SubSeq(text, 1, byte_index(text, cursor))

\* The bytes and the count behave like the characters before and behind a
\* cursor: the editor implements LineEditor.  No index falls inside a
\* character, which would have been a panic.
LINE == INSTANCE LineEditor WITH
            left <- Text(Prefix),
            right <- Text(SubSeq(text, Len(Prefix) + 1, Len(text))),
            taken <- Text(submitted)
ImplementsLineEditor == LINE!LineSpec
=============================================================================
