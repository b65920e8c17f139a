----------------------------- MODULE MCSequential -----------------------------
(***************************************************************************)
(* The parts of the program that run alone, CommandLine, DeckCompiler and  *)
(* InputEditor, for TLC.  They share nothing, so a behaviour picks one of  *)
(* them and leaves the others at rest.                                     *)
(*                                                                         *)
(* Command lines hold the options of all commands, with values on either   *)
(* side of their bounds and two values that look like options.  In the     *)
(* names of Decks 1 and 2 are letters (and lengths), 3 is a blank, 4 a     *)
(* control character.  The editor gets characters of one and of two bytes, *)
(* a blank, a control character, and a clipboard that may not fit.         *)
(***************************************************************************)

EXTENDS CommandLine, DeckCompiler, InputEditor

VARIABLE part

Numbers == [word \in {"99", "100", "60000"} |->
                  CASE word = "99" -> 99 [] word = "100" -> 100
                    [] word = "60000" -> 60000]
Options ==
    {<<"--node-id", "a">>, <<"--node-id", "-">>, <<"--target", "a">>, <<"--listen", "--connect">>,
     <<"--connect", "--stdio-jsonl">>, <<"--probe-peer", "a">>, <<"--probe-peer", "b">>,
     <<"--timeout-ms", "100">>, <<"--timeout-ms", "60000">>, <<"--timeout-ms", "99">>,
     <<"--deck", "builtin-agent">>, <<"--deck", "other">>,
     <<"--provider", "deterministic">>, <<"--provider", "deepseek-v4-flash">>,
     <<"--stdio-jsonl">>, <<"--help">>}

DeckNames == {<<1>>, <<1, 1>>, <<1, 4, 1>>}
CardNames == {<<>>, <<1>>, <<2>>, <<1, 2>>, <<1, 3>>}
References == {<<1>>, <<2, 1>>, <<1, 2, 1>>}

AllChars == {"a", "e-acute", "space", "tab"}
Utf8 == [c \in AllChars |-> IF c = "e-acute" THEN 2 ELSE 1]
Clipboards == {<<"e-acute", "a", "tab">>, <<"a", "e-acute", "a">>, <<"tab", "e-acute">>}
Quit == <<"a", "a">>

-----------------------------------------------------------------------------

NoLine == head = <<>> /\ items = <<>> /\ parsed = [ok |-> FALSE, command |-> "pending"]

NoDeck ==
    /\ offered = <<>> /\ implementations = <<>> /\ launch = Pending
    /\ spec = [key |-> <<1>>, cards |-> <<>>]
    /\ lock = [ok |-> FALSE, error |-> [kind |-> Pending]]

SequentialInit ==
    \/ part = "command line" /\ LineInit /\ NoDeck /\ EditorInit
    \/ part = "deck" /\ CompilerInit /\ NoLine /\ EditorInit
    \/ part = "editor" /\ EditorInit /\ NoLine /\ NoDeck

SequentialNext ==
    \/ part = "command line" /\ ParseLine /\ UNCHANGED <<part, compilerVars, editorVars>>
    \/ part = "deck" /\ CompilerNext /\ UNCHANGED <<part, lineVars, editorVars>>
    \/ part = "editor" /\ IdleEvent /\ UNCHANGED <<part, lineVars, compilerVars>>

SequentialSpec ==
    SequentialInit /\ [][SequentialNext]_<<part, lineVars, compilerVars, editorVars>>
=============================================================================
