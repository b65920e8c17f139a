------------------------------ MODULE CommandLine ------------------------------
(***************************************************************************)
(* parse_command of the paraegox binary: the scan over an option's name    *)
(* and value at a time, with its early returns, and the checks that follow *)
(* it.  A command line is a head, which selects the command, and items: an *)
(* option with its value, a flag, or a word that is out of place.  Errors  *)
(* are not told apart by their texts.                                      *)
(*                                                                         *)
(* A definition marked "Slip" is a mistake the code could have made.       *)
(***************************************************************************)

EXTENDS Integers, SequencesExt

CONSTANTS
    NodeIds,             \* words that are a NodeId
    Millis,              \* words that are an integer, and which
    Items,
    MAX_ITEMS            \* bound of the command line

ASSUME CommandLineAssumption ==
    /\ \A word \in DOMAIN Millis : Millis[word] \in Nat
    /\ Items \subseteq Seq(STRING)
    /\ MAX_ITEMS \in Nat

VARIABLES head, items, parsed

lineVars == <<head, items, parsed>>

-----------------------------------------------------------------------------

Refused == [ok |-> FALSE]

OptionsOf(command) ==
    IF command = "run"
    THEN {"--node-id", "--listen", "--connect", "--probe-peer", "--timeout-ms", "--deck",
          "--provider"}
    ELSE {"--target", "--connect", "--timeout-ms"}

Valid(name, value) ==
    CASE name \in {"--node-id", "--probe-peer", "--target"} -> value \in NodeIds
      [] name = "--timeout-ms" -> value \in DOMAIN Millis /\ Millis[value] \in 100 .. 60000
      [] name = "--deck" -> value = "builtin-agent"
      [] name = "--provider" -> value \in {"deterministic", "deepseek-v4-flash"}
      [] OTHER -> TRUE

Names(given) == {pair[1] : pair \in given}

LastWins(command, given, name, value) ==       \* Slip: given twice, the last counts
    IF name \in OptionsOf(command) /\ Valid(name, value)
    THEN [ok |-> TRUE, given |-> {p \in given : p[1] # name} \cup {<<name, value>>}]
    ELSE Refused
\* One round of the loop.
Take(command, given, name, value) ==
    IF name \in OptionsOf(command) \ Names(given) /\ Valid(name, value)
    THEN [ok |-> TRUE, given |-> given \cup {<<name, value>>}]
    ELSE Refused

Flag == "--stdio-jsonl"

\* The position after an option is its value, whatever it looks like.
Scan(command, rest) ==
    FoldLeftDomain(
        LAMBDA scan, i :
            CASE ~scan.ok -> scan
              [] scan.ok /\ scan.skip -> [scan EXCEPT !.skip = FALSE]
              [] scan.ok /\ ~scan.skip /\ command = "tui" /\ rest[i] = Flag ->
                    IF Flag \in Names(scan.given) THEN Refused
                    ELSE [scan EXCEPT !.given = @ \cup {<<Flag, "set">>}]
              [] OTHER ->
                    IF i = Len(rest) THEN Refused
                    ELSE LET taken == Take(command, scan.given, rest[i], rest[i + 1])
                         IN  IF taken.ok THEN [ok |-> TRUE, skip |-> TRUE, given |-> taken.given]
                                         ELSE Refused,
        [ok |-> TRUE, skip |-> FALSE, given |-> {}], rest)

ValueOf(given, name, default) ==
    IF name \in Names(given) THEN (CHOOSE pair \in given : pair[1] = name)[2] ELSE default

\* What parse_run checks of all the options together.
Consistent(given) ==
    /\ "--node-id" \in Names(given)
    /\ "--provider" \in Names(given) => "--deck" \in Names(given)
    /\ ("--connect" \in Names(given)) = ("--probe-peer" \in Names(given))
    /\ "--timeout-ms" \in Names(given) => "--connect" \in Names(given)
    /\ ValueOf(given, "--probe-peer", "none") # ValueOf(given, "--node-id", "none")

Endpoint == "tcp/127.0.0.1:7447"

Timeout(given, default) ==
    IF "--timeout-ms" \in Names(given) THEN Millis[ValueOf(given, "--timeout-ms", "")]
    ELSE default

RunOf(scan) ==
    IF ~scan.ok \/ ~Consistent(scan.given) THEN Refused
    ELSE [ok |-> TRUE, command |-> "run",
          node_id |-> ValueOf(scan.given, "--node-id", ""),
          listen_endpoint |-> ValueOf(scan.given, "--listen", Endpoint),
          connect_endpoint |-> ValueOf(scan.given, "--connect", "none"),
          peer |-> ValueOf(scan.given, "--probe-peer", "none"),
          timeout |-> Timeout(scan.given, 2000),
          deck |-> ValueOf(scan.given, "--deck", "none"),
          provider |-> ValueOf(scan.given, "--provider", "deterministic")]

TargetOf(command, scan, default) ==
    IF ~scan.ok \/ "--target" \notin Names(scan.given) THEN Refused
    ELSE [ok |-> TRUE, command |-> command,
          target |-> ValueOf(scan.given, "--target", ""),
          connect_endpoint |-> ValueOf(scan.given, "--connect", Endpoint),
          timeout |-> Timeout(scan.given, default),
          stdio_jsonl |-> Flag \in Names(scan.given)]

parse_run(rest) == RunOf(Scan("run", rest))
\* parse_probe, parse_tui
parse_target(command, rest, default) == TargetOf(command, Scan(command, rest), default)

parse_command(arguments) ==
    CASE arguments \in {<<>>, <<"--help">>, <<"-h">>} -> [ok |-> TRUE, command |-> "help"]
      [] arguments \in {<<"--version">>, <<"-V">>} -> [ok |-> TRUE, command |-> "version"]
      [] IsPrefix(<<"node", "run">>, arguments) -> parse_run(SubSeq(arguments, 3, Len(arguments)))
      [] IsPrefix(<<"node", "probe">>, arguments) ->
            parse_target("probe", SubSeq(arguments, 3, Len(arguments)), 2000)
      [] IsPrefix(<<"tui">>, arguments) -> parse_target("tui", Tail(arguments), 30000)
      [] OTHER -> Refused

-----------------------------------------------------------------------------

\* What selects a command, all of it or too little.
Heads == {<<>>, <<"node">>, <<"node", "run">>, <<"node", "probe">>, <<"tui">>}

Line(list) == head \o FlattenSeq(list)

LineInit ==
    /\ head \in Heads
    /\ items \in BoundedSeq(Items, MAX_ITEMS)
    /\ parsed = [ok |-> FALSE, command |-> "pending"]

ParseLine ==
    /\ ~parsed.ok /\ parsed # Refused
    /\ parsed' = parse_command(Line(items))
    /\ UNCHANGED <<head, items>>

LineSpec == LineInit /\ [][ParseLine]_lineVars

-----------------------------------------------------------------------------

Orders ==
    {[i \in DOMAIN items |-> items[p[i]]] : p \in Bijection(DOMAIN items, DOMAIN items)}

\* The flag, or some option with a value.
IsOption(item) ==
    \/ item = <<Flag>>
    \/ Len(item) = 2 /\ item[1] \in OptionsOf("run") \cup OptionsOf("probe")

Whole == \A i \in DOMAIN items : IsOption(items[i])

\* The one pass with its early returns makes the same command of the options
\* in whatever order they are given, or of none of the orders.
OrderOfOptionsIrrelevant ==
    (parsed.ok /\ Whole) => \A order \in Orders : parse_command(Line(order)) = parsed

=============================================================================
