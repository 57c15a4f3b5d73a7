----------------------------- MODULE CommandLine -----------------------------
(***************************************************************************)
(* The command line of the terminal UI, ":" (internal/tuiapp/              *)
(* command_mode.go and the keys of it in update_keys.go): its completions, *)
(* the parsing of "fetch", "health" and "debug", and what they start.      *)
(*                                                                         *)
(* A line is a sequence of words and whether a space follows the last one. *)
(* A word is the name of a command, a positional argument, or an option    *)
(* with the value that is written after its "=".  Letters, quotes and the  *)
(* fuzzy match of names are data: NameMatches tells the commands a word    *)
(* may be completed to.  Paths of "debug" are positional arguments.        *)
(***************************************************************************)
EXTENDS HealthWindow

CONSTANTS
    NameMatches, \* the commands that a first word matches, in their order
    Arguments,   \* words that are typed after the first
    MaxWords,    \* bound: the length of a line
    CallWords    \* bound: the words that are typed where commands are executed

ASSUME CommandLineAssumption ==
    /\ MaxWords \in Nat
    /\ \A n \in DOMAIN NameMatches : NameMatches[n] \in Seq(DOMAIN NameMatches)

VARIABLE line \* m.commandInput, m.commandTypedInput and the completions

\* A word that begins a flag: "-" and "--" are words too.
Word(text, value) == [text |-> text, value |-> value]
Plain(text) == Word(text, "none")

Flags == [fetch |-> <<"--aka", "--website", "--all">>,
          health |-> <<"--aka", "--website">>]
Beginnings == [p \in {"-", "--", "--a", "--aka", "--website", "--all"} |->
                  CASE p \in {"-", "--"} -> {"--aka", "--website", "--all"}
                    [] p = "--a" -> {"--aka", "--all"}
                    [] OTHER -> {p}]
Option(w) == w.text \in {"--", "--a", "--aka", "--website", "--all", "--other"}
Dashed(w) == Option(w) \/ w.text = "-"
TakesValue(w) == w.text \in {"--aka", "--website"}

NoLine == [words |-> <<>>, open |-> FALSE]
NoCommand == [text |-> NoLine, typed |-> NoLine, offers |-> <<>>, at |-> 1]

Debugs == <<"status", "on", "off", "path">>

Vocabulary ==
    {Plain(w) : w \in DOMAIN NameMatches \cup {"--aka", "--website", "--all"}
                      \cup Range(Debugs)} \cup Arguments

Lines == [words: Seq(Vocabulary), open: BOOLEAN]

\* A completion may be a word longer than what is typed.
LineTypeOK ==
    /\ line.text \in Lines /\ Len(line.text.words) <= MaxWords + 1
    /\ line.typed \in Lines
    /\ line.offers \in Seq(Lines) /\ line.at \in 1..Len(line.offers) + 1

-----------------------------------------------------------------------------
(* Parsing.                                                                *)

\* parseFetchCommandOptions, parseHealthCommandIdentity: an option takes the
\* next word, whatever it is; no positional argument follows an option, and the
\* company comes first.
Values(args) == \* the places of words that are taken as values
    LET taken[i \in Nat] ==
            /\ i > 1 /\ i <= Len(args)
            /\ ~taken[i - 1]
            /\ TakesValue(args[i - 1]) /\ args[i - 1].value = "none"
    IN  {i \in DOMAIN args : taken[i]}

Accepts(command, args) ==
    LET heads == DOMAIN args \ Values(args)
        options == {i \in heads : Option(args[i])}
        allowed == Range(Flags[command])
    IN  /\ \E i \in heads : ~Option(args[i])
        /\ \A i \in heads : ~Option(args[i]) => \A o \in options : i < o
        /\ \A i \in options :
              /\ args[i].text \in allowed
              /\ TakesValue(args[i]) =>
                    \/ args[i].value = "some"
                    \/ args[i].value = "none" /\ i < Len(args)
              /\ ~TakesValue(args[i]) => args[i].value = "none"
        /\ Cardinality({i \in options : args[i].text = "--website"}) <= 1

\* executeDebugCommand
DebugRuns(args) ==
    LET what == IF args = <<>> THEN "status" ELSE args[1].text
    IN  \/ what = "status"
        \/ what = "on" /\ Len(args) <= 2
        \/ what = "off" /\ Len(args) = 1
        \/ what = "path" /\ Len(args) = 2

\* executeOperatorCommand
Runs(words) ==
    /\ words # <<>>
    /\ \/ words[1].text = "debug" /\ DebugRuns(Tail(words))
       \/ /\ words[1].text \in {"fetch", "health"}
          /\ Accepts(words[1].text, Tail(words))

-----------------------------------------------------------------------------
(* Completions.                                                            *)

Completed(words, next) == [words |-> Append(words, next), open |-> FALSE]

\* commandAwaitingFlagValue, commandCurrentTokenRequiresValue: the line waits
\* for the value of its last word.
AwaitsValue(text) ==
    LET last == Last(text.words)
    IN  TakesValue(last) /\ IF text.open THEN last.value # "some" ELSE last.value = "none"

\* restHasPositionalArg
HasCompany(args) == args # <<>> /\ ~Option(args[1])

\* commandFlagCompletionContext: the words that stay, and the beginning of a
\* flag that does not.
Base(text) == IF text.open THEN text.words ELSE Front(text.words)

\* The elements of a sequence that are in a set.
Kept(seq, S) == FoldLeft(LAMBDA kept, x : IF x \in S THEN Append(kept, x) ELSE kept, <<>>, seq)

\* (mutant: a flag is offered again.)
OfferAgain(command, args) == Range(Flags[command])

\* fetchCommandCompletions, healthCommandCompletions
Unused(command, args) ==
    {f \in Range(Flags[command]) : f = "--aka" \/ \A i \in DOMAIN args : args[i].text # f}

FlagOffers(text) ==
    LET command == text.words[1].text
        last == Last(text.words)
        begun(f) == \/ text.open
                    \/ /\ last.text \in DOMAIN Beginnings /\ last.value = "none"
                       /\ f \in Beginnings[last.text]
        fits == Kept(Flags[command], {f \in Unused(command, Tail(text.words)) : begun(f)})
    IN  IF \/ AwaitsValue(text) \/ ~HasCompany(Tail(text.words))
           \/ ~(text.open \/ Dashed(last))
        THEN <<>> ELSE [i \in DOMAIN fits |-> Completed(Base(text), Plain(fits[i]))]

\* The completions of "debug", which look at all that follows its name; "path"
\* is completed with a space after it.
DebugOffers(text) ==
    LET fits == Kept(Debugs, {w \in Range(Debugs) :
                    Len(text.words) = 1 \/ Tail(text.words) = <<Plain(w)>>})
    IN  [i \in DOMAIN fits |->
            [Completed(<<text.words[1]>>, Plain(fits[i]))
                EXCEPT !.open = (fits[i] = "path")]]

\* operatorCommandCompletions
Offers(text) ==
    LET w == text.words
        name == IF w = <<>> THEN "" ELSE w[1].text
        names == IF name \in DOMAIN NameMatches THEN NameMatches[name] ELSE <<>>
    IN  IF Len(w) = 0 \/ (Len(w) = 1 /\ ~text.open)
        THEN [i \in DOMAIN names |-> Completed(<<>>, Plain(names[i]))]
        ELSE CASE name = "debug" -> DebugOffers(text)
               [] name \in {"fetch", "health"} /\ Len(w) > 1 -> FlagOffers(text)
               [] OTHER -> <<>>

Cycling == line.offers # <<>>

-----------------------------------------------------------------------------
(* Keys.                                                                   *)

Commanding == mode = "command" /\ screen \notin {"setup", "notice"}

OpenCommand ==
    /\ "commands" \in scope
    /\ MainKeys
    /\ mode' = "command" /\ line' = NoCommand
    /\ SameScreen
    /\ UNCHANGED <<scope, list>> /\ UNCHANGED windowVars

LineOnly ==
    /\ SameScreen
    /\ UNCHANGED <<scope, list, mode>> /\ UNCHANGED windowVars

PutLine(text) == line' = [NoCommand EXCEPT !.text = text, !.typed = text]

\* A word is typed, or the last one made another, or removed.
Type ==
    /\ Commanding
    /\ LET t == line.text
           words == IF t.open \/ t.words = <<>> THEN t.words ELSE Front(t.words)
       IN  \/ /\ Len(words) < MaxWords
              /\ \E w \in IF words = <<>> THEN {Plain(n) : n \in DOMAIN NameMatches \ {""}}
                          ELSE Arguments :
                    /\ "calls" \in scope => w \in CallWords
                    /\ PutLine([words |-> Append(words, w), open |-> FALSE])
           \/ PutLine([words |-> words, open |-> words # <<>>])
    /\ LineOnly

\* operatorCommand completion: tab goes through what completes the text that
\* was typed, not the completion on the line.
Tab ==
    /\ Commanding
    /\ LET query == IF line.typed = NoLine /\ ~Cycling THEN line.text ELSE line.typed
           offers == IF Cycling THEN line.offers ELSE Offers(query)
           at == IF Cycling THEN (line.at % Len(offers)) + 1 ELSE 1
       IN  /\ Len(query.words) <= MaxWords
           /\ line' = [text |-> IF offers = <<>> THEN line.text ELSE offers[at],
                        typed |-> query, offers |-> offers, at |-> at]
    /\ LineOnly

\* A space takes the completion, or is typed.
Space ==
    /\ Commanding
    /\ line.text.words # <<>>
    /\ PutLine([line.text EXCEPT !.open = TRUE])
    /\ LineOnly

LeaveCommand ==
    /\ Commanding
    /\ mode' = "keys" /\ line' = NoCommand
    /\ SameScreen
    /\ UNCHANGED <<scope, list>> /\ UNCHANGED windowVars

\* Enter on a line that is not executed, or that only sets or shows the log,
\* or that would fetch while a fetch runs.
NothingStarted(fetching) ==
    /\ Commanding
    /\ ~ \E name \in {"health", "fetch"} :
            /\ Runs(line.text.words) /\ line.text.words[1].text = name
            /\ name = "fetch" => ~fetching
    /\ line' = NoCommand
    /\ LineOnly

HealthCommand ==
    /\ "calls" \in scope
    /\ Commanding
    /\ Runs(line.text.words) /\ line.text.words[1].text = "health"
    /\ mode' = "keys" /\ line' = NoCommand
    /\ \E company \in Jobs : MayAsk(company) /\ Await(company)
    /\ UNCHANGED <<disk, setup, asked, scope, list, health, tasks, panel>>

FetchCommand ==
    /\ "calls" \in scope
    /\ Commanding
    /\ Runs(line.text.words) /\ line.text.words[1].text = "fetch"
    /\ mode' = "keys" /\ line' = NoCommand
    /\ SameScreen
    /\ UNCHANGED <<scope, list>> /\ UNCHANGED windowVars
=============================================================================
