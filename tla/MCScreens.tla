------------------------------ MODULE MCScreens ------------------------------
\* The wizard with two providers, one source switch and a form of two fields,
\* of which the first may hold a value that does not parse; lists of two rows
\* with their menus; the health of their companies; and command lines of up to
\* three words.
EXTENDS Screens

CONSTANTS hosted, local, a, b

HostedMC == {hosted}
LocalMC == {local}
SwitchesMC == {"builtins"}
TypedMC == <<{Empty, "some", Invalid}, {Empty}>>

JobsMC == {a, b}
StatusesMC == <<"Expired", "Unopened", "Viewed">>
SortKeysMC == {"health", "title", "status"}
RanksMC == [by \in {"title"} |-> a :> 1 @@ b :> 2]
SearchesMC == {{a}}
PartsMC == {{"wizard", "fetch"}, {"rows", "fetch"}, {"health"}, {"commands"}, {"commands", "calls"}}
NameMatchesMC ==
    "" :> <<"debug", "health", "fetch">> @@ "h" :> <<"health", "fetch">>
    @@ "debug" :> <<"debug">> @@ "health" :> <<"health">> @@ "fetch" :> <<"fetch">>
    @@ "other" :> <<>>
ArgumentsMC ==
    {Plain(w) : w \in {"name", "-", "--a", "--website", "--all"}}
    \cup {Word("--website", "some"), Word("--aka", "empty")}
CallWordsMC == {Plain(w) : w \in {"health", "fetch", "name"}}

WindowPartsMC == {{"health"}}
WizardPartsMC == {{"wizard"}}
=============================================================================
