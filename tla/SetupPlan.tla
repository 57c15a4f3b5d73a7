------------------------------ MODULE SetupPlan ------------------------------
(***************************************************************************)
(* What the setup wizard works on: the configuration and what is missing   *)
(* from it (internal/config/capabilities.go), and the plan of steps the    *)
(* wizard walks (internal/tuiapp/setup_flow.go).                           *)
(*                                                                         *)
(* A configuration is abstracted to what the wizard decides about: whether *)
(* the language model is used, its provider, the source switches that are  *)
(* off, and the search criteria, which are the values of the form's fields.*)
(***************************************************************************)
EXTENDS Naturals, Sequences, FiniteSets, SequencesExt

CONSTANTS
    Hosted,      \* providers that need credentials
    Local,       \* providers that need none
    Default,     \* the provider of a new configuration
    Switches,    \* source switches of the configuration menu
    FieldCount,  \* fields of the criteria form
    Typed,       \* per field: what the user may leave in it
    OwnModels,   \* models a provider is listed with before its list is fetched
    FetchedModels \* models of a fetched list

Providers == Hosted \cup Local
Fields == 1..FieldCount
Empty == "empty"
Invalid == "invalid" \* a value its field cannot parse

ASSUME SetupAssumption ==
    /\ Default \in Providers
    /\ Hosted \cap Local = {}
    /\ Switches \subseteq {"sources", "rss", "site", "builtins"}
    /\ FieldCount \in Nat \ {0}
    /\ \A f \in Fields : Empty \in Typed[f]
    /\ \E v \in Typed[1] : v \notin {Empty, Invalid} \* a title can be typed
    /\ OwnModels \in Nat \ {0}
    /\ FetchedModels \in Nat \ {0}

FormValues == {v \in [Fields -> UNION {Typed[f] : f \in Fields}] :
                  \A f \in Fields : v[f] \in Typed[f]}

\* CriteriaFromSearchProfileValues: the form is parsed field by field.
Parses(v) == \A f \in Fields : v[f] # Invalid
Criteria == {v \in FormValues : Parses(v)}
NoCriteria == [f \in Fields |-> Empty]

-----------------------------------------------------------------------------
(* The configuration and the capabilities of the program under it.         *)

\* The switch of the built-in sources decides nothing here, and is not kept.
Configs == [on: BOOLEAN, provider: Providers, off: SUBSET (Switches \ {"builtins"}),
            criteria: Criteria]

DefaultConfig == [on |-> TRUE, provider |-> Default, off |-> {},
                  criteria |-> NoCriteria]

\* The prompt's text is not told apart: it is there or it is not.
Prompts == {"none", "made"}

\* What a start of the program finds: config.yaml and SEARCH_PROMPT.md.
Disks == [exists: BOOLEAN, config: Configs, prompt: Prompts]

\* SearchProfileReady: some title or role family is asked for.
ProfileReady(config) == config.criteria[1] # Empty

\* appConfigHasEnabledSources, with the default feeds and sites.
SourcesReady(config) ==
    /\ "sources" \notin config.off
    /\ ~({"rss", "site"} \subseteq config.off)

\* evaluateCapabilitiesForConfig: what is missing.
Issues(disk) ==
    IF ~disk.exists THEN {"config"}
    ELSE {i \in {"profile", "sources", "prompt"} :
            \/ i = "profile" /\ ~ProfileReady(disk.config)
            \/ i = "sources" /\ ~SourcesReady(disk.config)
            \/ i = "prompt" /\ disk.config.on /\ disk.prompt = "none"}

\* llmAuthAvailableNow: credentials are read from the environment or printed
\* by a command, each time anew, so that a look may find them or not.
Credentials(config) ==
    IF ~config.on THEN {FALSE} ELSE IF config.provider \in Local THEN {TRUE} ELSE BOOLEAN

SectionFor(disk) ==
    CASE Issues(disk) \cap {"config", "profile", "sources"} # {} -> "criteria"
      [] Issues(disk) = {"prompt"} -> "prompt"
      [] OTHER -> "none"

-----------------------------------------------------------------------------
(* The plan of the wizard.                                                 *)

Modes == {"bootstrap", "repair", "edit", "recovery"}
Sections == {"none", "criteria", "llm", "prompt"}

\* Steps that are reached from a step of the plan and lead back to it.
SideSteps == {"provider_menu", "model_value", "task_menu", "task_choice",
              "task_value"}

Steps == SideSteps \cup
         {"recovery", "llm_choice", "config_menu", "llm_menu", "provider",
          "model", "auth_mode", "auth_value", "resume_choice", "resume_path",
          "criteria", "summary", "prompt_review", "preview"}

SectionPlan(section) ==
    CASE section = "criteria" -> <<"criteria", "summary">>
      [] section = "llm" -> <<"llm_menu", "provider", "auth_mode", "auth_value",
                              "model", "summary">>
      [] section = "prompt" -> <<"prompt_review">>
      [] OTHER -> <<>>

\* newSetupPlan for a first start; a resume is offered once models are known.
BootstrapPlan(useLLM, prefill) ==
    <<"llm_choice">>
    \o (IF useLLM THEN <<"provider", "auth_mode", "auth_value", "model">>
                       \o (IF prefill THEN <<"resume_choice", "resume_path">> ELSE <<>>)
                  ELSE <<>>)
    \o <<"criteria", "summary">>
    \o (IF useLLM THEN <<"prompt_review">> ELSE <<>>)
    \o <<"preview">>

Plan(s) ==
    CASE s.mode = "recovery" -> <<"recovery">>
      [] s.mode = "bootstrap" -> BootstrapPlan(s.useLLM, s.prefill)
      [] OTHER -> <<"config_menu">> \o SectionPlan(s.section)

InPlan(s, step) == Contains(Plan(s), step)

SetStep(s, step) ==
    [s EXCEPT !.step = IF InPlan(s, step) THEN step ELSE Head(Plan(s))]

\* The places in the plan the wizard can go to, one forward or one back.
Ahead(s) == {i \in 2..Len(Plan(s)) : Plan(s)[i - 1] = s.step}
Behind(s) == {i \in 1..(Len(Plan(s)) - 1) : Plan(s)[i + 1] = s.step}

Advance(s) == [s EXCEPT !.step = IF Ahead(s) = {} THEN @
                                 ELSE Plan(s)[CHOOSE i \in Ahead(s) : TRUE]]
Retreat(s) == [s EXCEPT !.step = IF Behind(s) = {} THEN @
                                 ELSE Plan(s)[CHOOSE i \in Behind(s) : TRUE]]

-----------------------------------------------------------------------------
(* Option lists.                                                           *)

\* setupModelOptions: the fetched list or the own one, and the manual entry.
ModelOptions(s) == 1 + IF s.known THEN FetchedModels ELSE OwnModels

\* One more: the fallback to the default model.
TaskOptions(s) == 1 + ModelOptions(s)

\* The lists whose length a message may change under the cursor.
Listing(s) == s.step \in {"model", "task_choice"}
OptionCount(s) == IF s.step = "model" THEN ModelOptions(s) ELSE TaskOptions(s)
=============================================================================
