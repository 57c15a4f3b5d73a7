------------------------------ MODULE SetupKeys ------------------------------
(***************************************************************************)
(* The keys of the setup wizard, one action per step and key               *)
(* (handleSetupKey, setupConfigMenuSpecs), and the messages it waits for   *)
(* (update_setup_msgs.go).                                                 *)
(***************************************************************************)
EXTENDS Setup

(* The way in: recovery and the first question.                            *)

RecoveryEnter ==
    /\ At("recovery")
    /\ \/ CloseWizard("notice") /\ UNCHANGED <<disk, asked>>
       \/ Become(NewSetup(disk, "repair", "llm"))
       \/ Restart

LLMChoiceEnter ==
    /\ At("llm_choice")
    /\ \/ Become(SetStep(SetUse(setup, TRUE), "provider"))
       \/ Become(Advance([SetUse(setup, FALSE)
                            EXCEPT !.section = IF @ = "none" THEN "criteria" ELSE @]))

-----------------------------------------------------------------------------
(* The configuration menu.                                                 *)

ChooseCriteria ==
    /\ At("config_menu")
    /\ Become(SetStep([setup EXCEPT !.section = "criteria"], "criteria"))

ChooseResume ==
    /\ At("config_menu")
    /\ setup.useLLM
    /\ \E works \in Credentials(setup.config) :
          IF works
          THEN Become([setup EXCEPT !.section = "criteria", !.step = "resume_path"])
          ELSE Become(SetStep([setup EXCEPT !.section = "llm"], "llm_menu"))

ChooseLLM ==
    /\ At("config_menu")
    /\ Become(SetStep([setup EXCEPT !.section = "llm"], "llm_menu"))

\* A source switch is turned and the configuration saved at once.
ToggleSource ==
    /\ At("config_menu")
    /\ \E x \in Switches :
          SaveConfig([setup EXCEPT !.config.off = IF x = "builtins" THEN @
                                                  ELSE (@ \ {x}) \cup ({x} \ @)])

\* Criteria and prompt are made from the form on the way to the prompt.
ChoosePrompt ==
    /\ At("config_menu")
    /\ LET s == [setup EXCEPT !.section = "prompt"]
           t == IF Parses(s.fields) THEN Refreshed(s, FALSE)
                ELSE [s EXCEPT !.generated = {}, !.prompt = "made"]
       IN  Become(IF t.useLLM THEN SetStep(t, "prompt_review") ELSE t)

ConfigMenuEsc ==
    /\ At("config_menu")
    /\ CloseWizard("none")
    /\ UNCHANGED <<disk, asked>>

-----------------------------------------------------------------------------
(* The language model: the menu, the provider and its menu.                *)

Shut(s, menus) == [s EXCEPT !.open = @ \ menus]
Opened(s, menu) == [s EXCEPT !.open = @ \cup {menu}]

ToggleLLM ==
    /\ At("llm_menu")
    /\ SaveConfig(SetUse(Shut(setup, {"llm_menu"}), ~setup.useLLM))

PickProvider ==
    /\ At("llm_menu")
    /\ IF "llm_menu" \notin setup.open THEN Become(Opened(setup, "llm_menu"))
       ELSE \E p \in Providers :
               SaveConfig(SetProvider(SetUse(Shut(setup, {"llm_menu"}), TRUE), p))

\* The language model is turned on, and nothing saved.
OpenProviderMenu ==
    /\ At("llm_menu")
    /\ Become([SetUse(Shut(setup, {"llm_menu"}), TRUE)
                  EXCEPT !.step = "provider_menu", !.return = FALSE])

LLMMenuEsc ==
    /\ At("llm_menu")
    /\ IF "llm_menu" \in setup.open THEN Become(Shut(setup, {"llm_menu"}))
       ELSE Back(setup)

ProviderMenuEnter ==
    /\ At("provider_menu")
    /\ LET s == [setup EXCEPT !.return = TRUE]
           t == Shut(s, {"provider_menu"})
       IN  \/ Become([t EXCEPT !.step = IF t.config.provider \in Hosted
                                        THEN "auth_mode" ELSE @])
           \/ "provider_menu" \notin s.open /\ Become(Opened(s, "provider_menu"))
           \/ "provider_menu" \in s.open /\ SaveConfig(t)
           \/ "provider_menu" \in s.open /\ Become([t EXCEPT !.step = "model_value"])
           \/ Become([Shut(t, {"task_menu"}) EXCEPT !.step = "task_menu"])

ProviderMenuEsc ==
    /\ At("provider_menu")
    /\ IF "provider_menu" \in setup.open THEN Become(Shut(setup, {"provider_menu"}))
       ELSE Become([setup EXCEPT !.step = "llm_menu", !.return = FALSE])

ProviderEnter ==
    /\ At("provider")
    /\ \E p \in Providers :
          LET s == SetProvider(setup, p)
          IN  IF InPlan(s, "llm_menu") THEN SaveConfig(SetStep(s, "llm_menu"))
              ELSE IF p \in Hosted THEN Become(SetStep(s, "auth_mode"))
              ELSE Become([SetStep(s, "model") EXCEPT !.idx = 0])

ProviderEsc == At("provider") /\ Back(setup)

\* A model is set.  In the LLM section of an edit the wizard closes here, with
\* the message that the configuration was saved, and saves nothing.
ModelChosen(s) ==
    LET t == Advance(s)
    IN  IF s.return
        THEN SaveConfig([s EXCEPT !.step = "provider_menu"])
        ELSE IF t.step = "summary" /\ s.mode = "edit" /\ s.section = "llm"
        THEN CloseWizard("none") /\ UNCHANGED <<disk, asked>>
        ELSE Become(t)

ModelEnter ==
    /\ At("model")
    /\ \/ setup.idx = ModelOptions(setup) - 1 /\ Become([setup EXCEPT !.step = "model_value"])
       \/ setup.idx < ModelOptions(setup) - 1 /\ ModelChosen(setup)

ModelEsc ==
    /\ At("model")
    /\ IF setup.return
       THEN Become([setup EXCEPT !.step = "provider_menu"])
       ELSE IF setup.config.provider \in Local
       THEN Become(SetStep(setup, "provider"))
       ELSE Back(setup)

ModelValueEnter ==
    /\ At("model_value")
    /\ ModelChosen([setup EXCEPT !.step = "model"])

ModelValueEsc ==
    /\ At("model_value")
    /\ Become(IF setup.return THEN [setup EXCEPT !.step = "provider_menu"]
                              ELSE [setup EXCEPT !.step = "model", !.idx = 0])

-----------------------------------------------------------------------------
(* The models of the tasks, and the credentials.                           *)

TaskMenuEnter ==
    /\ At("task_menu")
    /\ IF "task_menu" \notin setup.open THEN Become(Opened(setup, "task_menu"))
       ELSE \/ SaveConfig(Shut(setup, {"task_menu"}))
            \/ Become([Shut(setup, {"task_menu"}) EXCEPT !.step = "task_value"])

TaskMenuEsc ==
    /\ At("task_menu")
    /\ Become(IF "task_menu" \in setup.open THEN Shut(setup, {"task_menu"})
              ELSE [setup EXCEPT !.step = "provider_menu"])

TaskChoiceEnter ==
    /\ At("task_choice")
    /\ \/ /\ setup.idx = TaskOptions(setup) - 1
          /\ Become([setup EXCEPT !.step = "task_value"])
       \/ /\ setup.idx < TaskOptions(setup) - 1
          /\ SaveConfig([setup EXCEPT !.step = "task_menu"])

TaskChoiceEsc ==
    At("task_choice") /\ Become([setup EXCEPT !.step = "task_menu"])

TaskValueEnter ==
    At("task_value") /\ SaveConfig([setup EXCEPT !.step = "task_menu"])

TaskValueEsc ==
    At("task_value") /\ Become([setup EXCEPT !.step = "task_choice", !.idx = 0])

AuthModeEnter ==
    /\ At("auth_mode")
    /\ Become(IF setup.return THEN [setup EXCEPT !.step = "auth_value"]
                              ELSE Advance(setup))

AuthModeEsc ==
    /\ At("auth_mode")
    /\ IF setup.return THEN Become([setup EXCEPT !.step = "provider_menu"])
                       ELSE Back(setup)

AuthValueEnter ==
    /\ At("auth_value")
    /\ IF setup.return THEN SaveConfig([setup EXCEPT !.step = "provider_menu"])
       ELSE Ahead(setup) # {} /\ Become([Advance(setup) EXCEPT !.idx = 0])

AuthValueEsc ==
    /\ At("auth_value")
    /\ IF setup.return THEN Become([setup EXCEPT !.step = "auth_mode"]) ELSE Back(setup)

-----------------------------------------------------------------------------
(* The criteria: from a resume, or typed into the form.                    *)

ResumeChoiceEnter ==
    /\ At("resume_choice")
    /\ \/ Become(SetStep(setup, "resume_path"))
       \/ Become(SetStep([setup EXCEPT !.prefill = FALSE], "criteria"))

ResumeChoiceEsc == At("resume_choice") /\ Back(setup)

\* Keys are not heard while a resume is being read.
ResumePathEnter ==
    /\ At("resume_path")
    /\ "resume" \notin setup.busy
    /\ asked.resumes < MaxResumes
    /\ setup' = [setup EXCEPT !.busy = @ \cup {"resume"}]
    /\ asked' = [asked EXCEPT !.resumes = @ + 1]
    /\ UNCHANGED <<disk, screen>>

ResumePathEsc ==
    /\ At("resume_path")
    /\ "resume" \notin setup.busy
    /\ Become(SetStep(setup, IF setup.mode \in {"edit", "repair"} THEN "config_menu"
                             ELSE "resume_choice"))

\* Enter keeps the text of the field; so does esc, but for the first field.
CriteriaEnter ==
    /\ At("criteria")
    /\ \E v \in Typed[setup.field] :
          LET s == [setup EXCEPT !.fields[setup.field] = v]
          IN  Become(IF s.field = FieldCount THEN Advance(s)
                     ELSE [s EXCEPT !.field = @ + 1])

CriteriaEsc ==
    /\ At("criteria")
    /\ \/ /\ setup.field = 1
          /\ IF Behind(setup) = {} /\ setup.mode = "edit"
             THEN Become(SetStep(setup, "config_menu"))
             ELSE Back(setup)
       \/ /\ setup.field > 1
          /\ \E v \in Typed[setup.field] :
                Become([setup EXCEPT !.fields[setup.field] = v, !.field = @ - 1])

SummaryEsc ==
    /\ At("summary")
    /\ IF Retreat(setup).step = "criteria"
       THEN Become([Retreat(setup) EXCEPT !.field = FieldCount])
       ELSE Back(setup)

SummaryEnter ==
    /\ At("summary")
    /\ Parses(setup.fields)
    /\ \E works \in Credentials(setup.config) :
          LET s == Refreshed(setup, TRUE)
          IN  IF s.useLLM /\ ~works THEN RedirectToAuth(s)
              ELSE IF \/ s.mode = "repair"
                      \/ s.mode = "edit" /\ s.section \in {"criteria", "llm"}
              THEN SaveAndComplete(s)
              ELSE IF s.useLLM THEN Become(Advance(s)) ELSE SaveAndPreview(s)

-----------------------------------------------------------------------------
(* The prompt and the preview.                                             *)

PromptEsc == At("prompt_review") /\ Back(setup)

PromptEnter ==
    /\ At("prompt_review")
    /\ \E works \in Credentials(setup.config) :
          IF setup.useLLM /\ ~works THEN RedirectToAuth(setup)
          ELSE IF setup.mode = "repair" \/ (setup.mode = "edit" /\ setup.section = "prompt")
          THEN SaveAndComplete(setup)
          ELSE SaveAndPreview(setup)

\* Keys are not heard while the preview is fetched (mutant: they are).
AnsweredOrNot == TRUE

Answered == "preview" \notin setup.busy

PreviewEsc ==
    /\ At("preview")
    /\ Answered
    /\ Become([Retreat(setup) EXCEPT !.preview = {}])

\* The jobs of the preview are saved, and the setup is taken to be complete; the
\* wizard stays where it is if they cannot be saved.  The list they are added to is
\* that of module Screens.
PreviewEnter ==
    /\ At("preview")
    /\ Answered
    /\ \/ CloseWizard("notice")
       \/ setup.preview # {} /\ UNCHANGED <<screen, setup>>
    /\ UNCHANGED <<disk, asked>>

-----------------------------------------------------------------------------
(* The messages.  A failed list of models only changes the message shown,  *)
(* and an edited prompt only the prompt's text.                            *)

\* (mutant: the cursor stays where it was in the longer list.)
Unclamped(s) == s

\* updateSetupModelsMsg keeps the cursor on the list.
Clamp(s) ==
    [s EXCEPT !.idx = IF Listing(s) /\ @ >= OptionCount(s) THEN OptionCount(s) - 1 ELSE @]

\* fetchSetupModelsCmd is sent from several steps, for the provider selected
\* then, and its message may outlive the wizard that asked; it is dropped unless
\* the provider of the wizard on the screen is the same.  The list of that
\* provider may therefore arrive at any time.
ModelsArrive ==
    /\ screen = "setup"
    /\ Become(Clamp([setup EXCEPT !.known = Listing(setup),
                                  !.prefill = @ \/ (setup.mode # "edit" /\ setup.useLLM)]))

\* (mutant: a resume that could not be read leaves the wizard waiting.)
ResumeFailsSilently(s) == SetStep(s, "resume_path")

ResumeFails(s) == SetStep([s EXCEPT !.busy = @ \ {"resume"}], "resume_path")

ResumeRead(s, c) ==
    [SetStep([s EXCEPT !.busy = @ \ {"resume"}, !.fields = c, !.generated = {c},
                       !.prompt = "made"], "criteria") EXCEPT !.field = 1]

ResumeArrives ==
    /\ asked.resumes > 0
    /\ asked' = [asked EXCEPT !.resumes = @ - 1]
    /\ \/ screen # "setup" /\ setup' = setup
       \/ screen = "setup" /\ setup' \in Settled(ResumeFails(setup))
       \/ screen = "setup" /\ \E c \in Criteria : setup' \in Settled(ResumeRead(setup, c))
    /\ UNCHANGED <<disk, screen>>

PreviewArrives ==
    \E c \in asked.previews :
        /\ asked' = [asked EXCEPT !.previews = @ \ {c}]
        /\ LET s == [setup EXCEPT !.busy = @ \ {"preview"}]
           IN  \/ screen # "setup" /\ setup' = setup
               \/ screen = "setup" /\ setup' = [s EXCEPT !.preview = {}]
               \/ screen = "setup" /\ setup' \in Settled([s EXCEPT !.preview = {c}, !.step = "preview"])
        /\ UNCHANGED <<disk, screen>>

-----------------------------------------------------------------------------
MenuKeys ==
    \/ RecoveryEnter \/ LLMChoiceEnter \/ ChooseCriteria \/ ChooseResume
    \/ ChooseLLM \/ ToggleSource \/ ChoosePrompt \/ ConfigMenuEsc \/ MoveCursor

ModelKeys ==
    \/ ToggleLLM \/ PickProvider \/ OpenProviderMenu \/ LLMMenuEsc
    \/ ProviderMenuEnter \/ ProviderMenuEsc \/ ProviderEnter \/ ProviderEsc
    \/ ModelEnter \/ ModelEsc \/ ModelValueEnter \/ ModelValueEsc
    \/ TaskMenuEnter \/ TaskMenuEsc \/ TaskChoiceEnter \/ TaskChoiceEsc
    \/ TaskValueEnter \/ TaskValueEsc
    \/ AuthModeEnter \/ AuthModeEsc \/ AuthValueEnter \/ AuthValueEsc

FormKeys ==
    \/ ResumeChoiceEnter \/ ResumeChoiceEsc \/ ResumePathEnter \/ ResumePathEsc
    \/ CriteriaEnter \/ CriteriaEsc \/ SummaryEnter \/ SummaryEsc
    \/ PromptEsc \/ PromptEnter \/ PreviewEsc

Messages == ModelsArrive \/ ResumeArrives \/ PreviewArrives

\* All but the enter that accepts the preview.
WizardNext == MenuKeys \/ ModelKeys \/ FormKeys \/ Messages
=============================================================================
