-------------------------------- MODULE Setup --------------------------------
(***************************************************************************)
(* The setup wizard of the terminal UI (internal/tuiapp/setup_keys.go,     *)
(* setup_state.go, setup_commands.go, update_setup_msgs.go): the first     *)
(* start, the repair of a configuration, and the editing of one.           *)
(*                                                                         *)
(* The wizard works on a copy of the configuration taken when it opens, on *)
(* the text of the criteria form, and on what was last generated from it.  *)
(* Lists of models, criteria read from a resume and the preview of a fetch *)
(* come back as messages, at any later time.                               *)
(*                                                                         *)
(* Text is entered by the key that ends it.  The cursor is part of the     *)
(* state where the list under it can change its length; in a menu of fixed *)
(* length, and in a dropdown, whose cursor the code clamps when it is used,*)
(* the option that enter finds under it is left open.                      *)
(***************************************************************************)
EXTENDS SetupPlan

CONSTANT MaxResumes \* bound: resumes being read at a time

ASSUME MaxResumesAssumption == MaxResumes \in Nat

VARIABLES
    disk,     \* config.yaml and SEARCH_PROMPT.md
    screen,   \* m.overlay.kind
    setup,    \* m.setup
    asked     \* resumes and previews whose message is still to come

wizardVars == <<disk, screen, setup, asked>>

\* generated and preview hold criteria, or nothing; open holds the steps whose
\* dropdown is open; known tells that the list on the screen is a fetched one.
Wizards == [mode: Modes, step: Steps, section: Sections, idx: Nat,
            field: Fields, useLLM: BOOLEAN, config: Configs,
            fields: FormValues, generated: SUBSET Criteria, prompt: Prompts,
            busy: SUBSET {"resume", "preview"}, preview: SUBSET Criteria,
            known: BOOLEAN,
            open: SUBSET {"llm_menu", "provider_menu", "task_menu"},
            return: BOOLEAN, prefill: BOOLEAN]

\* newSetupState: everything is read anew from the disk.
NewSetup(d, mode, section) ==
    LET config == IF d.exists THEN d.config ELSE DefaultConfig
        s == [mode |-> mode, step |-> "llm_choice", section |-> section,
              idx |-> 0, field |-> 1, useLLM |-> config.on, config |-> config,
              fields |-> config.criteria, generated |-> {}, prompt |-> d.prompt,
              busy |-> {}, preview |-> {}, known |-> FALSE, open |-> {},
              return |-> FALSE, prefill |-> FALSE]
    IN  SetStep(s, "llm_choice")

\* m.setup once the wizard is off the screen: it is never read again.
Closed == NewSetup([exists |-> FALSE, config |-> DefaultConfig, prompt |-> "none"],
                   "edit", "none")

NothingAsked == [resumes |-> 0, previews |-> {}]

Overlays == {"none", "setup", "notice", "status", "filter", "health", "detail"}

WizardTypeOK ==
    /\ disk \in Disks
    /\ screen \in Overlays
    /\ setup \in Wizards
    /\ asked \in [resumes: 0..MaxResumes, previews: SUBSET Criteria]

\* initialModel on what the disk holds.
Boot(d) ==
    \E works \in Credentials(d.config) :
        LET recover == d.config.on /\ ~works
            mode == IF Issues(d) = {} THEN "recovery"
                    ELSE IF d.exists THEN "repair" ELSE "bootstrap"
        IN  /\ IF Issues(d) # {} \/ recover
               THEN /\ screen' = "setup"
                    /\ setup' = NewSetup(d, mode, IF Issues(d) = {} THEN "llm"
                                                  ELSE SectionFor(d))
               ELSE screen' = "none" /\ setup' = Closed
            /\ asked' = NothingAsked

WizardInit ==
    /\ disk = [exists |-> FALSE, config |-> DefaultConfig, prompt |-> "none"]
    /\ screen = "setup"
    /\ setup = NewSetup(disk, "bootstrap", "criteria")
    /\ asked = NothingAsked

\* The program is left, by q or ctrl+c, or dies, and is started again.
Restart == Boot(disk) /\ disk' = disk

-----------------------------------------------------------------------------
(* What the keys do to the wizard.                                         *)

At(step) == screen = "setup" /\ setup.step = step

\* The cursor of other steps is not kept, nor the place in the form outside of
\* it: whatever leads to a step of these sets them.  The list of the provider
\* may have been fetched earlier in the wizard, or not.
Settled(s) ==
    {[s EXCEPT !.idx = IF Listing(s) THEN @ ELSE 0,
               !.field = IF s.step = "criteria" THEN @ ELSE 1,
               !.known = k] :
        k \in IF ~Listing(s) THEN {FALSE} ELSE IF Listing(setup) THEN {s.known}
              ELSE BOOLEAN}

Become(s) == setup' \in Settled(s) /\ UNCHANGED <<disk, screen, asked>>

CloseWizard(next) == screen' = next /\ setup' = Closed

\* saveSetupConfigMessage, and the source switches of the configuration menu:
\* the whole working copy is written, with the criteria it was opened with.
SaveConfig(s) ==
    /\ setup' \in Settled(s)
    /\ disk' \in {disk, [disk EXCEPT !.exists = TRUE, !.config = s.config]}
    /\ UNCHANGED <<screen, asked>>

\* saveSetupArtifacts: what is missing is made first.
Filled(s) == [s EXCEPT !.generated = IF @ = {} THEN {s.fields} ELSE @,
                       !.prompt = IF @ = "none" THEN "made" ELSE @]

Savable(s) == s.generated # {} \/ Parses(s.fields)

Artifacts(s) == [exists |-> TRUE, prompt |-> s.prompt,
                 config |-> [s.config EXCEPT !.criteria = CHOOSE c \in s.generated : TRUE]]

\* The save fails before the configuration is written, or between the
\* configuration and the prompt.
SaveFails(s) ==
    IF Savable(s)
    THEN /\ setup' = Filled(s)
         /\ disk' \in {disk, [Artifacts(Filled(s)) EXCEPT !.prompt = disk.prompt]}
         /\ UNCHANGED <<screen, asked>>
    ELSE Become(s)

Saves(s) == Savable(s) /\ disk' = Artifacts(Filled(s))

\* completeSetupSave.
Complete(s) ==
    CASE s.mode = "repair" ->
            IF Issues(disk') # {}
            THEN /\ setup' = SetStep([s EXCEPT !.section = SectionFor(disk')],
                                     "config_menu")
                 /\ screen' = screen
            ELSE CloseWizard("notice")
      [] s.mode = "edit" -> CloseWizard("none")
      [] OTHER -> setup' = s /\ screen' = screen

SaveAndComplete(s) ==
    \/ SaveFails(s)
    \/ Saves(s) /\ Complete(Filled(s)) /\ asked' = asked

\* redirectSetupToLLMAuth: the working copy keeps the criteria it was opened
\* with.  A provider and a model are always set (NormalizeLLMConfig).
RedirectToAuth(s) ==
    \/ SaveFails(s)
    \/ /\ Saves(s)
       /\ setup' = SetStep([Filled(s) EXCEPT !.section = "llm"], "auth_mode")
       /\ UNCHANGED <<screen, asked>>

\* beginSetupPreview: it fetches with what was last generated.
BeginPreview(s) ==
    /\ Saves(s)
    /\ setup' \in Settled([SetStep(Filled(s), "preview")
                            EXCEPT !.busy = @ \cup {"preview"}, !.preview = {}])
    /\ asked' = [asked EXCEPT !.previews = @ \cup Filled(s).generated]
    /\ UNCHANGED screen

SaveAndPreview(s) == SaveFails(s) \/ BeginPreview(s)

\* refreshSetupGeneratedState, for a form that parses.
Refreshed(s, overwrite) ==
    [s EXCEPT !.generated = {s.fields},
              !.prompt = IF overwrite \/ @ = "none" THEN "made" ELSE @]

SetProvider(s, p) == [s EXCEPT !.config.provider = p, !.config.on = TRUE]

SetUse(s, on) == [s EXCEPT !.useLLM = on, !.config.on = on]

\* up and down in a list.
MoveCursor ==
    /\ screen = "setup"
    /\ Listing(setup)
    /\ \E i \in 0..(OptionCount(setup) - 1) :
          /\ i \in {setup.idx - 1, setup.idx + 1}
          /\ Become([setup EXCEPT !.idx = i])

\* esc where it goes back to the step before, with the cursor at the top.
Back(s) == Become([Retreat(s) EXCEPT !.idx = IF Behind(s) = {} THEN @ ELSE 0])
=============================================================================
