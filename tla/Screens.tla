------------------------------- MODULE Screens -------------------------------
(***************************************************************************)
(* The terminal UI as a whole: the list of jobs with its menus and windows,*)
(* the command line, the setup wizard, and the notices of a fetch and of   *)
(* the background work (overlay_actions.go, update_keys.go,                *)
(* update_fetch_msgs.go).                                                  *)
(*                                                                         *)
(* There is one overlay.  A fetch that ends puts its notice there whatever *)
(* is on it, a wizard with unsaved answers included; so do a background    *)
(* task (module TaskSlot) that fails, a posting check that ends, and a     *)
(* health lookup whose answer is to be shown.                              *)
(***************************************************************************)
EXTENDS SetupKeys, CommandLine

CONSTANT Previewed \* bound: the jobs a preview may find

VARIABLES
    fetching, \* m.fetchingJobs
    review,   \* m.pendingFetch # nil
    checking  \* a posting check is under way, in the slot of module TaskSlot

wizard == <<disk, screen, setup, asked>>
vars == <<disk, screen, setup, asked, scope, list, mode, health, window, tasks,
          panel, lookups, line, fetching, review, checking>>

TypeOK ==
    /\ WizardTypeOK
    /\ ListTypeOK
    /\ LineTypeOK
    /\ fetching \in BOOLEAN
    /\ review \in BOOLEAN
    /\ checking \in BOOLEAN

\* A configuration that lacks nothing, without a language model.
ReadyConfig ==
    CHOOSE c \in Configs :
        ~c.on /\ Issues([exists |-> TRUE, config |-> c, prompt |-> "made"]) = {}

\* The program as it starts with these rows, the scores it kept, and the filter
\* that was saved.
Loaded(rows, saved, scores) ==
    LET l == [rows |-> rows, shown |-> <<>>, cursor |-> 0, by |-> "health",
              desc |-> TRUE, filters |-> saved, query |-> {}, menu |-> {}]
    IN  AppliedWith(l, scores)

Quiet ==
    /\ mode = "keys"
    /\ window = NoWindow
    /\ tasks = <<>>
    /\ panel = [expanded |-> FALSE, animating |-> FALSE]
    /\ lookups = {}
    /\ line = NoCommand
    /\ fetching = FALSE
    /\ review = FALSE
    /\ checking = FALSE

\* A first start, or a start with rows and a complete configuration.
Init ==
    /\ scope \in Parts
    /\ health = [job \in Jobs |-> 0]
    /\ Quiet
    /\ IF "wizard" \in scope THEN WizardInit
       ELSE /\ disk = [exists |-> TRUE, config |-> ReadyConfig, prompt |-> "made"]
            /\ screen = "none" /\ setup = Closed /\ asked = NothingAsked
    /\ \E order \in IF scope \cap {"rows", "health"} = {} THEN {<<>>}
                    ELSE {s \in [1..Cardinality(Jobs) -> Jobs] : IsInjective(s)} :
          list = Loaded([i \in DOMAIN order |->
                            [job |-> order[i], status |-> "Unopened"]], {}, health)

\* A notice replaces what is on the screen.
Notice ==
    /\ CloseWizard("notice")
    /\ window' = NoWindow
    /\ UNCHANGED <<disk, asked, scope, mode, health, tasks, panel, lookups, line>>

\* "c" on the list of jobs.
OpenEdit ==
    /\ "wizard" \in scope
    /\ MainKeys
    /\ screen' = "setup"
    /\ setup' = NewSetup(disk, "edit", "none")
    /\ UNCHANGED <<disk, asked, fetching, review, checking, line>> /\ UNCHANGED listVars

\* "r" on the list of jobs; one fetch at a time.
StartFetch ==
    /\ "fetch" \in scope
    /\ MainKeys
    /\ ~fetching
    /\ fetching' = TRUE
    /\ UNCHANGED wizard /\ UNCHANGED listVars
    /\ UNCHANGED <<review, checking, line>>

\* ":fetch", refused while a fetch runs.
StartFetchCommand ==
    /\ FetchCommand
    /\ ~fetching
    /\ fetching' = TRUE
    /\ UNCHANGED <<review, checking>>

\* handleFetchJobsMsg: a failure leaves an unanswered review as it is.
FetchEnds ==
    /\ fetching
    /\ fetching' = FALSE
    /\ review' \in BOOLEAN
    /\ Notice
    /\ UNCHANGED <<list, checking>>

\* The rows with these jobs added to them, as the list shows them.
Grown(new) ==
    Applied([list EXCEPT !.rows = @ \o SetToSeq(
                {[job |-> job, status |-> "Unopened"] : job \in new})])

\* Jobs are told from the rows of the list by their keys.
Unlisted == {job \in Jobs : Places(job) = {}}

\* Enter on the preview; it may have found no job that is new.
AcceptPreview ==
    /\ PreviewEnter
    /\ IF screen' = "setup" THEN list' = list
       ELSE \E new \in IF setup.preview = {} THEN {{}} ELSE SUBSET (Unlisted \cap Previewed) :
               list' = IF new = {} THEN list ELSE Grown(new)
    /\ UNCHANGED <<scope, mode, health, window, tasks, panel, lookups>>
    /\ UNCHANGED <<line, fetching, review, checking>>

\* Enter and esc on any notice answer the review that is pending, if one is.
\* An accepted review whose jobs cannot be saved is gone.
AcceptReview ==
    /\ screen = "notice"
    /\ review
    /\ review' = FALSE
    /\ window' = NoWindow
    /\ setup' = Closed
    /\ \/ /\ screen' = "none"
          /\ \E new \in SUBSET {job \in Unlisted : "rows" \in scope} : list' = Grown(new)
       \/ screen' = "notice" /\ list' = list
    /\ UNCHANGED <<disk, asked, fetching, scope, mode, health, tasks, panel,
                   lookups, line, checking>>

DismissNotice ==
    /\ screen = "notice"
    /\ review' = FALSE
    /\ Goes("none")
    /\ window' = NoWindow
    /\ UNCHANGED <<fetching, checking, scope, list, mode, health, tasks, panel, lookups,
                   line>>

\* "V" on the list of jobs.
CheckPostings ==
    /\ "rows" \in scope
    /\ MainKeys
    /\ ~fetching /\ ~checking
    /\ list.rows # <<>>
    /\ IF \E i \in DOMAIN list.rows : list.rows[i].status \in {"Unopened", "Viewed"}
       THEN checking' = TRUE /\ SameScreen /\ window' = window
       ELSE checking' = checking /\ Goes("notice") /\ window' = NoWindow
    /\ UNCHANGED <<scope, list, mode, health, tasks, panel, lookups, line, fetching, review>>

\* Its answer is dropped if another task or a bulk refresh has taken the slot.
CheckEnds ==
    /\ checking
    /\ checking' = FALSE
    /\ PostingsChecked \/ (SameScreen /\ UNCHANGED listVars)
    /\ UNCHANGED <<line, fetching, review>>

\* The program is left, or a key indexes a row that is not there.  The filter
\* of a start is one that was saved at any time before.
Reboot ==
    /\ "wizard" \in scope \/ Panic
    /\ Restart
    /\ mode' = "keys" /\ line' = NoCommand
    /\ window' = NoWindow /\ tasks' = <<>> /\ lookups' = {}
    /\ panel' = [expanded |-> FALSE, animating |-> FALSE]
    /\ fetching' = FALSE /\ review' = FALSE /\ checking' = FALSE
    /\ \E saved \in SUBSET Range(Statuses) :
          /\ saved # {} => "rows" \in scope /\ list.rows # <<>>
          /\ list' = Loaded(list.rows, saved, health)
    /\ UNCHANGED <<scope, health>>

Wizard == WizardNext /\ UNCHANGED listVars /\ UNCHANGED <<line, fetching, review, checking>>

List ==
    /\ \/ Move \/ Wheel \/ Sort \/ MarkViewed \/ Delete \/ JobEdited
       \/ OpenStatusMenu \/ StatusChosen \/ CloseOverlay
       \/ OpenFilterMenu \/ ToggleFilter \/ SaveFilters
       \/ OpenSearch \/ Search \/ EndSearch \/ OpenDetails \/ NextDetails
       \/ RowEnriched
    /\ UNCHANGED <<line, fetching, review, checking>>

HealthOfCompanies ==
    /\ \/ CheckRow \/ RefreshWindow \/ CloseWindow \/ TogglePanel \/ PanelMoved
       \/ Minimize \/ TaskAnswers \/ LookupAnswers
    /\ UNCHANGED <<line, fetching, review, checking>>

Commands ==
    \/ /\ \/ OpenCommand \/ Type \/ Tab \/ Space \/ LeaveCommand
          \/ NothingStarted(fetching) \/ HealthCommand
       /\ UNCHANGED <<fetching, review, checking>>
    \/ StartFetchCommand

Next ==
    \/ Wizard \/ AcceptPreview \/ List \/ HealthOfCompanies \/ Commands
    \/ OpenEdit \/ StartFetch \/ FetchEnds \/ AcceptReview \/ DismissNotice \/ CheckPostings \/ CheckEnds \/ Reboot

\* Commands run on goroutines of their own and end by their timeouts (15 s,
\* 60 s, 300 s); the event loop takes every message.  The user owes nothing.
FairSpec ==
    /\ Init /\ [][Next]_vars
    /\ WF_vars(ResumeArrives /\ UNCHANGED <<listVars, line, fetching, review, checking>>)
    /\ WF_vars(PreviewArrives /\ UNCHANGED <<listVars, line, fetching, review, checking>>)

-----------------------------------------------------------------------------
(* Properties.                                                             *)

\* The keys index the options of their step without a look at the length
\* (options[m.setup.choiceIdx]); lists of models change length under the
\* cursor when they arrive, and steps are left and entered in many ways.  The rest of
\* the state is of its type.
IndexInRange ==
    /\ TypeOK
    /\ screen = "setup" /\ Listing(setup) => setup.idx < OptionCount(setup)

\* The steps on which the form and the prompt are saved.
Confirming == {"summary", "prompt_review"}

\* The preview that is shown and accepted is one of the criteria that were saved
\* last: an answer to an earlier request never takes its place.  What is saved from
\* the summary and the prompt is the form as it is, never something generated before
\* it was edited again or read from a resume since.  Any other save may still change
\* the criteria, against SavedCriteriaStay, but only back to what they were when the
\* wizard opened.
WizardSavesWhatItShows ==
    /\ [](screen = "setup" /\ setup.preview # {} => setup.preview = {disk.config.criteria})
    /\ [][disk'.config.criteria # disk.config.criteria =>
             disk'.config.criteria = IF setup.step \in Confirming THEN setup.fields
                                     ELSE setup.config.criteria]_vars

\* "Saved your criteria. Finish LLM auth here, or choose 'No' in LLM settings to
\* continue without LLM." (setup_keys.go:823): in a wizard of "c" this No leaves the
\* saved criteria as they are.
SavedCriteriaStay ==
    [][ToggleLLM /\ setup.useLLM /\ setup.mode = "edit" =>
           disk'.config.criteria = disk.config.criteria]_vars

\* The list shows the rows as they are now, those that match and no other,
\* whichever key or message changed a row, its status, the filter or the
\* search last, as long as rows can be saved.
ShownIsCurrent ==
    Range(list.shown) = {row \in Range(list.rows) : Matches(list, row)}

\* A flag that tab writes behind a command that runs makes a command that runs,
\* once its value follows: it is none that the command does not know, that may
\* not come a second time, or that would be taken for the value of another.
CompletionsRun ==
    LET base == Base(line.typed)
        words == line.text.words
    IN  Cycling /\ Len(base) > 1 /\ base[1].text # "debug" /\ Runs(base) =>
            Runs(words) \/ Runs(Append(words, Plain("name")))

\* "h" in a health window refreshes the company it displays.
WindowRefreshesShown ==
    screen = "health" /\ ~window.loading /\ window.report # {} =>
        RefreshTarget \subseteq window.report

\* Keys that wait for a resume or a preview are heard again in the end.
WizardListens == []<>(screen = "setup" => setup.busy = {})
=============================================================================
