---------------------------- MODULE HealthWindow ----------------------------
(***************************************************************************)
(* The window on the health of a company, and the lookups of single        *)
(* companies behind it (update_keys.go, update_health_msgs.go,             *)
(* health_background.go, loading_indicator.go, update_loading.go).         *)
(*                                                                         *)
(* A lookup is asked for with "h" on a row, with "h" in the window, or with *)
(* the command ":health".  Answers come later, in any order, and are shown *)
(* or only remembered by what is on the screen when they come; the window  *)
(* does not know which lookup it waits for.                                *)
(***************************************************************************)
EXTENDS JobList

Running(t) == DOMAIN t # {}

\* "h" on a row, or in a window that shows the selected row's company; nothing
\* is asked twice.  Without a popup the panel of the lookups is closed.
StartTask(job, popup) ==
    IF job \in DOMAIN tasks THEN UNCHANGED <<tasks, panel, screen, window>>
    ELSE /\ tasks' = [j \in {job} \cup DOMAIN tasks |->
                        IF j # job THEN tasks[j] ELSE IF popup THEN "foreground" ELSE "background"]
         /\ IF popup
            THEN /\ panel' = [expanded |-> TRUE, animating |-> FALSE]
                 /\ screen' = "none" /\ window' = NoWindow
            ELSE /\ panel' = [panel EXCEPT !.expanded = FALSE]
                 /\ UNCHANGED <<screen, window>>

\* openHealthOverlay, openCompanyHealthIdentityOverlay
Show(report) ==
    /\ screen' = "health"
    /\ window' = [NoWindow EXCEPT !.report = report]

Await(company) ==
    /\ screen' = "health"
    /\ window' = [NoWindow EXCEPT !.loading = TRUE, !.refresh = {company}]
    /\ lookups' = lookups \cup {company}

MayAsk(company) == company \notin lookups /\ Cardinality(lookups) < MaxLookups

\* "h" on a row.
CheckRow ==
    /\ "health" \in scope
    /\ OnRow
    /\ LET job == Selected.job
           popup == screen = "none" /\ (~Running(tasks) \/ panel.expanded)
       IN  IF health[job] # 0 THEN Show({job}) /\ UNCHANGED <<tasks, panel>>
           ELSE StartTask(job, popup)
    /\ UNCHANGED <<disk, setup, asked, scope, list, mode, health, lookups>>

InWindow == mode = "keys" /\ screen = "health" /\ ~window.minimized

\* healthOverlayRefreshIdentity: whom "h" in the window looks up, unless it is
\* the company of the selected row.
RefreshTarget ==
    IF window.refresh # {} THEN window.refresh
    ELSE {c \in window.report : ~InRange(list) \/ Selected.job # c}

\* "h" in the window; what is known of the company is forgotten first.
RefreshWindow ==
    /\ InWindow
    /\ \/ \E company \in RefreshTarget :
             /\ MayAsk(company)
             /\ health' = [health EXCEPT ![company] = 0]
             /\ Await(company)
             /\ UNCHANGED <<tasks, panel>>
       \/ /\ RefreshTarget = {}
          /\ InRange(list)
          /\ health' = [health EXCEPT ![Selected.job] = 0]
          /\ StartTask(Selected.job, TRUE)
          /\ UNCHANGED lookups
    /\ UNCHANGED <<disk, setup, asked, scope, list, mode>>

\* enter and esc.
CloseWindow ==
    /\ InWindow
    /\ Goes("none")
    /\ window' = NoWindow
    /\ panel' = IF window.loading /\ Running(tasks)
                THEN [expanded |-> FALSE, animating |-> FALSE] ELSE panel
    /\ UNCHANGED <<scope, list, mode, health, tasks, lookups>>

\* "t" and the ticks of the animation, in which panels that move to opposite
\* sides at the same time pull at each other.
TurnsPanel == screen = "health" /\ window.minimized

TogglePanel ==
    /\ "health" \in scope
    /\ Running(tasks) /\ ~panel.animating
    /\ screen \notin {"setup"}
    /\ TurnsPanel \/ ~(screen = "health" /\ window.loading)
    /\ panel' = [panel EXCEPT !.animating = TRUE]
    /\ SameScreen
    /\ UNCHANGED <<scope, list, mode, health, window, tasks, lookups>>

PanelMoved ==
    /\ Running(tasks) /\ panel.animating
    /\ panel' \in [expanded: BOOLEAN, animating: {FALSE}]
    /\ SameScreen
    /\ UNCHANGED <<scope, list, mode, health, window, tasks, lookups>>

Minimize ==
    /\ screen = "health" /\ window.loading
    /\ ~(window.minimized /\ Running(tasks) /\ ~panel.animating)
    /\ window' = [window EXCEPT !.minimized = ~@]
    /\ SameScreen
    /\ UNCHANGED <<scope, list, mode, health, tasks, panel, lookups>>

-----------------------------------------------------------------------------
(* Answers.                                                                *)

\* A lookup finds a score, or fails.
Scores == 0..MaxScore

Found(company, score) ==
    health' = IF score = 0 THEN health ELSE [health EXCEPT ![company] = score]

\* The answer is only remembered, and the list sorted again.
Remembered ==
    /\ list' = AppliedWith(list, health')
    /\ UNCHANGED <<disk, setup, asked>>
    /\ IF ~Running(tasks') /\ screen = "health" /\ window.minimized
       THEN screen' = "none" /\ window' = NoWindow
       ELSE UNCHANGED <<screen, window>>

\* It takes the screen, from whatever is there; a failure leaves the report.
Shown(company, score) ==
    /\ window' = [window EXCEPT !.loading = FALSE, !.minimized = FALSE,
                                !.report = IF score = 0 THEN @ ELSE {company}]
    /\ CloseWizard("health")
    /\ UNCHANGED <<disk, asked, list>>

TaskAnswers ==
    \E job \in DOMAIN tasks, score \in Scores :
        /\ Found(job, score)
        /\ tasks' = [t \in DOMAIN tasks \ {job} |-> tasks[t]]
        /\ IF \/ tasks[job] = "background"
              \/ ~panel.expanded \/ panel.animating \/ Running(tasks')
              \/ (screen = "health" /\ window.minimized)
           THEN Remembered ELSE Shown(job, score)
        /\ UNCHANGED <<scope, mode, panel, lookups>>

LookupAnswers ==
    \E company \in lookups, score \in Scores :
        /\ Found(company, score)
        /\ lookups' = lookups \ {company}
        /\ tasks' = tasks
        /\ IF screen = "health" /\ window.minimized
           THEN Remembered ELSE Shown(company, score)
        /\ UNCHANGED <<scope, mode, panel>>
=============================================================================
