------------------------------- MODULE DeployPage -------------------------------
(***************************************************************************)
(* The deployment page of the desktop application (DeployPage.tsx): the    *)
(* projects, the operations on the one selected and the wizard that adds   *)
(* one.  The handlers it calls (git:*, rollout:*, github:* and gitlab:* of *)
(* ipc-handlers-devops.ts, with the commands and clients they use) answer  *)
(* every failure with success: false, null or an empty list; those of the  *)
(* projects are modelled in SettingsFile.                                  *)
(*                                                                         *)
(* A project has a path on its server and may have a deployment.  What an  *)
(* answer says is modelled by the project it is about; names, branches and *)
(* images are left out.                                                    *)
(***************************************************************************)
EXTENDS Integers, FiniteSets

CONSTANTS
    Project,       \* projects there may be
    Deployed,      \* those that have a deployment
    MaxRunning,    \* bound: what the page waits for at once
    MaxPresses     \* bound: what the user does on the page before leaving it

ASSUME DeployAssumption ==
    Deployed \subseteq Project /\ "" \notin Project /\ MaxRunning \in Nat /\ MaxPresses \in Nat

VARIABLES
    projects,      \* projects saved
    deployPage,    \* projects listed, the one selected, and what is shown of which
    wizard,        \* the wizard
    waits,         \* what the page waits for
    presses,       \* what the user did on the page
    rushed         \* history: a project was selected or removed while the page waited

deployVars == <<projects, deployPage, wizard, waits, presses, rushed>>

GitHost == {"github", "gitlab"}
Step == <<"provider", "repo", "server", "details">>
EmptyPage == [listed |-> {}, selected |-> "", git |-> "", rollout |-> "", result |-> "", busy |-> FALSE]

\* The provider, whether a repository is chosen, and the step: they outlive the
\* wizard being closed.
NewWizard == [open |-> FALSE, step |-> 1, provider |-> "github", repo |-> FALSE, loading |-> FALSE]

Wait(what, project) == [what |-> what, project |-> project]
Listing == Wait("list", "")
Press == presses < MaxPresses /\ presses' = presses + 1
Spare == Cardinality(waits) < MaxRunning
AboutShown(w) == w.what \in {"git", "rollout", "operation", "remove", "remove selected"}
Rush == rushed' = (rushed \/ \E w \in waits : AboutShown(w))

-----------------------------------------------------------------------------
(* Projects.                                                                *)

\* loadProjects.
ProjectsListed ==
    /\ Listing \in waits
    /\ waits' = waits \ {Listing}
    /\ deployPage' = [deployPage EXCEPT !.listed = projects]
    /\ UNCHANGED <<projects, wizard, presses, rushed>>

\* What is shown of the project selected before is cleared.
ClearedShown(p) == [deployPage EXCEPT !.selected = p, !.git = "", !.rollout = "", !.result = ""]

\* selectProject: its last commit and status are asked for.
SelectProject(p) ==
    /\ Press
    /\ p \in deployPage.listed /\ Spare
    /\ deployPage' = ClearedShown(p)
    /\ waits' = waits \cup {Wait("git", p)}
    /\ Rush
    /\ UNCHANGED <<projects, wizard>>

\* They are shown (a commit only if there is one), then the rollout's status is asked for.
GitAnswered(p, found) ==
    /\ Wait("git", p) \in waits
    /\ deployPage' = IF found THEN [deployPage EXCEPT !.git = p] ELSE deployPage
    /\ waits' = (waits \ {Wait("git", p)}) \cup IF p \in Deployed THEN {Wait("rollout", p)} ELSE {}
    /\ UNCHANGED <<projects, wizard, presses, rushed>>

RolloutAnswered(p) ==
    /\ Wait("rollout", p) \in waits
    /\ deployPage' = [deployPage EXCEPT !.rollout = p]
    /\ waits' = waits \ {Wait("rollout", p)}
    /\ UNCHANGED <<projects, wizard, presses, rushed>>

\* deleteProject: it is deselected if it was selected when the button was pressed.
RemoveLink(p) ==
    /\ Press
    /\ p \in deployPage.listed /\ Spare
    /\ waits' = waits \cup {Wait(IF deployPage.selected = p THEN "remove selected" ELSE "remove", p)}
    /\ Rush
    /\ UNCHANGED <<projects, deployPage, wizard>>

LinkRemoved(w) ==
    /\ w \in waits /\ w.what \in {"remove", "remove selected"}
    /\ projects' = projects \ {w.project}
    /\ waits' = (waits \ {w}) \cup {Listing}
    /\ deployPage' = IF w.what = "remove" THEN deployPage ELSE [deployPage EXCEPT !.selected = ""]
    /\ UNCHANGED <<wizard, presses, rushed>>

-----------------------------------------------------------------------------
(* Operations: doPull, doRolloutRestart, doRolloutUndo, doScale, doSetImage    *)
(* and doCICD.  Their buttons are disabled while one is under way.             *)

StartOperation ==
    /\ Press
    /\ deployPage.selected # "" /\ ~deployPage.busy /\ Spare
    /\ deployPage' = [deployPage EXCEPT !.busy = TRUE, !.result = ""]
    /\ waits' = waits \cup {Wait("operation", deployPage.selected)}
    /\ UNCHANGED <<projects, wizard, rushed>>

\* doCICD of a project that names no workflow or repository to run.
NotConfigured ==
    /\ Press
    /\ deployPage.selected # "" /\ ~deployPage.busy
    /\ deployPage' = [deployPage EXCEPT !.result = deployPage.selected]
    /\ UNCHANGED <<projects, wizard, waits, rushed>>

\* The result is shown and the flag lowered, whether the operation succeeded or not.
Settled(p) == [deployPage EXCEPT !.busy = FALSE, !.result = p]

OperationEnds(p) ==
    /\ Wait("operation", p) \in waits
    /\ waits' = waits \ {Wait("operation", p)}
    /\ deployPage' = Settled(p)
    /\ UNCHANGED <<projects, wizard, presses, rushed>>

-----------------------------------------------------------------------------
(* The wizard.                                                              *)

StartWizard ==
    /\ Press
    /\ wizard' = [wizard EXCEPT !.open = TRUE, !.step = 1]
    /\ UNCHANGED <<projects, deployPage, waits, rushed>>

\* The cross; the back button of a first step does the same, of a later one goes back.
WizardBack(cross) ==
    /\ Press
    /\ wizard.open
    /\ wizard' = IF cross \/ wizard.step = 1 THEN [wizard EXCEPT !.open = FALSE]
                                             ELSE [wizard EXCEPT !.step = @ - 1]
    /\ UNCHANGED <<projects, deployPage, waits, rushed>>

ChooseGitHost(v) ==
    /\ Press
    /\ wizard.open /\ Step[wizard.step] = "provider"
    /\ wizard' = [wizard EXCEPT !.provider = v]
    /\ UNCHANGED <<projects, deployPage, waits, rushed>>

ChooseRepo ==
    /\ Press
    /\ wizard.open /\ Step[wizard.step] = "repo" /\ ~wizard.loading
    /\ wizard' = [wizard EXCEPT !.repo = TRUE]
    /\ UNCHANGED <<projects, deployPage, waits, rushed>>

\* wizardNext, of which the button is disabled while the wizard loads.
NextPressed(step) ==
    /\ wizard.open /\ ~wizard.loading /\ Step[wizard.step] = step
    /\ step = "repo" => wizard.repo

\* Repositories, and the workflows of a GitHub repository, are waited for.
NextLoads(step) ==
    /\ Press
    /\ NextPressed(step) /\ Spare
    /\ step = "provider" \/ (step = "repo" /\ wizard.provider = "github")
    /\ wizard' = [wizard EXCEPT !.loading = TRUE]
    /\ waits' = waits \cup {Wait(step, "")}
    /\ UNCHANGED <<projects, deployPage, rushed>>

NextStep(step) ==
    /\ Press
    /\ NextPressed(step)
    /\ step = "server" \/ (step = "repo" /\ wizard.provider = "gitlab")
    /\ wizard' = [wizard EXCEPT !.step = @ + 1]
    /\ UNCHANGED <<projects, deployPage, waits, rushed>>

\* The project is to be saved, as p; nothing keeps the button from being pressed again.
NextSaves(p) ==
    /\ Press
    /\ NextPressed("details") /\ wizard.repo /\ Spare
    /\ p \notin projects /\ Wait("add", p) \notin waits
    /\ waits' = waits \cup {Wait("add", p)}
    /\ UNCHANGED <<projects, deployPage, wizard, rushed>>

\* The answer moves the wizard on, wherever it is by then.
WizardAnswered(w) ==
    /\ w \in waits /\ w.what \in {"provider", "repo"}
    /\ waits' = waits \ {w}
    /\ wizard' = [wizard EXCEPT !.loading = FALSE, !.step = IF w.what = "provider" THEN 2 ELSE 3]
    /\ UNCHANGED <<projects, deployPage, presses, rushed>>

\* The project is saved; the wizard closes when the projects have been listed.
ProjectAdded(p) ==
    /\ Wait("add", p) \in waits
    /\ projects' = projects \cup {p}
    /\ waits' = (waits \ {Wait("add", p)}) \cup {Wait("added", "")}
    /\ UNCHANGED <<deployPage, wizard, presses, rushed>>

WizardDone ==
    /\ Wait("added", "") \in waits
    /\ waits' = waits \ {Wait("added", "")}
    /\ deployPage' = [deployPage EXCEPT !.listed = projects]
    /\ wizard' = [wizard EXCEPT !.open = FALSE, !.step = 1]
    /\ UNCHANGED <<projects, presses, rushed>>

\* Saving the projects fails: nothing changes, and the wizard stays where it is.
SaveFails(w) ==
    /\ w \in waits /\ w.what \in {"add", "remove", "remove selected"}
    /\ waits' = waits \ {w}
    /\ UNCHANGED <<projects, deployPage, wizard, presses, rushed>>

-----------------------------------------------------------------------------
\* The page is left, and nothing it waits for comes back to it; it is opened anew.
OpenDeployPage ==
    /\ deployPage' = EmptyPage /\ wizard' = NewWizard /\ waits' = {Listing}
    /\ presses' = 0 /\ rushed' = FALSE
    /\ UNCHANGED projects

DeployInit ==
    /\ projects \in SUBSET Project /\ deployPage = EmptyPage /\ wizard = NewWizard /\ waits = {Listing}
    /\ presses = 0 /\ rushed = FALSE

DeployNext ==
    \/ ProjectsListed
    \/ \E p \in Project : \/ SelectProject(p) \/ RolloutAnswered(p) \/ RemoveLink(p) \/ OperationEnds(p)
                          \/ NextSaves(p) \/ ProjectAdded(p)
                          \/ \E found \in BOOLEAN : GitAnswered(p, found)
    \/ \E w \in waits : LinkRemoved(w) \/ WizardAnswered(w) \/ SaveFails(w)
    \/ StartOperation \/ NotConfigured
    \/ StartWizard \/ ChooseRepo \/ WizardDone
    \/ \E step \in {"provider", "repo", "server"} : NextLoads(step) \/ NextStep(step)
    \/ \E cross \in BOOLEAN : WizardBack(cross)
    \/ \E v \in GitHost : ChooseGitHost(v)
    \/ OpenDeployPage

DeploySpec == DeployInit /\ [][DeployNext]_deployVars

-----------------------------------------------------------------------------
\* Projects, page, wizard and waits stay within their types.
DeployTypeOK ==
    /\ projects \subseteq Project /\ presses \in 0..MaxPresses /\ rushed \in BOOLEAN
    /\ deployPage \in [listed : SUBSET Project, selected : Project \cup {""}, git : Project \cup {""},
                       rollout : Project \cup {""}, result : Project \cup {""}, busy : BOOLEAN]
    /\ wizard \in [open : BOOLEAN, step : 1..4, provider : GitHost, repo : BOOLEAN, loading : BOOLEAN]
    /\ waits \subseteq [what : {"list", "git", "rollout", "remove", "remove selected", "operation",
                                "provider", "repo", "add", "added"}, project : Project \cup {""}]

\* What is shown of a project - its repository, its rollout and the result of the
\* last operation - is of the one that is selected, unless another was selected or
\* one removed while the page waited for an answer about a project.
ShownIsOfTheSelected ==
    deployPage.selected # "" =>
        {deployPage.git, deployPage.rollout, deployPage.result} \subseteq {"", deployPage.selected} \/ rushed

\* The flags that disable the buttons are up exactly while what lowers them is
\* under way, so that one operation runs at a time and none is locked out for good.
ButtonsComeBack ==
    /\ deployPage.busy <=> \E w \in waits : w.what = "operation"
    /\ wizard.loading <=> \E w \in waits : w.what \in {"provider", "repo"}
=============================================================================
