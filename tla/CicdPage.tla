-------------------------------- MODULE CicdPage --------------------------------
(***************************************************************************)
(* The CI/CD page of the desktop application (CICDPage.tsx): the           *)
(* repositories of GitHub and the projects of GitLab, the runs of the one  *)
(* selected and the jobs of a run.  The handlers it calls (github:* and    *)
(* gitlab:* of ipc-handlers-devops.ts, over ci/github-client.ts and        *)
(* ci/gitlab-client.ts) answer every failure with success: false, of which *)
(* the page makes an empty list.                                           *)
(*                                                                         *)
(* One flag stands for the listing of repositories and for the runs of     *)
(* one.  A list is modelled by what it was read from.                      *)
(***************************************************************************)
EXTENDS Integers, FiniteSets

CONSTANTS
    Repo,          \* repositories, or projects, of each provider
    MaxFetches,    \* bound: calls under way at once
    MaxClicks      \* bound: what the user does on the page before leaving it

ASSUME CicdAssumption == "" \notin Repo /\ MaxFetches \in Nat /\ MaxClicks \in Nat

VARIABLES
    cicdPage,     \* provider chosen; whether something is loading; the repository,
                  \* the workflow and the run selected; what runs and jobs were read from
    fetches,      \* calls under way
    reselects,       \* repositories that are selected again three seconds after a trigger
    clicks,       \* what the user did on the page
    crossed       \* history: a list was asked for while another was under way

cicdVars == <<cicdPage, fetches, reselects, clicks, crossed>>

Provider == {"github", "gitlab"}
Run == {1, 2}
NoJobs == [repo |-> "", run |-> 0]
EmptyHalf == [repo |-> "", workflow |-> FALSE, run |-> 0, runsOf |-> "", jobsOf |-> NoJobs, triggering |-> FALSE]

\* Each provider has its own half of the page, only one of which is shown.
Half(v) == cicdPage.halves[v]
Changed(v, h) == [cicdPage EXCEPT !.halves[v] = h]
Fetch(what, v, repo, run) == [what |-> what, provider |-> v, repo |-> repo, run |-> run]

Lists == {f \in fetches : f.what \in {"repos", "runs"}}
Cross == crossed' = (crossed \/ Lists # {})
Click == clicks < MaxClicks /\ clicks' = clicks + 1 /\ Cardinality(fetches) < MaxFetches

-----------------------------------------------------------------------------
(* The user.                                                                *)

\* Repositories are listed when a provider is chosen, and anew when asked for.
ListRepos(v) ==
    /\ Click /\ v = cicdPage.provider
    /\ cicdPage' = [cicdPage EXCEPT !.loading = TRUE]
    /\ fetches' = fetches \cup {Fetch("repos", v, "", 0)}
    /\ Cross
    /\ UNCHANGED reselects

\* The other provider: what was selected there is not any more, its lists stay.
ChooseProvider(v) ==
    /\ Click /\ v # cicdPage.provider
    /\ cicdPage' = [Changed(v, [Half(v) EXCEPT !.repo = "", !.run = 0]) EXCEPT !.provider = v, !.loading = TRUE]
    /\ fetches' = fetches \cup {Fetch("repos", v, "", 0)}
    /\ Cross
    /\ UNCHANGED reselects

\* selectRepo and selectProject.
Selected(v, r) ==
    [Changed(v, [Half(v) EXCEPT !.repo = r, !.run = 0, !.jobsOf = NoJobs]) EXCEPT !.loading = TRUE]

Select(v, r) ==
    /\ cicdPage' = Selected(v, r)
    /\ fetches' = fetches \cup {Fetch("runs", v, r, 0)}
    /\ Cross

SelectRepo(v, r) ==
    /\ Click /\ v = cicdPage.provider
    /\ Select(v, r)
    /\ UNCHANGED reselects

\* selectRun and selectPipeline: the jobs shown are kept until the answer.
SelectRun(v, run) ==
    /\ Click /\ v = cicdPage.provider /\ Half(v).repo # "" /\ Half(v).runsOf # "" /\ ~cicdPage.loading
    /\ cicdPage' = Changed(v, [Half(v) EXCEPT !.run = run])
    /\ fetches' = fetches \cup {Fetch("jobs", v, Half(v).repo, run)}
    /\ crossed' = (crossed \/ \E f \in fetches : f.what = "jobs")
    /\ UNCHANGED reselects

\* A workflow of the repository; it stays chosen when another repository is.
ChooseWorkflow ==
    /\ Click /\ cicdPage.provider = "github" /\ Half("github").repo # "" /\ Half("github").runsOf # ""
    /\ cicdPage' = Changed("github", [Half("github") EXCEPT !.workflow = TRUE])
    /\ UNCHANGED <<fetches, reselects, crossed>>

\* triggerWorkflow and triggerGlPipeline: one at a time.
Trigger(v) ==
    /\ Click /\ v = cicdPage.provider /\ Half(v).repo # ""
    /\ v = "github" => Half(v).workflow
    /\ ~Half(v).triggering
    /\ cicdPage' = Changed(v, [Half(v) EXCEPT !.triggering = TRUE])
    /\ fetches' = fetches \cup {Fetch("trigger", v, Half(v).repo, 0)}
    /\ UNCHANGED <<reselects, crossed>>

-----------------------------------------------------------------------------
(* Answers.                                                                 *)

ReposAnswered(f) ==
    /\ f \in fetches /\ f.what = "repos"
    /\ fetches' = fetches \ {f}
    /\ cicdPage' = [cicdPage EXCEPT !.loading = FALSE]
    /\ UNCHANGED <<reselects, clicks, crossed>>

RunsAnswered(f) ==
    /\ f \in fetches /\ f.what = "runs"
    /\ fetches' = fetches \ {f}
    /\ cicdPage' = [Changed(f.provider, [Half(f.provider) EXCEPT !.runsOf = f.repo]) EXCEPT !.loading = FALSE]
    /\ UNCHANGED <<reselects, clicks, crossed>>

JobsAnswered(f) ==
    /\ f \in fetches /\ f.what = "jobs"
    /\ fetches' = fetches \ {f}
    /\ cicdPage' = Changed(f.provider, [Half(f.provider) EXCEPT !.jobsOf = [repo |-> f.repo, run |-> f.run]])
    /\ UNCHANGED <<reselects, clicks, crossed>>

\* A trigger that succeeded selects its repository again, three seconds later.
TriggerAnswered(f, success) ==
    /\ f \in fetches /\ f.what = "trigger"
    /\ fetches' = fetches \ {f}
    /\ cicdPage' = Changed(f.provider, [Half(f.provider) EXCEPT !.triggering = FALSE])
    /\ reselects' = reselects \cup IF success THEN {[provider |-> f.provider, repo |-> f.repo]} ELSE {}
    /\ UNCHANGED <<clicks, crossed>>

\* Wherever the user is by then.
TimerFires(t) ==
    /\ t \in reselects /\ Cardinality(fetches) < MaxFetches
    /\ reselects' = reselects \ {t}
    /\ Select(t.provider, t.repo)
    /\ UNCHANGED clicks

-----------------------------------------------------------------------------
\* The page is opened: nothing asked for before comes back to it.
Opened == [provider |-> "github", loading |-> TRUE, halves |-> [v \in Provider |-> EmptyHalf]]

OpenCicdPage ==
    /\ cicdPage' = Opened /\ fetches' = {Fetch("repos", "github", "", 0)}
    /\ reselects' = {} /\ clicks' = 0 /\ crossed' = FALSE

CicdInit ==
    /\ cicdPage = Opened /\ fetches = {Fetch("repos", "github", "", 0)}
    /\ reselects = {} /\ clicks = 0 /\ crossed = FALSE

CicdNext ==
    \/ \E v \in Provider : \/ ListRepos(v) \/ ChooseProvider(v) \/ Trigger(v)
                           \/ \E r \in Repo : SelectRepo(v, r)
                           \/ \E run \in Run : SelectRun(v, run)
    \/ ChooseWorkflow
    \/ \E f \in fetches : \/ ReposAnswered(f) \/ RunsAnswered(f) \/ JobsAnswered(f)
                          \/ \E success \in BOOLEAN : TriggerAnswered(f, success)
    \/ \E t \in reselects : TimerFires(t)
    \/ OpenCicdPage

CicdSpec == CicdInit /\ [][CicdNext]_cicdVars

-----------------------------------------------------------------------------
\* Page, calls and reselects stay within their types.
CicdTypeOK ==
    /\ cicdPage \in [provider : Provider, loading : BOOLEAN,
                     halves : [Provider -> [repo : Repo \cup {""}, workflow : BOOLEAN, run : Run \cup {0},
                                            runsOf : Repo \cup {""}, triggering : BOOLEAN,
                                            jobsOf : [repo : Repo \cup {""}, run : Run \cup {0}]]]]
    /\ fetches \subseteq [what : {"repos", "runs", "jobs", "trigger"}, provider : Provider,
                          repo : Repo \cup {""}, run : Run \cup {0}]
    /\ reselects \subseteq [provider : Provider, repo : Repo]
    /\ clicks \in 0..MaxClicks /\ crossed \in BOOLEAN

\* The runs a page shows are those of the repository selected, and its jobs, once
\* they are there, those of the run selected, whatever is triggered and selected
\* again by a timer.  Left out is a list asked for while another was under way: the
\* one answered first lowers the flag of both (CICDPage.tsx:121), the one answered
\* last is the one shown.
RunsAreOfTheRepo ==
    LET h == Half(cicdPage.provider)
    IN h.repo # "" /\ ~crossed =>
           /\ cicdPage.loading \/ h.runsOf = h.repo
           /\ h.run # 0 /\ (\A f \in fetches : f.what # "jobs") => h.jobsOf = [repo |-> h.repo, run |-> h.run]

\* The page's flags are up only while what lowers them is under way.
TriggersComeBack ==
    /\ cicdPage.loading => Lists # {}
    /\ \A v \in Provider : Half(v).triggering <=> \E f \in fetches : f.what = "trigger" /\ f.provider = v
=============================================================================
