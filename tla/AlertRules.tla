---------------------------- MODULE AlertRules -----------------------------
(***************************************************************************)
(* The desktop's data file and the alert rules in it (alert-engine.ts,     *)
(* store.ts, and the IPC calls that edit rules and settings).              *)
(*                                                                         *)
(* appData is one JavaScript object that IPC calls change in place and     *)
(* save.  An evaluation holds on to the object, and to the rule objects,   *)
(* it found when it began; it waits while messages are sent and then       *)
(* replaces appData by a copy of the object it holds.  An evaluation whose *)
(* object was replaced meanwhile has it "frozen": nobody else changes it   *)
(* any more.  A rule object is the pair of a rule and a version, and an    *)
(* edit makes a new version; the counters that the application keeps in a  *)
(* rule object are apart.                                                  *)
(*                                                                         *)
(* Project links and AWS accounts ("links") are in the same file, but      *)
(* their IPC calls (ipc-handlers-devops.ts, aws-ipc.ts) load the file,     *)
(* change it and save it, and never touch appData.                         *)
(***************************************************************************)
EXTENDS Naturals, FiniteSets, FiniteSetsExt

CONSTANTS
  RuleCount,          \* rules are numbered in the order of the list
  ConnectionRules,    \* those with metric connection_lost
  RequiredBreaches,   \* ceil(durationSeconds / 5)
  Evaluation,         \* evaluations that may be under way at once
  MaxVersions,        \* bound: versions of a rule
  MaxEdits,           \* bound: IPC calls that edit data
  MaxLinks,           \* bound: changes of project links and AWS accounts
  MaxSamples          \* bound: evaluations begun, and cooldowns that end

RuleId == 1..RuleCount

ASSUME AlertAssumption ==
  /\ RuleCount \in Nat /\ ConnectionRules \subseteq 1..RuleCount
  /\ RequiredBreaches \in Nat \ {0} /\ IsFiniteSet(Evaluation)
  /\ MaxVersions \in Nat \ {0} /\ MaxEdits \in Nat /\ MaxSamples \in Nat
  /\ MaxLinks \in Nat

VARIABLES
  appData,            \* the rules (their versions, 0 for none), the settings
                      \* and the version of the links
  file,               \* monitc-data.json
  versions,           \* versions of each rule made so far
  breaches, recent,   \* rule.consecutiveBreaches, and whether its cooldown runs
  evaluating,         \* what each evaluation holds, or Idle
  intended,           \* history: the rules (their versions), settings and links the
                      \* user left, and whether a reset was the last that touched rules
  exposed,            \* history: rules last edited while an evaluation held them
  overlapped,         \* history: an evaluation met another one, or a reset
  overwritten,        \* history: appData was saved over newer links
  dataEdits, samples  \* bounds used up

ruleVars == <<versions, breaches, recent>>
alertRuleVars == <<appData, file, ruleVars, evaluating, intended, exposed, overlapped, overwritten, dataEdits, samples>>

Idle == [next |-> 0]
Contents == [rules : [RuleId -> 0..MaxVersions], settings : 0..MaxEdits, links : 0..MaxLinks]
Present(d) == {r \in RuleId : d.rules[r] # 0}
Empty == [rules |-> [r \in RuleId |-> 0], settings |-> 0, links |-> 0]
Busy == {v \in Evaluation : evaluating[v] # Idle}
HeldRules == {r \in RuleId : \E v \in Busy : evaluating[v].held[r] # 0}

AlertRulesTypeOK ==
  /\ appData \in Contents /\ file \in Contents
  /\ versions \in [RuleId -> 0..MaxVersions]
  /\ breaches \in [RuleId \X (1..MaxVersions) -> 0..RequiredBreaches]
  /\ recent \subseteq RuleId \X (1..MaxVersions)
  /\ \A v \in Busy : evaluating[v].data \in Contents /\ evaluating[v].held \in [RuleId -> 0..MaxVersions]
  /\ exposed \subseteq RuleId /\ dataEdits \in 0..MaxEdits /\ samples \in 0..MaxSamples

(* DEFAULT_DATA has no rules; the first one has been added.                *)
AlertRulesInit ==
  /\ appData = [rules |-> [r \in RuleId |-> 1], settings |-> 0, links |-> 0]
  /\ file = appData
  /\ versions = [r \in RuleId |-> 1]
  /\ breaches = [o \in RuleId \X (1..MaxVersions) |-> 0] /\ recent = {}
  /\ evaluating = [v \in Evaluation |-> Idle]
  /\ intended = [rules |-> appData.rules, settings |-> 0, links |-> 0, reset |-> FALSE]
  /\ exposed = {} /\ overlapped = FALSE /\ overwritten = FALSE
  /\ dataEdits = 0 /\ samples = 0

-----------------------------------------------------------------------------
(* saveData writes a temporary file and renames it, so the file holds one  *)
(* whole version of the data.                                              *)
Save(d) ==
  /\ appData' = d /\ file' = d
  /\ overwritten' = (overwritten \/ d.links # file.links)

(* Another object takes appData's place: evaluations that hold the old one *)
(* keep its contents.                                                      *)
Freeze(v) == IF evaluating[v] # Idle /\ evaluating[v].live
             THEN [evaluating[v] EXCEPT !.live = FALSE, !.data = appData]
             ELSE evaluating[v]

(* Mutant: the evaluation copies the data when it begins.                  *)
HeldCopied(e) == e.data

(* The contents of the object an evaluation holds.                         *)
Held(e) == IF e.live THEN appData ELSE e.data

(* persistRules: appData becomes a copy of the held object in which the    *)
(* held rule objects take the places of the rules with the same id.        *)
Persist(v, e) ==
  LET d == Held(e)
      rules == [r \in RuleId |-> IF d.rules[r] # 0 /\ e.held[r] # 0 THEN e.held[r] ELSE d.rules[r]]
  IN  /\ Save([d EXCEPT !.rules = rules])
      /\ evaluating' = [w \in Evaluation |-> IF w = v THEN Idle ELSE Freeze(w)]

(* One round of evaluate's loop, up to the first rule that fires or to the *)
(* end.  A rule fires when its breaches suffice and its cooldown is over;  *)
(* both are changed before the loop waits for the messages to be sent.     *)
Loop(v, e) ==
  LET Object(r) == <<r, e.held[r]>>
      todo == {r \in RuleId : r >= e.next /\ e.held[r] # 0}
      Fires(r) == r \in e.breached /\ breaches[Object(r)] + 1 >= RequiredBreaches
                  /\ Object(r) \notin recent
      firing == {r \in todo : Fires(r)}
      last == IF firing = {} THEN RuleCount ELSE Min(firing)
      done == {r \in todo : r <= last}
  IN  /\ breaches' = [o \in DOMAIN breaches |->
            IF o \notin {Object(r) : r \in done} THEN breaches[o]
            ELSE IF o[1] \in e.breached THEN Min({breaches[o] + 1, RequiredBreaches}) ELSE 0]
      /\ IF firing = {}
         THEN Persist(v, e) /\ UNCHANGED recent
         ELSE /\ recent' = recent \cup {Object(last)}
              /\ evaluating' = [evaluating EXCEPT ![v] = [e EXCEPT !.next = last + 1]]
              /\ UNCHANGED <<appData, file, overwritten>>

Begin(v, held, breached) ==
  [next |-> 1, live |-> TRUE, data |-> appData, held |-> held, breached |-> breached]

(* evaluate: a sample breaches some thresholds.  Without a rule to look at *)
(* it returns at once.                                                     *)
Evaluate(v, breached) ==
  LET held == [r \in RuleId |-> IF r \in ConnectionRules THEN 0 ELSE appData.rules[r]]
  IN  /\ evaluating[v] = Idle /\ samples < MaxSamples
      /\ \E r \in RuleId : held[r] # 0
      /\ Loop(v, Begin(v, held, breached))
      /\ samples' = samples + 1
      /\ overlapped' = (overlapped \/ Busy # {})
      /\ UNCHANGED <<versions, intended, exposed, dataEdits>>

(* dispatch has sent the messages of a rule; errors are only logged.       *)
Dispatched(v) ==
  /\ evaluating[v] # Idle
  /\ Loop(v, evaluating[v])
  /\ UNCHANGED <<versions, intended, exposed, overlapped, dataEdits, samples>>

(* fireConnectionAlertIfStillDown, from the check of the cooldown to the   *)
(* await; what follows is Dispatched, which persists this rule only.       *)
ConnectionAlert(v, r) ==
  LET object == <<r, appData.rules[r]>>
  IN  /\ evaluating[v] = Idle /\ samples < MaxSamples
      /\ r \in ConnectionRules \cap Present(appData) /\ object \notin recent
      /\ recent' = recent \cup {object} /\ breaches' = [breaches EXCEPT ![object] = 1]
      /\ evaluating' = [evaluating EXCEPT ![v] =
            [Begin(v, [q \in RuleId |-> IF q = r THEN object[2] ELSE 0], {})
               EXCEPT !.next = RuleCount + 1]]
      /\ samples' = samples + 1
      /\ overlapped' = (overlapped \/ Busy # {})
      /\ UNCHANGED <<appData, file, overwritten, versions, intended, exposed, dataEdits>>

(* resetConnectionRules persists without waiting, if a counter was set.    *)
ResetConnectionRules(v) ==
  LET present == ConnectionRules \cap Present(appData)
      changed == {r \in present : breaches[<<r, appData.rules[r]>>] # 0}
  IN  /\ evaluating[v] = Idle /\ changed # {}
      /\ breaches' = [o \in DOMAIN breaches |->
            IF o \in {<<r, appData.rules[r]>> : r \in changed} THEN 0 ELSE breaches[o]]
      /\ Persist(v, Begin(v, [r \in RuleId |-> IF r \in present THEN appData.rules[r] ELSE 0], {}))
      /\ overlapped' = (overlapped \/ Busy # {})
      /\ UNCHANGED <<versions, recent, intended, exposed, dataEdits, samples>>

CooldownEnds(o) ==
  /\ o \in recent /\ samples < MaxSamples
  /\ recent' = recent \ {o} /\ samples' = samples + 1
  /\ UNCHANGED <<appData, file, overwritten, versions, breaches, evaluating, intended, exposed, overlapped, dataEdits>>

-----------------------------------------------------------------------------
(* IPC calls.                                                              *)

(* The user leaves these rules, some of them changed.                      *)
Edit(d, rules) ==
  /\ dataEdits < MaxEdits /\ dataEdits' = dataEdits + 1
  /\ Save(d)
  /\ intended' = [intended EXCEPT !.rules = rules, !.settings = d.settings,
                                   !.reset = @ /\ \A r \in RuleId : rules[r] = 0]
  /\ exposed' = {r \in RuleId : r \in IF rules[r] = intended.rules[r] THEN exposed ELSE HeldRules}
  /\ UNCHANGED <<overlapped, samples>>

NewVersion(r) == versions[r] < MaxVersions /\ versions' = [versions EXCEPT ![r] = @ + 1]

(* alerts:add.  The rule has an id of its own, which nothing holds.        *)
AddRule(r) ==
  /\ r \notin Present(appData) \cup HeldRules /\ NewVersion(r)
  /\ Edit([appData EXCEPT !.rules[r] = versions'[r]], [intended.rules EXCEPT ![r] = versions'[r]])
  /\ UNCHANGED <<breaches, recent, evaluating>>

(* alerts:update stores the object the interface sends, which carries the  *)
(* counters it was shown, old or new.                                      *)
UpdateRule(r, cools) ==
  /\ r \in Present(appData) /\ NewVersion(r)
  /\ cools => <<r, appData.rules[r]>> \in recent
  /\ Edit([appData EXCEPT !.rules[r] = versions'[r]], [intended.rules EXCEPT ![r] = versions'[r]])
  /\ recent' = IF cools THEN recent \cup {<<r, versions'[r]>>} ELSE recent
  /\ breaches' = [breaches EXCEPT ![<<r, versions'[r]>>] =
                      IF cools THEN breaches[<<r, appData.rules[r]>>] ELSE 0]
  /\ UNCHANGED evaluating

(* alerts:remove                                                           *)
RemoveRule(r) ==
  /\ r \in Present(appData)
  /\ Edit([appData EXCEPT !.rules[r] = 0], [intended.rules EXCEPT ![r] = 0])
  /\ UNCHANGED <<ruleVars, evaluating>>

(* settings:save, preferences:save and servers:remove each assign a field  *)
(* of appData.                                                             *)
SaveSettings ==
  /\ Edit([appData EXCEPT !.settings = @ + 1], intended.rules)
  /\ UNCHANGED <<ruleVars, evaluating>>

(* projects:add, :update, :remove and the aws:accounts calls.              *)
SaveLinks ==
  /\ intended.links < MaxLinks
  /\ file' = [file EXCEPT !.links = intended.links + 1]
  /\ intended' = [intended EXCEPT !.links = @ + 1]
  /\ UNCHANGED <<appData, ruleVars, evaluating, exposed, overlapped, overwritten, dataEdits, samples>>

(* app:reset saves the defaults and loads them as a new object.            *)
ResetData ==
  /\ Present(appData) # {}
  /\ dataEdits < MaxEdits /\ dataEdits' = dataEdits + 1
  /\ Save(Empty)
  /\ intended' = [rules |-> Empty.rules, settings |-> 0, links |-> 0, reset |-> TRUE]
  /\ exposed' = {}
  /\ evaluating' = [v \in Evaluation |-> Freeze(v)]
  /\ overlapped' = (overlapped \/ Busy # {})
  /\ UNCHANGED <<ruleVars, samples>>

(* The application ends at any point and loads the file when it starts;    *)
(* alerts whose evaluation has not persisted are forgotten.                *)
Restart ==
  /\ Busy # {}
  /\ appData' = file /\ evaluating' = [v \in Evaluation |-> Idle]
  /\ recent' = recent \ UNION {{<<r, evaluating[v].held[r]>> : r \in RuleId} : v \in Busy}
  /\ UNCHANGED <<file, overwritten, versions, breaches, intended, exposed, overlapped, dataEdits, samples>>

AlertRulesNext ==
  \/ \E v \in Evaluation :
       \/ \E breached \in SUBSET (RuleId \ ConnectionRules) : Evaluate(v, breached)
       \/ Dispatched(v) \/ ResetConnectionRules(v)
       \/ \E r \in RuleId : ConnectionAlert(v, r)
  \/ \E o \in recent : CooldownEnds(o)
  \/ \E r \in RuleId : AddRule(r) \/ RemoveRule(r) \/ \E cools \in BOOLEAN : UpdateRule(r, cools)
  \/ SaveSettings \/ SaveLinks \/ ResetData \/ Restart

AlertRulesSpec == AlertRulesInit /\ [][AlertRulesNext]_alertRuleVars

-----------------------------------------------------------------------------
(* Properties.                                                             *)

(* Unless an evaluation met another one or a reset, what the user has set  *)
(* is there: messages that take long to send lose no setting, bring back   *)
(* no rule and drop none (alert-engine.ts:86-91, 155-156).  A rule has the *)
(* contents it was last given, unless it was edited while an evaluation    *)
(* that holds it was waiting: that edit is lost, for the old object is put *)
(* back over it (alert-engine.ts:190-196).  The file holds the same, so    *)
(* that a restart changes nothing; project links and AWS accounts are in   *)
(* it until appData, which does not have them, is saved over it            *)
(* (store.ts:66-72, ipc-handlers-devops.ts:23-29).                         *)
EditsSurviveDispatch ==
  /\ ~overlapped =>
       /\ Present(appData) = Present(intended) /\ appData.settings = intended.settings
       /\ \A r \in Present(appData) \ exposed : appData.rules[r] = intended.rules[r]
  /\ file.rules = appData.rules /\ file.settings = appData.settings
  /\ ~overwritten => file.links = intended.links

(* "All data will be deleted and the app will reset to factory defaults.   *)
(* This cannot be undone." (en.json:425): after a reset only what the user *)
(* adds is there.                                                          *)
ResetIsFinal == intended.reset => Present(appData) = {}
=============================================================================
