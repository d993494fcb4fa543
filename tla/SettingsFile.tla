------------------------------ MODULE SettingsFile ------------------------------
(***************************************************************************)
(* The desktop application's settings file (store/store.ts) and those who  *)
(* write it: the handlers of ipc-handlers.ts, which keep a copy in memory  *)
(* (appData) and save it whole, and those of ipc-handlers-devops.ts and    *)
(* aws-ipc.ts, which load the file, change their part and save it.  The    *)
(* AWS manager keeps the accounts it was told of and clients made for      *)
(* them (aws-manager.ts).                                                  *)
(*                                                                         *)
(* A handler runs without interruption.  What can go wrong is that saving  *)
(* fails (the file is written aside and then renamed, so it stays as it    *)
(* was), that the file cannot be read or parsed (a load then answers with  *)
(* the defaults, as if there were no file), and that the application       *)
(* stops.                                                                  *)
(***************************************************************************)
EXTENDS Integers

CONSTANTS
    ProjectLink,   \* project links
    Account,       \* ids of AWS accounts
    Credential,    \* what an account is saved with: keys and a region
    WrongRegion,   \* those of them whose region is not an AWS region
    Service,       \* AWS services a client is made for, "ec2" and "eks" among them
    MaxSettings    \* bound: changes of the settings ipc-handlers.ts keeps

ASSUME SettingsAssumption ==
    /\ WrongRegion \subseteq Credential /\ "none" \notin Credential
    /\ {"ec2", "eks"} \subseteq Service /\ MaxSettings \in Nat

VARIABLES
    settingsFile,  \* the file
    settings,      \* the copy in memory
    running,       \* the application runs
    changes,       \* changes of the settings so far
    misread,       \* a handler, or the copy in memory, took the defaults of a failed load
    registered,    \* the manager's accounts
    clients        \* the manager's clients: the credentials each was made with

awsVars == <<registered, clients>>
settingsVars == <<settingsFile, settings, running, changes, misread, awsVars>>

\* Servers, rules, integrations and preferences are the changes they were made by.
Settings == [own : SUBSET (1..MaxSettings), links : SUBSET ProjectLink, accounts : [Account -> Credential \cup {"none"}]]
DefaultData == [own |-> {}, links |-> {}, accounts |-> [a \in Account |-> "none"]]

NoClients == [s \in Service |-> "none"]
NoneRegistered == [a \in Account |-> "none"]

\* (The defaults over what the file says.)
DefaultsOver == {[settingsFile EXCEPT !.own = {}], DefaultData}

\* loadData: what the file says over the defaults, or the defaults alone when
\* reading or parsing it fails.
Loaded == {settingsFile, DefaultData}

\* (A file was there, and its defaults were taken for it.)
LoadFailed(data) == data = DefaultData /\ settingsFile # DefaultData
Taken(data) == misread' = (misread \/ LoadFailed(data))

\* saveData: the whole of the data, or nothing.
Saved(data) == settingsFile' = data

-----------------------------------------------------------------------------
(* ipc-handlers.ts.                                                         *)

\* servers:*, alerts:*, settings:save and preferences:save change the copy in
\* memory and save all of it, whatever else the file holds by now.
ChangeSettings ==
    /\ running /\ changes < MaxSettings
    /\ changes' = changes + 1
    /\ settings' = [settings EXCEPT !.own = @ \cup {changes'}]
    /\ Saved(settings') \/ UNCHANGED settingsFile
    /\ UNCHANGED <<running, misread, awsVars>>

ResetSettings ==
    /\ running
    /\ Saved(DefaultData) /\ settings' = DefaultData /\ misread' = FALSE
    /\ UNCHANGED <<running, changes, awsVars>>

-----------------------------------------------------------------------------
(* ipc-handlers-devops.ts and aws-ipc.ts.                                   *)

AddProject(l) ==
    /\ running /\ l \notin settingsFile.links
    /\ \E data \in Loaded : Saved([data EXCEPT !.links = @ \cup {l}]) /\ Taken(data)
    /\ UNCHANGED <<settings, running, changes, awsVars>>

RemoveProject(l) ==
    /\ running /\ l \in settingsFile.links
    /\ \E data \in Loaded : Saved([data EXCEPT !.links = @ \ {l}]) /\ Taken(data)
    /\ UNCHANGED <<settings, running, changes, awsVars>>

\* (The clients stay.)
KeptClients(a) == clients

\* unregisterAccount and invalidateClients.
DestroyedClients(a) == [clients EXCEPT ![a] = NoClients]

\* The account is registered before it is saved; a wrong region refuses it.
AddAccount(a, c) ==
    /\ running /\ "none" = settingsFile.accounts[a] /\ registered[a] = "none"
    /\ c \notin WrongRegion
    /\ registered' = [registered EXCEPT ![a] = c]
    /\ \/ \E data \in Loaded : Saved([data EXCEPT !.accounts[a] = c]) /\ Taken(data)
       \/ UNCHANGED <<settingsFile, misread>>
    /\ UNCHANGED <<settings, running, changes, clients>>

\* The account is saved before it is registered: one with a wrong region stays
\* in the file, and the manager keeps what it had.  (Defaults have no account to
\* update.)
UpdateAccount(a, c) ==
    /\ running
    /\ \E data \in Loaded : data.accounts[a] # "none" /\ Saved([data EXCEPT !.accounts[a] = c]) /\ Taken(data)
    /\ clients' = DestroyedClients(a)
    /\ registered' = IF c \in WrongRegion THEN registered ELSE [registered EXCEPT ![a] = c]
    /\ UNCHANGED <<settings, running, changes>>

RemoveAccount(a) ==
    /\ running
    /\ \E data \in Loaded : Saved([data EXCEPT !.accounts[a] = "none"]) /\ Taken(data)
    /\ registered' = [registered EXCEPT ![a] = "none"]
    /\ clients' = [clients EXCEPT ![a] = NoClients]
    /\ UNCHANGED <<settings, running, changes>>

\* getEC2Client, getEKSClient, getCloudWatchClient: the client there is, or one
\* for the account as it is registered now.
WithClients(a, services) ==
    [clients EXCEPT ![a] = [s \in Service |->
        IF s \in services /\ clients[a][s] = "none" THEN registered'[a] ELSE clients[a][s]]]

\* An AWS operation: ensureRegistered asks for the EC2 client, and registers the
\* account from the file when there is no such account; then the operation asks
\* for its own client.
CallAws(a, s) ==
    /\ running
    /\ \/ registered[a] # "none" /\ UNCHANGED registered
          /\ clients' = WithClients(a, {"ec2", s})
       \/ registered[a] = "none" /\ settingsFile.accounts[a] \in Credential \ WrongRegion
          /\ registered' = [registered EXCEPT ![a] = settingsFile.accounts[a]]
          /\ clients' = WithClients(a, {s})
    /\ UNCHANGED <<settingsFile, settings, running, changes, misread>>

\* aws:eks:kubeconfig:generate reads the account from the file and does not
\* register it.
GenerateKubeconfig(a) ==
    /\ running /\ settingsFile.accounts[a] # "none" /\ registered[a] # "none"
    /\ UNCHANGED <<settingsFile, settings, running, changes, misread, registered>>
    /\ clients' = WithClients(a, {"eks"})

-----------------------------------------------------------------------------
StopApplication ==
    /\ running /\ running' = FALSE
    /\ settings' = DefaultData
    /\ registered' = NoneRegistered /\ clients' = [a \in Account |-> NoClients]
    /\ UNCHANGED <<settingsFile, changes, misread>>

StartApplication ==
    /\ ~running /\ running' = TRUE
    /\ \E data \in Loaded : settings' = data /\ misread' = LoadFailed(data)
    /\ UNCHANGED <<settingsFile, changes, awsVars>>

SettingsInit ==
    /\ settingsFile = DefaultData /\ settings = DefaultData
    /\ running = FALSE /\ changes = 0 /\ misread = FALSE
    /\ registered = NoneRegistered /\ clients = [a \in Account |-> NoClients]

SettingsNext ==
    \/ ChangeSettings \/ ResetSettings \/ StopApplication \/ StartApplication
    \/ \E l \in ProjectLink : AddProject(l) \/ RemoveProject(l)
    \/ \E a \in Account : \/ \E c \in Credential : AddAccount(a, c) \/ UpdateAccount(a, c)
                          \/ \E s \in Service : CallAws(a, s)
                          \/ RemoveAccount(a) \/ GenerateKubeconfig(a)

SettingsSpec == SettingsInit /\ [][SettingsNext]_settingsVars

-----------------------------------------------------------------------------
\* File, memory and manager stay within their types.
SettingsTypeOK ==
    /\ settingsFile \in Settings /\ settings \in Settings
    /\ running \in BOOLEAN /\ misread \in BOOLEAN /\ changes \in 0..MaxSettings
    /\ registered \in [Account -> Credential \cup {"none"}]
    /\ clients \in [Account -> [Service -> Credential \cup {"none"}]]

\* However accounts are added, changed and removed around the calls, and whether
\* or not their region is right, an AWS client has the credentials its account is
\* registered with now (aws-manager.ts caches clients).
ClientsAreCurrent ==
    \A a \in Account, s \in Service : clients[a][s] \in {"none", registered[a]}

\* What ipc-handlers.ts saved stays saved, whoever else writes the file, whichever
\* save fails and however often the application stops: no change leaves the file
\* before all of it is reset.  One case is left out, because the code has it: once a
\* load failed and a handler saved the defaults, or the application started with
\* them (misread), the settings are gone with the next save.  (Project links and AWS
\* accounts have no such protection: the next save of the copy in memory drops
\* those added, and brings back those removed, since the application started.)
SavedSettingsStand ==
    [][\/ settingsFile.own \subseteq settingsFile'.own
       \/ settingsFile' = DefaultData /\ settings' = DefaultData /\ running
       \/ misread']_settingsVars
=============================================================================
