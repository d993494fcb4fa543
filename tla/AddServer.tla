------------------------------- MODULE AddServer -------------------------------
(***************************************************************************)
(* The list of servers in the web console (pages/ServersPage.tsx) and the  *)
(* dialog that adds one or pairs one with its agent                        *)
(* (components/AddServerModal.tsx).                                        *)
(*                                                                         *)
(* Adding takes several requests: the server is created, then it gets a    *)
(* pairing token, or its SSH connection is tried.  After a failure the     *)
(* dialog stays, and submitting it again must not create another server.   *)
(***************************************************************************)
EXTENDS Integers, FiniteSets

CONSTANT MaxMade   \* bound: servers that are ever created

ASSUME AddAssumption == MaxMade \in Nat \ {0}

VARIABLES
    fleet,      \* the platform: server -> "none", "agent", "ssh" or "removed"
    rows,       \* the page: server -> rows it has in the list
    listing,    \* load(): the servers its answer will hold, or NoListing
    dialog,     \* what the dialog keeps
    mine,       \* history: servers created since the dialog was opened
    unsure,     \* history: since then an answer was lost, or the kind changed since
                \* it was submitted
    outdated    \* history: the fleet changed while the last listing was under way

addVars == <<fleet, rows, listing, dialog, mine, unsure, outdated>>

Made == 1..MaxMade
Existing == {s \in Made : fleet[s] \in {"agent", "ssh"}}
NoListing == {0}
\* agentServer, pairing and serverToPair are 0 where the code has null.
ClosedDialog == [open |-> FALSE, target |-> 0, server |-> 0, pairing |-> 0,
         mode |-> "agent", step |-> "idle", sent |-> "agent"]

Unmade(s) == fleet[s] = "none" /\ \A k \in Made : fleet[k] = "none" => s <= k
Busy == dialog.step # "idle"
StepTo(s) == dialog' = [dialog EXCEPT !.step = s]
Changes == outdated' = (outdated \/ listing # NoListing)

-----------------------------------------------------------------------------
(* The page.                                                                *)

\* `target` is 0 for the add button: the dialog opens as it was left but for the
\* kind, which pairing sets to agent.
OpenAdding(target) ==
    /\ ~dialog.open
    /\ target \in {0} \cup {s \in Made : rows[s] > 0 /\ fleet[s] = "agent"}
    /\ dialog' = [dialog EXCEPT !.open = TRUE, !.target = target, !.server = target,
                                !.mode = IF target = 0 THEN @ ELSE "agent"]
    /\ mine' = {} /\ unsure' = FALSE
    /\ UNCHANGED <<fleet, rows, listing, outdated>>

\* load(), by the refresh button.  (Bound: one at a time.)
ListServers ==
    /\ listing = NoListing /\ ~dialog.open
    /\ listing' = Existing
    /\ UNCHANGED <<fleet, rows, dialog, mine, unsure, outdated>>

\* The answer holds what there was when it was asked for, or what there is now.
ListAnswered ==
    /\ listing # NoListing
    /\ \E found \in {listing, Existing} : rows' = [s \in Made |-> IF s \in found THEN 1 ELSE 0]
    /\ listing' = NoListing
    /\ outdated' = (listing # Existing)
    /\ UNCHANGED <<fleet, dialog, mine, unsure>>

ListFails ==
    /\ listing # NoListing
    /\ listing' = NoListing
    /\ UNCHANGED <<fleet, rows, dialog, mine, unsure, outdated>>

\* remove(): the row goes when the server has answered.
RemoveServer(s) ==
    /\ ~dialog.open /\ rows[s] > 0
    /\ fleet' = [fleet EXCEPT ![s] = "removed"]
    /\ rows' = [rows EXCEPT ![s] = 0]
    /\ Changes
    /\ UNCHANGED <<listing, dialog, mine, unsure>>

-----------------------------------------------------------------------------
(* The dialog.                                                              *)

\* The kind can be changed while the form is shown, also during a request.
ChooseMode(m) ==
    /\ dialog.open /\ dialog.pairing = 0 /\ m # dialog.mode
    /\ dialog' = [dialog EXCEPT !.mode = m]
    /\ unsure' = (unsure \/ Busy \/ mine # {} \/ dialog.target # 0)
    /\ UNCHANGED <<fleet, rows, listing, mine, outdated>>

\* (The server that was created before is not remembered.)
CreateAlways == "creating"

\* submit(): a server that was created before is paired, not created again.
FirstStep == IF dialog.mode = "agent" /\ dialog.server # 0 THEN "pairing" ELSE "creating"

SubmitServer ==
    /\ dialog.open /\ dialog.pairing = 0 /\ ~Busy
    /\ dialog' = [dialog EXCEPT !.step = FirstStep, !.sent = dialog.mode]
    /\ UNCHANGED <<fleet, rows, listing, mine, unsure, outdated>>

\* POST /servers creates it.
ServerMade(s) ==
    /\ dialog.step = "creating" /\ Unmade(s)
    /\ fleet' = [fleet EXCEPT ![s] = dialog.sent]
    /\ mine' = mine \cup {s}
    /\ StepTo("made") /\ Changes
    /\ UNCHANGED <<rows, listing, unsure>>

LastMade == CHOOSE s \in mine : \A k \in mine : k <= s
RowAdded(s) == rows' = [rows EXCEPT ![s] = IF @ < 2 THEN @ + 1 ELSE @]

\* The answer: an agent's server gets its row and then a token; of one connected
\* by SSH the connection is tried first.
MadeAnswered ==
    /\ dialog.step = "made"
    /\ IF dialog.sent = "agent"
       THEN /\ dialog' = [dialog EXCEPT !.step = "pairing", !.server = LastMade]
            /\ RowAdded(LastMade)
       ELSE StepTo("testing") /\ UNCHANGED rows
    /\ UNCHANGED <<fleet, listing, mine, unsure, outdated>>

TokenAnswered ==
    /\ dialog.step = "pairing" /\ fleet[dialog.server] = "agent"
    /\ dialog' = [dialog EXCEPT !.step = "idle", !.pairing = dialog.server]
    /\ UNCHANGED <<fleet, rows, listing, mine, unsure, outdated>>

\* closeAndReset(): all but the kind.
Reset(d) == [ClosedDialog EXCEPT !.mode = d.mode, !.sent = d.sent]

\* The test passes or not: the row is added either way, and the dialog closes.
TestSettles ==
    /\ dialog.step = "testing"
    /\ RowAdded(LastMade)
    /\ dialog' = Reset(dialog)
    /\ UNCHANGED <<fleet, listing, mine, unsure, outdated>>

\* A request is refused, or its answer is lost: the error line.
SubmitRefused ==
    /\ dialog.step \in {"creating", "made", "pairing"}
    /\ StepTo("idle")
    /\ unsure' = (unsure \/ dialog.step = "made")
    /\ UNCHANGED <<fleet, rows, listing, mine, outdated>>

\* Cancel, Done or the backdrop.
CloseAdding ==
    /\ dialog.open /\ ~Busy
    /\ dialog' = Reset(dialog)
    /\ UNCHANGED <<fleet, rows, listing, mine, unsure, outdated>>

-----------------------------------------------------------------------------
\* The page after its first load, with one server.
AddInit ==
    /\ fleet = [s \in Made |-> IF s = 1 THEN "agent" ELSE "none"]
    /\ rows = [s \in Made |-> IF s = 1 THEN 1 ELSE 0] /\ listing = NoListing /\ dialog = ClosedDialog
    /\ mine = {} /\ unsure = FALSE /\ outdated = FALSE

AddNext ==
    \/ \E s \in Made \cup {0} : OpenAdding(s)
    \/ ListServers \/ ListAnswered \/ ListFails
    \/ \E s \in Made : RemoveServer(s) \/ ServerMade(s)
    \/ \E m \in {"agent", "ssh"} : ChooseMode(m)
    \/ SubmitServer \/ MadeAnswered \/ TokenAnswered \/ TestSettles \/ SubmitRefused \/ CloseAdding

AddSpec == AddInit /\ [][AddNext]_addVars

-----------------------------------------------------------------------------
\* Fleet, list and dialog stay within their types.
AddTypeOK ==
    /\ fleet \in [Made -> {"none", "agent", "ssh", "removed"}] /\ rows \in [Made -> 0..2]
    /\ listing \subseteq 0..MaxMade /\ mine \subseteq Made
    /\ dialog.target \in 0..MaxMade /\ dialog.server \in 0..MaxMade /\ dialog.pairing \in 0..MaxMade
    /\ dialog.mode \in {"agent", "ssh"} /\ dialog.sent \in {"agent", "ssh"}
    /\ dialog.step \in {"idle", "creating", "made", "pairing", "testing"}
    /\ unsure \in BOOLEAN /\ outdated \in BOOLEAN

\* However often a dialog is submitted again after a failure, it creates one server,
\* and the token it shows is of that server or of the one it was opened for; unless
\* an answer was lost or the kind changed in between.
OneServerPerDialog ==
    unsure \/ ( /\ Cardinality(mine) <= 1
                /\ dialog.open /\ dialog.target # 0 => mine = {}
                /\ dialog.pairing # 0 => dialog.pairing = dialog.server )

\* When nothing is under way the list has one row for every server the dialog knows
\* it created, and none for one that was removed, unless the fleet changed during
\* the last listing.
ListShowsTheServers ==
    ~Busy /\ listing = NoListing /\ ~outdated /\ ~unsure =>
        /\ \A s \in mine \cap Existing : rows[s] = 1
        /\ \A s \in Made : fleet[s] = "removed" => rows[s] = 0
=============================================================================
