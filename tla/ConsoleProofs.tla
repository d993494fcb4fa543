---------------------------- MODULE ConsoleProofs -----------------------------
(***************************************************************************)
(* Proofs about the platform's console: the client of a browser            *)
(* (WebClient), its page of servers and the dialog that adds one           *)
(* (AddServer), the page of one server (ServerDetail), its drawer of       *)
(* workloads (WorkloadDrawer) and files (RemoteFiles, also the             *)
(* desktop's), and the routes its charts read (PlatformMetrics). Each      *)
(* theorem is for every value of the constants, from an invariant that     *)
(* says what is under way and what it is to change.                        *)
(***************************************************************************)
EXTENDS AddServer, WebClient, ServerDetail, RemoteFiles, WorkloadDrawer, PlatformMetrics,
        FiniteSetTheorems, SequenceTheorems, WellFoundedInduction, TLAPS

-----------------------------------------------------------------------------
(* Adding a server. The dialog is idle and shows no token while it is      *)
(* closed; the servers it made are of the fleet, and it remembers its      *)
(* server; and the list has the rows of the fleet, but for those that a    *)
(* call under way is still to change.                                      *)

DialogRow == [open : BOOLEAN, target : 0..MaxMade, server : 0..MaxMade, pairing : 0..MaxMade,
              mode : {"agent", "ssh"}, step : {"idle", "creating", "made", "pairing", "testing"},
              sent : {"agent", "ssh"}]

AddShaped == AddTypeOK /\ dialog \in DialogRow

\* The dialog waits only while it is open, and shows a token only of its server.
DialogFollows ==
    /\ ~dialog.open => dialog.step = "idle" /\ dialog.pairing = 0
    /\ dialog.step # "idle" => dialog.pairing = 0
    /\ dialog.pairing # 0 => dialog.pairing = dialog.server
    /\ dialog.step \in {"made", "testing"} => mine # {}

\* Only a server that was made is listed, and one the open dialog made still exists.
MadeAreKnown ==
    /\ \A s \in Made : fleet[s] = "none" => rows[s] = 0 /\ s \notin listing /\ s \notin mine
    /\ dialog.open => mine \subseteq Existing

\* What the dialog made it remembers, unless an answer was lost or the kind changed.
RemembersItsServer ==
    ~unsure =>
      /\ \A s, k \in mine : s = k
      /\ dialog.open /\ dialog.target # 0 => mine = {} /\ dialog.mode = "agent" /\ dialog.server # 0
      /\ dialog.step = "creating" => mine = {} /\ dialog.target = 0
      /\ dialog.step # "idle" => dialog.sent = dialog.mode
      /\ dialog.open /\ dialog.step \in {"idle", "pairing"} /\ mine # {}
           => dialog.mode = "agent" /\ dialog.server # 0

Unlisted == dialog.step \in {"made", "testing"}

\* Unless the fleet changed under a listing, the list has no row of a server that was
\* removed, and one of the server that the dialog made, once it is told of it.
ListFollows ==
    /\ ~outdated => \A s \in Made : fleet[s] = "removed" => rows[s] = 0
    /\ ~unsure => \A s \in mine :
         /\ Unlisted => s \notin listing /\ (~outdated => rows[s] = 0 /\ listing = NoListing)
         /\ ~Unlisted /\ ~outdated /\ fleet[s] # "removed" => rows[s] = 1

AddInv == AddShaped /\ DialogFollows /\ MadeAreKnown /\ RemembersItsServer /\ ListFollows

LEMMA NoListingIsZero == NoListing = {0} /\ \A s \in Made : s \notin NoListing /\ s \in 0..MaxMade
BY AddAssumption DEF NoListing, Made

\* A set of servers that is not empty has a greatest member.
LEMMA LastMadeIsMine ==
  ASSUME mine \subseteq Made, mine # {}
  PROVE  LastMade \in mine
<1> DEFINE T == {MaxMade - s : s \in mine}
<1>1. T \subseteq Nat /\ T # {}
  BY AddAssumption DEF Made
<1>2. PICK t \in T : \A u \in T : ~(<<u, t>> \in OpToRel(<, Nat))
  BY <1>1, WFMin, NatLessThanWellFounded
<1>3. PICK s \in mine : t = MaxMade - s
  BY <1>2
<1>4. ASSUME NEW k \in mine PROVE k <= s
  <2>1. MaxMade - k \in T /\ MaxMade - k \in Nat /\ t \in Nat
    BY <1>1
  <2>2. ~(MaxMade - k < t)
    BY <1>2, <2>1 DEF OpToRel
  <2> QED BY <1>3, <2>2, AddAssumption DEF Made
<1> QED BY <1>4 DEF LastMade

LEMMA ResetCloses ==
  ASSUME dialog \in DialogRow
  PROVE  /\ Reset(dialog) \in DialogRow /\ ~Reset(dialog).open
         /\ Reset(dialog).step = "idle" /\ Reset(dialog).pairing = 0
<1> DEFINE closed == ClosedDialog
<1>1. closed \in DialogRow /\ ~closed.open /\ closed.step = "idle" /\ closed.pairing = 0
  BY AddAssumption DEF DialogRow, ClosedDialog
<1>2. Reset(dialog) = [closed EXCEPT !.mode = dialog.mode, !.sent = dialog.sent]
  BY DEF Reset
<1> HIDE DEF closed
<1> QED BY <1>1, <1>2 DEF DialogRow

LEMMA InitAdd == AddInit => AddInv
<1> SUFFICES ASSUME AddInit PROVE AddInv
  OBVIOUS
<1>1. dialog \in DialogRow /\ dialog.open = FALSE /\ dialog.step = "idle" /\ dialog.pairing = 0
  BY AddAssumption DEF AddInit, ClosedDialog, DialogRow
<1>2. AddShaped
  <2>1. listing \subseteq 0..MaxMade
    BY AddAssumption DEF AddInit, NoListing
  <2>2. rows \in [Made -> 0..2] /\ fleet \in [Made -> {"none", "agent", "ssh", "removed"}]
    BY DEF AddInit
  <2> QED BY <1>1, <2>1, <2>2 DEF AddInit, AddShaped, AddTypeOK, DialogRow
<1>3. DialogFollows /\ MadeAreKnown /\ RemembersItsServer /\ ListFollows
  BY <1>1, NoListingIsZero DEF AddInit, DialogFollows, MadeAreKnown, RemembersItsServer, ListFollows, Unlisted
<1> QED BY <1>2, <1>3 DEF AddInv

LEMMA AddTypes ==
  AddShaped <=>
    /\ fleet \in [Made -> {"none", "agent", "ssh", "removed"}] /\ rows \in [Made -> 0..2]
    /\ listing \subseteq 0..MaxMade /\ mine \subseteq Made /\ dialog \in DialogRow
    /\ unsure \in BOOLEAN /\ outdated \in BOOLEAN
BY DEF AddShaped, AddTypeOK, DialogRow

\* The page lists, and the dialog opens, closes and is filled in.
LEMMA ListingSteps ==
  ASSUME AddInv, ListServers \/ ListAnswered \/ ListFails
  PROVE  AddInv'
<1> USE DEF AddInv
<1>0. /\ fleet \in [Made -> {"none", "agent", "ssh", "removed"}] /\ rows \in [Made -> 0..2]
      /\ listing \subseteq 0..MaxMade /\ mine \subseteq Made /\ dialog \in DialogRow
      /\ unsure \in BOOLEAN /\ outdated \in BOOLEAN
  BY AddTypes
<1>1. UNCHANGED <<fleet, dialog, mine, unsure>>
  BY DEF ListServers, ListAnswered, ListFails
<1>2. DialogFollows' /\ RemembersItsServer'
  BY <1>1 DEF DialogFollows, RemembersItsServer
<1>3. CASE ListServers
  <2>1. listing' = Existing /\ ~dialog.open /\ UNCHANGED <<rows, outdated>>
    BY <1>3 DEF ListServers
  <2>2. AddShaped'
    BY <1>0, <1>1, <2>1, AddTypes, NoListingIsZero DEF AddShaped, AddTypeOK, Existing
  <2>3. MadeAreKnown' /\ ListFollows'
    BY <1>0, <1>1, <2>1 DEF MadeAreKnown, ListFollows, Unlisted, Existing, DialogFollows
  <2> QED BY <1>2, <2>2, <2>3
<1>4. CASE ListFails
  <2>1. listing' = NoListing /\ UNCHANGED <<rows, outdated>>
    BY <1>4 DEF ListFails
  <2>2. AddShaped'
    BY <1>0, <1>1, <2>1, NoListingIsZero, AddAssumption DEF AddShaped, AddTypeOK
  <2>3. MadeAreKnown' /\ ListFollows'
    BY <1>0, <1>1, <2>1, NoListingIsZero DEF MadeAreKnown, ListFollows, Unlisted, Existing
  <2> QED BY <1>2, <2>2, <2>3
<1>5. CASE ListAnswered
  <2>1. PICK found \in {listing, Existing} : rows' = [s \in Made |-> IF s \in found THEN 1 ELSE 0]
    BY <1>5 DEF ListAnswered
  <2>2. listing' = NoListing /\ outdated' = (listing # Existing)
    BY <1>5 DEF ListAnswered
  <2>3. AddShaped'
    BY <1>0, <1>1, <2>1, <2>2, NoListingIsZero, AddAssumption DEF AddShaped, AddTypeOK
  <2>4. MadeAreKnown'
    BY <1>0, <1>1, <2>1, <2>2, NoListingIsZero DEF MadeAreKnown, Existing
  <2>5. ~outdated' => \A s \in Made : rows'[s] = IF s \in Existing THEN 1 ELSE 0
    BY <2>1, <2>2
\* A server made while the listing was under way is not in it.
  <2>6. ASSUME ~unsure, NEW s \in mine, Unlisted PROVE outdated'
    <3>1. dialog.open
      BY <2>6 DEF DialogFollows, Unlisted
    <3>2. s \in Existing /\ s \notin listing
      BY <2>6, <3>1 DEF MadeAreKnown, ListFollows
    <3> QED BY <2>2, <3>2
  <2>7. ListFollows'
    <3>1. ~outdated' => \A s \in Made : fleet'[s] = "removed" => rows'[s] = 0
      BY <1>0, <1>1, <2>5 DEF Existing
    <3>2. ASSUME ~unsure, NEW s \in mine, Unlisted
          PROVE  s \notin listing' /\ (~outdated' => rows'[s] = 0 /\ listing' = NoListing)
      BY <1>0, <2>2, <2>6, <3>2, NoListingIsZero
    <3>3. ASSUME ~unsure, NEW s \in mine, ~outdated', fleet[s] # "removed" PROVE rows'[s] = 1
      <4>1. s \in Made /\ fleet[s] # "none"
        BY <1>0 DEF MadeAreKnown
      <4>2. fleet[s] \in {"agent", "ssh"}
        BY <1>0, <3>3, <4>1
      <4> QED BY <2>5, <3>3, <4>1, <4>2 DEF Existing
    <3> QED BY <1>1, <3>1, <3>2, <3>3 DEF ListFollows, Unlisted
  <2> QED BY <1>2, <2>3, <2>4, <2>7
<1> QED BY <1>3, <1>4, <1>5

LEMMA RemoveKeeps ==
  ASSUME AddInv, NEW r \in Made, RemoveServer(r)
  PROVE  AddInv'
<1> USE DEF AddInv
<1>0. /\ fleet \in [Made -> {"none", "agent", "ssh", "removed"}] /\ rows \in [Made -> 0..2]
      /\ listing \subseteq 0..MaxMade /\ mine \subseteq Made /\ dialog \in DialogRow
      /\ unsure \in BOOLEAN /\ outdated \in BOOLEAN
  BY AddTypes
<1>1. /\ ~dialog.open /\ fleet' = [fleet EXCEPT ![r] = "removed"] /\ rows' = [rows EXCEPT ![r] = 0]
      /\ outdated' = (outdated \/ listing # NoListing) /\ UNCHANGED <<listing, dialog, mine, unsure>>
  BY DEF RemoveServer, Changes
<1>2. /\ fleet'[r] = "removed" /\ rows'[r] = 0
      /\ \A s \in Made \ {r} : fleet'[s] = fleet[s] /\ rows'[s] = rows[s]
  BY <1>0, <1>1
<1>3. AddShaped'
  BY <1>0, <1>1 DEF AddShaped, AddTypeOK
<1>4. DialogFollows' /\ RemembersItsServer' /\ dialog.step = "idle"
  BY <1>1 DEF DialogFollows, RemembersItsServer
<1>5. MadeAreKnown'
  BY <1>0, <1>1, <1>2 DEF MadeAreKnown
<1>6. ListFollows'
  BY <1>0, <1>1, <1>2, <1>4 DEF ListFollows, Unlisted
<1> QED BY <1>3, <1>4, <1>5, <1>6

LEMMA DialogSteps ==
  ASSUME AddInv,
         \/ \E t \in Made \cup {0} : OpenAdding(t)
         \/ \E m \in {"agent", "ssh"} : ChooseMode(m)
         \/ SubmitServer \/ TokenAnswered \/ SubmitRefused \/ CloseAdding
  PROVE  AddInv'
<1> USE DEF AddInv
<1>0. /\ fleet \in [Made -> {"none", "agent", "ssh", "removed"}] /\ rows \in [Made -> 0..2]
      /\ listing \subseteq 0..MaxMade /\ mine \subseteq Made /\ dialog \in DialogRow
      /\ unsure \in BOOLEAN /\ outdated \in BOOLEAN
  BY AddTypes
<1>1. ASSUME NEW t \in Made \cup {0}, OpenAdding(t) PROVE AddInv'
  <2>0. t \in 0..MaxMade /\ \E m \in {"agent", "ssh"} : /\ m = IF t = 0 THEN dialog.mode ELSE "agent"
          /\ dialog' = [dialog EXCEPT !.open = TRUE, !.target = t, !.server = t, !.mode = m]
    <3>1. dialog' = [dialog EXCEPT !.open = TRUE, !.target = t, !.server = t,
                                   !.mode = IF t = 0 THEN dialog.mode ELSE "agent"]
      BY <1>0, <1>1 DEF OpenAdding, DialogRow
    <3>2. t \in 0..MaxMade /\ (IF t = 0 THEN dialog.mode ELSE "agent") \in {"agent", "ssh"}
      BY <1>0, AddAssumption DEF DialogRow, Made
    <3> QED BY <3>1, <3>2
  <2>1. /\ dialog'.open /\ dialog'.target = t /\ dialog'.server = t /\ dialog'.pairing = dialog.pairing
        /\ dialog'.step = dialog.step /\ dialog'.sent = dialog.sent /\ dialog' \in DialogRow
        /\ (t # 0 => dialog'.mode = "agent") /\ ~dialog.open
    BY <1>0, <1>1, <2>0 DEF OpenAdding, DialogRow
  <2>2. mine' = {} /\ unsure' = FALSE /\ UNCHANGED <<fleet, rows, listing, outdated>>
    BY <1>1 DEF OpenAdding
  <2>3. AddShaped'
    BY <1>0, <2>1, <2>2 DEF AddShaped, AddTypeOK, DialogRow
  <2> QED BY <2>1, <2>2, <2>3 DEF DialogFollows, MadeAreKnown, RemembersItsServer, ListFollows, Unlisted
<1>2. ASSUME NEW m \in {"agent", "ssh"}, ChooseMode(m) PROVE AddInv'
  <2>1. /\ dialog.open /\ dialog' = [dialog EXCEPT !.mode = m] /\ UNCHANGED <<fleet, rows, listing, mine, outdated>>
        /\ unsure' = (unsure \/ Busy \/ mine # {} \/ dialog.target # 0)
    BY <1>2 DEF ChooseMode
  <2>2. /\ dialog' \in DialogRow /\ dialog'.mode = m /\ dialog'.open = dialog.open /\ dialog'.step = dialog.step
        /\ dialog'.target = dialog.target /\ dialog'.server = dialog.server /\ dialog'.pairing = dialog.pairing
        /\ dialog'.sent = dialog.sent
    BY <1>0, <2>1 DEF DialogRow
  <2>3. unsure' \in BOOLEAN
    BY <1>0, <2>1 DEF Busy
  <2>4. AddShaped'
    BY <1>0, <2>1, <2>2, <2>3 DEF AddShaped, AddTypeOK, DialogRow
  <2>5. RemembersItsServer'
    BY <2>1, <2>2 DEF RemembersItsServer, Busy
  <2> QED BY <2>1, <2>2, <2>4, <2>5 DEF DialogFollows, MadeAreKnown, ListFollows, Unlisted, Existing
<1>3. CASE SubmitServer
  <2>1. /\ dialog' = [dialog EXCEPT !.step = FirstStep, !.sent = dialog.mode] /\ dialog.open /\ dialog.pairing = 0
        /\ dialog.step = "idle" /\ UNCHANGED <<fleet, rows, listing, mine, unsure, outdated>>
    BY <1>3 DEF SubmitServer, Busy
  <2>2. FirstStep \in {"pairing", "creating"} /\ (FirstStep = "creating" <=> ~(dialog.mode = "agent" /\ dialog.server # 0))
    BY DEF FirstStep
  <2>3. /\ dialog' \in DialogRow /\ dialog'.mode = dialog.mode /\ dialog'.open = dialog.open /\ dialog'.step = FirstStep
        /\ dialog'.target = dialog.target /\ dialog'.server = dialog.server /\ dialog'.pairing = dialog.pairing
        /\ dialog'.sent = dialog.mode
    BY <1>0, <2>1, <2>2 DEF DialogRow
  <2>4. AddShaped'
    BY <1>0, <2>1, <2>3 DEF AddShaped, AddTypeOK, DialogRow
  <2>5. RemembersItsServer'
    BY <2>1, <2>2, <2>3 DEF RemembersItsServer
  <2> QED BY <2>1, <2>2, <2>3, <2>4, <2>5 DEF DialogFollows, MadeAreKnown, ListFollows, Unlisted, Existing
<1>4. CASE TokenAnswered
  <2>1. /\ dialog' = [dialog EXCEPT !.step = "idle", !.pairing = dialog.server] /\ dialog.step = "pairing"
        /\ UNCHANGED <<fleet, rows, listing, mine, unsure, outdated>>
    BY <1>0, <1>4 DEF TokenAnswered
  <2>3. /\ dialog' \in DialogRow /\ dialog'.mode = dialog.mode /\ dialog'.open = dialog.open /\ dialog'.step = "idle"
        /\ dialog'.target = dialog.target /\ dialog'.server = dialog.server /\ dialog'.pairing = dialog.server
        /\ dialog'.sent = dialog.sent
    BY <1>0, <2>1 DEF DialogRow
  <2>4. AddShaped'
    BY <1>0, <2>1, <2>3 DEF AddShaped, AddTypeOK, DialogRow
  <2>5. RemembersItsServer' /\ DialogFollows'
    BY <2>1, <2>3 DEF RemembersItsServer, DialogFollows
  <2> QED BY <2>1, <2>3, <2>4, <2>5 DEF MadeAreKnown, ListFollows, Unlisted, Existing
<1>5. CASE SubmitRefused
  <2>1. /\ dialog' = [dialog EXCEPT !.step = "idle"] /\ dialog.step \in {"creating", "made", "pairing"}
        /\ unsure' = (unsure \/ dialog.step = "made") /\ UNCHANGED <<fleet, rows, listing, mine, outdated>>
    BY <1>5 DEF SubmitRefused, StepTo
  <2>3. /\ dialog' \in DialogRow /\ dialog'.mode = dialog.mode /\ dialog'.open = dialog.open /\ dialog'.step = "idle"
        /\ dialog'.target = dialog.target /\ dialog'.server = dialog.server /\ dialog'.pairing = dialog.pairing
        /\ dialog'.sent = dialog.sent
    BY <1>0, <2>1 DEF DialogRow
  <2>4. AddShaped'
    BY <1>0, <2>1, <2>3 DEF AddShaped, AddTypeOK, DialogRow
  <2>5. RemembersItsServer' /\ DialogFollows'
    BY <2>1, <2>3 DEF RemembersItsServer, DialogFollows
  <2> QED BY <2>1, <2>3, <2>4, <2>5 DEF MadeAreKnown, ListFollows, Unlisted, Existing
<1>6. CASE CloseAdding
  <2>1. dialog' = Reset(dialog) /\ dialog.step = "idle" /\ UNCHANGED <<fleet, rows, listing, mine, unsure, outdated>>
    BY <1>6 DEF CloseAdding, Busy
  <2>3. dialog' \in DialogRow /\ ~dialog'.open /\ dialog'.step = "idle" /\ dialog'.pairing = 0
    BY <1>0, <2>1, ResetCloses
  <2>4. AddShaped'
    BY <1>0, <2>1, <2>3 DEF AddShaped, AddTypeOK, DialogRow
  <2>5. RemembersItsServer' /\ DialogFollows'
    BY <2>1, <2>3 DEF RemembersItsServer, DialogFollows
  <2> QED BY <2>1, <2>3, <2>4, <2>5 DEF MadeAreKnown, ListFollows, Unlisted, Existing
<1> QED BY <1>1, <1>2, <1>3, <1>4, <1>5, <1>6

LEMMA MadeKeeps ==
  ASSUME AddInv, NEW m \in Made, ServerMade(m)
  PROVE  AddInv'
<1> USE DEF AddInv
<1>0. /\ fleet \in [Made -> {"none", "agent", "ssh", "removed"}] /\ rows \in [Made -> 0..2]
      /\ listing \subseteq 0..MaxMade /\ mine \subseteq Made /\ dialog \in DialogRow
      /\ unsure \in BOOLEAN /\ outdated \in BOOLEAN
  BY AddTypes
<1>1. /\ dialog.step = "creating" /\ fleet[m] = "none" /\ fleet' = [fleet EXCEPT ![m] = dialog.sent]
      /\ mine' = mine \cup {m} /\ dialog' = [dialog EXCEPT !.step = "made"]
      /\ outdated' = (outdated \/ listing # NoListing) /\ UNCHANGED <<rows, listing, unsure>>
  BY DEF ServerMade, Unmade, StepTo, Changes
<1>2. /\ fleet'[m] \in {"agent", "ssh"} /\ fleet' \in [Made -> {"none", "agent", "ssh", "removed"}]
      /\ \A s \in Made \ {m} : fleet'[s] = fleet[s]
  BY <1>0, <1>1 DEF DialogRow
<1>3. /\ dialog' \in DialogRow /\ dialog'.mode = dialog.mode /\ dialog'.open = dialog.open /\ dialog'.step = "made"
      /\ dialog'.target = dialog.target /\ dialog'.server = dialog.server /\ dialog'.pairing = dialog.pairing
      /\ dialog'.sent = dialog.sent
  BY <1>0, <1>1 DEF DialogRow
<1>4. AddShaped'
  BY <1>0, <1>1, <1>2, <1>3 DEF AddShaped, AddTypeOK, DialogRow
<1>5. DialogFollows' /\ RemembersItsServer'
  BY <1>1, <1>3 DEF DialogFollows, RemembersItsServer
<1>6. MadeAreKnown'
  BY <1>0, <1>1, <1>2, <1>3 DEF MadeAreKnown, Existing, DialogFollows
<1>7. rows[m] = 0 /\ m \notin listing
  BY <1>1 DEF MadeAreKnown
<1>8. ListFollows'
  BY <1>0, <1>1, <1>2, <1>3, <1>7 DEF ListFollows, Unlisted, RemembersItsServer
<1> QED BY <1>4, <1>5, <1>6, <1>8

\* The row of the server just made is added: the first, unless the list was outdated.
LEMMA RowKeeps ==
  ASSUME AddInv, Unlisted, dialog.open, NEW m \in mine, RowAdded(m),
         UNCHANGED <<fleet, listing, mine, unsure, outdated>>, dialog' \in DialogRow,
         \/ /\ dialog'.open /\ dialog'.step = "pairing" /\ dialog'.server = m /\ dialog'.pairing = dialog.pairing
            /\ dialog'.mode = dialog.mode /\ dialog'.sent = dialog.sent /\ dialog'.target = dialog.target
            /\ dialog.sent = "agent"
         \/ ~dialog'.open /\ dialog'.step = "idle" /\ dialog'.pairing = 0
  PROVE  AddInv'
<1> USE DEF AddInv
<1>0. /\ fleet \in [Made -> {"none", "agent", "ssh", "removed"}] /\ rows \in [Made -> 0..2]
      /\ listing \subseteq 0..MaxMade /\ mine \subseteq Made /\ dialog \in DialogRow
      /\ unsure \in BOOLEAN /\ outdated \in BOOLEAN
  BY AddTypes
<1>1. m \in Made /\ fleet[m] \in {"agent", "ssh"} /\ m # 0
  BY <1>0, AddAssumption DEF MadeAreKnown, Existing, Made
<1>2. /\ rows' \in [Made -> 0..2] /\ rows'[m] = (IF rows[m] < 2 THEN rows[m] + 1 ELSE rows[m])
      /\ \A s \in Made \ {m} : rows'[s] = rows[s]
  <2>1. rows[m] \in 0..2 /\ (IF rows[m] < 2 THEN rows[m] + 1 ELSE rows[m]) \in 0..2
    BY <1>0, <1>1
  <2>2. rows' = [rows EXCEPT ![m] = IF rows[m] < 2 THEN rows[m] + 1 ELSE rows[m]]
    BY DEF RowAdded
  <2> QED BY <1>0, <1>1, <2>1, <2>2
<1>3. AddShaped'
  BY <1>0, <1>2 DEF AddShaped, AddTypeOK, DialogRow
<1>4. DialogFollows' /\ RemembersItsServer'
  BY <1>1 DEF DialogFollows, RemembersItsServer, Unlisted
<1>5. MadeAreKnown'
  BY <1>0, <1>1, <1>2 DEF MadeAreKnown, Existing
<1>6. ~Unlisted'
  BY DEF Unlisted
<1>7. ASSUME ~unsure, ~outdated, NEW s \in mine PROVE rows'[s] = 1
  <2>1. s = m
    BY <1>7 DEF RemembersItsServer
  <2>2. rows[m] = 0
    BY <1>7 DEF ListFollows
  <2> QED BY <1>2, <2>1, <2>2
<1>8. ListFollows'
  <2>1. ~outdated' => \A s \in Made : fleet'[s] = "removed" => rows'[s] = 0
    BY <1>1, <1>2 DEF ListFollows
  <2> QED BY <1>6, <1>7, <2>1 DEF ListFollows
<1> QED BY <1>3, <1>4, <1>5, <1>8

LEMMA AnswerKeeps ==
  ASSUME AddInv, MadeAnswered \/ TestSettles
  PROVE  AddInv'
<1> USE DEF AddInv
<1>0. /\ mine \subseteq Made /\ dialog \in DialogRow /\ dialog.open /\ Unlisted
      /\ UNCHANGED <<fleet, listing, mine, unsure, outdated>>
  BY AddTypes DEF MadeAnswered, TestSettles, Unlisted, DialogFollows
<1> DEFINE m == LastMade
<1>1. m \in mine
  BY <1>0, LastMadeIsMine DEF DialogFollows, Unlisted
<1>2. CASE TestSettles
  <2>1. RowAdded(m) /\ dialog' = Reset(dialog)
    BY <1>2 DEF TestSettles
  <2>2. dialog' \in DialogRow /\ ~dialog'.open /\ dialog'.step = "idle" /\ dialog'.pairing = 0
    BY <1>0, <2>1, ResetCloses
  <2> HIDE DEF m
  <2> QED BY <1>0, <1>1, <2>1, <2>2, RowKeeps
<1>3. CASE MadeAnswered /\ dialog.sent = "agent"
  <2>1. RowAdded(m) /\ dialog' = [dialog EXCEPT !.step = "pairing", !.server = m]
    BY <1>3 DEF MadeAnswered
  <2> HIDE DEF m
  <2>2. m \in 0..MaxMade
    BY <1>0, <1>1, AddAssumption DEF Made
  <2>3. /\ dialog' \in DialogRow /\ dialog'.open /\ dialog'.step = "pairing" /\ dialog'.server = m
        /\ dialog'.pairing = dialog.pairing /\ dialog'.mode = dialog.mode /\ dialog'.sent = dialog.sent
        /\ dialog'.target = dialog.target
    BY <1>0, <2>1, <2>2 DEF DialogRow
  <2> QED BY <1>0, <1>1, <1>3, <2>1, <2>3, RowKeeps
<1>4. CASE MadeAnswered /\ dialog.sent # "agent"
  <2>1. dialog' = [dialog EXCEPT !.step = "testing"] /\ rows' = rows /\ dialog.step = "made"
    BY <1>4 DEF MadeAnswered, StepTo
  <2>2. /\ dialog' \in DialogRow /\ dialog'.open /\ dialog'.step = "testing" /\ dialog'.server = dialog.server
        /\ dialog'.pairing = dialog.pairing /\ dialog'.mode = dialog.mode /\ dialog'.sent = dialog.sent
        /\ dialog'.target = dialog.target
    BY <1>0, <2>1 DEF DialogRow
  <2>3. AddShaped'
    BY <1>0, <2>1, <2>2, AddTypes DEF AddShaped, AddTypeOK, DialogRow
  <2>4. RemembersItsServer' /\ DialogFollows'
    BY <1>0, <2>1, <2>2 DEF RemembersItsServer, DialogFollows
  <2> QED BY <1>0, <2>1, <2>2, <2>3, <2>4 DEF MadeAreKnown, ListFollows, Unlisted, Existing
<1> QED BY <1>2, <1>3, <1>4

LEMMA NextAdd == AddInv /\ [AddNext]_addVars => AddInv'
<1> SUFFICES ASSUME AddInv, [AddNext]_addVars PROVE AddInv'
  OBVIOUS
<1>1. CASE ListServers \/ ListAnswered \/ ListFails
  BY <1>1, ListingSteps
<1>2. ASSUME NEW s \in Made, RemoveServer(s) PROVE AddInv'
  BY <1>2, RemoveKeeps
<1>3. ASSUME NEW s \in Made, ServerMade(s) PROVE AddInv'
  BY <1>3, MadeKeeps
<1>4. CASE \/ \E t \in Made \cup {0} : OpenAdding(t)
           \/ \E m \in {"agent", "ssh"} : ChooseMode(m)
           \/ SubmitServer \/ TokenAnswered \/ SubmitRefused \/ CloseAdding
  BY <1>4, DialogSteps
<1>5. CASE MadeAnswered \/ TestSettles
  BY <1>5, AnswerKeeps
<1>6. CASE UNCHANGED addVars
  BY <1>6 DEF addVars, AddInv, AddShaped, AddTypeOK, DialogFollows, MadeAreKnown, RemembersItsServer,
              ListFollows, Unlisted, Existing
<1> QED BY <1>1, <1>2, <1>3, <1>4, <1>5, <1>6 DEF AddNext

LEMMA AddImplies == AddInv => AddTypeOK /\ OneServerPerDialog /\ ListShowsTheServers
<1> SUFFICES ASSUME AddInv PROVE AddTypeOK /\ OneServerPerDialog /\ ListShowsTheServers
  OBVIOUS
<1> USE DEF AddInv
<1>1. ASSUME ~unsure PROVE Cardinality(mine) <= 1
  <2>1. CASE mine = {}
    BY <2>1, FS_EmptySet
  <2>2. ASSUME NEW s \in mine PROVE Cardinality(mine) <= 1
    <3>1. mine = {s}
      BY <1>1 DEF RemembersItsServer
    <3> QED BY <3>1, FS_Singleton
  <2> QED BY <2>1, <2>2
<1>2. OneServerPerDialog
  BY <1>1 DEF OneServerPerDialog, RemembersItsServer, DialogFollows
<1>3. ListShowsTheServers
  BY DEF ListShowsTheServers, ListFollows, Unlisted, Busy, Existing
<1> QED BY <1>2, <1>3 DEF AddShaped

\* However the dialog for a new server is closed, opened and submitted again while its
\* calls are under way, it creates one server at most, shows a token only of that
\* server, and leaves a list that has one row for every server it made, within the
\* limits the properties state (AddServerDialog.tsx, the servers page).
THEOREM AddingStaysSound == AddSpec => [](AddTypeOK /\ OneServerPerDialog /\ ListShowsTheServers)
BY InitAdd, NextAdd, AddImplies, PTL DEF AddSpec

-----------------------------------------------------------------------------
(* The browser's session. A token in a cookie, a request or a logout is    *)
(* one the server has issued, and while one tab is open and no answer was  *)
(* lost, the newest of its family is in the cookie or on its way back to   *)
(* it.                                                                     *)

\* A token is none, or of a family the server has issued.
Issued(k, ns) == k \in Token /\ (k = NoToken \/ k.family \in 1..Len(ns))

\* It is the newest of its family.
Current(k, ns) == k = NoToken \/ (k.family \in 1..Len(ns) /\ k.number = ns[k.family])

\* The cookie, the requests and the logouts hold tokens the server has issued.
TokensAreIssued ==
    /\ Issued(jar, newest)
    /\ \A f \in flights : Issued(f.token, newest) /\ Issued(f.next, newest)
    /\ \A t \in Tab : Issued(tabs[t].leaving, newest)

\* Whatever acts is of a tab that was opened.
OpenedTabsAct ==
    /\ IsFiniteSet(opened)
    /\ \A f \in flights : f.tab \in opened
    /\ \A t \in Tab : tabs[t].open \/ tabs[t].user => t \in opened
    /\ \A c \in Call : calls[c].step # "idle" => calls[c].tab \in opened

Alone == ~lost /\ \A s, t \in opened : s = t

\* One tab that gets its answers has one request at a time, which carries the newest
\* token of its family; when it is answered its answer does, and otherwise the cookie.
NewestIsHeld ==
    Alone =>
      /\ ~replayed
      /\ \A f, g \in flights : f = g
      /\ \A f \in flights : /\ f.answer = "none" => Current(f.token, newest) /\ f.next = NoToken
                            /\ f.answer = "yes" => Current(f.next, newest) /\ f.token # NoToken
                            /\ f.answer = "no" => f.next = NoToken
      /\ (\A f \in flights : f.answer # "yes") => Current(jar, newest)

WebInv == WebTypeOK /\ TokensAreIssued /\ OpenedTabsAct /\ NewestIsHeld

TabRow == [open : BOOLEAN, restoring : BOOLEAN, user : BOOLEAN, access : BOOLEAN, leaving : Token]
FlightRow == [tab : Tab, by : Call \cup {"restore"}, token : Token, answer : {"none", "yes", "no"}, next : Token]
CallRow == [tab : Tab, step : {"idle", "sent", "stale", "waiting", "resent"}]

LEMMA WebTypes ==
  ASSUME WebInv
  PROVE  /\ jar \in Token /\ newest \in Seq(1..MaxRotations) /\ Len(newest) <= MaxLogins /\ Len(newest) \in Nat
         /\ ended \subseteq DOMAIN newest /\ DOMAIN newest = 1..Len(newest) /\ revoked \subseteq Token
         /\ tabs \in [Tab -> TabRow] /\ flights \subseteq FlightRow /\ calls \in [Call -> CallRow]
         /\ opened \subseteq Tab /\ lost \in BOOLEAN /\ replayed \in BOOLEAN
         /\ \A i \in 1..Len(newest) : newest[i] \in 1..MaxRotations
<1>1. newest \in Seq(1..MaxRotations)
  BY DEF WebInv, WebTypeOK
<1>2. /\ Len(newest) \in Nat /\ DOMAIN newest = 1..Len(newest)
      /\ \A i \in 1..Len(newest) : newest[i] \in 1..MaxRotations
  BY <1>1, ElementOfSeq, LenProperties
<1> QED BY <1>1, <1>2 DEF WebInv, WebTypeOK, TabRow, FlightRow, CallRow

LEMMA NoTokenIsIssued ==
  ASSUME NEW ns
  PROVE  NoToken \in Token /\ Issued(NoToken, ns) /\ Current(NoToken, ns)
BY WebAssumption DEF NoToken, Token, Issued, Current

\* The types, put together again.
LEMMA WebShaped ==
  ASSUME jar \in Token, newest \in Seq(1..MaxRotations), Len(newest) <= MaxLogins,
         ended \subseteq DOMAIN newest, revoked \subseteq Token,
         tabs \in [Tab -> TabRow], flights \subseteq FlightRow, calls \in [Call -> CallRow],
         opened \subseteq Tab, lost \in BOOLEAN, replayed \in BOOLEAN
  PROVE  WebTypeOK
BY DEF WebTypeOK, TabRow, FlightRow, CallRow

\* A refresh that is joined is the tab's, and a lone tab starts one only with the
\* newest token.
LEMMA JoinKeeps ==
  ASSUME WebInv, NEW t \in Tab, NEW by \in Call \cup {"restore"}, flights' = JoinRefresh(t, by),
         t \in opened', opened \subseteq opened', UNCHANGED <<jar, issuedVars, lost>>
  PROVE  /\ flights' \subseteq FlightRow /\ (\A f \in flights' : f.tab \in opened') /\ NewestIsHeld'
         /\ \A f \in flights' : Issued(f.token, newest) /\ Issued(f.next, newest)
<1> DEFINE flight == Flight(t, by)
<1>1. /\ flight \in FlightRow /\ flight.tab = t /\ flight.token = jar
      /\ flight.answer = "none" /\ flight.next = NoToken
  BY WebTypes, NoTokenIsIssued DEF Flight, FlightRow
<1>2. \/ Of(t) # {} /\ flights' = flights
      \/ Of(t) = {} /\ flights' = flights \cup {flight}
  BY DEF JoinRefresh
<1> HIDE DEF flight
<1>3. UNCHANGED <<jar, newest, replayed, lost>> /\ flights \subseteq FlightRow
  BY WebTypes DEF issuedVars
<1>4. flights' \subseteq FlightRow /\ \A f \in flights' : f.tab \in opened'
  BY <1>1, <1>2, <1>3 DEF WebInv, OpenedTabsAct
<1>5. \A f \in flights' : Issued(f.token, newest) /\ Issued(f.next, newest)
  BY <1>1, <1>2, NoTokenIsIssued DEF WebInv, TokensAreIssued
<1>6. ASSUME Alone' PROVE NewestIsHeld'
  <2>1. Alone
    BY <1>3, <1>6 DEF Alone
  <2>2. CASE flights' = flights
    BY <1>3, <2>1, <2>2 DEF WebInv, NewestIsHeld
  <2>3. CASE Of(t) = {} /\ flights' = flights \cup {flight}
    <3>1. flights = {}
      <4>1. ASSUME NEW f \in flights PROVE FALSE
        <5>1. f.tab = t
          BY <1>6, <2>3 DEF Alone, WebInv, OpenedTabsAct
        <5> QED BY <2>3, <5>1 DEF Of
      <4> QED BY <4>1
    <3>2. Current(jar, newest) /\ ~replayed
      BY <2>1, <3>1 DEF WebInv, NewestIsHeld
    <3> QED BY <1>1, <1>3, <2>3, <3>1, <3>2 DEF NewestIsHeld
  <2> QED BY <1>2, <2>2, <2>3
<1> QED BY <1>4, <1>5, <1>6 DEF NewestIsHeld

\* Callers that resume stay calls of their tabs.
LEMMA ResumeKeeps ==
  ASSUME calls \in [Call -> CallRow], NEW t, NEW ok, Resume(t, ok)
  PROVE  /\ calls' \in [Call -> CallRow]
         /\ \A c \in Call : calls'[c].step # "idle" => calls[c].step # "idle" /\ calls'[c].tab = calls[c].tab
<1>1. calls' = [c \in Call |-> IF calls[c].tab = t /\ calls[c].step = "waiting"
                               THEN [calls[c] EXCEPT !.step = IF ok THEN "resent" ELSE "idle"] ELSE calls[c]]
  BY DEF Resume
<1>2. ASSUME NEW c \in Call
      PROVE  calls'[c] \in CallRow /\ (calls'[c].step # "idle" => calls[c].step # "idle" /\ calls'[c].tab = calls[c].tab)
  <2>1. calls[c] \in CallRow
    OBVIOUS
  <2>2. CASE calls[c].tab = t /\ calls[c].step = "waiting"
    <3>1. calls'[c] = [calls[c] EXCEPT !.step = IF ok THEN "resent" ELSE "idle"]
      BY <1>1, <2>2
    <3> QED BY <2>1, <2>2, <3>1 DEF CallRow
  <2>3. CASE ~(calls[c].tab = t /\ calls[c].step = "waiting")
    BY <1>1, <2>1, <2>3
  <2> QED BY <2>2, <2>3
<1> QED BY <1>1, <1>2

LEMMA InitWeb == WebInit => WebInv
<1> SUFFICES ASSUME WebInit PROVE WebInv
  OBVIOUS
<1>1. newest = <<>> /\ newest \in Seq(1..MaxRotations) /\ Len(newest) <= MaxLogins
  BY WebAssumption DEF WebInit
<1>2. ClosedTab \in TabRow /\ ~ClosedTab.open /\ ~ClosedTab.user /\ ClosedTab.leaving = NoToken
  BY NoTokenIsIssued DEF ClosedTab, TabRow
<1>3. tabs \in [Tab -> TabRow] /\ \A t \in Tab : tabs[t] = ClosedTab
  BY <1>2 DEF WebInit
<1>4. calls \in [Call -> CallRow] /\ \A c \in Call : calls[c].step = "idle"
  BY DEF WebInit, CallRow
<1>5. WebTypeOK
  BY <1>1, <1>3, <1>4, WebShaped, NoTokenIsIssued DEF WebInit
<1>6. TokensAreIssued
  BY <1>2, <1>3, NoTokenIsIssued DEF WebInit, TokensAreIssued
<1>7. OpenedTabsAct
  BY <1>2, <1>3, <1>4, FS_EmptySet DEF WebInit, OpenedTabsAct
<1>8. NewestIsHeld
  BY NoTokenIsIssued DEF WebInit, NewestIsHeld
<1> QED BY <1>5, <1>6, <1>7, <1>8 DEF WebInv

\* The server rotates the token it is shown, or ends its family.
LEMMA ServerKeeps ==
  ASSUME WebInv, NEW f \in flights, ServerRefreshes(f)
  PROVE  WebInv'
<1> DEFINE k == f.token
           known == k # NoToken
           fresh == known /\ k.family \notin ended /\ k \notin revoked /\ k.number = newest[k.family]
           next == [k EXCEPT !.number = @ + 1]
           answered == IF fresh THEN [f EXCEPT !.answer = "yes", !.next = next] ELSE [f EXCEPT !.answer = "no"]
<1>1. /\ f.answer = "none" /\ (fresh => k.number < MaxRotations)
      /\ newest' = (IF fresh THEN [newest EXCEPT ![k.family] = next.number] ELSE newest)
      /\ ended' = (IF known /\ ~fresh THEN ended \cup {k.family} ELSE ended)
      /\ replayed' = (replayed \/ (known /\ k.number < newest[k.family]))
      /\ flights' = (flights \ {f}) \cup {answered}
      /\ UNCHANGED <<jar, revoked, tabs, calls, opened, lost>>
  BY DEF ServerRefreshes, historyVars
<1>2. /\ f \in FlightRow /\ Issued(k, newest) /\ Issued(f.next, newest) /\ newest \in Seq(1..MaxRotations)
      /\ k \in Token /\ (known => k.family \in 1..Len(newest))
  BY WebTypes DEF WebInv, TokensAreIssued, FlightRow, Issued
<1>3. fresh => /\ next \in Token /\ next.family = k.family /\ next.number = k.number + 1 /\ next # NoToken
               /\ next.number \in 1..MaxRotations
  <2>1. k \in [family : 0..MaxLogins, number : 0..MaxRotations]
    BY <1>2 DEF Token
  <2>2. next.family = k.family /\ next.number = k.number + 1
    BY <2>1
  <2>3. ASSUME fresh PROVE next \in Token /\ next.number \in 1..MaxRotations
    BY <1>1, <2>1, <2>3, WebAssumption DEF Token
  <2>4. ASSUME fresh PROVE next.number # 0
    BY <2>3, <2>4
  <2>5. NoToken.number = 0
    BY DEF NoToken
  <2> QED BY <2>2, <2>3, <2>4, <2>5
<1>4. /\ answered \in FlightRow /\ answered.tab = f.tab /\ answered.token = k
      /\ \/ fresh /\ answered.answer = "yes" /\ answered.next = next
         \/ ~fresh /\ answered.answer = "no" /\ answered.next = f.next
  <2>1. CASE fresh
    <3> HIDE DEF next, fresh
    <3> QED BY <1>2, <1>3, <2>1 DEF FlightRow
  <2>2. CASE ~fresh
    <3> HIDE DEF next, fresh
    <3> QED BY <1>2, <2>2 DEF FlightRow
  <2> QED BY <2>1, <2>2
<1>5. known /\ k.number < newest[k.family] => ~Current(k, newest)
  <2>1. known => newest[k.family] \in 1..MaxRotations
    BY <1>2, WebTypes
  <2>2. k.number \in 0..MaxRotations
    BY <1>2 DEF Token
  <2> QED BY <2>1, <2>2 DEF Current
<1> HIDE DEF answered
<1>6. /\ newest' \in Seq(1..MaxRotations) /\ Len(newest') = Len(newest)
      /\ fresh => newest'[k.family] = next.number
      /\ ~fresh => newest' = newest
  <2>1. CASE fresh
    <3>1. newest' = [newest EXCEPT ![k.family] = next.number] /\ k.family \in 1..Len(newest)
      BY <1>1, <1>2, <2>1
    <3>2. next.number \in 1..MaxRotations
      BY <1>3, <2>1
    <3> HIDE DEF next
    <3> QED BY <1>2, <2>1, <3>1, <3>2, ExceptSeq
  <2>2. CASE ~fresh
    BY <1>1, <1>2, <2>2
  <2> QED BY <2>1, <2>2
<1>7. known => k.family \in DOMAIN newest
  BY <1>2, WebTypes
<1> HIDE DEF next, fresh
<1>8. DOMAIN newest' = DOMAIN newest /\ DOMAIN newest = 1..Len(newest)
  BY <1>6, WebTypes
<1>9. WebTypeOK'
  <2>1. ended' \subseteq DOMAIN newest'
    BY <1>1, <1>7, <1>8, WebTypes
  <2>2. flights' \subseteq FlightRow
    BY <1>1, <1>4, WebTypes
  <2>3. replayed' \in BOOLEAN
    BY <1>1
  <2> HIDE DEF k, known
  <2>4. /\ jar' \in Token /\ Len(newest') <= MaxLogins /\ revoked' \subseteq Token /\ tabs' \in [Tab -> TabRow]
        /\ calls' \in [Call -> CallRow] /\ opened' \subseteq Tab /\ lost' \in BOOLEAN
    BY <1>1, <1>6, WebTypes
  <2> QED BY <1>6, <2>1, <2>2, <2>3, <2>4 DEF WebTypeOK, TabRow, FlightRow, CallRow
<1>10. TokensAreIssued'
  <2>1. \A j : Issued(j, newest) => Issued(j, newest')
    BY <1>6 DEF Issued
  <2>2. fresh => Issued(next, newest')
    BY <1>2, <1>3, <1>6 DEF Issued, fresh
  <2>3. Issued(k, newest') /\ Issued(f.next, newest')
    BY <1>2, <2>1
  <2> HIDE DEF k, known
  <2>4. answered.token = k /\ (answered.next = f.next \/ (fresh /\ answered.next = next))
    BY <1>4
  <2>5. Issued(answered.token, newest') /\ Issued(answered.next, newest')
    BY <2>2, <2>3, <2>4
  <2> QED BY <1>1, <2>1, <2>5 DEF WebInv, TokensAreIssued
<1>11. OpenedTabsAct'
  BY <1>1, <1>4 DEF WebInv, OpenedTabsAct
<1>12. ASSUME Alone' PROVE NewestIsHeld'
  <2>1. Alone
    BY <1>1, <1>12 DEF Alone
  <2>2. /\ ~replayed /\ flights = {f} /\ Current(k, newest) /\ f.next = NoToken
        /\ Current(jar, newest)
    BY <1>1, <2>1 DEF WebInv, NewestIsHeld
  <2>3. ~replayed'
    BY <1>1, <1>5, <2>2
  <2>4. flights' = {answered}
    BY <1>1, <2>2
  <2>5. CASE fresh
    <3>1. Current(next, newest') /\ k # NoToken
      BY <1>2, <1>3, <1>6, <2>5 DEF Current, fresh
    <3> QED BY <1>4, <2>3, <2>4, <2>5, <3>1 DEF NewestIsHeld
  <2>6. CASE ~fresh
    BY <1>1, <1>4, <1>6, <2>2, <2>3, <2>4, <2>6 DEF NewestIsHeld
  <2> QED BY <2>5, <2>6
<1> QED BY <1>9, <1>10, <1>11, <1>12 DEF WebInv, NewestIsHeld

\* The answer arrives, or does not.
LEMMA AnswerWebKeeps ==
  ASSUME WebInv, NEW f \in flights, RefreshAnswered(f)
  PROVE  WebInv'
<1>1. /\ f.answer # "none" /\ flights' = flights \ {f} /\ tabs[f.tab].open
      /\ jar' = (IF f.token = NoToken THEN jar ELSE f.next)
      /\ tabs' = [tabs EXCEPT ![f.tab].restoring = FALSE,
                              ![f.tab].user = IF tabs[f.tab].restoring THEN f.answer = "yes" ELSE @,
                              ![f.tab].access = IF f.answer = "yes" THEN TRUE
                                                ELSE IF tabs[f.tab].restoring THEN FALSE ELSE @]
      /\ Resume(f.tab, f.answer = "yes")
      /\ UNCHANGED <<newest, ended, revoked, replayed, opened, lost>>
  BY DEF RefreshAnswered, issuedVars, historyVars
<1>2. f \in FlightRow /\ f.tab \in Tab /\ f.next \in Token /\ Issued(f.next, newest) /\ f.tab \in opened
  BY WebTypes DEF WebInv, TokensAreIssued, OpenedTabsAct, FlightRow
<1>3. /\ calls' \in [Call -> CallRow]
      /\ \A c \in Call : calls'[c].step # "idle" => calls[c].step # "idle" /\ calls'[c].tab = calls[c].tab
  BY <1>1, WebTypes, ResumeKeeps
<1>4. /\ tabs' \in [Tab -> TabRow]
      /\ \A t \in Tab : /\ tabs'[t].leaving = tabs[t].leaving
                        /\ tabs'[t].open \/ tabs'[t].user => tabs[t].open \/ tabs[t].user
  <2>1. tabs[f.tab] \in TabRow
    BY <1>2, WebTypes
  <2>2. PICK row \in TabRow : tabs' = [tabs EXCEPT ![f.tab] = row] /\ row.leaving = tabs[f.tab].leaving
                               /\ row.open = tabs[f.tab].open
    <3> DEFINE row == [tabs[f.tab] EXCEPT !.restoring = FALSE,
                          !.user = IF tabs[f.tab].restoring THEN f.answer = "yes" ELSE @,
                          !.access = IF f.answer = "yes" THEN TRUE ELSE IF tabs[f.tab].restoring THEN FALSE ELSE @]
    <3>1. tabs' = [tabs EXCEPT ![f.tab] = row]
      BY <1>1, <1>2, WebTypes
    <3>2. row \in TabRow /\ row.leaving = tabs[f.tab].leaving /\ row.open = tabs[f.tab].open
      BY <2>1 DEF TabRow
    <3> HIDE DEF row
    <3> QED BY <3>1, <3>2
  <2> QED BY <1>1, <1>2, <2>1, <2>2, WebTypes
<1>5. WebTypeOK'
  BY <1>1, <1>2, <1>3, <1>4, WebTypes DEF WebTypeOK, TabRow, FlightRow, CallRow
<1>6. TokensAreIssued'
  BY <1>1, <1>2, <1>4 DEF WebInv, TokensAreIssued
<1>7. OpenedTabsAct'
  BY <1>1, <1>3, <1>4 DEF WebInv, OpenedTabsAct
<1>8. ASSUME Alone' PROVE NewestIsHeld'
  <2>1. Alone
    BY <1>1, <1>8 DEF Alone
  <2>2. f.answer = "yes" \/ f.answer = "no"
    BY <1>1, <1>2 DEF FlightRow
  <2>3. /\ ~replayed /\ flights = {f}
        /\ f.answer = "yes" => Current(f.next, newest) /\ f.token # NoToken
        /\ f.answer = "no" => f.next = NoToken /\ Current(jar, newest)
    BY <2>1 DEF WebInv, NewestIsHeld
  <2>4. Current(jar', newest) /\ flights' = {}
    BY <1>1, <2>2, <2>3, NoTokenIsIssued
  <2> QED BY <1>1, <2>3, <2>4 DEF NewestIsHeld
<1> QED BY <1>5, <1>6, <1>7, <1>8 DEF WebInv, NewestIsHeld

LEMMA LostKeeps ==
  ASSUME WebInv, NEW f \in flights, RefreshLost(f)
  PROVE  WebInv'
<1>1. /\ flights' = flights \ {f} /\ lost' = TRUE
      /\ tabs' = (IF tabs[f.tab].restoring
                  THEN [tabs EXCEPT ![f.tab].restoring = FALSE, ![f.tab].user = FALSE, ![f.tab].access = FALSE]
                  ELSE tabs)
      /\ Resume(f.tab, FALSE)
      /\ UNCHANGED <<jar, newest, ended, revoked, replayed, opened>>
  BY DEF RefreshLost, issuedVars
<1>2. f.tab \in Tab
  BY WebTypes DEF FlightRow
<1>3. /\ calls' \in [Call -> CallRow]
      /\ \A c \in Call : calls'[c].step # "idle" => calls[c].step # "idle" /\ calls'[c].tab = calls[c].tab
  BY <1>1, WebTypes, ResumeKeeps
<1>4. /\ tabs' \in [Tab -> TabRow]
      /\ \A t \in Tab : /\ tabs'[t].leaving = tabs[t].leaving
                        /\ tabs'[t].open \/ tabs'[t].user => tabs[t].open \/ tabs[t].user
  <2>1. tabs[f.tab] \in TabRow
    BY <1>2, WebTypes
  <2> DEFINE row == [tabs[f.tab] EXCEPT !.restoring = FALSE, !.user = FALSE, !.access = FALSE]
  <2>2. tabs' = tabs \/ tabs' = [tabs EXCEPT ![f.tab] = row]
    BY <1>1, <1>2, WebTypes
  <2>3. row \in TabRow /\ row.leaving = tabs[f.tab].leaving /\ row.open = tabs[f.tab].open /\ ~row.user
    BY <2>1 DEF TabRow
  <2> HIDE DEF row
  <2> QED BY <1>2, <2>2, <2>3, WebTypes
<1>5. WebTypeOK'
  BY <1>1, <1>3, <1>4, WebTypes DEF WebTypeOK, TabRow, FlightRow, CallRow
<1>6. TokensAreIssued' /\ OpenedTabsAct'
  BY <1>1, <1>3, <1>4 DEF WebInv, TokensAreIssued, OpenedTabsAct
<1>7. NewestIsHeld'
  BY <1>1 DEF NewestIsHeld, Alone
<1> QED BY <1>5, <1>6, <1>7 DEF WebInv

\* A step that changes only one tab's page, and perhaps ends its calls.
LEMMA PageKeeps ==
  ASSUME WebInv, NEW t \in Tab, NEW row \in TabRow, tabs' = [tabs EXCEPT ![t] = row],
         row.leaving = NoToken \/ row.leaving = tabs[t].leaving \/ row.leaving = jar,
         row.open \/ row.user => t \in opened,
         calls' \in [Call -> CallRow],
         \A c \in Call : calls'[c].step # "idle" => calls[c].step # "idle" /\ calls'[c].tab = calls[c].tab,
         UNCHANGED <<jar, issuedVars, flights, historyVars>>
  PROVE  WebInv'
<1>1. UNCHANGED <<jar, newest, ended, revoked, replayed, flights, opened, lost>>
  BY DEF issuedVars, historyVars
<1>2. tabs' \in [Tab -> TabRow] /\ \A s \in Tab : tabs'[s] = IF s = t THEN row ELSE tabs[s]
  BY WebTypes
<1>3. WebTypeOK'
  BY <1>1, <1>2, WebTypes DEF WebTypeOK, TabRow, FlightRow, CallRow
<1>4. TokensAreIssued'
  BY <1>1, <1>2, NoTokenIsIssued DEF WebInv, TokensAreIssued
<1>5. OpenedTabsAct'
  BY <1>1, <1>2 DEF WebInv, OpenedTabsAct
<1>6. NewestIsHeld'
  BY <1>1 DEF WebInv, NewestIsHeld, Alone
<1> QED BY <1>3, <1>4, <1>5, <1>6 DEF WebInv

LEMMA PageSteps ==
  ASSUME WebInv, NEW t \in Tab, CloseTab(t) \/ SendLogout(t) \/ AccessExpires(t)
  PROVE  WebInv'
<1>0. tabs[t] \in TabRow /\ NoToken \in Token /\ jar \in Token /\ tabs \in [Tab -> TabRow]
      /\ calls \in [Call -> CallRow]
  BY WebTypes, NoTokenIsIssued
<1>1. CASE CloseTab(t)
  <2>1. ClosedTab \in TabRow /\ ~ClosedTab.open /\ ~ClosedTab.user /\ ClosedTab.leaving = NoToken
    BY <1>0 DEF ClosedTab, TabRow
  <2>2. /\ calls' = [c \in Call |-> IF calls[c].tab = t THEN [calls[c] EXCEPT !.step = "idle"] ELSE calls[c]]
        /\ tabs' = [tabs EXCEPT ![t] = ClosedTab] /\ UNCHANGED <<jar, issuedVars, flights, historyVars>>
    BY <1>1 DEF CloseTab
  <2>3. ASSUME NEW c \in Call
        PROVE  calls'[c] \in CallRow /\ (calls'[c].step # "idle" => calls[c].step # "idle" /\ calls'[c].tab = calls[c].tab)
    <3>1. calls[c] \in CallRow /\ (calls'[c] = [calls[c] EXCEPT !.step = "idle"] \/ calls'[c] = calls[c])
      BY <1>0, <2>2
    <3> QED BY <3>1 DEF CallRow
  <2> QED BY <2>1, <2>2, <2>3, PageKeeps
<1>2. CASE SendLogout(t)
  <2> DEFINE row == [tabs[t] EXCEPT !.leaving = jar]
  <2>1. tabs' = [tabs EXCEPT ![t] = row] /\ tabs[t].user /\ UNCHANGED <<jar, issuedVars, flights, calls, historyVars>>
    BY <1>0, <1>2 DEF SendLogout
  <2>2. row \in TabRow /\ row.leaving = jar /\ t \in opened
    BY <1>0, <2>1 DEF TabRow, WebInv, OpenedTabsAct
  <2> HIDE DEF row
  <2> QED BY <1>0, <2>1, <2>2, PageKeeps
<1>3. CASE AccessExpires(t)
  <2> DEFINE row == [tabs[t] EXCEPT !.access = FALSE]
  <2>1. tabs' = [tabs EXCEPT ![t] = row] /\ UNCHANGED <<jar, issuedVars, flights, calls, historyVars>>
    BY <1>0, <1>3 DEF AccessExpires
  <2>2. row \in TabRow /\ row.leaving = tabs[t].leaving /\ (row.open \/ row.user => t \in opened)
    BY <1>0 DEF TabRow, WebInv, OpenedTabsAct
  <2> HIDE DEF row
  <2> QED BY <1>0, <2>1, <2>2, PageKeeps
<1> QED BY <1>1, <1>2, <1>3

\* Opening a tab, or a call that is refused, refreshes.
LEMMA RefreshSteps ==
  ASSUME WebInv, (\E t \in Tab : OpenTab(t)) \/ (\E c \in Call : CallRefused(c))
  PROVE  WebInv'
<1>1. ASSUME NEW t \in Tab, OpenTab(t) PROVE WebInv'
  <2> DEFINE row == [ClosedTab EXCEPT !.open = TRUE, !.restoring = TRUE]
  <2>1. /\ tabs' = [tabs EXCEPT ![t] = row] /\ flights' = JoinRefresh(t, "restore") /\ opened' = opened \cup {t}
        /\ UNCHANGED <<jar, issuedVars, calls, lost>>
    BY <1>1 DEF OpenTab
  <2>2. row \in TabRow /\ row.leaving = NoToken
    <3> DEFINE closed == ClosedTab
    <3>1. closed \in TabRow /\ closed.leaving = NoToken
      BY NoTokenIsIssued DEF ClosedTab, TabRow
    <3>2. row = [closed EXCEPT !.open = TRUE, !.restoring = TRUE]
      OBVIOUS
    <3> HIDE DEF closed
    <3> QED BY <3>1, <3>2 DEF TabRow
  <2> HIDE DEF row
  <2>3. /\ flights' \subseteq FlightRow /\ (\A f \in flights' : f.tab \in opened') /\ NewestIsHeld'
        /\ \A f \in flights' : Issued(f.token, newest) /\ Issued(f.next, newest)
    BY <2>1, JoinKeeps
  <2>4. UNCHANGED <<jar, newest, ended, revoked, replayed, calls, lost>>
    BY <2>1 DEF issuedVars
  <2>5. tabs' \in [Tab -> TabRow] /\ \A s \in Tab : tabs'[s] = IF s = t THEN row ELSE tabs[s]
    BY <2>1, <2>2, WebTypes
  <2>6. WebTypeOK'
    BY <2>1, <2>3, <2>4, <2>5, WebTypes DEF WebTypeOK, TabRow, FlightRow, CallRow
  <2>7. TokensAreIssued'
    BY <2>2, <2>3, <2>4, <2>5, NoTokenIsIssued DEF WebInv, TokensAreIssued
  <2>8. OpenedTabsAct'
    BY <2>1, <2>3, <2>4, <2>5, FS_AddElement DEF WebInv, OpenedTabsAct
  <2> QED BY <2>3, <2>6, <2>7, <2>8 DEF WebInv
<1>2. ASSUME NEW c \in Call, CallRefused(c) PROVE WebInv'
  <2>1. /\ calls[c].step = "stale" /\ calls' = [calls EXCEPT ![c].step = "waiting"]
        /\ flights' = JoinRefresh(calls[c].tab, c) /\ UNCHANGED <<jar, issuedVars, tabs, historyVars>>
    BY <1>2 DEF CallRefused
  <2>2. calls[c] \in CallRow /\ calls[c].tab \in Tab /\ calls[c].tab \in opened
    BY <2>1, WebTypes DEF WebInv, OpenedTabsAct, CallRow
  <2>3. UNCHANGED <<jar, newest, ended, revoked, replayed, tabs, opened, lost>>
    BY <2>1 DEF issuedVars, historyVars
  <2>4. /\ flights' \subseteq FlightRow /\ (\A f \in flights' : f.tab \in opened') /\ NewestIsHeld'
        /\ \A f \in flights' : Issued(f.token, newest) /\ Issued(f.next, newest)
    BY <2>1, <2>2, <2>3, JoinKeeps
  <2>5. /\ calls' \in [Call -> CallRow]
        /\ \A k \in Call : calls'[k].step # "idle" => calls[k].step # "idle" /\ calls'[k].tab = calls[k].tab
    <3> DEFINE row == [calls[c] EXCEPT !.step = "waiting"]
    <3>1. calls' = [calls EXCEPT ![c] = row] /\ row \in CallRow /\ row.tab = calls[c].tab
      BY <2>1, <2>2, WebTypes DEF CallRow
    <3> HIDE DEF row
    <3> QED BY <2>1, <3>1, WebTypes
  <2>6. WebTypeOK'
    BY <2>3, <2>4, <2>5, WebTypes DEF WebTypeOK, TabRow, FlightRow, CallRow
  <2>7. TokensAreIssued' /\ OpenedTabsAct'
    BY <2>3, <2>4, <2>5 DEF WebInv, TokensAreIssued, OpenedTabsAct
  <2> QED BY <2>4, <2>6, <2>7 DEF WebInv
<1> QED BY <1>1, <1>2

LEMMA SignInKeeps ==
  ASSUME WebInv, NEW t \in Tab, SignIn(t)
  PROVE  WebInv'
<1> DEFINE row == [tabs[t] EXCEPT !.user = TRUE, !.access = TRUE]
           token == [family |-> Len(newest'), number |-> 1]
<1>0. tabs[t] \in TabRow /\ tabs \in [Tab -> TabRow]
  BY WebTypes
<1>1. /\ tabs[t].open /\ Len(newest) < MaxLogins /\ newest' = Append(newest, 1) /\ jar' = token
      /\ tabs' = [tabs EXCEPT ![t] = row]
      /\ UNCHANGED <<ended, revoked, replayed, flights, calls, opened, lost>>
  BY <1>0 DEF SignIn, historyVars
<1>2. /\ newest' \in Seq(1..MaxRotations) /\ Len(newest') = Len(newest) + 1
      /\ (\A i \in 1..Len(newest) : newest'[i] = newest[i]) /\ newest'[Len(newest) + 1] = 1
  <2>1. 1 \in 1..MaxRotations
    BY WebAssumption
  <2> QED BY <1>1, <2>1, WebTypes, AppendProperties
<1>3. /\ Len(newest) \in Nat /\ DOMAIN newest' = 1..(Len(newest) + 1)
  BY <1>2, WebTypes
<1>4. row \in TabRow /\ row.leaving = tabs[t].leaving /\ row.open
  BY <1>0, <1>1 DEF TabRow
<1>5. token \in Token /\ token.family = Len(newest) + 1 /\ token.number = 1
  BY <1>1, <1>2, WebTypes, WebAssumption DEF Token
<1> HIDE DEF row, token
<1>6. tabs' \in [Tab -> TabRow] /\ \A s \in Tab : tabs'[s] = IF s = t THEN row ELSE tabs[s]
  BY <1>0, <1>1, <1>4
<1>7. \A k : Issued(k, newest) => Issued(k, newest')
  BY <1>2, <1>3 DEF Issued
<1>8. \A k : Current(k, newest) => Current(k, newest')
  BY <1>2, <1>3 DEF Current
<1>9. Issued(token, newest') /\ Current(token, newest')
  BY <1>2, <1>3, <1>5 DEF Issued, Current
<1>10. WebTypeOK'
  <2>1. Len(newest') <= MaxLogins
    BY <1>1, <1>2, <1>3, WebAssumption
  <2>2. ended' \subseteq DOMAIN newest'
    BY <1>1, <1>3, WebTypes
  <2>3. /\ jar' \in Token /\ revoked' \subseteq Token /\ flights' \subseteq FlightRow
        /\ calls' \in [Call -> CallRow] /\ opened' \subseteq Tab /\ lost' \in BOOLEAN /\ replayed' \in BOOLEAN
    BY <1>1, <1>5, WebTypes
  <2> QED BY <1>2, <1>6, <2>1, <2>2, <2>3 DEF WebTypeOK, TabRow, FlightRow, CallRow
<1>11. TokensAreIssued'
  BY <1>1, <1>4, <1>6, <1>7, <1>9 DEF WebInv, TokensAreIssued
<1>12. OpenedTabsAct'
  BY <1>1, <1>4, <1>6 DEF WebInv, OpenedTabsAct
<1>13. NewestIsHeld'
  BY <1>1, <1>8, <1>9 DEF WebInv, NewestIsHeld, Alone
<1> QED BY <1>10, <1>11, <1>12, <1>13 DEF WebInv

LEMMA LogoutKeeps ==
  ASSUME WebInv, NEW t \in Tab, LogoutAnswered(t)
  PROVE  WebInv'
<1>0. tabs[t] \in TabRow /\ tabs \in [Tab -> TabRow] /\ tabs[t].leaving \in Token
  BY WebTypes DEF TabRow
<1>1. /\ revoked' = revoked \cup {tabs[t].leaving} /\ (jar' = NoToken \/ jar' = jar)
      /\ UNCHANGED <<newest, ended, replayed, flights, calls, opened, lost>>
  BY DEF LogoutAnswered, historyVars
<1>2. \E row \in TabRow : /\ tabs' = [tabs EXCEPT ![t] = row] /\ row.leaving = NoToken
                          /\ row.open \/ row.user => tabs[t].open \/ tabs[t].user
  <2> DEFINE out == [tabs[t] EXCEPT !.user = FALSE, !.access = FALSE, !.leaving = NoToken]
             in == [tabs[t] EXCEPT !.leaving = NoToken]
  <2>1. tabs' = [tabs EXCEPT ![t] = out] \/ tabs' = [tabs EXCEPT ![t] = in]
    BY <1>0 DEF LogoutAnswered
  <2>2. out \in TabRow /\ out.leaving = NoToken /\ (out.open \/ out.user => tabs[t].open \/ tabs[t].user)
    BY <1>0, NoTokenIsIssued DEF TabRow
  <2>3. in \in TabRow /\ in.leaving = NoToken /\ (in.open \/ in.user => tabs[t].open \/ tabs[t].user)
    BY <1>0, NoTokenIsIssued DEF TabRow
  <2> HIDE DEF out, in
  <2> QED BY <2>1, <2>2, <2>3
<1>3. PICK row \in TabRow : /\ tabs' = [tabs EXCEPT ![t] = row] /\ row.leaving = NoToken
                            /\ row.open \/ row.user => tabs[t].open \/ tabs[t].user
  BY <1>2
<1>4. tabs' \in [Tab -> TabRow] /\ \A s \in Tab : tabs'[s] = IF s = t THEN row ELSE tabs[s]
  BY <1>0, <1>3
<1>5. WebTypeOK'
  BY <1>0, <1>1, <1>4, WebTypes, NoTokenIsIssued DEF WebTypeOK, TabRow, FlightRow, CallRow
<1>6. TokensAreIssued'
  BY <1>1, <1>3, <1>4, NoTokenIsIssued DEF WebInv, TokensAreIssued
<1>7. OpenedTabsAct'
  BY <1>1, <1>3, <1>4 DEF WebInv, OpenedTabsAct
<1>8. NewestIsHeld'
  BY <1>1, NoTokenIsIssued DEF WebInv, NewestIsHeld, Alone
<1> QED BY <1>5, <1>6, <1>7, <1>8 DEF WebInv

LEMMA CallKeeps ==
  ASSUME WebInv, NEW c \in Call, CallAnswered(c) \/ \E t \in Tab : SendCall(c, t)
  PROVE  WebInv'
<1>0. calls[c] \in CallRow /\ calls \in [Call -> CallRow]
  BY WebTypes
<1>1. UNCHANGED <<jar, newest, ended, revoked, replayed, tabs, flights, opened, lost>>
  BY DEF CallAnswered, SendCall, issuedVars, historyVars
<1>2. \E row \in CallRow : calls' = [calls EXCEPT ![c] = row] /\ (row.step # "idle" => row.tab \in opened)
  <2>1. CASE CallAnswered(c)
    <3> DEFINE row == [calls[c] EXCEPT !.step = "idle"]
    <3>1. calls' = [calls EXCEPT ![c] = row]
      BY <1>0, <2>1 DEF CallAnswered
    <3>2. row \in CallRow /\ row.step = "idle"
      BY <1>0 DEF CallRow
    <3> HIDE DEF row
    <3> QED BY <3>1, <3>2
  <2>2. ASSUME NEW t \in Tab, SendCall(c, t)
        PROVE  \E row \in CallRow : calls' = [calls EXCEPT ![c] = row] /\ (row.step # "idle" => row.tab \in opened)
    <3> DEFINE row == [tab |-> t, step |-> IF tabs[t].access THEN "sent" ELSE "stale"]
    <3>1. calls' = [calls EXCEPT ![c] = row] /\ t \in opened
      BY <2>2 DEF SendCall, WebInv, OpenedTabsAct
    <3>2. row \in CallRow /\ row.tab = t
      BY DEF CallRow
    <3> HIDE DEF row
    <3> QED BY <3>1, <3>2
  <2> QED BY <2>1, <2>2
<1>3. PICK row \in CallRow : calls' = [calls EXCEPT ![c] = row] /\ (row.step # "idle" => row.tab \in opened)
  BY <1>2
<1>4. calls' \in [Call -> CallRow]
  BY <1>0, <1>3
<1>5. WebTypeOK'
  BY <1>1, <1>4, WebTypes DEF WebTypeOK, TabRow, FlightRow, CallRow
<1>6. TokensAreIssued' /\ NewestIsHeld'
  BY <1>1 DEF WebInv, TokensAreIssued, NewestIsHeld, Alone
<1>7. OpenedTabsAct'
  BY <1>0, <1>1, <1>3 DEF WebInv, OpenedTabsAct
<1> QED BY <1>5, <1>6, <1>7 DEF WebInv

LEMMA NextWeb == WebInv /\ [WebNext]_webVars => WebInv'
<1> SUFFICES ASSUME WebInv, [WebNext]_webVars PROVE WebInv'
  OBVIOUS
<1>1. ASSUME NEW f \in flights, ServerRefreshes(f) PROVE WebInv'
  BY <1>1, ServerKeeps
<1>2. ASSUME NEW f \in flights, RefreshAnswered(f) PROVE WebInv'
  BY <1>2, AnswerWebKeeps
<1>3. ASSUME NEW f \in flights, RefreshLost(f) PROVE WebInv'
  BY <1>3, LostKeeps
<1>4. CASE (\E t \in Tab : OpenTab(t)) \/ (\E c \in Call : CallRefused(c))
  BY <1>4, RefreshSteps
<1>5. ASSUME NEW t \in Tab, CloseTab(t) \/ SendLogout(t) \/ AccessExpires(t) PROVE WebInv'
  BY <1>5, PageSteps
<1>6. ASSUME NEW t \in Tab, SignIn(t) PROVE WebInv'
  BY <1>6, SignInKeeps
<1>7. ASSUME NEW t \in Tab, LogoutAnswered(t) PROVE WebInv'
  BY <1>7, LogoutKeeps
<1>8. ASSUME NEW c \in Call, CallAnswered(c) \/ \E t \in Tab : SendCall(c, t) PROVE WebInv'
  BY <1>8, CallKeeps
<1>9. CASE UNCHANGED webVars
  BY <1>9 DEF webVars, issuedVars, historyVars, WebInv, WebTypeOK, TokensAreIssued, OpenedTabsAct, NewestIsHeld, Alone
<1> QED BY <1>1, <1>2, <1>3, <1>4, <1>5, <1>6, <1>7, <1>8, <1>9 DEF WebNext

LEMMA WebImplies == WebInv => OneTabNeverReplays
<1> SUFFICES ASSUME WebInv, replayed, ~lost PROVE Cardinality(opened) > 1
  BY DEF OneTabNeverReplays
<1>1. PICK s \in opened, t \in opened : s # t
  BY DEF WebInv, NewestIsHeld, Alone
<1>2. IsFiniteSet(opened) /\ {s, t} \subseteq opened
  BY DEF WebInv, OpenedTabsAct
<1>3. IsFiniteSet({s}) /\ Cardinality({s}) = 1
  BY FS_Singleton
<1>4. Cardinality({s} \cup {t}) = 2
  BY <1>1, <1>3, FS_AddElement
<1>5. {s} \cup {t} \in SUBSET opened /\ Cardinality(opened) \in Nat
  BY <1>2, FS_CardinalityType
<1>6. Cardinality({s} \cup {t}) <= Cardinality(opened)
  BY <1>2, <1>5, FS_Subset
<1> QED BY <1>4, <1>5, <1>6

\* A browser with one tab whose refresh answers all arrive never shows the server a
\* token that was rotated, however many calls are refused at once and in whatever order
\* they are answered (lib/api.ts).  One whose answer is lost, or that is reloaded while a
\* refresh is under way, does show it again.
THEOREM OneTabStaysSignedIn == WebSpec => [](WebTypeOK /\ OneTabNeverReplays)
<1>1. WebInv => WebTypeOK
  BY DEF WebInv
<1> QED BY <1>1, InitWeb, NextWeb, WebImplies, PTL DEF WebSpec

-----------------------------------------------------------------------------
(* The page of a server. Of the requests under way one at most is of the   *)
(* loop of a kind that polls, and none while that loop's timer is set;     *)
(* requests that are active, and what they left in the page, are of the    *)
(* server the page is on, unless the page moved on while they were under   *)
(* way.                                                                    *)

ServerRow == [of : Node, access : BOOLEAN]
PageRow == [at : Node \cup {"none"}, tab : PageTab, loading : BOOLEAN, refreshing : BOOLEAN,
            server : ServerRow \cup {Nobody}, live : Node \cup {"none"},
            timers : SUBSET {"inventory", "tick"}, open : BOOLEAN, busy : BOOLEAN]
AskRow == [of : Node, kind : ReadKind \cup {"collect"}, by : {"open", "loop", "tick", "refresh"},
           active : BOOLEAN, was : BOOLEAN]
SubmitRow == [step : {"none", "saving", "saved", "testing"}, of : Node \cup {"none"},
              mounted : BOOLEAN, here : BOOLEAN]

DetailShaped ==
    /\ stored \subseteq Node /\ detail \in PageRow /\ asks \subseteq AskRow /\ submit \in SubmitRow
    /\ jumps \in 0..MaxJumps /\ lagging \in BOOLEAN

\* Each loop asks for one thing, and only a refresh collects.
KindsOfLoops(requests) ==
    \A a \in requests : /\ a.by = "tick" => a.kind = "latest"
                        /\ a.by = "loop" => a.kind = "inventory"
                        /\ a.kind = "collect" => a.by = "refresh"

InLoop(a, k) == a.active /\ (a.by = k \/ (a.by = "loop" /\ a.kind = k))

\* A loop whose timer is set has no request under way, and no two requests are of one
\* loop; before the first loads end nothing polls, and only an agent's page ticks.
LoopsFollow(d, requests) ==
    /\ \A k \in d.timers : \A a \in requests : ~InLoop(a, k)
    /\ \A k \in {"inventory", "tick"} : \A a, b \in requests : InLoop(a, k) /\ InLoop(b, k) => a = b
    /\ d.loading => "inventory" \notin d.timers /\ \A a \in requests : ~InLoop(a, "inventory")
    /\ ~Ticks(d) => "tick" \notin d.timers /\ \A a \in requests : ~InLoop(a, "tick")

\* A page that was left keeps nothing, and what is submitted there is not on a page.
LeftIsLeft ==
    /\ detail.at = "none" => detail = NoPage /\ asks = {} /\ ~submit.mounted
    /\ submit.here => submit.mounted
    /\ submit.step # "none" => submit.of \in Node
    /\ submit.step = "none" => ~submit.mounted

\* All that is under way is of the page, unless it changed its server meanwhile.
RequestsAreOfThePage ==
    ~lagging => (\A a \in asks : a.of = detail.at) /\ (submit.mounted => submit.of = detail.at)

DetailInv ==
    /\ DetailShaped /\ KindsOfLoops(asks) /\ LoopsFollow(detail, asks) /\ LeftIsLeft
    /\ AccessTabsNeedAccess /\ RequestsAreOfThePage /\ DetailIsOfThePage /\ WaitsAreReal

LEMMA NobodyIsNone ==
  /\ Nobody.of = "none" /\ Nobody.of \notin AgentNode /\ Nobody.of \notin Node
  /\ \A r \in ServerRow : r # Nobody /\ r.of \in Node
BY DetailAssumption DEF Nobody, ServerRow

LEMMA NoPageIsAPage ==
  /\ NoPage \in PageRow /\ NoPage.at = "none" /\ NoPage.tab = "overview" /\ NoPage.loading = FALSE
  /\ NoPage.refreshing = FALSE /\ NoPage.server = Nobody /\ NoPage.live = "none"
  /\ NoPage.timers = {} /\ NoPage.open = FALSE /\ NoPage.busy = FALSE
BY DEF NoPage, PageRow, PageTab

\* A request that is made.
LEMMA AskIsARow ==
  ASSUME NEW s \in Node, NEW k \in ReadKind \cup {"collect"}, NEW by \in {"open", "loop", "tick", "refresh"}
  PROVE  /\ Ask(s, k, by) \in AskRow /\ Ask(s, k, by).of = s /\ Ask(s, k, by).kind = k
         /\ Ask(s, k, by).by = by /\ Ask(s, k, by).active = TRUE
BY DEF Ask, AskRow

\* The first loads are of the page that was entered, and they poll nothing.
LEMMA FirstAreOpen ==
  ASSUME NEW s \in Node
  PROVE  /\ FirstAsks(s) \subseteq AskRow /\ KindsOfLoops(FirstAsks(s))
         /\ \A a \in FirstAsks(s) : a.of = s /\ a.by = "open" /\ a.active = TRUE
         /\ \E a \in FirstAsks(s) : a.by = "open" /\ a.active
<1>1. "inventory" \in ReadKind /\ "collect" \notin ReadKind
  BY DEF ReadKind
<1>2. ASSUME NEW k \in ReadKind
      PROVE  /\ Ask(s, k, "open") \in AskRow /\ Ask(s, k, "open").of = s /\ Ask(s, k, "open").kind = k
             /\ Ask(s, k, "open").by = "open" /\ Ask(s, k, "open").active = TRUE
  BY AskIsARow
<1>3. \A a \in FirstAsks(s) : \E k \in ReadKind : a = Ask(s, k, "open")
  BY DEF FirstAsks
<1>4. ASSUME NEW a \in FirstAsks(s)
      PROVE  a \in AskRow /\ a.of = s /\ a.by = "open" /\ a.active = TRUE /\ a.kind # "collect"
  <2>1. PICK k \in ReadKind : a = Ask(s, k, "open")
    BY <1>3
  <2> QED BY <1>1, <1>2, <2>1
<1>5. \A k \in ReadKind : Ask(s, k, "open") \in FirstAsks(s)
  BY DEF FirstAsks
<1>6. \E a \in FirstAsks(s) : a.by = "open" /\ a.active
  BY <1>1, <1>2, <1>5
<1>7. KindsOfLoops(FirstAsks(s))
  BY <1>4 DEF KindsOfLoops
<1> QED BY <1>4, <1>6, <1>7

\* What the page keeps after the server it shows changed: the tab and the tick
\* follow it.
LEMMA ServerShown ==
  ASSUME NEW d0 \in PageRow, NEW srv \in ServerRow \cup {Nobody}, NEW d, d = WithServer(d0, srv)
  PROVE  /\ d \in PageRow /\ d.at = d0.at /\ d.loading = d0.loading /\ d.refreshing = d0.refreshing
         /\ d.live = d0.live /\ d.open = d0.open /\ d.busy = d0.busy /\ d.server = srv
         /\ d.tab = "terminal" /\ srv # Nobody => srv.access
         /\ \/ Ticks(d0) /\ ~Ticks(d) /\ d.timers = d0.timers \ {"tick"}
            \/ ~Ticks(d0) /\ Ticks(d) /\ d.timers = d0.timers \cup {"tick"}
            \/ (Ticks(d) <=> Ticks(d0)) /\ d.timers = d0.timers
<1> DEFINE e == [d0 EXCEPT !.server = srv]
           g == Guarded(e)
<1>1. /\ e \in PageRow /\ e.at = d0.at /\ e.loading = d0.loading /\ e.refreshing = d0.refreshing
      /\ e.live = d0.live /\ e.open = d0.open /\ e.busy = d0.busy /\ e.server = srv
      /\ e.timers = d0.timers
  BY DEF PageRow
<1>2. d = Ticked(d0, g)
  BY DEF WithServer
<1> HIDE DEF e
<1>3. /\ g \in PageRow /\ g.at = d0.at /\ g.loading = d0.loading /\ g.refreshing = d0.refreshing
      /\ g.live = d0.live /\ g.open = d0.open /\ g.busy = d0.busy /\ g.server = srv
      /\ g.timers = d0.timers /\ (g.tab = "terminal" /\ srv # Nobody => srv.access)
  <2>1. g = (IF srv # Nobody /\ ~srv.access /\ e.tab = "terminal" THEN [e EXCEPT !.tab = "overview"] ELSE e)
    BY <1>1, NobodyIsNone DEF Guarded
  <2> HIDE DEF g
  <2>2. CASE srv # Nobody /\ ~srv.access /\ e.tab = "terminal"
    <3>1. g = [e EXCEPT !.tab = "overview"]
      BY <2>1, <2>2
    <3> QED BY <1>1, <3>1 DEF PageRow, PageTab
  <2>3. CASE ~(srv # Nobody /\ ~srv.access /\ e.tab = "terminal")
    BY <1>1, <2>1, <2>3
  <2> QED BY <2>2, <2>3
<1> HIDE DEF g
<1>4. CASE Ticks(d0) = Ticks(g)
  BY <1>2, <1>3, <1>4 DEF Ticked
<1>5. CASE ~(Ticks(d0) = Ticks(g)) /\ Ticks(g)
  <2>1. d = [g EXCEPT !.timers = g.timers \cup {"tick"}] /\ Ticks(g) /\ ~Ticks(d0)
    BY <1>2, <1>3, <1>5 DEF Ticked, PageRow, Ticks
  <2> QED BY <1>3, <2>1 DEF PageRow, Ticks
<1>6. CASE ~(Ticks(d0) = Ticks(g)) /\ ~Ticks(g)
  <2>1. d = [g EXCEPT !.timers = g.timers \ {"tick"}] /\ ~Ticks(g) /\ Ticks(d0)
    BY <1>2, <1>3, <1>6 DEF Ticked, PageRow, Ticks
  <2> QED BY <1>3, <2>1 DEF PageRow, Ticks
<1> QED BY <1>4, <1>5, <1>6

\* The effect that ends tells the requests of its loop, and no other.
LEMMA ToldRequests ==
  ASSUME NEW old, NEW d, NEW requests \in SUBSET AskRow
  PROVE  /\ Told(old, d, requests) \subseteq AskRow
         /\ \A x \in Told(old, d, requests) : \E y \in requests :
               /\ x.of = y.of /\ x.kind = y.kind /\ x.by = y.by
               /\ x.active => x = y
         /\ \A y \in requests : y.by # "tick" => y \in Told(old, d, requests)
         /\ Ticks(old) /\ ~Ticks(d) => \A x \in Told(old, d, requests) : ~InLoop(x, "tick") \/ x.by # "tick"
<1>1. CASE ~(Ticks(old) /\ ~Ticks(d))
  BY <1>1 DEF Told
<1>2. CASE Ticks(old) /\ ~Ticks(d)
  <2> DEFINE told(a) == [a EXCEPT !.active = a.active /\ a.by # "tick"]
  <2>1. Told(old, d, requests) = {told(a) : a \in requests}
    BY <1>2 DEF Told
  <2>2. ASSUME NEW a \in requests
        PROVE  /\ told(a) \in AskRow /\ told(a).of = a.of /\ told(a).kind = a.kind /\ told(a).by = a.by
               /\ told(a).active = (a.active /\ a.by # "tick")
               /\ (told(a).active \/ a.by # "tick" => told(a) = a)
    <3>1. a \in AskRow
      OBVIOUS
    <3>2. told(a) \in AskRow /\ told(a).of = a.of /\ told(a).kind = a.kind /\ told(a).by = a.by
          /\ told(a).active = (a.active /\ a.by # "tick")
      BY <3>1 DEF AskRow
    <3>3. ASSUME a.by # "tick" PROVE told(a) = a
      <4>1. (a.active /\ a.by # "tick") = a.active
        BY <3>1, <3>3 DEF AskRow
      <4>2. [a EXCEPT !.active = a.active] = a
        BY <3>1 DEF AskRow
      <4> QED BY <4>1, <4>2
    <3> HIDE DEF told
    <3> QED BY <3>2, <3>3
  <2> HIDE DEF told
  <2> QED BY <1>2, <2>1, <2>2 DEF InLoop
<1> QED BY <1>1, <1>2

\* Loops stay single when requests end, or are told that their loop has ended.
LEMMA FewerFollow ==
  ASSUME NEW d, NEW requests, NEW fewer, LoopsFollow(d, requests),
         \A x \in fewer : \A k \in {"inventory", "tick"} : InLoop(x, k) => x \in requests,
         d.timers \subseteq {"inventory", "tick"}
  PROVE  LoopsFollow(d, fewer)
BY DEF LoopsFollow

\* A page that keeps its timers, its server and its first loads keeps its loops.
LEMMA SameFollow ==
  ASSUME NEW d, NEW e, NEW requests, LoopsFollow(d, requests),
         e.timers = d.timers, e.server = d.server, e.loading => d.loading
  PROVE  LoopsFollow(e, requests)
BY DEF LoopsFollow, Ticks

LEMMA ServerFollows ==
  ASSUME NEW d0 \in PageRow, NEW srv \in ServerRow \cup {Nobody}, NEW d, d = WithServer(d0, srv),
         NEW requests \in SUBSET AskRow, LoopsFollow(d0, requests), KindsOfLoops(requests)
  PROVE  LoopsFollow(d, Told(d0, d, requests))
<1> DEFINE told == Told(d0, d, requests)
<1>1. /\ \A x \in told : x.active => x \in requests
      /\ \A x \in told : \E y \in requests : x.of = y.of /\ x.kind = y.kind /\ x.by = y.by
      /\ (Ticks(d0) /\ ~Ticks(d) => \A x \in told : ~InLoop(x, "tick") \/ x.by # "tick")
  BY ToldRequests
<1>2. /\ d.loading = d0.loading /\ d0.timers \subseteq {"inventory", "tick"}
      /\ \/ Ticks(d0) /\ ~Ticks(d) /\ d.timers = d0.timers \ {"tick"}
         \/ ~Ticks(d0) /\ Ticks(d) /\ d.timers = d0.timers \cup {"tick"}
         \/ (Ticks(d) <=> Ticks(d0)) /\ d.timers = d0.timers
  BY ServerShown DEF PageRow
<1> HIDE DEF told
<1>3. \A x \in told : \A k \in {"inventory", "tick"} : InLoop(x, k) => x \in requests
  BY <1>1 DEF InLoop
<1>4. \A x \in told : InLoop(x, "tick") => x.by = "tick"
  BY <1>1 DEF InLoop, KindsOfLoops
<1>5. LoopsFollow(d0, told)
  BY <1>2, <1>3, FewerFollow
<1>6. LoopsFollow(d, told)
  BY <1>1, <1>2, <1>4, <1>5 DEF LoopsFollow
<1> QED BY <1>6 DEF told

LEMMA NoSubmitIsIdle ==
  NoSubmit \in SubmitRow /\ ~NoSubmit.mounted /\ ~NoSubmit.here /\ NoSubmit.step = "none"
BY DEF NoSubmit, SubmitRow

LEMMA InitDetail == DetailInit => DetailInv
<1> SUFFICES ASSUME DetailInit PROVE DetailInv
  OBVIOUS
<1>1. NoSubmit \in SubmitRow /\ ~NoSubmit.mounted /\ ~NoSubmit.here /\ NoSubmit.step = "none"
  BY NoSubmitIsIdle
<1>2. DetailShaped
  <2>1. stored \subseteq Node /\ detail \in PageRow /\ asks \subseteq AskRow /\ submit \in SubmitRow
    BY <1>1, NoPageIsAPage DEF DetailInit
  <2>2. jumps \in 0..MaxJumps
    BY DetailAssumption DEF DetailInit
  <2>3. lagging \in BOOLEAN
    BY DEF DetailInit
  <2> QED BY <2>1, <2>2, <2>3 DEF DetailShaped
<1>3. LoopsFollow(detail, asks)
  BY NoPageIsAPage DEF DetailInit, LoopsFollow
<1>4. KindsOfLoops(asks) /\ LeftIsLeft /\ RequestsAreOfThePage
  BY <1>1 DEF DetailInit, KindsOfLoops, LeftIsLeft, RequestsAreOfThePage
<1>5. AccessTabsNeedAccess /\ DetailIsOfThePage /\ WaitsAreReal
  BY NoPageIsAPage, NobodyIsNone DEF DetailInit, AccessTabsNeedAccess, DetailIsOfThePage, WaitsAreReal
<1> QED BY <1>2, <1>3, <1>4, <1>5 DEF DetailInv

LEMMA EnterKeeps ==
  ASSUME DetailInv, NEW s \in Node, NEW t \in PageTab, EnterPage(s, t)
  PROVE  DetailInv'
<1> USE DEF DetailInv
<1>1. /\ detail.at = "none" /\ detail' = Entered(NoPage, s, t) /\ asks' = FirstAsks(s)
      /\ jumps' = 0 /\ lagging' = FALSE /\ UNCHANGED <<stored, submit>>
  BY DEF EnterPage
<1>2. /\ detail' \in PageRow /\ detail'.at = s /\ detail'.tab = t /\ detail'.refreshing = FALSE
      /\ detail'.server = Nobody /\ detail'.live = "none" /\ detail'.timers = {} /\ detail'.busy = FALSE
  <2>1. NoPage \in PageRow /\ NoPage.refreshing = FALSE
    BY NoPageIsAPage
  <2> DEFINE e == Entered(NoPage, s, t)
  <2>2. /\ e \in PageRow /\ e.at = s /\ e.tab = t /\ e.loading = TRUE /\ e.refreshing = NoPage.refreshing
        /\ e.server = Nobody /\ e.live = "none" /\ e.timers = {} /\ e.busy = FALSE
    BY <2>1 DEF Entered, PageRow
  <2>3. detail' = e
    BY <1>1
  <2> HIDE DEF e
  <2> QED BY <2>1, <2>2, <2>3
<1>3. /\ asks' \subseteq AskRow /\ KindsOfLoops(asks') /\ (\E a \in asks' : a.by = "open" /\ a.active)
      /\ \A a \in asks' : a.of = s /\ a.by = "open" /\ a.active = TRUE
  BY <1>1, FirstAreOpen
<1>4. DetailShaped'
  <2>1. jumps' \in 0..MaxJumps
    BY <1>1, DetailAssumption
  <2>3. lagging' \in BOOLEAN
    BY <1>1
  <2>2. stored' \subseteq Node /\ detail' \in PageRow /\ asks' \subseteq AskRow /\ submit' \in SubmitRow
    BY <1>1, <1>2, <1>3 DEF DetailShaped
  <2> QED BY <2>1, <2>2, <2>3 DEF DetailShaped
<1>5. LoopsFollow(detail', asks')
  BY <1>2, <1>3 DEF LoopsFollow, InLoop
<1>6. LeftIsLeft' /\ RequestsAreOfThePage'
  BY <1>1, <1>2, <1>3, DetailAssumption DEF LeftIsLeft, RequestsAreOfThePage
<1>7. AccessTabsNeedAccess' /\ DetailIsOfThePage' /\ WaitsAreReal'
  BY <1>2, <1>3, NobodyIsNone DEF AccessTabsNeedAccess, DetailIsOfThePage, WaitsAreReal
<1> QED BY <1>3, <1>4, <1>5, <1>6, <1>7

LEMMA JumpKeeps ==
  ASSUME DetailInv, NEW s \in Node, NEW t \in PageTab, JumpTo(s, t)
  PROVE  DetailInv'
<1> USE DEF DetailInv
<1> DEFINE inactive(a) == [a EXCEPT !.active = FALSE]
<1>1. /\ detail.at # "none" /\ jumps < MaxJumps /\ detail' = Entered(detail, s, t)
      /\ asks' = {inactive(a) : a \in asks} \cup FirstAsks(s)
      /\ submit' = [submit EXCEPT !.here = FALSE] /\ jumps' = jumps + 1
      /\ lagging' = (lagging \/ asks # {} \/ submit.mounted) /\ UNCHANGED stored
  BY DEF JumpTo
<1>2. /\ detail' \in PageRow /\ detail'.at = s /\ detail'.tab = t /\ detail'.refreshing = detail.refreshing
      /\ detail'.server = Nobody /\ detail'.live = "none" /\ detail'.timers = {} /\ detail'.busy = FALSE
  <2>1. detail \in PageRow
    BY DEF DetailShaped
  <2> DEFINE e == Entered(detail, s, t)
  <2>2. /\ e \in PageRow /\ e.at = s /\ e.tab = t /\ e.loading = TRUE /\ e.refreshing = detail.refreshing
        /\ e.server = Nobody /\ e.live = "none" /\ e.timers = {} /\ e.busy = FALSE
    BY <2>1 DEF Entered, PageRow
  <2>3. detail' = e
    BY <1>1
  <2> HIDE DEF e
  <2> QED BY <2>1, <2>2, <2>3
<1>3. \A a \in asks : /\ inactive(a) \in AskRow /\ inactive(a).kind = a.kind /\ inactive(a).by = a.by
                      /\ inactive(a).of = a.of /\ inactive(a).active = FALSE
  BY DEF DetailShaped, AskRow
<1> HIDE DEF inactive
<1>0. /\ FirstAsks(s) \subseteq AskRow /\ KindsOfLoops(FirstAsks(s))
      /\ \A a \in FirstAsks(s) : a.of = s /\ a.by = "open" /\ a.active = TRUE
      /\ \E a \in FirstAsks(s) : a.by = "open" /\ a.active
  BY FirstAreOpen
<1>4. /\ asks' \subseteq AskRow
      /\ \A a \in asks' : a.active => a.by = "open"
      /\ \E a \in asks' : a.by = "open" /\ a.active
      /\ (\E a \in asks : a.by = "refresh") => \E a \in asks' : a.by = "refresh"
      /\ asks = {} => \A a \in asks' : a.of = s
  <2>1. \A a \in asks' : (\E b \in asks : a = inactive(b)) \/ a \in FirstAsks(s)
    BY <1>1
  <2>2. \A b \in asks : inactive(b) \in asks'
    BY <1>1
  <2> QED BY <1>0, <1>1, <1>3, <2>1, <2>2
<1>5. KindsOfLoops(asks')
  <2>1. \A a \in asks' : (\E b \in asks : a = inactive(b)) \/ a \in FirstAsks(s)
    BY <1>1
  <2> QED BY <1>0, <1>3, <2>1 DEF KindsOfLoops
<1>6. /\ submit' \in SubmitRow /\ submit'.step = submit.step /\ submit'.of = submit.of
      /\ submit'.mounted = submit.mounted /\ submit'.here = FALSE
  BY <1>1 DEF DetailShaped, SubmitRow
<1>7. DetailShaped'
  BY <1>1, <1>2, <1>4, <1>6, DetailAssumption DEF DetailShaped
<1>8. LoopsFollow(detail', asks')
  BY <1>2, <1>4 DEF LoopsFollow, InLoop
<1>9. LeftIsLeft' /\ RequestsAreOfThePage'
  BY <1>1, <1>2, <1>4, <1>6, DetailAssumption DEF LeftIsLeft, RequestsAreOfThePage
<1>10. AccessTabsNeedAccess' /\ DetailIsOfThePage' /\ WaitsAreReal'
  BY <1>2, <1>4, NobodyIsNone DEF AccessTabsNeedAccess, DetailIsOfThePage, WaitsAreReal
<1> QED BY <1>5, <1>7, <1>8, <1>9, <1>10

LEMMA LeaveKeeps ==
  ASSUME DetailInv, LeavePage
  PROVE  DetailInv'
<1> USE DEF DetailInv
<1>1. /\ detail' = NoPage /\ asks' = {} /\ submit' = [submit EXCEPT !.mounted = FALSE, !.here = FALSE]
      /\ UNCHANGED <<stored, jumps, lagging>>
  BY DEF LeavePage, visitVars
<1>2. /\ submit' \in SubmitRow /\ submit'.step = submit.step /\ submit'.of = submit.of
      /\ ~submit'.mounted /\ ~submit'.here
  BY <1>1 DEF DetailShaped, SubmitRow
<1>3. DetailShaped'
  BY <1>1, <1>2, NoPageIsAPage DEF DetailShaped
<1>4. LoopsFollow(detail', asks') /\ KindsOfLoops(asks')
  BY <1>1, NoPageIsAPage DEF LoopsFollow, KindsOfLoops
<1>5. LeftIsLeft' /\ RequestsAreOfThePage'
  BY <1>1, <1>2 DEF LeftIsLeft, RequestsAreOfThePage
<1>6. AccessTabsNeedAccess' /\ DetailIsOfThePage' /\ WaitsAreReal'
  BY <1>1, NoPageIsAPage, NobodyIsNone DEF AccessTabsNeedAccess, DetailIsOfThePage, WaitsAreReal
<1> QED BY <1>3, <1>4, <1>5, <1>6

\* A step of the page that makes no request and ends none, and shows no other server.
LEMMA PageOnlyKeeps ==
  ASSUME DetailInv, NEW d \in PageRow, detail' = d, detail.at # "none",
         d.at = detail.at, d.loading = detail.loading, d.refreshing = detail.refreshing, d.busy = detail.busy,
         d.server = detail.server, d.live = detail.live, d.timers = detail.timers,
         d.tab = "terminal" => detail.tab = "terminal" \/ detail.server.access,
         UNCHANGED <<stored, asks, submit, visitVars>>
  PROVE  DetailInv'
<1> USE DEF DetailInv
<1>1. UNCHANGED <<stored, asks, submit, jumps, lagging>>
  BY DEF visitVars
<1>2. DetailShaped'
  BY <1>1 DEF DetailShaped
<1>3. LoopsFollow(detail', asks') /\ KindsOfLoops(asks')
  BY <1>1, SameFollow
<1>4. LeftIsLeft' /\ RequestsAreOfThePage'
  BY <1>1 DEF LeftIsLeft, RequestsAreOfThePage
<1>5. AccessTabsNeedAccess' /\ DetailIsOfThePage' /\ WaitsAreReal'
  BY <1>1 DEF AccessTabsNeedAccess, DetailIsOfThePage, WaitsAreReal
<1> QED BY <1>2, <1>3, <1>4, <1>5

LEMMA PageOnlySteps ==
  ASSUME DetailInv, (\E t \in PageTab : ShowTab(t)) \/ OpenDialog \/ CloseDialog
  PROVE  DetailInv'
<1>0. detail \in PageRow /\ (detail.at = "none" => detail.server = Nobody)
  BY NoPageIsAPage DEF DetailInv, DetailShaped, LeftIsLeft
<1>1. ASSUME NEW t \in PageTab, ShowTab(t) PROVE DetailInv'
  <2> DEFINE d == [detail EXCEPT !.tab = t]
  <2>1. detail' = d /\ detail.at # "none" /\ (t = "terminal" => detail.server.access)
        /\ UNCHANGED <<stored, asks, submit, visitVars>>
    BY <1>1 DEF ShowTab
  <2>2. /\ d \in PageRow /\ d.at = detail.at /\ d.loading = detail.loading /\ d.refreshing = detail.refreshing
        /\ d.busy = detail.busy /\ d.server = detail.server /\ d.live = detail.live /\ d.timers = detail.timers
        /\ d.tab = t
    BY <1>0 DEF PageRow
  <2> HIDE DEF d
  <2> QED BY <2>1, <2>2, PageOnlyKeeps
<1>2. CASE OpenDialog \/ CloseDialog
  <2>1. PICK o \in BOOLEAN : detail' = [detail EXCEPT !.open = o]
    BY <1>2 DEF OpenDialog, CloseDialog
  <2> DEFINE d == [detail EXCEPT !.open = o]
  <2>2. /\ d \in PageRow /\ d.at = detail.at /\ d.loading = detail.loading /\ d.refreshing = detail.refreshing
        /\ d.busy = detail.busy /\ d.server = detail.server /\ d.live = detail.live /\ d.timers = detail.timers
        /\ d.tab = detail.tab
    BY <1>0 DEF PageRow
  <2>3. detail' = d /\ detail.at # "none" /\ UNCHANGED <<stored, asks, submit, visitVars>>
    BY <1>0, <1>2, <2>1 DEF OpenDialog, CloseDialog, DialogShown
  <2> HIDE DEF d
  <2> QED BY <2>2, <2>3, PageOnlyKeeps
<1> QED BY <1>1, <1>2

LEMMA RereadRequests ==
  ASSUME NEW a \in AskRow
  PROVE  /\ Reread(a) \subseteq AskRow
         /\ \A x \in Reread(a) : x.of = a.of /\ x.by = "refresh" /\ x.kind # "collect"
         /\ a.kind = "collect" => \E x \in Reread(a) : x.by = "refresh"
<1> DEFINE again(k) == [Ask(a.of, k, "refresh") EXCEPT !.active = a.active]
<1>1. ASSUME NEW k \in ReadKind
      PROVE  again(k) \in AskRow /\ again(k).of = a.of /\ again(k).by = "refresh" /\ again(k).kind = k
  <2> DEFINE r == Ask(a.of, k, "refresh")
  <2>1. r \in AskRow /\ r.of = a.of /\ r.kind = k /\ r.by = "refresh"
    <3>1. a.of \in Node
      BY DEF AskRow
    <3> QED BY <3>1 DEF Ask, AskRow, ReadKind
  <2>2. again(k) = [r EXCEPT !.active = a.active] /\ a.active \in BOOLEAN
    BY DEF AskRow
  <2> HIDE DEF r, again
  <2> QED BY <2>1, <2>2 DEF AskRow
<1>2. "inventory" \in ReadKind /\ "collect" \notin ReadKind
  BY DEF ReadKind
<1>3. Reread(a) = IF a.kind # "collect" THEN {} ELSE {again(k) : k \in ReadKind}
  BY DEF Reread
<1> HIDE DEF again
<1> QED BY <1>1, <1>2, <1>3

\* What a request that has settled makes of what the page keeps.
LEMMA SettledPage ==
  ASSUME NEW a \in AskRow, a.by = "loop" => a.kind = "inventory", NEW failed, NEW d \in PageRow
  PROVE  \E e \in PageRow :
         /\ e = Settled(a, failed, d) /\ e.at = d.at /\ e.server = d.server /\ e.live = d.live
         /\ e.busy = d.busy /\ e.tab = d.tab
         /\ \/ /\ a.active /\ a.by \in {"loop", "tick"} /\ e.loading = d.loading
               /\ e.refreshing = d.refreshing /\ e.timers = d.timers \cup {IF a.by = "tick" THEN "tick" ELSE "inventory"}
            \/ /\ a.active /\ a.by = "open" /\ d.loading /\ ~e.loading
               /\ e.refreshing = d.refreshing /\ e.timers = d.timers \cup {"inventory"}
            \/ /\ a.by = "refresh" /\ a.kind # "collect" /\ e.loading = d.loading
               /\ ~e.refreshing /\ e.timers = d.timers
            \/ /\ e.loading = d.loading /\ e.refreshing = d.refreshing /\ e.timers = d.timers
               /\ a.by = "open" /\ a.active /\ d.loading => Others(a) # {}
               /\ a.by = "refresh" /\ a.kind # "collect" => Others(a) # {}
<1> DEFINE polled == a.by \in {"loop", "tick"} /\ a.active
           loaded == /\ a.by = "open" /\ a.active /\ d.loading
                     /\ (Others(a) = {} \/ (failed /\ a.kind = "inventory"))
           refreshed == a.by = "refresh" /\ a.kind # "collect" /\ Others(a) = {}
<1>1. CASE polled
  <2> DEFINE e == [d EXCEPT !.timers = d.timers \cup {IF a.by = "tick" THEN "tick" ELSE "inventory"}]
  <2>1. Settled(a, failed, d) = e
    BY <1>1 DEF Settled
  <2>2. /\ e \in PageRow /\ e.at = d.at /\ e.server = d.server /\ e.live = d.live /\ e.busy = d.busy
        /\ e.tab = d.tab /\ e.loading = d.loading /\ e.refreshing = d.refreshing
        /\ e.timers = d.timers \cup {IF a.by = "tick" THEN "tick" ELSE "inventory"}
    BY DEF PageRow
  <2> HIDE DEF e
  <2> QED BY <1>1, <2>1, <2>2
<1>2. CASE loaded
  <2> DEFINE e == [d EXCEPT !.loading = FALSE, !.timers = d.timers \cup {"inventory"}]
  <2>1. Settled(a, failed, d) = e
    BY <1>2 DEF Settled
  <2>2. /\ e \in PageRow /\ e.at = d.at /\ e.server = d.server /\ e.live = d.live /\ e.busy = d.busy
        /\ e.tab = d.tab /\ ~e.loading /\ e.refreshing = d.refreshing
        /\ e.timers = d.timers \cup {"inventory"}
    BY DEF PageRow
  <2> HIDE DEF e
  <2> QED BY <1>2, <2>1, <2>2
<1>3. CASE refreshed
  <2> DEFINE e == [d EXCEPT !.refreshing = FALSE]
  <2>1. Settled(a, failed, d) = e
    BY <1>3 DEF Settled
  <2>2. /\ e \in PageRow /\ e.at = d.at /\ e.server = d.server /\ e.live = d.live /\ e.busy = d.busy
        /\ e.tab = d.tab /\ e.loading = d.loading /\ ~e.refreshing /\ e.timers = d.timers
    BY DEF PageRow
  <2> HIDE DEF e
  <2> QED BY <1>3, <2>1, <2>2
<1>4. CASE ~polled /\ ~loaded /\ ~refreshed
  <2>1. Settled(a, failed, d) = d
    BY <1>4 DEF Settled
  <2> QED BY <1>4, <2>1
<1> QED BY <1>1, <1>2, <1>3, <1>4

\* A request is answered, or fails: the page may show another server by then.
LEMMA SettleKeeps ==
  ASSUME DetailInv, NEW a \in asks, NEW failed, NEW d \in PageRow,
         detail' = Settled(a, failed, d), asks' = Told(detail, d, (asks \ {a}) \cup Reread(a)),
         UNCHANGED <<stored, visitVars>>,
         submit' \in SubmitRow, submit'.step = submit.step, submit'.of = submit.of,
         submit'.mounted = submit.mounted, submit'.here => submit.here, d.busy => submit'.here,
         d.at = detail.at, d.loading = detail.loading, d.refreshing = detail.refreshing,
         LoopsFollow(d, Told(detail, d, asks)), a.kind # "inventory" => d.server = detail.server,
         d.tab = "terminal" /\ d.server # Nobody => d.server.access,
         ~lagging => d.server.of \in {"none", d.at} /\ d.live \in {"none", d.at}
  PROVE  DetailInv'
<1> USE DEF DetailInv
<1> DEFINE rest == (asks \ {a}) \cup Reread(a)
           told == Told(detail, d, rest)
<1>0. /\ a \in AskRow /\ asks \subseteq AskRow /\ UNCHANGED <<stored, jumps, lagging>>
      /\ a.by = "tick" => a.kind = "latest"
      /\ a.by = "loop" => a.kind = "inventory"
  BY DEF DetailShaped, KindsOfLoops, visitVars
<1>1. /\ Reread(a) \subseteq AskRow
      /\ \A x \in Reread(a) : x.of = a.of /\ x.by = "refresh" /\ x.kind # "collect"
      /\ a.kind = "collect" => \E x \in Reread(a) : x.by = "refresh"
  BY <1>0, RereadRequests
<1>2. rest \in SUBSET AskRow
  BY <1>0, <1>1
<1>3. /\ told \subseteq AskRow
      /\ \A x \in told : \E y \in rest : x.of = y.of /\ x.kind = y.kind /\ x.by = y.by /\ (x.active => x = y)
      /\ \A y \in rest : y.by # "tick" => y \in told
      /\ Ticks(detail) /\ ~Ticks(d) => \A x \in told : ~InLoop(x, "tick") \/ x.by # "tick"
  BY <1>2, ToldRequests
<1>4. \A x \in told : \A k \in {"inventory", "tick"} :
         InLoop(x, k) => x \in asks /\ x # a /\ x \in Told(detail, d, asks)
  <2>1. ASSUME NEW x \in told, NEW k \in {"inventory", "tick"}, InLoop(x, k)
        PROVE  x \in asks /\ x # a
    <3>1. x \in rest /\ x.by # "refresh"
      BY <1>3, <2>1 DEF InLoop
    <3> QED BY <1>1, <3>1
  <2>2. CASE Ticks(detail) /\ ~Ticks(d)
    <3>1. \A y \in asks : y.by # "tick" => y \in Told(detail, d, asks)
      BY <1>0, ToldRequests
    <3>2. \A x \in told : InLoop(x, "inventory") => x.by # "tick"
      BY <2>1 DEF InLoop, KindsOfLoops
    <3>3. \A x \in told : InLoop(x, "tick") => FALSE
      BY <1>3, <2>1, <2>2 DEF InLoop, KindsOfLoops
    <3> QED BY <2>1, <3>1, <3>2, <3>3
  <2>3. CASE ~(Ticks(detail) /\ ~Ticks(d))
    <3>1. Told(detail, d, asks) = asks
      BY <2>3 DEF Told
    <3> QED BY <2>1, <3>1
  <2> QED BY <2>2, <2>3
<1>5. LoopsFollow(d, told)
  <2>1. d.timers \subseteq {"inventory", "tick"}
    BY DEF PageRow
  <2> QED BY <1>4, <2>1, FewerFollow
<1>6. PICK e \in PageRow :
         /\ e = Settled(a, failed, d) /\ e.at = d.at /\ e.server = d.server /\ e.live = d.live
         /\ e.busy = d.busy /\ e.tab = d.tab
         /\ \/ /\ a.active /\ a.by \in {"loop", "tick"} /\ e.loading = d.loading
               /\ e.refreshing = d.refreshing /\ e.timers = d.timers \cup {IF a.by = "tick" THEN "tick" ELSE "inventory"}
            \/ /\ a.active /\ a.by = "open" /\ d.loading /\ ~e.loading
               /\ e.refreshing = d.refreshing /\ e.timers = d.timers \cup {"inventory"}
            \/ /\ a.by = "refresh" /\ a.kind # "collect" /\ e.loading = d.loading
               /\ ~e.refreshing /\ e.timers = d.timers
            \/ /\ e.loading = d.loading /\ e.refreshing = d.refreshing /\ e.timers = d.timers
               /\ a.by = "open" /\ a.active /\ d.loading => Others(a) # {}
               /\ a.by = "refresh" /\ a.kind # "collect" => Others(a) # {}
  BY <1>0, SettledPage
<1>7. detail' = e /\ asks' = told
  BY <1>6
<1> HIDE DEF told, rest
<1>8. Ticks(e) <=> Ticks(d)
  BY <1>6 DEF Ticks
<1>9. LoopsFollow(e, told)
  <2>1. CASE a.active /\ a.by = "loop" /\ e.loading = d.loading /\ e.timers = d.timers \cup {"inventory"}
    <3>1. InLoop(a, "inventory")
      BY <1>0, <2>1 DEF InLoop
    <3>2. \A x \in told : ~InLoop(x, "inventory")
      BY <1>4, <3>1 DEF LoopsFollow
    <3>3. ~d.loading
      BY <3>1 DEF LoopsFollow
    <3> QED BY <1>5, <1>8, <2>1, <3>2, <3>3 DEF LoopsFollow
  <2>2. CASE a.active /\ a.by = "tick" /\ e.loading = d.loading /\ e.timers = d.timers \cup {"tick"}
    <3>1. InLoop(a, "tick")
      BY <2>2 DEF InLoop
    <3>2. \A x \in told : ~InLoop(x, "tick")
      BY <1>4, <3>1 DEF LoopsFollow
    <3>3. Ticks(d)
      BY <1>0, <2>2, <3>1 DEF LoopsFollow, Ticks
    <3> QED BY <1>5, <1>8, <2>2, <3>2, <3>3 DEF LoopsFollow
  <2>3. CASE d.loading /\ ~e.loading /\ e.timers = d.timers \cup {"inventory"}
    BY <1>5, <1>8, <2>3 DEF LoopsFollow
  <2>4. CASE e.loading = d.loading /\ e.timers = d.timers
    BY <1>5, <1>6, <2>4, SameFollow
  <2> QED BY <1>6, <2>1, <2>2, <2>3, <2>4
<1>10. DetailShaped' /\ KindsOfLoops(asks')
  <2>1. DetailShaped'
    BY <1>0, <1>3, <1>6, <1>7 DEF DetailShaped
  <2>2. \A y \in rest : y \in asks \/ y \in Reread(a)
    BY DEF rest
  <2>3. KindsOfLoops(asks')
    BY <1>1, <1>3, <1>7, <2>2 DEF KindsOfLoops
  <2> QED BY <2>1, <2>3
<1>11. LeftIsLeft' /\ RequestsAreOfThePage'
  <2>1. detail.at # "none" /\ e.at = detail.at
    BY <1>6 DEF LeftIsLeft
  <2>2. \A y \in rest : y.of = a.of \/ y \in asks
    BY <1>1 DEF rest
  <2>3. ~lagging => \A x \in told : x.of = detail.at
    BY <1>3, <2>2 DEF RequestsAreOfThePage
  <2>4. LeftIsLeft'
    BY <1>0, <1>7, <2>1 DEF LeftIsLeft
  <2>5. RequestsAreOfThePage'
    BY <1>0, <1>7, <2>1, <2>3 DEF RequestsAreOfThePage
  <2> QED BY <2>4, <2>5
<1>12. AccessTabsNeedAccess' /\ DetailIsOfThePage'
  BY <1>0, <1>6, <1>7 DEF AccessTabsNeedAccess, DetailIsOfThePage
<1>13. \A b \in Others(a) : b \in asks /\ b # a /\ b.by = a.by /\ b.active = a.active
  BY DEF Others
<1>14. \A b \in asks : b # a /\ b.by # "tick" => b \in told
  BY <1>3 DEF rest
<1>15. WaitsAreReal'
  <2>1. ASSUME e.loading PROVE \E b \in told : b.by = "open" /\ b.active
    <3>1. detail.loading /\ d.loading
      BY <1>6, <2>1
    <3>2. PICK w \in asks : w.by = "open" /\ w.active
      BY <3>1 DEF WaitsAreReal
    <3>3. w = a => Others(a) # {}
      BY <1>6, <2>1, <3>1, <3>2
    <3> QED BY <1>13, <1>14, <3>2, <3>3
  <2>2. ASSUME e.refreshing PROVE \E b \in told : b.by = "refresh"
    <3>1. PICK w \in asks : w.by = "refresh"
      BY <1>6, <2>2 DEF WaitsAreReal
    <3>2. CASE w # a
      BY <1>14, <3>1, <3>2
    <3>3. CASE w = a /\ a.kind = "collect"
      <4>1. \A x \in Reread(a) : x \in rest
        BY DEF rest
      <4> QED BY <1>1, <1>3, <3>3, <4>1
    <3>4. CASE w = a /\ a.kind # "collect"
      <4>1. Others(a) # {}
        BY <1>6, <2>2, <3>1, <3>4
      <4> QED BY <1>13, <1>14, <3>1, <3>4, <4>1
    <3> QED BY <3>2, <3>3, <3>4
  <2>3. e.busy => submit'.here
    BY <1>6
  <2> QED BY <1>0, <1>7, <2>1, <2>2, <2>3 DEF WaitsAreReal
<1> QED BY <1>7, <1>9, <1>10, <1>11, <1>12, <1>15

LEMMA AnswerSteps ==
  ASSUME DetailInv, NEW a \in asks, AskAnswered(a) \/ ServerGone(a) \/ AskFails(a)
  PROVE  DetailInv'
<1> USE DEF DetailInv
<1>0. /\ a \in AskRow /\ detail \in PageRow /\ asks \in SUBSET AskRow
      /\ submit \in SubmitRow /\ (detail.busy => submit.here)
  BY DEF DetailShaped, WaitsAreReal
<1>1. CASE AskFails(a)
  <2>1. /\ detail' = Settled(a, TRUE, detail) /\ asks' = Told(detail, detail, (asks \ {a}) \cup Reread(a))
        /\ Told(detail, detail, asks) = asks /\ UNCHANGED <<stored, submit, visitVars>>
    BY <1>1 DEF AskFails, Told
  <2>2. detail.tab = "terminal" /\ detail.server # Nobody => detail.server.access
    BY DEF AccessTabsNeedAccess
  <2>3. ~lagging => detail.server.of \in {"none", detail.at} /\ detail.live \in {"none", detail.at}
    BY DEF DetailIsOfThePage
  <2> QED BY <1>0, <2>1, <2>2, <2>3, SettleKeeps
<1>2. CASE AskAnswered(a)
  <2>1. PICK access \in {a.was, a.of \in stored} :
          LET d == CASE a.kind = "inventory" -> WithServer(detail, Found(a, access))
                     [] a.kind = "latest" -> [detail EXCEPT !.live = a.of]
                     [] OTHER -> detail
          IN detail' = Settled(a, FALSE, d) /\ asks' = Told(detail, d, (asks \ {a}) \cup Reread(a))
    BY <1>2 DEF AskAnswered
  <2> DEFINE d == CASE a.kind = "inventory" -> WithServer(detail, Found(a, access))
                    [] a.kind = "latest" -> [detail EXCEPT !.live = a.of]
                    [] OTHER -> detail
  <2>2. /\ a.kind = "inventory" => d = WithServer(detail, Found(a, access))
        /\ a.kind = "latest" => d = [detail EXCEPT !.live = a.of]
        /\ a.kind = "collect" => d = detail
        /\ detail' = Settled(a, FALSE, d) /\ asks' = Told(detail, d, (asks \ {a}) \cup Reread(a))
        /\ access \in BOOLEAN
    <3>1. access \in BOOLEAN
      <4>1. a.was \in BOOLEAN
        BY <1>0 DEF AskRow
      <4>2. (a.of \in stored) \in BOOLEAN
        OBVIOUS
      <4>3. access = a.was \/ access = (a.of \in stored)
        OBVIOUS
      <4> QED BY <4>1, <4>2, <4>3
    <3>2. detail' = Settled(a, FALSE, d) /\ asks' = Told(detail, d, (asks \ {a}) \cup Reread(a))
      BY <2>1
    <3>3. a.kind = "inventory" => d = WithServer(detail, Found(a, access))
      OBVIOUS
    <3>4. a.kind = "latest" => d = [detail EXCEPT !.live = a.of]
      OBVIOUS
    <3>5. a.kind = "collect" => d = detail
      OBVIOUS
    <3> QED BY <3>1, <3>2, <3>3, <3>4, <3>5
  <2> HIDE DEF d
  <2>3. UNCHANGED <<stored, submit, visitVars>> /\ (~lagging => a.of = detail.at)
    BY <1>2 DEF AskAnswered, RequestsAreOfThePage
  <2>4. CASE a.kind = "inventory"
    <3>1. Found(a, access) \in ServerRow /\ Found(a, access).of = a.of
      BY <1>0, <2>2 DEF Found, ServerRow, AskRow
    <3>2. d = WithServer(detail, Found(a, access))
      BY <2>2, <2>4
    <3>3. /\ d \in PageRow /\ d.at = detail.at /\ d.loading = detail.loading /\ d.refreshing = detail.refreshing
          /\ d.live = detail.live /\ d.busy = detail.busy /\ d.server = Found(a, access)
          /\ d.tab = "terminal" => d.server.access
      BY <1>0, <3>1, <3>2, ServerShown, NobodyIsNone
    <3>4. LoopsFollow(d, Told(detail, d, asks))
      BY <1>0, <3>1, <3>2, ServerFollows
    <3>5. ~lagging => d.server.of \in {"none", d.at} /\ d.live \in {"none", d.at}
      BY <2>3, <3>1, <3>3 DEF DetailIsOfThePage
    <3> QED BY <1>0, <2>2, <2>3, <2>4, <3>3, <3>4, <3>5, SettleKeeps
  <2>5. CASE a.kind = "latest"
    <3>1. d = [detail EXCEPT !.live = a.of] /\ a.of \in Node
      BY <1>0, <2>2, <2>5 DEF AskRow
    <3>2. /\ d \in PageRow /\ d.at = detail.at /\ d.loading = detail.loading /\ d.refreshing = detail.refreshing
          /\ d.live = a.of /\ d.busy = detail.busy /\ d.server = detail.server /\ d.tab = detail.tab
          /\ d.timers = detail.timers
      BY <1>0, <3>1 DEF PageRow
    <3>3. Told(detail, d, asks) = asks
      BY <3>2 DEF Told, Ticks
    <3>4. LoopsFollow(d, Told(detail, d, asks))
      BY <3>2, <3>3, SameFollow
    <3>5. ~lagging => d.server.of \in {"none", d.at} /\ d.live \in {"none", d.at}
      BY <2>3, <3>2 DEF DetailIsOfThePage
    <3>6. d.tab = "terminal" /\ d.server # Nobody => d.server.access
      BY <3>2 DEF AccessTabsNeedAccess
    <3> QED BY <1>0, <2>2, <2>3, <2>5, <3>2, <3>4, <3>5, <3>6, SettleKeeps
  <2>6. CASE a.kind = "collect"
    <3>1. d = detail /\ Told(detail, d, asks) = asks
      BY <2>2, <2>6 DEF Told
    <3>2. LoopsFollow(d, Told(detail, d, asks))
      BY <3>1
    <3>3. ~lagging => d.server.of \in {"none", d.at} /\ d.live \in {"none", d.at}
      BY <3>1 DEF DetailIsOfThePage
    <3>4. d.tab = "terminal" /\ d.server # Nobody => d.server.access
      BY <3>1 DEF AccessTabsNeedAccess
    <3> QED BY <1>0, <2>2, <2>3, <2>6, <3>1, <3>2, <3>3, <3>4, SettleKeeps
  <2> QED BY <1>0, <2>4, <2>5, <2>6 DEF AskRow, ReadKind
<1>3. CASE ServerGone(a)
  <2> DEFINE none == WithServer(detail, Nobody)
             d == [none EXCEPT !.busy = FALSE]
             m == [submit EXCEPT !.here = FALSE]
  <2>1. /\ a.kind = "inventory" /\ Reread(a) = {} /\ detail' = Settled(a, FALSE, d)
        /\ asks' = Told(detail, d, (asks \ {a}) \cup Reread(a)) /\ submit' = m
        /\ UNCHANGED <<stored, visitVars>>
    BY <1>3 DEF ServerGone, Reread
  <2>2. Nobody \in ServerRow \cup {Nobody}
    OBVIOUS
  <2>3. /\ none \in PageRow /\ none.at = detail.at /\ none.loading = detail.loading
        /\ none.refreshing = detail.refreshing /\ none.live = detail.live /\ none.server = Nobody
    BY <1>0, <2>2, ServerShown
  <2>4. LoopsFollow(none, Told(detail, none, asks))
    BY <1>0, <2>2, ServerFollows
  <2> HIDE DEF none
  <2>5. /\ d \in PageRow /\ d.at = detail.at /\ d.loading = detail.loading /\ d.loading = none.loading
        /\ d.refreshing = detail.refreshing /\ d.live = detail.live /\ d.server = Nobody /\ ~d.busy
        /\ d.server = none.server /\ d.timers = none.timers
    BY <2>3 DEF PageRow
  <2>6. m \in SubmitRow /\ m.step = submit.step /\ m.of = submit.of /\ m.mounted = submit.mounted /\ ~m.here
    BY <1>0 DEF SubmitRow
  <2> HIDE DEF d, m
  <2>7. Told(detail, d, asks) = Told(detail, none, asks)
    BY <2>5 DEF Told, Ticks
  <2>8. LoopsFollow(d, Told(detail, d, asks))
    BY <2>4, <2>5, <2>7, SameFollow
  <2>9. ~lagging => d.server.of \in {"none", d.at} /\ d.live \in {"none", d.at}
    BY <2>5, NobodyIsNone DEF DetailIsOfThePage
  <2> QED BY <2>1, <2>5, <2>6, <2>8, <2>9, SettleKeeps
<1> QED BY <1>1, <1>2, <1>3

\* Requests that are made: of a loop whose timer fired, or of a refresh.
LEMMA AskSteps ==
  ASSUME DetailInv, (\E k \in {"inventory", "tick"} : TimerFires(k)) \/ Refresh
  PROVE  DetailInv'
<1> USE DEF DetailInv
<1>0. /\ detail \in PageRow /\ asks \in SUBSET AskRow /\ detail.timers \subseteq {"inventory", "tick"}
      /\ (detail.at = "none" => detail.timers = {})
  BY NoPageIsAPage DEF DetailShaped, LeftIsLeft, PageRow
<1>1. ASSUME NEW k \in {"inventory", "tick"}, TimerFires(k) PROVE DetailInv'
  <2> DEFINE d == [detail EXCEPT !.timers = detail.timers \ {k}]
             r == IF k = "tick" THEN Ask(detail.at, "latest", "tick") ELSE Ask(detail.at, k, "loop")
  <2>1. /\ k \in detail.timers /\ detail' = d /\ asks' = asks \cup {r}
        /\ UNCHANGED <<stored, submit, jumps, lagging>>
    BY <1>0, <1>1 DEF TimerFires, visitVars
  <2>2. detail.at \in Node
    BY <1>0, <2>1 DEF PageRow
  <2>3. /\ r \in AskRow /\ r.of = detail.at /\ r.active
        /\ (k = "tick" => r.by = "tick" /\ r.kind = "latest") /\ (k # "tick" => r.by = "loop" /\ r.kind = "inventory")
    BY <2>2 DEF Ask, AskRow, ReadKind
  <2>4. /\ d \in PageRow /\ d.at = detail.at /\ d.tab = detail.tab /\ d.loading = detail.loading
        /\ d.refreshing = detail.refreshing /\ d.server = detail.server /\ d.live = detail.live
        /\ d.busy = detail.busy /\ d.timers = detail.timers \ {k}
    BY <1>0 DEF PageRow
  <2> HIDE DEF d, r
  <2>5. DetailShaped' /\ KindsOfLoops(asks')
    BY <2>1, <2>3, <2>4 DEF DetailShaped, KindsOfLoops
  <2>6. LoopsFollow(d, asks')
    <3>1. \A j \in {"inventory", "tick"} : InLoop(r, j) <=> j = k
      BY <2>3 DEF InLoop
    <3>2. Ticks(d) <=> Ticks(detail)
      BY <2>4 DEF Ticks
    <3>3. \A a \in asks : ~InLoop(a, k)
      BY <2>1 DEF LoopsFollow
    <3>4. \A j \in d.timers : \A a \in asks' : ~InLoop(a, j)
      BY <1>0, <2>1, <2>4, <3>1 DEF LoopsFollow
    <3>5. \A j \in {"inventory", "tick"} : \A a, b \in asks' : InLoop(a, j) /\ InLoop(b, j) => a = b
      BY <2>1, <3>1, <3>3 DEF LoopsFollow
    <3>6. d.loading => k # "inventory"
      BY <2>1, <2>4 DEF LoopsFollow
    <3>7. ~Ticks(d) => k # "tick"
      BY <2>1, <3>2 DEF LoopsFollow
    <3> QED BY <2>1, <2>4, <3>1, <3>2, <3>4, <3>5, <3>6, <3>7 DEF LoopsFollow
  <2>7. LeftIsLeft' /\ RequestsAreOfThePage'
    BY <2>1, <2>2, <2>3, <2>4, DetailAssumption DEF LeftIsLeft, RequestsAreOfThePage
  <2>8. AccessTabsNeedAccess' /\ DetailIsOfThePage' /\ WaitsAreReal'
    BY <2>1, <2>4 DEF AccessTabsNeedAccess, DetailIsOfThePage, WaitsAreReal
  <2> QED BY <2>1, <2>5, <2>6, <2>7, <2>8
<1>2. CASE Refresh
  <2> DEFINE d == [detail EXCEPT !.refreshing = TRUE]
             new == IF detail.server.of \in AgentNode THEN {Ask(detail.at, k, "refresh") : k \in ReadKind}
                    ELSE {Ask(detail.at, "collect", "refresh")}
  <2>1. /\ detail.at # "none" /\ detail' = d /\ asks' = asks \cup new /\ UNCHANGED <<stored, submit, jumps, lagging>>
    BY <1>2 DEF Refresh, visitVars
  <2>2. detail.at \in Node
    BY <1>0, <2>1 DEF PageRow
  <2>3. ASSUME NEW k \in ReadKind \cup {"collect"}
        PROVE  LET r == Ask(detail.at, k, "refresh") IN r \in AskRow /\ r.of = detail.at /\ r.by = "refresh"
    BY <2>2 DEF Ask, AskRow, ReadKind
  <2>4. /\ \A r \in new : \E k \in ReadKind \cup {"collect"} : r = Ask(detail.at, k, "refresh")
        /\ \E k \in ReadKind \cup {"collect"} : Ask(detail.at, k, "refresh") \in new
    <3>1. "inventory" \in ReadKind
      BY DEF ReadKind
    <3> QED BY <3>1
  <2>5. /\ d \in PageRow /\ d.at = detail.at /\ d.tab = detail.tab /\ d.loading = detail.loading
        /\ d.refreshing /\ d.server = detail.server /\ d.live = detail.live
        /\ d.busy = detail.busy /\ d.timers = detail.timers
    BY <1>0 DEF PageRow
  <2> HIDE DEF d, new
  <2>6. (\A r \in new : r \in AskRow /\ r.of = detail.at /\ r.by = "refresh") /\ \E r \in new : r.by = "refresh"
    BY <2>3, <2>4
  <2>7. DetailShaped' /\ KindsOfLoops(asks')
    BY <2>1, <2>5, <2>6 DEF DetailShaped, KindsOfLoops
  <2>8. LoopsFollow(d, asks')
    <3>1. \A x \in asks' : \A k \in {"inventory", "tick"} : InLoop(x, k) => x \in asks
      BY <2>1, <2>6 DEF InLoop
    <3>2. LoopsFollow(detail, asks')
      BY <1>0, <3>1, FewerFollow
    <3> QED BY <2>5, <3>2, SameFollow
  <2>9. LeftIsLeft' /\ RequestsAreOfThePage'
    BY <2>1, <2>5, <2>6 DEF LeftIsLeft, RequestsAreOfThePage
  <2>10. AccessTabsNeedAccess' /\ DetailIsOfThePage' /\ WaitsAreReal'
    BY <2>1, <2>5, <2>6 DEF AccessTabsNeedAccess, DetailIsOfThePage, WaitsAreReal
  <2> QED BY <2>1, <2>7, <2>8, <2>9, <2>10
<1> QED BY <1>1, <1>2

\* Steps of a submission that the page does not see.
LEMMA SubmitOnlyKeeps ==
  ASSUME DetailInv, NEW m \in SubmitRow, submit' = m, stored' \subseteq Node,
         m.step # "none", m.of = submit.of, submit.step # "none", m.mounted = submit.mounted, m.here = submit.here,
         UNCHANGED <<detail, asks, visitVars>>
  PROVE  DetailInv'
<1> USE DEF DetailInv
<1>1. UNCHANGED <<detail, asks, jumps, lagging>>
  BY DEF visitVars
<1>2. DetailShaped' /\ KindsOfLoops(asks') /\ LoopsFollow(detail', asks')
  BY <1>1 DEF DetailShaped
<1>3. LeftIsLeft' /\ RequestsAreOfThePage'
  BY <1>1 DEF LeftIsLeft, RequestsAreOfThePage
<1>4. AccessTabsNeedAccess' /\ DetailIsOfThePage' /\ WaitsAreReal'
  BY <1>1 DEF AccessTabsNeedAccess, DetailIsOfThePage, WaitsAreReal
<1> QED BY <1>1, <1>2, <1>3, <1>4

\* What the page shows after the dialog's server was updated.
LEMMA UpdatedPage ==
  ASSUME DetailInv, submit.step # "none"
  PROVE  LET u == Updated(detail) IN
         /\ u \in PageRow /\ u.at = detail.at /\ u.loading = detail.loading /\ u.refreshing = detail.refreshing
         /\ u.live = detail.live /\ u.busy = detail.busy
         /\ u.tab = "terminal" /\ u.server # Nobody => u.server.access
         /\ ~lagging => u.server.of \in {"none", u.at}
         /\ Told(detail, u, asks) \subseteq AskRow /\ LoopsFollow(u, Told(detail, u, asks))
         /\ KindsOfLoops(Told(detail, u, asks))
         /\ ~lagging => \A a \in Told(detail, u, asks) : a.of = detail.at
         /\ \A a \in asks : a.by # "tick" => a \in Told(detail, u, asks)
         /\ asks = {} => Told(detail, u, asks) = {}
         /\ ~submit.mounted => u = detail
<1> USE DEF DetailInv
<1>0. /\ detail \in PageRow /\ asks \in SUBSET AskRow /\ submit.of \in Node
  BY DEF DetailShaped, LeftIsLeft
<1> DEFINE u == Updated(detail)
           told == Told(detail, u, asks)
<1>1. /\ told \subseteq AskRow
      /\ \A x \in told : \E y \in asks : x.of = y.of /\ x.kind = y.kind /\ x.by = y.by
      /\ \A a \in asks : a.by # "tick" => a \in told
  BY <1>0, ToldRequests
<1>2. CASE submit.mounted
  <2> DEFINE srv == [of |-> submit.of, access |-> TRUE]
  <2>1. srv \in ServerRow /\ srv.of = submit.of /\ srv.access
    BY <1>0 DEF ServerRow
  <2>2. u = WithServer(detail, srv)
    BY <1>2 DEF Updated
  <2> HIDE DEF srv
  <2>3. /\ u \in PageRow /\ u.at = detail.at /\ u.loading = detail.loading /\ u.refreshing = detail.refreshing
        /\ u.live = detail.live /\ u.busy = detail.busy /\ u.server = srv
    BY <1>0, <2>1, <2>2, ServerShown
  <2>4. LoopsFollow(u, told)
    BY <1>0, <2>1, <2>2, ServerFollows
  <2>5. ~lagging => u.server.of = detail.at
    BY <1>2, <2>1, <2>3 DEF RequestsAreOfThePage
  <2> HIDE DEF u, told
  <2>6. KindsOfLoops(told) /\ (asks = {} => told = {}) /\ (~lagging => \A a \in told : a.of = detail.at)
    BY <1>1 DEF KindsOfLoops, RequestsAreOfThePage
  <2> QED BY <1>1, <1>2, <2>1, <2>3, <2>4, <2>5, <2>6 DEF u, told
<1>3. CASE ~submit.mounted
  <2>1. u = detail /\ told = asks
    BY <1>3 DEF Updated, Told
  <2>2. /\ detail.tab = "terminal" /\ detail.server # Nobody => detail.server.access
        /\ ~lagging => detail.server.of \in {"none", detail.at} /\ \A a \in asks : a.of = detail.at
    BY DEF AccessTabsNeedAccess, DetailIsOfThePage, RequestsAreOfThePage
  <2> HIDE DEF u, told
  <2> QED BY <1>0, <2>1, <2>2 DEF u, told
<1> QED BY <1>2, <1>3

\* The page after a step of the submission.
LEMMA SubmitKeeps ==
  ASSUME DetailInv, NEW m \in SubmitRow, NEW d \in PageRow, NEW requests \in SUBSET AskRow,
         detail' = d, asks' = requests, submit' = m, stored' = stored, UNCHANGED visitVars,
         d.at = detail.at, d.loading = detail.loading, d.refreshing = detail.refreshing, d.live = detail.live,
         d.tab = "terminal" /\ d.server # Nobody => d.server.access,
         ~lagging => d.server.of \in {"none", d.at},
         LoopsFollow(d, requests), KindsOfLoops(requests),
         ~lagging => \A a \in requests : a.of = detail.at,
         \A a \in asks : a.by # "tick" => a \in requests,
         detail.at = "none" => d = detail /\ requests = {},
         m.here => m.mounted, m.mounted => submit.mounted \/ m.of = detail.at, m.mounted => m.step # "none",
         m.mounted => detail.at # "none",
         m.mounted /\ submit.mounted => m.of = submit.of, m.step # "none" => m.of \in Node,
         d.busy => m.here
  PROVE  DetailInv'
<1> USE DEF DetailInv
<1>1. UNCHANGED <<stored, jumps, lagging>>
  BY DEF visitVars
<1>2. DetailShaped'
  BY <1>1 DEF DetailShaped
<1>3. LeftIsLeft' /\ RequestsAreOfThePage'
  BY <1>1 DEF LeftIsLeft, RequestsAreOfThePage
<1>4. AccessTabsNeedAccess' /\ DetailIsOfThePage' /\ WaitsAreReal'
  BY <1>1 DEF AccessTabsNeedAccess, DetailIsOfThePage, WaitsAreReal
<1> QED BY <1>2, <1>3, <1>4

LEMMA SubmitSteps ==
  ASSUME DetailInv, SubmitCredential \/ CredentialStored \/ CredentialSaved \/ TestPassed \/ SubmitFails
  PROVE  DetailInv'
<1> USE DEF DetailInv
<1>0. /\ detail \in PageRow /\ asks \in SUBSET AskRow /\ submit \in SubmitRow /\ stored \subseteq Node
      /\ LoopsFollow(detail, asks) /\ KindsOfLoops(asks)
  BY DEF DetailShaped
<1>1. CASE CredentialStored
  <2> DEFINE m == [submit EXCEPT !.step = "saved"]
  <2>1. /\ submit.step = "saving" /\ stored' = stored \cup {submit.of} /\ submit' = m
        /\ UNCHANGED <<detail, asks, visitVars>>
    BY <1>1 DEF CredentialStored
  <2>2. m \in SubmitRow /\ m.step = "saved" /\ m.of = submit.of /\ m.mounted = submit.mounted /\ m.here = submit.here
    BY <1>0 DEF SubmitRow
  <2>3. stored' \subseteq Node
    BY <1>0, <2>1 DEF LeftIsLeft
  <2> HIDE DEF m
  <2> QED BY <2>1, <2>2, <2>3, SubmitOnlyKeeps
<1>2. CASE SubmitCredential
  <2> DEFINE d == [detail EXCEPT !.busy = TRUE]
             m == [step |-> "saving", of |-> detail.server.of, mounted |-> TRUE, here |-> TRUE]
  <2>1. /\ detail.server # Nobody /\ submit.step = "none" /\ detail' = d /\ submit' = m
        /\ UNCHANGED <<stored, asks, visitVars>>
    BY <1>2 DEF SubmitCredential, DialogShown
  <2>2. /\ d \in PageRow /\ d.at = detail.at /\ d.tab = detail.tab /\ d.loading = detail.loading
        /\ d.refreshing = detail.refreshing /\ d.server = detail.server /\ d.live = detail.live
        /\ d.timers = detail.timers
    BY <1>0 DEF PageRow
  <2>3. detail.server \in ServerRow /\ detail.server.of \in Node /\ detail.at # "none"
    BY <1>0, <2>1, NoPageIsAPage, NobodyIsNone DEF PageRow, LeftIsLeft
  <2>4. m \in SubmitRow /\ m.step = "saving" /\ m.of = detail.server.of /\ m.mounted /\ m.here
    BY <2>3 DEF SubmitRow
  <2>5. /\ detail.tab = "terminal" /\ detail.server # Nobody => detail.server.access
        /\ ~lagging => detail.server.of = detail.at /\ \A a \in asks : a.of = detail.at
    BY <2>3, DetailAssumption DEF AccessTabsNeedAccess, DetailIsOfThePage, RequestsAreOfThePage
  <2>6. ~submit.mounted
    BY <2>1 DEF LeftIsLeft
  <2> HIDE DEF d, m
  <2>7. LoopsFollow(d, asks)
    BY <1>0, <2>2, SameFollow
  <2>8. DetailShaped'
    BY <1>0, <2>1, <2>2, <2>4 DEF DetailShaped, visitVars
  <2>9. LeftIsLeft' /\ RequestsAreOfThePage'
    BY <2>1, <2>2, <2>3, <2>4, <2>5 DEF LeftIsLeft, RequestsAreOfThePage, visitVars
  <2>10. AccessTabsNeedAccess' /\ DetailIsOfThePage' /\ WaitsAreReal'
    BY <2>1, <2>2, <2>4, <2>5 DEF AccessTabsNeedAccess, DetailIsOfThePage, WaitsAreReal, visitVars
  <2> QED BY <1>0, <2>1, <2>7, <2>8, <2>9, <2>10
<1>3. CASE CredentialSaved
  <2> DEFINE m == [submit EXCEPT !.step = "testing"]
             u == Updated(detail)
  <2>1. /\ submit.step = "saved" /\ detail' = u /\ submit' = m /\ asks' = Told(detail, u, asks)
        /\ UNCHANGED <<stored, visitVars>>
    BY <1>3 DEF CredentialSaved
  <2>2. m \in SubmitRow /\ m.step = "testing" /\ m.of = submit.of /\ m.mounted = submit.mounted /\ m.here = submit.here
    BY <1>0 DEF SubmitRow
  <2>3. /\ submit.of \in Node /\ (submit.here => submit.mounted) /\ (submit.mounted => detail.at # "none")
        /\ (detail.at = "none" => asks = {}) /\ (detail.busy => submit.here)
    BY <2>1 DEF LeftIsLeft, WaitsAreReal
  <2> DEFINE told == Told(detail, u, asks)
  <2>4. /\ u \in PageRow /\ u.at = detail.at /\ u.loading = detail.loading /\ u.refreshing = detail.refreshing
         /\ u.live = detail.live /\ u.busy = detail.busy
         /\ (u.tab = "terminal" /\ u.server # Nobody => u.server.access)
         /\ (~lagging => u.server.of \in {"none", u.at})
         /\ told \in SUBSET AskRow /\ LoopsFollow(u, told) /\ KindsOfLoops(told)
         /\ (~lagging => \A a \in told : a.of = detail.at)
         /\ (\A a \in asks : a.by # "tick" => a \in told)
         /\ (asks = {} => told = {}) /\ (~submit.mounted => u = detail)
    BY <2>1, UpdatedPage
  <2> HIDE DEF m, u, told
  <2>5. asks' = told
    BY <2>1 DEF told
  <2> QED BY <2>1, <2>2, <2>3, <2>4, <2>5, SubmitKeeps
<1>4. CASE TestPassed
  <2> DEFINE u == Updated(detail)
             f == Freed(u)
             d == IF submit.mounted THEN [f EXCEPT !.open = FALSE] ELSE f
             told == Told(detail, u, asks)
  <2>1. /\ submit.step = "testing" /\ detail' = d /\ submit' = NoSubmit /\ asks' = told
        /\ UNCHANGED <<stored, visitVars>>
    BY <1>4 DEF TestPassed
  <2>3. /\ submit.of \in Node /\ (submit.here => submit.mounted) /\ (submit.mounted => detail.at # "none")
        /\ (detail.at = "none" => asks = {}) /\ (detail.busy => submit.here)
    BY <2>1 DEF LeftIsLeft, WaitsAreReal
  <2>4. /\ u \in PageRow /\ u.at = detail.at /\ u.loading = detail.loading /\ u.refreshing = detail.refreshing
         /\ u.live = detail.live /\ u.busy = detail.busy
         /\ (u.tab = "terminal" /\ u.server # Nobody => u.server.access)
         /\ (~lagging => u.server.of \in {"none", u.at})
         /\ told \in SUBSET AskRow /\ LoopsFollow(u, told) /\ KindsOfLoops(told)
         /\ (~lagging => \A a \in told : a.of = detail.at)
         /\ (\A a \in asks : a.by # "tick" => a \in told)
         /\ (asks = {} => told = {}) /\ (~submit.mounted => u = detail)
    BY <2>1, UpdatedPage
  <2> HIDE DEF u, told
  <2>5. /\ f \in PageRow /\ f.at = u.at /\ f.loading = u.loading /\ f.refreshing = u.refreshing /\ f.live = u.live
        /\ f.tab = u.tab /\ f.server = u.server /\ f.timers = u.timers /\ ~f.busy
        /\ (~submit.here => f = u)
    <3>1. CASE submit.here
      <4>1. f = [u EXCEPT !.busy = FALSE]
        BY <3>1 DEF Freed
      <4> HIDE DEF f
      <4> QED BY <2>4, <3>1, <4>1 DEF PageRow
    <3>2. CASE ~submit.here
      <4>1. f = u
        BY <3>2 DEF Freed
      <4> QED BY <2>3, <2>4, <3>2, <4>1
    <3> QED BY <3>1, <3>2
  <2> HIDE DEF f
  <2>6. /\ d \in PageRow /\ d.at = f.at /\ d.loading = f.loading /\ d.refreshing = f.refreshing /\ d.live = f.live
        /\ d.tab = f.tab /\ d.server = f.server /\ d.timers = f.timers /\ ~d.busy
        /\ (~submit.mounted => d = f)
    <3>1. CASE submit.mounted
      <4>1. d = [f EXCEPT !.open = FALSE]
        BY <3>1
      <4> HIDE DEF d
      <4> QED BY <2>5, <3>1, <4>1 DEF PageRow
    <3>2. CASE ~submit.mounted
      BY <2>5, <3>2
    <3> QED BY <3>1, <3>2
  <2> HIDE DEF d
  <2>7. LoopsFollow(d, told)
    <3>1. d.timers = u.timers /\ d.server = u.server /\ d.loading = u.loading
      BY <2>5, <2>6
    <3> QED BY <2>4, <3>1, SameFollow
  <2>8. detail.at = "none" => d = detail /\ told = {}
    BY <2>3, <2>4, <2>5, <2>6
  <2> QED BY <2>1, <2>3, <2>4, <2>5, <2>6, <2>7, <2>8, NoSubmitIsIdle, SubmitKeeps
<1>5. CASE SubmitFails
  <2> DEFINE d == Freed(detail)
  <2>1. /\ submit.step # "none" /\ detail' = d /\ submit' = NoSubmit
        /\ UNCHANGED <<stored, asks, visitVars>>
    BY <1>5 DEF SubmitFails
  <2>3. /\ (submit.here => submit.mounted) /\ (submit.mounted => detail.at # "none")
        /\ (detail.at = "none" => asks = {}) /\ (detail.busy => submit.here)
    BY <2>1 DEF LeftIsLeft, WaitsAreReal
  <2>5. /\ d \in PageRow /\ d.at = detail.at /\ d.loading = detail.loading /\ d.refreshing = detail.refreshing
        /\ d.live = detail.live /\ d.tab = detail.tab /\ d.server = detail.server /\ d.timers = detail.timers
        /\ ~d.busy /\ (~submit.here => d = detail)
    <3>1. CASE submit.here
      <4>1. d = [detail EXCEPT !.busy = FALSE]
        BY <3>1 DEF Freed
      <4> HIDE DEF d
      <4> QED BY <1>0, <3>1, <4>1 DEF PageRow
    <3>2. CASE ~submit.here
      <4>1. d = detail
        BY <3>2 DEF Freed
      <4> QED BY <1>0, <2>3, <3>2, <4>1
    <3> QED BY <3>1, <3>2
  <2> HIDE DEF d
  <2>6. /\ d.tab = "terminal" /\ d.server # Nobody => d.server.access
        /\ ~lagging => d.server.of \in {"none", d.at} /\ \A a \in asks : a.of = detail.at
    BY <2>5 DEF AccessTabsNeedAccess, DetailIsOfThePage, RequestsAreOfThePage
  <2>7. LoopsFollow(d, asks)
    BY <1>0, <2>5, SameFollow
  <2>8. detail.at = "none" => d = detail /\ asks = {}
    BY <2>3, <2>5
  <2> QED BY <1>0, <2>1, <2>3, <2>5, <2>6, <2>7, <2>8, NoSubmitIsIdle, SubmitKeeps
<1> QED BY <1>1, <1>2, <1>3, <1>4, <1>5

LEMMA NextDetail == DetailInv /\ [DetailNext]_detailVars => DetailInv'
<1> SUFFICES ASSUME DetailInv, [DetailNext]_detailVars PROVE DetailInv'
  OBVIOUS
<1>1. ASSUME NEW s \in Node, NEW t \in PageTab, EnterPage(s, t) PROVE DetailInv'
  BY <1>1, EnterKeeps
<1>2. ASSUME NEW s \in Node, NEW t \in PageTab, JumpTo(s, t) PROVE DetailInv'
  BY <1>2, JumpKeeps
<1>3. CASE LeavePage
  BY <1>3, LeaveKeeps
<1>4. CASE (\E t \in PageTab : ShowTab(t)) \/ OpenDialog \/ CloseDialog
  BY <1>4, PageOnlySteps
<1>5. ASSUME NEW a \in asks, AskAnswered(a) \/ ServerGone(a) \/ AskFails(a) PROVE DetailInv'
  BY <1>5, AnswerSteps
<1>6. CASE (\E k \in {"inventory", "tick"} : TimerFires(k)) \/ Refresh
  BY <1>6, AskSteps
<1>7. CASE SubmitCredential \/ CredentialStored \/ CredentialSaved \/ TestPassed \/ SubmitFails
  BY <1>7, SubmitSteps
<1>8. CASE UNCHANGED detailVars
  BY <1>8 DEF detailVars, visitVars, DetailInv, DetailShaped, LeftIsLeft, RequestsAreOfThePage,
              AccessTabsNeedAccess, DetailIsOfThePage, WaitsAreReal
<1> QED BY <1>1, <1>2, <1>3, <1>4, <1>5, <1>6, <1>7, <1>8 DEF DetailNext

LEMMA DetailImplies ==
  DetailInv => DetailTypeOK /\ LoopsRunOnce /\ AccessTabsNeedAccess /\ DetailIsOfThePage /\ WaitsAreReal
<1> SUFFICES ASSUME DetailInv PROVE DetailTypeOK /\ LoopsRunOnce
  BY DEF DetailInv
<1> USE DEF DetailInv
<1>1. detail \in PageRow /\ submit \in SubmitRow /\ asks \subseteq AskRow
  BY DEF DetailShaped
<1>2. detail.server.of \in Node \cup {"none"}
  BY <1>1, NobodyIsNone DEF PageRow, ServerRow
<1>3. DetailTypeOK
  BY <1>1, <1>2 DEF DetailTypeOK, DetailShaped, PageRow, SubmitRow, AskRow
<1>4. ASSUME NEW k \in {"inventory", "tick"}
      PROVE  Cardinality({a \in asks : a.active /\ (a.by = k \/ (a.by = "loop" /\ a.kind = k))})
                + (IF k \in detail.timers THEN 1 ELSE 0) <= 1
  <2> DEFINE polls == {a \in asks : a.active /\ (a.by = k \/ (a.by = "loop" /\ a.kind = k))}
  <2>1. \A a, b \in polls : a = b
    BY DEF LoopsFollow, InLoop
  <2>2. k \in detail.timers => polls = {}
    BY DEF LoopsFollow, InLoop
  <2>3. polls = {} \/ \E a : polls = {a}
    BY <2>1
  <2> HIDE DEF polls
  <2>4. Cardinality(polls) \in {0, 1} /\ (polls = {} => Cardinality(polls) = 0)
    BY <2>3, FS_EmptySet, FS_Singleton
  <2> QED BY <2>2, <2>4 DEF polls
<1> QED BY <1>3, <1>4 DEF LoopsRunOnce

\* However the user enters, jumps between and leaves the pages of servers while
\* requests are under way, a page polls each thing in one loop, shows terminal and
\* files only for a server with a credential, shows what was read for the page it is,
\* and says that it waits only while a request is under way, within the limits the
\* properties state (ServerDetailPage.tsx).
THEOREM ServerPageStaysSound ==
  DetailSpec => [](DetailTypeOK /\ LoopsRunOnce /\ AccessTabsNeedAccess /\ DetailIsOfThePage /\ WaitsAreReal)
BY InitDetail, NextDetail, DetailImplies, PTL DEF DetailSpec

-----------------------------------------------------------------------------
(* Remote files. A step of a job writes one file, so what it writes over   *)
(* is what matters: a copy takes a free name or its target was given up,   *)
(* and a move removes its source when the copy lies elsewhere.             *)

DiskType == [FileServer -> [Dir -> [Name -> 0..Partial]]]
JobRow == [id : 1..MaxJobs, kind : {"copy", "cut", "rename", "remove", "write"}, server : FileServer,
           paths : SUBSET Path, to : Dir, as : Name \cup {"same"}, shown : Dir, writing : Path \cup {NoPath}]
ShownRow == [server : FileServer, dir : Dir, names : SUBSET Name]
ListingRow == [server : FileServer, dir : Dir]
ClipboardRow == [mode : {"none", "copy", "cut"}, paths : SUBSET Path]

FilesShaped ==
    /\ client \in {"desktop", "web"} /\ written \in 0..MaxFiles /\ started \in 0..MaxJobs
    /\ disk \in DiskType /\ spent \subseteq 0..Partial
    /\ page \in ShownRow /\ clipboard \in ClipboardRow /\ listings \subseteq ListingRow /\ jobs \subseteq JobRow
    /\ \A j \in jobs : j.writing \in j.paths \cup {NoPath}

FilesInv == FilesShaped /\ NothingIsLost

Lies(d, s, p) == d[s][p.dir][p.name]
Put(d, s, p, c) == [d EXCEPT ![s][p.dir][p.name] = c]

\* Writing a file changes that file and no other.
LEMMA OneFileChanges ==
  ASSUME NEW d \in DiskType, NEW s \in FileServer, NEW p \in Path, NEW c \in 0..Partial,
         NEW e, e = Put(d, s, p, c)
  PROVE  /\ e \in DiskType /\ Lies(e, s, p) = c
         /\ \A t \in FileServer, q \in Path : <<t, q>> # <<s, p>> => Lies(e, t, q) = Lies(d, t, q)
<1>1. p.dir \in Dir /\ p.name \in Name
  BY DEF Path
<1>2. d[s] \in [Dir -> [Name -> 0..Partial]] /\ d[s][p.dir] \in [Name -> 0..Partial]
  BY <1>1 DEF DiskType
<1> DEFINE dirs == [d[s] EXCEPT ![p.dir] = [d[s][p.dir] EXCEPT ![p.name] = c]]
<1>3. e = [d EXCEPT ![s] = dirs]
  BY <1>1, <1>2 DEF DiskType, Put
<1>4. /\ dirs \in [Dir -> [Name -> 0..Partial]] /\ dirs[p.dir][p.name] = c
      /\ \A k \in Dir, n \in Name : (k # p.dir \/ n # p.name) => dirs[k][n] = d[s][k][n]
  BY <1>1, <1>2
<1> HIDE DEF dirs
<1>5. /\ e \in DiskType /\ e[s] = dirs /\ \A t \in FileServer : t # s => e[t] = d[t]
  BY <1>3, <1>4 DEF DiskType
<1>6. Lies(e, s, p) = c
  BY <1>4, <1>5 DEF Lies
<1>7. ASSUME NEW t \in FileServer, NEW q \in Path, t # s \/ q # p
      PROVE  Lies(e, t, q) = Lies(d, t, q)
  <2>1. q.dir \in Dir /\ q.name \in Name /\ (q.dir # p.dir \/ q.name # p.name \/ q = p)
    BY DEF Path
  <2> QED BY <1>4, <1>5, <1>7, <2>1 DEF Lies
<1>8. \A t \in FileServer, q \in Path : <<t, q>> # <<s, p>> => Lies(e, t, q) = Lies(d, t, q)
  BY <1>7
<1> QED BY <1>5, <1>6, <1>8

LEMMA FilesBounds ==
  /\ Partial \in 0..Partial /\ 0 \in 0..Partial /\ Partial \notin 0..MaxFiles
  /\ \A c \in 0..MaxFiles : c \in 0..Partial
  /\ NoPath \in Path \cup {NoPath} /\ Root \in Dir
BY FilesAssumption DEF Partial

\* What a step writes over was given up, or lies elsewhere.
LEMMA StillThere ==
  ASSUME NothingIsLost, written' = written, spent \subseteq spent',
         NEW s \in FileServer, NEW p \in Path,
         \A t \in FileServer, q \in Path : <<t, q>> # <<s, p>> => Lies(disk', t, q) = Lies(disk, t, q),
         Lies(disk, s, p) \in (1..written) \ spent'
             => \E t \in FileServer, q \in Path : Lies(disk', t, q) = Lies(disk, s, p)
  PROVE  NothingIsLost'
<1> SUFFICES ASSUME NEW c \in (1..written) \ spent'
             PROVE  \E t \in FileServer, q \in Path : Lies(disk', t, q) = c
  BY DEF NothingIsLost, Contents, Lies
<1>1. PICK t \in FileServer, q \in Path : Lies(disk, t, q) = c
  BY DEF NothingIsLost, Contents, Lies
<1>2. CASE <<t, q>> = <<s, p>>
  BY <1>1, <1>2
<1>3. CASE <<t, q>> # <<s, p>>
  BY <1>1, <1>3
<1> QED BY <1>2, <1>3

LEMMA InitFiles == FilesInit => FilesInv
<1> SUFFICES ASSUME FilesInit PROVE FilesInv
  OBVIOUS
<1>1. disk \in DiskType
  <2>1. 0..MaxFiles \subseteq 0..Partial
    BY FilesBounds
  <2> QED BY <2>1, FilesAssumption DEF FilesInit, DiskType
<1>2. page \in ShownRow /\ page.server \in FileServer
  BY FilesBounds DEF FilesInit, ShownRow
<1>3. listings \subseteq ListingRow
  BY <1>2, FilesBounds DEF FilesInit, Listing, ListingRow
<1>4. clipboard \in ClipboardRow
  BY DEF FilesInit, NoClipboard, ClipboardRow
<1>5. written \in 0..MaxFiles /\ started \in 0..MaxJobs
  BY StoredAssumption, FilesAssumption DEF FilesInit
<1>6. FilesShaped
  BY <1>1, <1>2, <1>3, <1>4, <1>5 DEF FilesInit, FilesShaped
<1>7. NothingIsLost
  BY StoredAssumption DEF FilesInit, NothingIsLost, Contents
<1> QED BY <1>6, <1>7 DEF FilesInv

\* A step of the page writes nothing; what it starts is a job on what it shows.
LEMMA PageFileSteps ==
  ASSUME FilesInv,
         \/ \E s \in FileServer : SelectServer(s)
         \/ \E d \in Dir : LoadDirectory(d)
         \/ \E l \in listings : ListingAnswered(l)
         \/ \E paths \in SUBSET ShownFiles, how \in {"copy", "cut"} : CopyOrCut(how, paths)
         \/ \E j \in jobs : JobEnds(j)
  PROVE  FilesInv'
<1> USE DEF FilesInv
<1>0. /\ page \in ShownRow /\ page.server \in FileServer /\ page.dir \in Dir /\ ShownFiles \subseteq Path
      /\ listings \subseteq ListingRow /\ clipboard \in ClipboardRow /\ jobs \subseteq JobRow
  BY DEF FilesShaped, ShownRow, ShownFiles, Path
<1>1. UNCHANGED <<client, disk, written, spent, started>>
  BY DEF SelectServer, LoadDirectory, ListingAnswered, CopyOrCut, JobEnds, diskVars
<1>2. NothingIsLost'
  BY <1>1 DEF NothingIsLost, Contents
<1>3. \A s \in FileServer, d \in Dir : Listing(s, d) \in ListingRow
  BY DEF Listing, ListingRow
<1>4. listings' \subseteq ListingRow
  <2>1. CASE \/ \E s \in FileServer : SelectServer(s)
             \/ \E d \in Dir : LoadDirectory(d)
    BY <1>0, <1>3, <2>1, FilesBounds DEF SelectServer, LoadDirectory
  <2>2. CASE \/ \E l \in listings : ListingAnswered(l)
             \/ \E paths \in SUBSET ShownFiles, how \in {"copy", "cut"} : CopyOrCut(how, paths)
    BY <1>0, <2>2 DEF ListingAnswered, CopyOrCut
  <2>3. ASSUME NEW j \in jobs, JobEnds(j) PROVE listings' \subseteq ListingRow
    <3>1. j.server \in FileServer /\ j.shown \in Dir
      BY <1>0 DEF JobRow
    <3>2. Listing(j.server, j.shown) \in ListingRow
      BY <1>3, <3>1
    <3> QED BY <1>0, <2>3, <3>2 DEF JobEnds
  <2> QED BY <2>1, <2>2, <2>3
<1>5. page' \in ShownRow
  <2>1. ASSUME NEW s \in FileServer, SelectServer(s) PROVE page' \in ShownRow
    BY <1>0, <2>1 DEF SelectServer, ShownRow
  <2>2. ASSUME NEW l \in listings, ListingAnswered(l) PROVE page' \in ShownRow
    <3> DEFINE found == {n \in Name : disk[l.server][l.dir][n] # 0}
    <3>1. page' = page \/ page' = [page EXCEPT !.dir = l.dir, !.names = found]
      BY <2>2 DEF ListingAnswered
    <3>2. l.dir \in Dir /\ found \in SUBSET Name
      BY <1>0 DEF ListingRow
    <3> HIDE DEF found
    <3> QED BY <1>0, <3>1, <3>2 DEF ShownRow
  <2>3. CASE \/ \E d \in Dir : LoadDirectory(d)
             \/ \E paths \in SUBSET ShownFiles, how \in {"copy", "cut"} : CopyOrCut(how, paths)
             \/ \E j \in jobs : JobEnds(j)
    BY <1>0, <2>3 DEF LoadDirectory, CopyOrCut, JobEnds
  <2> QED BY <2>1, <2>2, <2>3
<1>6. clipboard' \in ClipboardRow
  <2>1. NoClipboard \in ClipboardRow
    BY DEF NoClipboard, ClipboardRow
  <2>2. ASSUME NEW paths \in SUBSET ShownFiles, NEW how \in {"copy", "cut"}
        PROVE  [mode |-> how, paths |-> paths] \in ClipboardRow
    BY <1>0 DEF ClipboardRow
  <2> QED BY <1>0, <2>1, <2>2 DEF SelectServer, LoadDirectory, ListingAnswered, CopyOrCut, JobEnds
<1>7. jobs' \subseteq jobs
  BY DEF SelectServer, LoadDirectory, ListingAnswered, CopyOrCut, JobEnds
<1> QED BY <1>0, <1>1, <1>2, <1>4, <1>5, <1>6, <1>7 DEF FilesShaped

LEMMA StartKeeps ==
  ASSUME FilesInv, NEW kind \in {"copy", "cut", "rename", "remove", "write"}, NEW paths \in SUBSET Path,
         NEW to \in Dir, NEW as \in Name \cup {"same"}, Start(kind, paths, to, as)
  PROVE  FilesInv'
<1> USE DEF FilesInv
<1> DEFINE job == [id |-> started + 1, kind |-> kind, server |-> page.server, paths |-> paths,
                   to |-> to, as |-> as, shown |-> page.dir, writing |-> NoPath]
<1>1. /\ started < MaxJobs /\ started' = started + 1 /\ jobs' = jobs \cup {job}
      /\ UNCHANGED <<client, disk, written, spent, page, clipboard, listings>>
  BY DEF Start, diskVars, pageVars
<1>2. started' \in 1..MaxJobs
  BY <1>1, FilesAssumption DEF FilesShaped
<1>3. job \in JobRow /\ job.writing = NoPath
  BY <1>1, <1>2 DEF FilesShaped, ShownRow, JobRow
<1> HIDE DEF job
<1>4. FilesShaped'
  BY <1>1, <1>2, <1>3, FilesAssumption DEF FilesShaped
<1>5. NothingIsLost'
  BY <1>1 DEF NothingIsLost, Contents
<1> QED BY <1>4, <1>5

LEMMA StartSteps ==
  ASSUME FilesInv,
         \/ \E paths \in SUBSET ShownFiles : RemoveSelected(paths)
         \/ Paste
         \/ \E n \in Name, p \in ShownFiles : Rename(p, n)
         \/ \E names \in SUBSET Name : Write(names)
  PROVE  FilesInv'
<1>0. /\ page.dir \in Dir /\ ShownFiles \subseteq Path /\ clipboard \in ClipboardRow
      /\ \A names \in SUBSET Name : [dir : {page.dir}, name : names] \in SUBSET Path
  BY DEF FilesInv, FilesShaped, ShownRow, ShownFiles, Path
<1>1. ASSUME NEW paths \in SUBSET ShownFiles, RemoveSelected(paths) PROVE FilesInv'
  <2>1. paths \in SUBSET Path /\ Start("remove", paths, Root, "same")
    BY <1>0, <1>1 DEF RemoveSelected
  <2> QED BY <2>1, FilesBounds, StartKeeps
<1>2. CASE Paste
  <2>1. /\ clipboard.mode \in {"copy", "cut"} /\ clipboard.paths \in SUBSET Path
        /\ Start(clipboard.mode, clipboard.paths, page.dir, "same")
    BY <1>0, <1>2 DEF Paste, ClipboardRow
  <2> QED BY <1>0, <2>1, StartKeeps
<1>3. ASSUME NEW n \in Name, NEW p \in ShownFiles, Rename(p, n) PROVE FilesInv'
  <2>1. {p} \in SUBSET Path /\ Start("rename", {p}, page.dir, n)
    BY <1>0, <1>3 DEF Rename
  <2> QED BY <1>0, <2>1, StartKeeps
<1>4. ASSUME NEW names \in SUBSET Name, Write(names) PROVE FilesInv'
  <2>1. Start("write", [dir : {page.dir}, name : names], page.dir, "same")
    BY <1>4 DEF Write
  <2> QED BY <1>0, <2>1, StartKeeps
<1> QED BY <1>1, <1>2, <1>3, <1>4

\* A step of a job: it writes one file, and goes on.
LEMMA JobKeeps ==
  ASSUME FilesInv, NEW j \in jobs, NEW k \in JobRow, Becomes(j, k), k.writing \in k.paths \cup {NoPath},
         disk' \in DiskType, spent' \subseteq 0..Partial, written' \in 0..MaxFiles, NothingIsLost',
         UNCHANGED <<client, pageVars, started>>
  PROVE  FilesInv'
BY DEF FilesInv, FilesShaped, Becomes, pageVars

LEMMA JobRows ==
  ASSUME FilesInv, NEW j \in jobs, NEW p \in j.paths
  PROVE  /\ j.server \in FileServer /\ p \in Path /\ Target(j, p) \in Path
         /\ [j EXCEPT !.writing = p] \in JobRow /\ [j EXCEPT !.writing = p].writing \in [j EXCEPT !.writing = p].paths
         /\ [j EXCEPT !.paths = @ \ {p}, !.writing = NoPath] \in JobRow
         /\ [j EXCEPT !.paths = @ \ {p}, !.writing = NoPath].writing = NoPath
<1>1. j \in JobRow
  BY DEF FilesInv, FilesShaped
<1>2. p \in Path
  BY <1>1 DEF JobRow
<1>3. Target(j, p) \in Path
  <2>1. j.to \in Dir /\ (IF j.as = "same" THEN p.name ELSE j.as) \in Name
    BY <1>1, <1>2 DEF JobRow, Path
  <2> QED BY <2>1 DEF Target, Path
<1> QED BY <1>1, <1>2, <1>3 DEF JobRow

LEMMA ContentsAreKept ==
  ASSUME FilesInv, NEW s \in FileServer, NEW p \in Path
  PROVE  /\ Contents(s, p) = Lies(disk, s, p) /\ Contents(s, p) \in 0..Partial
         /\ \A c : Holding(s, p, c) = Put(disk, s, p, c)
<1>1. disk \in DiskType /\ p.dir \in Dir /\ p.name \in Name
  BY DEF FilesInv, FilesShaped, Path
<1>2. Contents(s, p) = Lies(disk, s, p) /\ \A c : Holding(s, p, c) = Put(disk, s, p, c)
  BY DEF Contents, Lies, Holding, Put
<1>3. disk[s] \in [Dir -> [Name -> 0..Partial]]
  BY <1>1 DEF DiskType
<1>4. disk[s][p.dir][p.name] \in 0..Partial
  BY <1>1, <1>3
<1> QED BY <1>2, <1>4 DEF Lies

LEMMA JobSteps ==
  ASSUME FilesInv, NEW j \in jobs, NEW p \in j.paths,
         OpenCopy(j, p) \/ CloseCopy(j, p) \/ RemoveFile(j, p) \/ OpenWrite(j, p)
  PROVE  FilesInv'
<1> DEFINE s == j.server
           t == Target(j, p)
           begun == [j EXCEPT !.writing = p]
           done == [j EXCEPT !.paths = @ \ {p}, !.writing = NoPath]
<1>1. /\ s \in FileServer /\ p \in Path /\ t \in Path
      /\ begun \in JobRow /\ begun.writing \in begun.paths /\ done \in JobRow /\ done.writing = NoPath
  BY JobRows
<1>2. FileDone(j, p) <=> Becomes(j, done)
  BY DEF FileDone
<1>3. written' = written /\ UNCHANGED <<client, pageVars, started>>
  BY DEF OpenCopy, CloseCopy, RemoveFile, OpenWrite
<1> HIDE DEF s, t, begun, done
<1>4. /\ Contents(s, p) = Lies(disk, s, p) /\ Contents(s, p) \in 0..Partial
      /\ Contents(s, t) = Lies(disk, s, t) /\ Contents(s, t) \in 0..Partial
      /\ \A c : Holding(s, p, c) = Put(disk, s, p, c)
      /\ \A c : Holding(s, t, c) = Put(disk, s, t, c)
  BY <1>1, ContentsAreKept
<1>5. /\ written \in 0..MaxFiles /\ spent \subseteq 0..Partial /\ disk \in DiskType /\ NothingIsLost
  BY DEF FilesInv, FilesShaped
<1>6. Partial \notin 1..written /\ 0 \notin 1..written
  BY <1>5, FilesAssumption DEF Partial
<1>7. \E q \in {p, t}, c \in 0..Partial, k \in {begun, done} :
        /\ disk' = Holding(s, q, c) /\ Becomes(j, k) /\ spent \subseteq spent' /\ spent' \subseteq 0..Partial
        /\ Contents(s, q) \in spent' \/ Contents(s, q) \in {0, c}
  <2>1. CASE OpenCopy(j, p)
    <3>1. /\ disk' = Holding(s, t, Partial) /\ Becomes(j, begun)
          /\ client = "desktop" => Contents(s, t) = 0
          /\ spent' = IF client = "web" THEN spent \cup {Contents(s, t)} ELSE spent
      BY <2>1 DEF OpenCopy, Exclusive, s, t, begun
    <3>2. client \in {"desktop", "web"}
      BY DEF FilesInv, FilesShaped
    <3> QED BY <1>4, <1>5, <3>1, <3>2, FilesBounds
  <2>2. CASE CloseCopy(j, p)
    <3>1. /\ disk' = Holding(s, t, Contents(s, p)) /\ Becomes(j, done)
          /\ spent' = spent \cup ({Contents(s, t)} \ {Contents(s, p)})
      BY <1>2, <2>2 DEF CloseCopy, s, t
    <3> QED BY <1>4, <1>5, <3>1
  <2>3. CASE RemoveFile(j, p)
    <3>1. disk' = Holding(s, p, 0) /\ Becomes(j, done) /\ spent' = spent \cup {Contents(s, p)}
      BY <1>2, <2>3 DEF RemoveFile, s
    <3> QED BY <1>4, <1>5, <3>1, FilesBounds
  <2>4. CASE OpenWrite(j, p)
    <3>1. disk' = Holding(s, p, Partial) /\ Becomes(j, begun) /\ spent' = spent \cup {Contents(s, p)}
      BY <2>4 DEF OpenWrite, s, begun
    <3> QED BY <1>4, <1>5, <3>1, FilesBounds
  <2> QED BY <2>1, <2>2, <2>3, <2>4
<1>8. PICK q \in {p, t}, c \in 0..Partial, k \in {begun, done} :
        /\ disk' = Holding(s, q, c) /\ Becomes(j, k) /\ spent \subseteq spent' /\ spent' \subseteq 0..Partial
        /\ Contents(s, q) \in spent' \/ Contents(s, q) \in {0, c}
  BY <1>7
<1>9. q \in Path /\ disk' = Put(disk, s, q, c) /\ Contents(s, q) = Lies(disk, s, q)
  BY <1>1, <1>4, <1>8
<1>10. /\ disk' \in DiskType /\ Lies(disk', s, q) = c
       /\ \A r \in FileServer, x \in Path : <<r, x>> # <<s, q>> => Lies(disk', r, x) = Lies(disk, r, x)
  BY <1>1, <1>5, <1>9, OneFileChanges
<1>11. NothingIsLost'
  <2>1. Lies(disk, s, q) \in (1..written) \ spent'
           => \E r \in FileServer, x \in Path : Lies(disk', r, x) = Lies(disk, s, q)
    BY <1>1, <1>6, <1>8, <1>9, <1>10
  <2> QED BY <1>1, <1>3, <1>5, <1>8, <1>9, <1>10, <2>1, StillThere
<1>12. k \in JobRow /\ k.writing \in k.paths \cup {NoPath}
  BY <1>1
<1> QED BY <1>3, <1>5, <1>8, <1>10, <1>11, <1>12, JobKeeps

LEMMA MoveKeepsFiles ==
  ASSUME FilesInv, NEW j \in jobs, NEW p \in j.paths, MoveFile(j, p)
  PROVE  FilesInv'
<1> DEFINE s == j.server
           t == Target(j, p)
           c == Contents(s, p)
           done == [j EXCEPT !.paths = @ \ {p}, !.writing = NoPath]
           mid == Put(disk, s, t, c)
<1>1. /\ s \in FileServer /\ p \in Path /\ t \in Path /\ done \in JobRow /\ done.writing = NoPath
  BY JobRows
<1>2. /\ c # 0 /\ Contents(s, t) = 0 /\ disk' = Put(Holding(s, t, c), s, p, 0)
      /\ Becomes(j, done) /\ UNCHANGED <<client, written, spent, pageVars, started>>
  BY DEF MoveFile, FileDone, Put
<1> HIDE DEF s, t, done
<1>3. /\ c = Lies(disk, s, p) /\ c \in 0..Partial /\ Contents(s, t) = Lies(disk, s, t) /\ Holding(s, t, c) = mid
  BY <1>1, ContentsAreKept
<1>4. /\ written \in 0..MaxFiles /\ spent \subseteq 0..Partial /\ disk \in DiskType /\ NothingIsLost
  BY DEF FilesInv, FilesShaped
<1> HIDE DEF c
<1>5. /\ mid \in DiskType /\ Lies(mid, s, t) = c
      /\ \A r \in FileServer, x \in Path : <<r, x>> # <<s, t>> => Lies(mid, r, x) = Lies(disk, r, x)
  BY <1>1, <1>3, <1>4, OneFileChanges
<1>6. disk' = Put(mid, s, p, 0)
  BY <1>2, <1>3
<1> HIDE DEF mid
<1>7. /\ disk' \in DiskType
      /\ \A r \in FileServer, x \in Path : <<r, x>> # <<s, p>> => Lies(disk', r, x) = Lies(mid, r, x)
  BY <1>1, <1>5, <1>6, FilesBounds, OneFileChanges
<1>8. NothingIsLost'
  <2> SUFFICES ASSUME NEW k \in (1..written) \ spent
               PROVE  \E r \in FileServer, x \in Path : Lies(disk', r, x) = k
    BY <1>2 DEF NothingIsLost, Contents, Lies
  <2>1. PICK r \in FileServer, x \in Path : Lies(disk, r, x) = k
    BY <1>4 DEF NothingIsLost, Contents, Lies
  <2>2. t # p /\ k # 0
    BY <1>2, <1>3
  <2>3. CASE <<r, x>> = <<s, p>>
    <3>1. Lies(disk', s, t) = c
      BY <1>1, <1>5, <1>7, <2>2
    <3> QED BY <1>1, <1>3, <2>1, <2>3, <3>1
  <2>4. CASE <<r, x>> # <<s, p>>
    <3>1. <<r, x>> # <<s, t>>
      BY <1>2, <1>3, <2>1, <2>2
    <3> QED BY <1>5, <1>7, <2>1, <2>4, <3>1
  <2> QED BY <2>3, <2>4
<1> QED BY <1>1, <1>2, <1>4, <1>7, <1>8, JobKeeps

LEMMA CloseWriteKeeps ==
  ASSUME FilesInv, NEW j \in jobs, NEW p \in j.paths, CloseWrite(j, p)
  PROVE  FilesInv'
<1> DEFINE s == j.server
           done == [j EXCEPT !.paths = @ \ {p}, !.writing = NoPath]
<1>1. /\ s \in FileServer /\ p \in Path /\ done \in JobRow /\ done.writing = NoPath
  BY JobRows
<1>2. /\ written < MaxFiles /\ written' = written + 1 /\ disk' = Holding(s, p, written + 1)
      /\ spent' = spent \cup {Contents(s, p)} /\ Becomes(j, done) /\ UNCHANGED <<client, pageVars, started>>
  BY DEF CloseWrite, FileDone
<1> HIDE DEF s, done
<1>3. /\ Contents(s, p) = Lies(disk, s, p) /\ Contents(s, p) \in 0..Partial
      /\ disk' = Put(disk, s, p, written + 1)
  BY <1>1, <1>2, ContentsAreKept
<1>4. /\ written \in 0..MaxFiles /\ spent \subseteq 0..Partial /\ disk \in DiskType /\ NothingIsLost
  BY DEF FilesInv, FilesShaped
<1>5. written + 1 \in 0..MaxFiles /\ written + 1 \in 0..Partial
  BY <1>2, <1>4, FilesAssumption DEF Partial
<1>6. /\ disk' \in DiskType /\ Lies(disk', s, p) = written + 1
      /\ \A r \in FileServer, x \in Path : <<r, x>> # <<s, p>> => Lies(disk', r, x) = Lies(disk, r, x)
  BY <1>1, <1>3, <1>4, <1>5, OneFileChanges
<1>7. NothingIsLost'
  <2> SUFFICES ASSUME NEW k \in (1..(written + 1)) \ spent'
               PROVE  \E r \in FileServer, x \in Path : Lies(disk', r, x) = k
    BY <1>2 DEF NothingIsLost, Contents, Lies
  <2>1. CASE k = written + 1
    BY <1>1, <1>6, <2>1
  <2>2. CASE k # written + 1
    <3>1. k \in (1..written) \ spent /\ k # Lies(disk, s, p)
      BY <1>2, <1>3, <1>4, <2>2
    <3>2. PICK r \in FileServer, x \in Path : Lies(disk, r, x) = k
      BY <1>4, <3>1 DEF NothingIsLost, Contents, Lies
    <3>3. <<r, x>> # <<s, p>>
      BY <3>1, <3>2
    <3> QED BY <1>6, <3>2, <3>3
  <2> QED BY <2>1, <2>2
<1>8. spent' \subseteq 0..Partial /\ written' \in 0..MaxFiles
  BY <1>2, <1>3, <1>4, <1>5
<1> QED BY <1>1, <1>2, <1>6, <1>7, <1>8, JobKeeps

LEMMA NextFiles == FilesInv /\ [FilesNext]_fileVars => FilesInv'
<1> SUFFICES ASSUME FilesInv, [FilesNext]_fileVars PROVE FilesInv'
  OBVIOUS
<1>1. CASE \/ \E s \in FileServer : SelectServer(s)
           \/ \E d \in Dir : LoadDirectory(d)
           \/ \E l \in listings : ListingAnswered(l)
           \/ \E paths \in SUBSET ShownFiles, how \in {"copy", "cut"} : CopyOrCut(how, paths)
           \/ \E j \in jobs : JobEnds(j)
  BY <1>1, PageFileSteps
<1>2. CASE \/ \E paths \in SUBSET ShownFiles : RemoveSelected(paths)
           \/ Paste
           \/ \E n \in Name, p \in ShownFiles : Rename(p, n)
           \/ \E names \in SUBSET Name : Write(names)
  BY <1>2, StartSteps
<1>3. ASSUME NEW j \in jobs, NEW p \in j.paths,
             OpenCopy(j, p) \/ CloseCopy(j, p) \/ RemoveFile(j, p) \/ OpenWrite(j, p)
      PROVE  FilesInv'
  BY <1>3, JobSteps
<1>4. ASSUME NEW j \in jobs, NEW p \in j.paths, MoveFile(j, p) PROVE FilesInv'
  BY <1>4, MoveKeepsFiles
<1>5. ASSUME NEW j \in jobs, NEW p \in j.paths, CloseWrite(j, p) PROVE FilesInv'
  BY <1>5, CloseWriteKeeps
<1>6. CASE UNCHANGED fileVars
  BY <1>6 DEF fileVars, diskVars, pageVars, FilesInv, FilesShaped, NothingIsLost, Contents
<1> QED BY <1>1, <1>2, <1>3, <1>4, <1>5, <1>6 DEF FilesNext

\* Whatever jobs run beside each other and whichever of their steps fail, what was once
\* written lies on some disk until a user deletes it or writes over it, for any
\* servers, directories, names and jobs (sftp-manager.ts, routes/access.ts and their
\* pages).
THEOREM NoFileIsLost == FilesSpec => [](FilesTypeOK /\ NothingIsLost)
<1>1. FilesInv => FilesTypeOK /\ NothingIsLost
  BY DEF FilesInv, FilesShaped, FilesTypeOK, DiskType, ShownRow, ClipboardRow, ListingRow, JobRow
<1> QED BY <1>1, InitFiles, NextFiles, PTL DEF FilesSpec

-----------------------------------------------------------------------------
(* The output of a workload. While the drawer has not moved on, every      *)
(* read and action under way is of the open workload and the chosen tab;   *)
(* and output of another tab stands only while an answer for the chosen    *)
(* one, or an error, is there or on its way.                               *)

DrawerRow == [open : Openable \cup {Closed}, view : View, content : Place,
              auto : BOOLEAN, loading : BOOLEAN, error : BOOLEAN]
LoadRow == [id : 1..MaxLoads, of : Openable, view : View, silent : BOOLEAN, after : BOOLEAN]
ActingRow == [step : {"none", "sent", "loading"}, of : Openable \cup {Closed}, view : View]

\* What an action under way was asked for is a workload.
ActionsHaveAPlace == acting.step # "none" => acting.of \in Openable

\* What is under way for the open workload and tab `at`, while the drawer has not moved.
AllIsOf(at, asked, action) ==
    /\ \A l \in asked : Output(l.of, l.view) = at
    /\ action.step # "none" => Output(action.of, action.view) = at

\* The output is of the tab, or an answer for it is coming or has failed.
ShownOrComing(d, asked, action) ==
    d.content # Blank =>
        /\ d.content.of = d.open
        /\ d.content.view # d.view =>
             \/ d.error
             \/ \E l \in asked : Output(l.of, l.view) = Output(d.open, d.view)
             \/ action.step = "sent" /\ Output(action.of, action.view) = Output(d.open, d.view)

Followed(d, asked, action) ==
    /\ AllIsOf(Output(d.open, d.view), asked, action)
    /\ ShownOrComing(d, asked, action)

DrawerInv ==
    /\ DrawerTypeOK /\ ActionsHaveAPlace
    /\ drawer.open # Closed /\ ~crossed => Followed(drawer, loads, acting)

LEMMA ClosedIsNone == Closed \notin Openable /\ Blank \in Place /\ NoAction \in ActingRow /\ NoAction.step = "none"
BY DrawerAssumption DEF Closed, Blank, Place, NoAction, ActingRow, View

LEMMA InitDrawer == DrawerInit => DrawerInv
<1> SUFFICES ASSUME DrawerInit PROVE DrawerInv
  OBVIOUS
<1>1. drawer \in DrawerRow /\ drawer.open = Closed
  BY ClosedIsNone DEF DrawerInit, DrawerRow, View, Closed
<1>2. acting \in ActingRow /\ acting.step = "none"
  BY ClosedIsNone DEF DrawerInit
<1>3. loads \in SUBSET LoadRow /\ opens \in 0..MaxOpens
  BY DrawerAssumption DEF DrawerInit
<1>4. refreshing \in BOOLEAN /\ crossed \in BOOLEAN
  BY DEF DrawerInit
<1>5. DrawerTypeOK
  BY <1>1, <1>2, <1>3, <1>4 DEF DrawerTypeOK, DrawerRow, ActingRow, LoadRow
<1> QED
  BY <1>1, <1>2, <1>5 DEF DrawerInv, ActionsHaveAPlace

\* A request that was added is of its place.
LEMMA LoadIsARow ==
  ASSUME NEW n \in 1..MaxLoads, NEW w \in Openable, NEW v \in View, NEW silent \in BOOLEAN, NEW after \in BOOLEAN
  PROVE  LoadOf(n, Output(w, v), silent, after) \in LoadRow
         /\ LoadOf(n, Output(w, v), silent, after).of = w /\ LoadOf(n, Output(w, v), silent, after).view = v
BY DEF LoadOf, Output, LoadRow

LEMMA LoadingAdds ==
  ASSUME DrawerInv, NEW w \in Openable, NEW v \in View, NEW silent \in BOOLEAN, NEW after \in BOOLEAN,
         Loading(Output(w, v), silent, after)
  PROVE  \E l \in LoadRow : loads' = loads \cup {l} /\ l.of = w /\ l.view = v
<1>1. PICK n \in 1..MaxLoads : loads' = loads \cup {LoadOf(n, Output(w, v), silent, after)}
  BY DEF Loading, FreeNumbers
<1> QED BY <1>1, LoadIsARow

LEMMA StartedRow ==
  ASSUME NEW d \in DrawerRow, NEW silent \in BOOLEAN
  PROVE  /\ Started(d, silent) \in DrawerRow
         /\ Started(d, silent).open = d.open /\ Started(d, silent).view = d.view
         /\ Started(d, silent).content = d.content
BY DEF Started, DrawerRow

\* One more request for what is shown keeps what is followed.
LEMMA AddedLoadKeeps ==
  ASSUME NEW d \in DrawerRow, NEW e \in DrawerRow, NEW asked \in SUBSET LoadRow, NEW l \in LoadRow, NEW action \in ActingRow,
         NEW then \in ActingRow, AllIsOf(Output(d.open, d.view), asked, action),
         then.step # "none" => action.step # "none" /\ then.of = action.of /\ then.view = action.view,
         d.content # Blank => d.content.of = d.open,
         Output(l.of, l.view) = Output(e.open, e.view),
         e.open = d.open, e.view = d.view, e.content = d.content
  PROVE  Followed(e, asked \cup {l}, then)
BY DEF Followed, AllIsOf, ShownOrComing, Output

LEMMA Shapes ==
  ASSUME DrawerInv
  PROVE  drawer \in DrawerRow /\ loads \in SUBSET LoadRow /\ acting \in ActingRow /\ View = {"logs", "details"}
         /\ crossed \in BOOLEAN /\ refreshing \in BOOLEAN /\ opens \in 0..MaxOpens
         /\ (drawer.open # Closed => drawer.open \in Openable)
BY DEF DrawerInv, DrawerTypeOK, DrawerRow, LoadRow, ActingRow, View

LEMMA DrawerInvFrom ==
  ASSUME drawer' \in DrawerRow, loads' \in SUBSET LoadRow, acting' \in ActingRow, crossed' \in BOOLEAN,
         refreshing' \in BOOLEAN, opens' \in 0..MaxOpens, acting'.step # "none" => acting'.of \in Openable,
         drawer'.open # Closed /\ ~crossed' => Followed(drawer', loads', acting')
  PROVE  DrawerInv'
BY DEF DrawerInv, DrawerTypeOK, ActionsHaveAPlace, DrawerRow, LoadRow, ActingRow

\* The drawer asks again for what it shows.
LEMMA AskedAgainKeeps ==
  ASSUME DrawerInv, NEW w \in Openable, NEW v \in View, NEW silent \in BOOLEAN, NEW after \in BOOLEAN,
         NEW d \in DrawerRow, d.open = drawer.open, d.view = drawer.view, d.content = drawer.content,
         drawer' = Started(d, silent), Loading(Output(w, v), silent, after), acting' \in ActingRow,
         acting'.step # "none" => acting.step # "none" /\ acting'.of = acting.of /\ acting'.view = acting.view,
         drawer.open # Closed /\ ~crossed => Output(w, v) = Here,
         UNCHANGED <<refreshing, crossed, opens>>
  PROVE  DrawerInv'
<1>1. PICK l \in LoadRow : loads' = loads \cup {l} /\ l.of = w /\ l.view = v
  BY LoadingAdds
<1>2. /\ drawer' \in DrawerRow /\ drawer'.open = drawer.open /\ drawer'.view = drawer.view
      /\ drawer'.content = drawer.content
  BY StartedRow
<1>3. ASSUME drawer'.open # Closed, ~crossed' PROVE Followed(drawer', loads', acting')
  <2>1. Followed(drawer, loads, acting) /\ Output(l.of, l.view) = Output(drawer'.open, drawer'.view)
    BY <1>1, <1>2, <1>3 DEF DrawerInv, Here
  <2>2. drawer.content # Blank => drawer.content.of = drawer.open
    BY <2>1 DEF Followed, ShownOrComing
  <2>3. AllIsOf(Output(drawer.open, drawer.view), loads, acting)
    BY <2>1 DEF Followed
  <2>4. Followed(drawer', loads \cup {l}, acting')
    BY <1>2, <2>1, <2>2, <2>3, Shapes, AddedLoadKeeps
  <2> QED BY <1>1, <2>4
<1>4. loads' \in SUBSET LoadRow
  BY <1>1, Shapes
<1>5. acting'.step # "none" => acting'.of \in Openable
  BY DEF DrawerInv, ActionsHaveAPlace
<1> QED
  BY <1>2, <1>3, <1>4, <1>5, Shapes, DrawerInvFrom

LEMMA OpenSteps ==
  ASSUME DrawerInv, NEW w \in Openable, OpenDrawer(w)
  PROVE  DrawerInv'
<1> DEFINE d == [ClearedOutput(drawer) EXCEPT !.open = w]
           at == Output(w, "logs")
<1>1. d \in DrawerRow /\ d.open = w /\ d.view = "logs" /\ d.content = Blank
  BY Shapes, ClosedIsNone DEF ClearedOutput, DrawerRow, View
<1>2. drawer' = Started(d, FALSE)
  BY DEF OpenDrawer
<1>3. PICK n, k \in 1..MaxLoads :
        loads' = loads \cup {LoadOf(n, Output(w, drawer.view), FALSE, FALSE), LoadOf(k, Output(w, "logs"), FALSE, FALSE)}
  <2>1. PICK n, k \in FreeNumbers :
          loads' = loads \cup {LoadOf(n, Output(w, drawer.view), FALSE, FALSE), LoadOf(k, Output(w, "logs"), FALSE, FALSE)}
    BY Zenon DEF OpenDrawer
  <2> QED BY <2>1 DEF FreeNumbers
<1> DEFINE first  == LoadOf(n, Output(w, drawer.view), FALSE, FALSE)
           second == LoadOf(k, Output(w, "logs"), FALSE, FALSE)
<1>4. drawer.view \in View /\ "logs" \in View
  BY Shapes DEF DrawerRow
<1>5. first \in LoadRow /\ first.of = w /\ first.view = drawer.view
  BY <1>4, LoadIsARow
<1>6. second \in LoadRow /\ second.of = w /\ second.view = "logs"
  BY <1>4, LoadIsARow
<1> HIDE DEF d, first, second
<1>7. drawer' \in DrawerRow /\ drawer'.open = w /\ drawer'.view = "logs" /\ drawer'.content = Blank
  BY <1>1, <1>2, StartedRow
<1>8. /\ crossed' = (Elsewhere(at) \/ drawer.view # "logs") /\ opens' = opens + 1 /\ opens < MaxOpens
      /\ acting' = acting /\ refreshing' = refreshing
  BY DEF OpenDrawer
<1>9. loads' = loads \cup {first, second} /\ loads' \in SUBSET LoadRow
  BY <1>3, <1>5, <1>6, Shapes DEF first, second
<1>10. crossed' \in BOOLEAN
  BY <1>8 DEF Elsewhere
<1>11. opens' \in 0..MaxOpens
  BY <1>8, Shapes, DrawerAssumption
<1>12. ASSUME ~crossed' PROVE Followed(drawer', loads', acting')
  <2>1. AllIsOf(at, loads', acting')
    BY <1>5, <1>6, <1>8, <1>9, <1>12 DEF Elsewhere, AllIsOf, Output
  <2> QED BY <1>7, <2>1 DEF Followed, ShownOrComing
<1>13. acting'.step # "none" => acting'.of \in Openable
  BY <1>8 DEF DrawerInv, ActionsHaveAPlace
<1> QED
  BY <1>7, <1>8, <1>9, <1>10, <1>11, <1>12, <1>13, Shapes, DrawerInvFrom

LEMMA TabSteps ==
  ASSUME DrawerInv, NEW v \in View, ChooseTab(v)
  PROVE  DrawerInv'
<1> DEFINE d == [drawer EXCEPT !.view = v]
           at == Output(drawer.open, v)
<1>1. d \in DrawerRow /\ d.open = drawer.open /\ d.view = v /\ d.content = drawer.content
  BY Shapes DEF DrawerRow
<1>2. drawer' = Started(d, FALSE) /\ drawer.open \in Openable /\ Loading(Output(drawer.open, v), FALSE, FALSE)
  BY Shapes DEF ChooseTab
<1> HIDE DEF d
<1>3. drawer' \in DrawerRow /\ drawer'.open = drawer.open /\ drawer'.view = v /\ drawer'.content = drawer.content
  BY <1>1, <1>2, StartedRow
<1>4. PICK l \in LoadRow : loads' = loads \cup {l} /\ l.of = drawer.open /\ l.view = v
  BY <1>2, LoadingAdds
<1>5. crossed' = (crossed \/ Elsewhere(at)) /\ UNCHANGED <<acting, refreshing, opens>>
  BY DEF ChooseTab
<1>6. crossed' \in BOOLEAN
  BY <1>5 DEF Elsewhere
<1>7. ASSUME ~crossed' PROVE Followed(drawer', loads', acting')
  <2>1. Followed(drawer, loads, acting)
    BY <1>2, <1>5, <1>7, ClosedIsNone DEF DrawerInv
  <2>2. AllIsOf(at, loads', acting')
    BY <1>4, <1>5, <1>7 DEF Elsewhere, AllIsOf, Output
  <2>3. ShownOrComing(drawer', loads', acting')
    BY <1>3, <1>4, <2>1 DEF Followed, ShownOrComing
  <2> QED BY <1>3, <2>2, <2>3 DEF Followed
<1>8. loads' \in SUBSET LoadRow /\ (acting'.step # "none" => acting'.of \in Openable)
  BY <1>4, <1>5, Shapes DEF DrawerInv, ActionsHaveAPlace
<1> QED
  BY <1>3, <1>5, <1>6, <1>7, <1>8, Shapes, DrawerInvFrom

\* Nothing is asked for and the place stays: only the output or the error may change.
LEMMA SettledKeeps ==
  ASSUME DrawerInv, drawer' \in DrawerRow, drawer'.open = drawer.open, drawer'.view = drawer.view,
         loads' \subseteq loads, acting' \in ActingRow,
         acting'.step # "none" => acting'.of = acting.of /\ acting'.view = acting.view /\ acting.step # "none",
         refreshing' \in BOOLEAN, UNCHANGED <<crossed, opens>>,
         drawer.open # Closed /\ ~crossed => ShownOrComing(drawer', loads', acting')
  PROVE  DrawerInv'
<1>1. ASSUME drawer'.open # Closed, ~crossed' PROVE Followed(drawer', loads', acting')
  <2>1. AllIsOf(Output(drawer.open, drawer.view), loads, acting) /\ ShownOrComing(drawer', loads', acting')
    BY <1>1 DEF DrawerInv, Followed
  <2>2. AllIsOf(Output(drawer.open, drawer.view), loads', acting')
    BY <2>1 DEF AllIsOf
  <2> QED BY <2>1, <2>2 DEF Followed
<1>2. loads' \in SUBSET LoadRow /\ (acting'.step # "none" => acting'.of \in Openable)
  BY Shapes DEF DrawerInv, ActionsHaveAPlace
<1> QED
  BY <1>1, <1>2, Shapes, DrawerInvFrom

LEMMA CloseSteps ==
  ASSUME DrawerInv, CloseDrawer
  PROVE  DrawerInv'
<1>1. drawer' \in DrawerRow /\ drawer'.open = Closed
  BY Shapes DEF CloseDrawer, DrawerRow
<1>2. UNCHANGED <<loads, acting, refreshing, crossed, opens>>
  BY DEF CloseDrawer
<1>3. acting'.step # "none" => acting'.of \in Openable
  BY <1>2 DEF DrawerInv, ActionsHaveAPlace
<1> QED
  BY <1>1, <1>2, <1>3, Shapes, DrawerInvFrom

LEMMA AskingSteps ==
  ASSUME DrawerInv, ToggleRefresh \/ RefreshNow \/ LogTimer \/ ActionAnswered
  PROVE  DrawerInv'
<1>1. ASSUME drawer.open \in Openable
      PROVE  drawer.view \in View /\ Output(drawer.open, drawer.view) = Here
  BY Shapes DEF DrawerRow, Here
<1>2. CASE ToggleRefresh
  <2> DEFINE d == [drawer EXCEPT !.auto = ~@]
  <2>1. d \in DrawerRow /\ d.open = drawer.open /\ d.view = drawer.view /\ d.content = drawer.content
    BY Shapes DEF DrawerRow
  <2>2. drawer' = Started(d, FALSE) /\ drawer.open \in Openable /\ Loading(Here, FALSE, FALSE)
        /\ UNCHANGED <<acting, refreshing, crossed, opens>>
    BY <1>2, Shapes DEF ToggleRefresh
  <2> HIDE DEF d
  <2> QED BY <1>1, <2>1, <2>2, Shapes, AskedAgainKeeps
<1>3. CASE RefreshNow
  BY <1>1, <1>3, Shapes, AskedAgainKeeps DEF RefreshNow
<1>4. CASE LogTimer
  BY <1>1, <1>4, Shapes, AskedAgainKeeps DEF LogTimer
<1>5. CASE ActionAnswered
  <2>1. /\ acting.step = "sent" /\ acting' = [acting EXCEPT !.step = "loading"] /\ drawer' = Started(drawer, FALSE)
        /\ Loading(Output(acting.of, acting.view), FALSE, TRUE) /\ UNCHANGED <<refreshing, crossed, opens>>
    BY <1>5 DEF ActionAnswered
  <2>2. acting' \in ActingRow /\ acting'.of = acting.of /\ acting'.view = acting.view
    BY <2>1, Shapes DEF ActingRow
  <2>3. acting.of \in Openable /\ acting.view \in View
    BY <2>1, Shapes DEF ActingRow, DrawerInv, ActionsHaveAPlace
  <2>4. drawer.open # Closed /\ ~crossed => Output(acting.of, acting.view) = Here
    BY <2>1 DEF DrawerInv, Followed, AllIsOf, Here
  <2> QED BY <2>1, <2>2, <2>3, <2>4, Shapes, AskedAgainKeeps
<1> QED BY <1>2, <1>3, <1>4, <1>5

LEMMA LoweredRow ==
  ASSUME NEW l \in LoadRow, NEW d \in DrawerRow
  PROVE  /\ Lowered(l, d) \in DrawerRow /\ Lowered(l, d).open = d.open /\ Lowered(l, d).view = d.view
         /\ Lowered(l, d).content = d.content /\ Lowered(l, d).error = d.error /\ Lowered(l, d).auto = d.auto
BY DEF Lowered, DrawerRow, LoadRow

LEMMA ReportedRow ==
  ASSUME NEW d \in DrawerRow
  PROVE  /\ Reported(d) \in DrawerRow /\ Reported(d).open = d.open /\ Reported(d).view = d.view
         /\ Reported(d).content = d.content /\ Reported(d).error /\ Reported(d).auto = d.auto
BY DEF Reported, DrawerRow

\* What an answer was asked for, where the drawer has not moved.
LEMMA AnsweredHere ==
  ASSUME DrawerInv, NEW l \in loads, drawer.open # Closed, ~crossed
  PROVE  l.of = drawer.open /\ l.view = drawer.view
BY DEF DrawerInv, Followed, AllIsOf, Output

LEMMA LoadSteps ==
  ASSUME DrawerInv, NEW l \in loads, LoadAnswered(l) \/ LoadFails(l)
  PROVE  DrawerInv'
<1>1. l \in LoadRow /\ l.of \in Openable /\ l.view \in View /\ l.after \in BOOLEAN
  BY Shapes DEF LoadRow
<1>2. /\ loads' \subseteq loads /\ acting' \in ActingRow /\ refreshing' \in BOOLEAN /\ UNCHANGED <<crossed, opens>>
      /\ acting'.step # "none" => acting' = acting
  BY <1>1, Shapes, ClosedIsNone DEF LoadAnswered, LoadFails, AfterLoad
<1>3. CASE LoadAnswered(l)
  <2> DEFINE d == [drawer EXCEPT !.content = Output(l.of, l.view)]
  <2>1. d \in DrawerRow /\ d.open = drawer.open /\ d.view = drawer.view /\ d.content = Output(l.of, l.view)
    BY <1>1, Shapes DEF DrawerRow, Place, Output
  <2>2. drawer' = Lowered(l, d)
    BY <1>3 DEF LoadAnswered
  <2> HIDE DEF d
  <2>3. /\ drawer' \in DrawerRow /\ drawer'.open = drawer.open /\ drawer'.view = drawer.view
        /\ drawer'.content = Output(l.of, l.view)
    BY <1>1, <2>1, <2>2, LoweredRow
  <2>4. ASSUME drawer.open # Closed, ~crossed PROVE ShownOrComing(drawer', loads', acting')
    <3>1. l.of = drawer.open /\ l.view = drawer.view
      BY <2>4, AnsweredHere
    <3>2. drawer'.content.of = drawer'.open /\ drawer'.content.view = drawer'.view
      BY <2>3, <3>1 DEF Output
    <3> QED BY <3>2 DEF ShownOrComing
  <2> QED BY <1>2, <2>3, <2>4, SettledKeeps
<1>4. CASE LoadFails(l)
  <2>1. drawer' = Lowered(l, Reported(drawer))
    BY <1>4 DEF LoadFails
  <2>2. /\ drawer' \in DrawerRow /\ drawer'.open = drawer.open /\ drawer'.view = drawer.view
        /\ drawer'.content = drawer.content /\ drawer'.error
    BY <1>1, <2>1, Shapes, LoweredRow, ReportedRow
  <2>3. drawer.open # Closed /\ ~crossed => ShownOrComing(drawer', loads', acting')
    BY <2>2 DEF DrawerInv, Followed, ShownOrComing
  <2> QED BY <1>2, <2>2, <2>3, SettledKeeps
<1> QED BY <1>3, <1>4

LEMMA GoneSteps ==
  ASSUME DrawerInv, NEW l \in loads, WorkloadIsGone(l)
  PROVE  DrawerInv'
<1> DEFINE stopped == [drawer EXCEPT !.auto = FALSE]
           d == Lowered(l, Reported(stopped))
<1>1. l \in LoadRow /\ l.id \in 1..MaxLoads
  BY Shapes DEF LoadRow
<1>2. stopped \in DrawerRow /\ stopped.open = drawer.open /\ stopped.view = drawer.view /\ stopped.content = drawer.content
  BY Shapes DEF DrawerRow
<1>3. /\ acting' = (IF l.after THEN NoAction ELSE acting) /\ refreshing' = TRUE /\ UNCHANGED <<crossed, opens>>
      /\ \/ drawer.open # Closed /\ drawer' = Started(d, FALSE)
             /\ loads' = (loads \ {l}) \cup {LoadOf(l.id, Here, FALSE, FALSE)}
         \/ drawer' = d /\ loads' = loads \ {l}
  BY DEF WorkloadIsGone
<1> HIDE DEF stopped
<1>4. d \in DrawerRow /\ d.open = drawer.open /\ d.view = drawer.view /\ d.content = drawer.content /\ d.error
  BY <1>1, <1>2, LoweredRow, ReportedRow
<1> HIDE DEF d
<1>5. acting' \in ActingRow /\ (acting'.step # "none" => acting' = acting)
  BY <1>3, Shapes, ClosedIsNone
<1>6. CASE drawer.open # Closed /\ drawer' = Started(d, FALSE)
           /\ loads' = (loads \ {l}) \cup {LoadOf(l.id, Here, FALSE, FALSE)}
  <2> DEFINE asked == LoadOf(l.id, Here, FALSE, FALSE)
             left == loads \ {l}
  <2>1. drawer.open \in Openable /\ drawer.view \in View
    BY <1>6, Shapes DEF DrawerRow
  <2>2. asked \in LoadRow /\ asked.of = drawer.open /\ asked.view = drawer.view
    BY <1>1, <2>1, LoadIsARow DEF Here
  <2>3. loads' = left \cup {asked} /\ left \in SUBSET LoadRow
    BY <1>6, Shapes
  <2> HIDE DEF asked, left
  <2>4. drawer' \in DrawerRow /\ drawer'.open = drawer.open /\ drawer'.view = drawer.view /\ drawer'.content = drawer.content
    BY <1>4, <1>6, StartedRow
  <2>5. ASSUME ~crossed' PROVE Followed(drawer', loads', acting')
    <3>1. Followed(drawer, loads, acting)
      BY <1>3, <1>6, <2>5 DEF DrawerInv
    <3>2. AllIsOf(Output(drawer.open, drawer.view), left, acting)
      BY <3>1 DEF Followed, AllIsOf, left
    <3>3. drawer.content # Blank => drawer.content.of = drawer.open
      BY <3>1 DEF Followed, ShownOrComing
    <3>4. Output(asked.of, asked.view) = Output(drawer'.open, drawer'.view)
      BY <2>2, <2>4
    <3>5. Followed(drawer', left \cup {asked}, acting')
      BY <1>5, <2>2, <2>3, <2>4, <3>2, <3>3, <3>4, Shapes, AddedLoadKeeps
    <3> QED BY <2>3, <3>5
  <2>6. loads' \in SUBSET LoadRow /\ (acting'.step # "none" => acting'.of \in Openable)
    BY <1>5, <2>2, <2>3 DEF DrawerInv, ActionsHaveAPlace
  <2> QED
    BY <1>3, <1>5, <2>4, <2>5, <2>6, Shapes, DrawerInvFrom
<1>7. CASE drawer' = d /\ loads' = loads \ {l}
  <2>1. drawer.open # Closed /\ ~crossed => ShownOrComing(drawer', loads', acting')
    BY <1>4, <1>7 DEF DrawerInv, Followed, ShownOrComing
  <2> QED BY <1>3, <1>4, <1>5, <1>7, <2>1, SettledKeeps
<1> QED BY <1>3, <1>6, <1>7

LEMMA ActionSteps ==
  ASSUME DrawerInv, RunAction \/ ActionFails
  PROVE  DrawerInv'
<1>1. CASE RunAction
  <2>1. /\ drawer.open \in Openable /\ drawer.view \in View
        /\ acting' = [step |-> "sent", of |-> drawer.open, view |-> drawer.view]
        /\ drawer' = [drawer EXCEPT !.error = FALSE] /\ UNCHANGED <<loads, refreshing, crossed, opens>>
    BY <1>1, Shapes DEF RunAction, DrawerRow
  <2>2. /\ drawer' \in DrawerRow /\ drawer'.open = drawer.open /\ drawer'.view = drawer.view
        /\ drawer'.content = drawer.content
    BY <2>1, Shapes DEF DrawerRow
  <2>3. /\ acting' \in ActingRow /\ acting'.of = drawer.open /\ acting'.view = drawer.view
        /\ acting'.step = "sent"
    BY <2>1 DEF ActingRow
  <2>4. ASSUME ~crossed PROVE Followed(drawer', loads', acting')
    <3>1. Followed(drawer, loads, acting)
      BY <2>1, <2>4, ClosedIsNone DEF DrawerInv
    <3> QED BY <2>1, <2>2, <2>3, <3>1 DEF Followed, AllIsOf, ShownOrComing, Output
  <2> QED
    BY <2>1, <2>2, <2>3, <2>4, Shapes, DrawerInvFrom
<1>2. CASE ActionFails
  <2>1. /\ acting' = NoAction /\ drawer' = Reported(drawer) /\ UNCHANGED <<loads, refreshing, crossed, opens>>
    BY <1>2 DEF ActionFails
  <2>2. /\ drawer' \in DrawerRow /\ drawer'.open = drawer.open /\ drawer'.view = drawer.view
        /\ drawer'.content = drawer.content /\ drawer'.error
    BY <2>1, Shapes, ReportedRow
  <2>3. drawer.open # Closed /\ ~crossed => ShownOrComing(drawer', loads', acting')
    BY <2>2 DEF DrawerInv, Followed, ShownOrComing
  <2> QED BY <2>1, <2>2, <2>3, Shapes, ClosedIsNone, SettledKeeps
<1> QED BY <1>1, <1>2

LEMMA NextDrawer == DrawerInv /\ [DrawerNext]_drawerVars => DrawerInv'
<1> SUFFICES ASSUME DrawerInv, [DrawerNext]_drawerVars PROVE DrawerInv'
  OBVIOUS
<1>1. CASE UNCHANGED drawerVars
  BY <1>1 DEF drawerVars, DrawerInv, DrawerTypeOK, ActionsHaveAPlace, Followed, AllIsOf, ShownOrComing
<1>2. CASE AskFleet \/ FleetSettles
  <2>1. refreshing' \in BOOLEAN /\ UNCHANGED <<drawer, loads, acting, crossed, opens>>
    BY <1>2 DEF AskFleet, FleetSettles
  <2> QED BY <2>1 DEF DrawerInv, DrawerTypeOK, ActionsHaveAPlace, Followed, AllIsOf, ShownOrComing
<1> QED
  BY <1>1, <1>2, OpenSteps, TabSteps, CloseSteps, AskingSteps, LoadSteps, GoneSteps, ActionSteps DEF DrawerNext

LEMMA DrawerImplies == DrawerInv => DrawerTypeOK /\ OutputIsOfTheOpen
BY DEF DrawerInv, OutputIsOfTheOpen, Followed, ShownOrComing, AnswerIsComing, Here

\* Unless the drawer moved on while it was waiting, the output it shows is of the open
\* workload, and where it is not of the chosen tab an answer is coming or an error says
\* that none came, for any workloads, reads and actions (WorkloadDrawer.tsx).
THEOREM DrawerStaysOnItsWorkload == DrawerSpec => [](DrawerTypeOK /\ OutputIsOfTheOpen)
<1>1. DrawerSpec => []DrawerInv
  BY InitDrawer, NextDrawer, PTL DEF DrawerSpec
<1> QED BY <1>1, DrawerImplies, PTL

-----------------------------------------------------------------------------
(* Samples and inventories. Retention removes rows older than a day, the   *)
(* rollups and snapshots that the plan does not keep, and nothing else,    *)
(* so what the routes read is there; the newest of the inventories is      *)
(* found by well-founded induction on time.                                *)

Status == {"pending", "connected", "offline"}

\* Rows of the inventories that were taken.
Inventoried(stock) == UNION {Listed(t, stock[t]) : t \in DOMAIN stock}

\* What retention must not have removed: samples of the day, rollups of the plan, and
\* the rows of the inventories.
SamplesAreKept ==
    /\ \A t \in sampled : Recently(t, RowsKept) => t \in raw
    /\ mode = "agent" => \A t \in sampled : Recently(t, Retention) => t \in rollups

InventoriesAreKept ==
    /\ mode = "agent" => DOMAIN inventory \subseteq snapshots
    /\ \A t \in DOMAIN inventory : Recently(t, RowsKept) => Listed(t, inventory[t]) \subseteq workloads

MetricsInv == MetricsTypeOK /\ SamplesAreKept /\ InventoriesAreKept

LEMMA InitMetrics == MetricsInit => MetricsInv
<1> SUFFICES ASSUME MetricsInit PROVE MetricsInv
  OBVIOUS
<1>1. DOMAIN inventory = {}
  BY DEF MetricsInit
<1>5. 0 \in Time
  BY MetricsAssumption DEF Time
<1>2. /\ now = 0 /\ now \in Time /\ mode \in {"ssh", "agent"} /\ heard \in BOOLEAN
      /\ raw = {} /\ rollups = {} /\ sampled = {} /\ snapshots = {} /\ workloads = {} /\ cleaning = "idle"
  BY <1>5 DEF MetricsInit
<1>3. statuses \in [agent : Status, server : Status]
  BY DEF MetricsInit, Status
<1>4. MetricsTypeOK
  BY <1>1, <1>2, <1>3 DEF MetricsTypeOK, Status
<1> QED
  BY <1>1, <1>4 DEF MetricsInit, MetricsInv, SamplesAreKept, InventoriesAreKept

LEMMA KeptTypes == MetricsInv => RowsKept \in Nat /\ now \in Nat /\ Retention \in Nat /\ RawKept \in Nat \ {0}
                                 /\ RawKept <= RowsKept /\ RowsKept <= Retention
BY MetricsAssumption DEF MetricsInv, MetricsTypeOK, RowsKept, Time

\* An inventory of a time that had none.
LEMMA StoreKeeps ==
  ASSUME MetricsInv, NEW t \in Time, t \notin sampled, t <= now, NEW ws \in SUBSET Workload, StoreInventory(t, ws),
         UNCHANGED <<mode, now>>
  PROVE  /\ DOMAIN inventory' = DOMAIN inventory \cup {t}
         /\ workloads' \subseteq Inventoried(inventory')
         /\ \A x \in DOMAIN inventory' : Recently(x, RowsKept) => Listed(x, inventory'[x]) \subseteq workloads'
<1>1. DOMAIN inventory' = DOMAIN inventory \cup {t} /\ t \notin DOMAIN inventory
  BY DEF StoreInventory, MetricsInv, MetricsTypeOK
<1>2. inventory'[t] = ws /\ \A x \in DOMAIN inventory : inventory'[x] = inventory[x]
  BY <1>1 DEF StoreInventory
<1>3. workloads' = workloads \cup Listed(t, ws)
  BY DEF StoreInventory
<1>4. workloads \subseteq Inventoried(inventory)
  BY DEF MetricsInv, MetricsTypeOK, Inventoried
<1>5. \A r \in workloads' : \E x \in DOMAIN inventory' : r \in Listed(x, inventory'[x])
  BY <1>1, <1>2, <1>3, <1>4 DEF Inventoried
<1>6. workloads' \subseteq Inventoried(inventory')
  BY <1>5 DEF Inventoried
<1>7. ASSUME NEW x \in DOMAIN inventory', Recently(x, RowsKept) PROVE Listed(x, inventory'[x]) \subseteq workloads'
  BY <1>1, <1>2, <1>3, <1>7 DEF MetricsInv, InventoriesAreKept
<1> QED BY <1>1, <1>6, <1>7

LEMMA CollectSteps ==
  ASSUME MetricsInv, NEW ws \in SUBSET Workload, CollectOverSsh(ws)
  PROVE  MetricsInv'
<1>1. /\ mode = "ssh" /\ now \notin sampled /\ raw' = raw \cup {now} /\ sampled' = sampled \cup {now}
      /\ StoreInventory(now, ws) /\ UNCHANGED <<mode, now, rollups, snapshots, heard, statuses, cleaning>>
  BY DEF CollectOverSsh
<1>2. now \in Time /\ now \in Nat /\ now <= now
  BY KeptTypes DEF MetricsInv, MetricsTypeOK
<1>3. /\ DOMAIN inventory' = DOMAIN inventory \cup {now}
      /\ workloads' \subseteq Inventoried(inventory')
      /\ \A x \in DOMAIN inventory' : Recently(x, RowsKept) => Listed(x, inventory'[x]) \subseteq workloads'
  BY <1>1, <1>2, StoreKeeps
<1>4. MetricsTypeOK'
  BY <1>1, <1>2, <1>3 DEF MetricsInv, MetricsTypeOK, Inventoried
<1>5. SamplesAreKept'
  BY <1>1 DEF MetricsInv, SamplesAreKept, Recently, RowsKept
<1>6. InventoriesAreKept'
  BY <1>1, <1>3 DEF MetricsInv, InventoriesAreKept, Recently, RowsKept
<1> QED BY <1>4, <1>5, <1>6 DEF MetricsInv

LEMMA BatchSteps ==
  ASSUME MetricsInv, NEW t \in Time, NEW ws \in SUBSET Workload, NEW listed \in BOOLEAN, StoreBatch(t, ws, listed)
  PROVE  MetricsInv'
<1>1. /\ mode = "agent" /\ t \notin sampled /\ t <= now /\ raw' = raw \cup {t} /\ sampled' = sampled \cup {t}
      /\ rollups' = rollups \cup {t} /\ UNCHANGED <<mode, now, cleaning>> /\ heard' \in BOOLEAN
      /\ statuses' \in [agent : Status, server : Status]
  BY DEF StoreBatch, Status
<1>2. now \in Nat /\ t \in 0..now /\ t \in 0..now'
  BY <1>1, KeptTypes DEF Time
<1>3. SamplesAreKept'
  BY <1>1 DEF MetricsInv, SamplesAreKept, Recently, RowsKept
<1>4. /\ mode' \in {"ssh", "agent"} /\ now' \in Time /\ heard' \in BOOLEAN
      /\ raw' \subseteq sampled' /\ rollups' \subseteq sampled' /\ sampled' \subseteq 0..now'
      /\ statuses' \in [agent : Status, server : Status]
      /\ cleaning' \in {Cleanup[i] : i \in 1..5} \cup {"idle"} /\ mode' # "ssh"
  BY <1>1, <1>2 DEF MetricsInv, MetricsTypeOK
<1>5. CASE listed
  <2>1. StoreInventory(t, ws) /\ snapshots' = snapshots \cup {t}
    BY <1>5 DEF StoreBatch
  <2>2. /\ DOMAIN inventory' = DOMAIN inventory \cup {t}
        /\ workloads' \subseteq Inventoried(inventory')
        /\ \A x \in DOMAIN inventory' : Recently(x, RowsKept) => Listed(x, inventory'[x]) \subseteq workloads'
    BY <1>1, <2>1, StoreKeeps
  <2>3. MetricsTypeOK'
    BY <1>1, <1>4, <2>1, <2>2 DEF MetricsInv, MetricsTypeOK, Inventoried, Status
  <2>4. InventoriesAreKept'
    BY <1>1, <2>1, <2>2 DEF MetricsInv, InventoriesAreKept, Recently, RowsKept
  <2> QED BY <1>3, <2>3, <2>4 DEF MetricsInv
<1>6. CASE ~listed
  <2>1. UNCHANGED <<workloads, inventory, snapshots>>
    BY <1>6 DEF StoreBatch
  <2>2. MetricsTypeOK'
    BY <1>1, <1>4, <2>1 DEF MetricsInv, MetricsTypeOK, Status
  <2>3. InventoriesAreKept'
    BY <1>1, <2>1 DEF MetricsInv, InventoriesAreKept, Recently, RowsKept
  <2> QED BY <1>3, <2>2, <2>3 DEF MetricsInv
<1> QED BY <1>5, <1>6

LEMMA TimeSteps ==
  ASSUME MetricsInv, TimePasses
  PROVE  MetricsInv'
<1>1. /\ now < MaxNow /\ now' = now + 1 /\ heard' = FALSE
      /\ UNCHANGED <<mode, raw, rollups, workloads, snapshots, sampled, inventory, statuses, cleaning>>
  BY DEF TimePasses
<1>2. now \in Nat /\ RowsKept \in Nat /\ Retention \in Nat /\ RowsKept' = RowsKept /\ sampled \subseteq 0..now
      /\ DOMAIN inventory \subseteq 0..now
  BY <1>1, KeptTypes DEF RowsKept, MetricsInv, MetricsTypeOK
<1>3. now' \in Time /\ sampled' \subseteq 0..now'
  BY <1>1, <1>2, MetricsAssumption DEF Time
<1>4. MetricsTypeOK'
  BY <1>1, <1>3 DEF MetricsInv, MetricsTypeOK
<1>5. \A x \in 0..now : (x >= now' - RowsKept => x >= now - RowsKept) /\ (x >= now' - Retention => x >= now - Retention)
  BY <1>1, <1>2
<1>6. SamplesAreKept'
  BY <1>1, <1>2, <1>5 DEF MetricsInv, SamplesAreKept, Recently
<1>7. InventoriesAreKept'
  BY <1>1, <1>2, <1>5 DEF MetricsInv, InventoriesAreKept, Recently
<1> QED BY <1>4, <1>6, <1>7 DEF MetricsInv

LEMMA CleanSteps ==
  ASSUME MetricsInv, CleanBegin \/ CleanFails \/ \E i \in 1..5 : CleanStep(i)
  PROVE  MetricsInv'
<1>1. /\ raw' \in {raw, {t \in raw : Recently(t, RowsKept)}}
      /\ workloads' \in {workloads, {r \in workloads : Recently(r.at, RowsKept)}}
      /\ rollups' \in {rollups, {t \in rollups : Recently(t, Retention)}}
      /\ UNCHANGED <<mode, now, snapshots, sampled, inventory, heard>>
  BY DEF CleanBegin, CleanFails, CleanStep, RollupsKept
<1>2. cleaning' \in {Cleanup[i] : i \in 1..5} \cup {"idle"}
  BY DEF CleanBegin, CleanFails, CleanStep
<1>3. statuses' \in [agent : Status, server : Status]
  <2>1. statuses \in [agent : Status, server : Status]
    BY DEF MetricsInv, MetricsTypeOK, Status
  <2> QED BY <2>1 DEF CleanBegin, CleanFails, CleanStep, Status
<1>4. MetricsTypeOK'
  BY <1>1, <1>2, <1>3 DEF MetricsInv, MetricsTypeOK, Status
<1>5. SamplesAreKept'
  BY <1>1 DEF MetricsInv, SamplesAreKept, Recently, RowsKept
<1>6. ASSUME NEW t \in DOMAIN inventory, Recently(t, RowsKept) PROVE Listed(t, inventory[t]) \subseteq workloads'
  <2>1. \A r \in Listed(t, inventory[t]) : r \in workloads /\ r.at = t
    BY <1>6 DEF MetricsInv, InventoriesAreKept, Listed
  <2> QED BY <1>1, <1>6, <2>1
<1>7. InventoriesAreKept'
  BY <1>1, <1>6 DEF MetricsInv, InventoriesAreKept, Recently, RowsKept
<1> QED BY <1>4, <1>5, <1>7 DEF MetricsInv

LEMMA NextMetrics == MetricsInv /\ [MetricsNext]_metricsVars => MetricsInv'
<1> SUFFICES ASSUME MetricsInv, [MetricsNext]_metricsVars PROVE MetricsInv'
  OBVIOUS
<1>1. CASE UNCHANGED metricsVars
  BY <1>1 DEF metricsVars, MetricsInv, MetricsTypeOK, SamplesAreKept, InventoriesAreKept, Recently, RowsKept
<1> QED
  BY <1>1, CollectSteps, BatchSteps, TimeSteps, CleanSteps DEF MetricsNext

\* Rows of an invariant state, as sets of times.
LEMMA TimesAreFinite ==
  ASSUME MetricsInv, NEW s \in SUBSET sampled
  PROVE  IsFiniteSet(s) /\ s \subseteq 0..now /\ now \in Nat
<1>1. now \in Nat /\ sampled \subseteq 0..now
  BY KeptTypes DEF MetricsInv, MetricsTypeOK
<1>2. IsFiniteSet(0..now)
  BY <1>1, FS_Interval
<1> QED BY <1>1, <1>2, FS_Subset

\* The newest of a set of times.
LEMMA NewestIsLast ==
  ASSUME NEW s, IsFiniteSet(s), NEW t
  PROVE  t \in Newest(s, 1) <=> t \in s /\ \A u \in s : ~(u > t)
<1> DEFINE later == {u \in s : u > t}
<1>1. IsFiniteSet(later)
  BY FS_Subset
<1>2. Cardinality(later) \in Nat /\ (Cardinality(later) = 0 <=> later = {})
  BY <1>1, FS_CardinalityType, FS_EmptySet
<1> QED BY <1>2 DEF Newest

\* Where one is later than all others, it alone is the newest.
LEMMA NewestIsOne ==
  ASSUME NEW s, IsFiniteSet(s), NEW t \in s, \A u \in s : ~(u > t), \A u \in s : u # t => t > u
  PROVE  Newest(s, 1) = {t}
<1>1. \A u \in Newest(s, 1) : u = t
  BY NewestIsLast
<1>2. t \in Newest(s, 1)
  BY NewestIsLast
<1> QED BY <1>1, <1>2

\* No more of a set are past one of its members than the set has others.
LEMMA FewerAreBeyond ==
  ASSUME NEW s, IsFiniteSet(s), NEW t \in s, NEW beyond \in SUBSET s, t \notin beyond
  PROVE  Cardinality(beyond) < Cardinality(s)
<1>1. IsFiniteSet(beyond) /\ Cardinality(beyond) <= Cardinality(s) /\ (Cardinality(s) = Cardinality(beyond) => s = beyond)
  BY FS_Subset
<1>2. Cardinality(s) \in Nat /\ Cardinality(beyond) \in Nat /\ s # beyond
  BY <1>1, FS_CardinalityType
<1> QED BY <1>1, <1>2

LEMMA OverviewEndsWithLatest == MetricsInv => Within(Latest, RawKept) \subseteq Overview
<1> SUFFICES ASSUME MetricsInv, NEW t \in Latest, Recently(t, RawKept) PROVE t \in Overview
  BY DEF Within
<1>1. raw \in SUBSET sampled
  BY DEF MetricsInv, MetricsTypeOK
<1>2. IsFiniteSet(raw)
  BY <1>1, TimesAreFinite
<1>3. t \in raw /\ \A u \in raw : ~(u > t)
  BY <1>2, NewestIsLast DEF Latest
<1>4. {u \in Within(raw, RawKept) : u > t} = {} /\ t \in Within(raw, RawKept)
  BY <1>3 DEF Within
<1>5. Cardinality({u \in Within(raw, RawKept) : u > t}) < PageSize
  BY <1>4, FS_EmptySet, MetricsAssumption
<1> QED BY <1>4, <1>5 DEF Overview, Newest

LEMMA HistoriesAreComplete ==
  ASSUME MetricsInv, NEW hours \in 1..MaxNow, Cardinality(Within(sampled, hours)) <= PageSize
  PROVE  Within(sampled, IF hours < Retention THEN hours ELSE Retention) \subseteq History(hours)
<1> SUFFICES ASSUME NEW t \in sampled, Recently(t, IF hours < Retention THEN hours ELSE Retention)
             PROVE  t \in History(hours)
  BY DEF Within
<1>1. /\ hours \in Nat /\ now \in Nat /\ Retention \in Nat /\ RawKept \in Nat \ {0} /\ PageSize \in Nat
      /\ sampled \subseteq 0..now /\ t \in Nat /\ MaxNow \in Nat
  BY MetricsAssumption, KeptTypes DEF MetricsInv, MetricsTypeOK
<1>2. Recently(t, hours) /\ Recently(t, Retention)
  BY <1>1 DEF Recently
<1>3. raw \subseteq sampled /\ rollups \subseteq sampled /\ mode \in {"ssh", "agent"}
  BY DEF MetricsInv, MetricsTypeOK
<1> DEFINE all == Within(sampled, hours)
<1>4. IsFiniteSet(all) /\ Cardinality(all) \in Nat
  <2>1. all \in SUBSET sampled
    BY DEF Within
  <2> QED BY <2>1, TimesAreFinite, FS_CardinalityType
<1>5. ASSUME NEW kept \in SUBSET sampled, NEW beyond \in SUBSET Within(kept, hours), t \in kept, t \notin beyond
      PROVE  Cardinality(beyond) < PageSize
  <2>1. beyond \in SUBSET all /\ t \in all
    BY <1>2, <1>5 DEF Within
  <2>2. Cardinality(beyond) < Cardinality(all)
    BY <1>4, <1>5, <2>1, FewerAreBeyond
  <2>3. Cardinality(beyond) \in Nat
    BY <1>4, <2>1, FS_Subset, FS_CardinalityType
  <2> QED BY <1>1, <1>4, <2>2, <2>3
<1>6. CASE ReadsRollups(hours)
  <2>1. t \in rollups
    BY <1>2, <1>6 DEF ReadsRollups, MetricsInv, SamplesAreKept
  <2> DEFINE beyond == {u \in Within(rollups, hours) : u < t}
  <2>2. t \notin beyond /\ beyond \in SUBSET Within(rollups, hours) /\ rollups \in SUBSET sampled
    BY <1>1, <1>3
  <2>3. Cardinality(beyond) < PageSize
    BY <1>5, <2>1, <2>2
  <2> QED BY <1>2, <1>6, <2>1, <2>3 DEF History, Oldest, Within
<1>7. CASE ~ReadsRollups(hours)
  <2>1. Recently(t, RowsKept)
    BY <1>1, <1>2, <1>3, <1>7 DEF ReadsRollups, Recently, RowsKept
  <2>2. t \in raw
    BY <2>1 DEF MetricsInv, SamplesAreKept
  <2> DEFINE beyond == {u \in Within(raw, hours) : u > t}
  <2>3. t \notin beyond /\ beyond \in SUBSET Within(raw, hours) /\ raw \in SUBSET sampled
    BY <1>1, <1>3
  <2>4. Cardinality(beyond) < PageSize
    BY <1>5, <2>2, <2>3
  <2> QED BY <1>2, <1>7, <2>2, <2>4 DEF History, Newest, Within
<1> QED BY <1>6, <1>7

\* A set of times that is not empty has a last one, and Max names it.
LEMMA MaxIsLast ==
  ASSUME MetricsInv, NEW s \in SUBSET sampled, s # {}
  PROVE  Max(s) \in s /\ \A u \in s : Max(s) >= u
<1>1. s \subseteq 0..now /\ now \in Nat
  BY TimesAreFinite
<1> DEFINE T == {now - u : u \in s}
<1>2. T \subseteq Nat /\ T # {}
  <2>1. \A u \in s : now - u \in Nat
    BY <1>1
  <2> QED BY <2>1
<1>3. PICK t \in T : \A u \in T : ~(<<u, t>> \in OpToRel(<, Nat))
  BY <1>2, WFMin, NatLessThanWellFounded
<1>4. PICK m \in s : t = now - m
  BY <1>3
<1>5. ASSUME NEW u \in s PROVE m >= u
  <2>1. now - u \in T /\ now - u \in Nat /\ t \in Nat
    BY <1>2, <1>3
  <2>2. ~(now - u < t)
    BY <1>3, <2>1 DEF OpToRel
  <2> QED BY <1>1, <1>4, <2>2
<1> QED BY <1>4, <1>5 DEF Max

LEMMA NewestInventoryIsShown == MetricsInv => InventoryShownIsNewest
<1> DEFINE times == IF mode = "agent" THEN DOMAIN inventory
                    ELSE {t \in DOMAIN inventory : inventory[t] # {}}
<1> SUFFICES ASSUME MetricsInv, NEW t \in times, t = Max(times), Recently(t, RowsKept)
             PROVE  Shown = inventory[t]
  BY DEF InventoryShownIsNewest
<1>1. /\ DOMAIN inventory \subseteq sampled /\ mode \in {"ssh", "agent"} /\ times \in SUBSET sampled
      /\ t \in DOMAIN inventory
  BY DEF MetricsInv, MetricsTypeOK
<1>2. \A u \in times : t >= u
  BY <1>1, MaxIsLast
<1>3. times \subseteq 0..now /\ now \in Nat /\ IsFiniteSet(times)
  BY <1>1, TimesAreFinite
<1>4. \A r \in workloads : \E u \in DOMAIN inventory : r \in Listed(u, inventory[u])
  BY DEF MetricsInv, MetricsTypeOK
<1>5. \A r \in workloads : r.at \in DOMAIN inventory /\ r.of \in inventory[r.at]
  BY <1>4 DEF Listed
<1>6. \A w \in inventory[t] : [at |-> t, of |-> w] \in workloads
  BY <1>1 DEF MetricsInv, InventoriesAreKept, Listed
<1>7. LatestInventory = {t}
  <2>1. \A u \in times : ~(u > t) /\ (u # t => t > u)
    BY <1>2, <1>3
  <2>2. CASE mode = "agent"
    <3>1. snapshots = times /\ snapshots # {}
      BY <2>2 DEF MetricsInv, MetricsTypeOK, InventoriesAreKept
    <3>2. Newest(times, 1) = {t}
      BY <1>3, <2>1, NewestIsOne
    <3> QED BY <3>1, <3>2 DEF LatestInventory
  <2>3. CASE mode = "ssh"
    <3> DEFINE seen == {r.at : r \in workloads}
    <3>1. snapshots = {}
      BY <2>3 DEF MetricsInv, MetricsTypeOK
    <3>2. seen \subseteq times
      BY <1>5, <2>3
    <3>3. t \in seen
      <4>1. PICK w : w \in inventory[t]
        BY <2>3
      <4>2. [at |-> t, of |-> w] \in workloads /\ [at |-> t, of |-> w].at = t
        BY <1>6, <4>1
      <4> QED BY <4>2
    <3>4. IsFiniteSet(seen)
      BY <1>3, <3>2, FS_Subset
    <3>5. Newest(seen, 1) = {t}
      BY <2>1, <3>2, <3>3, <3>4, NewestIsOne
    <3> QED BY <3>1, <3>5 DEF LatestInventory
  <2> QED BY <1>1, <2>2, <2>3
<1>8. Shown \subseteq inventory[t]
  BY <1>5, <1>7 DEF Shown
<1>9. ASSUME NEW w \in inventory[t] PROVE w \in Shown
  <2>1. [at |-> t, of |-> w] \in {x \in workloads : x.at \in LatestInventory} /\ [at |-> t, of |-> w].of = w
    BY <1>6, <1>7, <1>9
  <2> QED BY <2>1 DEF Shown
<1> QED BY <1>8, <1>9

LEMMA MetricsImplies == MetricsInv => MetricsTypeOK /\ HistoryIsComplete /\ InventoryShownIsNewest
BY OverviewEndsWithLatest, HistoriesAreComplete, NewestInventoryIsShown DEF MetricsInv, HistoryIsComplete

\* A history whose window has no more samples than a page shows every one of them that
\* the plan retains, however late it arrived, and the workloads shown are those of the
\* newest inventory, whatever retention removes meanwhile, for any retention, page size
\* and number of samples (routes/metrics.ts, cleanRetention).
THEOREM MetricsStayComplete == MetricsSpec => [](MetricsTypeOK /\ HistoryIsComplete /\ InventoryShownIsNewest)
<1>1. MetricsSpec => []MetricsInv
  BY InitMetrics, NextMetrics, PTL DEF MetricsSpec
<1> QED BY <1>1, MetricsImplies, PTL
===============================================================================
