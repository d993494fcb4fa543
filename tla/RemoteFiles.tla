------------------------------- MODULE RemoteFiles -------------------------------
(***************************************************************************)
(* The file browsers of the desktop application (SftpPage.tsx over         *)
(* ssh/sftp-manager.ts) and of the web interface (SftpBrowser.tsx over     *)
(* routes/access.ts).                                                      *)
(*                                                                         *)
(* A page lists a directory and starts jobs on what it lists; a job works  *)
(* through its files one by one over SFTP, and ends at the first that      *)
(* fails.  Nothing keeps a user from starting the next job, or from        *)
(* choosing another server, while a job or a listing is under way.         *)
(*                                                                         *)
(* A file is a number: its contents when it was written.  A directory that *)
(* is copied or removed stands for its files; permissions, downloads and   *)
(* new directories move no contents and are left out.                      *)
(***************************************************************************)
EXTENDS Integers, FiniteSets

CONSTANTS
    FileServer,  \* servers
    Dir,         \* directories of a server
    Root,        \* the directory a page opens with
    Name,        \* file names
    Stored,      \* contents at first: server -> directory -> name -> number, 0 for none
    MaxFiles,    \* bound: files ever written
    MaxJobs,     \* bound: jobs ever started
    MaxUnderWay  \* bound: listings and jobs under way at once

ASSUME FilesAssumption ==
    /\ Root \in Dir /\ MaxFiles \in Nat /\ MaxJobs \in Nat /\ MaxUnderWay \in Nat
    /\ Stored \in [FileServer -> [Dir -> [Name -> 0..MaxFiles]]]

Path == [dir : Dir, name : Name]
\* The files that are there at first.
Given == {f \in FileServer \X Path : Stored[f[1]][f[2].dir][f[2].name] # 0}

\* Their contents are numbered.
ASSUME StoredAssumption ==
    /\ Cardinality(Given) \in 0..MaxFiles
    /\ \A c \in 1..Cardinality(Given) : \E s \in FileServer, p \in Path : Stored[s][p.dir][p.name] = c

VARIABLES
    client,     \* "desktop" or "web"
    disk,       \* server -> directory -> name -> contents, 0 for none
    page,       \* what the page shows: server, directory, names
    clipboard,  \* the files copied or cut, without the server they are on
    listings,   \* listings under way
    jobs,       \* jobs under way
    started,    \* jobs started so far
    written,    \* files written so far
    spent       \* history: contents that a user deleted or wrote over

diskVars == <<disk, written, spent>>
pageVars == <<page, clipboard, listings>>
fileVars == <<client, diskVars, pageVars, jobs, started>>

Partial == MaxFiles + 1              \* what an interrupted transfer leaves
NoPath == [dir |-> Root, name |-> "none"]
NoClipboard == [mode |-> "none", paths |-> {}]
Contents(s, p) == disk[s][p.dir][p.name]
Holding(s, p, c) == [disk EXCEPT ![s][p.dir][p.name] = c]
Listing(s, d) == [server |-> s, dir |-> d]
FileSpare == Cardinality(listings) + Cardinality(jobs) < MaxUnderWay
ShownFiles == [dir : {page.dir}, name : page.names]

-----------------------------------------------------------------------------
(* The page.                                                                *)

\* The desktop's page has a choice of servers; the listing shown stays until
\* that of the new server arrives.
SelectServer(s) ==
    /\ client = "desktop" /\ s # page.server /\ FileSpare
    /\ page' = [page EXCEPT !.server = s]
    /\ listings' = listings \cup {Listing(s, Root)}
    /\ UNCHANGED <<client, diskVars, clipboard, jobs, started>>

LoadDirectory(d) ==
    /\ FileSpare
    /\ listings' = listings \cup {Listing(page.server, d)}
    /\ UNCHANGED <<client, diskVars, page, clipboard, jobs, started>>

\* Whatever is shown by now, the answer replaces it; an error does not.
ListingAnswered(l) ==
    /\ l \in listings
    /\ listings' = listings \ {l}
    /\ page' \in {page, [page EXCEPT !.dir = l.dir,
                                     !.names = {n \in Name : disk[l.server][l.dir][n] # 0}]}
    /\ UNCHANGED <<client, diskVars, clipboard, jobs, started>>

\* The selected files: any of those shown on the desktop, one of them on the web.
Selection(paths) ==
    /\ paths # {} /\ paths \subseteq ShownFiles
    /\ client = "web" => Cardinality(paths) = 1

CopyOrCut(mode, paths) ==
    /\ Selection(paths)
    /\ clipboard' = [mode |-> mode, paths |-> paths]
    /\ UNCHANGED <<client, diskVars, page, listings, jobs, started>>

\* A job: its kind, server and files, the directory it puts them in and under
\* which name, the directory shown when it began, and the file being written.
Start(kind, paths, to, as) ==
    /\ started < MaxJobs /\ FileSpare
    /\ started' = started + 1
    /\ jobs' = jobs \cup {[id |-> started', kind |-> kind, server |-> page.server, paths |-> paths,
                           to |-> to, as |-> as, shown |-> page.dir, writing |-> NoPath]}
    /\ UNCHANGED <<client, diskVars, pageVars>>

\* paste: into the directory shown.
Paste == clipboard.mode # "none" /\ Start(clipboard.mode, clipboard.paths, page.dir, "same")

RemoveSelected(paths) == Selection(paths) /\ Start("remove", paths, Root, "same")

\* Another name in the directory shown.
Rename(p, n) == p \in ShownFiles /\ Start("rename", {p}, page.dir, n)

\* A new file, the editor's save or an upload, over whatever has that name.
Write(names) == names # {} /\ Start("write", [dir : {page.dir}, name : names], page.dir, "same")

-----------------------------------------------------------------------------
(* Jobs: SftpManager, and the routes under /:id/files.                      *)

Target(j, p) == [dir |-> j.to, name |-> IF j.as = "same" THEN p.name ELSE j.as]
Becomes(j, k) == jobs' = (jobs \ {j}) \cup {k}
FileDone(j, p) == Becomes(j, [j EXCEPT !.paths = @ \ {p}, !.writing = NoPath])

\* SSH_FXP_RENAME fails when the source is missing or the target exists.  (That
\* a file still being written takes its writer along is left out.)
MoveFile(j, p) ==
    /\ j.kind \in {"cut", "rename"} /\ p \in j.paths
    /\ Contents(j.server, p) \notin {0, Partial} /\ Contents(j.server, Target(j, p)) = 0
    /\ disk' = [Holding(j.server, Target(j, p), Contents(j.server, p))
                    EXCEPT ![j.server][p.dir][p.name] = 0]
    /\ FileDone(j, p)
    /\ UNCHANGED <<client, written, spent, pageVars, started>>

\* (The flag 'w': an existing target is emptied.)
AnyTarget(s, t) == TRUE

\* The flag 'wx': opening an existing target fails.
Exclusive(s, t) == Contents(s, t) = 0

\* copyFile, and the web's copyEntry, which empties an existing target, be it
\* the source itself: those contents are written over.
OpenCopy(j, p) ==
    /\ j.kind = "copy" /\ p \in j.paths /\ j.writing = NoPath
    /\ Contents(j.server, p) # 0
    /\ client = "desktop" => Exclusive(j.server, Target(j, p))
    /\ disk' = Holding(j.server, Target(j, p), Partial)
    /\ spent' = IF client = "web" THEN spent \cup {Contents(j.server, Target(j, p))} ELSE spent
    /\ Becomes(j, [j EXCEPT !.writing = p])
    /\ UNCHANGED <<client, written, pageVars, started>>

\* What somebody else wrote into the target since it was opened is written over.
CloseCopy(j, p) ==
    /\ j.kind = "copy" /\ j.writing = p /\ Contents(j.server, p) # 0
    /\ disk' = Holding(j.server, Target(j, p), Contents(j.server, p))
    /\ spent' = spent \cup ({Contents(j.server, Target(j, p))} \ {Contents(j.server, p)})
    /\ FileDone(j, p)
    /\ UNCHANGED <<client, written, pageVars, started>>

RemoveFile(j, p) ==
    /\ j.kind = "remove" /\ p \in j.paths /\ Contents(j.server, p) # 0
    /\ disk' = Holding(j.server, p, 0)
    /\ spent' = spent \cup {Contents(j.server, p)}
    /\ FileDone(j, p)
    /\ UNCHANGED <<client, written, pageVars, started>>

\* writeFile, fastPut and the routes that write empty the target first.
OpenWrite(j, p) ==
    /\ j.kind = "write" /\ p \in j.paths /\ j.writing = NoPath
    /\ disk' = Holding(j.server, p, Partial)
    /\ spent' = spent \cup {Contents(j.server, p)}
    /\ Becomes(j, [j EXCEPT !.writing = p])
    /\ UNCHANGED <<client, written, pageVars, started>>

CloseWrite(j, p) ==
    /\ j.kind = "write" /\ j.writing = p /\ written < MaxFiles
    /\ written' = written + 1
    /\ disk' = Holding(j.server, p, written')
    /\ spent' = spent \cup {Contents(j.server, p)}
    /\ FileDone(j, p)
    /\ UNCHANGED <<client, pageVars, started>>

\* The job is over, because its files are done or because one of them failed
\* (it is missing, it exists, the connection is lost).  The page then loads the
\* directory it showed when the job began; on the desktop a cut is over whether
\* or not it succeeded, and with it whatever was copied since.
JobEnds(j) ==
    LET ok == j.paths = {}
    IN /\ j \in jobs
       /\ jobs' = jobs \ {j}
       /\ listings' = IF ok THEN listings \cup {Listing(j.server, j.shown)} ELSE listings
       /\ clipboard' = IF j.kind = "cut" /\ (ok \/ client = "desktop") THEN NoClipboard ELSE clipboard
       /\ UNCHANGED <<client, diskVars, page, started>>

-----------------------------------------------------------------------------
FilesInit ==
    /\ client \in {"desktop", "web"}
    /\ disk = Stored /\ spent = {}
    /\ written = Cardinality(Given)
    /\ page \in [server : FileServer, dir : {Root}, names : {{}}]
    /\ clipboard = NoClipboard /\ listings = {Listing(page.server, Root)}
    /\ jobs = {} /\ started = 0

FilesNext ==
    \/ \E s \in FileServer : SelectServer(s)
    \/ \E d \in Dir : LoadDirectory(d)
    \/ \E l \in listings : ListingAnswered(l)
    \/ \E paths \in SUBSET ShownFiles : \/ \E mode \in {"copy", "cut"} : CopyOrCut(mode, paths)
                                   \/ RemoveSelected(paths)
    \/ Paste
    \/ \E n \in Name : \E p \in ShownFiles : Rename(p, n)
    \/ \E names \in SUBSET Name : Write(names)
    \/ \E j \in jobs : \/ JobEnds(j)
                       \/ \E p \in j.paths : \/ MoveFile(j, p) \/ OpenCopy(j, p) \/ CloseCopy(j, p)
                                             \/ RemoveFile(j, p) \/ OpenWrite(j, p) \/ CloseWrite(j, p)

FilesSpec == FilesInit /\ [][FilesNext]_fileVars

-----------------------------------------------------------------------------
\* Disks, page and jobs stay within their types.
FilesTypeOK ==
    /\ client \in {"desktop", "web"} /\ written \in 0..MaxFiles /\ started \in 0..MaxJobs
    /\ disk \in [FileServer -> [Dir -> [Name -> 0..Partial]]] /\ spent \subseteq 0..Partial
    /\ page \in [server : FileServer, dir : Dir, names : SUBSET Name]
    /\ clipboard.mode \in {"none", "copy", "cut"} /\ clipboard.paths \subseteq Path
    /\ listings \subseteq [server : FileServer, dir : Dir]
    /\ \A j \in jobs : /\ j.kind \in {"copy", "cut", "rename", "remove", "write"} /\ j.server \in FileServer
                       /\ j.paths \subseteq Path /\ j.writing \in j.paths \cup {NoPath}

\* Copies, moves and renames lose nothing, whatever jobs run beside them and
\* wherever they fail: what was once written is on some disk until a user deletes
\* it or writes to its file.  A copy on the web counts as a write to its target; one on
\* the desktop, which takes a free name, gives up no more than what another job put
\* under that name after the copy opened it.
NothingIsLost ==
    \A c \in (1..written) \ spent : \E s \in FileServer, p \in Path : Contents(s, p) = c
=============================================================================
