----------------------------- MODULE FolderTree -----------------------------
(* The folder tree of the file manager (backend/src/routes/file.routes.ts).  *)
(* Handlers of requests run in one Node.js process: every query they await   *)
(* lets the others proceed, so a handler is one step per query.  Only the    *)
(* last statement of trash and restore is a transaction.                     *)
EXTENDS Naturals, FiniteSets

CONSTANTS
    Requests,   \* request handlers; one starts anew when it has answered
    Movers,     \* those of them that move or rename folders
    Filers,     \* those of them that add, move or delete files
    Folders,    \* ids of folders, each used once
    Files,      \* ids of files, each used once
    Root,       \* a null parentId or folderId
    MaxHops     \* how far a cycle check walks up (200 and 100 in the code)

ASSUME FolderTreeAssumption ==
    /\ Root \notin Folders
    /\ Movers \subseteq Requests /\ Filers \subseteq Requests
    /\ Folders \cap Files = {}
    /\ MaxHops \in Nat

VARIABLES
    folder,     \* state of each Folder row
    parent,     \* Folder.parentId
    file,       \* state of each StoredFile row
    place,      \* StoredFile.folderId
    pc,         \* the query a handler is about to make
    op,         \* what a handler that walks a subtree is going to do
    arg,        \* the row a handler is about
    dest,       \* the folder to put it into
    cur, hops,  \* position and length of the walk up
    todo,       \* the walk down: folders to look at (queue)
    found,      \* folders it has looked at (allFolderIds)
    again,      \* folders it has listed twice
    doomed,     \* the files a deletion has found
    raced       \* has a handler written while another one was under way?

rowVars == <<folder, parent, file, place>>
upVars == <<cur, hops>>
downVars == <<op, todo, found, again, doomed>>
vars == <<rowVars, pc, arg, dest, upVars, downVars, raced>>

RowState == {"absent", "live", "trash", "gone"}
Parents == Folders \cup {Root}
Pc == {"idle", "insert", "target", "up", "update", "restoreParent", "down",
       "files", "rows", "folders", "add", "place", "patch", "erase"}

TypeOK ==
    /\ folder \in [Folders -> RowState]
    /\ parent \in [Folders -> Parents]
    /\ file \in [Files -> RowState]
    /\ place \in [Files -> Parents]
    /\ pc \in [Requests -> Pc]
    /\ op \in [Requests -> {"none", "trash", "restore", "delete"}]
    /\ arg \in [Requests -> Parents \cup Files]
    /\ dest \in [Requests -> Parents]
    /\ cur \in [Requests -> Parents]
    /\ hops \in [Requests -> 0..MaxHops]
    /\ todo \in [Requests -> SUBSET Folders]
    /\ found \in [Requests -> SUBSET Folders]
    /\ again \in [Requests -> SUBSET Folders]
    /\ doomed \in [Requests -> SUBSET Files]
    /\ raced \in BOOLEAN

(* Some of the ids may have been used up.                                    *)
Init ==
    /\ folder \in [Folders -> {"absent", "gone"}]
    /\ parent = [f \in Folders |-> Root]
    /\ file \in [Files -> {"absent", "gone"}]
    /\ place = [x \in Files |-> Root]
    /\ pc = [q \in Requests |-> "idle"]
    /\ op = [q \in Requests |-> "none"]
    /\ arg = [q \in Requests |-> Root]
    /\ dest = [q \in Requests |-> Root]
    /\ cur = [q \in Requests |-> Root]
    /\ hops = [q \in Requests |-> 0]
    /\ todo = [q \in Requests |-> {}]
    /\ found = [q \in Requests |-> {}]
    /\ again = [q \in Requests |-> {}]
    /\ doomed = [q \in Requests |-> {}]
    /\ raced = FALSE

FolderExists(f) == folder[f] \in {"live", "trash"}
FileExists(x) == file[x] \in {"live", "trash"}
(* What the foreign keys of parentId and folderId accept.                    *)
MayContain(p) == p # Root => FolderExists(p)
Children(f) == {c \in Folders : FolderExists(c) /\ parent[c] = f}
Inside(fs) == {x \in Files : FileExists(x) /\ place[x] \in fs}

Goto(q, label) == pc' = [pc EXCEPT ![q] = label]

(* The handler answers, with a result or with an error; its locals go.       *)
Answer(q) ==
    /\ Goto(q, "idle")
    /\ op' = [op EXCEPT ![q] = "none"]
    /\ arg' = [arg EXCEPT ![q] = Root]
    /\ dest' = [dest EXCEPT ![q] = Root]
    /\ cur' = [cur EXCEPT ![q] = Root]
    /\ hops' = [hops EXCEPT ![q] = 0]
    /\ todo' = [todo EXCEPT ![q] = {}]
    /\ found' = [found EXCEPT ![q] = {}]
    /\ again' = [again EXCEPT ![q] = {}]
    /\ doomed' = [doomed EXCEPT ![q] = {}]

WritesBeside(others) == raced' = (raced \/ \E p \in others : pc[p] # "idle")
Writes(q) == WritesBeside(Requests \ {q})

(* A row and where it is to go are read or checked, the write follows.       *)
Prepare(q, label, row, to) ==
    /\ pc[q] = "idle"
    /\ Goto(q, label)
    /\ arg' = [arg EXCEPT ![q] = row]
    /\ dest' = [dest EXCEPT ![q] = to]
    /\ UNCHANGED <<rowVars, upVars, downVars, raced>>

IsOpen(p) == p # Root => folder[p] = "live"
-----------------------------------------------------------------------------
(* POST /folders: look at the parent, then create.                           *)
CreateFolder(q) ==
    \E p \in Parents : IsOpen(p) /\ Prepare(q, "insert", Root, p)

InsertFolder(q) ==
    /\ pc[q] = "insert"
    /\ IF MayContain(dest[q])
       THEN \E f \in Folders :
              /\ folder[f] = "absent"
              /\ folder' = [folder EXCEPT ![f] = "live"]
              /\ parent' = [parent EXCEPT ![f] = dest[q]]
       ELSE UNCHANGED <<folder, parent>>
    /\ Writes(q)
    /\ Answer(q)
    /\ UNCHANGED <<file, place>>

(* POST /folders/:id/move, and PATCH /folders/:id with a parentId.           *)
MoveFolder(q) ==
    /\ q \in Movers
    /\ \E f \in Folders, p \in Parents :
         /\ folder[f] = "live" /\ p # f
         /\ Prepare(q, IF p = Root THEN "update" ELSE "target", f, p)

(* PATCH /folders/:id without one writes the parentId it has read.           *)
RenameFolder(q) ==
    /\ q \in Movers
    /\ \E f \in Folders : folder[f] = "live" /\ Prepare(q, "update", f, parent[f])

CheckTarget(q) ==
    /\ pc[q] = "target"
    /\ IF folder[dest[q]] = "live"
       THEN /\ Goto(q, "up")
            /\ cur' = [cur EXCEPT ![q] = dest[q]]
            /\ UNCHANGED <<arg, dest, hops, downVars>>
       ELSE Answer(q)
    /\ UNCHANGED <<rowVars, raced>>

ChecksOnlyTarget(q) == cur[q] = arg[q] /\ hops[q] = 0              \* mutant
ClosesCycle(q) == cur[q] = arg[q]

(* A missing row ends the walk as a root does.                               *)
WalkUp(q) ==
    /\ pc[q] = "up"
    /\ IF cur[q] # Root /\ hops[q] < MaxHops
       THEN IF ClosesCycle(q)
            THEN Answer(q)
            ELSE /\ cur' = [cur EXCEPT ![q] = IF FolderExists(cur[q])
                                              THEN parent[cur[q]] ELSE Root]
                 /\ hops' = [hops EXCEPT ![q] = @ + 1]
                 /\ UNCHANGED <<pc, arg, dest, downVars>>
       ELSE /\ Goto(q, "update")
            /\ cur' = [cur EXCEPT ![q] = Root]
            /\ hops' = [hops EXCEPT ![q] = 0]
            /\ UNCHANGED <<arg, dest, downVars>>
    /\ UNCHANGED <<rowVars, raced>>

UpdateParent(q) ==
    /\ pc[q] = "update"
    /\ parent' = IF FolderExists(arg[q]) /\ MayContain(dest[q])
                 THEN [parent EXCEPT ![arg[q]] = dest[q]] ELSE parent
    /\ Writes(q)
    /\ Answer(q)
    /\ UNCHANGED <<folder, file, place>>
-----------------------------------------------------------------------------
(* PATCH /folders/:id/trash, PATCH /folders/:id/restore, DELETE /folders/:id *)
StartsAbove(f) == {f, parent[f]}                                   \* mutant
StartsAt(f) == {f}

StartWalk(q, what, f) ==
    /\ Goto(q, "down")
    /\ op' = [op EXCEPT ![q] = what]
    /\ todo' = [todo EXCEPT ![q] = StartsAt(f)]
    /\ UNCHANGED <<found, again, doomed>>

TrashFolder(q) ==
    /\ pc[q] = "idle"
    /\ \E f \in Folders : FolderExists(f) /\ StartWalk(q, "trash", f)
    /\ UNCHANGED <<rowVars, arg, dest, upVars, raced>>

RestoreFolder(q) ==
    /\ pc[q] = "idle"
    /\ \E f \in Folders :
         /\ FolderExists(f)
         /\ \/ /\ parent[f] = Root
               /\ StartWalk(q, "restore", f)
               /\ UNCHANGED <<arg, dest>>
            \/ /\ parent[f] # Root
               /\ Goto(q, "restoreParent")
               /\ arg' = [arg EXCEPT ![q] = f]
               /\ dest' = [dest EXCEPT ![q] = parent[f]]
               /\ UNCHANGED downVars
    /\ UNCHANGED <<rowVars, upVars, raced>>

NeverHidden(p) == FALSE                                            \* mutant
HidesChildren(p) == folder[p] = "trash"

(* A restored folder would stay invisible below a parent in the trash.       *)
CheckRestoreParent(q) ==
    /\ pc[q] = "restoreParent"
    /\ IF HidesChildren(dest[q])
       THEN Answer(q)
       ELSE /\ StartWalk(q, "restore", arg[q])
            /\ arg' = [arg EXCEPT ![q] = Root]
            /\ dest' = [dest EXCEPT ![q] = Root]
            /\ UNCHANGED upVars
    /\ UNCHANGED <<rowVars, raced>>

DeleteFolder(q) ==
    /\ pc[q] = "idle"
    /\ \E f \in Folders : folder[f] = "trash" /\ StartWalk(q, "delete", f)
    /\ UNCHANGED <<rowVars, arg, dest, upVars, raced>>

(* One query for the children of the next folder of the queue; which one is  *)
(* next is left open.  Nothing stops the walk from listing a folder again.   *)
ListsItself(f) == Children(f) \cup {f}                             \* mutant
Listed(f) == Children(f)

WalkDown(q) ==
    /\ pc[q] = "down"
    /\ \E f \in todo[q] :
         /\ found' = [found EXCEPT ![q] = @ \cup {f}]
         /\ todo' = [todo EXCEPT ![q] = (@ \ {f}) \cup Listed(f)]
         /\ again' = [again EXCEPT ![q] =
                        @ \cup (Listed(f) \cap (found'[q] \cup todo[q]))]
    /\ UNCHANGED <<rowVars, pc, op, arg, dest, upVars, doomed, raced>>

(* updateMany on the folders and on the files in them, in one transaction.   *)
MarkSubtree(q) ==
    /\ pc[q] = "down" /\ todo[q] = {} /\ op[q] # "delete"
    /\ LET mark == IF op[q] = "trash" THEN "trash" ELSE "live"
       IN  /\ folder' = [f \in Folders |-> IF f \in found[q] /\ FolderExists(f)
                                           THEN mark ELSE folder[f]]
           /\ file' = [x \in Files |-> IF x \in Inside(found[q])
                                       THEN mark ELSE file[x]]
    /\ Writes(q)
    /\ Answer(q)
    /\ UNCHANGED <<parent, place>>

FindFiles(q) ==
    /\ pc[q] = "down" /\ todo[q] = {} /\ op[q] = "delete"
    /\ doomed' = [doomed EXCEPT ![q] = Inside(found[q])]
    /\ Goto(q, "rows")
    /\ UNCHANGED <<rowVars, op, arg, dest, upVars, todo, found, again, raced>>

DeleteFileRows(q) ==
    /\ pc[q] = "rows"
    /\ file' = [x \in Files |-> IF x \in doomed[q] THEN "gone" ELSE file[x]]
    /\ place' = [x \in Files |-> IF x \in doomed[q] THEN Root ELSE place[x]]
    /\ Writes(q)
    /\ Goto(q, "folders")
    /\ doomed' = [doomed EXCEPT ![q] = {}]
    /\ UNCHANGED <<folder, parent, op, arg, dest, upVars, todo, found, again>>

(* delete throws for a row that is gone, also if this loop has deleted it.   *)
(* The foreign keys set what points to a deleted folder to null.             *)
DeleteFolderRow(q) ==
    /\ pc[q] = "folders"
    /\ \E f \in found[q] :
         IF FolderExists(f)
         THEN /\ folder' = [folder EXCEPT ![f] = "gone"]
              /\ parent' = [c \in Folders |-> IF f \in {c, parent[c]}
                                              THEN Root ELSE parent[c]]
              /\ place' = [x \in Files |-> IF place[x] = f THEN Root
                                           ELSE place[x]]
              /\ Writes(q)
              /\ IF found[q] = {f} /\ f \notin again[q]
                 THEN Answer(q)
                 ELSE /\ found' = [found EXCEPT ![q] =
                                     IF f \in again[q] THEN @ ELSE @ \ {f}]
                      /\ UNCHANGED <<pc, op, arg, dest, upVars, todo, again,
                                     doomed>>
         ELSE Answer(q) /\ UNCHANGED <<folder, parent, place, raced>>
    /\ UNCHANGED file
-----------------------------------------------------------------------------
(* Files.  An upload and POST /files/:id/duplicate look at the folder first, *)
(* as POST and PUT /files/:id/move do; PATCH /files/:id takes any id, and    *)
(* writes back the one it has read when the request names none.              *)
AddFile(q) ==
    \E x \in Files, p \in Parents :
        file[x] = "absent" /\ IsOpen(p) /\ Prepare(q, "add", x, p)

MoveFile(q) ==
    \E x \in Files, p \in Parents :
        FileExists(x) /\ IsOpen(p) /\ Prepare(q, "place", x, p)

PatchFile(q) ==
    \E x \in Files, p \in Parents : FileExists(x) /\ Prepare(q, "patch", x, p)

StoreFile(q) ==
    /\ pc[q] \in {"add", "place", "patch"}
    /\ LET x == arg[q]
           takes == /\ MayContain(dest[q])
                    /\ IF pc[q] = "add" THEN file[x] = "absent"
                                        ELSE FileExists(x)
       IN  /\ place' = IF takes THEN [place EXCEPT ![x] = dest[q]] ELSE place
           /\ file' = IF takes /\ pc[q] = "add"
                      THEN [file EXCEPT ![x] = "live"] ELSE file
    /\ Writes(q)
    /\ Answer(q)
    /\ UNCHANGED <<folder, parent>>

(* PATCH /files/:id/trash and /restore: a read and a write of one column     *)
(* that does not depend on it.                                               *)
TrashFile(x) ==
    /\ file[x] = "live"
    /\ file' = [file EXCEPT ![x] = "trash"]
    /\ WritesBeside(Requests)
    /\ UNCHANGED <<folder, parent, place, pc, arg, dest, upVars, downVars>>

RestoreFile(x) ==
    /\ file[x] = "trash"
    /\ file' = [file EXCEPT ![x] = "live"]
    /\ WritesBeside(Requests)
    /\ UNCHANGED <<folder, parent, place, pc, arg, dest, upVars, downVars>>

(* DELETE /files/:id                                                         *)
DeleteFile(q) ==
    \E x \in Files : file[x] = "trash" /\ Prepare(q, "erase", x, Root)

EraseFile(q) ==
    /\ pc[q] = "erase"
    /\ file' = [file EXCEPT ![arg[q]] = "gone"]
    /\ place' = [place EXCEPT ![arg[q]] = Root]
    /\ Writes(q)
    /\ Answer(q)
    /\ UNCHANGED <<folder, parent>>
-----------------------------------------------------------------------------
FolderStep(q) ==
    \/ CreateFolder(q) \/ InsertFolder(q)
    \/ MoveFolder(q) \/ RenameFolder(q) \/ CheckTarget(q) \/ WalkUp(q)
    \/ UpdateParent(q)
    \/ TrashFolder(q) \/ RestoreFolder(q) \/ CheckRestoreParent(q)
    \/ DeleteFolder(q) \/ WalkDown(q) \/ MarkSubtree(q)
    \/ FindFiles(q) \/ DeleteFileRows(q) \/ DeleteFolderRow(q)

FileStep(q) ==
    \/ AddFile(q) \/ MoveFile(q) \/ PatchFile(q) \/ StoreFile(q)
    \/ DeleteFile(q) \/ EraseFile(q)

Next ==
    \/ \E q \in Requests : FolderStep(q)
    \/ \E q \in Filers : FileStep(q)
    \/ \E x \in Files : TrashFile(x) \/ RestoreFile(x)

Spec == Init /\ [][Next]_vars
-----------------------------------------------------------------------------
(* Properties.                                                               *)

(* The folders are a forest: among any of them is one whose parent is not,   *)
(* so that going up from a folder ends at the top, which the walks over a    *)
(* subtree and every path the explorer shows rely on.                        *)
(* The cycle check of a move keeps it against renames, deletions, and moves  *)
(* into the trash by others as long as one handler at a time moves folders.  *)
Forest == \A S \in (SUBSET Folders) \ {{}} : \E f \in S : parent[f] \notin S

(* While handlers do not overlap, no live folder is below one in the trash:  *)
(* trash marks whole subtrees, restore refuses below such a folder, and none *)
(* is created in or moved to one.  Nor does a live file get there, where no  *)
(* page of the explorer shows it, by trashing, restoring, deleting or moving *)
(* any folder, by an upload, a copy or a move of the file; the two requests  *)
(* that do not look at the folder are PATCH /files/:id and its restore.      *)
FoldersOpen ==
    \A f \in Folders : folder[f] = "live" => IsOpen(parent[f])

IsHidden(x) == file[x] = "live" /\ ~IsOpen(place[x])

HidesUnseen(x) ==
    \/ RestoreFile(x)
    \/ \E q \in Filers : pc[q] = "patch" /\ arg[q] = x /\ StoreFile(q)

TrashIsClosed ==
    /\ [](~raced => FoldersOpen)
    /\ [][\A x \in Files :
             ~raced' /\ IsHidden(x)' => IsHidden(x) \/ HidesUnseen(x)]_vars

(* While handlers do not overlap, the walk down lists no folder twice, so    *)
(* that it ends and a deletion deletes each folder once.                     *)
NoRevisit == ~raced => \A q \in Requests : again[q] = {}

(* The inductive invariant.  A folder has a parent only while both exist;    *)
(* only movers move; locals are left as they began when a handler answers.   *)
KeyInv ==
    \A f \in Folders : parent[f] # Root => FolderExists(f) /\ FolderExists(parent[f])

HandlerInv ==
    \A q \in Requests :
        /\ pc[q] \in {"target", "up", "update"} => q \in Movers
        /\ pc[q] \in {"target", "up"} => dest[q] \in Folders
        /\ pc[q] = "restoreParent" => arg[q] \in Folders /\ dest[q] \in Folders
        /\ pc[q] # "up" => hops[q] = 0
        /\ pc[q] \notin {"down", "rows", "folders"} => found[q] = {}
        /\ pc[q] = "down" => op[q] # "none"

(* Folders that exist or did, and sets of them that contain the parents.     *)
Known == {f \in Folders : folder[f] # "absent"}
ClosedUp(S) == S \subseteq Known /\ \A f \in S : parent[f] \in S \cup {Root}

(* The walk up has seen each of hops folders once and not the one to move;   *)
(* what it has not seen yet are ancestors of cur.                            *)
ClimbsFrom(q, S) ==
    /\ S \subseteq Known \ {arg[q], cur[q]}
    /\ Cardinality(S) = hops[q]
    /\ dest[q] \in S \cup {cur[q]}
    /\ \A f \in S : parent[f] \in S \cup {cur[q], Root}
    /\ \E A \in SUBSET Folders : /\ ClosedUp(A) /\ A \cap S = {}
                                 /\ cur[q] \in A \cup {Root}

(* Before it writes, the folder to move is not above the place it goes to.   *)
IsAbove(f, p) ==
    p # Root /\ \A S \in SUBSET Folders : ClosedUp(S) /\ p \in S => f \in S

MoveInv ==
    \A q \in Requests :
        /\ pc[q] = "up" => \E S \in SUBSET Folders : ClimbsFrom(q, S)
        /\ pc[q] = "update" => ~IsAbove(arg[q], dest[q])

(* While handlers do not overlap, a handler's reads are up to date: where it *)
(* puts a row is still open, and the walk down knows a part of the tree.     *)
Walked(q, r) ==
    /\ FolderExists(r) /\ r \in found[q] \cup todo[q]
    /\ \A f \in (found[q] \cup todo[q]) \ {r} : parent[f] \in found[q]
    /\ \A f \in found[q] : Children(f) \subseteq found[q] \cup todo[q]
    /\ op[q] = "restore" => IsOpen(parent[r])

UpToDate(q) ==
    /\ pc[q] \in {"insert", "up", "update", "add", "place"} => IsOpen(dest[q])
    /\ pc[q] = "restoreParent" => FolderExists(arg[q]) /\ parent[arg[q]] = dest[q]
    /\ pc[q] = "down" => \E r \in Folders : Walked(q, r)

(* In a forest it also meets each folder once.                               *)
MeetsOnce(q) ==
    again[q] = {} /\ (pc[q] = "down" => found[q] \cap todo[q] = {})

FreshInv == ~raced => FoldersOpen /\ \A q \in Requests : UpToDate(q)

OneMover == \A p, q \in Movers : p = q

TreeInv ==
    /\ OneMover \/ ~raced => Forest /\ MoveInv
    /\ ~raced => \A q \in Requests : MeetsOnce(q)

FolderInv == TypeOK /\ KeyInv /\ HandlerInv /\ FreshInv /\ TreeInv
=============================================================================
