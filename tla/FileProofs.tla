------------------------------ MODULE FileProofs ------------------------------
(* Proofs about the file manager.  FolderTree, for any number of requests,   *)
(* folders and files: the folders stay a forest while one handler at a time  *)
(* moves folders, and the trash stays closed while handlers do not overlap.  *)
(* StoredFileEdits, for any editors, names and tags, and ChunkUpload, for    *)
(* any number of chunks and of requests under way.                           *)
EXTENDS FolderTree, StoredFileEdits, ChunkUpload, FiniteSetTheorems, TLAPS

(* Fewer folders than the walk up may visit, as the code supposes.           *)
WithinReach == IsFiniteSet(Folders) /\ Cardinality(Folders) <= MaxHops

(* What a handler has read so far, and the rows it reads.                    *)
Same(p) ==
    /\ pc'[p] = pc[p] /\ op'[p] = op[p] /\ arg'[p] = arg[p]
    /\ dest'[p] = dest[p] /\ cur'[p] = cur[p] /\ hops'[p] = hops[p]
    /\ todo'[p] = todo[p] /\ found'[p] = found[p] /\ again'[p] = again[p]

LocalsOK(q) ==
    /\ pc[q] \in {"target", "up", "update"} => q \in Movers
    /\ pc[q] \in {"target", "up"} => dest[q] \in Folders
    /\ pc[q] = "restoreParent" => arg[q] \in Folders /\ dest[q] \in Folders
    /\ pc[q] # "up" => hops[q] = 0
    /\ pc[q] \notin {"down", "rows", "folders"} => found[q] = {}
    /\ pc[q] = "down" => op[q] # "none"

Basic == TypeOK /\ KeyInv /\ HandlerInv

LocalTypes ==
    /\ pc \in [Requests -> Pc]
    /\ op \in [Requests -> {"none", "trash", "restore", "delete"}]
    /\ arg \in [Requests -> Parents \cup Files]
    /\ dest \in [Requests -> Parents]
    /\ cur \in [Requests -> Parents]
    /\ hops \in [Requests -> 0..MaxHops]
    /\ todo \in [Requests -> SUBSET Folders]
    /\ found \in [Requests -> SUBSET Folders]
    /\ again \in [Requests -> SUBSET Folders]
    /\ doomed \in [Requests -> SUBSET Files]

(* A step of handler q: the locals of the others stay, its own are well      *)
(* formed.                                                                   *)
Local(q) == LocalTypes' /\ LocalsOK(q)' /\ \A p \in Requests \ {q} : Same(p)

LEMMA AnswerLocal ==
    ASSUME LocalTypes, NEW q \in Requests, Answer(q)
    PROVE  /\ LocalTypes'
           /\ \A p \in Requests \ {q} : Same(p)
           /\ pc'[q] = "idle" /\ hops'[q] = 0 /\ found'[q] = {} /\ again'[q] = {}
<1>1. 0 \in 0..MaxHops
  BY FolderTreeAssumption
<1>2. LocalTypes'
  BY <1>1 DEF LocalTypes, Answer, Goto, Pc, Parents
<1>3. \A p \in Requests \ {q} : Same(p)
  BY DEF LocalTypes, Answer, Goto, Same
<1>4. pc'[q] = "idle" /\ hops'[q] = 0 /\ found'[q] = {} /\ again'[q] = {}
  BY DEF LocalTypes, Answer, Goto
<1> QED
  BY <1>2, <1>3, <1>4

LEMMA PrepareLocal ==
    ASSUME LocalTypes, NEW q \in Requests, LocalsOK(q),
           NEW label \in {"insert", "target", "update", "add", "place", "patch",
                          "erase"},
           NEW moved \in Parents \cup Files, NEW to \in Parents,
           Prepare(q, label, moved, to),
           label \in {"target", "update"} => q \in Movers,
           label = "target" => to \in Folders
    PROVE  /\ Local(q)
           /\ pc'[q] = label /\ arg'[q] = moved /\ dest'[q] = to
           /\ hops'[q] = hops[q] /\ again'[q] = again[q]
<1> USE DEF upVars, downVars
<1>1. LocalTypes'
  BY DEF LocalTypes, Prepare, Goto, Pc
<1>2. \A p \in Requests \ {q} : Same(p)
  BY DEF LocalTypes, Prepare, Goto, Same
<1>3. /\ pc[q] = "idle" /\ pc'[q] = label /\ arg'[q] = moved /\ dest'[q] = to
      /\ UNCHANGED <<hops, found, again, op>>
  BY DEF LocalTypes, Prepare, Goto
<1>4. LocalsOK(q)'
  BY <1>3 DEF LocalsOK
<1> QED
  BY <1>1, <1>2, <1>3, <1>4 DEF Local

LEMMA StartLocal ==
    ASSUME LocalTypes, NEW q \in Requests, LocalsOK(q),
           pc[q] \in {"idle", "restoreParent"},
           NEW what \in {"trash", "restore", "delete"}, NEW f \in Folders,
           StartWalk(q, what, f), UNCHANGED upVars,
           \/ UNCHANGED <<arg, dest>>
           \/ /\ arg' = [arg EXCEPT ![q] = Root]
              /\ dest' = [dest EXCEPT ![q] = Root]
    PROVE  /\ Local(q)
           /\ pc'[q] = "down" /\ op'[q] = what /\ todo'[q] = {f}
           /\ found'[q] = {} /\ again'[q] = again[q]
<1> USE DEF upVars
<1>1. LocalTypes'
  BY DEF LocalTypes, StartWalk, StartsAt, Goto, Pc, Parents
<1>2. \A p \in Requests \ {q} : Same(p)
  BY DEF LocalTypes, StartWalk, Goto, Same
<1>3. /\ pc'[q] = "down" /\ op'[q] = what /\ todo'[q] = {f}
      /\ UNCHANGED <<hops, found, again>> /\ found[q] = {} /\ hops[q] = 0
  BY DEF LocalTypes, LocalsOK, StartWalk, StartsAt, Goto
<1>4. LocalsOK(q)'
  BY <1>3 DEF LocalsOK
<1> QED
  BY <1>1, <1>2, <1>3, <1>4 DEF Local

(* The steps that answer.                                                    *)
LEMMA Answered ==
    ASSUME LocalTypes, NEW q \in Requests, Answer(q) PROVE Local(q)
<1>1. LocalTypes' /\ \A p \in Requests \ {q} : Same(p)
  BY AnswerLocal
<1>2. pc'[q] = "idle" /\ hops'[q] = 0 /\ found'[q] = {}
  BY AnswerLocal
<1>3. LocalsOK(q)'
  BY <1>2 DEF LocalsOK
<1> QED
  BY <1>1, <1>3 DEF Local

LEMMA FolderLocal ==
    ASSUME TypeOK, HandlerInv, NEW q \in Requests, FolderStep(q)
    PROVE  Local(q)
<1> USE DEF rowVars, upVars, downVars
<1>1. LocalTypes /\ LocalsOK(q)
  BY DEF TypeOK, LocalTypes, HandlerInv, LocalsOK
<1>2. CASE Answer(q)
  BY <1>1, <1>2, Answered
<1>3. CASE CreateFolder(q)
  BY <1>1, <1>3, PrepareLocal DEF CreateFolder, Parents
<1>4. CASE MoveFolder(q)
  BY <1>1, <1>4, PrepareLocal DEF MoveFolder, Parents
<1>5. CASE RenameFolder(q)
  <2>1. PICK f \in Folders : Prepare(q, "update", f, parent[f])
    BY <1>5 DEF RenameFolder
  <2>2. parent[f] \in Parents /\ f \in Parents \cup Files /\ q \in Movers
    BY <1>5 DEF RenameFolder, TypeOK, Parents
  <2> QED
    BY <1>1, <2>1, <2>2, PrepareLocal
<1>6. CASE CheckTarget(q) /\ ~Answer(q)
  <2>1. /\ pc[q] = "target" /\ pc' = [pc EXCEPT ![q] = "up"]
        /\ cur' = [cur EXCEPT ![q] = dest[q]]
        /\ UNCHANGED <<arg, dest, hops, op, todo, found, again, doomed>>
    BY <1>6 DEF CheckTarget, Goto
  <2> QED
    BY <1>1, <2>1 DEF Local, LocalTypes, LocalsOK, Same, Pc
<1>7. CASE WalkUp(q) /\ pc'[q] = "up"
  <2>1. /\ pc[q] = "up" /\ hops[q] < MaxHops /\ cur[q] # Root
        /\ UNCHANGED <<pc, arg, dest, op, todo, found, again, doomed>>
        /\ hops' = [hops EXCEPT ![q] = hops[q] + 1]
        /\ \E c \in Parents : cur' = [cur EXCEPT ![q] = c]
    <3>1. pc'[q] # "idle" /\ pc'[q] # "update"
      BY <1>7
    <3>2. ~Answer(q) /\ ~Goto(q, "update")
      BY <1>1, <3>1 DEF Answer, Goto, LocalTypes
    <3>3. cur[q] # Root => (IF FolderExists(cur[q]) THEN parent[cur[q]] ELSE Root) \in Parents
      BY <1>1 DEF TypeOK, Parents, FolderExists
    <3> QED
      BY <1>1, <1>7, <3>2, <3>3 DEF WalkUp
  <2>2. hops[q] + 1 \in 0..MaxHops
    BY <1>1, <2>1, FolderTreeAssumption DEF LocalTypes
  <2> QED
    BY <1>1, <2>1, <2>2 DEF Local, LocalTypes, LocalsOK, Same
<1>8. CASE WalkUp(q) /\ pc'[q] # "up" /\ ~Answer(q)
  <2>1. /\ pc[q] = "up" /\ pc' = [pc EXCEPT ![q] = "update"]
        /\ cur' = [cur EXCEPT ![q] = Root]
        /\ hops' = [hops EXCEPT ![q] = 0]
        /\ UNCHANGED <<arg, dest, op, todo, found, again, doomed>>
    BY <1>1, <1>8 DEF WalkUp, Goto, LocalTypes
  <2> QED
    BY <1>1, <2>1, FolderTreeAssumption
       DEF Local, LocalTypes, LocalsOK, Same, Pc, Parents
<1>9. CASE TrashFolder(q) \/ DeleteFolder(q)
  BY <1>1, <1>9, StartLocal DEF TrashFolder, DeleteFolder
<1>10. CASE RestoreFolder(q)
  <2>1. PICK f \in Folders :
          \/ StartWalk(q, "restore", f) /\ UNCHANGED <<arg, dest>>
          \/ /\ parent[f] # Root
             /\ Goto(q, "restoreParent")
             /\ arg' = [arg EXCEPT ![q] = f]
             /\ dest' = [dest EXCEPT ![q] = parent[f]]
             /\ UNCHANGED downVars
    BY <1>10 DEF RestoreFolder
  <2>2. pc[q] = "idle" /\ UNCHANGED upVars
    BY <1>10 DEF RestoreFolder
  <2>3. CASE StartWalk(q, "restore", f) /\ UNCHANGED <<arg, dest>>
    BY <1>1, <2>2, <2>3, StartLocal
  <2>4. CASE /\ parent[f] # Root
             /\ Goto(q, "restoreParent")
             /\ arg' = [arg EXCEPT ![q] = f]
             /\ dest' = [dest EXCEPT ![q] = parent[f]]
             /\ UNCHANGED downVars
    <3>1. parent[f] \in Folders
      BY <2>4 DEF TypeOK, Parents
    <3> QED
      BY <1>1, <2>2, <2>4, <3>1 DEF Local, LocalTypes, LocalsOK, Same, Goto, Pc, Parents
  <2> QED
    BY <2>1, <2>3, <2>4
<1>11. CASE CheckRestoreParent(q) /\ ~Answer(q)
  BY <1>1, <1>11, StartLocal DEF CheckRestoreParent, LocalsOK
<1>12. CASE WalkDown(q)
  <2>1. PICK f \in todo[q] :
          /\ found' = [found EXCEPT ![q] = found[q] \cup {f}]
          /\ todo' = [todo EXCEPT ![q] = (todo[q] \ {f}) \cup Listed(f)]
          /\ again' = [again EXCEPT ![q] =
                        again[q] \cup (Listed(f) \cap (found'[q] \cup todo[q]))]
    BY <1>12 DEF WalkDown
  <2>2. /\ pc[q] = "down" /\ UNCHANGED <<pc, op, arg, dest, cur, hops, doomed>>
        /\ f \in Folders /\ Listed(f) \subseteq Folders
    BY <1>1, <1>12 DEF WalkDown, Listed, Children, LocalTypes
  <2>3. LocalTypes'
    BY <1>1, <2>1, <2>2 DEF LocalTypes
  <2> QED
    BY <1>1, <2>1, <2>2, <2>3 DEF Local, LocalTypes, LocalsOK, Same
<1>13. CASE FindFiles(q)
  BY <1>1, <1>13 DEF FindFiles, Inside, Local, LocalTypes, LocalsOK, Same, Goto, Pc
<1>14. CASE DeleteFileRows(q)
  BY <1>1, <1>14 DEF DeleteFileRows, Local, LocalTypes, LocalsOK, Same, Goto, Pc
<1>15. CASE DeleteFolderRow(q) /\ ~Answer(q)
  <2>1. PICK F \in SUBSET found[q] : found' = [found EXCEPT ![q] = F]
    BY <1>15 DEF DeleteFolderRow
  <2>2. /\ UNCHANGED <<pc, op, arg, dest, cur, hops, todo, again, doomed>>
        /\ pc[q] = "folders"
    BY <1>15 DEF DeleteFolderRow
  <2> QED
    BY <1>1, <2>1, <2>2 DEF Local, LocalTypes, LocalsOK, Same
<1>16. InsertFolder(q) \/ UpdateParent(q) \/ MarkSubtree(q) => Answer(q)
  BY DEF InsertFolder, UpdateParent, MarkSubtree
<1> QED
  BY <1>2, <1>3, <1>4, <1>5, <1>6, <1>7, <1>8, <1>9, <1>10, <1>11, <1>12,
     <1>13, <1>14, <1>15, <1>16 DEF FolderStep

LEMMA FileLocal ==
    ASSUME TypeOK, HandlerInv, NEW q \in Requests, FileStep(q)
    PROVE  Local(q)
<1>1. LocalTypes /\ LocalsOK(q)
  BY DEF TypeOK, LocalTypes, HandlerInv, LocalsOK
<1>2. CASE StoreFile(q) \/ EraseFile(q)
  BY <1>1, <1>2, Answered DEF StoreFile, EraseFile
<1>3. CASE AddFile(q) \/ MoveFile(q) \/ PatchFile(q) \/ DeleteFile(q)
  BY <1>1, <1>3, PrepareLocal
     DEF AddFile, MoveFile, PatchFile, DeleteFile, Parents
<1> QED
  BY <1>2, <1>3 DEF FileStep

RowTypes ==
    /\ folder \in [Folders -> RowState]
    /\ parent \in [Folders -> Parents]
    /\ file \in [Files -> RowState]
    /\ place \in [Files -> Parents]
    /\ raced \in BOOLEAN

LEMMA TypesSplit == TypeOK <=> RowTypes /\ LocalTypes
BY DEF TypeOK, RowTypes, LocalTypes

(* Rows keep their types and the foreign keys.                               *)
Keyed == RowTypes' /\ KeyInv'

LEMMA FolderKeyed ==
    ASSUME TypeOK, KeyInv, NEW q \in Requests, FolderStep(q) PROVE Keyed
<1> USE DEF rowVars, upVars, downVars, Keyed
<1>1. CASE UNCHANGED <<folder, parent, file, place, raced>>
  BY <1>1 DEF RowTypes, TypeOK, KeyInv, FolderExists
<1>2. CASE InsertFolder(q)
  BY <1>2 DEF InsertFolder, MayContain, Writes, WritesBeside, RowTypes, TypeOK,
     KeyInv, FolderExists, RowState, Parents
<1>3. CASE UpdateParent(q)
  BY <1>3 DEF UpdateParent, MayContain, Writes, WritesBeside, RowTypes, TypeOK,
     KeyInv, FolderExists
<1>4. CASE MarkSubtree(q)
  <2>1. PICK mark \in {"trash", "live"} :
          /\ folder' = [f \in Folders |-> IF f \in found[q] /\ FolderExists(f)
                                          THEN mark ELSE folder[f]]
          /\ file' = [x \in Files |-> IF x \in Inside(found[q])
                                      THEN mark ELSE file[x]]
    BY <1>4 DEF MarkSubtree
  <2>2. raced' \in BOOLEAN /\ UNCHANGED <<parent, place>>
    BY <1>4 DEF MarkSubtree, Writes, WritesBeside, TypeOK
  <2>3. \A f \in Folders : FolderExists(f)' = FolderExists(f)
    BY <2>1 DEF FolderExists
  <2>4. KeyInv'
    BY <2>2, <2>3 DEF KeyInv, TypeOK, Parents
  <2> QED
    BY <2>1, <2>2, <2>4 DEF RowTypes, TypeOK, RowState
<1>5. CASE DeleteFileRows(q)
  BY <1>5 DEF DeleteFileRows, Writes, WritesBeside, RowTypes, TypeOK,
     KeyInv, FolderExists, RowState, Parents
<1>6. CASE DeleteFolderRow(q) /\ folder' # folder
  <2>1. PICK f \in found[q] :
          /\ folder' = [folder EXCEPT ![f] = "gone"]
          /\ parent' = [c \in Folders |-> IF f \in {c, parent[c]}
                                          THEN Root ELSE parent[c]]
          /\ place' = [x \in Files |-> IF place[x] = f THEN Root
                                       ELSE place[x]]
          /\ Writes(q)
    BY <1>6 DEF DeleteFolderRow
  <2>2. file' = file /\ f \in Folders
    BY <1>6 DEF DeleteFolderRow, TypeOK
  <2>3. RowTypes'
    BY <2>1, <2>2 DEF Writes, WritesBeside, RowTypes, TypeOK, RowState, Parents
  <2>4. ASSUME NEW g \in Folders, parent'[g] # Root
        PROVE  /\ folder'[g] \in {"live", "trash"}
               /\ folder'[parent'[g]] \in {"live", "trash"}
    <3>1. g # f /\ parent[g] # f /\ parent'[g] = parent[g]
      BY <2>1, <2>2, <2>4 DEF TypeOK
    <3>2. /\ folder[g] \in {"live", "trash"}
          /\ folder[parent[g]] \in {"live", "trash"}
      BY <2>4, <3>1 DEF KeyInv, FolderExists
    <3>3. folder'[g] = folder[g] /\ folder'[parent[g]] = folder[parent[g]]
      BY <2>1, <2>2, <3>1 DEF TypeOK
    <3> QED
      BY <3>1, <3>2, <3>3
  <2> QED
    BY <2>3, <2>4 DEF KeyInv, FolderExists
<1>7. CASE DeleteFolderRow(q) /\ folder' = folder
  BY <1>1, <1>7 DEF DeleteFolderRow, FolderExists, TypeOK, RowState
<1>8. CASE ~(\/ InsertFolder(q) \/ UpdateParent(q) \/ MarkSubtree(q)
             \/ DeleteFileRows(q) \/ DeleteFolderRow(q))
  BY <1>1, <1>8 DEF FolderStep, CreateFolder, MoveFolder, RenameFolder,
     CheckTarget, WalkUp, TrashFolder, RestoreFolder, CheckRestoreParent,
     DeleteFolder, WalkDown, FindFiles, Prepare
<1> QED
  BY <1>2, <1>3, <1>4, <1>5, <1>6, <1>7, <1>8

LEMMA FileKeyed ==
    ASSUME TypeOK, KeyInv, NEW q \in Requests, FileStep(q)
    PROVE  Keyed /\ UNCHANGED <<folder, parent>>
<1> USE DEF rowVars, upVars, downVars, Keyed
<1>1. CASE StoreFile(q)
  <2>1. UNCHANGED <<folder, parent>> /\ raced' \in BOOLEAN
    BY <1>1 DEF StoreFile, Writes, WritesBeside, TypeOK
  <2>2. file' \in [Files -> RowState] /\ place' \in [Files -> Parents]
    BY <1>1 DEF StoreFile, TypeOK, RowState
  <2> QED
    BY <2>1, <2>2 DEF RowTypes, TypeOK, KeyInv, FolderExists
<1>2. CASE EraseFile(q)
  BY <1>2 DEF EraseFile, Writes, WritesBeside, RowTypes, TypeOK, KeyInv,
     FolderExists, RowState, Parents
<1>3. CASE AddFile(q) \/ MoveFile(q) \/ PatchFile(q) \/ DeleteFile(q)
  BY <1>3 DEF AddFile, MoveFile, PatchFile, DeleteFile, Prepare, RowTypes,
     TypeOK, KeyInv, FolderExists
<1> QED
  BY <1>1, <1>2, <1>3 DEF FileStep

(* A file goes to the trash or comes back: no handler takes part.            *)
FileMark(x) == TrashFile(x) \/ RestoreFile(x)

LEMMA MarkKeyed ==
    ASSUME TypeOK, KeyInv, NEW x \in Files, FileMark(x)
    PROVE  /\ Keyed /\ UNCHANGED <<folder, parent>>
           /\ \A p \in Requests : Same(p)
<1> USE DEF rowVars, upVars, downVars, Keyed
<1>1. /\ UNCHANGED <<folder, parent, place, pc, arg, dest, upVars, downVars>>
      /\ file' \in [Files -> RowState] /\ raced' \in BOOLEAN
  BY DEF FileMark, TrashFile, RestoreFile, WritesBeside, TypeOK, RowState
<1>2. RowTypes' /\ KeyInv'
  BY <1>1 DEF RowTypes, TypeOK, KeyInv, FolderExists
<1>3. \A p \in Requests : Same(p)
  BY <1>1 DEF Same
<1> QED
  BY <1>1, <1>2, <1>3

LEMMA NextBasic == Basic /\ [Next]_vars => Basic'
<1> SUFFICES ASSUME Basic, [Next]_vars PROVE Basic'
  OBVIOUS
<1> USE DEF Basic
<1>1. ASSUME NEW q \in Requests, FolderStep(q) \/ FileStep(q) PROVE Basic'
  <2>1. Local(q) /\ Keyed
    BY <1>1, FolderLocal, FileLocal, FolderKeyed, FileKeyed
  <2>2. HandlerInv'
    BY <2>1 DEF Local, Same, LocalsOK, HandlerInv
  <2>3. TypeOK' /\ KeyInv'
    BY <2>1 DEF Local, Keyed, RowTypes, LocalTypes, TypeOK
  <2> QED
    BY <2>2, <2>3
<1>2. ASSUME NEW x \in Files, FileMark(x) PROVE Basic'
  <2>1. Keyed /\ \A p \in Requests : Same(p)
    BY <1>2, MarkKeyed
  <2>2. UNCHANGED <<pc, arg, dest, cur, hops, op, todo, found, again, doomed>>
    BY <1>2 DEF FileMark, TrashFile, RestoreFile, upVars, downVars
  <2> QED
    BY <2>1, <2>2 DEF Keyed, RowTypes, TypeOK, HandlerInv
<1>3. CASE UNCHANGED vars
  BY <1>3 DEF vars, rowVars, upVars, downVars, TypeOK, KeyInv, HandlerInv,
     FolderExists
<1> QED
  BY <1>1, <1>2, <1>3, FolderTreeAssumption DEF Next, FileMark

-----------------------------------------------------------------------------
(* While handlers do not overlap.                                            *)

Shut == \A f \in Folders :
    (folder[f] = "live" /\ parent[f] # Root) => folder[parent[f]] = "live"

Fresh == Shut /\ \A p \in Requests : UpToDate(p)

LEMMA ReadFrame ==
    ASSUME Fresh, UNCHANGED <<folder, parent>>, NEW Q \in SUBSET Requests,
           \A p \in Q : Same(p)
    PROVE  Shut' /\ \A p \in Q : UpToDate(p)'
BY DEF Fresh, Shut, Same, UpToDate, Walked, Children, FolderExists, IsOpen

LEMMA IdleFresh ==
    \A p \in Requests : pc[p] \notin {"insert", "up", "update", "add", "place",
                                      "restoreParent", "down"} => UpToDate(p)
BY DEF UpToDate

LEMMA WriteQuiet ==
    ASSUME TypeOK, NEW q \in Requests, Local(q), Writes(q), ~raced'
    PROVE  /\ ~raced /\ \A p \in Requests \ {q} : pc[p] = "idle"
           /\ \A p \in Requests \ {q} : UpToDate(p)'
<1>1. ~raced /\ \A p \in Requests \ {q} : pc[p] = "idle"
  BY DEF Writes, WritesBeside, TypeOK
<1>2. \A p \in Requests \ {q} : pc'[p] = "idle"
  BY <1>1 DEF Local, Same
<1> QED
  BY <1>1, <1>2 DEF UpToDate

(* What a restore is about to make live hangs below what is live.            *)
LEMMA MarkShut ==
    ASSUME Basic, Shut, NEW q \in Requests, MarkSubtree(q), UpToDate(q)
    PROVE  Shut'
<1> SUFFICES ASSUME NEW f \in Folders, folder'[f] = "live", parent'[f] # Root
             PROVE  folder'[parent'[f]] = "live"
  BY DEF Shut
<1>1. pc[q] = "down" /\ todo[q] = {} /\ op[q] # "delete" /\ UNCHANGED parent
  BY DEF MarkSubtree
<1>2. PICK r \in Folders : Walked(q, r)
  BY <1>1 DEF UpToDate
<1> DEFINE mark == IF op[q] = "trash" THEN "trash" ELSE "live"
<1>3. \A g \in Folders : folder'[g] = IF g \in found[q] /\ FolderExists(g)
                                     THEN mark ELSE folder[g]
  BY DEF MarkSubtree
<1>4. /\ FolderExists(f) /\ FolderExists(parent[f]) /\ parent[f] \in Folders
      /\ parent[f] # Root
  BY <1>1 DEF Basic, KeyInv, TypeOK, Parents
<1>5. CASE op[q] = "trash"
  <2>1. f \notin found[q] /\ folder[f] = "live"
    BY <1>3, <1>4, <1>5
  <2>2. folder[parent[f]] = "live"
    BY <1>4, <2>1 DEF Shut
  <2>3. parent[f] \notin found[q]
    BY <1>1, <1>2, <1>4, <2>1 DEF Walked, Children
  <2> QED
    BY <1>1, <1>3, <1>4, <2>2, <2>3
<1>6. CASE op[q] # "trash"
  <2>1. mark = "live" /\ op[q] = "restore"
    BY <1>1, <1>6 DEF Basic, TypeOK, HandlerInv
  <2>2. CASE parent[f] \in found[q]
    BY <1>1, <1>3, <1>4, <2>1, <2>2
  <2>3. CASE f \in found[q] /\ parent[f] \notin found[q]
    <3>1. f = r
      BY <1>2, <2>3 DEF Walked
    <3> QED
      BY <1>1, <1>2, <1>3, <1>4, <2>1, <2>3, <3>1 DEF Walked, IsOpen
  <2>4. CASE f \notin found[q] /\ parent[f] \notin found[q]
    BY <1>1, <1>3, <1>4, <2>4 DEF Shut
  <2> QED
    BY <2>2, <2>3, <2>4
<1> QED
  BY <1>5, <1>6

LEMMA WalkFresh ==
    ASSUME Basic, NEW q \in Requests, UpToDate(q), WalkDown(q)
    PROVE  UpToDate(q)'
<1> USE DEF rowVars, upVars, downVars
<1>1. PICK f \in todo[q] :
        /\ found' = [found EXCEPT ![q] = @ \cup {f}]
        /\ todo' = [todo EXCEPT ![q] = (@ \ {f}) \cup Children(f)]
  BY DEF WalkDown, Listed
<1>2. /\ pc[q] = "down" /\ pc'[q] = "down"
      /\ UNCHANGED <<folder, parent, op>>
  BY DEF WalkDown
<1>3. /\ found'[q] = found[q] \cup {f}
      /\ todo'[q] = (todo[q] \ {f}) \cup Children(f)
  BY <1>1 DEF Basic, TypeOK
<1>4. PICK r \in Folders : Walked(q, r)
  BY <1>2 DEF UpToDate
<1>5. \A g \in Folders : Children(g)' = Children(g)
  BY <1>2 DEF Children, FolderExists
<1>6. f \in Folders /\ found[q] \subseteq Folders
  BY DEF Basic, TypeOK
<1>7. \A g \in Children(f) : parent[g] = f
  BY DEF Children
<1>8. Walked(q, r)'
  <2>1. /\ FolderExists(r)' /\ r \in found'[q] \cup todo'[q]
        /\ op'[q] = "restore" => IsOpen(parent[r])'
    BY <1>2, <1>3, <1>4 DEF Walked, FolderExists, IsOpen
  <2>2. \A g \in (found'[q] \cup todo'[q]) \ {r} : parent'[g] \in found'[q]
    BY <1>2, <1>3, <1>4, <1>7 DEF Walked
  <2>3. \A g \in found'[q] : Children(g)' \subseteq found'[q] \cup todo'[q]
    BY <1>3, <1>4, <1>5, <1>6 DEF Walked
  <2> QED
    BY <1>2, <2>1, <2>2, <2>3 DEF Walked
<1> QED
  BY <1>2, <1>8 DEF UpToDate

(* What a handler has just read is up to date.                               *)
Reads(q) ==
    \/ CreateFolder(q) \/ MoveFolder(q) \/ RenameFolder(q) \/ CheckTarget(q)
    \/ WalkUp(q) \/ TrashFolder(q) \/ DeleteFolder(q) \/ RestoreFolder(q)
    \/ CheckRestoreParent(q) \/ WalkDown(q)

LEMMA ReadFresh ==
    ASSUME Basic, Fresh, NEW q \in Requests, Reads(q)
    PROVE  UpToDate(q)' /\ UNCHANGED <<folder, parent, raced>>
<1> USE DEF rowVars, upVars, downVars
<1>1. /\ LocalTypes /\ LocalsOK(q) /\ TypeOK /\ KeyInv /\ HandlerInv
      /\ Shut /\ UpToDate(q)
  BY DEF Basic, TypeOK, LocalTypes, HandlerInv, LocalsOK, Fresh
<1>0. UNCHANGED <<folder, parent, raced>>
  BY DEF Reads, CreateFolder, MoveFolder, RenameFolder, CheckTarget, WalkUp,
     TrashFolder, RestoreFolder, CheckRestoreParent, DeleteFolder, WalkDown,
     Prepare
<1>16. Answer(q) => UpToDate(q)'
  BY <1>1, AnswerLocal DEF UpToDate
<1> SUFFICES ASSUME ~Answer(q) PROVE UpToDate(q)'
  BY <1>0, <1>16
<1>2. CASE CreateFolder(q)
  <2>1. PICK p \in Parents : IsOpen(p) /\ Prepare(q, "insert", Root, p)
    BY <1>2 DEF CreateFolder
  <2> QED
    BY <1>1, <1>0, <2>1 DEF UpToDate, Prepare, Goto, IsOpen, LocalTypes
<1>3. CASE MoveFolder(q)
  <2>1. PICK f \in Folders, p \in Parents :
          Prepare(q, IF p = Root THEN "update" ELSE "target", f, p)
    BY <1>3 DEF MoveFolder
  <2> QED
    BY <1>1, <1>0, <2>1 DEF UpToDate, Prepare, Goto, IsOpen, LocalTypes
<1>4. CASE RenameFolder(q)
  <2>1. PICK f \in Folders :
          folder[f] = "live" /\ Prepare(q, "update", f, parent[f])
    BY <1>4 DEF RenameFolder
  <2>2. IsOpen(parent[f])
    BY <1>1, <2>1 DEF Shut, IsOpen
  <2> QED
    BY <1>1, <1>0, <2>1, <2>2 DEF UpToDate, Prepare, Goto, IsOpen, LocalTypes
<1>7. CASE CheckTarget(q)
  BY <1>1, <1>7, <1>0 DEF CheckTarget, UpToDate, Goto, IsOpen, LocalTypes
<1>8. CASE WalkUp(q)
  <2>1. pc[q] = "up" /\ dest' = dest /\ pc'[q] \in {"up", "update"}
    BY <1>1, <1>8 DEF WalkUp, Goto, LocalTypes
  <2> QED
    BY <1>1, <1>0, <2>1 DEF UpToDate, IsOpen
<1>9. ASSUME NEW f \in Folders, NEW what \in {"trash", "restore", "delete"},
             StartWalk(q, what, f), FolderExists(f),
             what = "restore" => IsOpen(parent[f]), found[q] = {}
      PROVE  UpToDate(q)'
  <2>1. /\ pc'[q] = "down" /\ op'[q] = what /\ todo'[q] = {f}
        /\ found'[q] = {}
    BY <1>1, <1>9 DEF StartWalk, StartsAt, Goto, LocalTypes
  <2>2. Walked(q, f)'
    BY <1>9, <1>0, <2>1 DEF Walked, FolderExists, IsOpen
  <2> QED
    BY <1>9, <2>1, <2>2 DEF UpToDate
<1>10. CASE TrashFolder(q) \/ DeleteFolder(q)
  BY <1>1, <1>9, <1>10
     DEF TrashFolder, DeleteFolder, LocalsOK, FolderExists
<1>11. CASE RestoreFolder(q)
  <2>1. PICK f \in Folders :
          /\ FolderExists(f)
          /\ \/ parent[f] = Root /\ StartWalk(q, "restore", f)
             \/ /\ Goto(q, "restoreParent")
                /\ arg' = [arg EXCEPT ![q] = f]
                /\ dest' = [dest EXCEPT ![q] = parent[f]]
    BY <1>11 DEF RestoreFolder
  <2>2. CASE parent[f] = Root /\ StartWalk(q, "restore", f)
    BY <1>1, <1>9, <1>11, <2>1, <2>2 DEF RestoreFolder, LocalsOK, IsOpen
  <2>3. CASE /\ Goto(q, "restoreParent")
             /\ arg' = [arg EXCEPT ![q] = f]
             /\ dest' = [dest EXCEPT ![q] = parent[f]]
    BY <1>1, <1>0, <2>1, <2>3 DEF UpToDate, Goto, LocalTypes, FolderExists
  <2> QED
    BY <2>1, <2>2, <2>3
<1>12. CASE CheckRestoreParent(q)
  <2>1. /\ pc[q] = "restoreParent" /\ ~HidesChildren(dest[q])
        /\ StartWalk(q, "restore", arg[q])
    BY <1>12 DEF CheckRestoreParent
  <2>2. /\ FolderExists(arg[q]) /\ parent[arg[q]] = dest[q]
        /\ arg[q] \in Folders /\ dest[q] \in Folders /\ found[q] = {}
    BY <1>1, <2>1 DEF UpToDate, LocalsOK
  <2>3. FolderExists(dest[q])
    BY <1>1, <2>2, FolderTreeAssumption DEF KeyInv
  <2>4. IsOpen(dest[q])
    BY <2>1, <2>3 DEF FolderExists, HidesChildren, IsOpen
  <2> QED
    BY <1>9, <2>1, <2>2, <2>4
<1>13. CASE WalkDown(q)
  BY <1>1, <1>13, WalkFresh
<1> QED
  BY <1>2, <1>3, <1>4, <1>7, <1>8, <1>10, <1>11, <1>12, <1>13 DEF Reads

LEMMA FolderFresh ==
    ASSUME Basic, Fresh, NEW q \in Requests, FolderStep(q), ~raced'
    PROVE  Fresh'
<1> USE DEF rowVars, upVars, downVars
<1>1. TypeOK /\ LocalTypes /\ Local(q) /\ Shut /\ UpToDate(q)
  BY FolderLocal DEF Basic, TypeOK, LocalTypes, Fresh
<1>2. ASSUME UNCHANGED <<folder, parent>>, UpToDate(q)' PROVE Fresh'
  BY <1>1, <1>2, ReadFrame DEF Fresh, Local
<1>3. ASSUME Writes(q), Shut', UpToDate(q)' PROVE Fresh'
  BY <1>1, <1>3, WriteQuiet DEF Fresh
<1>4. ASSUME pc'[q] \in {"idle", "rows", "folders"} PROVE UpToDate(q)'
  BY <1>4 DEF UpToDate
<1>5. Answer(q) => pc'[q] = "idle"
  BY <1>1, AnswerLocal
<1>6. CASE Reads(q)
  BY <1>2, <1>6, ReadFresh
<1>7. CASE InsertFolder(q)
  <2>1. Shut'
    BY <1>1, <1>7 DEF InsertFolder, UpToDate, Shut, IsOpen, Basic, KeyInv,
       TypeOK, Parents, FolderExists
  <2> QED
    BY <1>3, <1>4, <1>5, <1>7, <2>1 DEF InsertFolder
<1>8. CASE UpdateParent(q)
  <2>1. Shut'
    BY <1>1, <1>8 DEF UpdateParent, UpToDate, Shut, IsOpen, TypeOK
  <2> QED
    BY <1>3, <1>4, <1>5, <1>8, <2>1 DEF UpdateParent
<1>9. CASE MarkSubtree(q)
  BY <1>1, <1>3, <1>4, <1>5, <1>9, MarkShut DEF MarkSubtree
<1>10. CASE FindFiles(q)
  BY <1>1, <1>2, <1>4, <1>10 DEF FindFiles, Goto, LocalTypes
<1>11. CASE DeleteFileRows(q)
  BY <1>1, <1>2, <1>4, <1>11 DEF DeleteFileRows, Goto, LocalTypes
<1>12. CASE DeleteFolderRow(q)
  <2>1. pc'[q] \in {"idle", "folders"}
    BY <1>1, <1>5, <1>12 DEF DeleteFolderRow
  <2>2. CASE UNCHANGED <<folder, parent>>
    BY <1>2, <1>4, <2>1, <2>2
  <2>3. CASE ~UNCHANGED <<folder, parent>>
    <3>1. PICK f \in found[q] :
            /\ folder' = [folder EXCEPT ![f] = "gone"]
            /\ parent' = [c \in Folders |-> IF f \in {c, parent[c]}
                                            THEN Root ELSE parent[c]]
            /\ Writes(q)
      BY <1>12, <2>3 DEF DeleteFolderRow
    <3>2. Shut'
      BY <1>1, <3>1 DEF Shut, TypeOK, Parents
    <3> QED
      BY <1>3, <1>4, <2>1, <3>1, <3>2
  <2> QED
    BY <2>2, <2>3
<1> QED
  BY <1>6, <1>7, <1>8, <1>9, <1>10, <1>11, <1>12 DEF FolderStep, Reads

LEMMA RacedStays == TypeOK /\ [Next]_vars /\ raced => raced'
<1> SUFFICES ASSUME TypeOK, [Next]_vars, raced PROVE raced'
  OBVIOUS
<1> USE DEF Prepare, Writes, WritesBeside
<1>1. ASSUME NEW q \in Requests, FolderStep(q) PROVE raced'
  BY <1>1 DEF FolderStep, CreateFolder, InsertFolder, MoveFolder,
     RenameFolder, CheckTarget, WalkUp, UpdateParent, TrashFolder,
     RestoreFolder, CheckRestoreParent, DeleteFolder, WalkDown, MarkSubtree,
     FindFiles, DeleteFileRows, DeleteFolderRow
<1>2. ASSUME NEW q \in Requests, FileStep(q) PROVE raced'
  BY <1>2 DEF FileStep, AddFile, MoveFile, PatchFile, StoreFile, DeleteFile,
     EraseFile
<1> QED
  BY <1>1, <1>2, FolderTreeAssumption
     DEF Next, TrashFile, RestoreFile, vars

LEMMA NextFresh == Basic /\ FreshInv /\ [Next]_vars => FreshInv'
<1> SUFFICES ASSUME Basic, FreshInv, [Next]_vars, ~raced' PROVE Fresh'
  BY DEF FreshInv, Fresh, Shut, FoldersOpen, IsOpen
<1>1. ~raced /\ Fresh
  BY RacedStays DEF Basic, FreshInv, Fresh, Shut, FoldersOpen, IsOpen
<1>2. ASSUME NEW q \in Requests, FolderStep(q) PROVE Fresh'
  BY <1>1, <1>2, FolderFresh
<1>3. ASSUME NEW q \in Requests, FileStep(q) PROVE Fresh'
  <2>1. Local(q) /\ UNCHANGED <<folder, parent>>
    BY <1>3, FileLocal, FileKeyed DEF Basic
  <2>2. LocalTypes
    BY TypesSplit DEF Basic
  <2>3. UpToDate(q)'
    <3>1. CASE AddFile(q) \/ MoveFile(q)
      <4>1. PICK x \in Files, p \in Parents, l \in {"add", "place"} :
              IsOpen(p) /\ Prepare(q, l, x, p)
        BY <3>1 DEF AddFile, MoveFile
      <4>2. pc'[q] = l /\ dest'[q] = p
        BY <2>2, <4>1 DEF Prepare, Goto, LocalTypes
      <4> QED
        BY <2>1, <4>1, <4>2 DEF UpToDate, IsOpen
    <3>2. CASE PatchFile(q) \/ DeleteFile(q)
      <4>1. pc'[q] \in {"patch", "erase"}
        BY <2>2, <3>2 DEF PatchFile, DeleteFile, Prepare, Goto, LocalTypes
      <4> QED
        BY <4>1 DEF UpToDate
    <3>3. CASE StoreFile(q) \/ EraseFile(q)
      <4>1. pc'[q] = "idle"
        BY <2>2, <3>3, AnswerLocal DEF StoreFile, EraseFile
      <4> QED
        BY <4>1 DEF UpToDate
    <3> QED
      BY <1>3, <3>1, <3>2, <3>3 DEF FileStep
  <2>4. Requests \ {q} \in SUBSET Requests
    OBVIOUS
  <2> QED
    BY <1>1, <2>1, <2>3, <2>4, ReadFrame DEF Local, Fresh
<1>4. ASSUME NEW x \in Files, FileMark(x) PROVE Fresh'
  BY <1>1, <1>4, MarkKeyed, ReadFrame DEF Basic, Fresh
<1>5. CASE UNCHANGED vars
  BY <1>1, <1>5, ReadFrame
     DEF vars, rowVars, upVars, downVars, Same, Fresh
<1> QED
  BY <1>2, <1>3, <1>4, <1>5, FolderTreeAssumption DEF Next, FileMark
-----------------------------------------------------------------------------
(* What becomes hidden below the trash.                                      *)
Unseen ==
    \A x \in Files :
        ~raced' /\ IsHidden(x)' => IsHidden(x) \/ HidesUnseen(x)

LEMMA MarkHidesNone ==
    ASSUME Basic, NEW q \in Requests, UpToDate(q), MarkSubtree(q),
           NEW x \in Files, IsHidden(x)'
    PROVE  IsHidden(x)
<1>1. /\ pc[q] = "down" /\ op[q] # "delete" /\ UNCHANGED place
      /\ TypeOK /\ KeyInv
  BY DEF MarkSubtree, Basic
<1>2. PICK r \in Folders : Walked(q, r)
  BY <1>1 DEF UpToDate
<1>3. \A f \in found[q] : f \in Folders /\ f # Root /\ FolderExists(f)
  BY <1>1, <1>2, FolderTreeAssumption DEF Walked, TypeOK, KeyInv
<1> DEFINE mark == IF op[q] = "trash" THEN "trash" ELSE "live"
<1>4. /\ \A f \in Folders : folder'[f] = IF f \in found[q] /\ FolderExists(f)
                                        THEN mark ELSE folder[f]
      /\ file'[x] = IF x \in Inside(found[q]) THEN mark ELSE file[x]
  BY DEF MarkSubtree
<1> HIDE DEF mark
<1>5. /\ file'[x] = "live" /\ place[x] # Root /\ place[x] \in Folders
      /\ folder'[place[x]] # "live"
  BY <1>1 DEF IsHidden, IsOpen, TypeOK, Parents
<1>6. CASE place[x] \in found[q]
  <2>1. folder'[place[x]] = mark /\ mark # "live"
    BY <1>3, <1>4, <1>5, <1>6
  <2>2. x \notin Inside(found[q])
    BY <1>4, <1>5, <2>1
  <2>3. ~FileExists(x) /\ file[x] = "live"
    BY <1>4, <1>5, <1>6, <2>2 DEF Inside
  <2> QED
    BY <2>3 DEF FileExists
<1>7. CASE place[x] \notin found[q]
  <2>1. file[x] = "live" /\ folder[place[x]] # "live"
    BY <1>4, <1>5, <1>7 DEF Inside
  <2> QED
    BY <1>5, <2>1 DEF IsHidden, IsOpen
<1> QED
  BY <1>6, <1>7

LEMMA NextHides == Basic /\ FreshInv /\ [Next]_vars => [Unseen]_vars
<1> SUFFICES ASSUME Basic, FreshInv, Next, NEW x \in Files, ~raced',
                    IsHidden(x)', ~IsHidden(x)
             PROVE  HidesUnseen(x)
  BY DEF Unseen
<1>1. TypeOK /\ Fresh /\ \A q \in Requests : UpToDate(q)
  BY RacedStays DEF Basic, FreshInv, Fresh, Shut, FoldersOpen, IsOpen
<1>2. /\ file'[x] = "live" /\ place'[x] # Root
      /\ folder'[place'[x]] # "live"
  BY DEF IsHidden, IsOpen
<1>3. ~(/\ file'[x] = file[x] /\ place'[x] = place[x]
        /\ folder[place[x]] = "live" => folder'[place[x]] = "live")
  BY <1>2 DEF IsHidden, IsOpen
<1>4. ASSUME NEW q \in Requests, FolderStep(q) PROVE FALSE
  <2> USE DEF rowVars
  <2>1. CASE Reads(q) \/ FindFiles(q)
    BY <1>3, <2>1 DEF Reads, CreateFolder, MoveFolder, RenameFolder,
       CheckTarget, WalkUp, TrashFolder, RestoreFolder, CheckRestoreParent,
       DeleteFolder, WalkDown, FindFiles, Prepare
  <2>2. CASE InsertFolder(q) \/ UpdateParent(q)
    <3>1. /\ UNCHANGED <<file, place>>
          /\ \/ folder' = folder
             \/ \E f \in Folders : folder' = [folder EXCEPT ![f] = "live"]
      BY <2>2 DEF InsertFolder, UpdateParent
    <3>2. place[x] \in Folders
      BY <1>1, <1>2, <3>1 DEF TypeOK, Parents
    <3> QED
      BY <1>1, <1>3, <3>1, <3>2 DEF TypeOK
  <2>3. CASE MarkSubtree(q)
    BY <1>1, <2>3, MarkHidesNone
  <2>4. CASE DeleteFileRows(q)
    <3>1. x \notin doomed[q]
      BY <1>2, <2>4 DEF DeleteFileRows
    <3> QED
      BY <1>3, <2>4, <3>1 DEF DeleteFileRows
  <2>5. CASE DeleteFolderRow(q)
    <3>1. PICK f \in found[q] :
            \/ UNCHANGED <<folder, place, file>>
            \/ /\ folder' = [folder EXCEPT ![f] = "gone"]
               /\ place' = [y \in Files |-> IF place[y] = f THEN Root
                                            ELSE place[y]]
               /\ UNCHANGED file
      BY <2>5 DEF DeleteFolderRow
    <3>2. CASE UNCHANGED <<folder, place, file>>
      BY <1>3, <3>2
    <3>3. CASE /\ folder' = [folder EXCEPT ![f] = "gone"]
               /\ place' = [y \in Files |-> IF place[y] = f THEN Root
                                            ELSE place[y]]
               /\ UNCHANGED file
      <4>1. place[x] # f /\ place'[x] = place[x] /\ place[x] \in Folders
        BY <1>1, <1>2, <3>3 DEF TypeOK, Parents
      <4> QED
        BY <1>1, <1>3, <3>3, <4>1 DEF TypeOK
    <3> QED
      BY <3>1, <3>2, <3>3
  <2> QED
    BY <1>4, <2>1, <2>2, <2>3, <2>4, <2>5 DEF FolderStep, Reads
<1>5. ASSUME NEW q \in Filers, FileStep(q) PROVE HidesUnseen(x)
  <2> USE DEF rowVars
  <2>1. ~(AddFile(q) \/ MoveFile(q) \/ PatchFile(q) \/ DeleteFile(q))
    BY <1>3 DEF AddFile, MoveFile, PatchFile, DeleteFile, Prepare
  <2>2. ~EraseFile(q)
    BY <1>1, <1>2, <1>3 DEF EraseFile, TypeOK
  <2>3. StoreFile(q)
    BY <1>5, <2>1, <2>2 DEF FileStep
  <2>4. /\ arg[q] = x /\ place'[x] = dest[q] /\ UNCHANGED folder
    BY <1>1, <1>3, <2>3 DEF StoreFile, TypeOK
  <2>5. ~IsOpen(dest[q])
    BY <1>2, <2>4 DEF IsOpen
  <2>6. pc[q] = "patch"
    BY <1>1, <2>3, <2>5, FolderTreeAssumption DEF StoreFile, UpToDate
  <2> QED
    BY <2>3, <2>4, <2>6 DEF HidesUnseen
<1>6. ASSUME NEW y \in Files, TrashFile(y) \/ RestoreFile(y)
      PROVE  HidesUnseen(x)
  <2>1. CASE TrashFile(y)
    BY <1>1, <1>2, <1>3, <2>1 DEF TrashFile, TypeOK
  <2>2. CASE RestoreFile(y)
    <3>1. y = x
      BY <1>1, <1>3, <2>2 DEF RestoreFile, TypeOK
    <3> QED
      BY <2>2, <3>1 DEF HidesUnseen
  <2> QED
    BY <1>6, <2>1, <2>2
<1> QED
  BY <1>4, <1>5, <1>6 DEF Next

-----------------------------------------------------------------------------
(* The folders stay a forest.                                                *)

(* Sets that contain the parents of their members.                           *)
LEMMA Met ==
    ASSUME NEW S, NEW T, ClosedUp(S), ClosedUp(T) PROVE ClosedUp(S \cap T)
BY DEF ClosedUp

(* In a forest no folder is above itself.                                    *)
LEMMA NoneAboveItself ==
    ASSUME TypeOK, KeyInv, Forest, NEW f \in Folders
    PROVE  ~IsAbove(f, parent[f])
<1> SUFFICES ASSUME IsAbove(f, parent[f]) PROVE FALSE
  OBVIOUS
<1> DEFINE B == {g \in Known : \A S \in SUBSET Folders :
                                  ClosedUp(S) /\ g \in S => f \in S}
<1>1. parent[f] # Root
  BY DEF IsAbove
<1>2. f \in B
  BY <1>1 DEF KeyInv, FolderExists, Known
<1>3. ASSUME NEW g \in B PROVE parent[g] \in B
  <2>1. g \in Folders
    BY DEF Known
  <2>2. parent[g] # Root
    <3>1. CASE g = f
      BY <1>1, <3>1
    <3>2. CASE g # f /\ parent[g] = Root
      <4>1. ClosedUp({g})
        BY <3>2 DEF ClosedUp
      <4>2. f \in {g}
        BY <4>1, <2>1
      <4> QED
        BY <3>2, <4>2
    <3> QED
      BY <3>1, <3>2
  <2>3. parent[g] \in Known
    BY <2>1, <2>2 DEF KeyInv, FolderExists, Known, TypeOK, Parents
  <2>4. ASSUME NEW S \in SUBSET Folders, ClosedUp(S), parent[g] \in S
        PROVE  f \in S
    <3>1. ClosedUp(S \cup {g})
      BY <2>4 DEF ClosedUp
    <3>2. f \in S \cup {g}
      BY <2>1, <3>1
    <3>3. f = g => f \in S
      BY <2>4 DEF IsAbove
    <3> QED
      BY <3>2, <3>3
  <2> QED
    BY <2>3, <2>4
<1>4. B \subseteq Folders
  BY DEF Known
<1> HIDE DEF B
<1> QED
  BY <1>2, <1>3, <1>4 DEF Forest

(* Rows are added at the bottom, and links to a parent are cut.              *)
Grows ==
    /\ Known \subseteq Known'
    /\ \A f \in Known : parent'[f] \in {parent[f], Root}

LEMMA MoveFrame ==
    ASSUME Grows, NEW Q \in SUBSET Requests, \A p \in Q : Same(p)
    PROVE  /\ \A S : ClosedUp(S) => ClosedUp(S)'
           /\ \A f, p : ~IsAbove(f, p) => ~IsAbove(f, p)'
           /\ \A p \in Q, S \in SUBSET Folders :
                ClimbsFrom(p, S) => ClimbsFrom(p, S)'
<1>1. \A S : ClosedUp(S) => ClosedUp(S)'
  BY DEF Grows, ClosedUp
<1>2. \A f, p : ~IsAbove(f, p) => ~IsAbove(f, p)'
  BY <1>1 DEF IsAbove
<1>3. ASSUME NEW p \in Q, NEW S \in SUBSET Folders, ClimbsFrom(p, S)
      PROVE  ClimbsFrom(p, S)'
  <2>1. /\ S \subseteq Known' \ {arg'[p], cur'[p]}
        /\ Cardinality(S) = hops'[p]
        /\ dest'[p] \in S \cup {cur'[p]}
    BY <1>3 DEF ClimbsFrom, Same, Grows
  <2>2. \A f \in S : parent'[f] \in S \cup {cur'[p], Root}
    BY <1>3 DEF ClimbsFrom, Same, Grows
  <2>3. \E A \in SUBSET Folders : /\ ClosedUp(A)' /\ A \cap S = {}
                                  /\ cur'[p] \in A \cup {Root}
    BY <1>1, <1>3 DEF ClimbsFrom, Same
  <2> QED
    BY <2>1, <2>2, <2>3 DEF ClimbsFrom
<1> QED
  BY <1>1, <1>2, <1>3

MoverOK(q) ==
    /\ pc[q] = "up" => \E S \in SUBSET Folders : ClimbsFrom(q, S)
    /\ pc[q] = "update" => ~IsAbove(arg[q], dest[q])

LEMMA OthersMove ==
    ASSUME Grows, NEW Q \in SUBSET Requests, \A p \in Q : Same(p) /\ MoverOK(p)
    PROVE  \A p \in Q : MoverOK(p)'
<1> SUFFICES ASSUME NEW p \in Q PROVE MoverOK(p)'
  OBVIOUS
<1>1. /\ pc'[p] = pc[p] /\ arg'[p] = arg[p] /\ dest'[p] = dest[p] /\ MoverOK(p)
  BY DEF Same
<1>2. pc[p] = "up" => \E S \in SUBSET Folders : ClimbsFrom(p, S)'
  BY <1>1, MoveFrame DEF MoverOK
<1>3. pc[p] = "update" => ~IsAbove(arg[p], dest[p])'
  BY <1>1, MoveFrame DEF MoverOK
<1>4. IsAbove(arg[p], dest[p])' = IsAbove(arg[p], dest[p])'
  OBVIOUS
<1> QED
  BY <1>1, <1>2, <1>3 DEF MoverOK, IsAbove

(* The steps of the walk up.                                                 *)
LEMMA WalkBegins ==
    ASSUME Basic, NEW q \in Requests, CheckTarget(q), ~Answer(q),
           KeyInv', NEW p \in Folders, dest[q] = p
    PROVE  \E S \in SUBSET Folders : ClimbsFrom(q, S)'
<1>1. /\ pc[q] = "target" /\ folder[p] = "live" /\ cur'[q] = p /\ hops'[q] = 0
      /\ UNCHANGED <<folder, parent, arg, dest>>
  BY DEF CheckTarget, Basic, TypeOK, HandlerInv, rowVars
<1>2. ClosedUp(Known)'
  BY <1>1 DEF ClosedUp, Known, Basic, KeyInv, TypeOK, Parents, FolderExists
<1>3. Known' \in SUBSET Folders /\ p \in Known'
  BY <1>1 DEF Known
<1>4. ClimbsFrom(q, {})'
  BY <1>1, <1>2, <1>3, FS_EmptySet DEF ClimbsFrom
<1> QED
  BY <1>4

LEMMA WalkGoesOn ==
    ASSUME Basic, Forest, NEW q \in Requests, NEW S \in SUBSET Folders,
           ClimbsFrom(q, S), NEW c \in Folders, cur[q] = c, c # arg[q],
           IsFiniteSet(Folders), hops'[q] = hops[q] + 1, cur'[q] = parent[c],
           UNCHANGED <<folder, parent>>, arg'[q] = arg[q], dest'[q] = dest[q]
    PROVE  ClimbsFrom(q, S \cup {c})'
<1>1. TypeOK /\ KeyInv
  BY DEF Basic
<1>2. PICK A \in SUBSET Folders :
        ClosedUp(A) /\ A \cap S = {} /\ c \in A \cup {Root}
  BY DEF ClimbsFrom
<1>3. c \in A /\ c \in Known /\ parent[c] \in A \cup {Root}
  BY <1>2, FolderTreeAssumption DEF ClosedUp
<1>4. PICK B \in SUBSET Folders :
        ClosedUp(B) /\ c \notin B /\ parent[c] \in B \cup {Root}
  <2>1. CASE parent[c] = Root
    <3>1. ClosedUp({}) /\ c \notin {} /\ parent[c] \in {} \cup {Root}
      BY <2>1 DEF ClosedUp
    <3> QED
      BY <3>1
  <2>2. CASE parent[c] # Root
    BY <1>1, <2>2, NoneAboveItself DEF IsAbove
  <2> QED
    BY <2>1, <2>2
<1>5. /\ ClosedUp(A \cap B) /\ A \cap B \in SUBSET Folders
      /\ (A \cap B) \cap (S \cup {c}) = {}
      /\ parent[c] \in (A \cap B) \cup {Root}
  BY <1>2, <1>3, <1>4, Met
<1>6. ClosedUp(A \cap B)'
  BY <1>5 DEF ClosedUp, Known
<1>7. /\ S \subseteq Known /\ arg[q] \notin S /\ c \notin S
      /\ Cardinality(S) = hops[q] /\ dest[q] \in S \cup {c}
      /\ \A f \in S : parent[f] \in S \cup {c, Root}
  BY DEF ClimbsFrom
<1>8. Cardinality(S \cup {c}) = hops'[q]
  BY <1>7, FS_Subset, FS_AddElement
<1>9. parent[c] \notin S \cup {c}
  BY <1>5, FolderTreeAssumption
<1>10. S \cup {c} \subseteq Known' \ {arg'[q], cur'[q]}
  BY <1>3, <1>7, <1>9 DEF Known
<1>11. \A f \in S \cup {c} : parent'[f] \in (S \cup {c}) \cup {cur'[q], Root}
  BY <1>7
<1>12. \E C \in SUBSET Folders : /\ ClosedUp(C)' /\ C \cap (S \cup {c}) = {}
                                 /\ cur'[q] \in C \cup {Root}
  BY <1>5, <1>6
<1> QED
  BY <1>7, <1>8, <1>10, <1>11, <1>12 DEF ClimbsFrom

(* As many steps as there are folders lead to the top.                       *)
LEMMA WalkEnds ==
    ASSUME Basic, WithinReach, NEW q \in Requests, NEW S \in SUBSET Folders,
           ClimbsFrom(q, S), cur[q] = Root \/ ~(hops[q] < MaxHops)
    PROVE  ~IsAbove(arg[q], dest[q])
<1>1. /\ S \subseteq Known /\ arg[q] \notin S /\ cur[q] \notin S
      /\ Cardinality(S) = hops[q] /\ dest[q] \in S \cup {cur[q]}
      /\ \A f \in S : parent[f] \in S \cup {cur[q], Root}
  BY DEF ClimbsFrom
<1>2. CASE cur[q] = Root
  <2>1. ClosedUp(S)
    BY <1>1, <1>2 DEF ClosedUp
  <2> QED
    BY <1>1, <1>2, <2>1 DEF IsAbove
<1>3. CASE cur[q] # Root
  <2>1. cur[q] \in Folders /\ hops[q] \in 0..MaxHops
    BY <1>3 DEF Basic, TypeOK, Parents
  <2>2. hops[q] = MaxHops
    BY <1>3, <2>1, FolderTreeAssumption
  <2>3. /\ IsFiniteSet(S) /\ Cardinality(S \cup {cur[q]}) = Cardinality(S) + 1
        /\ Cardinality(S \cup {cur[q]}) <= Cardinality(Folders)
    BY <1>1, <2>1, FS_Subset, FS_AddElement DEF WithinReach
  <2>4. Cardinality(Folders) \in Nat
    BY FS_CardinalityType DEF WithinReach
  <2> QED
    BY <1>1, <2>1, <2>2, <2>3, <2>4, FolderTreeAssumption DEF WithinReach
<1> QED
  BY <1>2, <1>3

(* A move below a folder that is not below the moved one closes no cycle:    *)
(* of folders that all have their parents among them, those that the new     *)
(* parent is below would have been such before.                              *)
LEMMA MovedForest ==
    ASSUME Basic, Forest, NEW f \in Folders, NEW p \in Parents,
           ~IsAbove(f, p), parent' = [parent EXCEPT ![f] = p]
    PROVE  Forest'
<1> SUFFICES ASSUME NEW T \in (SUBSET Folders) \ {{}},
                    \A g \in T : parent'[g] \in T
             PROVE  FALSE
  BY DEF Forest
<1>1. \A g \in Folders : parent'[g] = IF g = f THEN p ELSE parent[g]
  BY DEF Basic, TypeOK
<1>2. CASE f \notin T
  <2>1. \A g \in T : parent[g] \in T
    BY <1>1, <1>2
  <2> QED
    BY <2>1 DEF Forest
<1>3. CASE f \in T
  <2>1. p \in T /\ p # Root
    BY <1>1, <1>3, FolderTreeAssumption
  <2>2. PICK S \in SUBSET Folders : ClosedUp(S) /\ p \in S /\ f \notin S
    BY <2>1 DEF IsAbove
  <2>3. ASSUME NEW g \in T \cap S PROVE parent[g] \in T \cap S
    <3>1. g # f /\ parent'[g] = parent[g] /\ parent[g] \in T
      BY <1>1, <2>2
    <3>2. parent[g] \in S \cup {Root} /\ parent[g] # Root
      BY <2>2, <3>1, FolderTreeAssumption DEF ClosedUp
    <3> QED
      BY <3>1, <3>2
  <2>4. T \cap S \in (SUBSET Folders) \ {{}}
    BY <2>1, <2>2
  <2> QED
    BY <2>3, <2>4 DEF Forest
<1> QED
  BY <1>2, <1>3

(* A new folder has nothing below it.                                        *)
LEMMA InsertedForest ==
    ASSUME Basic, Forest, NEW f \in Folders, folder[f] = "absent",
           NEW p \in Parents, MayContain(p),
           parent' = [parent EXCEPT ![f] = p]
    PROVE  Forest'
<1>1. ~IsAbove(f, p)
  <2>1. CASE p = Root
    BY <2>1 DEF IsAbove
  <2>2. CASE p # Root
    <3> DEFINE S == Known
    <3>1. ClosedUp(S)
      BY DEF ClosedUp, Known, Basic, KeyInv, TypeOK, Parents, FolderExists
    <3>2. p \in S /\ f \notin S
      BY <2>2 DEF Known, MayContain, FolderExists, Parents
    <3> QED
      BY <3>1, <3>2 DEF IsAbove, Known
  <2> QED
    BY <2>1, <2>2
<1> QED
  BY <1>1, MovedForest

LEMMA CutForest ==
    ASSUME Forest, \A f \in Folders : parent'[f] \in {parent[f], Root}
    PROVE  Forest'
<1> SUFFICES ASSUME NEW T \in (SUBSET Folders) \ {{}},
                    \A g \in T : parent'[g] \in T
             PROVE  FALSE
  BY DEF Forest
<1>1. \A g \in T : parent[g] \in T
  BY FolderTreeAssumption
<1> QED
  BY <1>1 DEF Forest

Sound == OneMover \/ ~raced

LEMMA NotReady ==
    \A q \in Requests : pc[q] \notin {"up", "update"} => MoverOK(q)
BY DEF MoverOK

(* What a mover knows after it has read something.                           *)
LEMMA MoverReads ==
    ASSUME WithinReach, Basic, Forest, NEW q \in Requests, FolderStep(q),
           MoverOK(q), UNCHANGED <<folder, parent>>
    PROVE  MoverOK(q)'
<1> USE DEF rowVars, upVars, downVars
<1>1. TypeOK /\ KeyInv /\ HandlerInv /\ LocalTypes /\ LocalsOK(q) /\ Basic'
  BY NextBasic DEF Basic, TypeOK, LocalTypes, HandlerInv, LocalsOK, Next
<1>2. \A f, p : IsAbove(f, p)' <=> IsAbove(f, p)
  BY DEF IsAbove, ClosedUp, Known
<1>3. CASE pc'[q] \notin {"up", "update"}
  BY <1>3 DEF MoverOK
<1>4. CASE MoveFolder(q)
  <2>1. PICK f \in Folders, p \in Parents :
          Prepare(q, IF p = Root THEN "update" ELSE "target", f, p)
    BY <1>4 DEF MoveFolder
  <2>2. /\ pc'[q] = IF p = Root THEN "update" ELSE "target"
        /\ dest'[q] = p
    BY <1>1, <2>1 DEF Prepare, Goto, LocalTypes
  <2> QED
    BY <2>2 DEF MoverOK, IsAbove
<1>5. CASE RenameFolder(q)
  <2>1. PICK f \in Folders : Prepare(q, "update", f, parent[f])
    BY <1>5 DEF RenameFolder
  <2>2. pc'[q] = "update" /\ arg'[q] = f /\ dest'[q] = parent[f]
    BY <1>1, <2>1 DEF Prepare, Goto, LocalTypes, TypeOK
  <2>3. ~IsAbove(f, parent[f])
    BY <1>1, NoneAboveItself
  <2> QED
    BY <2>2, <2>3 DEF MoverOK, IsAbove, ClosedUp, Known
<1>6. CASE CheckTarget(q) /\ pc'[q] = "up"
  <2>1. PICK p \in Folders : dest[q] = p
    BY <1>1, <1>6 DEF CheckTarget, LocalsOK
  <2>2. ~Answer(q)
    BY <1>1, <1>6, AnswerLocal
  <2> QED
    BY <1>1, <1>6, <2>1, <2>2, WalkBegins DEF Basic, MoverOK
<1>7. CASE WalkUp(q)
  <2>1. PICK S \in SUBSET Folders : ClimbsFrom(q, S)
    BY <1>7 DEF WalkUp, MoverOK
  <2>2. CASE pc'[q] = "up"
    <3>1. ~Answer(q) /\ ~Goto(q, "update")
      BY <1>1, <2>2, AnswerLocal DEF Goto, LocalTypes
    <3>2. /\ cur[q] # Root /\ cur[q] # arg[q]
          /\ cur' = [cur EXCEPT ![q] = IF FolderExists(cur[q])
                                       THEN parent[cur[q]] ELSE Root]
          /\ hops' = [hops EXCEPT ![q] = @ + 1]
          /\ UNCHANGED <<arg, dest>>
      BY <1>7, <3>1 DEF WalkUp, ClosesCycle
    <3>3. PICK c \in Folders : cur[q] = c
      BY <1>1, <3>2 DEF TypeOK, Parents
    <3>4. cur'[q] = parent[c] /\ hops'[q] = hops[q] + 1
      BY <1>1, <3>2, <3>3 DEF KeyInv, TypeOK
    <3>5. ClimbsFrom(q, S \cup {c})'
      BY <2>1, <3>2, <3>3, <3>4, WalkGoesOn DEF WithinReach
    <3> QED
      BY <2>2, <3>5 DEF MoverOK
  <2>3. CASE pc'[q] = "update"
    <3>1. ~Answer(q) /\ pc'[q] # pc[q]
      BY <1>1, <1>7, <2>3, AnswerLocal DEF WalkUp
    <3>2. cur[q] = Root \/ ~(hops[q] < MaxHops)
      BY <1>7, <3>1 DEF WalkUp
    <3>3. UNCHANGED <<arg, dest>>
      BY <1>7, <3>1 DEF WalkUp
    <3> QED
      BY <1>2, <2>1, <2>3, <3>2, <3>3, WalkEnds
         DEF MoverOK, IsAbove, ClosedUp, Known
  <2> QED
    BY <1>3, <2>2, <2>3
<1>8. CASE pc'[q] \in {"up", "update"}
  <2>1. ~Answer(q)
    BY <1>1, <1>8, AnswerLocal
  <2>2. \/ MoveFolder(q) \/ RenameFolder(q) \/ WalkUp(q)
        \/ CheckTarget(q) /\ pc'[q] = "up"
    BY <1>1, <1>8, <2>1 DEF FolderStep, CreateFolder, InsertFolder,
       CheckTarget, UpdateParent, TrashFolder, RestoreFolder,
       CheckRestoreParent, DeleteFolder, WalkDown, MarkSubtree, FindFiles,
       DeleteFileRows, DeleteFolderRow, Prepare, StartWalk, Goto, LocalTypes
  <2> QED
    BY <1>4, <1>5, <1>6, <1>7, <2>2
<1> QED
  BY <1>3, <1>8

LEMMA FolderForest ==
    ASSUME WithinReach, Basic, Forest, MoveInv, NEW q \in Requests,
           FolderStep(q), Sound'
    PROVE  Forest' /\ MoveInv'
<1> USE DEF rowVars, upVars, downVars
<1>1. /\ TypeOK /\ KeyInv /\ HandlerInv /\ LocalTypes /\ Local(q)
      /\ \A p \in Requests : MoverOK(p)
  BY FolderLocal DEF Basic, TypeOK, LocalTypes, MoveInv, MoverOK
<1>2. ASSUME Grows, MoverOK(q)' PROVE MoveInv'
  <2>1. \A p \in Requests \ {q} : Same(p) /\ MoverOK(p)
    BY <1>1 DEF Local
  <2>2. \A p \in Requests \ {q} : MoverOK(p)'
    BY <1>2, <2>1, OthersMove
  <2> QED
    BY <1>2, <2>2 DEF MoveInv, MoverOK
<1>3. Answer(q) => MoverOK(q)'
  BY <1>1, AnswerLocal DEF MoverOK
<1>4. CASE UNCHANGED <<folder, parent>>
  BY <1>1, <1>2, <1>4, MoverReads DEF Grows, Known, Forest
<1>5. CASE InsertFolder(q) /\ ~UNCHANGED <<folder, parent>>
  <2>1. PICK f \in Folders : /\ folder[f] = "absent"
                             /\ folder' = [folder EXCEPT ![f] = "live"]
                             /\ parent' = [parent EXCEPT ![f] = dest[q]]
    BY <1>5 DEF InsertFolder
  <2>2. MayContain(dest[q]) /\ Answer(q) /\ dest[q] \in Parents
    BY <1>1, <1>5 DEF InsertFolder, TypeOK
  <2>3. Forest'
    BY <2>1, <2>2, InsertedForest
  <2>4. Grows
    BY <1>1, <2>1 DEF Grows, Known, TypeOK
  <2> QED
    BY <1>2, <1>3, <2>2, <2>3, <2>4
<1>6. CASE UpdateParent(q)
  <2>1. pc[q] = "update" /\ Answer(q) /\ Writes(q) /\ UNCHANGED folder
    BY <1>6 DEF UpdateParent
  <2>2. \A p \in Requests \ {q} : pc[p] \notin {"up", "update"}
    BY <1>1, <2>1 DEF Sound, OneMover, Writes, WritesBeside, HandlerInv
  <2>3. \A p \in Requests \ {q} : pc'[p] \notin {"up", "update"}
    BY <1>1, <2>2 DEF Local, Same
  <2>4. MoveInv'
    BY <1>3, <2>1, <2>3 DEF MoveInv, MoverOK
  <2>5. CASE parent' = parent
    BY <2>4, <2>5 DEF Forest
  <2>6. CASE arg[q] \in Folders /\ parent' = [parent EXCEPT ![arg[q]] = dest[q]]
    <3>1. dest[q] \in Parents /\ ~IsAbove(arg[q], dest[q])
      BY <1>1, <2>1 DEF TypeOK, MoverOK
    <3> QED
      BY <2>4, <2>6, <3>1, MovedForest
  <2>7. CASE arg[q] \notin Folders /\ parent' = [parent EXCEPT ![arg[q]] = dest[q]]
    <3>1. parent' = parent
      BY <1>1, <2>7 DEF TypeOK
    <3> QED
      BY <2>5, <3>1
  <2> QED
    BY <1>6, <2>5, <2>6, <2>7 DEF UpdateParent
<1>7. CASE MarkSubtree(q)
  <2>1. Answer(q) /\ UNCHANGED parent
    BY <1>7 DEF MarkSubtree
  <2>2. PICK mark \in {"trash", "live"} :
          folder' = [f \in Folders |-> IF f \in found[q] /\ FolderExists(f)
                                       THEN mark ELSE folder[f]]
    BY <1>7 DEF MarkSubtree
  <2>3. Grows
    BY <2>1, <2>2 DEF Grows, Known
  <2> QED
    BY <1>2, <1>3, <2>1, <2>3 DEF Forest
<1>8. CASE DeleteFolderRow(q) /\ ~UNCHANGED <<folder, parent>>
  <2>1. PICK f \in found[q] :
          /\ folder' = [folder EXCEPT ![f] = "gone"]
          /\ parent' = [c \in Folders |-> IF f \in {c, parent[c]}
                                          THEN Root ELSE parent[c]]
    BY <1>8 DEF DeleteFolderRow
  <2>2. Grows
    BY <1>1, <2>1 DEF Grows, Known, TypeOK
  <2>3. Forest'
    BY <2>1, CutForest
  <2>4. MoverOK(q)'
    <3>1. pc[q] = "folders" /\ (Answer(q) \/ pc' = pc)
      BY <1>8 DEF DeleteFolderRow
    <3> QED
      BY <1>3, <3>1 DEF MoverOK
  <2> QED
    BY <1>2, <2>2, <2>3, <2>4
<1>9. CASE Reads(q)
  BY <1>4, <1>9 DEF Reads, CreateFolder, MoveFolder, RenameFolder, CheckTarget,
     WalkUp, TrashFolder, DeleteFolder, RestoreFolder, CheckRestoreParent,
     WalkDown, Prepare
<1>10. CASE FindFiles(q) \/ DeleteFileRows(q)
  BY <1>4, <1>10 DEF FindFiles, DeleteFileRows
<1> QED
  BY <1>4, <1>5, <1>6, <1>7, <1>8, <1>9, <1>10 DEF FolderStep, Reads

(* In a forest the walk down comes to a folder from its parent only.         *)
LEMMA WalkMeets ==
    ASSUME Basic, Forest, NEW q \in Requests, UpToDate(q), MeetsOnce(q),
           WalkDown(q)
    PROVE  MeetsOnce(q)'
<1>1. PICK f \in todo[q] :
        /\ found' = [found EXCEPT ![q] = @ \cup {f}]
        /\ todo' = [todo EXCEPT ![q] = (@ \ {f}) \cup Children(f)]
        /\ again' = [again EXCEPT ![q] =
                       @ \cup (Children(f) \cap (found'[q] \cup todo[q]))]
  BY DEF WalkDown, Listed
<1>2. /\ pc[q] = "down" /\ again[q] = {} /\ found[q] \cap todo[q] = {}
      /\ todo[q] \subseteq Folders /\ found[q] \subseteq Folders
  BY DEF WalkDown, MeetsOnce, Basic, TypeOK
<1>3. /\ found'[q] = found[q] \cup {f}
      /\ todo'[q] = (todo[q] \ {f}) \cup Children(f)
      /\ again'[q] = Children(f) \cap (found[q] \cup todo[q] \cup {f})
  BY <1>1, <1>2 DEF Basic, TypeOK
<1>4. PICK r \in Folders : Walked(q, r)
  BY <1>2 DEF UpToDate
<1>5. ASSUME NEW c \in Children(f) PROVE c \notin found[q] \cup todo[q]
  <2>1. SUFFICES ASSUME c \in found[q] \cup todo[q] PROVE FALSE
    OBVIOUS
  <2>2. parent[c] = f /\ f \notin found[q]
    BY <1>2 DEF Children
  <2>3. c = r
    BY <1>4, <2>1, <2>2 DEF Walked
  <2>4. ASSUME NEW g \in found[q] \cup todo[q]
        PROVE  parent[g] \in found[q] \cup todo[q]
    <3>1. g # r => parent[g] \in found[q]
      BY <1>4 DEF Walked
    <3>2. g = r => parent[g] \in todo[q]
      BY <2>2, <2>3
    <3> QED
      BY <3>1, <3>2
  <2>5. found[q] \cup todo[q] \in (SUBSET Folders) \ {{}}
    BY <1>2, <2>1
  <2> QED
    BY <2>4, <2>5 DEF Forest
<1>6. f \in found[q] \cup todo[q]
  OBVIOUS
<1> QED
  BY <1>2, <1>3, <1>5, <1>6 DEF MeetsOnce

LEMMA FolderMeets ==
    ASSUME Basic, Forest, NEW q \in Requests, FolderStep(q), Fresh,
           \A p \in Requests : MeetsOnce(p)
    PROVE  \A p \in Requests : MeetsOnce(p)'
<1> USE DEF rowVars, upVars, downVars
<1>1. /\ LocalTypes /\ LocalsOK(q) /\ Local(q) /\ MeetsOnce(q)
  BY FolderLocal DEF Basic, TypeOK, LocalTypes, HandlerInv, LocalsOK
<1>2. \A p \in Requests \ {q} : MeetsOnce(p)'
  BY <1>1 DEF Local, Same, MeetsOnce
<1>3. CASE WalkDown(q)
  BY <1>2, <1>3, WalkMeets DEF Fresh
<1>4. CASE Answer(q)
  BY <1>1, <1>2, <1>4, AnswerLocal DEF MeetsOnce
<1>5. CASE pc'[q] # "down" /\ again'[q] = again[q]
  BY <1>1, <1>2, <1>5 DEF MeetsOnce
<1>6. CASE \E f \in Folders, what \in {"trash", "restore", "delete"} :
             StartWalk(q, what, f) /\ pc[q] \in {"idle", "restoreParent"}
  <2>1. found'[q] = {} /\ again'[q] = again[q]
    BY <1>1, <1>6 DEF StartWalk, LocalsOK
  <2> QED
    BY <1>1, <1>2, <2>1 DEF MeetsOnce
<1>7. CASE TrashFolder(q) \/ DeleteFolder(q)
  BY <1>6, <1>7 DEF TrashFolder, DeleteFolder
<1>8. CASE RestoreFolder(q)
  BY <1>1, <1>5, <1>6, <1>8 DEF RestoreFolder, Goto, LocalTypes
<1>9. CASE CheckRestoreParent(q)
  <2>1. arg[q] \in Folders /\ pc[q] = "restoreParent"
    BY <1>1, <1>9 DEF CheckRestoreParent, LocalsOK
  <2> QED
    BY <1>4, <1>6, <1>9, <2>1 DEF CheckRestoreParent
<1>10. CASE ~(\/ WalkDown(q) \/ TrashFolder(q) \/ DeleteFolder(q)
              \/ RestoreFolder(q) \/ CheckRestoreParent(q) \/ Answer(q))
  <2>1. CASE \/ CreateFolder(q) \/ MoveFolder(q) \/ RenameFolder(q)
             \/ FindFiles(q) \/ DeleteFileRows(q)
    <3>1. pc'[q] # "down" /\ again' = again
      BY <1>1, <2>1 DEF CreateFolder, MoveFolder, RenameFolder, FindFiles,
         DeleteFileRows, Prepare, Goto, LocalTypes
    <3> QED
      BY <1>5, <3>1
  <2>2. CASE CheckTarget(q) \/ WalkUp(q)
    <3>1. pc'[q] # "down" /\ again' = again
      BY <1>1, <1>10, <2>2 DEF CheckTarget, WalkUp, Goto, LocalTypes
    <3> QED
      BY <1>5, <3>1
  <2>3. CASE DeleteFolderRow(q)
    <3>1. pc'[q] # "down" /\ again' = again
      BY <1>1, <1>10, <2>3 DEF DeleteFolderRow
    <3> QED
      BY <1>5, <3>1
  <2> QED
    BY <1>10, <2>1, <2>2, <2>3
       DEF FolderStep, InsertFolder, UpdateParent, MarkSubtree
<1> QED
  BY <1>3, <1>4, <1>7, <1>8, <1>9, <1>10

LEMMA NextTree ==
    ASSUME WithinReach PROVE
    Basic /\ FreshInv /\ TreeInv /\ [Next]_vars => TreeInv'
<1> SUFFICES ASSUME Basic, FreshInv, TreeInv, [Next]_vars PROVE TreeInv'
  OBVIOUS
<1> DEFINE Once == \A p \in Requests : MeetsOnce(p)
<1>1. /\ Sound' => Sound /\ Forest /\ MoveInv
      /\ ~raced' => ~raced /\ Fresh /\ Once
  BY RacedStays DEF Basic, Sound, TreeInv, FreshInv, Fresh, Shut,
     FoldersOpen, IsOpen
<1> SUFFICES (Sound' => Forest' /\ MoveInv') /\ (~raced' => Once')
  BY DEF Sound, TreeInv
<1>2. ASSUME UNCHANGED <<folder, parent>>,
             \E Q \in SUBSET Requests :
                /\ \A p \in Q : Same(p)
                /\ \A p \in Requests \ Q :
                     /\ pc'[p] \notin {"up", "update", "down"}
                     /\ again'[p] \in {{}, again[p]}
      PROVE  (Sound' => Forest' /\ MoveInv') /\ (~raced' => Once')
  <2>1. PICK Q \in SUBSET Requests :
                /\ \A p \in Q : Same(p)
                /\ \A p \in Requests \ Q :
                     /\ pc'[p] \notin {"up", "update", "down"}
                     /\ again'[p] \in {{}, again[p]}
    BY <1>2
  <2>2. Grows /\ (Forest => Forest')
    BY <1>2 DEF Grows, Known, Forest
  <2>3. MoveInv => MoveInv'
    <3>1. ASSUME MoveInv PROVE \A p \in Q : MoverOK(p)'
      BY <2>1, <2>2, <3>1, OthersMove DEF MoveInv, MoverOK
    <3> QED
      BY <2>1, <3>1 DEF MoveInv, MoverOK
  <2>4. Once => Once'
    BY <2>1 DEF Same, MeetsOnce
  <2> QED
    BY <1>1, <2>2, <2>3, <2>4
<1>3. ASSUME NEW q \in Requests, FolderStep(q)
      PROVE  (Sound' => Forest' /\ MoveInv') /\ (~raced' => Once')
  <2>1. ~raced' => Sound'
    BY DEF Sound
  <2> QED
    BY <1>1, <1>3, <2>1, FolderForest, FolderMeets
<1>4. ASSUME NEW q \in Requests, FileStep(q)
      PROVE  (Sound' => Forest' /\ MoveInv') /\ (~raced' => Once')
  <2>1. Local(q) /\ UNCHANGED <<folder, parent>>
    BY <1>4, FileLocal, FileKeyed DEF Basic
  <2>2. /\ pc'[q] \in {"idle", "add", "place", "patch", "erase"}
        /\ again'[q] \in {{}, again[q]}
    BY <1>4, AnswerLocal, TypesSplit DEF Basic, LocalTypes, FileStep, AddFile,
       MoveFile, PatchFile, StoreFile, DeleteFile, EraseFile, Prepare, Goto,
       downVars
  <2>3. /\ Requests \ {q} \in SUBSET Requests
        /\ \A p \in Requests \ {q} : Same(p)
        /\ \A p \in Requests \ (Requests \ {q}) : p = q
    BY <2>1 DEF Local
  <2> QED
    BY <1>2, <2>1, <2>2, <2>3
<1>5. ASSUME NEW x \in Files, FileMark(x)
      PROVE  (Sound' => Forest' /\ MoveInv') /\ (~raced' => Once')
  <2>1. UNCHANGED <<folder, parent>> /\ \A p \in Requests : Same(p)
    BY <1>5, MarkKeyed DEF Basic
  <2> QED
    BY <1>2, <2>1
<1>6. CASE UNCHANGED vars
  <2>1. UNCHANGED <<folder, parent>> /\ \A p \in Requests : Same(p)
    BY <1>6 DEF vars, rowVars, upVars, downVars, Same
  <2> QED
    BY <1>2, <2>1
<1> QED
  BY <1>3, <1>4, <1>5, <1>6, FolderTreeAssumption DEF Next, FileMark

-----------------------------------------------------------------------------
(* The theorems.                                                             *)

LEMMA InitFresh == Init => Basic /\ FreshInv
<1> SUFFICES ASSUME Init PROVE Basic /\ FreshInv
  OBVIOUS
<1>1. TypeOK
  <2>1. 0 \in 0..MaxHops
    BY FolderTreeAssumption
  <2> QED
    BY <2>1 DEF Init, TypeOK, RowState, Parents, Pc
<1>2. KeyInv /\ HandlerInv
  BY DEF Init, KeyInv, HandlerInv
<1>3. FreshInv
  BY DEF Init, FreshInv, FoldersOpen, UpToDate
<1> QED
  BY <1>1, <1>2, <1>3 DEF Basic

LEMMA InitTree == Init => TreeInv
<1> SUFFICES ASSUME Init PROVE TreeInv
  OBVIOUS
<1>1. \A f \in Folders : parent[f] = Root
  BY DEF Init
<1>2. Forest
  BY <1>1, FolderTreeAssumption DEF Forest
<1>3. \A q \in Requests : pc[q] = "idle" /\ again[q] = {}
  BY DEF Init
<1> QED
  BY <1>2, <1>3 DEF TreeInv, MoveInv, MeetsOnce

(* What every handler knows of the rows holds while none overlaps another.   *)
THEOREM FreshInvariance == Spec => [](Basic /\ FreshInv)
BY InitFresh, NextBasic, NextFresh, PTL DEF Spec

(* Rows, handlers and their locals keep to their types.                      *)
THEOREM FolderTypes == Spec => []TypeOK
<1>1. Basic => TypeOK
  BY DEF Basic
<1> QED
  BY <1>1, FreshInvariance, PTL

(* As long as requests come one after the other, trash, restore, create and  *)
(* move never hide a live folder below one in the trash, however many        *)
(* folders there are and whatever subtrees are deleted in between; and a     *)
(* live file gets below one only by PATCH /files/:id or its own restore.     *)
THEOREM TrashStaysClosed == Spec => TrashIsClosed
<1>1. FreshInv => (~raced => FoldersOpen)
  BY DEF FreshInv
<1> QED
  BY <1>1, FreshInvariance, NextHides, PTL DEF Spec, TrashIsClosed, Unseen

(* The inductive invariant, for as many folders as the walk up may visit.    *)
THEOREM FolderInvariance ==
    ASSUME WithinReach PROVE Spec => []FolderInv
<1>1. Init => FolderInv
  BY InitFresh, InitTree DEF FolderInv, Basic
<1>2. FolderInv /\ [Next]_vars => FolderInv'
  BY NextBasic, NextFresh, NextTree DEF FolderInv, Basic
<1> QED
  BY <1>1, <1>2, PTL DEF Spec

(* The folders stay a forest through creations, renames, moves, restores and *)
(* deletions of any number of handlers, if one of them moves folders.        *)
THEOREM FoldersStayForest ==
    ASSUME WithinReach, OneMover PROVE Spec => []Forest
<1>1. FolderInv => Forest
  BY DEF FolderInv, TreeInv
<1> QED
  BY <1>1, FolderInvariance, PTL

(* As long as requests come one after the other, no subtree walk meets a     *)
(* folder twice, even when every handler moves folders.                      *)
THEOREM WalksMeetOnce ==
    ASSUME WithinReach PROVE Spec => []NoRevisit
<1>1. FolderInv => NoRevisit
  BY DEF FolderInv, TreeInv, MeetsOnce, NoRevisit
<1> QED
  BY <1>1, FolderInvariance, PTL

-----------------------------------------------------------------------------
(* None is nothing that a column or a request can hold, a sanitized name is  *)
(* a name, and there is room to count the one user's favorite.               *)
ValuesApart ==
    /\ None \notin Names /\ None \notin BOOLEAN /\ None \notin SUBSET Tags
    /\ None \notin Rows /\ None \notin EditRequests /\ None \notin Paths
    /\ SafeName \in [Names -> Names] /\ Likes \subseteq BOOLEAN
    /\ MaxFavorites \in Nat \ {0}

Ops == {"patch", "rename", "refresh", "delete", "retag", "result", "transfer"}

-----------------------------------------------------------------------------
(* What writing columns makes of a row.                                      *)
With(cols, old) == [c \in DOMAIN old |-> IF c \in DOMAIN cols THEN cols[c]
                                                           ELSE old[c]]

WritesWell(w, p, s) ==
    /\ w \in Rows /\ Counted(w) /\ w.path = p
    /\ s.tags = ShownTags(s) => w.tags = ShownTags(w)

LEMMA PatchWrites ==
    ASSUME ValuesApart, NEW r \in EditRequests, NEW s \in Rows, NEW old \in Rows,
           NEW p \in Paths, r.op = "patch", Counted(s)
    PROVE  WritesWell(With(PatchedColumns(r, s, p), old), p, s)
<1> DEFINE w == With(PatchedColumns(r, s, p), old)
<1>1. /\ r.name \in Names \cup {None}
      /\ r.tags \in (SUBSET Tags) \cup {None}
      /\ r.favorite \in BOOLEAN \cup {None}
  BY DEF EditRequests, Patch, ValuesApart
<1>2. /\ w.name = Given(r.name, s.name) /\ w.path = p
      /\ w.tags = IF r.tags = None THEN s.tags ELSE r.tags \cup s.ai
      /\ w.user = Given(r.tags, s.user) /\ w.ai = s.ai
      /\ w.favorite = Given(r.favorite, s.favorite)
      /\ w.favorites = Favorites(r.favorite, s)
      /\ w = [name |-> w.name, path |-> w.path, tags |-> w.tags,
              user |-> w.user, ai |-> w.ai, favorite |-> w.favorite,
              favorites |-> w.favorites]
  BY DEF PatchedColumns, Rows, With
<1>3. /\ w.name \in Names /\ w.tags \in SUBSET Tags
      /\ w.user \in (SUBSET Tags) \cup {None} /\ w.ai \in SUBSET Tags
  BY <1>1, <1>2 DEF Given, Rows
<1>4. w.favorite \in BOOLEAN
  BY <1>1, <1>2, Zenon DEF Given, Rows
<1>5. w.favorites \in 0..MaxFavorites /\ Counted(w)
  <2>1. s.favorite \in BOOLEAN /\ s.favorites \in Nat
        /\ s.favorites = IF s.favorite THEN 1 ELSE 0
    BY DEF Rows, Counted
  <2> QED
    BY <1>1, <1>2, <2>1 DEF Favorites, Given, Counted, ValuesApart
<1>6. s.tags = ShownTags(s) => w.tags = ShownTags(w)
  <2>1. CASE r.tags = None
    BY <1>2, <2>1 DEF ShownTags, UserTags, Given
  <2>2. CASE r.tags # None
    BY <1>2, <2>2 DEF ShownTags, UserTags, Given
  <2> QED
    BY <2>1, <2>2
<1>7. w \in Rows
  BY <1>2, <1>3, <1>4, <1>5 DEF Rows
<1> QED
  BY <1>2, <1>5, <1>6, <1>7 DEF WritesWell

(* A write of tags: what is not written stays.                               *)
LEMMA TagWrites ==
    ASSUME NEW old \in Rows, NEW cols, NEW w, w = With(cols, old),
           DOMAIN cols \subseteq {"tags", "user", "ai"},
           "tags" \in DOMAIN cols => cols.tags \in SUBSET Tags,
           "user" \in DOMAIN cols => cols.user \in (SUBSET Tags) \cup {None},
           "ai" \in DOMAIN cols => cols.ai \in SUBSET Tags,
           Counted(old)
    PROVE  /\ w \in Rows /\ Counted(w) /\ w.path = old.path
           /\ w.tags = IF "tags" \in DOMAIN cols THEN cols.tags ELSE old.tags
           /\ w.user = IF "user" \in DOMAIN cols THEN cols.user ELSE old.user
           /\ w.ai = IF "ai" \in DOMAIN cols THEN cols.ai ELSE old.ai
<1>1. /\ w = [name |-> old.name, path |-> old.path, tags |-> w.tags,
              user |-> w.user, ai |-> w.ai, favorite |-> old.favorite,
              favorites |-> old.favorites]
      /\ w.tags = IF "tags" \in DOMAIN cols THEN cols.tags ELSE old.tags
      /\ w.user = IF "user" \in DOMAIN cols THEN cols.user ELSE old.user
      /\ w.ai = IF "ai" \in DOMAIN cols THEN cols.ai ELSE old.ai
  BY DEF With, Rows
<1>2. w.tags \in SUBSET Tags /\ w.user \in (SUBSET Tags) \cup {None}
      /\ w.ai \in SUBSET Tags
  BY <1>1 DEF Rows
<1>3. w \in Rows
  <2>1. /\ old.name \in Names /\ old.path \in Paths /\ old.favorite \in BOOLEAN
        /\ old.favorites \in 0..MaxFavorites
    BY DEF Rows
  <2> QED
    BY <1>1, <1>2, <2>1 DEF Rows
<1>4. Counted(w) /\ w.path = old.path
  BY <1>1 DEF Counted
<1> QED
  BY <1>1, <1>3, <1>4

LEMMA UserTagsTyped == ASSUME NEW s \in Rows PROVE UserTags(s) \in SUBSET Tags
BY DEF UserTags, Rows

(* Only patch and rename write the path; a result and the tags of a saved    *)
(* URL keep both buckets what tags shows, if the row was as read.            *)
RowWell(w, r, s, old, p) ==
    /\ w \in Rows /\ Counted(w)
    /\ w.path = IF r.op \in {"patch", "rename"} THEN p ELSE old.path
    /\ (s = old /\ r.op # "retag" /\ s.tags = ShownTags(s)) =>
         w.tags = ShownTags(w)

LEMMA RowWritten ==
    ASSUME ValuesApart, NEW r \in EditRequests, NEW s \in Rows, NEW old \in Rows,
           NEW p \in Paths, r.op # "delete", Counted(s), Counted(old)
    PROVE  RowWell(With(Columns(r, s, p), old), r, s, old, p)
<1> DEFINE w == With(Columns(r, s, p), old)
<1> SUFFICES /\ w \in Rows /\ Counted(w)
             /\ w.path = IF r.op \in {"patch", "rename"} THEN p ELSE old.path
             /\ (s = old /\ r.op # "retag" /\ s.tags = ShownTags(s)) =>
                  w.tags = ShownTags(w)
  BY DEF RowWell
<1>1. r.op \in Ops
  BY DEF EditRequests, Patch, Ops
<1>2. CASE r.op = "patch"
  <2>1. w = With(PatchedColumns(r, s, p), old)
    BY <1>2 DEF Columns
  <2>2. WritesWell(w, p, s)
    BY <1>2, <2>1, PatchWrites
  <2> QED
    BY <1>2, <2>2 DEF WritesWell
<1>3. CASE r.op = "rename"
  <2>1. w = With([name |-> r.name, path |-> p], old)
    BY <1>3 DEF Columns
  <2>2. r.name \in Names
    BY <1>3 DEF EditRequests, Patch
  <2>3. w = [name |-> r.name, path |-> p, tags |-> old.tags,
             user |-> old.user, ai |-> old.ai, favorite |-> old.favorite,
             favorites |-> old.favorites]
    BY <2>1 DEF With, Rows
  <2> QED
    BY <1>3, <2>2, <2>3 DEF Rows, Counted, ShownTags, UserTags
<1>4. CASE r.op = "refresh"
  <2>1. w = With([user |-> s.user, ai |-> s.ai], old)
    BY <1>4 DEF Columns
  <2>2. s.user \in (SUBSET Tags) \cup {None} /\ s.ai \in SUBSET Tags
    BY DEF Rows
  <2> QED
    BY <1>4, <2>1, <2>2, TagWrites DEF ShownTags, UserTags
<1>5. CASE r.op = "retag"
  <2>1. w = With([tags |-> (s.tags \ {r.from}) \cup ({r.to} \ {None})], old)
    BY <1>5 DEF Columns, RetaggedColumns
  <2>2. (s.tags \ {r.from}) \cup ({r.to} \ {None}) \in SUBSET Tags
    BY <1>5 DEF EditRequests, Patch, Rows
  <2> QED
    BY <1>5, <2>1, <2>2, TagWrites
<1>6. CASE r.op = "result"
  <2>1. w = With([tags |-> UserTags(s) \cup r.tags, user |-> UserTags(s),
                  ai |-> r.tags], old)
    BY <1>6 DEF Columns, ResultColumns
  <2>2. r.tags \in SUBSET Tags
    BY <1>6 DEF EditRequests, Patch
  <2>3. /\ w \in Rows /\ Counted(w) /\ w.path = old.path
        /\ w.tags = UserTags(s) \cup r.tags /\ w.user = UserTags(s)
        /\ w.ai = r.tags
    BY <2>1, <2>2, TagWrites, UserTagsTyped
  <2>4. w.user # None
    BY <2>3, UserTagsTyped DEF ValuesApart
  <2> QED
    BY <1>6, <2>3, <2>4 DEF ShownTags, UserTags
<1>7. CASE r.op = "transfer"
  <2> DEFINE all == s.tags \cup r.user \cup UserTags(s) \cup r.ai \cup s.ai
  <2>1. w = With([tags |-> all, user |-> UserTags(s) \cup r.user,
                  ai |-> s.ai \cup r.ai], old)
    BY <1>7 DEF Columns, TransferColumns
  <2>2. r.user \in SUBSET Tags /\ r.ai \in SUBSET Tags
    BY <1>7 DEF EditRequests, Patch
  <2>3. /\ UserTags(s) \cup r.user \in SUBSET Tags
        /\ s.ai \cup r.ai \in SUBSET Tags /\ all \in SUBSET Tags
    BY <2>2, UserTagsTyped DEF Rows
  <2>4. /\ w \in Rows /\ Counted(w) /\ w.path = old.path
        /\ w.tags = all /\ w.user = UserTags(s) \cup r.user
        /\ w.ai = s.ai \cup r.ai
    <3> HIDE DEF all
    <3> QED
      BY <2>1, <2>3, TagWrites
  <2>5. w.user # None
    BY <2>3, <2>4 DEF ValuesApart
  <2>6. s.tags = ShownTags(s) => all = (UserTags(s) \cup r.user)
                                           \cup (s.ai \cup r.ai)
    BY DEF ShownTags
  <2>7. ShownTags(w) = w.user \cup w.ai
    BY <2>5 DEF ShownTags, UserTags
  <2> QED
    BY <1>7, <2>4, <2>6, <2>7
<1> QED
  BY <1>1, <1>2, <1>3, <1>4, <1>5, <1>6, <1>7 DEF Ops

-----------------------------------------------------------------------------
(* A write that meets its row.                                               *)
LEMMA WriteMeans ==
    ASSUME ValuesApart, EditInv, NEW q \in Editors, WriteRow(q)
    PROVE  /\ request[q] \in EditRequests /\ target[q] \in Paths
           /\ seen[q] \in Rows /\ Counted(seen[q])
           /\ row' \in Rows \cup {None}
           /\ row' # None =>
                /\ row # None /\ request[q].op # "delete" /\ Counted(row')
                /\ row'.path = IF request[q].op \in {"patch", "rename"}
                               THEN target[q] ELSE row.path
                /\ (seen[q] = row /\ request[q].op # "retag"
                         /\ row.tags = ShownTags(row)) =>
                     row'.tags = ShownTags(row')
<1>1. /\ request[q] \in EditRequests /\ target[q] \in Paths
      /\ seen[q] \in Rows /\ Counted(seen[q])
      /\ row \in Rows \cup {None} /\ (row # None => Counted(row))
  BY DEF EditInv, EditTypeOK, ReadInv, WriteRow
<1>2. CASE row = None \/ request[q].op = "delete"
  BY <1>1, <1>2 DEF WriteRow
<1>3. CASE row # None /\ request[q].op # "delete"
  <2>1. row' = With(Columns(request[q], seen[q], target[q]), row)
    BY <1>3 DEF WriteRow, Updated, With, WrittenPath
  <2>2. row \in Rows /\ Counted(row)
    BY <1>1, <1>3
  <2> QED
    <3>1. RowWell(row', request[q], seen[q], row, target[q])
      BY <1>1, <1>3, <2>1, <2>2, RowWritten
    <3> QED
      BY <1>1, <1>3, <3>1 DEF RowWell
<1> QED
  BY <1>1, <1>2, <1>3

LEMMA DoneMeans ==
    ASSUME EditTypeOK, NEW q \in Editors, Done(q)
    PROVE  \A p \in Editors :
             /\ request'[p] = IF p = q THEN None ELSE request[p]
             /\ seen'[p] = IF p = q THEN None ELSE seen[p]
             /\ target'[p] = IF p = q THEN None ELSE target[p]
BY DEF EditTypeOK, Done

LEMMA NextTyped ==
    ASSUME ValuesApart, EditInv, [EditNext]_editVars PROVE EditTypeOK'
<1>0. EditTypeOK
  BY DEF EditInv
<1>1. ASSUME NEW q \in Editors, ReadFile(q) PROVE EditTypeOK'
  <2>1. PICK r \in EditRequests : request' = [request EXCEPT ![q] = r]
    BY <1>1 DEF ReadFile
  <2>2. request' \in [Editors -> EditRequests \cup {None}]
    <3> HIDE DEF EditRequests
    <3> QED
      BY <1>0, <2>1 DEF EditTypeOK
  <2>3. seen' \in [Editors -> Rows \cup {None}]
    BY <1>0, <1>1 DEF EditTypeOK, ReadFile
  <2> QED
    BY <1>0, <1>1, <2>2, <2>3 DEF ReadFile, EditTypeOK
<1>2. ASSUME NEW q \in Editors, WorkOnDisk(q) PROVE EditTypeOK'
  <2>1. request[q] \in EditRequests /\ seen[q] \in Rows
    BY <1>0, <1>2 DEF WorkOnDisk, EditInv, ReadInv, EditTypeOK
  <2>2. seen[q].path \in Paths
    BY <2>1 DEF Rows
  <2>3. Renames(q) => NewPath(q) \in Paths
    <3> SUFFICES ASSUME Renames(q) PROVE NewPath(q) \in Paths
      OBVIOUS
    <3>1. request[q].name \in Names
      BY <2>1 DEF Renames, EditRequests, Patch
    <3> QED
      BY <3>1 DEF NewPath, Paths, ValuesApart
  <2>4. disk' \subseteq Paths /\ target' \in [Editors -> Paths \cup {None}]
    BY <1>0, <1>2, <2>2, <2>3 DEF WorkOnDisk, MovedOnDisk, EditTypeOK
  <2>5. {overlapped', died', unlinked', retagged'} \subseteq BOOLEAN
    <3>1. unlinked' \in BOOLEAN /\ retagged' = retagged /\ died' = died
          /\ {unlinked, died, retagged} \subseteq BOOLEAN
      BY <1>0, <1>2, Zenon DEF WorkOnDisk, EditTypeOK
    <3>2. overlapped' \in BOOLEAN
      BY <1>2, Zenon DEF WorkOnDisk
    <3> QED
      BY <3>1, <3>2
  <2> QED
    BY <1>0, <1>2, <2>4, <2>5 DEF WorkOnDisk, EditTypeOK
<1>3. ASSUME NEW q \in Editors, WriteRow(q) PROVE EditTypeOK'
  <2>1. row' \in Rows \cup {None}
    BY <1>3, WriteMeans
  <2>2. /\ request' \in [Editors -> EditRequests \cup {None}]
        /\ seen' \in [Editors -> Rows \cup {None}]
        /\ target' \in [Editors -> Paths \cup {None}]
    BY <1>0, <1>3 DEF WriteRow, Done, EditTypeOK
  <2>3. {overlapped', died', unlinked', retagged'} \subseteq BOOLEAN
    <3>1. unlinked' = unlinked /\ died' = died
          /\ {unlinked, died, retagged} \subseteq BOOLEAN
      BY <1>0, <1>3 DEF WriteRow, EditTypeOK
    <3>2. overlapped' \in BOOLEAN
      BY <1>3, Zenon DEF WriteRow
    <3>3. retagged' = retagged \/ retagged' = (retagged \/ request[q].op = "retag")
      BY <1>3 DEF WriteRow
    <3>4. retagged' \in BOOLEAN
      BY <3>1, <3>3, Zenon
    <3> QED
      BY <3>1, <3>2, <3>4
  <2> QED
    BY <1>0, <1>3, <2>1, <2>2, <2>3 DEF WriteRow, EditTypeOK
<1>4. CASE Die
  BY <1>0, <1>4 DEF Die, EditTypeOK
<1>5. CASE UNCHANGED editVars
  BY <1>0, <1>5 DEF editVars, EditTypeOK
<1> QED
  BY <1>1, <1>2, <1>3, <1>4, <1>5 DEF EditNext

LEMMA NextReads ==
    ASSUME ValuesApart, EditInv, [EditNext]_editVars PROVE ReadInv'
<1>0. EditTypeOK /\ ReadInv
  BY DEF EditInv
<1>1. ASSUME NEW q \in Editors, ReadFile(q) PROVE ReadInv'
  <2>1. PICK r \in EditRequests : request' = [request EXCEPT ![q] = r]
    BY <1>1 DEF ReadFile
  <2>2. r # None
    BY <2>1 DEF ValuesApart
  <2>3. \A p \in Editors :
           /\ request'[p] = IF p = q THEN r ELSE request[p]
           /\ seen'[p] = IF p = q THEN row ELSE seen[p]
    BY <1>0, <1>1, <2>1 DEF ReadFile, EditTypeOK
  <2>4. row # None /\ UNCHANGED <<row, target, overlapped>>
    BY <1>1 DEF ReadFile
  <2> QED
    BY <1>0, <2>2, <2>3, <2>4 DEF ReadInv, Counted
<1>2. ASSUME NEW q \in Editors, WorkOnDisk(q) PROVE ReadInv'
  <2>1. /\ UNCHANGED <<row, request, seen>> /\ request[q] # None
        /\ ~overlapped' => ~overlapped
    BY <1>2 DEF WorkOnDisk
  <2>2. \A p \in Editors \ {q} : target'[p] = target[p]
    BY <1>0, <1>2 DEF WorkOnDisk, EditTypeOK
  <2> QED
    BY <1>0, <2>1, <2>2 DEF ReadInv, Counted
<1>3. ASSUME NEW q \in Editors, WriteRow(q) PROVE ReadInv'
  <2>1. ~overlapped' => \A p \in Editors \ {q} : request[p] = None
    BY <1>3 DEF WriteRow, Beside
  <2>2. row' # None => Counted(row')
    BY <1>3, WriteMeans
  <2>3. Done(q)
    BY <1>3 DEF WriteRow
  <2> QED
    BY <1>0, <2>1, <2>2, <2>3, DoneMeans DEF ReadInv, Counted
<1>4. CASE Die
  BY <1>0, <1>4 DEF Die, ReadInv, Counted
<1>5. CASE UNCHANGED editVars
  BY <1>0, <1>5 DEF editVars, ReadInv, Counted
<1> QED
  BY <1>1, <1>2, <1>3, <1>4, <1>5 DEF EditNext

LEMMA NextTags ==
    ASSUME ValuesApart, EditInv, [EditNext]_editVars PROVE TagsMatchBuckets'
<1>1. ASSUME NEW q \in Editors, WriteRow(q), row' # None, ~overlapped', ~retagged'
      PROVE  row'.tags = ShownTags(row')
  <2>1. row # None /\ ~overlapped /\ ~retagged /\ request[q].op # "retag"
    BY <1>1, WriteMeans DEF WriteRow
  <2>2. request[q] # None
    BY <1>1 DEF WriteRow, EditInv, ReadInv
  <2>3. seen[q] = row /\ row.tags = ShownTags(row)
    BY <2>1, <2>2 DEF EditInv, ReadInv, TagsMatchBuckets
  <2> QED
    BY <1>1, <2>1, <2>3, WriteMeans
<1>2. CASE row' = row /\ (~overlapped' => ~overlapped) /\ retagged' = retagged
  BY <1>2 DEF EditInv, TagsMatchBuckets, ShownTags, UserTags
<1>3. \/ \E q \in Editors : WriteRow(q)
      \/ row' = row /\ (~overlapped' => ~overlapped) /\ retagged' = retagged
  BY DEF EditNext, ReadFile, WorkOnDisk, Die, editVars
<1> QED
  BY <1>1, <1>2, <1>3 DEF TagsMatchBuckets, ShownTags, UserTags

(* The bytes: on disk at one path ...                                        *)
LEMMA NextBytesKept ==
    ASSUME ValuesApart, EditInv, [EditNext]_editVars
    PROVE  ~unlinked' => \E p \in Paths : disk' = {p}
<1>1. ASSUME NEW q \in Editors, WorkOnDisk(q), ~unlinked'
      PROVE  \E p \in Paths : disk' = {p}
  <2>1. /\ request[q].op # "delete" /\ ~unlinked
        /\ \/ disk' = disk
           \/ /\ Renames(q)
              /\ disk' = MovedOnDisk(seen[q].path, NewPath(q))
    BY <1>1 DEF WorkOnDisk
  <2>2. PICK p \in Paths : disk = {p}
    BY <2>1 DEF EditInv, BytesInv
  <2>3. CASE disk' = disk
    BY <2>2, <2>3
  <2>4. CASE Renames(q) /\ disk' = MovedOnDisk(seen[q].path, NewPath(q))
    <3>1. request[q] \in EditRequests
      BY <1>1 DEF WorkOnDisk, EditInv, EditTypeOK
    <3>2. request[q].name \in Names
      BY <2>4, <3>1 DEF Renames, EditRequests, Patch
    <3>3. NewPath(q) \in Paths
      BY <3>2 DEF NewPath, Paths, ValuesApart
    <3>4. disk' = {p} \/ disk' = {NewPath(q)}
      BY <2>2, <2>4 DEF MovedOnDisk
    <3> QED
      BY <3>3, <3>4
  <2> QED
    BY <2>1, <2>3, <2>4
<1>2. CASE UNCHANGED <<disk, unlinked>>
  BY <1>2 DEF EditInv, BytesInv
<1>3. \/ \E q \in Editors : WorkOnDisk(q)
      \/ UNCHANGED <<disk, unlinked>>
  BY DEF EditNext, ReadFile, WriteRow, Die, editVars
<1> QED
  BY <1>1, <1>2, <1>3

(* ... which is the row's, or that of an edit whose write is to come.        *)
PlaceInv ==
    row # None /\ ~overlapped /\ ~died =>
        InPlace \/ (row.path \notin disk /\ \E q \in Editors : OnTheWay(q))

LEMMA NextPlace ==
    ASSUME ValuesApart, EditInv, [EditNext]_editVars PROVE PlaceInv'
<1> SUFFICES ASSUME row' # None, ~overlapped', ~died'
             PROVE  InPlace' \/ (row'.path \notin disk'
                                 /\ \E q \in Editors : OnTheWay(q)')
  BY DEF PlaceInv
<1>0. EditTypeOK /\ ReadInv /\ PlaceInv
  BY DEF EditInv, BytesInv, PlaceInv
<1>1. row # None /\ ~overlapped /\ ~died
  <2>1. ASSUME NEW q \in Editors, WriteRow(q) PROVE row # None
    BY <2>1, WriteMeans
  <2>2. ASSUME row' = row PROVE row # None
    BY <2>2
  <2>3. \/ \E q \in Editors : WriteRow(q)
        \/ row' = row
    BY DEF EditNext, ReadFile, WorkOnDisk, Die, editVars
  <2>4. ~overlapped
    BY DEF EditNext, ReadFile, WorkOnDisk, WriteRow, Die, editVars
  <2>5. ~died
    BY DEF EditNext, ReadFile, WorkOnDisk, WriteRow, Die, editVars
  <2> QED
    BY <2>1, <2>2, <2>3, <2>4, <2>5
<1>2. InPlace \/ (row.path \notin disk /\ \E q \in Editors : OnTheWay(q))
  BY <1>0, <1>1 DEF PlaceInv
<1>3. ASSUME NEW q \in Editors, ReadFile(q)
      PROVE  InPlace' \/ (row'.path \notin disk'
                          /\ \E e \in Editors : OnTheWay(e)')
  <2>1. target[q] = None /\ UNCHANGED <<row, disk, target>>
    BY <1>0, <1>3 DEF ReadInv, ReadFile
  <2>2. \A e \in Editors \ {q} : request'[e] = request[e]
    BY <1>0, <1>3 DEF ReadFile, EditTypeOK
  <2> QED
    BY <1>2, <2>1, <2>2 DEF InPlace, OnTheWay
<1>4. ASSUME NEW q \in Editors, WorkOnDisk(q)
      PROVE  InPlace' \/ (row'.path \notin disk'
                          /\ \E e \in Editors : OnTheWay(e)')
  <2>1. /\ UNCHANGED <<row, request>> /\ target[q] = None
        /\ seen[q].path = row.path
        /\ disk' # disk => ~Beside(q)
    BY <1>0, <1>1, <1>4 DEF WorkOnDisk, ReadInv
  <2>2. \A e \in Editors \ {q} : target'[e] = target[e]
    BY <1>0, <1>4 DEF WorkOnDisk, EditTypeOK
  <2>3. disk' # disk => \A e \in Editors \ {q} : target[e] = None
    BY <1>0, <2>1 DEF Beside, ReadInv
  <2>4. row.path \in Paths /\ None \notin Paths
    BY <1>0, <1>1 DEF EditTypeOK, Rows, ValuesApart
  <2>5. CASE row.path \notin disk
    <3>1. disk' = disk
      BY <1>4, <2>1, <2>5 DEF WorkOnDisk, MovedOnDisk
    <3>2. PICK e \in Editors : OnTheWay(e)
      BY <1>2, <2>5 DEF InPlace
    <3>3. OnTheWay(e)'
      BY <2>1, <2>2, <3>1, <3>2 DEF OnTheWay
    <3> QED
      BY <2>1, <2>5, <3>1, <3>3
  <2>6. CASE row.path \in disk /\ request[q].op = "delete"
    <3>1. /\ disk' = disk \ {row.path}
          /\ target' = [target EXCEPT ![q] = row.path]
      BY <1>4, <2>1, <2>6 DEF WorkOnDisk
    <3>2. OnTheWay(q)'
      BY <1>0, <2>1, <2>4, <2>6, <3>1 DEF OnTheWay, EditTypeOK
    <3> QED
      BY <2>1, <3>1, <3>2
  <2>7. CASE row.path \in disk /\ request[q].op # "delete" /\ ~Renames(q)
    <3>1. disk' = disk /\ target' = [target EXCEPT ![q] = row.path]
      BY <1>4, <2>1, <2>7 DEF WorkOnDisk
    <3>2. target'[q] = row.path
      BY <1>0, <3>1 DEF EditTypeOK
    <3> QED
      BY <1>2, <2>1, <2>2, <2>7, <3>1, <3>2 DEF InPlace
  <2>8. CASE row.path \in disk /\ request[q].op # "delete" /\ Renames(q)
    <3>1. /\ disk' = (disk \ {row.path}) \cup {NewPath(q)}
          /\ target' = [target EXCEPT ![q] = NewPath(q)]
          /\ request[q].op \in {"patch", "rename"}
      BY <1>4, <2>1, <2>8 DEF WorkOnDisk, MovedOnDisk, Renames
    <3>2. target'[q] = NewPath(q)
      BY <1>0, <3>1 DEF EditTypeOK
    <3>3. NewPath(q) # None
      <4>1. request[q] \in EditRequests
        BY <1>0, <1>4 DEF WorkOnDisk, EditTypeOK
      <4>2. request[q].name \in Names
        BY <2>8, <4>1 DEF Renames, EditRequests, Patch
      <4> QED
        BY <4>2 DEF NewPath, ValuesApart
    <3>4. CASE NewPath(q) = row.path
      <4>1. disk' = disk
        BY <2>8, <3>1, <3>4
      <4> QED
        BY <1>2, <2>1, <2>2, <2>8, <3>2, <3>4, <4>1 DEF InPlace
    <3>5. CASE NewPath(q) # row.path
      <4>1. row.path \notin disk' /\ NewPath(q) \in disk'
        BY <3>1, <3>5
      <4>2. OnTheWay(q)'
        BY <2>1, <3>1, <3>2, <3>3, <4>1 DEF OnTheWay
      <4> QED
        BY <2>1, <4>1, <4>2
    <3> QED
      BY <3>4, <3>5
  <2> QED
    BY <2>5, <2>6, <2>7, <2>8
<1>5. ASSUME NEW q \in Editors, WriteRow(q) PROVE InPlace'
  <2>1. /\ disk' = disk /\ target[q] # None /\ ~Beside(q) /\ Done(q)
    BY <1>5 DEF WriteRow
  <2>2. \A e \in Editors \ {q} : target[e] = None
    BY <1>0, <2>1 DEF Beside, ReadInv
  <2>3. /\ request[q].op # "delete"
        /\ row'.path = IF request[q].op \in {"patch", "rename"}
                       THEN target[q] ELSE row.path
    BY <1>5, WriteMeans
  <2>4. row'.path \in disk'
    BY <1>2, <2>1, <2>2, <2>3 DEF InPlace, OnTheWay
  <2>5. \A e \in Editors : target'[e] = None
    BY <1>0, <2>1, <2>2, DoneMeans
  <2> QED
    BY <2>4, <2>5 DEF InPlace
<1>6. CASE Die
  BY <1>6 DEF Die
<1>7. CASE UNCHANGED editVars
  BY <1>2, <1>7 DEF editVars, InPlace, OnTheWay
<1> QED
  BY <1>3, <1>4, <1>5, <1>6, <1>7 DEF EditNext

-----------------------------------------------------------------------------
(* The invariant of a file's edits.                                          *)
LEMMA InitInv == ASSUME ValuesApart PROVE EditInit => EditInv
<1> SUFFICES ASSUME EditInit PROVE EditInv
  OBVIOUS
<1>1. PICK n \in Names, ts \in SUBSET Tags :
         row = [name |-> n, path |-> Uploaded, tags |-> ts, user |-> None,
                ai |-> {}, favorite |-> FALSE, favorites |-> 0]
  BY DEF EditInit
<1>2. row \in Rows /\ row # None
  <2>1. row \in Rows
    BY <1>1 DEF Rows, Paths, ValuesApart
  <2> QED
    BY <2>1 DEF ValuesApart
<1>3. EditTypeOK
  BY <1>2 DEF EditInit, EditTypeOK, Paths
<1>4. ReadInv
  BY <1>1 DEF EditInit, ReadInv, Counted
<1>5. BytesInv
  BY <1>1 DEF EditInit, BytesInv, InPlace, Paths
<1>6. TagsMatchBuckets
  BY <1>1 DEF TagsMatchBuckets, ShownTags, UserTags
<1> QED
  BY <1>3, <1>4, <1>5, <1>6 DEF EditInv

LEMMA NextInv ==
    ASSUME ValuesApart PROVE EditInv /\ [EditNext]_editVars => EditInv'
<1> SUFFICES ASSUME EditInv, [EditNext]_editVars PROVE EditInv'
  OBVIOUS
<1>1. EditTypeOK' /\ ReadInv' /\ TagsMatchBuckets'
  BY NextTyped, NextReads, NextTags
<1>2. BytesInv'
  BY NextBytesKept, NextPlace DEF BytesInv, PlaceInv
<1> QED
  BY <1>1, <1>2 DEF EditInv

(* The inductive invariant of the edits of a file holds, however handlers,   *)
(* jobs and the end of the process interleave.                               *)
THEOREM EditInvariance == ASSUME ValuesApart PROVE EditSpec => []EditInv
BY InitInv, NextInv, PTL DEF EditSpec

(* No edit loses or doubles the bytes of a file: until a deletion removes    *)
(* them they are at exactly one path, even when renames race or the process  *)
(* dies between the disk and the row.                                        *)
THEOREM BytesStay == ASSUME ValuesApart PROVE EditSpec => []BytesAreKept
<1>1. EditInv => BytesAreKept
  BY DEF EditInv, BytesInv, BytesAreKept
<1> QED
  BY <1>1, EditInvariance, PTL

(* The repeated columns agree with what they repeat: storagePath with the    *)
(* disk and tags with its two buckets as long as edits do not overlap, the   *)
(* count of favorites with the mark always.                                  *)
THEOREM ColumnsStayTrue == ASSUME ValuesApart PROVE EditSpec => []ColumnsAgree
<1>1. EditInv => ColumnsAgree
  <2> SUFFICES ASSUME EditInv PROVE ColumnsAgree
    OBVIOUS
  <2>1. PathIsOnDiskAlone
    <3> SUFFICES ASSUME ~overlapped, row # None, ~died,
                        \A q \in Editors : request[q] = None
                 PROVE  row.path \in disk
      BY DEF PathIsOnDiskAlone, PathIsOnDisk
    <3>1. \A q \in Editors : ~OnTheWay(q)
      BY DEF EditInv, ReadInv, OnTheWay
    <3> QED
      BY <3>1 DEF EditInv, BytesInv, InPlace
  <2>2. FavoriteIsCounted
    BY DEF EditInv, ReadInv, Counted, FavoriteIsCounted
  <2> QED
    BY <2>1, <2>2 DEF EditInv, ColumnsAgree
<1> QED
  BY <1>1, EditInvariance, PTL

-----------------------------------------------------------------------------
(* The upload of a file.                                                     *)

(* The numbers of chunks and of the requests that carry none.                *)
LEMMA Numbers ==
    /\ Total \in Nat \ {0} /\ Chunks = 0..(Total - 1) /\ 0 \in Chunks
    /\ Chunks \subseteq Bodies /\ Finalize \in Bodies /\ Cancel \in Bodies
    /\ Finalize \notin Chunks /\ Cancel \notin Chunks /\ Finalize # Cancel
    /\ Nothing \notin Slots /\ \A ps \in Content : Nothing # ps
BY UploadAssumption DEF Chunks, Finalize, Cancel, Bodies, Content

(* The loop passes a chunk only when the request it waits for carries it,    *)
(* and a part that is there is one of the chunks.                            *)
LEMMA UploadNextTyped ==
    ASSUME UploadInv, [UploadNext]_uploadVars
    PROVE  UploadTypeOK'
<1>1. CASE StartUpload
  <2>1. status' \in {"pending", "uploading", "paused", "error", "completed",
                     "cancelled"} /\ next' \in 0..Total
    BY <1>1, Numbers DEF StartUpload
  <2>2. {finalizes', gotFile', valid', expired', spoiled', uploadRaced'}
        \subseteq BOOLEAN
    BY <1>1 DEF StartUpload, UploadInv, UploadTypeOK, serverVars
  <2> QED
    BY <1>1, <2>1, <2>2 DEF StartUpload, UploadInv, UploadTypeOK, handlerVars,
                            serverVars
<1>2. CASE UploadChunk
  BY <1>2, Numbers DEF UploadChunk, Send, Loops, UploadInv, UploadTypeOK,
       Bodies, Chunks, Finalize, Cancel, handlerVars, serverVars
<1>3. CASE EndUpload
  BY <1>3 DEF EndUpload, Send, Loops, UploadInv, UploadTypeOK, Bodies, Chunks,
       Finalize, Cancel, handlerVars, serverVars
<1>4. CASE LoseConnection
  BY <1>4, Numbers DEF LoseConnection, Free, UploadInv, UploadTypeOK, Bodies,
       Chunks, Finalize, Cancel, handlerVars, serverVars
<1>5. CASE PauseUpload
  BY <1>5 DEF PauseUpload, UploadInv, UploadTypeOK, Bodies, Chunks, Finalize,
       Cancel, handlerVars, serverVars
<1>6. CASE CancelUpload
  BY <1>6, Numbers DEF CancelUpload, Send, UploadInv, UploadTypeOK, Content,
       Bodies, Chunks, Finalize, Cancel, serverVars
<1>7. CASE ExpireDirectory
  BY <1>7 DEF ExpireDirectory, UploadInv, UploadTypeOK, Bodies, Chunks,
       Finalize, Cancel, browserVars, handlerVars
<1>8. ASSUME NEW h \in Slots, ReceiveAnswer(h) PROVE UploadTypeOK'
  <2>1. CASE awaited = h
    <3>1. body[h] = next
      BY <1>8, <2>1, Numbers DEF UploadInv, BrowserInv
    <3>2. next' \in 0..Total /\ acked' \in Content
      <4>1. \/ next' = next /\ acked' = acked
            \/ /\ body[h] \in Chunks
               /\ next' = next + 1 /\ acked' = acked \cup {body[h]}
        BY <1>8, <2>1 DEF ReceiveAnswer
      <4> QED
        <5>1. next' \in 0..Total
          BY <3>1, <4>1, Numbers DEF UploadInv, UploadTypeOK
        <5>2. acked' \in Content
          BY <4>1 DEF UploadInv, UploadTypeOK, Content
        <5> QED
          BY <5>1, <5>2
    <3>3. gotFile' \in BOOLEAN
      BY <1>8, <2>1 DEF ReceiveAnswer, UploadInv, UploadTypeOK
    <3>4. status' \in {"error", "completed", status} /\ awaited' = Nothing
      BY <1>8, <2>1 DEF ReceiveAnswer
    <3> QED
      BY <1>8, <3>2, <3>3, <3>4, Numbers
      DEF ReceiveAnswer, Free, UploadInv, UploadTypeOK, Content, serverVars
  <2>2. CASE awaited # h
    <3>1. UNCHANGED browserVars
      BY <1>8, <2>2 DEF ReceiveAnswer, browserVars
    <3> QED
      BY <1>8, <3>1, Numbers DEF ReceiveAnswer, Free, UploadInv, UploadTypeOK,
         Content, browserVars, serverVars
  <2> QED
    BY <2>1, <2>2
<1>9. ASSUME NEW h \in Slots, TakeChunk(h) PROVE UploadTypeOK'
  BY <1>9 DEF TakeChunk, HandlerTo, Have, UploadInv, UploadTypeOK, Content,
       Bodies, Chunks, Finalize, Cancel, Working, Answers, browserVars
<1>10. ASSUME NEW h \in Slots, TakeFinalize(h) PROVE UploadTypeOK'
  BY <1>10 DEF TakeFinalize, HandlerTo, UploadInv, UploadTypeOK, Content,
       Bodies, Chunks, Finalize, Cancel, Working, Answers, browserVars
<1>11. ASSUME NEW h \in Slots, TakeCancel(h) PROVE UploadTypeOK'
  BY <1>11, Numbers DEF TakeCancel, Free, UploadInv, UploadTypeOK, Bodies,
       Chunks, Finalize, Cancel, browserVars
<1>12. ASSUME NEW h \in Slots, StitchPart(h) PROVE UploadTypeOK'
  <2>1. CASE pos[h] \in Have
    <3>1. pos[h] \in Chunks
      BY <2>1 DEF UploadInv, UploadTypeOK, Have, Content
    <3>2. pos' \in [Slots -> 0..Total]
      BY <1>12, <2>1, <3>1, Numbers DEF StitchPart, UploadInv, UploadTypeOK
    <3>3. final' \in {Nothing} \cup Content
      BY <1>12, <2>1, <3>1 DEF StitchPart, UploadInv, UploadTypeOK, Content
    <3>4. handlerPc' \in [Slots -> {"free", "sent"} \cup Working \cup Answers]
      BY <1>12, <2>1
      DEF StitchPart, HandlerTo, UploadInv, UploadTypeOK, Working
    <3> QED
      BY <1>12, <2>1, <3>2, <3>3, <3>4
      DEF StitchPart, UploadInv, UploadTypeOK, browserVars
  <2>2. CASE pos[h] \notin Have
    BY <1>12, <2>2 DEF StitchPart, AnswerWith, HandlerTo, UploadInv,
                      UploadTypeOK, Answers, browserVars
  <2> QED
    BY <2>1, <2>2
<1>13. ASSUME NEW h \in Slots, CheckUpload(h) PROVE UploadTypeOK'
  BY <1>13 DEF CheckUpload, HandlerTo, AnswerWith, UploadInv, UploadTypeOK,
       Bodies, Chunks, Finalize, Cancel, Working, Answers, browserVars
<1>14. ASSUME NEW h \in Slots, CleanUp(h) PROVE UploadTypeOK'
  BY <1>14 DEF CleanUp, HandlerTo, AnswerWith, UploadInv, UploadTypeOK,
       Content, Bodies, Chunks, Finalize, Cancel, Working, Answers, browserVars
<1>15. ASSUME NEW h \in Slots, HashFile(h) PROVE UploadTypeOK'
  BY <1>15 DEF HashFile, HandlerTo, AnswerWith, UploadInv, UploadTypeOK,
       Bodies, Chunks, Finalize, Cancel, Working, Answers, browserVars
<1>16. ASSUME NEW h \in Slots, StoreRecord(h) PROVE UploadTypeOK'
  BY <1>16 DEF StoreRecord, AnswerWith, HandlerTo, UploadInv, UploadTypeOK,
       Content, Bodies, Chunks, Finalize, Cancel, Answers, browserVars
<1>17. CASE UNCHANGED uploadVars
  BY <1>17 DEF UploadInv, UploadTypeOK, Content, Bodies, Chunks, Finalize,
       Cancel, Working, Answers, uploadVars, browserVars, handlerVars,
       serverVars
<1> QED
  BY <1>1, <1>2, <1>3, <1>4, <1>5, <1>6, <1>7, <1>8, <1>9, <1>10, <1>11, <1>12,
       <1>13, <1>14, <1>15, <1>16, <1>17 DEF UploadNext, Browser, Handle

(* A step keeps what the browser knows: only the answer it waits for moves   *)
(* its loop on.                                                              *)
LEMMA NextBrowser ==
    ASSUME UploadInv, UploadTypeOK', [UploadNext]_uploadVars
    PROVE  BrowserInv'
<1>1. CASE StartUpload
  BY <1>1 DEF StartUpload, UploadInv, UploadTypeOK, BrowserInv
<1>2. CASE UploadChunk
  <2>1. CASE next \in acked
    BY <1>2, <2>1, Numbers
    DEF UploadChunk, Loops, UploadInv, UploadTypeOK, BrowserInv
  <2>2. CASE next \notin acked
    BY <1>2, <2>2, Numbers
    DEF UploadChunk, Send, Loops, UploadInv, UploadTypeOK, BrowserInv
  <2> QED
    BY <2>1, <2>2
<1>3. CASE EndUpload
  BY <1>3 DEF EndUpload, Send, Loops, UploadInv, UploadTypeOK, BrowserInv,
       Finalize
<1>4. CASE LoseConnection
  BY <1>4 DEF LoseConnection, Free, UploadInv, UploadTypeOK, BrowserInv
<1>5. CASE PauseUpload
  BY <1>5 DEF PauseUpload, UploadInv, UploadTypeOK, BrowserInv
<1>6. CASE CancelUpload
  BY <1>6 DEF CancelUpload, Send, UploadInv, UploadTypeOK, BrowserInv
<1>7. CASE ExpireDirectory
  BY <1>7 DEF ExpireDirectory, UploadInv, UploadTypeOK, BrowserInv, browserVars
<1>8. ASSUME NEW h \in Slots, ReceiveAnswer(h) PROVE BrowserInv'
  <2>1. CASE awaited = h
    <3>1. /\ body[h] = next /\ status = "uploading"
          /\ 0..(next - 1) \subseteq acked /\ next \in 0..Total
      BY <1>8, <2>1, Numbers DEF UploadInv, UploadTypeOK, BrowserInv
    <3>2. awaited' = Nothing /\ status' # "cancelled"
      BY <1>8, <2>1, <3>1 DEF ReceiveAnswer
    <3>3. 0..(next' - 1) \subseteq acked'
      BY <1>8, <2>1, <3>1, Numbers DEF ReceiveAnswer
    <3> QED
      BY <3>2, <3>3 DEF BrowserInv
  <2>2. CASE awaited # h
    <3>1. awaited # Nothing
          => /\ handlerPc'[awaited] = handlerPc[awaited]
             /\ body'[awaited] = body[awaited]
      BY <1>8, <2>2 DEF ReceiveAnswer, Free, UploadInv, UploadTypeOK
    <3> QED
      BY <1>8, <2>2, <3>1 DEF ReceiveAnswer, UploadInv, BrowserInv
  <2> QED
    BY <2>1, <2>2
<1>9. ASSUME NEW h \in Slots, TakeChunk(h) PROVE BrowserInv'
  BY <1>9 DEF TakeChunk, HandlerTo, UploadInv, UploadTypeOK, BrowserInv,
       browserVars
<1>10. ASSUME NEW h \in Slots, TakeFinalize(h) PROVE BrowserInv'
  BY <1>10 DEF TakeFinalize, HandlerTo, UploadInv, UploadTypeOK, BrowserInv,
       browserVars
<1>11. ASSUME NEW h \in Slots, TakeCancel(h) PROVE BrowserInv'
  <2>1. awaited = Nothing
    BY <1>11 DEF TakeCancel, UploadInv, RequestInv, BrowserInv
  <2> QED
    BY <1>11, <2>1 DEF TakeCancel, UploadInv, BrowserInv, browserVars
<1>12. ASSUME NEW h \in Slots, StitchPart(h) PROVE BrowserInv'
  BY <1>12 DEF StitchPart, HandlerTo, AnswerWith, UploadInv, UploadTypeOK,
       BrowserInv, browserVars
<1>13. ASSUME NEW h \in Slots, CheckUpload(h) PROVE BrowserInv'
  BY <1>13 DEF CheckUpload, HandlerTo, AnswerWith, UploadInv, UploadTypeOK,
       BrowserInv, browserVars
<1>14. ASSUME NEW h \in Slots, CleanUp(h) PROVE BrowserInv'
  BY <1>14 DEF CleanUp, HandlerTo, AnswerWith, UploadInv, UploadTypeOK,
       BrowserInv, browserVars
<1>15. ASSUME NEW h \in Slots, HashFile(h) PROVE BrowserInv'
  BY <1>15 DEF HashFile, HandlerTo, AnswerWith, UploadInv, UploadTypeOK,
       BrowserInv, browserVars
<1>16. ASSUME NEW h \in Slots, StoreRecord(h) PROVE BrowserInv'
  BY <1>16 DEF StoreRecord, AnswerWith, HandlerTo, UploadInv, UploadTypeOK,
       BrowserInv, browserVars
<1>17. CASE UNCHANGED uploadVars
  BY <1>17 DEF UploadInv, UploadTypeOK, BrowserInv, uploadVars, browserVars,
       handlerVars, serverVars
<1> QED
  BY <1>1, <1>2, <1>3, <1>4, <1>5, <1>6, <1>7, <1>8, <1>9, <1>10, <1>11, <1>12,
       <1>13, <1>14, <1>15, <1>16, <1>17 DEF UploadNext, Browser, Handle

(* A step keeps what is known of each request, of which only its own steps   *)
(* and the browser's sending and forgetting change anything.                 *)
LEMMA NextRequest ==
    ASSUME UploadInv, UploadTypeOK', [UploadNext]_uploadVars
    PROVE  \A o \in Slots : RequestInv(o)'
<1>1. CASE StartUpload
  BY <1>1 DEF StartUpload, UploadInv, UploadTypeOK, RequestInv, handlerVars,
       serverVars
<1>2. CASE UploadChunk
  BY <1>2, Numbers DEF UploadChunk, Send, Loops, UploadInv, UploadTypeOK,
       RequestInv, handlerVars, serverVars
<1>3. CASE EndUpload
  BY <1>3, Numbers DEF EndUpload, Send, Loops, UploadInv, UploadTypeOK,
       RequestInv, handlerVars, serverVars
<1>4. CASE LoseConnection
  BY <1>4, Numbers DEF LoseConnection, Free, UploadInv, UploadTypeOK,
       RequestInv, BrowserInv, handlerVars, serverVars
<1>5. CASE PauseUpload
  BY <1>5 DEF PauseUpload, UploadInv, UploadTypeOK, RequestInv, handlerVars,
       serverVars
<1>6. CASE CancelUpload
  BY <1>6, Numbers DEF CancelUpload, Send, UploadInv, UploadTypeOK, RequestInv,
       Working, serverVars
<1>7. CASE ExpireDirectory
  BY <1>7 DEF ExpireDirectory, UploadInv, UploadTypeOK, RequestInv,
       browserVars, handlerVars
<1>8. ASSUME NEW h \in Slots, ReceiveAnswer(h)
       PROVE  \A o \in Slots : RequestInv(o)'
  <2>1. handlerPc[h] # "free" /\ (handlerPc[h] = "stored" => record # Nothing)
    BY <1>8 DEF ReceiveAnswer, Answers, UploadInv, RequestInv
  <2>2. status = "cancelled" => status' = "cancelled"
    BY <1>8, Numbers DEF ReceiveAnswer, UploadInv, BrowserInv
  <2>3. RequestInv(h)'
    BY <1>8, Numbers
    DEF ReceiveAnswer, Free, UploadInv, UploadTypeOK, RequestInv, Working
  <2>4. ASSUME NEW o \in Slots, o # h PROVE RequestInv(o)'
    <3>1. /\ handlerPc'[o] = handlerPc[o] /\ body'[o] = body[o]
          /\ pos'[o] = pos[o] /\ sum'[o] = sum[o]
      BY <1>8, <2>4 DEF ReceiveAnswer, Free, UploadInv, UploadTypeOK
    <3> QED
      BY <1>8, <2>2, <3>1 DEF ReceiveAnswer, UploadInv, RequestInv, serverVars
  <2> QED
    BY <2>3, <2>4
<1>9. ASSUME NEW h \in Slots, TakeChunk(h)
       PROVE  \A o \in Slots : RequestInv(o)'
  BY <1>9 DEF TakeChunk, HandlerTo, UploadInv, UploadTypeOK, RequestInv,
       browserVars
<1>10. ASSUME NEW h \in Slots, TakeFinalize(h)
       PROVE  \A o \in Slots : RequestInv(o)'
  BY <1>10 DEF TakeFinalize, HandlerTo, UploadInv, UploadTypeOK, RequestInv,
       browserVars
<1>11. ASSUME NEW h \in Slots, TakeCancel(h)
       PROVE  \A o \in Slots : RequestInv(o)'
  BY <1>11, Numbers DEF TakeCancel, Free, UploadInv, UploadTypeOK, RequestInv,
       browserVars
<1>12. ASSUME NEW h \in Slots, StitchPart(h)
       PROVE  \A o \in Slots : RequestInv(o)'
  BY <1>12 DEF StitchPart, HandlerTo, AnswerWith, UploadInv, UploadTypeOK,
       RequestInv, Working, browserVars
<1>13. ASSUME NEW h \in Slots, CheckUpload(h)
       PROVE  \A o \in Slots : RequestInv(o)'
  BY <1>13 DEF CheckUpload, HandlerTo, AnswerWith, UploadInv, UploadTypeOK,
       RequestInv, Working, browserVars
<1>14. ASSUME NEW h \in Slots, CleanUp(h) PROVE \A o \in Slots : RequestInv(o)'
  BY <1>14 DEF CleanUp, HandlerTo, AnswerWith, UploadInv, UploadTypeOK,
       RequestInv, Working, browserVars
<1>15. ASSUME NEW h \in Slots, HashFile(h)
       PROVE \A o \in Slots : RequestInv(o)'
  BY <1>15 DEF HashFile, HandlerTo, AnswerWith, UploadInv, UploadTypeOK,
       RequestInv, Working, browserVars
<1>16. ASSUME NEW h \in Slots, StoreRecord(h)
       PROVE  \A o \in Slots : RequestInv(o)'
  BY <1>16 DEF StoreRecord, AnswerWith, HandlerTo, UploadInv, UploadTypeOK,
       RequestInv, Working, browserVars
<1>17. CASE UNCHANGED uploadVars
  BY <1>17 DEF UploadInv, UploadTypeOK, RequestInv, Working, Answers,
       uploadVars, browserVars, handlerVars, serverVars
<1> QED
  BY <1>1, <1>2, <1>3, <1>4, <1>5, <1>6, <1>7, <1>8, <1>9, <1>10, <1>11, <1>12,
       <1>13, <1>14, <1>15, <1>16, <1>17 DEF UploadNext, Browser, Handle

(* Until an assembly starts a step keeps acknowledged chunks in their place: *)
(* what would remove them is a cancellation, its age, or a failed assembly,  *)
(* and the chunk that completes it starts one.                               *)
LEMMA NextKept ==
    ASSUME UploadInv, UploadTypeOK', [UploadNext]_uploadVars
    PROVE  KeptInv'
<1>1. CASE StartUpload
  BY <1>1 DEF StartUpload, UploadInv, UploadTypeOK, KeptInv, Busy, Have,
       handlerVars, serverVars
<1>2. CASE UploadChunk
  BY <1>2 DEF UploadChunk, Send, Loops, UploadInv, UploadTypeOK, KeptInv, Busy,
       Working, Have, handlerVars, serverVars
<1>3. CASE EndUpload
  BY <1>3 DEF EndUpload, Send, Loops, UploadInv, UploadTypeOK, KeptInv, Busy,
       Working, Have, handlerVars, serverVars
<1>4. CASE LoseConnection
  BY <1>4 DEF LoseConnection, Free, UploadInv, UploadTypeOK, BrowserInv,
       KeptInv, Busy, Working, Have, handlerVars, serverVars
<1>5. CASE PauseUpload
  BY <1>5 DEF PauseUpload, UploadInv, UploadTypeOK, KeptInv, Busy, Have,
       handlerVars, serverVars
<1>6. CASE CancelUpload
  BY <1>6 DEF CancelUpload, Send, UploadInv, UploadTypeOK, KeptInv, Busy
<1>7. CASE ExpireDirectory
  BY <1>7 DEF ExpireDirectory, UploadInv, UploadTypeOK, KeptInv, Busy
<1>8. ASSUME NEW h \in Slots, ReceiveAnswer(h) PROVE KeptInv'
  BY <1>8, Numbers DEF ReceiveAnswer, Free, UploadInv, UploadTypeOK,
       RequestInv, BrowserInv, KeptInv, Busy, Working, Answers, Have,
       serverVars
<1>9. ASSUME NEW h \in Slots, TakeChunk(h) PROVE KeptInv'
  <2>1. /\ parts' = Have \cup {body[h]} /\ parts' \in Content
        /\ UNCHANGED <<browserVars, body, record, expired, spoiled>>
    BY <1>9 DEF TakeChunk, Have, UploadInv, UploadTypeOK, Content
  <2>2. Have' = Have \cup {body[h]}
    BY <2>1, Numbers DEF Have
  <2>3. CASE parts' = Chunks
    <3>1. handlerPc'[h] = "stitch"
      BY <1>9, <2>3 DEF TakeChunk, HandlerTo, HaveAll, UploadInv, UploadTypeOK
    <3> QED
      BY <3>1 DEF KeptInv, Busy, Working
  <2>4. CASE parts' # Chunks
    <3>1. /\ handlerPc[h] = "sent"
          /\ handlerPc' = [handlerPc EXCEPT ![h] = "partial"]
      BY <1>9, <2>4 DEF TakeChunk, HandlerTo, HaveAll
    <3>2. ~Busy' => ~Busy
      BY <3>1 DEF Busy, Working, UploadInv, UploadTypeOK
    <3>3. \A o \in Slots \ {h} : handlerPc'[o] = handlerPc[o]
      BY <3>1 DEF UploadInv, UploadTypeOK
    <3>4. Have' # Chunks
      BY <2>1, <2>2, <2>4
    <3> QED
      BY <2>1, <2>2, <3>2, <3>3, <3>4 DEF UploadInv, KeptInv, browserVars
  <2> QED
    BY <2>3, <2>4
<1>10. ASSUME NEW h \in Slots, TakeFinalize(h) PROVE KeptInv'
  BY <1>10 DEF TakeFinalize, HandlerTo, UploadInv, UploadTypeOK, KeptInv, Busy,
       Working, Have, browserVars
<1>11. ASSUME NEW h \in Slots, TakeCancel(h) PROVE KeptInv'
  BY <1>11 DEF TakeCancel, Free, UploadInv, UploadTypeOK, RequestInv, KeptInv,
       Busy, browserVars
<1>12. ASSUME NEW h \in Slots, StitchPart(h) PROVE KeptInv'
  BY <1>12 DEF StitchPart, HandlerTo, AnswerWith, UploadInv, UploadTypeOK,
       KeptInv, Busy, Working
<1>13. ASSUME NEW h \in Slots, CheckUpload(h) PROVE KeptInv'
  BY <1>13 DEF CheckUpload, HandlerTo, AnswerWith, UploadInv, UploadTypeOK,
       KeptInv, Busy, Working
<1>14. ASSUME NEW h \in Slots, CleanUp(h) PROVE KeptInv'
  BY <1>14 DEF CleanUp, HandlerTo, AnswerWith, UploadInv, UploadTypeOK,
       KeptInv, Busy, Working
<1>15. ASSUME NEW h \in Slots, HashFile(h) PROVE KeptInv'
  BY <1>15 DEF HashFile, HandlerTo, AnswerWith, UploadInv, UploadTypeOK,
       KeptInv, Busy, Working
<1>16. ASSUME NEW h \in Slots, StoreRecord(h) PROVE KeptInv'
  BY <1>16 DEF StoreRecord, AnswerWith, HandlerTo, UploadInv, UploadTypeOK,
       RequestInv, KeptInv, Busy
<1>17. CASE UNCHANGED uploadVars
  BY <1>17 DEF UploadInv, UploadTypeOK, RequestInv, BrowserInv, KeptInv, Busy,
       Working, Answers, Content, Have, uploadVars, browserVars, handlerVars,
       serverVars
<1> QED
  BY <1>1, <1>2, <1>3, <1>4, <1>5, <1>6, <1>7, <1>8, <1>9, <1>10, <1>11, <1>12,
       <1>13, <1>14, <1>15, <1>16, <1>17 DEF UploadNext, Browser, Handle

(* The browser ends its loop when every chunk has been acknowledged; by then *)
(* an assembly has started, or has stored its file.                          *)
LEMMA NextCompleted ==
    ASSUME UploadInv, UploadTypeOK', [UploadNext]_uploadVars
    PROVE  CompletedIsStoredUnspoiled'
<1>1. CASE StartUpload
  BY <1>1 DEF StartUpload, UploadInv, UploadTypeOK, CompletedIsStoredUnspoiled,
       Busy
<1>2. CASE UploadChunk
  BY <1>2 DEF UploadChunk, Send, Loops, UploadInv, UploadTypeOK,
       CompletedIsStoredUnspoiled, Busy
<1>3. CASE EndUpload
  <2>1. CASE status' = status
    BY <1>3, <2>1 DEF EndUpload, Loops, CompletedIsStoredUnspoiled
  <2>2. CASE status' # status
    <3>1. UNCHANGED <<handlerVars, serverVars>> /\ status # "cancelled"
      BY <1>3, <2>2 DEF EndUpload, Loops
    <3>2. Chunks \subseteq acked
      BY <1>3, Numbers DEF EndUpload, Loops, UploadInv, BrowserInv
    <3>3. Have \subseteq Chunks
      BY DEF UploadInv, UploadTypeOK, Have, Content
    <3>4. expired \/ spoiled \/ record # Nothing \/ Busy
      BY <3>1, <3>2, <3>3 DEF UploadInv, KeptInv
    <3> QED
      BY <3>1, <3>4
      DEF CompletedIsStoredUnspoiled, Busy, handlerVars, serverVars
  <2> QED
    BY <2>1, <2>2
<1>4. CASE LoseConnection
  BY <1>4 DEF LoseConnection, Free, UploadInv, UploadTypeOK,
       CompletedIsStoredUnspoiled, Busy
<1>5. CASE PauseUpload
  BY <1>5 DEF PauseUpload, UploadInv, UploadTypeOK, CompletedIsStoredUnspoiled,
       Busy
<1>6. CASE CancelUpload
  BY <1>6 DEF CancelUpload, Send, UploadInv, UploadTypeOK,
       CompletedIsStoredUnspoiled, Busy
<1>7. CASE ExpireDirectory
  BY <1>7 DEF ExpireDirectory, UploadInv, UploadTypeOK,
       CompletedIsStoredUnspoiled, Busy
<1>8. ASSUME NEW h \in Slots, ReceiveAnswer(h)
       PROVE  CompletedIsStoredUnspoiled'
  BY <1>8 DEF ReceiveAnswer, Free, UploadInv, UploadTypeOK, RequestInv,
       CompletedIsStoredUnspoiled, Busy, Working, Answers, serverVars
<1>9. ASSUME NEW h \in Slots, TakeChunk(h) PROVE CompletedIsStoredUnspoiled'
  BY <1>9 DEF TakeChunk, HandlerTo, UploadInv, UploadTypeOK,
       CompletedIsStoredUnspoiled, Busy, Working, browserVars
<1>10. ASSUME NEW h \in Slots, TakeFinalize(h)
       PROVE CompletedIsStoredUnspoiled'
  BY <1>10 DEF TakeFinalize, HandlerTo, UploadInv, UploadTypeOK,
       CompletedIsStoredUnspoiled, Busy, Working, browserVars
<1>11. ASSUME NEW h \in Slots, TakeCancel(h) PROVE CompletedIsStoredUnspoiled'
  BY <1>11 DEF TakeCancel, Free, UploadInv, UploadTypeOK, RequestInv,
       CompletedIsStoredUnspoiled, Busy, browserVars
<1>12. ASSUME NEW h \in Slots, StitchPart(h) PROVE CompletedIsStoredUnspoiled'
  BY <1>12 DEF StitchPart, HandlerTo, AnswerWith, UploadInv, UploadTypeOK,
       CompletedIsStoredUnspoiled, Busy, Working
<1>13. ASSUME NEW h \in Slots, CheckUpload(h) PROVE CompletedIsStoredUnspoiled'
  BY <1>13 DEF CheckUpload, HandlerTo, AnswerWith, UploadInv, UploadTypeOK,
       CompletedIsStoredUnspoiled, Busy, Working
<1>14. ASSUME NEW h \in Slots, CleanUp(h) PROVE CompletedIsStoredUnspoiled'
  BY <1>14 DEF CleanUp, HandlerTo, AnswerWith, UploadInv, UploadTypeOK,
       CompletedIsStoredUnspoiled, Busy, Working
<1>15. ASSUME NEW h \in Slots, HashFile(h) PROVE CompletedIsStoredUnspoiled'
  BY <1>15 DEF HashFile, HandlerTo, AnswerWith, UploadInv, UploadTypeOK,
       CompletedIsStoredUnspoiled, Busy, Working
<1>16. ASSUME NEW h \in Slots, StoreRecord(h) PROVE CompletedIsStoredUnspoiled'
  BY <1>16 DEF StoreRecord, AnswerWith, HandlerTo, UploadInv, UploadTypeOK,
       RequestInv, CompletedIsStoredUnspoiled, Busy
<1>17. CASE UNCHANGED uploadVars
  BY <1>17 DEF UploadInv, UploadTypeOK, RequestInv, BrowserInv, KeptInv,
       CompletedIsStoredUnspoiled, Busy, Working, Answers, Content, uploadVars,
       browserVars, handlerVars, serverVars
<1> QED
  BY <1>1, <1>2, <1>3, <1>4, <1>5, <1>6, <1>7, <1>8, <1>9, <1>10, <1>11, <1>12,
       <1>13, <1>14, <1>15, <1>16, <1>17 DEF UploadNext, Browser, Handle

(* As long as no request comes upon an assembly there is one at a time; it   *)
(* finds every part, so that nothing but an error of the database, or        *)
(* content that is not valid, keeps it from storing the whole file.          *)
LEMMA NextAssembly ==
    ASSUME UploadInv, UploadTypeOK', [UploadNext]_uploadVars
    PROVE  AssemblyInv'
<1>1. CASE StartUpload
  BY <1>1 DEF StartUpload, UploadInv, UploadTypeOK, AssemblyInv, AssembledBy,
       Busy, BesideOthers, serverVars, handlerVars
<1>2. CASE UploadChunk
  BY <1>2 DEF UploadChunk, Send, Loops, UploadInv, UploadTypeOK, AssemblyInv,
       AssembledBy, Busy, BesideOthers, Working, serverVars, handlerVars
<1>3. CASE EndUpload
  BY <1>3 DEF EndUpload, Send, Loops, UploadInv, UploadTypeOK, AssemblyInv,
       AssembledBy, Busy, BesideOthers, serverVars, handlerVars
<1>4. CASE LoseConnection
  BY <1>4 DEF LoseConnection, Free, UploadInv, UploadTypeOK, AssemblyInv,
       AssembledBy, Busy, BesideOthers, Working, serverVars, handlerVars
<1>5. CASE PauseUpload
  BY <1>5 DEF PauseUpload, UploadInv, UploadTypeOK, AssemblyInv, AssembledBy,
       Busy, BesideOthers, serverVars, handlerVars
<1>6. CASE CancelUpload
  BY <1>6 DEF CancelUpload, Send, UploadInv, UploadTypeOK, AssemblyInv,
       AssembledBy, Busy, BesideOthers, Working, serverVars
<1>7. CASE ExpireDirectory
  BY <1>7 DEF ExpireDirectory, UploadInv, UploadTypeOK, AssemblyInv,
       AssembledBy, Busy, BesideOthers, browserVars, handlerVars
<1>8. ASSUME NEW h \in Slots, ReceiveAnswer(h) PROVE AssemblyInv'
  BY <1>8 DEF ReceiveAnswer, Free, UploadInv, UploadTypeOK, AssemblyInv,
       AssembledBy, Busy, BesideOthers, Working, Answers, serverVars
<1>9. ASSUME NEW h \in Slots, TakeChunk(h) PROVE AssemblyInv'
  <2> SUFFICES ASSUME ~uploadRaced', ~finalizes'
               PROVE  /\ \A g, o \in Slots :
                          {handlerPc'[g], handlerPc'[o]} \subseteq Working
                          => g = o
                      /\ \A o \in Slots : AssembledBy(o)'
                      /\ record' # Nothing => /\ record' = Chunks /\ valid'
                                              /\ Busy' \/ final' = Chunks
    BY DEF AssemblyInv, Busy, Chunks, Working
  <2>1. /\ ~uploadRaced /\ ~finalizes /\ record' = record /\ valid' = valid
        /\ \A o \in Slots \ {h} : handlerPc[o] \notin Working
    BY <1>9 DEF TakeChunk, BesideOthers, browserVars
  <2>2. \A o \in Slots \ {h} : handlerPc'[o] = handlerPc[o]
    BY <1>9 DEF TakeChunk, HandlerTo, UploadInv, UploadTypeOK
  <2>3. handlerPc[h] = "sent" /\ pos'[h] = 0
    BY <1>9 DEF TakeChunk, UploadInv, RequestInv
  <2>4. record # Nothing
        => record = Chunks /\ valid /\ (Busy \/ final = Chunks)
    BY <2>1 DEF UploadInv, AssemblyInv
  <2>5. ~Busy
    BY <2>1, <2>3 DEF Busy, Working
  <2>6. CASE handlerPc'[h] = "stitch"
    <3>1. parts' = Chunks /\ final' = {}
      BY <1>9, <2>6 DEF TakeChunk, HandlerTo, HaveAll, UploadInv, UploadTypeOK
    <3>2. \A o \in Slots : AssembledBy(o)'
      BY <2>1, <2>2, <2>3, <2>6, <3>1, Numbers DEF AssembledBy, Working
    <3>3. Busy'
      BY <2>6 DEF Busy, Working
    <3> QED
      BY <2>1, <2>2, <2>4, <3>2, <3>3
  <2>7. CASE handlerPc'[h] # "stitch"
    <3>1. handlerPc'[h] = "partial" /\ final' = final
      BY <1>9, <2>7 DEF TakeChunk, HandlerTo, HaveAll, UploadInv, UploadTypeOK
    <3>2. \A o \in Slots : handlerPc'[o] \notin Working
      BY <2>1, <2>2, <3>1 DEF Working
    <3>3. \A o \in Slots : AssembledBy(o)'
      BY <3>2 DEF AssembledBy, Working
    <3> QED
      BY <2>1, <2>4, <2>5, <3>1, <3>2, <3>3
  <2> QED
    BY <2>6, <2>7
<1>10. ASSUME NEW h \in Slots, TakeFinalize(h) PROVE AssemblyInv'
  BY <1>10 DEF TakeFinalize, HandlerTo, UploadInv, UploadTypeOK, RequestInv,
       AssemblyInv, AssembledBy, Busy, BesideOthers, browserVars
<1>11. ASSUME NEW h \in Slots, TakeCancel(h) PROVE AssemblyInv'
  BY <1>11 DEF TakeCancel, Free, UploadInv, UploadTypeOK, AssemblyInv,
       AssembledBy, Busy, BesideOthers, Working, browserVars
<1>12. ASSUME NEW h \in Slots, StitchPart(h) PROVE AssemblyInv'
  <2> SUFFICES ASSUME ~uploadRaced, ~finalizes PROVE AssemblyInv'
    BY <1>12 DEF StitchPart, AssemblyInv, browserVars
  <2>1. /\ body[h] # Finalize /\ Expected(h) = Total
        /\ parts = Chunks /\ pos[h] \in 0..(Total - 1)
        /\ final = 0..(pos[h] - 1)
    BY <1>12, Numbers DEF StitchPart, UploadInv, UploadTypeOK, RequestInv,
                         AssemblyInv, AssembledBy, Expected
  <2>2. pos[h] \in Have
    BY <2>1, Numbers DEF Have, Content
  <2>3. /\ parts' = Chunks /\ final' = 0..pos[h] /\ pos'[h] = pos[h] + 1
        /\ handlerPc' = IF pos[h] + 1 = Total
                         THEN [handlerPc EXCEPT ![h] = "check"] ELSE handlerPc
    <3>1. final # Nothing /\ 0..(pos[h] - 1) \cup {pos[h]} = 0..pos[h]
      BY <2>1, Numbers DEF Content
    <3> QED
      BY <1>12, <2>1, <2>2, <3>1
      DEF StitchPart, HandlerTo, UploadInv, UploadTypeOK
  <2>4. \A o \in Slots \ {h} :
           handlerPc'[o] = handlerPc[o] /\ handlerPc[o] \notin Working
    BY <1>12, <2>3
    DEF StitchPart, UploadInv, UploadTypeOK, AssemblyInv, Working
  <2>5. /\ record' = record /\ valid' = valid
        /\ record # Nothing => record = Chunks /\ valid
    BY <1>12 DEF StitchPart, UploadInv, AssemblyInv
  <2>6. /\ handlerPc'[h] \in {"stitch", "check"}
        /\ AssembledBy(h)'
    <3>1. CASE pos[h] + 1 = Total
      <4>1. handlerPc'[h] = "check" /\ final' = Chunks
        <5>1. pos[h] = Total - 1
          BY <2>1, <3>1, Numbers
        <5> QED
          BY <2>3, <3>1, <5>1, Numbers DEF UploadInv, UploadTypeOK
      <4> QED
        BY <2>3, <4>1 DEF AssembledBy
    <3>2. CASE pos[h] + 1 # Total
      <4>1. /\ handlerPc'[h] = "stitch" /\ pos'[h] < Total
            /\ final' = 0..(pos'[h] - 1)
        <5>1. pos'[h] < Total /\ pos'[h] - 1 = pos[h]
          BY <2>1, <2>3, <3>2, Numbers
        <5>2. handlerPc' = handlerPc /\ handlerPc[h] = "stitch"
          BY <1>12, <2>3, <3>2 DEF StitchPart
        <5> QED
          BY <2>3, <5>1, <5>2
      <4> QED
        BY <2>3, <4>1 DEF AssembledBy
    <3> QED
      BY <3>1, <3>2
  <2>7. \A o \in Slots \ {h} : AssembledBy(o)'
    BY <2>4 DEF AssembledBy, Working
  <2> QED
    BY <2>4, <2>5, <2>6, <2>7 DEF AssemblyInv, Busy, Working
<1>13. ASSUME NEW h \in Slots, CheckUpload(h) PROVE AssemblyInv'
  BY <1>13 DEF CheckUpload, HandlerTo, AnswerWith, UploadInv, UploadTypeOK,
       AssemblyInv, AssembledBy, Busy, BesideOthers, Working, Answers,
       Finalize, browserVars
<1>14. ASSUME NEW h \in Slots, CleanUp(h) PROVE AssemblyInv'
  <2> SUFFICES ASSUME ~uploadRaced, ~finalizes PROVE AssemblyInv'
    BY <1>14 DEF CleanUp, AssemblyInv, browserVars
  <2>1. final = Chunks /\ valid /\ body[h] # Finalize
    BY <1>14 DEF CleanUp, UploadInv, RequestInv, AssemblyInv, AssembledBy
  <2>2. /\ handlerPc' = [handlerPc EXCEPT ![h] = "hash"]
        /\ UNCHANGED <<final, record, valid>>
    BY <1>14, <2>1, Numbers DEF CleanUp, HandlerTo, Content
  <2>3. \A o \in Slots \ {h} :
           handlerPc'[o] = handlerPc[o] /\ handlerPc[o] \notin Working
    BY <1>14, <2>2 DEF CleanUp, UploadInv, UploadTypeOK, AssemblyInv, Working
  <2>4. handlerPc'[h] = "hash"
    BY <2>2 DEF UploadInv, UploadTypeOK
  <2>5. \A o \in Slots : AssembledBy(o)'
    BY <2>1, <2>2, <2>3, <2>4 DEF AssembledBy, Working
  <2>6. record # Nothing => record = Chunks
    BY DEF UploadInv, AssemblyInv
  <2> QED
    BY <2>1, <2>2, <2>3, <2>4, <2>5, <2>6 DEF AssemblyInv, Busy, Working
<1>15. ASSUME NEW h \in Slots, HashFile(h) PROVE AssemblyInv'
  BY <1>15 DEF HashFile, HandlerTo, AnswerWith, UploadInv, UploadTypeOK,
       AssemblyInv, AssembledBy, Busy, BesideOthers, Working, browserVars
<1>16. ASSUME NEW h \in Slots, StoreRecord(h) PROVE AssemblyInv'
  BY <1>16 DEF StoreRecord, AnswerWith, HandlerTo, UploadInv, UploadTypeOK,
       AssemblyInv, AssembledBy, Busy, BesideOthers, Working, Content,
       browserVars
<1>17. CASE UNCHANGED uploadVars
  BY <1>17 DEF UploadInv, UploadTypeOK, RequestInv, AssemblyInv, AssembledBy,
       Busy, BesideOthers, Working, Answers, Content, serverVars, uploadVars,
       browserVars, handlerVars
<1> QED
  BY <1>1, <1>2, <1>3, <1>4, <1>5, <1>6, <1>7, <1>8, <1>9, <1>10, <1>11, <1>12,
       <1>13, <1>14, <1>15, <1>16, <1>17 DEF UploadNext, Browser, Handle

(* Nothing is sent, stored or acknowledged yet.                              *)
LEMMA UploadInitInv == UploadInit => UploadInv
<1> SUFFICES ASSUME UploadInit PROVE UploadInv
  OBVIOUS
<1>1. UploadTypeOK
  <2>1. {finalizes, gotFile, valid, expired, spoiled, uploadRaced}
        \subseteq BOOLEAN
    BY DEF UploadInit
  <2>2. /\ handlerPc \in [Slots -> {"free"}] /\ body \in [Slots -> {0}]
        /\ pos \in [Slots -> {0}] /\ sum \in [Slots -> {Nothing}]
        /\ 0 \in Bodies /\ 0 \in 0..Total
    BY Numbers DEF UploadInit
  <2> QED
    BY <2>1, <2>2 DEF UploadInit, UploadTypeOK, Content
<1>2. BrowserInv
  BY Numbers DEF UploadInit, BrowserInv
<1>3. \A h \in Slots : RequestInv(h) /\ AssembledBy(h)
  BY Numbers DEF UploadInit, RequestInv, AssembledBy, Working
<1>4. KeptInv /\ CompletedIsStoredUnspoiled
  BY Numbers DEF UploadInit, KeptInv, Have, CompletedIsStoredUnspoiled
<1>5. AssemblyInv
  BY <1>3 DEF UploadInit, AssemblyInv, Working
<1> QED
  BY <1>1, <1>2, <1>3, <1>4, <1>5 DEF UploadInv

LEMMA UploadNextInv == UploadInv /\ [UploadNext]_uploadVars => UploadInv'
<1> SUFFICES ASSUME UploadInv, [UploadNext]_uploadVars PROVE UploadInv'
  OBVIOUS
<1>1. UploadTypeOK'
  BY UploadNextTyped
<1> QED
  BY <1>1, NextBrowser, NextRequest, NextKept, NextAssembly, NextCompleted
  DEF UploadInv

(* The inductive invariant of an upload holds in every reachable state, for  *)
(* any number of chunks and of requests under way.                           *)
THEOREM UploadInvariance == UploadSpec => []UploadInv
  BY UploadInitInv, UploadNextInv, PTL DEF UploadSpec

(* A stored upload is the whole file, in its row and on disk, as long as no  *)
(* request came upon its assembly; and an upload the browser shows as        *)
(* completed is stored, or being stored, unless its parts expired or their   *)
(* assembly failed.                                                          *)
THEOREM UploadsAreWhole == UploadSpec => []UploadIsWhole
<1>1. UploadInv => UploadIsWhole
  BY Numbers DEF UploadInv, AssemblyInv, StoredIsWhole, UploadIsWhole
<1> QED
  BY <1>1, UploadInvariance, PTL
=============================================================================
