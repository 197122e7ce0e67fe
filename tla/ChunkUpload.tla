----------------------------- MODULE ChunkUpload ----------------------------
(* One chunked upload: the browser's loop (AdvancedFileUpload.tsx), the      *)
(* requests it has sent, and their handlers (file.routes.ts), which store    *)
(* each chunk and put the file together when all of them are there.          *)
(* An aborted request is only forgotten by the browser: its handler goes on. *)
EXTENDS Integers, FiniteSets

CONSTANTS
    Total,      \* number of chunks
    Slots,      \* requests that are under way at once
    Nothing

ASSUME UploadAssumption ==
    /\ Total \in Nat \ {0}
    /\ Nothing \notin Slots
    /\ \A ps \in SUBSET (0..(Total - 1)) : Nothing # ps

VARIABLES
    status,     \* what the browser shows
    next,       \* the chunk its loop is at
    acked,      \* chunks it remembers as uploaded (localStorage)
    awaited,    \* the request it waits for
    finalizes,  \* is it configured with a finalizeUrl?
    gotFile,    \* has an answer carried the stored file?
    handlerPc,         \* where a request is
    body,       \* the chunk it carries, Finalize or Cancel
    pos,        \* the part its handler copies next
    sum,        \* the parts its handler has listed, or read back from the file
    parts,      \* the parts in the upload's directory, Nothing without one
    final,      \* the parts in the stitched file, Nothing without one
    record,     \* the content the StoredFile row describes, or Nothing
    valid,      \* does the content pass validation?
    expired,    \* has the directory been removed for its age?
    spoiled,    \* has the assembly of the file failed?
    uploadRaced       \* has a request come upon an assembly?

browserVars == <<status, next, acked, awaited, finalizes, gotFile>>
handlerVars == <<handlerPc, body, pos, sum>>
serverVars == <<parts, final, record, valid, expired, spoiled, uploadRaced>>
uploadVars == <<browserVars, handlerVars, serverVars>>

Chunks == 0..(Total - 1)
Content == SUBSET Chunks
Finalize == Total           \* requests that carry no chunk
Cancel == Total + 1
Bodies == 0..(Total + 1)
Working == {"stitch", "check", "clean", "hash", "store"}
Answers == {"partial", "stored", "refused", "failed"}

UploadTypeOK ==
    /\ status \in {"pending", "uploading", "paused", "error", "completed",
                   "cancelled"}
    /\ next \in 0..Total
    /\ acked \in Content
    /\ awaited \in Slots \cup {Nothing}
    /\ {finalizes, gotFile, valid, expired, spoiled, uploadRaced}
            \subseteq BOOLEAN
    /\ handlerPc \in [Slots -> {"free", "sent"} \cup Working \cup Answers]
    /\ body \in [Slots -> Bodies]
    /\ pos \in [Slots -> 0..Total]
    /\ sum \in [Slots -> {Nothing} \cup Content]
    /\ parts \in {Nothing} \cup Content
    /\ final \in {Nothing} \cup Content
    /\ record \in {Nothing} \cup Content

UploadInit ==
    /\ status = "pending" /\ next = 0 /\ acked = {} /\ awaited = Nothing
    /\ finalizes \in BOOLEAN /\ gotFile = FALSE
    /\ handlerPc = [h \in Slots |-> "free"]
    /\ body = [h \in Slots |-> 0]
    /\ pos = [h \in Slots |-> 0]
    /\ sum = [h \in Slots |-> Nothing]
    /\ parts = Nothing /\ final = Nothing /\ record = Nothing
    /\ valid \in BOOLEAN
    /\ expired = FALSE /\ spoiled = FALSE /\ uploadRaced = FALSE
-----------------------------------------------------------------------------
(* The browser.                                                              *)

Send(h, what) ==
    /\ handlerPc[h] = "free"
    /\ handlerPc' = [handlerPc EXCEPT ![h] = "sent"]
    /\ body' = [body EXCEPT ![h] = what]
    /\ UNCHANGED <<pos, sum>>

(* A new selection of the file, or resume: the loop starts from its first    *)
(* chunk and skips those it remembers.                                       *)
StartUpload ==
    /\ status \in {"pending", "paused", "error"}
    /\ status' = "uploading" /\ next' = 0
    /\ gotFile' = FALSE
    /\ UNCHANGED <<acked, awaited, finalizes, handlerVars, serverVars>>

Loops == status = "uploading" /\ awaited = Nothing

UploadChunk ==
    /\ Loops /\ next < Total
    /\ IF next \in acked
       THEN next' = next + 1 /\ UNCHANGED <<awaited, handlerVars>>
       ELSE /\ \E h \in Slots : Send(h, next) /\ awaited' = h
            /\ UNCHANGED next
    /\ UNCHANGED <<status, acked, finalizes, gotFile, serverVars>>

(* All chunks are acknowledged: with a finalizeUrl and no file in any answer *)
(* it asks for one, otherwise the upload is completed.                       *)
EndUpload ==
    /\ Loops /\ next = Total
    /\ IF finalizes /\ ~gotFile
       THEN /\ \E h \in Slots : Send(h, Finalize) /\ awaited' = h
            /\ UNCHANGED status
       ELSE /\ status' = "completed"
            /\ UNCHANGED <<awaited, handlerVars>>
    /\ UNCHANGED <<next, acked, finalizes, gotFile, serverVars>>

Free(h) ==
    /\ handlerPc' = [handlerPc EXCEPT ![h] = "free"]
    /\ body' = [body EXCEPT ![h] = 0]
    /\ pos' = [pos EXCEPT ![h] = 0]
    /\ sum' = [sum EXCEPT ![h] = Nothing]

(* The answer arrives; if the browser has aborted the request it is lost.    *)
ReceiveAnswer(h) ==
    /\ handlerPc[h] \in Answers
    /\ Free(h)
    /\ IF awaited # h THEN UNCHANGED <<status, next, acked, awaited, gotFile>>
       ELSE /\ awaited' = Nothing
            /\ IF handlerPc[h] \in {"refused", "failed"}
               THEN status' = "error" /\ UNCHANGED <<next, acked, gotFile>>
               ELSE /\ gotFile' = (gotFile \/ handlerPc[h] = "stored")
                    /\ IF body[h] \in Chunks
                       THEN /\ acked' = acked \cup {body[h]}
                            /\ next' = next + 1
                            /\ UNCHANGED status
                       ELSE status' = "completed" /\ UNCHANGED <<acked, next>>
    /\ UNCHANGED <<finalizes, serverVars>>

(* The connection breaks: the browser gets an error for a request that may   *)
(* have been handled, may be handled later, or never.                        *)
LoseConnection ==
    /\ awaited # Nothing
    /\ status' = "error"
    /\ awaited' = Nothing
    /\ \/ UNCHANGED handlerVars
       \/ handlerPc[awaited] = "sent" /\ Free(awaited)
    /\ UNCHANGED <<next, acked, finalizes, gotFile, serverVars>>

PauseUpload ==
    /\ status = "uploading"
    /\ status' = "paused"
    /\ awaited' = Nothing
    /\ UNCHANGED <<next, acked, finalizes, gotFile, handlerVars, serverVars>>

CancelUpload ==
    /\ status \in {"pending", "uploading", "paused", "error"}
    /\ \E h \in Slots : Send(h, Cancel)
    /\ status' = "cancelled"
    /\ awaited' = Nothing /\ acked' = {}
    /\ UNCHANGED <<next, finalizes, gotFile, serverVars>>
-----------------------------------------------------------------------------
(* The server.                                                               *)

HandlerTo(h, label) == handlerPc' = [handlerPc EXCEPT ![h] = label]
AnswerWith(h, answer) == HandlerTo(h, answer) /\ UNCHANGED <<body, pos, sum>>
Busy == \E h \in Slots : handlerPc[h] \in Working
BesideOthers(h) == \E o \in Slots \ {h} : handlerPc[o] \in Working

Have == IF parts = Nothing THEN {} ELSE parts
HaveLast(ps) == Total - 1 \in ps                                   \* mutant
HaveAll(ps) == ps = Chunks

(* POST /files/upload/chunk stores its part, and starts to put the file      *)
(* together when all of them are there: that truncates the target.           *)
TakeChunk(h) ==
    /\ handlerPc[h] = "sent" /\ body[h] \in Chunks
    /\ parts' = Have \cup {body[h]}
    /\ IF HaveAll(parts')
       THEN HandlerTo(h, "stitch") /\ final' = {}
       ELSE HandlerTo(h, "partial") /\ UNCHANGED final
    /\ uploadRaced' = (uploadRaced \/ BesideOthers(h))
    /\ UNCHANGED <<browserVars, body, pos, sum, record, valid, expired,
                   spoiled>>

(* POST /files/finalize takes the parts it finds to be all of them.          *)
TakeFinalize(h) ==
    /\ handlerPc[h] = "sent" /\ body[h] = Finalize
    /\ IF parts = Nothing
       THEN HandlerTo(h, "refused") /\ UNCHANGED <<final, sum>>
       ELSE /\ HandlerTo(h, "stitch")
            /\ final' = {}
            /\ sum' = [sum EXCEPT ![h] = parts]
    /\ uploadRaced' = (uploadRaced \/ BesideOthers(h))
    /\ UNCHANGED <<browserVars, body, pos, parts, record, valid, expired,
                   spoiled>>

(* DELETE /files/upload/chunk/:uploadSessionId                               *)
TakeCancel(h) ==
    /\ handlerPc[h] = "sent" /\ body[h] = Cancel
    /\ parts' = Nothing
    /\ uploadRaced' = (uploadRaced \/ BesideOthers(h))
    /\ Free(h)
    /\ UNCHANGED <<browserVars, final, record, valid, expired, spoiled>>

Expected(h) == IF body[h] = Finalize THEN Cardinality(sum[h]) ELSE Total

(* Parts are read and written one after the other, with a wait for the       *)
(* stream after each.  A missing one is an error that leaves what is there.  *)
StitchPart(h) ==
    /\ handlerPc[h] = "stitch"
    /\ IF pos[h] \in Have
       THEN /\ final' = IF final = Nothing THEN Nothing
                       ELSE final \cup {pos[h]}
            /\ pos' = [pos EXCEPT ![h] = @ + 1]
            /\ IF pos[h] + 1 = Expected(h)
               THEN HandlerTo(h, IF body[h] = Finalize THEN "clean"
                                 ELSE "check")
               ELSE UNCHANGED handlerPc
            /\ UNCHANGED <<body, sum, spoiled>>
       ELSE /\ spoiled' = TRUE
            /\ AnswerWith(h, "failed")
            /\ UNCHANGED final
    /\ UNCHANGED <<browserVars, parts, record, valid, expired, uploadRaced>>

(* Validation; content that fails it goes, with the parts.  A finalization   *)
(* has removed its parts before.                                             *)
CheckUpload(h) ==
    /\ handlerPc[h] = "check"
    /\ IF valid
       THEN /\ HandlerTo(h, IF body[h] = Finalize THEN "hash" ELSE "clean")
            /\ UNCHANGED <<body, pos, sum, parts, final, spoiled>>
       ELSE /\ final' = Nothing
            /\ parts' = IF body[h] = Finalize THEN parts ELSE Nothing
            /\ spoiled' = TRUE
            /\ AnswerWith(h, "refused")
    /\ UNCHANGED <<browserVars, record, valid, expired, uploadRaced>>

(* The parts are removed: a finalization throws at the first one that is     *)
(* gone, or when others have come.  Then the size of the file is looked up,  *)
(* which throws when it is gone.                                             *)
Removed(h) ==
    IF body[h] = Finalize
    THEN {p \in sum[h] : (0..p) \cap sum[h] \subseteq parts}
    ELSE parts

CleanUp(h) ==
    /\ handlerPc[h] = "clean"
    /\ parts' = IF parts = Nothing \/ Removed(h) = parts THEN Nothing
                ELSE parts \ Removed(h)
    /\ IF \/ final = Nothing
          \/ body[h] = Finalize /\ (parts # sum[h])
       THEN spoiled' = TRUE /\ AnswerWith(h, "failed")
       ELSE /\ HandlerTo(h, IF body[h] = Finalize THEN "check" ELSE "hash")
            /\ UNCHANGED <<body, pos, sum, spoiled>>
    /\ UNCHANGED <<browserVars, final, record, valid, expired, uploadRaced>>

HashFile(h) ==
    /\ handlerPc[h] = "hash"
    /\ IF final = Nothing
       THEN spoiled' = TRUE /\ AnswerWith(h, "failed")
       ELSE /\ sum' = [sum EXCEPT ![h] = final]
            /\ HandlerTo(h, "store")
            /\ UNCHANGED <<body, pos, spoiled>>
    /\ UNCHANGED <<browserVars, parts, final, record, valid, expired,
                   uploadRaced>>

(* The target folder is looked at, the row is created or, for an upload that *)
(* has one, updated, its document revision and event are recorded.  A folder *)
(* in the trash or an error of the database ends it before, an error in what *)
(* follows after the row is there.                                           *)
StoreRecord(h) ==
    /\ handlerPc[h] = "store"
    /\ \/ record' = sum[h] /\ AnswerWith(h, "stored") /\ UNCHANGED spoiled
       \/ record' = sum[h] /\ AnswerWith(h, "failed") /\ UNCHANGED spoiled
       \/ spoiled' = TRUE /\ AnswerWith(h, "failed") /\ UNCHANGED record
    /\ UNCHANGED <<browserVars, parts, final, valid, expired, uploadRaced>>

(* A directory nobody has touched for the time limit is removed by the next  *)
(* upload request of anybody; no request takes that long.                    *)
ExpireDirectory ==
    /\ parts # Nothing /\ ~expired
    /\ \A h \in Slots : handlerPc[h] = "free"
    /\ parts' = Nothing
    /\ expired' = TRUE
    /\ UNCHANGED <<browserVars, handlerVars, final, record, valid, spoiled,
                   uploadRaced>>
-----------------------------------------------------------------------------
Browser ==
    \/ StartUpload \/ UploadChunk \/ EndUpload
    \/ LoseConnection \/ PauseUpload \/ CancelUpload
    \/ \E h \in Slots : ReceiveAnswer(h)

Handle(h) ==
    \/ TakeChunk(h) \/ TakeFinalize(h) \/ TakeCancel(h)
    \/ StitchPart(h) \/ CheckUpload(h) \/ CleanUp(h) \/ HashFile(h)
    \/ StoreRecord(h)

UploadNext == Browser \/ (\E h \in Slots : Handle(h)) \/ ExpireDirectory

UploadSpec == UploadInit /\ [][UploadNext]_uploadVars
-----------------------------------------------------------------------------
(* Properties.                                                               *)

(* A stored upload is the whole file: its row describes all of it, and the   *)
(* bytes on disk are all of it while nobody is at work on it, if no request  *)
(* has come upon another one's assembly of the same upload, and the browser, *)
(* as in this application, has no finalizeUrl.                               *)
StoredIsWhole ==
    (record # Nothing /\ ~uploadRaced /\ ~finalizes)
    => record = Chunks /\ (~Busy => final = Chunks)

(* What the browser shows as completed is stored, or about to be: through    *)
(* pauses, lost answers and repeated chunks, as long as the directory has    *)
(* not expired and no assembly has failed.                                   *)
CompletedIsStoredUnspoiled ==
    (status = "completed" /\ ~expired /\ ~spoiled)
    => (record # Nothing \/ Busy)

UploadIsWhole == StoredIsWhole /\ CompletedIsStoredUnspoiled
-----------------------------------------------------------------------------
(* The inductive invariant.                                                  *)

(* The browser remembers what its loop has passed, and waits only while it   *)
(* uploads, for the chunk its loop is at.                                    *)
BrowserInv ==
    /\ awaited # Nothing =>
        /\ status = "uploading"
        /\ handlerPc[awaited] # "free" /\ body[awaited] = next
    /\ IF status = "cancelled" THEN acked = {} /\ awaited = Nothing
       ELSE 0..(next - 1) \subseteq acked

RequestInv(h) ==
    /\ body[h] = Cancel => status = "cancelled"
    /\ body[h] = Finalize => finalizes
    /\ handlerPc[h] \in {"free", "sent"} => pos[h] = 0
    /\ handlerPc[h] = "partial" => body[h] \in Chunks
    /\ handlerPc[h] = "stored" => record # Nothing
    /\ handlerPc[h] \in Working => body[h] \in Chunks \cup {Finalize}
    /\ handlerPc[h] = "store" => sum[h] # Nothing

(* Until an assembly starts, what has been acknowledged is in the directory, *)
(* which lacks something.                                                    *)
KeptInv ==
    (status # "cancelled" /\ ~expired /\ ~spoiled /\ record = Nothing /\ ~Busy)
    => /\ acked \subseteq Have /\ Have # Chunks
       /\ \A h \in Slots : handlerPc[h] = "partial" => body[h] \in Have

(* One assembly at a time, from all the parts to the whole file.             *)
AssembledBy(h) ==
    /\ handlerPc[h] = "stitch" =>
        parts = Chunks /\ pos[h] < Total /\ final = 0..(pos[h] - 1)
    /\ handlerPc[h] \in {"check", "clean"} => parts = Chunks /\ final = Chunks
    /\ handlerPc[h] = "hash" => final = Chunks
    /\ handlerPc[h] = "store" => final = Chunks /\ sum[h] = Chunks
    /\ handlerPc[h] \in {"clean", "hash", "store"} => valid

AssemblyInv ==
    (~uploadRaced /\ ~finalizes)
    => /\ \A h, o \in Slots :
           {handlerPc[h], handlerPc[o]} \subseteq Working => h = o
       /\ \A h \in Slots : AssembledBy(h)
       /\ record # Nothing => /\ record = Chunks /\ valid
                              /\ Busy \/ final = Chunks

UploadInv ==
    /\ UploadTypeOK
    /\ BrowserInv
    /\ \A h \in Slots : RequestInv(h)
    /\ KeptInv
    /\ AssemblyInv
    /\ CompletedIsStoredUnspoiled
=============================================================================
