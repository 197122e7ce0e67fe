----------------------------- MODULE NotebookChat -----------------------------
(***************************************************************************)
(* A question to a notebook: the chat panel (ChatPanel.tsx), the stream of *)
(* events it reads (notebookClient.ts), the handler that writes them       *)
(* (postNotebookChatStreamHandler) and the run that is stored beside       *)
(* (notebookChat.service.ts).  The panel aborts a question when another    *)
(* notebook is selected or the user stops it; what has been stored is      *)
(* fetched as the history of a notebook and takes the place of all that is *)
(* shown.  A question and its answer are one message here; the order of    *)
(* messages is left out, as is that of runs.                               *)
(***************************************************************************)
EXTENDS Naturals, FiniteSets, Sequences

CONSTANTS
    Notebooks,
    Questions,  \* calls of send
    MaxLoads,   \* bound of the model: histories fetched at once
    Absent

ASSUME ChatAssumption ==
    /\ Absent \notin Notebooks /\ Absent \notin Questions /\ MaxLoads \in Nat

VARIABLES
    selected,   \* notebookId
    messages,   \* what is shown: questions and what is shown as their answer
    pending,
    loadingHistory,
    abortRef,   \* the question whose request would be aborted
    client,     \* send: is the question's stream read?
    asked,      \* the notebook it was asked in
    heard,      \* events it has been told: liveRunId, streamedText, final
    loads,      \* histories on their way
    stream,     \* events written and not yet read
    handler,    \* where the request's handler is
    closed,     \* handlers that take their stream for closed
    runs,       \* NotebookChatRun rows
    existing    \* Notebook rows

panelVars == <<selected, messages, pending, loadingHistory, abortRef>>
sendVars == <<client, asked, heard>>
serverVars == <<handler, closed, runs, existing>>
chatVars == <<panelVars, sendVars, loads, stream, serverVars>>

Shows == {"nothing", "partial", "answer", "stopped", "error"}
Message == [of : Questions, shows : Shows]
Events == {"run", "delta", "final", "error", "end"}

ChatTypeOK ==
    /\ selected \in Notebooks \cup {Absent}
    /\ messages \subseteq Message
    /\ pending \in BOOLEAN /\ loadingHistory \in BOOLEAN
    /\ abortRef \in Questions \cup {Absent}
    /\ client \in [Questions -> {"none", "streaming", "ended"}]
    /\ asked \in [Questions -> Notebooks \cup {Absent}]
    /\ heard \in [Questions -> SUBSET {"run", "delta", "final"}]
    /\ \A l \in loads : l \in [of : Notebooks, alive : BOOLEAN,
                               reply : {Absent} \cup SUBSET Message]
    /\ stream \in [Questions -> Seq(Events)]
    /\ handler \in [Questions -> {"none", "posted", "created", "running",
                                  "answering", "ended"}]
    /\ closed \subseteq Questions /\ existing \subseteq Notebooks
    /\ runs \subseteq [of : Questions, status : {"STARTED", "SUCCEEDED", "FAILED"}]

ChatInit ==
    /\ selected = Absent /\ messages = {}
    /\ pending = FALSE /\ loadingHistory = FALSE /\ abortRef = Absent
    /\ client = [q \in Questions |-> "none"]
    /\ asked = [q \in Questions |-> Absent]
    /\ heard = [q \in Questions |-> {}]
    /\ loads = {}
    /\ stream = [q \in Questions |-> <<>>]
    /\ handler = [q \in Questions |-> "none"]
    /\ closed = {} /\ runs = {} /\ existing = Notebooks
-----------------------------------------------------------------------------
(* The panel.                                                                *)

Show(q, what) ==
    {IF m.of = q THEN [m EXCEPT !.shows = what] ELSE m : m \in messages}

(* The effect that fetches a history, and the clean-up of the one before.    *)
LoadHistory(n) ==
    /\ loads' = {[l EXCEPT !.alive = FALSE] : l \in loads}
                \cup {[of |-> m, alive |-> TRUE, reply |-> Absent] : m \in {n} \ {Absent}}
    /\ loadingHistory' = (n # Absent)

NoLoad == UNCHANGED <<loads, loadingHistory>>

(* The finally of send; what it has heard goes with its locals, and nobody   *)
(* reads the rest of its stream.                                             *)
EndSend(q) ==
    /\ client' = [client EXCEPT ![q] = "ended"]
    /\ heard' = [heard EXCEPT ![q] = {}]
    /\ stream' = [stream EXCEPT ![q] = <<>>]
    /\ abortRef' = IF abortRef = q THEN Absent ELSE abortRef
    /\ pending' = FALSE

(* Another notebook, or none: an abort rejects what send awaits, which ends  *)
(* before the browser handles anything else.                                 *)
SelectNotebook(n) ==
    /\ n # selected /\ Cardinality(loads) < MaxLoads
    /\ selected' = n /\ messages' = {}
    /\ IF abortRef # Absent THEN EndSend(abortRef) /\ UNCHANGED asked
       ELSE pending' = FALSE /\ UNCHANGED <<abortRef, sendVars, stream>>
    /\ LoadHistory(n)
    /\ UNCHANGED serverVars

Send(q) ==
    /\ client[q] = "none" /\ selected # Absent
    /\ ~pending /\ ~loadingHistory
    /\ messages' = messages \cup {[of |-> q, shows |-> "nothing"]}
    /\ pending' = TRUE /\ abortRef' = q
    /\ client' = [client EXCEPT ![q] = "streaming"]
    /\ asked' = [asked EXCEPT ![q] = selected]
    /\ handler' = [handler EXCEPT ![q] = "posted"]
    /\ UNCHANGED <<selected, loadingHistory, heard, loads, stream, closed, runs,
                   existing>>

(* The button while a question is pending, disabled as long as a history is  *)
(* on its way.                                                               *)
Stop ==
    /\ pending /\ abortRef # Absent /\ ~loadingHistory
    /\ messages' = IF "delta" \in heard[abortRef] THEN Show(abortRef, "partial")
                   ELSE Show(abortRef, "stopped")
    /\ EndSend(abortRef)
    /\ UNCHANGED <<selected, loadingHistory, asked, loads, serverVars>>

(* send catches another error: the stored run is fetched, if there is one.   *)
Fails(q) ==
    /\ messages' = Show(q, "error")
    /\ EndSend(q)
    /\ IF "run" \in heard[q] THEN LoadHistory(selected) ELSE NoLoad
    /\ UNCHANGED <<selected, asked>>

(* onEvent heeds what comes for the question asked last in this notebook.    *)
Heeded(q) == selected = asked[q] /\ abortRef = q

Hear(q, event) ==
    /\ stream' = [stream EXCEPT ![q] = Tail(@)]
    /\ heard' = [heard EXCEPT ![q] = @ \cup {event}]
    /\ messages' = CASE event = "delta" /\ Heeded(q) -> Show(q, "partial")
                     [] event = "final" /\ Heeded(q) -> Show(q, "answer")
                     [] OTHER -> messages
    /\ NoLoad /\ UNCHANGED <<selected, pending, abortRef, client, asked>>

Finish(q) ==
    /\ messages' = IF "delta" \in heard[q] THEN messages ELSE Show(q, "answer")
    /\ EndSend(q)
    /\ NoLoad /\ UNCHANGED <<selected, asked>>

Receive(q) ==
    /\ client[q] = "streaming" /\ stream[q] # <<>>
    /\ LET event == Head(stream[q])
       IN  \/ event \in {"run", "delta", "final"} /\ Hear(q, event)
           \/ event = "error" /\ Fails(q)
           \/ event = "end" /\ "final" \in heard[q] /\ Finish(q)
           \/ event = "end" /\ "final" \notin heard[q] /\ Fails(q)
    /\ UNCHANGED serverVars

LoseStream(q) ==
    /\ client[q] = "streaming"
    /\ Fails(q)
    /\ UNCHANGED serverVars

(* listNotebookChatRuns, and what the effect does with its answer.           *)
Finished(n) ==
    {[of |-> r.of, shows |-> IF r.status = "FAILED" THEN "error" ELSE "answer"] :
        r \in {x \in runs : asked[x.of] = n /\ x.status # "STARTED"}}

ReadHistory(l) ==
    /\ l.reply = Absent /\ l.of \in existing
    /\ loads' = (loads \ {l}) \cup {[l EXCEPT !.reply = Finished(l.of)]}
    /\ UNCHANGED <<panelVars, sendVars, stream, serverVars>>

Awaited(l) == l.alive

ShowHistory(l) ==
    /\ l.reply # Absent
    /\ loads' = loads \ {l}
    /\ IF Awaited(l) THEN messages' = l.reply /\ loadingHistory' = FALSE
                     ELSE UNCHANGED <<messages, loadingHistory>>
    /\ UNCHANGED <<selected, pending, abortRef, sendVars, stream, serverVars>>

HistoryFails(l) ==
    /\ loads' = loads \ {l}
    /\ IF Awaited(l) THEN messages' = {} /\ loadingHistory' = FALSE
                     ELSE UNCHANGED <<messages, loadingHistory>>
    /\ UNCHANGED <<selected, pending, abortRef, sendVars, stream, serverVars>>
-----------------------------------------------------------------------------
(* The handler and its run.                                                  *)

(* send of the handler; nobody reads what is written for a stopped question. *)
Written(q, events) ==
    stream' = IF q \in closed \/ client[q] # "streaming" THEN stream
              ELSE [stream EXCEPT ![q] = @ \o events]

Reach(q, pc) ==
    /\ handler' = [handler EXCEPT ![q] = pc]
    /\ closed' = IF pc = "ended" THEN closed \ {q} ELSE closed

Ended(q, status) ==
    {IF r.of = q THEN [r EXCEPT !.status = status] ELSE r : r \in runs}
HasRun(q) == \E r \in runs : r.of = q

Refuse(q) ==
    /\ handler[q] = "posted"
    /\ Written(q, <<"error", "end">>) /\ Reach(q, "ended")
    /\ UNCHANGED runs

CreateRun(q) ==
    /\ handler[q] = "posted" /\ asked[q] \in existing
    /\ runs' = runs \cup {[of |-> q, status |-> "STARTED"]}
    /\ Written(q, <<"run">>) /\ Reach(q, "created")

BeginAnswer(q) ==
    /\ handler[q] = "created" /\ q \notin closed
    /\ Reach(q, "running")
    /\ UNCHANGED <<runs, stream>>

(* An error of any step, the abort, or an answer for a run that is gone; to  *)
(* mark a run that is gone throws again.                                     *)
FailRun(q) ==
    /\ handler[q] \in {"created", "running"}
    /\ runs' = Ended(q, "FAILED")
    /\ Written(q, <<"error", "end">>) /\ Reach(q, "ended")

(* The answer is stored and then written; the ones that need no model are    *)
(* returned without deltas.                                                  *)
SucceedRun(q) ==
    /\ handler[q] = "running" /\ HasRun(q)
    /\ runs' = Ended(q, "SUCCEEDED")
    /\ \E deltas \in {<<>>, <<"delta">>} : Written(q, deltas)
    /\ Reach(q, "answering")

Deliver(q) ==
    /\ handler[q] = "answering"
    /\ Written(q, <<"final", "end">>) /\ Reach(q, "ended")
    /\ UNCHANGED runs

Handle(q) ==
    /\ Refuse(q) \/ CreateRun(q) \/ BeginAnswer(q) \/ FailRun(q) \/ SucceedRun(q) \/ Deliver(q)
    /\ UNCHANGED <<panelVars, sendVars, loads, existing>>

(* "close" of the request: Node emits it when the request has been read or   *)
(* its connection has gone, depending on its version.                        *)
Close(q) ==
    /\ handler[q] \in {"posted", "created", "running", "answering"} /\ q \notin closed
    /\ closed' = closed \cup {q}
    /\ UNCHANGED <<panelVars, sendVars, loads, stream, handler, runs, existing>>

ServerDies ==
    /\ handler' = [q \in Questions |-> IF handler[q] = "none" THEN "none" ELSE "ended"]
    /\ closed' = {}
    /\ UNCHANGED <<panelVars, sendVars, loads, stream, runs, existing>>

(* The runs of a notebook go with its row.                                   *)
DeleteNotebook(n) ==
    /\ n \in existing
    /\ existing' = existing \ {n}
    /\ runs' = {r \in runs : asked[r.of] # n}
    /\ UNCHANGED <<panelVars, sendVars, loads, stream, handler, closed>>
-----------------------------------------------------------------------------
ChatNext ==
    \/ \E n \in Notebooks \cup {Absent} : SelectNotebook(n)
    \/ \E q \in Questions : Send(q) \/ Receive(q) \/ LoseStream(q) \/ Handle(q) \/ Close(q)
    \/ Stop
    \/ \E l \in loads : ReadHistory(l) \/ ShowHistory(l) \/ HistoryFails(l)
    \/ ServerDies
    \/ \E n \in Notebooks : DeleteNotebook(n)

ChatSpec == ChatInit /\ [][ChatNext]_chatVars
-----------------------------------------------------------------------------
(* The conversation shown is the selected notebook's, with every question    *)
(* once, and an answer that is shown is the one that was stored.             *)
ConversationIsStored ==
    \A m \in messages :
        /\ asked[m.of] = selected
        /\ \A o \in messages : o.of = m.of => o = m
        /\ m.shows = "answer" /\ asked[m.of] \in existing =>
               [of |-> m.of, status |-> "SUCCEEDED"] \in runs

(* A question is pending just while its stream is read, and then the user    *)
(* can stop it and its answer has a place.                                   *)
PendingIsRead ==
    /\ \A q \in Questions :
           client[q] = "streaming" =>
               pending /\ abortRef = q /\ \E m \in messages : m.of = q
    /\ pending => \E q \in Questions : client[q] = "streaming"
-----------------------------------------------------------------------------
(* Why: while a question is read no history is awaited, and while one is, it *)
(* is the selected notebook's and nothing else is shown in its place;        *)
PanelInv ==
    /\ \A q \in Questions :
         /\ client[q] = "streaming" =>
              asked[q] = selected /\ selected # Absent /\ ~loadingHistory
         /\ client[q] = "none" => asked[q] = Absent /\ handler[q] = "none"
         /\ client[q] # "streaming" => stream[q] = <<>> /\ heard[q] = {}
    /\ abortRef # Absent => client[abortRef] = "streaming"
    /\ messages # {} => selected # Absent
    /\ \A l \in loads : l.alive => loadingHistory /\ l.of = selected
    /\ \A l, k \in loads : l.alive /\ k.alive => l = k

(* a question has one run, which ends with its handler;                      *)
RunsInv ==
    /\ \A r, s \in runs : r.of = s.of => r = s
    /\ \A r \in runs :
         /\ handler[r.of] \notin {"none", "posted"}
         /\ handler[r.of] \in {"created", "running"} => r.status = "STARTED"

(* who has an answer at hand has it from a run that succeeded, until the     *)
(* notebook is deleted.                                                      *)
Answered(q) ==
    \/ handler[q] = "answering" \/ "final" \in heard[q]
    \/ \E i \in DOMAIN stream[q] : stream[q][i] = "final"
IsStored(q) == asked[q] \in existing => [of |-> q, status |-> "SUCCEEDED"] \in runs
AnswersInv ==
    /\ \A q \in Questions : Answered(q) => IsStored(q)
    /\ \A l \in loads : l.reply # Absent =>
         /\ \A m \in l.reply : asked[m.of] = l.of /\ (m.shows = "answer" => IsStored(m.of))
         /\ \A m, o \in l.reply : m.of = o.of => m = o

ChatInv ==
    /\ ChatTypeOK
    /\ PanelInv
    /\ RunsInv
    /\ AnswersInv
    /\ ConversationIsStored
    /\ PendingIsRead
=============================================================================
