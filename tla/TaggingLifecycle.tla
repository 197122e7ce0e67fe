-------------------------- MODULE TaggingLifecycle --------------------------
(***************************************************************************)
(* What the AI tagging of one row promises, without its queue, its polling *)
(* and its claim tokens: the row is reserved by one call at a time, a call *)
(* starts at most one job and publishes it only under its own reservation, *)
(* tags come only from a job that succeeded, and a row that says SUCCESS   *)
(* has tags.  AiTagging implements it (AiTagging!Lifecycle).               *)
(***************************************************************************)
CONSTANTS
    Calls,    \* whoever may start a job
    NoCall,   \* no reservation, no tags
    Earlier   \* tags from before the modelled history

VARIABLES
    shown,      \* the status the user sees; "ABSENT" once the row is deleted
    holder,     \* the call that has the row reserved
    published,  \* has the holder's job been published in the row?
    started,    \* calls that started their job
    succeeded,  \* calls whose job succeeded
    tags        \* the call whose job the stored tags are from

vars == <<shown, holder, published, started, succeeded, tags>>

Init ==
    /\ \/ shown \in {"NONE", "FAILED"} /\ tags = NoCall
       \/ shown \in {"SUCCESS", "FAILED"} /\ tags = Earlier
    /\ holder = NoCall /\ published = FALSE
    /\ started = {} /\ succeeded = {}

Free == holder' = NoCall /\ published' = FALSE

(* A free row is reserved.                                                  *)
Reserve(c) ==
    /\ shown # "ABSENT" /\ holder = NoCall
    /\ shown' = "PENDING" /\ holder' = c
    /\ UNCHANGED <<published, started, succeeded, tags>>

(* The job of a call: one at most, and its success, once it runs.           *)
Start(c) ==
    /\ c \notin started
    /\ started' = started \cup {c}
    /\ UNCHANGED <<shown, holder, published, succeeded, tags>>

Succeed(c) ==
    /\ c \in started
    /\ succeeded' = succeeded \cup {c}
    /\ UNCHANGED <<shown, holder, published, started, tags>>

(* The reservation becomes the job's, for its holder only.                  *)
Publish(c) ==
    /\ holder = c /\ ~published /\ c \in started
    /\ shown' = "RUNNING" /\ published' = TRUE
    /\ UNCHANGED <<holder, started, succeeded, tags>>

(* Tags are stored, which frees the row whoever has it reserved.            *)
Tag(c) ==
    /\ shown # "ABSENT" /\ c \in succeeded
    /\ shown' = "SUCCESS" /\ tags' = c /\ Free
    /\ UNCHANGED <<started, succeeded>>

(* The row already has tags, and nothing is to be done.                     *)
Confirm ==
    /\ shown # "ABSENT" /\ tags # NoCall
    /\ shown' = "SUCCESS" /\ Free
    /\ UNCHANGED <<started, succeeded, tags>>

(* A reservation is given up or taken away, or a run failed or is asked for. *)
GiveUp ==
    /\ shown # "ABSENT"
    /\ shown' \in {"PENDING", "FAILED"} /\ Free
    /\ UNCHANGED <<started, succeeded, tags>>

(* The row is not of a type that can be tagged.                             *)
Refuse ==
    /\ shown # "ABSENT"
    /\ shown' = "NONE" /\ Free
    /\ UNCHANGED <<started, succeeded, tags>>

(* Tagging is asked for again while it is under way.                        *)
AskAgain ==
    /\ shown # "ABSENT"
    /\ shown' = "PENDING"
    /\ UNCHANGED <<holder, published, started, succeeded, tags>>

Delete ==
    /\ shown' = "ABSENT" /\ tags' = NoCall /\ Free
    /\ UNCHANGED <<started, succeeded>>

Next ==
    \/ \E c \in Calls : \/ Reserve(c) \/ Start(c) \/ Succeed(c)
                        \/ Publish(c) \/ Tag(c)
    \/ Confirm \/ GiveUp \/ Refuse \/ AskAgain \/ Delete

Spec == Init /\ [][Next]_vars
=============================================================================
