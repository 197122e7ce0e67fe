---------------------------- MODULE MapCoverage ----------------------------
(***************************************************************************)
(* The LLM map of one document (src/ai-tagger/structured_intelligence.py): *)
(* the text is cut into units and packed into windows; every window is     *)
(* mapped once for every batch of categories, with retries, and halved     *)
(* when its answer does not fit; the critic then judges what was found.    *)
(* A result is stored for later calls and shown as complete only by what   *)
(* the receipts of these calls say.                                        *)
(*                                                                         *)
(* A character stands for a piece of text; a segment is an interval of     *)
(* one unit, a window a sequence of segments.                              *)
(***************************************************************************)
EXTENDS Naturals, Sequences, FiniteSets, SequencesExt

CONSTANTS
    Documents,    \* sequences of the lengths of their grounding units
    Batches,      \* number of category batches
    MaxWindow,    \* longest unit and window
    MinSplit,     \* shortest half of a unit
    MaxAttempts,  \* LLM_WINDOW_MAX_ATTEMPTS
    CriticSize    \* items judged in one call

(* A grounding unit without text is left out before.                        *)
ASSUME MapAssumption ==
    /\ Documents \subseteq Seq(Nat \ {0})
    /\ {Batches, MaxWindow, MinSplit, MaxAttempts, CriticSize} \subseteq Nat \ {0}

VARIABLES
    grounding,      \* the grounding units of the document
    rest,           \* what the loop has left: units to cut, units to pack,
                    \* windows to map
    units,          \* candidate units
    windows, packed,   \* complete windows, and the one that is being packed
    batch,          \* the categories the first window of rest is mapped for next
    stack,          \* calls of map_leaf to make, the innermost first
    attempt,        \* of the request under way
    mapped,         \* leaves that succeeded, and whether they found a claim
    failed,         \* leaves that failed
    items,          \* leaves whose findings are to be judged
    judged, accepted, criticFailed,
    stage

windowVars == <<grounding, units, windows, packed>>
callVars == <<batch, stack, attempt, mapped, failed>>
criticVars == <<judged, accepted, criticFailed>>
mapVars == <<windowVars, rest, callVars, items, criticVars, stage>>

Length(segment) == segment.to - segment.from
TotalLength(window) == FoldLeft(LAMBDA n, s : n + Length(s), 0, window)
Chars(segment) == {<<segment.unit, i>> : i \in segment.from + 1..segment.to}
CharsOf(window) == UNION {Chars(window[i]) : i \in DOMAIN window}
Text == UNION {{<<u, i>> : i \in 1..grounding[u]} : u \in DOMAIN grounding}

Segments == [unit : Nat, from : Nat, to : Nat]
Windows == Seq(Segments) \ {<<>>}
Calls == [window : Windows, batch : 1..Batches]
Leaves == [window : Windows, batch : 1..Batches, claim : BOOLEAN]

MapTypeOK ==
    /\ grounding \in Documents
    /\ units \in Seq(Segments) /\ packed \in Seq(Segments)
    /\ \A i \in DOMAIN units : Length(units[i]) \in 1..MaxWindow
    /\ windows \in Seq(Windows)
    /\ stage \in {"cut", "pack"} => rest \in Seq(Segments)
    /\ stage = "map" => rest \in Seq(Windows)
    /\ stage \in {"judge", "done"} => rest = <<>> /\ stack = <<>>
    /\ batch \in 1..Batches
    /\ stack \in Seq(Calls)
    /\ attempt \in 1..MaxAttempts
    /\ mapped \in Seq(Leaves)
    /\ failed \in Nat /\ criticFailed \in Nat
    /\ items \in Seq(DOMAIN mapped)
    /\ accepted \subseteq DOMAIN mapped /\ judged \subseteq DOMAIN mapped
    /\ stage \in {"cut", "pack", "map", "judge", "done"}

MapInit ==
    /\ grounding \in Documents
    /\ rest = IF grounding = <<>> THEN <<>>
              ELSE <<[unit |-> 1, from |-> 0, to |-> grounding[1]]>>
    /\ units = <<>> /\ windows = <<>> /\ packed = <<>> /\ stack = <<>>
    /\ batch = 1 /\ attempt = 1 /\ mapped = <<>> /\ failed = 0 /\ items = <<>>
    /\ judged = {} /\ accepted = {} /\ criticFailed = 0
    /\ stage = IF grounding = <<>> THEN "done" ELSE "cut"

-----------------------------------------------------------------------------
(* _candidate_units: a unit longer than a window is cut, at a line end in   *)
(* the last part of what fits if there is one, and without overlap.         *)
After(s, at) == [s EXCEPT !.from = at]
UpTo(s, at) == [s EXCEPT !.to = at]

NextUnit(s) ==
    IF s.unit = Len(grounding) THEN <<>>
    ELSE <<[unit |-> s.unit + 1, from |-> 0, to |-> grounding[s.unit + 1]]>>

CutUnit ==
    /\ stage = "cut" /\ rest # <<>>
    /\ LET s == Head(rest)
       IN  \/ /\ Length(s) <= MaxWindow
              /\ units' = Append(units, s) /\ rest' = NextUnit(s)
           \/ /\ Length(s) > MaxWindow
              /\ \E at \in s.from + (55 * MaxWindow) \div 100..s.from + MaxWindow :
                  /\ at > s.from
                  /\ units' = Append(units, UpTo(s, at))
                  /\ rest' = <<After(s, at)>>
    /\ UNCHANGED <<grounding, windows, packed, callVars, items, criticVars, stage>>

StartPacking ==
    /\ stage = "cut" /\ rest = <<>>
    /\ rest' = units /\ stage' = "pack"
    /\ UNCHANGED <<windowVars, callVars, items, criticVars>>

(* _extract_llm: units are packed in order.                                 *)
PackUnit ==
    /\ stage = "pack" /\ rest # <<>>
    /\ IF packed # <<>> /\ TotalLength(packed) + Length(Head(rest)) > MaxWindow
       THEN windows' = Append(windows, packed) /\ packed' = <<Head(rest)>>
       ELSE windows' = windows /\ packed' = Append(packed, Head(rest))
    /\ rest' = Tail(rest)
    /\ UNCHANGED <<grounding, units, callVars, items, criticVars, stage>>

WithPacked == IF packed = <<>> THEN windows ELSE Append(windows, packed)

StartMap ==
    /\ stage = "pack" /\ rest = <<>>
    /\ windows' = WithPacked /\ packed' = <<>>
    /\ rest' = WithPacked /\ stage' = "map"
    /\ UNCHANGED <<grounding, units, callVars, items, criticVars>>

(* Every window is mapped for one batch of categories after the other.      *)
MapWindow ==
    /\ stage = "map" /\ stack = <<>> /\ rest # <<>>
    /\ stack' = <<[window |-> Head(rest), batch |-> batch]>>
    /\ IF batch = Batches
       THEN batch' = 1 /\ rest' = Tail(rest)
       ELSE batch' = batch + 1 /\ rest' = rest
    /\ UNCHANGED <<windowVars, attempt, mapped, failed, items, criticVars, stage>>

-----------------------------------------------------------------------------
(* execute_json_completion: what a request may answer, and what is tried    *)
(* again.  An answer cut at the output limit is not.                        *)
Errors == {"output_incomplete", "invalid_response", "empty_response",
           "rate_limited", "refused"}
Retryable(e) == e \in {"invalid_response", "empty_response", "rate_limited"}
Halves(e) == e \in {"output_incomplete", "invalid_response", "empty_response"}
GivesUp(e) == ~Retryable(e) \/ attempt >= MaxAttempts

(* _split_window.                                                           *)
SplitWindow(w) ==
    IF Len(w) > 1
    THEN {<<SubSeq(w, 1, Len(w) \div 2), SubSeq(w, Len(w) \div 2 + 1, Len(w))>>}
    ELSE {<<<<UpTo(w[1], at)>>, <<After(w[1], at)>>>> :
             at \in w[1].from + MinSplit..w[1].to - MinSplit}

CallsOn(halves, b) ==
    <<[window |-> halves[1], batch |-> b], [window |-> halves[2], batch |-> b]>>

(* map_leaf: one request for the window and categories on the stack.        *)
LeafSucceeds ==
    /\ stage = "map" /\ stack # <<>>
    /\ \E claim \in BOOLEAN :
         /\ mapped' = Append(mapped, [window |-> Head(stack).window,
                                      batch |-> Head(stack).batch, claim |-> claim])
         /\ items' = IF claim THEN Append(items, Len(mapped) + 1) ELSE items
    /\ stack' = Tail(stack) /\ attempt' = 1
    /\ UNCHANGED <<windowVars, rest, batch, failed, criticVars, stage>>

LeafFails ==
    /\ stage = "map" /\ stack # <<>>
    /\ \E e \in Errors :
        \/ /\ ~GivesUp(e)
           /\ attempt' = attempt + 1 /\ UNCHANGED <<stack, failed>>
        \/ /\ GivesUp(e) /\ attempt' = 1
           /\ LET call == Head(stack)
                  splits == IF Halves(e) THEN SplitWindow(call.window) ELSE {}
              IN  \/ /\ splits = {}
                     /\ failed' = failed + 1 /\ stack' = Tail(stack)
                  \/ \E halves \in splits :
                        /\ failed' = failed
                        /\ stack' = CallsOn(halves, call.batch) \o Tail(stack)
    /\ UNCHANGED <<windowVars, rest, batch, mapped, items, criticVars, stage>>

StartCritic ==
    /\ stage = "map" /\ rest = <<>> /\ stack = <<>>
    /\ stage' = "judge"
    /\ UNCHANGED <<windowVars, rest, callVars, items, criticVars>>

-----------------------------------------------------------------------------
(* _run_entailment_critic, batch by batch.  A reply counts only when it     *)
(* names every item of its batch exactly once.                              *)
JudgedAtOnce == {items[i] : i \in {k \in DOMAIN items : k <= CriticSize}}
Remaining == SubSeq(items, CriticSize + 1, Len(items))

CoversBatch(reply) == reply = JudgedAtOnce

CriticReplies ==
    /\ stage = "judge" /\ items # <<>>
    /\ \E reply \in SUBSET JudgedAtOnce :
        \/ /\ CoversBatch(reply)
           /\ \E supported \in SUBSET reply : accepted' = accepted \cup supported
           /\ judged' = judged \cup reply
           /\ items' = Remaining /\ attempt' = 1
           /\ UNCHANGED criticFailed
        \/ /\ ~CoversBatch(reply)
           /\ attempt < MaxAttempts /\ attempt' = attempt + 1
           /\ UNCHANGED <<items, criticVars>>
    /\ UNCHANGED <<windowVars, rest, batch, stack, mapped, failed, stage>>

CriticFails ==
    /\ stage = "judge" /\ items # <<>>
    /\ criticFailed' = criticFailed + 1
    /\ items' = Remaining /\ attempt' = 1
    /\ UNCHANGED <<windowVars, rest, batch, stack, mapped, failed, judged,
                   accepted, stage>>

FinishMap ==
    /\ stage = "judge" /\ items = <<>>
    /\ stage' = "done"
    /\ UNCHANGED <<windowVars, rest, callVars, items, criticVars>>

(* mapCoverage.complete, by the receipts.                                   *)
Complete ==
    /\ stage = "done"
    /\ Len(mapped) + failed > 0 /\ failed = 0 /\ criticFailed = 0

MapNext ==
    \/ CutUnit \/ StartPacking \/ PackUnit \/ StartMap \/ MapWindow
    \/ LeafSucceeds \/ LeafFails \/ StartCritic
    \/ CriticReplies \/ CriticFails \/ FinishMap

MapSpec == MapInit /\ [][MapNext]_mapVars
-----------------------------------------------------------------------------
(* Properties.                                                              *)

(* "Page completeness is a product invariant": a map that calls itself      *)
(* complete has read every character of the text once for every batch of    *)
(* categories, through cutting, packing and any number of splits.           *)
CompleteMapReadsAll ==
    Complete =>
        \A b \in 1..Batches, c \in Text :
            Cardinality({i \in DOMAIN mapped :
                mapped[i].batch = b /\ c \in CharsOf(mapped[i].window)}) = 1

(* No claim found by a complete map was left unjudged by the critic.        *)
CompleteMapIsJudged ==
    Complete => \A i \in DOMAIN mapped : mapped[i].claim => i \in judged
-----------------------------------------------------------------------------
(* Why: cutting has read the text up to where it is,                        *)
Apart(segments) ==
    \A i, j \in DOMAIN segments :
        i # j => Chars(segments[i]) \cap Chars(segments[j]) = {}
Before(s) == {c \in Text : c[1] < s.unit \/ (c[1] = s.unit /\ c[2] <= s.from)}
CutInv ==
    stage = "cut" =>
        /\ Apart(units)
        /\ rest = <<>> => CharsOf(units) = Text
        /\ rest # <<>> =>
             /\ Len(rest) = 1 /\ rest[1].unit \in DOMAIN grounding
             /\ rest[1].from < rest[1].to /\ rest[1].to = grounding[rest[1].unit]
             /\ CharsOf(units) = Before(rest[1])

(* packing leaves each unit in one place,                                   *)
CharsOfAll(list) == UNION {CharsOf(list[i]) : i \in DOMAIN list}
Separate(list) ==
    \A i, j \in DOMAIN list : i # j => CharsOf(list[i]) \cap CharsOf(list[j]) = {}
PackInv ==
    stage = "pack" =>
        /\ Apart(rest) /\ Apart(packed) /\ Separate(windows)
        /\ \A i \in DOMAIN windows : Apart(windows[i])
        /\ CharsOf(packed) \cap CharsOf(rest) = {}
        /\ CharsOfAll(windows) \cap (CharsOf(packed) \cup CharsOf(rest)) = {}
        /\ Text = CharsOfAll(windows) \cup CharsOf(packed) \cup CharsOf(rest)

(* and while no leaf has failed every character is, for every batch, in one *)
(* window still to map, in one call still to make, or in one leaf,          *)
ToRead(b, c) ==
    {i \in DOMAIN rest : (i > 1 \/ b >= batch) /\ c \in CharsOf(rest[i])}
Reading(calls, b, c) ==
    {i \in DOMAIN calls : calls[i].batch = b /\ c \in CharsOf(calls[i].window)}
Once(S) == \E x \in S : S = {x}
InOnePlace(b, c) ==
    \/ Once(ToRead(b, c)) /\ Reading(stack, b, c) = {} /\ Reading(mapped, b, c) = {}
    \/ ToRead(b, c) = {} /\ Once(Reading(stack, b, c)) /\ Reading(mapped, b, c) = {}
    \/ ToRead(b, c) = {} /\ Reading(stack, b, c) = {} /\ Once(Reading(mapped, b, c))
ReadInv ==
    stage \notin {"cut", "pack"} =>
        /\ \A i \in DOMAIN rest : Apart(rest[i])
        /\ \A i \in DOMAIN stack : Apart(stack[i].window)
        /\ failed = 0 => \A b \in 1..Batches, c \in Text : InOnePlace(b, c)

(* and every claim is judged or still to be.                                *)
ClaimsInv ==
    /\ criticFailed = 0 =>
         \A i \in DOMAIN mapped : mapped[i].claim =>
             i \in judged \/ \E k \in DOMAIN items : items[k] = i
    /\ stage = "done" => items = <<>>

MapInv ==
    /\ MapTypeOK /\ CutInv /\ PackInv /\ ReadInv /\ ClaimsInv
    /\ stage \in {"cut", "pack"} => batch = 1 /\ stack = <<>> /\ mapped = <<>>
    /\ stage = "cut" => windows = <<>> /\ packed = <<>>
=============================================================================
