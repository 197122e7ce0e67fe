---------------------------- MODULE CaptureNode ----------------------------
(***************************************************************************)
(* The institutional capture node (src/icn): one process with one          *)
(* persistent browser profile.  Requests take turns through the promise    *)
(* chain of runExclusive; a turn obtains the shared browser context, which *)
(* may close and relaunch it in another mode, or works on a page of it.    *)
(* Captures and inspections take two turns, so that others come between;   *)
(* a login leaves its page open for the user, who may close the window.    *)
(***************************************************************************)
EXTENDS Naturals, Sequences

CONSTANTS
    Callers,   \* HTTP requests to the node
    Kinds,     \* what they ask for
    MaxPages,  \* bound of the model: pages a search opens, its article first
    MaxStrays  \* bound of the model: forgotten browsers at a time

AllKinds == {"status", "login", "inspect", "search", "pdf", "text"}

ASSUME NodeAssumption ==
    Kinds \subseteq AllKinds /\ MaxPages \in Nat /\ MaxStrays \in Nat

VARIABLES
    headlessDefault, \* ICN_HEADLESS
    context,    \* mode of state.context: "none", "headed" or "headless"
    alive,      \* does the browser of state.context run?
    browsers,   \* browser processes on the profile
    strays,     \* those of them that a close which failed has left behind
    login,      \* is a login page open?
    pages,      \* requests with an open working page
    chain,      \* state.chain: turns to take, the first one running
    pc, kind,   \* of every request
    held,       \* the context a request got: "none", "current" or "closed"
    opened,     \* working pages a request has opened
    stop        \* shutdown: "no", "closing", "exiting" or "exited"

browserVars == <<context, alive, browsers, strays, login, pages>>
vars == <<headlessDefault, browserVars, chain, pc, kind, held, opened, stop>>

NodePc == {"idle", "context", "closing", "launching", "look", "again", "page",
           "loginPage", "navigate", "cleanUp", "finish", "done"}

TypeOK ==
    /\ headlessDefault \in BOOLEAN
    /\ context \in {"none", "headed", "headless"}
    /\ alive \in BOOLEAN /\ login \in BOOLEAN
    /\ browsers \in Nat /\ strays \in 0..MaxStrays
    /\ pages \in SUBSET Callers
    /\ chain \in Seq(Callers)
    /\ pc \in [Callers -> NodePc]
    /\ kind \in [Callers -> AllKinds]
    /\ held \in [Callers -> {"none", "current", "closed"}]
    /\ opened \in [Callers -> 0..MaxPages]
    /\ stop \in {"no", "closing", "exiting", "exited"}

Init ==
    /\ headlessDefault \in BOOLEAN
    /\ context = "none" /\ alive = FALSE /\ browsers = 0 /\ strays = 0
    /\ login = FALSE /\ pages = {} /\ chain = <<>>
    /\ pc = [r \in Callers |-> "idle"]
    /\ kind = [r \in Callers |-> "status"]
    /\ held = [r \in Callers |-> "none"]
    /\ opened = [r \in Callers |-> 0]
    /\ stop = "no"

Running == stop # "exited"
Goto(r, label) == pc' = [pc EXCEPT ![r] = label]

-----------------------------------------------------------------------------
(* runExclusive: turns are taken in the order they were asked for, and the  *)
(* next one begins when a turn ends, also with an error.                    *)
AnyTurn(r) == \E i \in DOMAIN chain : chain[i] = r                 \* mutant
MyTurn(r) == chain # <<>> /\ Head(chain) = r

EndTurn(r, label) == chain' = Tail(chain) /\ Goto(r, label)

KeepsTurn(r) == chain' = chain /\ Goto(r, "done")                  \* mutant
Fail(r) == EndTurn(r, "done")

Arrive(r) ==
    /\ pc[r] = "idle" /\ stop = "no"
    /\ \E k \in Kinds : kind' = [kind EXCEPT ![r] = k]
    /\ chain' = Append(chain, r) /\ Goto(r, "context")
    /\ UNCHANGED <<headlessDefault, browserVars, held, opened, stop>>

(* The second turn of a request.                                            *)
AskAgain(r) ==
    /\ pc[r] = "again"
    /\ chain' = Append(chain, r) /\ Goto(r, "page")
    /\ UNCHANGED <<headlessDefault, browserVars, kind, held, opened, stop>>

-----------------------------------------------------------------------------
(* getContext and closeContext.                                             *)
Desired(r) == IF headlessDefault /\ kind[r] # "login" THEN "headless"
                                                      ELSE "headed"

NeverMatches(r) == FALSE                                           \* mutant
Matches(r) == context = Desired(r)

(* Whoever holds the context that is closed or replaced holds it in vain.   *)
Orphaned == [r \in Callers |-> IF held[r] = "current" THEN "closed"
                                                      ELSE held[r]]

Obtain(r) ==
    IF kind[r] = "login" THEN Goto(r, "loginPage") /\ chain' = chain
    ELSE EndTurn(r, IF kind[r] = "status" THEN "look" ELSE "again")

(* A context whose window was closed still matches: nothing resets it.      *)
GetContext(r) ==
    /\ pc[r] = "context" /\ MyTurn(r)
    /\ IF Matches(r)
       THEN held' = [held EXCEPT ![r] = "current"] /\ Obtain(r)
       ELSE held' = held /\ Goto(r, "closing") /\ chain' = chain
    /\ UNCHANGED <<headlessDefault, browserVars, kind, opened, stop>>

Gone == alive' = FALSE /\ login' = FALSE /\ pages' = {}

BrowserCloses ==
    /\ browsers' = IF alive THEN browsers - 1 ELSE browsers
    /\ Gone /\ strays' = strays

(* catch, finally: close fails with the browser still running, and the      *)
(* context is forgotten all the same.                                       *)
BrowserStays ==
    /\ alive /\ strays < MaxStrays
    /\ strays' = strays + 1 /\ browsers' = browsers
    /\ Gone

Closes ==
    IF context = "none" THEN UNCHANGED <<browserVars, held>>
    ELSE /\ BrowserCloses \/ BrowserStays
         /\ context' = "none" /\ held' = Orphaned

CloseContext(r) ==
    /\ pc[r] = "closing"
    /\ Closes
    /\ Goto(r, "launching")
    /\ UNCHANGED <<headlessDefault, chain, kind, opened, stop>>

Launch(r) ==
    /\ pc[r] = "launching"
    /\ \/ /\ browsers < 2 + MaxStrays
          /\ browsers' = browsers + 1 /\ strays' = strays
          /\ context' = Desired(r) /\ alive' = TRUE
          /\ login' = FALSE /\ pages' = {}
          /\ held' = [Orphaned EXCEPT ![r] = "current"]
          /\ Obtain(r)
       \/ Fail(r) /\ UNCHANGED <<browserVars, held>>
    /\ UNCHANGED <<headlessDefault, kind, opened, stop>>

(* A forgotten browser ends after all, or its window is closed.             *)
StrayDies ==
    /\ strays > 0
    /\ strays' = strays - 1 /\ browsers' = browsers - 1
    /\ UNCHANGED <<headlessDefault, context, alive, login, pages, chain, pc,
                   kind, held, opened, stop>>

-----------------------------------------------------------------------------
(* The handlers.                                                            *)
Usable(r) == held[r] = "current" /\ alive

(* GET /session/status: pages and cookies are read outside the chain.       *)
Look(r) ==
    /\ pc[r] = "look"
    /\ Goto(r, "done")
    /\ UNCHANGED <<headlessDefault, browserVars, chain, kind, held, opened,
                   stop>>

(* POST /session/open-login, still in its first turn: the page stays open,  *)
(* also when it could not be loaded.                                        *)
OpenLoginPage(r) ==
    /\ pc[r] = "loginPage"
    /\ login' = (login \/ Usable(r))
    /\ EndTurn(r, "done")
    /\ UNCHANGED <<headlessDefault, context, alive, browsers, strays, pages,
                   kind, held, opened, stop>>

(* newPage, for the request's url, a PDF embedded in it, or a provider.     *)
OpenPage(r) ==
    /\ pc[r] = "page" /\ MyTurn(r)
    /\ IF Usable(r)
       THEN /\ pages' = pages \cup {r}
            /\ opened' = [opened EXCEPT ![r] =
                              IF @ < MaxPages THEN @ + 1 ELSE @]
            /\ Goto(r, "navigate") /\ chain' = chain
       ELSE Fail(r) /\ UNCHANGED <<pages, opened>>
    /\ UNCHANGED <<headlessDefault, context, alive, browsers, strays, login,
                   kind, held, stop>>

ClosePage(r) == pages' = pages \ {r}

(* The page was read; or it leads to another one, which is opened after it  *)
(* is closed: a search to the next provider, a PDF to the document embedded *)
(* in it, and so on: nothing bounds how deep documents are embedded.        *)
Leads(r) == kind[r] = "pdf" \/ (kind[r] = "search" /\ opened[r] < MaxPages)

Navigate(r) ==
    /\ pc[r] = "navigate"
    /\ \/ r \in pages /\ Goto(r, "finish") /\ pages' = pages
       \/ r \in pages /\ Leads(r) /\ Goto(r, "page") /\ ClosePage(r)
       \/ Goto(r, "cleanUp") /\ pages' = pages
    /\ UNCHANGED <<headlessDefault, context, alive, browsers, strays, login,
                   chain, kind, held, opened, stop>>

(* catch: close the page, answer with an error.                             *)
CleanUp(r) ==
    /\ pc[r] = "cleanUp"
    /\ ClosePage(r)
    /\ Fail(r)
    /\ UNCHANGED <<headlessDefault, context, alive, browsers, strays, login,
                   kind, held, opened, stop>>

Finish(r) ==
    /\ pc[r] = "finish"
    /\ pages' = pages \ {r}
    /\ EndTurn(r, "done")
    /\ UNCHANGED <<headlessDefault, context, alive, browsers, strays, login,
                   kind, held, opened, stop>>

-----------------------------------------------------------------------------
(* The user closes the window, or the browser dies: state.context stays.    *)
BrowserDies ==
    /\ alive /\ Running
    /\ BrowserCloses
    /\ UNCHANGED <<headlessDefault, context, chain, pc, kind, held, opened,
                   stop>>

(* SIGINT, SIGTERM: the context is closed outside the chain, then the       *)
(* process ends, and with it a browser that was just being launched.        *)
Signal ==
    /\ stop = "no" /\ stop' = "closing"
    /\ UNCHANGED <<headlessDefault, browserVars, chain, pc, kind, held, opened>>

ShutDown ==
    /\ \/ /\ stop = "closing" /\ stop' = "exiting"
          /\ Closes
       \/ /\ stop = "exiting" /\ stop' = "exited"
          /\ context' = "none" /\ browsers' = 0 /\ strays' = 0
          /\ Gone /\ held' = held
    /\ UNCHANGED <<headlessDefault, chain, pc, kind, opened>>

TurnStep(r) ==
    /\ Running
    /\ \/ AskAgain(r) \/ GetContext(r) \/ CloseContext(r) \/ Launch(r)
       \/ Look(r) \/ OpenLoginPage(r) \/ OpenPage(r) \/ Navigate(r)
       \/ CleanUp(r) \/ Finish(r)

Next ==
    \/ \E r \in Callers : Arrive(r) \/ TurnStep(r)
    \/ BrowserDies \/ StrayDies \/ Signal \/ ShutDown

Spec == Init /\ [][Next]_vars

(* A navigation and a launch have a timeout, ICN_NAV_TIMEOUT_MS and that of *)
(* Playwright; evaluate, content, pdf, body, newPage and the closing calls  *)
(* have none.  They are sure to end only when the browser they are made to  *)
(* is gone, which makes them throw.                                         *)
Untimed == {"closing", "look", "loginPage", "page", "navigate", "cleanUp",
            "finish"}

MayHang(r) ==
    /\ pc[r] \in Untimed
    /\ IF pc[r] = "closing" THEN alive ELSE Usable(r)
    /\ pc[r] = "page" => MyTurn(r)

Fairness == \A r \in Callers : WF_vars(~MayHang(r) /\ TurnStep(r))

FairSpec == Spec /\ Fairness
-----------------------------------------------------------------------------
(* Properties.                                                              *)

(* Two browsers never share the profile, although any request may decide to *)
(* relaunch and the shutdown closes the context outside the chain, unless a *)
(* close failed and left one running, of which the code then knows nothing. *)
OneBrowser == browsers <= 1 + strays

(* Working pages do not pile up: the only one belongs to the request whose  *)
(* turn it is, whatever failed before or was embedded in what.              *)
PagesBelongToTurn == \A r \in pages : MyTurn(r)

TurnsAreExclusive == OneBrowser /\ PagesBelongToTurn

(* "Complete the IIT/library sign-in in that browser window": as long as    *)
(* the node runs headed, only the user and the shutdown close the window of *)
(* a login; no status poll or capture does.                                 *)
LoginSurvives ==
    [][login /\ ~headlessDefault =>
         \/ login'
         \/ context' # "none" /\ ~alive'
         \/ stop # "no"]_vars

(* Why: a request is in the chain once, from when it asks for a turn to the *)
(* end of it, and first while it works;                                     *)
Waits == {"context", "page"}
Works == {"closing", "launching", "loginPage", "navigate", "cleanUp", "finish"}
InChain(r) == \E i \in DOMAIN chain : chain[i] = r

TurnInv ==
    /\ \A i, j \in DOMAIN chain : chain[i] = chain[j] => i = j
    /\ \A r \in Callers : pc[r] \in Waits \cup Works => InChain(r)
    /\ \A r \in Callers : InChain(r) => pc[r] \in Waits \cup Works
    /\ \A r \in Callers : pc[r] \in Works => MyTurn(r)

(* a browser runs for state.context alone, and only one in the wrong        *)
(* mode is closed, which a headed node never has.                           *)
BrowserInv ==
    /\ browsers = strays + (IF alive THEN 1 ELSE 0)
    /\ context = "none" => ~alive
    /\ login => alive
    /\ ~headlessDefault => context # "headless"
    /\ \A r \in Callers : pc[r] = "closing" => ~Matches(r)
    /\ \A r \in Callers : pc[r] = "launching" => context = "none"
    /\ \A r \in pages : pc[r] \in {"navigate", "cleanUp", "finish"}

NodeInv == TypeOK /\ TurnInv /\ BrowserInv

(* Every request is answered, whoever fails before it in the chain, whether *)
(* the browser dies or is relaunched, but for two reasons, against which    *)
(* the code has nothing: a turn that waits for ever in a call without a     *)
(* timeout, and documents embedded in each other without an end.            *)
Embeds(r) == Navigate(r) /\ pc'[r] = "page"

Answered ==
    \A r \in Callers :
        (pc[r] # "idle") ~> (pc[r] = "done" \/ ~Running)

RequestsAnswered ==
    \/ \E r \in Callers : <>[]MayHang(r) \/ []<><<Embeds(r)>>_vars
    \/ Answered
=============================================================================
