---------------------------- MODULE ServiceProofs ----------------------------
(* Proofs about CaptureNode, for any number of requests of any kinds, and    *)
(* about TaggerJob.                                                          *)
EXTENDS CaptureNode, TaggerJob, SequenceTheorems, TLAPS

-----------------------------------------------------------------------------
(* The chain as a value: who waits in it, and that nobody does twice.        *)
Among(s, x) == \E i \in DOMAIN s : s[i] = x
Once(s) == \A i, j \in DOMAIN s : s[i] = s[j] => i = j
First(s, x) == s # <<>> /\ Head(s) = x

(* A request that joins the chain is its last; who was first still is.       *)
LEMMA Joins ==
    ASSUME NEW S, NEW s \in Seq(S), NEW x \in S, Once(s), ~Among(s, x)
    PROVE  /\ Append(s, x) \in Seq(S) /\ Once(Append(s, x))
           /\ \A y : Among(Append(s, x), y) <=> Among(s, y) \/ y = x
           /\ \A y : First(s, y) => First(Append(s, x), y)
<1> DEFINE a == Append(s, x)
<1>1. /\ a \in Seq(S) /\ Len(a) = Len(s) + 1 /\ a # <<>>
      /\ \A i \in 1..Len(s) : a[i] = s[i]
      /\ a[Len(s) + 1] = x
  BY AppendProperties
<1>2. /\ DOMAIN s = 1..Len(s) /\ DOMAIN a = 1..Len(a) /\ Len(s) \in Nat
  BY <1>1, LenProperties
<1>3. /\ \A i \in DOMAIN a : \/ i \in DOMAIN s /\ a[i] = s[i]
                             \/ i = Len(s) + 1 /\ a[i] = x
      /\ \A i \in DOMAIN s : i \in DOMAIN a /\ a[i] = s[i]
      /\ Len(s) + 1 \in DOMAIN a
  BY <1>1, <1>2
<1>4. Once(a)
  <2> SUFFICES ASSUME NEW i \in DOMAIN a, NEW j \in DOMAIN a, a[i] = a[j]
               PROVE  i = j
    BY DEF Once
  <2>1. \A k \in DOMAIN s : s[k] # x
    BY DEF Among
  <2> QED
    BY <1>3, <2>1 DEF Once
<1>5. \A y : Among(a, y) <=> Among(s, y) \/ y = x
  BY <1>1, <1>3 DEF Among
<1>6. \A y : First(s, y) => First(a, y)
  BY <1>1, HeadTailAppend DEF First
<1> QED
  BY <1>1, <1>4, <1>5, <1>6

(* When the first leaves, only it does.                                      *)
LEMMA Leaves ==
    ASSUME NEW S, NEW s \in Seq(S), NEW x, First(s, x), Once(s)
    PROVE  /\ Tail(s) \in Seq(S) /\ Once(Tail(s))
           /\ \A y : Among(Tail(s), y) <=> Among(s, y) /\ y # x
<1> DEFINE t == Tail(s)
<1>1. /\ t \in Seq(S) /\ Len(t) = Len(s) - 1 /\ Head(s) = s[1]
      /\ \A i \in 1..Len(t) : t[i] = s[i + 1]
  BY HeadTailProperties DEF First
<1>2. /\ DOMAIN s = 1..Len(s) /\ DOMAIN t = 1..Len(t)
      /\ Len(s) \in Nat /\ Len(t) \in Nat /\ Len(s) # 0
  BY <1>1, LenProperties, EmptySeq DEF First
<1>3. \A i \in DOMAIN t : i + 1 \in DOMAIN s /\ t[i] = s[i + 1] /\ i \in Nat
  BY <1>1, <1>2
<1>4. \A i \in DOMAIN s : i = 1 \/ (i - 1 \in DOMAIN t /\ t[i - 1] = s[i])
  BY <1>1, <1>2
<1>5. 1 \in DOMAIN s /\ s[1] = x
  BY <1>1, <1>2 DEF First
<1>6. Once(t)
  BY <1>3 DEF Once
<1>7. \A y : Among(t, y) => Among(s, y) /\ y # x
  BY <1>2, <1>3, <1>5 DEF Among, Once
<1>8. \A y : Among(s, y) /\ y # x => Among(t, y)
  BY <1>4, <1>5 DEF Among
<1> QED
  BY <1>1, <1>6, <1>7, <1>8

-----------------------------------------------------------------------------
(* Taking turns, for a chain and the steps the requests are at.              *)
Turns(s, p) ==
    /\ Once(s)
    /\ \A r \in Callers : Among(s, r) <=> p[r] \in Waits \cup Works
    /\ \A r \in Callers : p[r] \in Works => First(s, r)

LEMMA TurnInvMeans == TurnInv <=> Turns(chain, pc)
BY DEF TurnInv, Turns, Once, Among, First, InChain, MyTurn

LEMMA TurnInvMeansNext == TurnInv' <=> Turns(chain', pc')
BY DEF TurnInv, Turns, Once, Among, First, InChain, MyTurn

(* A request asks for a turn; works on in its turn; or ends it.              *)
LEMMA AsksForTurn ==
    ASSUME TypeOK, TurnInv, NEW r \in Callers, NEW w \in Waits,
           pc[r] \notin Waits \cup Works, chain' = Append(chain, r), Goto(r, w)
    PROVE  TurnInv' /\ chain' \in Seq(Callers)
<1>1. Turns(chain, pc) /\ chain \in Seq(Callers) /\ pc \in [Callers -> NodePc]
  BY TurnInvMeans DEF TypeOK
<1>2. Once(chain) /\ ~Among(chain, r)
  BY <1>1 DEF Turns
<1>3. /\ chain' \in Seq(Callers) /\ Once(chain')
      /\ \A y : Among(chain', y) <=> Among(chain, y) \/ y = r
      /\ \A y : First(chain, y) => First(chain', y)
  BY <1>1, <1>2, Joins
<1>4. Turns(chain', pc')
  BY <1>1, <1>3 DEF Turns, Goto, Waits, Works
<1> QED
  BY <1>3, <1>4, TurnInvMeansNext

LEMMA WorksOn ==
    ASSUME TypeOK, TurnInv, NEW r \in Callers, NEW w \in Waits \cup Works,
           pc[r] \in Waits \cup Works, MyTurn(r), chain' = chain, Goto(r, w)
    PROVE  TurnInv' /\ chain' \in Seq(Callers)
<1>1. Turns(chain, pc) /\ chain \in Seq(Callers) /\ pc \in [Callers -> NodePc]
  BY TurnInvMeans DEF TypeOK
<1>2. Turns(chain', pc')
  BY <1>1 DEF Turns, Goto, First, MyTurn
<1> QED
  BY <1>1, <1>2, TurnInvMeansNext

LEMMA EndsTurn ==
    ASSUME TypeOK, TurnInv, NEW r \in Callers, NEW w,
           w \notin Waits \cup Works, MyTurn(r), EndTurn(r, w)
    PROVE  TurnInv' /\ chain' \in Seq(Callers)
<1>1. Turns(chain, pc) /\ chain \in Seq(Callers) /\ pc \in [Callers -> NodePc]
  BY TurnInvMeans DEF TypeOK
<1>2. /\ chain' = Tail(chain) /\ pc' = [pc EXCEPT ![r] = w]
      /\ Once(chain) /\ First(chain, r)
  BY <1>1 DEF EndTurn, Goto, MyTurn, Turns, First
<1>3. /\ chain' \in Seq(Callers) /\ Once(chain')
      /\ \A y : Among(chain', y) <=> Among(chain, y) /\ y # r
  BY <1>1, <1>2, Leaves
<1>4. \A u \in Callers : pc[u] \in Works => u = r
  BY <1>1, <1>2 DEF Turns, First
<1>5. Turns(chain', pc')
  BY <1>1, <1>2, <1>3, <1>4 DEF Turns
<1> QED
  BY <1>3, <1>5, TurnInvMeansNext

LEMMA StaysOutside ==
    ASSUME TypeOK, TurnInv, NEW r \in Callers, NEW w,
           w \notin Waits \cup Works, pc[r] \notin Waits \cup Works,
           chain' = chain, Goto(r, w)
    PROVE  TurnInv' /\ chain' \in Seq(Callers)
<1>1. Turns(chain, pc) /\ chain \in Seq(Callers) /\ pc \in [Callers -> NodePc]
  BY TurnInvMeans DEF TypeOK
<1>2. Turns(chain', pc')
  BY <1>1 DEF Turns, Goto
<1> QED
  BY <1>1, <1>2, TurnInvMeansNext

-----------------------------------------------------------------------------
LEMMA NextTurns ==
    ASSUME TypeOK, TurnInv, [Next]_vars
    PROVE  TurnInv' /\ chain' \in Seq(Callers)
<1> USE DEF Waits, Works
<1>0. \A r \in Callers : pc[r] \in Works => MyTurn(r)
  BY DEF TurnInv
<1>1. ASSUME NEW r \in Callers, Arrive(r) \/ AskAgain(r)
      PROVE  TurnInv' /\ chain' \in Seq(Callers)
  <2>1. CASE Arrive(r)
    BY <2>1, AsksForTurn DEF Arrive
  <2>2. CASE AskAgain(r)
    BY <2>2, AsksForTurn DEF AskAgain
  <2> QED
    BY <1>1, <2>1, <2>2
<1>2. ASSUME NEW r \in Callers, MyTurn(r), pc[r] \in Waits \cup Works, Obtain(r)
      PROVE  TurnInv' /\ chain' \in Seq(Callers)
  <2>1. CASE kind[r] = "login"
    BY <1>2, <2>1, WorksOn DEF Obtain
  <2>2. CASE kind[r] # "login"
    BY <1>2, <2>2, EndsTurn DEF Obtain
  <2> QED
    BY <2>1, <2>2
<1>3. ASSUME NEW r \in Callers, GetContext(r)
      PROVE  TurnInv' /\ chain' \in Seq(Callers)
  <2>1. CASE Matches(r)
    BY <1>2, <1>3, <2>1 DEF GetContext
  <2>2. CASE ~Matches(r)
    BY <1>3, <2>2, WorksOn DEF GetContext
  <2> QED
    BY <2>1, <2>2
<1>4. ASSUME NEW r \in Callers, CloseContext(r)
      PROVE  TurnInv' /\ chain' \in Seq(Callers)
  <2>1. MyTurn(r) /\ pc[r] \in Works
    BY <1>0, <1>4 DEF CloseContext
  <2> QED
    BY <1>4, <2>1, WorksOn DEF CloseContext
<1>5. ASSUME NEW r \in Callers, Launch(r)
      PROVE  TurnInv' /\ chain' \in Seq(Callers)
  <2>1. MyTurn(r) /\ pc[r] \in Works
    BY <1>0, <1>5 DEF Launch
  <2>2. CASE Obtain(r)
    BY <1>2, <2>1, <2>2
  <2>3. CASE Fail(r)
    BY <2>1, <2>3, EndsTurn DEF Fail
  <2> QED
    BY <1>5, <2>2, <2>3 DEF Launch
<1>6. ASSUME NEW r \in Callers, Look(r)
      PROVE  TurnInv' /\ chain' \in Seq(Callers)
  BY <1>6, StaysOutside DEF Look
<1>7. ASSUME NEW r \in Callers, OpenLoginPage(r) \/ CleanUp(r) \/ Finish(r)
      PROVE  TurnInv' /\ chain' \in Seq(Callers)
  <2>1. MyTurn(r) /\ EndTurn(r, "done")
    BY <1>0, <1>7 DEF OpenLoginPage, CleanUp, Finish, Fail
  <2> QED
    BY <2>1, EndsTurn
<1>8. ASSUME NEW r \in Callers, OpenPage(r)
      PROVE  TurnInv' /\ chain' \in Seq(Callers)
  <2>1. CASE Usable(r)
    BY <1>8, <2>1, WorksOn DEF OpenPage
  <2>2. CASE ~Usable(r)
    BY <1>8, <2>2, EndsTurn DEF OpenPage, Fail
  <2> QED
    BY <2>1, <2>2
<1>9. ASSUME NEW r \in Callers, Navigate(r)
      PROVE  TurnInv' /\ chain' \in Seq(Callers)
  <2>1. MyTurn(r) /\ pc[r] \in Works /\ chain' = chain
    BY <1>0, <1>9 DEF Navigate
  <2>2. \E w \in {"finish", "page", "cleanUp"} : Goto(r, w)
    BY <1>9 DEF Navigate
  <2> QED
    BY <2>1, <2>2, WorksOn
<1>10. CASE BrowserDies \/ StrayDies \/ Signal \/ ShutDown \/ UNCHANGED vars
  <2>1. chain' = chain /\ pc' = pc
    BY <1>10 DEF BrowserDies, StrayDies, Signal, ShutDown, vars
  <2> QED
    BY <2>1, TurnInvMeans, TurnInvMeansNext DEF TypeOK
<1> QED
  BY <1>1, <1>3, <1>4, <1>5, <1>6, <1>7, <1>8, <1>9, <1>10 DEF Next, TurnStep

-----------------------------------------------------------------------------
(* The types.                                                                *)
LEMMA OrphanedTyped ==
    ASSUME TypeOK PROVE Orphaned \in [Callers -> {"none", "current", "closed"}]
BY DEF TypeOK, Orphaned

LEMMA PlusNothing == \A n \in Nat : n + 0 = n
OBVIOUS

(* What a close that succeeds or fails leaves.                               *)
LEMMA Closing ==
    ASSUME NodeAssumption, TypeOK, BrowserInv, Closes
    PROVE  /\ context' = "none" /\ alive' = FALSE /\ login' = FALSE
           /\ pages' \subseteq pages
           /\ strays' \in 0..MaxStrays /\ strays' \in Nat
           /\ browsers' = strays' /\ browsers' \in Nat
           /\ held' \in [Callers -> {"none", "current", "closed"}]
<1>1. /\ browsers \in Nat /\ strays \in 0..MaxStrays /\ strays \in Nat
      /\ alive \in BOOLEAN
      /\ browsers = strays + (IF alive THEN 1 ELSE 0)
  BY DEF NodeAssumption, TypeOK, BrowserInv
<1>2. held \in [Callers -> {"none", "current", "closed"}]
      /\ Orphaned \in [Callers -> {"none", "current", "closed"}]
  BY OrphanedTyped DEF TypeOK
<1>3. CASE context = "none"
  <2>1. alive = FALSE /\ login = FALSE
    BY <1>1, <1>3, Zenon DEF BrowserInv, TypeOK
  <2>2. UNCHANGED browserVars /\ held' = held
    BY <1>3 DEF Closes
  <2> QED
    BY <1>1, <1>2, <1>3, <2>1, <2>2 DEF browserVars
<1>4. CASE context # "none" /\ BrowserCloses
  <2>1. strays' = strays /\ browsers' = strays
    BY <1>1, <1>4 DEF BrowserCloses
  <2>2. context' = "none" /\ held' = Orphaned
    BY <1>4 DEF Closes
  <2> QED
    BY <1>1, <1>2, <1>4, <2>1, <2>2 DEF BrowserCloses, Gone
<1>5. CASE context # "none" /\ BrowserStays
  <2>1. strays' = strays + 1 /\ browsers' = strays + 1 /\ strays < MaxStrays
    BY <1>1, <1>5 DEF BrowserStays
  <2>2. context' = "none" /\ held' = Orphaned
    BY <1>5 DEF Closes
  <2> QED
    BY <1>1, <1>2, <1>5, <2>1, <2>2 DEF BrowserStays, Gone, NodeAssumption
<1> QED
  BY <1>3, <1>4, <1>5 DEF Closes

LEMMA NextTyped ==
    ASSUME NodeAssumption, NodeInv, [Next]_vars PROVE TypeOK'
<1> USE NodeAssumption DEF NodeAssumption, NodeInv, browserVars
<1>0. TypeOK /\ BrowserInv /\ chain' \in Seq(Callers)
  BY NextTurns
<1>1. ASSUME NEW r \in Callers, NEW w, w \in NodePc, Goto(r, w)
      PROVE  pc' \in [Callers -> NodePc]
  BY <1>0, <1>1 DEF Goto, TypeOK
<1>2. ASSUME NEW r \in Callers, Obtain(r) PROVE pc' \in [Callers -> NodePc]
  BY <1>1, <1>2 DEF Obtain, EndTurn, NodePc
<1>3. ASSUME NEW r \in Callers, Fail(r) PROVE pc' \in [Callers -> NodePc]
  BY <1>1, <1>3 DEF Fail, EndTurn, NodePc
<1>4. browsers \in Nat /\ strays \in 0..MaxStrays /\ strays \in Nat
      /\ browsers = strays + (IF alive THEN 1 ELSE 0)
  BY <1>0 DEF TypeOK, BrowserInv
<1>5. ASSUME NEW r \in Callers, Arrive(r) PROVE TypeOK'
  <2>1. pc' \in [Callers -> NodePc]
    BY <1>1, <1>5 DEF Arrive, NodePc
  <2> QED
    BY <1>0, <1>5, <2>1 DEF Arrive, TypeOK
<1>6. ASSUME NEW r \in Callers, AskAgain(r) PROVE TypeOK'
  <2>1. pc' \in [Callers -> NodePc]
    BY <1>1, <1>6 DEF AskAgain, NodePc
  <2> QED
    BY <1>0, <1>6, <2>1 DEF AskAgain, TypeOK
<1>7. ASSUME NEW r \in Callers, GetContext(r) PROVE TypeOK'
  <2>1. pc' \in [Callers -> NodePc]
    BY <1>1, <1>2, <1>7 DEF GetContext, NodePc
  <2>2. held' \in [Callers -> {"none", "current", "closed"}]
    BY <1>0, <1>7 DEF GetContext, TypeOK
  <2> QED
    BY <1>0, <1>7, <2>1, <2>2 DEF GetContext, TypeOK
<1>8. ASSUME NEW r \in Callers, CloseContext(r) PROVE TypeOK'
  <2>1. pc' \in [Callers -> NodePc]
    BY <1>1, <1>8 DEF CloseContext, NodePc
  <2>2. /\ context' = "none" /\ alive' = FALSE /\ login' = FALSE
        /\ pages' \subseteq pages /\ strays' \in 0..MaxStrays
        /\ browsers' \in Nat
        /\ held' \in [Callers -> {"none", "current", "closed"}]
    BY <1>0, <1>8, Closing DEF CloseContext
  <2> QED
    BY <1>0, <1>8, <2>1, <2>2 DEF CloseContext, TypeOK
<1>9. ASSUME NEW r \in Callers, Launch(r) PROVE TypeOK'
  <2>1. pc' \in [Callers -> NodePc]
    BY <1>2, <1>3, <1>9 DEF Launch
  <2>2. Desired(r) \in {"none", "headed", "headless"}
    BY DEF Desired
  <2>3. held' \in [Callers -> {"none", "current", "closed"}]
    BY <1>0, <1>9, OrphanedTyped DEF Launch, TypeOK
  <2>4. browsers' \in Nat /\ strays' \in 0..MaxStrays
    BY <1>4, <1>9 DEF Launch
  <2>5. /\ alive' \in BOOLEAN /\ login' \in BOOLEAN
        /\ context' \in {"none", "headed", "headless"}
        /\ pages' \in SUBSET Callers
    BY <1>0, <1>9, <2>2 DEF Launch, TypeOK
  <2>6. UNCHANGED <<headlessDefault, kind, opened, stop>>
    BY <1>9 DEF Launch
  <2> QED
    BY <1>0, <2>1, <2>3, <2>4, <2>5, <2>6 DEF TypeOK
<1>10. ASSUME NEW r \in Callers, Look(r) PROVE TypeOK'
  <2>1. pc' \in [Callers -> NodePc]
    BY <1>1, <1>10 DEF Look, NodePc
  <2> QED
    BY <1>0, <1>10, <2>1 DEF Look, TypeOK
<1>11. ASSUME NEW r \in Callers, OpenLoginPage(r) PROVE TypeOK'
  <2>1. pc' \in [Callers -> NodePc]
    BY <1>1, <1>11 DEF OpenLoginPage, EndTurn, NodePc
  <2>2. login' \in BOOLEAN
    BY <1>11 DEF OpenLoginPage
  <2> QED
    BY <1>0, <1>11, <2>1, <2>2 DEF OpenLoginPage, TypeOK
<1>12. ASSUME NEW r \in Callers, OpenPage(r) PROVE TypeOK'
  <2>1. pc' \in [Callers -> NodePc]
    BY <1>1, <1>3, <1>12 DEF OpenPage, NodePc
  <2>2. opened' \in [Callers -> 0..MaxPages] /\ pages' \in SUBSET Callers
    BY <1>0, <1>12 DEF OpenPage, TypeOK
  <2> QED
    BY <1>0, <1>12, <2>1, <2>2 DEF OpenPage, TypeOK
<1>13. ASSUME NEW r \in Callers, Navigate(r) PROVE TypeOK'
  <2>1. pc' \in [Callers -> NodePc]
    BY <1>1, <1>13 DEF Navigate, NodePc
  <2>2. pages' \in SUBSET Callers
    BY <1>0, <1>13 DEF Navigate, ClosePage, TypeOK
  <2> QED
    BY <1>0, <1>13, <2>1, <2>2 DEF Navigate, TypeOK
<1>14. ASSUME NEW r \in Callers, CleanUp(r) \/ Finish(r) PROVE TypeOK'
  <2>1. pc' \in [Callers -> NodePc]
    BY <1>1, <1>3, <1>14 DEF CleanUp, Finish, EndTurn, NodePc
  <2>2. pages' \in SUBSET Callers
    BY <1>0, <1>14 DEF CleanUp, Finish, ClosePage, TypeOK
  <2> QED
    BY <1>0, <1>14, <2>1, <2>2 DEF CleanUp, Finish, TypeOK
<1>15. CASE Signal \/ UNCHANGED vars
  BY <1>0, <1>15 DEF Signal, vars, TypeOK
<1>16. CASE BrowserDies \/ StrayDies
  <2>1. browsers' \in Nat /\ strays' \in 0..MaxStrays
    BY <1>4, <1>16 DEF BrowserDies, BrowserCloses, StrayDies
  <2>2. \/ alive' = FALSE /\ login' = FALSE /\ pages' = {}
        \/ UNCHANGED <<alive, login, pages>>
    BY <1>16 DEF BrowserDies, BrowserCloses, Gone, StrayDies
  <2>3. UNCHANGED <<headlessDefault, context, chain, pc, kind, held, opened,
                    stop>>
    BY <1>16 DEF BrowserDies, StrayDies
  <2> QED
    BY <1>0, <2>1, <2>2, <2>3 DEF TypeOK
<1>17. CASE ShutDown
  <2>1. /\ context' = "none" /\ alive' = FALSE /\ login' = FALSE
        /\ pages' \subseteq pages /\ strays' \in 0..MaxStrays
        /\ browsers' \in Nat
        /\ held' \in [Callers -> {"none", "current", "closed"}]
    <3>1. CASE Closes
      BY <1>0, <3>1, Closing
    <3>2. CASE /\ context' = "none" /\ browsers' = 0 /\ strays' = 0
               /\ Gone /\ held' = held
      BY <1>0, <3>2 DEF Gone, TypeOK
    <3> QED
      BY <1>17, <3>1, <3>2 DEF ShutDown
  <2>2. stop' \in {"no", "closing", "exiting", "exited"}
        /\ UNCHANGED <<headlessDefault, chain, pc, kind, opened>>
    BY <1>17 DEF ShutDown
  <2> QED
    BY <1>0, <2>1, <2>2 DEF TypeOK
<1> QED
  BY <1>5, <1>6, <1>7, <1>8, <1>9, <1>10, <1>11, <1>12, <1>13, <1>14, <1>15,
     <1>16, <1>17 DEF Next, TurnStep

-----------------------------------------------------------------------------
(* The browser.                                                              *)
LEMMA OneWorks ==
    ASSUME TurnInv, NEW r \in Callers, NEW u \in Callers,
           pc[r] \in Works, pc[u] \in Works
    PROVE  u = r
BY DEF TurnInv, MyTurn

(* What a step that leaves the browser as it is, or only its pages, keeps.   *)
LEMMA BrowserKept ==
    ASSUME TypeOK, BrowserInv, NEW r \in Callers, NEW w, Goto(r, w),
           UNCHANGED <<headlessDefault, context, alive, browsers, strays>>,
           login' => alive,
           \A u \in Callers \ {r} : kind'[u] = kind[u],
           w = "closing" => ~Matches(r) /\ kind'[r] = kind[r],
           w # "launching",
           \A u \in pages' \ {r} : u \in pages,
           r \in pages' => w \in {"navigate", "cleanUp", "finish"}
    PROVE  BrowserInv'
<1>1. pc' = [pc EXCEPT ![r] = w] /\ pc \in [Callers -> NodePc]
      /\ pages \subseteq Callers
  BY DEF Goto, TypeOK
<1>2. \A u \in Callers : pc'[u] = IF u = r THEN w ELSE pc[u]
  BY <1>1
<1>3. \A u \in Callers : pc'[u] = "closing" => ~Matches(u)'
  <2> SUFFICES ASSUME NEW u \in Callers, pc'[u] = "closing"
               PROVE  ~(context' = Desired(u)')
    BY DEF Matches
  <2>1. kind'[u] = kind[u] /\ ~Matches(u)
    BY <1>2 DEF BrowserInv
  <2> QED
    BY <2>1 DEF Matches, Desired
<1>4. \A u \in Callers : pc'[u] = "launching" => context' = "none"
  BY <1>2 DEF BrowserInv
<1>5. \A u \in pages' : pc'[u] \in {"navigate", "cleanUp", "finish"}
  BY <1>1, <1>2 DEF BrowserInv
<1> QED
  BY <1>3, <1>4, <1>5 DEF BrowserInv

LEMMA NextBrowser ==
    ASSUME NodeAssumption, NodeInv, [Next]_vars PROVE BrowserInv'
<1> USE DEF NodeInv, browserVars
<1>0. TypeOK /\ TurnInv /\ BrowserInv
  OBVIOUS
<1>1. \A u \in pages : u \in Callers
                       /\ pc[u] \in {"navigate", "cleanUp", "finish"}
  BY <1>0 DEF TypeOK, BrowserInv
<1>2. ASSUME NEW r \in Callers, Arrive(r) PROVE BrowserInv'
  <2>1. PICK k \in Kinds : kind' = [kind EXCEPT ![r] = k]
    BY <1>2 DEF Arrive
  <2>2. \A u \in Callers \ {r} : kind'[u] = kind[u]
    BY <1>0, <2>1 DEF TypeOK
  <2>3. r \notin pages
    BY <1>1, <1>2 DEF Arrive
  <2> QED
    BY <1>0, <1>2, <2>2, <2>3, BrowserKept DEF Arrive, BrowserInv
<1>3. ASSUME NEW r \in Callers, AskAgain(r) \/ Look(r) PROVE BrowserInv'
  <2>1. /\ Goto(r, "page") \/ Goto(r, "done")
        /\ UNCHANGED <<headlessDefault, browserVars, kind>>
        /\ r \notin pages
    BY <1>1, <1>3 DEF AskAgain, Look
  <2> QED
    BY <1>0, <2>1, BrowserKept DEF BrowserInv
<1>4. ASSUME NEW r \in Callers, Obtain(r)
      PROVE  \E w \in {"loginPage", "look", "again"} : Goto(r, w)
  BY <1>4 DEF Obtain, EndTurn
<1>5. ASSUME NEW r \in Callers, GetContext(r) PROVE BrowserInv'
  <2>1. UNCHANGED <<headlessDefault, browserVars, kind>> /\ r \notin pages
    BY <1>1, <1>5 DEF GetContext
  <2>2. CASE Matches(r)
    <3>1. PICK w \in {"loginPage", "look", "again"} : Goto(r, w)
      BY <1>4, <1>5, <2>2 DEF GetContext
    <3> QED
      BY <1>0, <2>1, <3>1, BrowserKept DEF BrowserInv
  <2>3. CASE ~Matches(r)
    BY <1>0, <1>5, <2>1, <2>3, BrowserKept DEF GetContext, BrowserInv
  <2> QED
    BY <2>2, <2>3
<1>6. ASSUME NEW r \in Callers, CloseContext(r) PROVE BrowserInv'
  <2>1. /\ \A u \in Callers : pc[u] \in Works => u = r
        /\ pc' = [pc EXCEPT ![r] = "launching"]
        /\ pc \in [Callers -> NodePc]
        /\ UNCHANGED <<headlessDefault, kind>>
    BY <1>0, <1>6, OneWorks DEF CloseContext, Works, Goto, TypeOK
  <2>2. \A u \in Callers : /\ pc'[u] # "closing"
                           /\ pc'[u] = "launching" => u = r
    BY <2>1 DEF Works
  <2>3. pages = {}
    BY <1>1, <1>6, <2>1 DEF CloseContext, Works
  <2>4. /\ context' = "none" /\ alive' = FALSE /\ ~login'
        /\ strays' \in Nat /\ browsers' = strays' /\ pages' = {}
    BY <1>0, <1>6, <2>3, Closing, NodeAssumption DEF CloseContext
  <2>5. browsers' = strays' + (IF alive' THEN 1 ELSE 0)
    <3>1. (IF alive' THEN 1 ELSE 0) = 0
      BY <2>4, Zenon
    <3>2. strays' + 0 = strays'
      BY <2>4, PlusNothing
    <3> QED
      BY <2>4, <3>1, <3>2, Zenon
  <2> QED
    BY <2>2, <2>4, <2>5 DEF BrowserInv
<1>7. ASSUME NEW r \in Callers, Launch(r) PROVE BrowserInv'
  <2>1. \A u \in Callers : pc[u] \in Works => u = r
    BY <1>0, <1>7, OneWorks DEF Launch, Works
  <2>2. /\ context = "none" /\ ~alive /\ ~login /\ r \notin pages
        /\ browsers = strays + (IF alive THEN 1 ELSE 0)
    BY <1>0, <1>1, <1>7 DEF Launch, BrowserInv
  <2>5. browsers = strays /\ strays \in Nat
    BY <1>0, <2>2 DEF TypeOK, NodeAssumption
  <2>3. CASE Fail(r) /\ UNCHANGED <<browserVars, held>>
    <3>1. Goto(r, "done") /\ UNCHANGED <<headlessDefault, browserVars, kind>>
      BY <1>7, <2>3 DEF Launch, Fail, EndTurn
    <3> QED
      BY <1>0, <2>2, <3>1, BrowserKept
  <2>4. CASE Obtain(r) /\ browsers' = browsers + 1 /\ strays' = strays
             /\ context' = Desired(r) /\ alive' = TRUE
             /\ login' = FALSE /\ pages' = {}
    <3>1. PICK w \in {"loginPage", "look", "again"} : Goto(r, w)
      BY <1>4, <2>4
    <3>2. \A u \in Callers : pc'[u] \notin {"closing", "launching"}
      BY <1>0, <2>1, <3>1 DEF Goto, TypeOK, Works
    <3>3. context' # "none" /\ (~headlessDefault' => context' # "headless")
      BY <1>7, <2>4 DEF Launch, Desired
    <3>4. browsers' = strays' + 1
      BY <2>4, <2>5
    <3> QED
      BY <2>4, <3>2, <3>3, <3>4 DEF BrowserInv
  <2> QED
    BY <1>7, <2>3, <2>4 DEF Launch
<1>8. ASSUME NEW r \in Callers, OpenLoginPage(r) PROVE BrowserInv'
  <2>1. login' => alive
    BY <1>0, <1>8 DEF OpenLoginPage, Usable, BrowserInv
  <2>2. Goto(r, "done") /\ r \notin pages
    BY <1>1, <1>8 DEF OpenLoginPage, EndTurn
  <2> QED
    BY <1>0, <1>8, <2>1, <2>2, BrowserKept DEF OpenLoginPage
<1>9. ASSUME NEW r \in Callers, OpenPage(r) PROVE BrowserInv'
  <2>1. /\ UNCHANGED <<headlessDefault, context, alive, browsers, strays, login,
                    kind>>
        /\ r \notin pages
    BY <1>1, <1>9 DEF OpenPage
  <2>2. CASE Usable(r)
    BY <1>0, <1>9, <2>1, <2>2, BrowserKept DEF OpenPage, BrowserInv
  <2>3. CASE ~Usable(r)
    <3>1. Goto(r, "done") /\ pages' = pages
      BY <1>9, <2>3 DEF OpenPage, Fail, EndTurn
    <3> QED
      BY <1>0, <2>1, <3>1, BrowserKept DEF BrowserInv
  <2> QED
    BY <2>2, <2>3
<1>10. ASSUME NEW r \in Callers, Navigate(r) PROVE BrowserInv'
  <2>1. UNCHANGED <<headlessDefault, context, alive, browsers, strays, login,
                    kind>>
    BY <1>10 DEF Navigate
  <2>2. PICK w \in {"finish", "page", "cleanUp"} :
          /\ Goto(r, w)
          /\ \/ w # "page" /\ pages' = pages
             \/ pages' = pages \ {r}
    BY <1>10 DEF Navigate, ClosePage
  <2> QED
    BY <1>0, <2>1, <2>2, BrowserKept DEF BrowserInv
<1>11. ASSUME NEW r \in Callers, CleanUp(r) \/ Finish(r) PROVE BrowserInv'
  <2>1. /\ UNCHANGED <<headlessDefault, context, alive, browsers, strays, login,
                    kind>>
        /\ Goto(r, "done") /\ pages' = pages \ {r}
    BY <1>11 DEF CleanUp, Finish, Fail, EndTurn, ClosePage
  <2> QED
    BY <1>0, <2>1, BrowserKept DEF BrowserInv
<1>12. CASE BrowserDies
  <2>1. /\ UNCHANGED <<headlessDefault, context, pc, kind>>
        /\ browsers' = strays' /\ strays' = strays /\ strays \in Nat
        /\ alive' = FALSE /\ ~login' /\ pages' = {}
    BY <1>0, <1>12, NodeAssumption DEF BrowserDies, BrowserCloses, Gone,
       BrowserInv, TypeOK, NodeAssumption
  <2> QED
    BY <1>0, <2>1 DEF BrowserInv, Matches, Desired
<1>13. CASE Signal \/ UNCHANGED vars
  BY <1>0, <1>13 DEF Signal, vars, BrowserInv, Matches, Desired
<1>14. CASE ShutDown
  <2>1. UNCHANGED <<headlessDefault, pc, kind>>
    BY <1>14 DEF ShutDown
  <2>2. /\ context' = "none" /\ alive' = FALSE /\ ~login'
        /\ pages' \subseteq pages
        /\ browsers' = strays' /\ strays' \in Nat
    <3>1. CASE Closes
      BY <1>0, <3>1, Closing, NodeAssumption DEF NodeAssumption
    <3>2. CASE context' = "none" /\ browsers' = 0 /\ strays' = 0 /\ Gone
      BY <3>2 DEF Gone
    <3> QED
      BY <1>14, <3>1, <3>2 DEF ShutDown
  <2>3. browsers' = strays' + (IF alive' THEN 1 ELSE 0)
    <3>1. (IF alive' THEN 1 ELSE 0) = 0
      BY <2>2, Zenon
    <3>2. strays' + 0 = strays'
      BY <2>2, PlusNothing
    <3> QED
      BY <2>2, <3>1, <3>2, Zenon
  <2>4. \A r \in pages' : pc'[r] \in {"navigate", "cleanUp", "finish"}
    BY <1>1, <2>1, <2>2
  <2>5. \A r \in Callers : pc'[r] = "closing" => ~Matches(r)'
    BY <2>2 DEF Matches, Desired
  <2> QED
    BY <2>2, <2>3, <2>4, <2>5 DEF BrowserInv
<1>15. CASE StrayDies
  <2>1. /\ UNCHANGED <<headlessDefault, context, alive, login, pages, pc, kind>>
        /\ strays \in Nat
        /\ browsers = strays + (IF alive THEN 1 ELSE 0)
        /\ strays' = strays - 1 /\ browsers' = browsers - 1
    BY <1>0, <1>15, NodeAssumption
       DEF StrayDies, BrowserInv, TypeOK, NodeAssumption
  <2>2. browsers' = strays' + (IF alive' THEN 1 ELSE 0)
    BY <2>1
  <2> QED
    BY <1>0, <2>1, <2>2 DEF BrowserInv, Matches, Desired
<1> QED
  BY <1>2, <1>3, <1>5, <1>6, <1>7, <1>8, <1>9, <1>10, <1>11, <1>12, <1>13,
     <1>14, <1>15 DEF Next, TurnStep

-----------------------------------------------------------------------------
(* The node's invariant.                                                     *)
LEMMA InitInv == ASSUME NodeAssumption PROVE Init => NodeInv
<1> SUFFICES ASSUME Init PROVE NodeInv
  OBVIOUS
<1>1. TypeOK
  <2>1. chain \in Seq(Callers)
    BY EmptySeq DEF Init
  <2>2. opened \in [Callers -> 0..MaxPages]
    BY DEF NodeAssumption, Init
  <2>3. browsers \in Nat /\ strays \in 0..MaxStrays
    BY DEF NodeAssumption, Init
  <2>4. alive \in BOOLEAN /\ login \in BOOLEAN /\ headlessDefault \in BOOLEAN
    BY Zenon DEF Init
  <2>5. /\ pages \in SUBSET Callers
        /\ pc \in [Callers -> NodePc]
        /\ kind \in [Callers -> AllKinds]
        /\ held \in [Callers -> {"none", "current", "closed"}]
    BY DEF Init, NodePc, AllKinds
  <2> QED
    BY <2>1, <2>2, <2>3, <2>4, <2>5 DEF Init, TypeOK
<1>2. TurnInv
  BY DEF Init, TurnInv, InChain, Waits, Works
<1>3. BrowserInv
  BY DEF Init, BrowserInv
<1> QED
  BY <1>1, <1>2, <1>3 DEF NodeInv

LEMMA NextInv == NodeInv /\ [Next]_vars => NodeInv'
<1> SUFFICES ASSUME NodeInv, [Next]_vars PROVE NodeInv'
  OBVIOUS
<1>1. TypeOK /\ TurnInv
  BY DEF NodeInv
<1> QED
  BY <1>1, NodeAssumption, NextTyped, NextTurns, NextBrowser DEF NodeInv

(* Whatever requests arrive, in whatever order they take turns and fail, and *)
(* whenever the browser dies or the node is shut down, the inductive         *)
(* invariant of runExclusive, getContext and closeContext holds.             *)
THEOREM NodeInvariance == Spec => []NodeInv
BY NodeAssumption, InitInv, NextInv, PTL DEF Spec

(* There is never a second browser on the profile but those that a failed    *)
(* close has left, and only the request whose turn it is has a working page  *)
(* open.                                                                     *)
THEOREM ProfileIsExclusive == Spec => []TurnsAreExclusive
<1>1. NodeInv => TurnsAreExclusive
  <2> SUFFICES ASSUME NodeInv PROVE TurnsAreExclusive
    OBVIOUS
  <2>1. browsers <= 1 + strays
    BY NodeAssumption DEF NodeInv, TypeOK, BrowserInv, NodeAssumption
  <2>2. \A r \in pages : r \in Callers /\ pc[r] \in Works
    BY DEF NodeInv, TypeOK, BrowserInv, Works
  <2>3. \A r \in pages : MyTurn(r)
    BY <2>2 DEF NodeInv, TurnInv
  <2> QED
    BY <2>1, <2>3 DEF TurnsAreExclusive, OneBrowser, PagesBelongToTurn
<1> QED
  BY <1>1, NodeInvariance, PTL

-----------------------------------------------------------------------------
(* What a step may do to the window of a login.                              *)
LoginStep ==
    login /\ ~headlessDefault =>
        login' \/ (context' # "none" /\ ~alive') \/ stop # "no"

LEMMA NextKeepsLogin == NodeInv /\ [Next]_vars => [LoginStep]_vars
<1> SUFFICES ASSUME NodeInv, Next, login, ~headlessDefault, stop = "no"
             PROVE  login' \/ (context' # "none" /\ ~alive')
  BY DEF LoginStep
<1> USE DEF browserVars
<1>1. TypeOK /\ BrowserInv /\ alive /\ context = "headed"
  BY DEF NodeInv, BrowserInv, TypeOK
<1>2. \A r \in Callers : pc[r] \notin {"closing", "launching"}
  BY <1>1 DEF BrowserInv, Matches, Desired
<1>3. CASE BrowserDies
  BY <1>1, <1>3 DEF BrowserDies, BrowserCloses, Gone
<1>4. CASE StrayDies \/ Signal \/ ShutDown
  BY <1>4 DEF StrayDies, Signal, ShutDown
<1>5. ASSUME NEW r \in Callers, OpenLoginPage(r) PROVE login'
  BY <1>5 DEF OpenLoginPage
<1>6. ASSUME NEW r \in Callers, Arrive(r) \/ TurnStep(r), ~OpenLoginPage(r)
      PROVE  login'
  <2>1. ~CloseContext(r) /\ ~Launch(r)
    BY <1>2 DEF CloseContext, Launch
  <2>2. login' = login
    BY <1>6, <2>1 DEF Arrive, TurnStep, AskAgain, GetContext, Look, OpenPage,
       Navigate, CleanUp, Finish
  <2> QED
    BY <2>2
<1> QED
  BY <1>3, <1>4, <1>5, <1>6 DEF Next

(* As long as the node runs headed, no status poll, capture or search closes *)
(* the window of a login: only the user, a browser that dies, or the         *)
(* shutdown does, although every request may close and relaunch the context. *)
THEOREM LoginIsKept == Spec => LoginSurvives
BY NodeInvariance, NextKeepsLogin, PTL DEF Spec, LoginSurvives, LoginStep
-----------------------------------------------------------------------------
(* The jobs of the tagger service, for any number of jobs, retries and stops *)
(* of the worker.                                                            *)

(* The shared file is not the upload of a task.                              *)
DistinctPlaces == Library \notin Tasks /\ MaxRetries \in Nat /\ MaxStops \in Nat

(* What is known of one task.                                                *)
TaskOK(t) ==
    /\ t \in present => input[t] = "upload" /\ stage[t] # "store"
    /\ stage[t] = "new" <=> input[t] = "none"
    /\ state[t] = "SUCCESS" => stage[t] = "done" /\ t \notin present
    /\ input[t] = "upload" /\ stage[t] \in BeforeCleanup =>
         t \in present \cup cutLate
    /\ input[t] = "pointer" /\ stage[t] \notin {"done", "lost"} =>
         Library \in present \/ t \in missed
    /\ stage[t] \in {"extract", "cleanup", "store"} =>
         input[t] # "none" /\ key[t][1] = Place(t)
    /\ stage[t] \in {"cleanup", "store"} => result[t] \in Outputs
    /\ result[t] = "empty" =>
         \/ input[t] = "url"
         \/ input[t] = "upload" /\ t \in cutLate
         \/ input[t] = "pointer" /\ MissedBy(t)

LEMMA InvMeans ==
    JobInv <=> JobTypeOK /\ CacheInv /\ \A t \in Tasks : TaskOK(t)
BY DEF JobInv, TaskOK

(* A step of one task: the others keep what they have.                       *)
Same(t) ==
    /\ input'[t] = input[t] /\ stage'[t] = stage[t] /\ state'[t] = state[t]
    /\ result'[t] = result[t] /\ key'[t] = key[t]
    /\ t \in present' <=> t \in present
    /\ t \in cutLate => t \in cutLate'

LEMMA OthersKeep ==
    ASSUME NEW t \in Tasks, TaskOK(t), Same(t),
           Library \in present => Library \in present', missed \subseteq missed',
           useLlm' = useLlm
    PROVE  TaskOK(t)'
BY DEF TaskOK, Same, MissedBy, Place

LEMMA PlaceTyped ==
    ASSUME JobTypeOK, NEW t \in Tasks PROVE Fingerprint(t) \in Keys
<1>1. Place(t) \in Places
  BY DEF Place, Places
<1>2. (Place(t) \in present \cup {Page}) \in BOOLEAN
  OBVIOUS
<1> QED
  BY <1>1, <1>2, Zenon DEF Fingerprint, Keys

LEMMA JobTyped ==
    ASSUME DistinctPlaces, JobInv, [JobNext]_jobVars PROVE JobTypeOK'
<1> USE DEF requestVars, fileVars, workVars, MoveTo, Report
<1>0. JobTypeOK /\ \A t \in Tasks : TaskOK(t)
  BY InvMeans
<1>1. ASSUME NEW t \in Tasks, CreateJob(t) PROVE JobTypeOK'
  BY <1>0, <1>1 DEF CreateJob, JobTypeOK, Inputs, Attempting, Places
<1>2. ASSUME NEW t \in Tasks, Delay(t) \/ Begin(t) PROVE JobTypeOK'
  BY <1>0, <1>2 DEF Delay, Begin, JobTypeOK, Attempting
<1>3. ASSUME NEW t \in Tasks, Lookup(t) PROVE JobTypeOK'
  <2>1. key' \in [Tasks -> Keys]
    BY <1>0, <1>3, PlaceTyped DEF Lookup, JobTypeOK
  <2>2. /\ cache' \subseteq cache /\ present' \subseteq present
        /\ UNCHANGED <<requestVars, missed, retries, worker, stops, cutLate>>
    BY <1>0, <1>3 DEF Lookup, Unlink
  <2>3. /\ stage' \in [Tasks -> Attempting \cup
              {"new", "accepted", "queued", "failing", "done", "lost"}]
        /\ state' \in [Tasks ->
              {"PENDING", "STARTED", "RETRY", "SUCCESS", "FAILURE"}]
    BY <1>0, <1>3 DEF Lookup, JobTypeOK, Attempting
  <2>4. result' \in [Tasks -> Outputs \cup {"none"}]
    BY <1>0, <1>3 DEF Lookup, JobTypeOK
  <2> QED
    BY <1>0, <2>1, <2>2, <2>3, <2>4 DEF JobTypeOK
<1>4. ASSUME NEW t \in Tasks, Extract(t) PROVE JobTypeOK'
  BY <1>0, <1>4 DEF Extract, JobTypeOK, Attempting, Outputs
<1>5. ASSUME NEW t \in Tasks, Cleanup(t) PROVE JobTypeOK'
  BY <1>0, <1>5 DEF Cleanup, Unlink, JobTypeOK, Attempting
<1>6. ASSUME NEW t \in Tasks, Store(t) PROVE JobTypeOK'
  <2>1. /\ cache' \subseteq [key : Keys, result : Outputs]
        /\ \A c, d \in cache' : c.key = d.key => c = d
    <3>1. result[t] \in Outputs /\ key[t] \in Keys
      BY <1>0, <1>6 DEF Store, TaskOK, JobTypeOK
    <3>2. cache' = cache \/
            cache' = {c \in cache : c.key # key[t]}
                       \cup {[key |-> key[t], result |-> result[t]]}
      BY <1>6 DEF Store
    <3> QED
      BY <1>0, <3>1, <3>2 DEF JobTypeOK
  <2>2. NoKey \in Keys
    BY DEF NoKey, Keys, Places
  <2> QED
    BY <1>0, <1>6, <2>1, <2>2 DEF Store, JobTypeOK, Attempting
<1>7. ASSUME NEW t \in Tasks, Cut(t) \/ HardLimit(t) PROVE JobTypeOK'
  <2>1. NoKey \in Keys
    BY DEF NoKey, Keys, Places
  <2> QED
    BY <1>0, <1>7, <2>1 DEF Cut, HardLimit, FileAfterError, Forget, JobTypeOK, Attempting
<1>8. ASSUME NEW t \in Tasks, Retry(t) PROVE JobTypeOK'
  BY <1>0, <1>8 DEF Retry, MayRetry, JobTypeOK, Attempting, DistinctPlaces
<1>9. CASE WorkerStops
  <2>1. NoKey \in Keys
    BY DEF NoKey, Keys, Places
  <2>2. key' \in [Tasks -> Keys] /\ worker' \in BOOLEAN
    BY <1>0, <1>9, <2>1 DEF WorkerStops
  <2>3. stops' \in 0..MaxStops
    BY <1>0, <1>9 DEF WorkerStops, JobTypeOK, DistinctPlaces
  <2>4. stage' \in [Tasks -> Attempting \cup
              {"new", "accepted", "queued", "failing", "done", "lost"}]
    BY <1>0, <1>9 DEF WorkerStops, JobTypeOK
  <2>5. result' \in [Tasks -> Outputs \cup {"none"}]
    BY <1>0, <1>9 DEF WorkerStops, JobTypeOK
  <2> QED
    BY <1>0, <1>9, <2>2, <2>3, <2>4, <2>5 DEF WorkerStops, JobTypeOK
<1>10. CASE WorkerStarts \/ FileMoves \/ Expire \/ UNCHANGED jobVars
  BY <1>0, <1>10 DEF WorkerStarts, FileMoves, Expire, JobTypeOK, Places, jobVars
<1> QED
  BY <1>1, <1>2, <1>3, <1>4, <1>5, <1>6, <1>7, <1>8, <1>9, <1>10
     DEF JobNext, TaskStep

(* What is stored as empty: without the LLM, and by a task that has missed   *)
(* its file; flags of the history stay up.                                   *)
LEMMA NextCached ==
    ASSUME DistinctPlaces, JobInv, [JobNext]_jobVars
    PROVE  CacheInv'
<1> USE DEF requestVars, fileVars, workVars
<1>1. JobTypeOK /\ CacheInv /\ \A t \in Tasks : TaskOK(t)
  BY InvMeans
<1>2. ASSUME NEW t \in Tasks, Store(t) PROVE CacheInv'
  <2>1. UNCHANGED <<useLlm, input, missed, cutLate>>
    BY <1>2 DEF Store
  <2>2. CASE cache' = cache
    BY <1>1, <2>1, <2>2 DEF CacheInv, EmptyStored
  <2>3. CASE ShouldCache(t)
    <3> SUFFICES ASSUME NEW c \in cache'
                 PROVE  /\ useLlm => c.result = "full"
                        /\ c.result = "empty" => EmptyStored(c.key[1])
      BY <2>1 DEF CacheInv, EmptyStored
    <3>1. CASE c \in cache
      BY <1>1, <3>1 DEF CacheInv
    <3>2. CASE c \notin cache
      <4>1. c = [key |-> key[t], result |-> result[t]]
        BY <1>2, <2>3, <3>2 DEF Store
      <4>2. key[t][1] = Place(t) /\ input[t] # "none"
        BY <1>1, <1>2 DEF TaskOK, Store
      <4>3. useLlm => c.result = "full"
        BY <2>3, <4>1 DEF ShouldCache
      <4>4. ASSUME c.result = "empty" PROVE EmptyStored(c.key[1])
        <5>1. result[t] = "empty" /\ input[t] # "url" /\ ~useLlm
          BY <2>3, <4>1, <4>4 DEF ShouldCache
        <5>2. \/ input[t] = "upload" /\ t \in cutLate
              \/ input[t] = "pointer" /\ missed # {}
          BY <1>1, <5>1 DEF TaskOK, MissedBy
        <5> QED
          BY <4>1, <4>2, <5>2 DEF EmptyStored, Place
      <4> QED
        BY <4>3, <4>4
    <3> QED
      BY <3>1, <3>2
  <2> QED
    BY <1>2, <2>2, <2>3 DEF Store
<1>3. CASE /\ cache' \subseteq cache /\ useLlm' = useLlm
           /\ missed \subseteq missed' /\ cutLate \subseteq cutLate'
  BY <1>1, <1>3 DEF CacheInv, EmptyStored
<1> QED
  BY <1>2, <1>3 DEF JobNext, TaskStep, CreateJob, Delay, Begin, Lookup, Extract,
     Cleanup, Retry, Cut, HardLimit, WorkerStops, WorkerStarts, FileMoves,
     Expire, jobVars

LEMMA NextTasks ==
    ASSUME DistinctPlaces, JobInv, [JobNext]_jobVars
    PROVE  \A t \in Tasks : TaskOK(t)'
<1> USE DEF requestVars, fileVars, workVars, MoveTo, Report, Attempting,
            BeforeCleanup
<1>1. JobTypeOK /\ CacheInv /\ \A t \in Tasks : TaskOK(t)
  BY InvMeans
<1>2. ASSUME NEW t \in Tasks, \A u \in Tasks \ {t} : Same(u), TaskOK(t)',
             Library \in present => Library \in present',
             missed \subseteq missed', useLlm' = useLlm
      PROVE  \A u \in Tasks : TaskOK(u)'
  BY <1>1, <1>2, OthersKeep
<1>3. ASSUME NEW t \in Tasks, CreateJob(t) PROVE \A u \in Tasks : TaskOK(u)'
  <2>1. PICK i \in Inputs :
          /\ i = "pointer" => Library \in present
          /\ input' = [input EXCEPT ![t] = i]
          /\ present' = IF i = "upload" THEN present \cup {t} ELSE present
    BY <1>3 DEF CreateJob
  <2>2. /\ stage[t] = "new" /\ stage' = [stage EXCEPT ![t] = "accepted"]
        /\ UNCHANGED <<useLlm, state, result, key, missed, cutLate>>
    BY <1>3 DEF CreateJob
  <2>3. \A u \in Tasks \ {t} : Same(u)
    BY <1>1, <2>1, <2>2 DEF Same, JobTypeOK
  <2>4. TaskOK(t)'
    BY <1>1, <2>1, <2>2 DEF TaskOK, JobTypeOK, Inputs
  <2> QED
    BY <1>2, <2>1, <2>2, <2>3, <2>4
<1>4. ASSUME NEW t \in Tasks, Delay(t) \/ Begin(t) \/ Retry(t)
      PROVE  \A u \in Tasks : TaskOK(u)'
  <2>1. /\ \A u \in Tasks \ {t} : Same(u)
        /\ UNCHANGED <<requestVars, present, missed, key, result, cutLate>>
    BY <1>1, <1>4 DEF Delay, Begin, Retry, Same, JobTypeOK
  <2>2. TaskOK(t)'
    BY <1>1, <1>4 DEF Delay, Begin, Retry, TaskOK, MissedBy, JobTypeOK
  <2> QED
    BY <1>2, <2>1, <2>2
<1>5. ASSUME NEW t \in Tasks, Lookup(t) PROVE \A u \in Tasks : TaskOK(u)'
  <2>1. \A u \in Tasks \ {t} : Same(u)
    BY <1>1, <1>5 DEF Lookup, Unlink, Same, JobTypeOK
  <2>2. /\ UNCHANGED <<requestVars, missed, cutLate>> /\ stage[t] = "lookup"
        /\ key'[t] = Fingerprint(t)
        /\ Library \in present => Library \in present'
    BY <1>1, <1>5 DEF Lookup, Unlink, DistinctPlaces, JobTypeOK
  <2>5. Fingerprint(t)[1] = Place(t) /\ input[t] # "none"
    BY <1>1, <2>2 DEF Fingerprint, TaskOK
  <2>3. CASE UNCHANGED <<present, state, result>> /\ stage'[t] = "extract"
    <3>1. TaskOK(t)'
      BY <1>1, <2>2, <2>3, <2>5 DEF TaskOK, MissedBy, Place
    <3> QED
      BY <1>2, <2>1, <2>2, <3>1
  <2>4. CASE /\ Unlink(t) /\ stage'[t] = "done"
             /\ \E c \in cache : c.key = Fingerprint(t) /\ result'[t] = c.result
    <3>1. PICK c \in cache : c.key = Fingerprint(t) /\ result'[t] = c.result
      BY <2>4
    <3>2. ASSUME c.result = "empty"
          PROVE  \/ input[t] = "url"
                 \/ input[t] = "upload" /\ t \in cutLate
                 \/ input[t] = "pointer" /\ MissedBy(t)
      <4>1. EmptyStored(Place(t)) /\ ~useLlm
        BY <1>1, <2>5, <3>1, <3>2 DEF CacheInv
      <4> QED
        BY <1>1, <2>5, <4>1
           DEF EmptyStored, Place, MissedBy, DistinctPlaces, JobTypeOK, Inputs
    <3>3. TaskOK(t)'
      BY <1>1, <2>2, <2>4, <3>1, <3>2 DEF TaskOK, Unlink, MissedBy
    <3> QED
      BY <1>2, <2>1, <2>2, <3>3
  <2> QED
    BY <1>1, <1>5, <2>3, <2>4 DEF Lookup, JobTypeOK
<1>6. ASSUME NEW t \in Tasks, Extract(t) PROVE \A u \in Tasks : TaskOK(u)'
  <2>1. /\ \A u \in Tasks \ {t} : Same(u)
        /\ UNCHANGED <<requestVars, present, missed, state, key, cutLate>>
        /\ stage[t] = "extract" /\ stage'[t] = "cleanup"
        /\ result'[t] \in Outputs
        /\ result'[t] = "empty" => input[t] = "url" \/ ~Readable(t)
    BY <1>1, <1>6 DEF Extract, Same, JobTypeOK
  <2>2. TaskOK(t)'
    BY <1>1, <2>1 DEF TaskOK, JobTypeOK, Readable, Place, MissedBy, Inputs
  <2> QED
    BY <1>2, <2>1, <2>2
<1>7. ASSUME NEW t \in Tasks, Cleanup(t) PROVE \A u \in Tasks : TaskOK(u)'
  <2>1. /\ \A u \in Tasks \ {t} : Same(u)
        /\ UNCHANGED <<requestVars, missed, state, key, result, cutLate>>
        /\ stage[t] = "cleanup" /\ stage'[t] = "store" /\ Unlink(t)
        /\ Library \in present => Library \in present'
    BY <1>1, <1>7 DEF Cleanup, Unlink, Same, JobTypeOK, DistinctPlaces
  <2>2. TaskOK(t)'
    BY <1>1, <2>1 DEF TaskOK, Unlink, Place, MissedBy
  <2> QED
    BY <1>2, <2>1, <2>2
<1>8. ASSUME NEW t \in Tasks, Store(t) PROVE \A u \in Tasks : TaskOK(u)'
  <2>1. /\ \A u \in Tasks \ {t} : Same(u)
        /\ UNCHANGED <<requestVars, present, missed, result, cutLate>>
        /\ stage[t] = "store" /\ stage'[t] = "done"
    BY <1>1, <1>8 DEF Store, Same, JobTypeOK
  <2>2. TaskOK(t)'
    BY <1>1, <2>1 DEF TaskOK, MissedBy
  <2> QED
    BY <1>2, <2>1, <2>2
<1>9. ASSUME NEW t \in Tasks, Cut(t) \/ HardLimit(t)
      PROVE  \A u \in Tasks : TaskOK(u)'
  <2>1. /\ \A u \in Tasks \ {t} : Same(u)
        /\ UNCHANGED <<requestVars, present, missed>>
        /\ stage[t] \in Attempting /\ stage'[t] \in {"failing", "done"}
        /\ state'[t] = "FAILURE" /\ result'[t] = "none"
        /\ cutLate \subseteq cutLate'
        /\ stage[t] = "store" /\ stage'[t] = "failing" => t \in cutLate'
    BY <1>1, <1>9
       DEF Cut, HardLimit, FileAfterError, Forget, Same, JobTypeOK
  <2>2. TaskOK(t)'
    BY <1>1, <2>1 DEF TaskOK
  <2> QED
    BY <1>2, <2>1, <2>2
<1>10. CASE WorkerStops
  <2> SUFFICES ASSUME NEW t \in Tasks PROVE TaskOK(t)'
    OBVIOUS
  <2>1. /\ UNCHANGED <<requestVars, present, missed, state, cutLate>>
        /\ stage'[t] = IF stage[t] \in Attempting \cup {"failing"} THEN "lost" ELSE stage[t]
        /\ result'[t] \in {"none", result[t]}
    BY <1>10 DEF WorkerStops
  <2> QED
    BY <1>1, <2>1 DEF TaskOK, MissedBy
<1>11. CASE FileMoves
  <2> SUFFICES ASSUME NEW t \in Tasks PROVE TaskOK(t)'
    OBVIOUS
  <2>1. /\ t \in present' <=> t \in present
        /\ missed \subseteq missed' /\ UNCHANGED <<requestVars, workVars, cutLate>>
        /\ Library \in present' \/ (Library \in present =>
             (input[t] = "pointer" /\ stage[t] \notin {"done", "lost"} => t \in missed'))
    BY <1>11 DEF FileMoves, DistinctPlaces
  <2>2. TaskOK(t)
    BY <1>1
  <2> QED
    BY <2>1, <2>2 DEF TaskOK, Place, MissedBy
<1>12. CASE WorkerStarts \/ Expire \/ UNCHANGED jobVars
  BY <1>1, <1>12 DEF WorkerStarts, Expire, TaskOK, Place, MissedBy, jobVars
<1> QED
  BY <1>3, <1>4, <1>5, <1>6, <1>7, <1>8, <1>9, <1>10, <1>11, <1>12
     DEF JobNext, TaskStep

-----------------------------------------------------------------------------
(* The theorems.                                                             *)

LEMMA JobInitInv == ASSUME DistinctPlaces PROVE JobInit => JobInv
<1> SUFFICES ASSUME JobInit PROVE JobInv
  OBVIOUS
<1>1. JobTypeOK
  <2>1. NoKey \in Keys
    BY DEF NoKey, Keys, Places
  <2>2. 0 \in 0..MaxRetries /\ 0 \in 0..MaxStops
    BY DEF DistinctPlaces
  <2> QED
    BY <2>1, <2>2 DEF JobInit, JobTypeOK, Places
<1>2. \A t \in Tasks : TaskOK(t)
  BY DEF JobInit, TaskOK, DistinctPlaces, BeforeCleanup
<1> QED
  BY <1>1, <1>2, InvMeans DEF JobInit, CacheInv

LEMMA JobNextInv ==
    ASSUME DistinctPlaces PROVE JobInv /\ [JobNext]_jobVars => JobInv'
<1> SUFFICES ASSUME JobInv, [JobNext]_jobVars PROVE JobInv'
  OBVIOUS
<1>1. JobTypeOK' /\ CacheInv'
  BY InvMeans, JobTyped, NextCached
<1>2. \A t \in Tasks : TaskOK(t)'
  BY NextTasks
<1> QED
  BY <1>1, <1>2 DEF JobInv, TaskOK

(* The inductive invariant holds whatever errors, time limits, retries and   *)
(* stops of the worker cut an attempt short.                                 *)
THEOREM JobInvariance == ASSUME DistinctPlaces PROVE JobSpec => []JobInv
BY JobInitInv, JobNextInv, PTL DEF JobSpec

(* No upload outlives the success of its task, and an empty result always    *)
(* has its cause outside the service or in an attempt that was cut after it  *)
(* had removed the upload; that another task missed the shared file is a     *)
(* cause only without the LLM, where incomplete results are stored as well.  *)
THEOREM UploadsAreUsed == ASSUME DistinctPlaces PROVE JobSpec => []UploadIsUsed
<1>1. JobInv => UploadIsUsed
  BY DEF JobInv, UploadIsUsed, UploadsAreRemoved, EmptyHasCause
<1> QED
  BY <1>1, JobInvariance, PTL
=============================================================================
