----------------------------- MODULE RecordProofs -----------------------------
(* Proofs about DocumentHistory, for any callers, files and Url rows, about  *)
(* GovernanceProjection, for any results, snapshots and agencies, and about  *)
(* UrlLibrary, for any requests, pages and collections.                      *)
EXTENDS DocumentHistory, GovernanceProjection, UrlLibrary, FiniteSetTheorems, TLAPS

(* None is nothing else, and there are finitely many files.                  *)
ValuesApart ==
    /\ None \notin UrlIds /\ None \notin Captured /\ None \notin Revisions
    /\ IsFiniteSet(Captured)

-----------------------------------------------------------------------------
(* A finite set whose elements are numbered has one with the highest number. *)
LEMMA HasHighest ==
    ASSUME NEW R, IsFiniteSet(R), R # {}, NEW rank \in [R -> Nat]
    PROVE  \E f \in R : \A g \in R : rank[g] <= rank[f]
<1> DEFINE Above(f) == {g \in R : rank[f] < rank[g]}
           T == {Above(f) : f \in R}
<1>1. IsWellFoundedOn(StrictSubsetOrdering(R), FiniteSubsetsOf(R))
  BY FS_StrictSubsetOrderingWellFounded
<1>2. T \subseteq FiniteSubsetsOf(R) /\ T # {}
  <2>1. \A f \in R : Above(f) \in SUBSET R
    OBVIOUS
  <2>2. FiniteSubsetsOf(R) = SUBSET R
    BY FS_FiniteSubsetsOfFinite
  <2>3. T \subseteq SUBSET R
    BY <2>1
  <2>4. T # {}
    <3>1. PICK f \in R : TRUE
      OBVIOUS
    <3>2. Above(f) \in T
      OBVIOUS
    <3> HIDE DEF T
    <3> QED
      BY <3>2
  <2> HIDE DEF T
  <2> QED
    BY <2>2, <2>3, <2>4
<1>3. PICK x \in T : \A y \in T : ~(<<y, x>> \in StrictSubsetOrdering(R))
  <2> HIDE DEF T
  <2> QED
    BY <1>1, <1>2, WFMin
<1>4. PICK f \in R : x = Above(f)
  OBVIOUS
<1>5. ASSUME NEW g \in R, rank[f] < rank[g] PROVE FALSE
  <2>1. Above(g) \subseteq Above(f)
    BY <1>5
  <2>2. g \in Above(f) /\ g \notin Above(g)
    BY <1>5
  <2>3. <<Above(g), Above(f)>> \in StrictSubsetOrdering(R)
    BY <2>1, <2>2 DEF StrictSubsetOrdering
  <2> QED
    BY <1>3, <1>4, <2>3
<1>6. \A g \in R : rank[g] <= rank[f]
  BY <1>5
<1> QED
  BY <1>6

-----------------------------------------------------------------------------
(* What is known of the ordinals of a document.                              *)
LEMMA RevisionsFinite ==
    ASSUME ValuesApart, NEW d
    PROVE  IsFiniteSet(RevisionsOf(d)) /\ Cardinality(RevisionsOf(d)) \in Nat
<1>1. RevisionsOf(d) \in SUBSET Captured
  BY DEF RevisionsOf
<1> QED
  BY <1>1, FS_Subset, FS_CardinalityType DEF ValuesApart

LEMMA NextOrdinalTyped ==
    ASSUME ValuesApart, TypeOK, NEW d PROVE NextOrdinal(d) \in Nat
<1>1. CASE OrdinalsOf(d) = {}
  BY <1>1 DEF NextOrdinal
<1>2. CASE OrdinalsOf(d) # {}
  <2> DEFINE R == RevisionsOf(d)
             rank == [f \in R |-> revision[f].ordinal]
  <2>1. \A f \in R : revision[f].ordinal \in Nat
    BY DEF TypeOK, RevisionsOf, Revisions
  <2>2. rank \in [R -> Nat] /\ R # {} /\ IsFiniteSet(R)
    BY <1>2, <2>1, RevisionsFinite DEF OrdinalsOf
  <2>3. PICK f \in R : \A g \in R : rank[g] <= rank[f]
    <3> HIDE DEF R, rank
    <3> QED
      BY <2>2, HasHighest
  <2>4. /\ rank[f] \in OrdinalsOf(d)
        /\ \A k \in OrdinalsOf(d) : k <= rank[f]
    BY <2>3 DEF OrdinalsOf
  <2>5. OrdinalsOf(d) \subseteq Nat
    BY <2>1 DEF OrdinalsOf
  <2>6. (CHOOSE n \in OrdinalsOf(d) : \A k \in OrdinalsOf(d) : k <= n)
          \in OrdinalsOf(d)
    BY <2>4
  <2> QED
    BY <1>2, <2>5, <2>6 DEF NextOrdinal
<1> QED
  BY <1>1, <1>2

(* Numbered without a gap, the next ordinal is the number of revisions + 1.  *)
LEMMA NextOrdinalFollows ==
    ASSUME ValuesApart, NEW d, OrdinalsOf(d) = 1..Cardinality(RevisionsOf(d))
    PROVE  NextOrdinal(d) = Cardinality(RevisionsOf(d)) + 1
<1> DEFINE n == Cardinality(RevisionsOf(d))
<1>1. n \in Nat
  BY RevisionsFinite
<1>2. CASE n = 0
  BY <1>2 DEF NextOrdinal
<1>3. CASE n # 0
  <2>1. n \in 1..n /\ (\A k \in 1..n : k <= n) /\ 1..n # {}
    BY <1>1, <1>3
  <2>2. (CHOOSE m \in 1..n : \A k \in 1..n : k <= m) = n
    <3>1. \A m \in 1..n : (\A k \in 1..n : k <= m) => m = n
      BY <1>1, <2>1
    <3> QED
      BY <2>1, <3>1
  <2> QED
    BY <1>1, <2>1, <2>2 DEF NextOrdinal
<1> QED
  BY <1>2, <1>3

(* A new revision takes the next ordinal, however long ago it was computed.  *)
Writes(f, d, n) ==
    /\ f \in Captured /\ revision[f] = None
    /\ revision \in [Captured -> Revisions \cup {None}]
    /\ [document |-> d, ordinal |-> n] \in Revisions
    /\ revision' = [revision EXCEPT ![f] = [document |-> d, ordinal |-> n]]

LEMMA RevisionAdded ==
    ASSUME ValuesApart, NEW f, NEW d, NEW n, Writes(f, d, n)
    PROVE  /\ RevisionsOf(d)' = RevisionsOf(d) \cup {f}
           /\ Cardinality(RevisionsOf(d)') = Cardinality(RevisionsOf(d)) + 1
           /\ OrdinalsOf(d)' = OrdinalsOf(d) \cup {n}
           /\ \A e : e # d => /\ RevisionsOf(e)' = RevisionsOf(e)
                              /\ OrdinalsOf(e)' = OrdinalsOf(e)
<1>1. \A g \in Captured : revision'[g] = IF g = f
                             THEN [document |-> d, ordinal |-> n] ELSE revision[g]
  BY DEF Writes
<1>2. /\ [document |-> d, ordinal |-> n] # None
      /\ f \in Captured /\ revision[f] = None
  BY DEF Writes, ValuesApart
<1>3. RevisionsOf(d)' = RevisionsOf(d) \cup {f} /\ f \notin RevisionsOf(d)
  BY <1>1, <1>2 DEF RevisionsOf
<1>4. \A e : e # d => RevisionsOf(e)' = RevisionsOf(e)
  BY <1>1, <1>2 DEF RevisionsOf
<1>5. Cardinality(RevisionsOf(d)') = Cardinality(RevisionsOf(d)) + 1
  BY <1>3, RevisionsFinite, FS_AddElement
<1>6. OrdinalsOf(d)' = OrdinalsOf(d) \cup {n}
  BY <1>1, <1>2, <1>3 DEF OrdinalsOf, RevisionsOf
<1>7. \A e : e # d => OrdinalsOf(e)' = OrdinalsOf(e)
  BY <1>1, <1>2, <1>4 DEF OrdinalsOf, RevisionsOf
<1> QED
  BY <1>3, <1>4, <1>5, <1>6, <1>7

-----------------------------------------------------------------------------
LEMMA EndTyped ==
    ASSUME TypeOK, NEW c \in Callers, End(c)
    PROVE  /\ step' \in [Callers -> Steps]
           /\ subject' \in [Callers -> Captured \cup {None}]
           /\ captures' \in [Callers -> BOOLEAN]
           /\ knownUrl' \in [Callers -> UrlIds \cup {None}]
           /\ ordinal' \in [Callers -> Nat]
BY DEF TypeOK, End, Goto, Steps

LEMMA SubjectTyped ==
    ASSUME TypeOK, SubjectInv, NEW c \in Callers, step[c] # "idle"
    PROVE  /\ subject[c] \in Captured
           /\ step[c] = "relink" => knownUrl[c] \in UrlIds
           /\ step[c] \in Placing => DocumentKey(c) \in Keys
           /\ step[c] \in Placing /\ snapshot[subject[c]] =>
                knownUrl[c] \in UrlIds
BY DEF TypeOK, SubjectInv, DocumentKey, Keys

LEMMA NextTyped ==
    ASSUME ValuesApart, HistoryInv, [Next]_historyVars PROVE TypeOK'
<1> USE DEF tables, Goto, Keep
<1>0. TypeOK /\ SubjectInv
  BY DEF HistoryInv
<1>1. ASSUME NEW c \in Callers, CaptureFile(c) PROVE TypeOK'
  BY <1>0, <1>1 DEF CaptureFile, Begin, TypeOK, RowStates, LiveUrls, Steps
<1>2. ASSUME NEW c \in Callers, AskForRevision(c) PROVE TypeOK'
  BY <1>0, <1>2 DEF AskForRevision, Begin, TypeOK, Steps
<1>3. ASSUME NEW c \in Callers, LookUpFile(c) PROVE TypeOK'
  <2>1. CASE End(c)
    BY <1>0, <1>3, <2>1, EndTyped DEF LookUpFile, TypeOK
  <2>2. CASE ~End(c)
    BY <1>0, <1>3, <2>2, SubjectTyped DEF LookUpFile, TypeOK, Steps
  <2> QED
    BY <2>1, <2>2
<1>4. ASSUME NEW c \in Callers, LookUpRevision(c) PROVE TypeOK'
  <2>1. CASE End(c)
    BY <1>0, <1>4, <2>1, EndTyped DEF LookUpRevision, TypeOK
  <2>2. CASE ~End(c)
    BY <1>0, <1>4, <2>2 DEF LookUpRevision, TypeOK, Steps
  <2> QED
    BY <2>1, <2>2
<1>5. ASSUME NEW c \in Callers, FindUrl(c) PROVE TypeOK'
  BY <1>0, <1>5 DEF FindUrl, TypeOK, Steps, LiveUrls
<1>6. ASSUME NEW c \in Callers, CreateUrl(c) PROVE TypeOK'
  <2>1. CASE End(c) /\ UNCHANGED url
    BY <1>0, <1>6, <2>1, EndTyped DEF CreateUrl, TypeOK
  <2>2. CASE ~(End(c) /\ UNCHANGED url)
    BY <1>0, <1>6, <2>2 DEF CreateUrl, TypeOK, Steps, RowStates
  <2> QED
    BY <2>1, <2>2
<1>7. ASSUME NEW c \in Callers, RelinkFile(c) PROVE TypeOK'
  <2>1. CASE End(c) /\ UNCHANGED urlOf
    BY <1>0, <1>7, <2>1, EndTyped DEF RelinkFile, TypeOK
  <2>2. CASE ~(End(c) /\ UNCHANGED urlOf)
    BY <1>0, <1>7, <2>2, SubjectTyped DEF RelinkFile, TypeOK, Steps
  <2> QED
    BY <2>1, <2>2
<1>8. ASSUME NEW c \in Callers, EnsureDocument(c) PROVE TypeOK'
  <2>1. CASE End(c) /\ UNCHANGED document
    BY <1>0, <1>8, <2>1, EndTyped DEF EnsureDocument, TypeOK
  <2>2. CASE ~(End(c) /\ UNCHANGED document)
    <3>1. DocumentKey(c) \in Keys
      BY <1>0, <1>8, SubjectTyped DEF EnsureDocument, Placing
    <3> QED
      BY <1>0, <1>8, <2>2, <3>1 DEF EnsureDocument, TypeOK, Steps
  <2> QED
    BY <2>1, <2>2
<1>9. ASSUME NEW c \in Callers, ComputeOrdinal(c) PROVE TypeOK'
  BY <1>0, <1>9, NextOrdinalTyped DEF ComputeOrdinal, TypeOK, Steps
<1>10. ASSUME NEW c \in Callers, CreateRevision(c) PROVE TypeOK'
  <2>1. DocumentKey(c) \in Keys
    BY <1>0, <1>10, SubjectTyped DEF CreateRevision, Placing
  <2>2. revision' \in [Captured -> Revisions \cup {None}]
    BY <1>0, <1>10, <2>1 DEF CreateRevision, TypeOK, Revisions
  <2>3. CASE End(c)
    BY <1>0, <1>10, <2>2, <2>3, EndTyped DEF CreateRevision, TypeOK
  <2>4. CASE ~End(c)
    BY <1>0, <1>10, <2>2, <2>4 DEF CreateRevision, TypeOK, Steps
  <2> QED
    BY <2>3, <2>4
<1>11. ASSUME NEW c \in Callers, RecordEvent(c) PROVE TypeOK'
  <2>1. event' \in [Captured -> BOOLEAN]
    BY <1>0, <1>11 DEF RecordEvent, TypeOK
  <2> QED
    BY <1>0, <1>11, <2>1, EndTyped DEF RecordEvent, TypeOK
<1>12. CASE SaveUrl
  BY <1>0, <1>12 DEF SaveUrl, TypeOK, RowStates
<1>13. CASE DeleteUrl
  BY <1>0, <1>13 DEF DeleteUrl, TypeOK, RowStates
<1>14. CASE DeleteStoredFile
  BY <1>0, <1>14 DEF DeleteStoredFile, TypeOK, RowStates
<1>15. CASE UNCHANGED historyVars
  BY <1>0, <1>15 DEF historyVars, TypeOK
<1> QED
  BY <1>1, <1>2, <1>3, <1>4, <1>5, <1>6, <1>7, <1>8, <1>9, <1>10, <1>11, <1>12,
     <1>13, <1>14, <1>15 DEF Next, EnsureStep

-----------------------------------------------------------------------------
(* What the steps of a caller do to the callers.                             *)
LEMMA EndMeans ==
    ASSUME TypeOK, NEW c \in Callers, End(c)
    PROVE  \A d \in Callers :
             IF d = c THEN step'[d] = "idle" /\ knownUrl'[d] = None
             ELSE /\ step'[d] = step[d] /\ subject'[d] = subject[d]
                  /\ knownUrl'[d] = knownUrl[d] /\ ordinal'[d] = ordinal[d]
BY DEF TypeOK, End, Goto

LEMMA NextSubjects ==
    ASSUME ValuesApart, HistoryInv, [Next]_historyVars PROVE SubjectInv'
<1> USE DEF tables, Goto, Keep, Placing
<1>0. TypeOK /\ SubjectInv
  BY DEF HistoryInv
(* A caller that ends, or goes on with the file it has.                      *)
<1>1. ASSUME UNCHANGED <<stored, snapshot, revision>>,
             NEW c \in Callers, End(c)
      PROVE  SubjectInv'
  BY <1>0, <1>1, EndMeans DEF SubjectInv
<1>2. ASSUME UNCHANGED <<stored, snapshot, revision, subject>>,
             NEW c \in Callers, step[c] # "idle", NEW l, Goto(c, l),
             \A d \in Callers \ {c} : knownUrl'[d] = knownUrl[d],
             (l = "relink" \/ (l \in Placing /\ snapshot[subject[c]])) =>
                 knownUrl'[c] # None
      PROVE  SubjectInv'
  BY <1>0, <1>2 DEF TypeOK, SubjectInv
<1>3. ASSUME NEW c \in Callers, CaptureFile(c) PROVE SubjectInv'
  BY <1>0, <1>3 DEF CaptureFile, Begin, TypeOK, SubjectInv, ValuesApart
<1>4. ASSUME NEW c \in Callers, AskForRevision(c) PROVE SubjectInv'
  BY <1>0, <1>4 DEF AskForRevision, Begin, TypeOK, SubjectInv, ValuesApart
<1>5. ASSUME NEW c \in Callers, LookUpFile(c) PROVE SubjectInv'
  <2>1. CASE End(c)
    BY <1>1, <1>5, <2>1 DEF LookUpFile
  <2>2. CASE ~End(c)
    BY <1>0, <1>2, <1>5, <2>2 DEF LookUpFile, TypeOK
  <2> QED
    BY <2>1, <2>2
<1>6. ASSUME NEW c \in Callers, LookUpRevision(c) PROVE SubjectInv'
  <2>1. CASE End(c)
    BY <1>1, <1>6, <2>1 DEF LookUpRevision
  <2>2. CASE ~End(c)
    BY <1>2, <1>6, <2>2 DEF LookUpRevision
  <2> QED
    BY <2>1, <2>2
<1>7. ASSUME NEW c \in Callers, FindUrl(c) PROVE SubjectInv'
  <2>1. CASE LiveUrls = {}
    BY <1>2, <1>7, <2>1 DEF FindUrl
  <2>2. CASE LiveUrls # {}
    <3>1. PICK u \in LiveUrls : knownUrl' = [knownUrl EXCEPT ![c] = u]
      BY <1>7, <2>2 DEF FindUrl
    <3>2. u # None
      BY DEF LiveUrls, ValuesApart
    <3> QED
      BY <1>0, <1>2, <1>7, <2>2, <3>1, <3>2 DEF FindUrl, TypeOK
  <2> QED
    BY <2>1, <2>2
<1>8. ASSUME NEW c \in Callers, CreateUrl(c) PROVE SubjectInv'
  <2>1. CASE LiveUrls # {}
    BY <1>1, <1>8, <2>1 DEF CreateUrl
  <2>2. CASE LiveUrls = {}
    <3>1. PICK u \in UrlIds : knownUrl' = [knownUrl EXCEPT ![c] = u]
      BY <1>8, <2>2 DEF CreateUrl
    <3>2. u # None
      BY DEF ValuesApart
    <3> QED
      BY <1>0, <1>2, <1>8, <2>2, <3>1, <3>2 DEF CreateUrl, TypeOK
  <2> QED
    BY <2>1, <2>2
<1>9. ASSUME NEW c \in Callers, RelinkFile(c) PROVE SubjectInv'
  <2>1. CASE End(c)
    BY <1>1, <1>9, <2>1 DEF RelinkFile
  <2>2. CASE ~End(c)
    BY <1>0, <1>2, <1>9, <2>2 DEF RelinkFile, SubjectInv
  <2> QED
    BY <2>1, <2>2
<1>10. ASSUME NEW c \in Callers, EnsureDocument(c) PROVE SubjectInv'
  <2>1. CASE End(c)
    BY <1>1, <1>10, <2>1 DEF EnsureDocument
  <2>2. CASE ~End(c)
    BY <1>0, <1>2, <1>10, <2>2 DEF EnsureDocument, SubjectInv
  <2> QED
    BY <2>1, <2>2
<1>11. ASSUME NEW c \in Callers, ComputeOrdinal(c) PROVE SubjectInv'
  BY <1>0, <1>2, <1>11 DEF ComputeOrdinal, SubjectInv
<1>12. ASSUME NEW c \in Callers, CreateRevision(c) PROVE SubjectInv'
  <2>1. CASE revision' = revision
    <3>1. CASE End(c)
      BY <1>1, <1>12, <2>1, <3>1 DEF CreateRevision
    <3>2. CASE ~End(c)
      BY <1>2, <1>12, <2>1, <3>2 DEF CreateRevision
    <3> QED
      BY <3>1, <3>2
  <2>2. CASE revision' # revision
    <3>1. /\ stored[subject[c]] = "live" /\ UNCHANGED <<stored, snapshot>>
          /\ \A f \in Captured \ {subject[c]} : revision'[f] = revision[f]
      BY <1>0, <1>12, <2>2 DEF CreateRevision, TypeOK
    <3>2. \/ End(c)
          \/ step' = [step EXCEPT ![c] = "event"]
             /\ UNCHANGED <<subject, knownUrl>>
      BY <1>12, <2>2 DEF CreateRevision
    <3>3. CASE End(c)
      BY <1>0, <3>1, <3>3, EndMeans DEF SubjectInv
    <3>4. CASE step' = [step EXCEPT ![c] = "event"]
               /\ UNCHANGED <<subject, knownUrl>>
      <4>1. step[c] # "idle"
        BY <1>12 DEF CreateRevision
      <4> QED
        BY <1>0, <3>1, <3>4, <4>1 DEF SubjectInv, TypeOK
    <3> QED
      BY <3>2, <3>3, <3>4
  <2> QED
    BY <2>1, <2>2
<1>13. ASSUME NEW c \in Callers, RecordEvent(c) PROVE SubjectInv'
  BY <1>1, <1>13 DEF RecordEvent
<1>14. CASE SaveUrl \/ DeleteUrl \/ UNCHANGED historyVars
  <2>1. UNCHANGED <<stored, snapshot, revision, step, subject, knownUrl>>
    BY <1>14 DEF SaveUrl, DeleteUrl, historyVars
  <2> QED
    BY <1>0, <2>1 DEF SubjectInv
<1>15. CASE DeleteStoredFile
  BY <1>0, <1>15 DEF DeleteStoredFile, SubjectInv, TypeOK
<1> QED
  BY <1>3, <1>4, <1>5, <1>6, <1>7, <1>8, <1>9, <1>10, <1>11, <1>12, <1>13, <1>14,
     <1>15 DEF Next, EnsureStep

-----------------------------------------------------------------------------
(* The numbers.                                                              *)
Room(c) == Cardinality(RevisionsOf(DocumentKey(c))) + 1

LEMMA RoomNext ==
    ASSUME NEW c, NEW d, DocumentKey(c)' = d
    PROVE  Room(c)' = Cardinality(RevisionsOf(d)') + 1
BY DEF Room, RevisionsOf

LEMMA OrdinalsKept ==
    ASSUME OrdinalInv, UNCHANGED <<revision, snapshot, fileDeleted>>,
           \A c \in Callers : step'[c] = "create" =>
               /\ step[c] = "create" /\ subject'[c] = subject[c]
               /\ knownUrl'[c] = knownUrl[c] /\ ordinal'[c] = ordinal[c]
    PROVE  OrdinalInv'
<1>1. \A d : RevisionsOf(d)' = RevisionsOf(d) /\ OrdinalsOf(d)' = OrdinalsOf(d)
  BY DEF RevisionsOf, OrdinalsOf
<1>2. \A c \in Callers : step'[c] = "create" => DocumentKey(c)' = DocumentKey(c)
  BY DEF DocumentKey
<1> SUFFICES ASSUME ~fileDeleted'
             PROVE  /\ \A d \in Keys : OrdinalsOf(d)'
                                         = 1..Cardinality(RevisionsOf(d)')
                    /\ \A c \in Callers : step'[c] = "create" =>
                         ordinal'[c] \in 1..Room(c)'
  BY DEF OrdinalInv, Keys, Room
<1>3. ASSUME NEW c \in Callers, step'[c] = "create"
      PROVE  ordinal'[c] \in 1..Room(c)'
  <2>1. ordinal'[c] \in 1..Room(c)
    BY <1>3 DEF OrdinalInv, Room
  <2>2. PICK d : d = DocumentKey(c)
    OBVIOUS
  <2>3. Room(c)' = Cardinality(RevisionsOf(d)') + 1
    BY <1>2, <1>3, <2>2, RoomNext
  <2>4. Room(c) = Cardinality(RevisionsOf(d)) + 1
    BY <2>2 DEF Room
  <2> QED
    BY <1>1, <2>1, <2>3, <2>4
<1> QED
  BY <1>1, <1>3 DEF OrdinalInv

LEMMA NextOrdinals ==
    ASSUME ValuesApart, HistoryInv, [Next]_historyVars PROVE OrdinalInv'
<1> USE DEF tables, Goto, Keep
<1>0. TypeOK /\ SubjectInv /\ OrdinalInv
  BY DEF HistoryInv
<1>1. ASSUME NEW c \in Callers, ComputeOrdinal(c) PROVE OrdinalInv'
  <2>1. PICK d \in Keys : d = DocumentKey(c)
    BY <1>0, <1>1, SubjectTyped DEF ComputeOrdinal, Placing
  <2>2. /\ UNCHANGED <<revision, snapshot, subject, knownUrl, fileDeleted>>
        /\ ordinal' = [ordinal EXCEPT ![c] = NextOrdinal(d)]
        /\ \A e \in Callers \ {c} : step'[e] = step[e]
    BY <1>0, <1>1, <2>1 DEF ComputeOrdinal, TypeOK
  <2>3. \A e : RevisionsOf(e)' = RevisionsOf(e) /\ OrdinalsOf(e)' = OrdinalsOf(e)
    BY <2>2 DEF RevisionsOf, OrdinalsOf
  <2>4. \A e \in Callers : Room(e)' = Room(e)
    BY <2>2 DEF Room, RevisionsOf, DocumentKey
  <2>5. /\ ordinal'[c] = NextOrdinal(d)
        /\ \A e \in Callers \ {c} : ordinal'[e] = ordinal[e]
    BY <1>0, <2>2 DEF TypeOK
  <2>6. ASSUME ~fileDeleted PROVE ordinal'[c] \in 1..Room(c)
    <3>1. OrdinalsOf(d) = 1..Cardinality(RevisionsOf(d))
      BY <1>0, <2>1, <2>6 DEF OrdinalInv
    <3>2. NextOrdinal(d) = Room(c)
      BY <2>1, <3>1, NextOrdinalFollows DEF Room
    <3>3. Room(c) \in Nat \ {0}
      BY <2>1, RevisionsFinite DEF Room
    <3> QED
      BY <2>5, <3>2, <3>3
  <2>7. ASSUME ~fileDeleted, NEW e \in Callers, step'[e] = "create"
        PROVE  ordinal'[e] \in 1..Room(e)'
    <3>1. CASE e = c
      BY <2>4, <2>6, <2>7, <3>1
    <3>2. CASE e # c
      BY <1>0, <2>2, <2>4, <2>5, <2>7, <3>2 DEF OrdinalInv, Room
    <3> QED
      BY <3>1, <3>2
  <2> QED
    BY <1>0, <2>2, <2>3, <2>7 DEF OrdinalInv, Room, Keys
<1>2. ASSUME NEW c \in Callers, CreateRevision(c), revision' # revision
      PROVE  OrdinalInv'
  <2>1. /\ DocumentKey(c) \in Keys /\ subject[c] \in Captured
        /\ ordinal[c] \in Nat
        /\ revision \in [Captured -> Revisions \cup {None}]
    BY <1>0, <1>2, SubjectTyped DEF CreateRevision, Placing, TypeOK
  <2> PICK d \in Keys : d = DocumentKey(c)
    BY <2>1
  <2> PICK n : n = Cardinality(RevisionsOf(d))
    OBVIOUS
  <2>2. d = DocumentKey(c) /\ n = Cardinality(RevisionsOf(d))
    OBVIOUS
  <2>3. PICK f \in Captured, o \in Nat : f = subject[c] /\ o = ordinal[c]
    BY <2>1
  <2>4. /\ revision[f] = None /\ o \notin OrdinalsOf(d)
        /\ revision' = [revision EXCEPT ![f] = [document |-> d, ordinal |-> o]]
        /\ UNCHANGED <<snapshot, fileDeleted>>
        /\ End(c) \/ (Goto(c, "event") /\ Keep(c))
    BY <1>2, <2>2, <2>3 DEF CreateRevision
  <2>5. Writes(f, d, o)
    BY <2>1, <2>4 DEF Revisions, Writes
  <2>6. /\ Cardinality(RevisionsOf(d)') = n + 1
        /\ OrdinalsOf(d)' = OrdinalsOf(d) \cup {o}
        /\ \A e : e # d => /\ RevisionsOf(e)' = RevisionsOf(e)
                           /\ OrdinalsOf(e)' = OrdinalsOf(e)
    BY <2>2, <2>5, RevisionAdded
  <2>7. n \in Nat
    BY <2>2, RevisionsFinite
  <2>8. \A e \in Callers : step'[e] = "create" =>
           /\ step[e] = "create" /\ ordinal'[e] = ordinal[e]
           /\ DocumentKey(e)' = DocumentKey(e)
    <3>1. CASE End(c)
      BY <1>0, <2>4, <3>1, EndMeans DEF DocumentKey
    <3>2. CASE Goto(c, "event") /\ Keep(c)
      BY <1>0, <2>4, <3>2 DEF DocumentKey, TypeOK
    <3> QED
      BY <2>4, <3>1, <3>2
  <2> SUFFICES ASSUME ~fileDeleted
               PROVE  /\ \A e \in Keys : OrdinalsOf(e)'
                                           = 1..Cardinality(RevisionsOf(e)')
                      /\ \A e \in Callers : step'[e] = "create" =>
                           ordinal'[e] \in 1..Room(e)'
    BY <2>4 DEF OrdinalInv, Keys, Room
  <2>9. /\ OrdinalsOf(d) = 1..n /\ o \in 1..(n + 1)
        /\ \A e \in Keys : OrdinalsOf(e) = 1..Cardinality(RevisionsOf(e))
        /\ \A e \in Callers : step[e] = "create" => ordinal[e] \in 1..Room(e)
    BY <1>0, <1>2, <2>2, <2>3 DEF OrdinalInv, CreateRevision, Room
  <2>10. OrdinalsOf(d)' = 1..Cardinality(RevisionsOf(d)')
    <3>1. o = n + 1
      BY <2>4, <2>7, <2>9
    <3>2. 1..(n + 1) = (1..n) \cup {n + 1}
      BY <2>7
    <3> QED
      BY <2>6, <2>9, <3>1, <3>2
  <2>11. ASSUME NEW e \in Callers, step'[e] = "create"
         PROVE  ordinal'[e] \in 1..Room(e)'
    <3>1. PICK k : k = DocumentKey(e)
      OBVIOUS
    <3>2. /\ ordinal'[e] \in 1..(Cardinality(RevisionsOf(k)) + 1)
          /\ DocumentKey(e)' = k
      BY <2>8, <2>9, <2>11, <3>1 DEF Room
    <3>3. Room(e)' = Cardinality(RevisionsOf(k)') + 1
      BY <3>2, RoomNext
    <3>4. CASE k = d
      <4>1. ordinal'[e] \in 1..(n + 1)
        BY <2>2, <3>2, <3>4
      <4>2. ordinal'[e] \in 1..(n + 1 + 1)
        BY <2>7, <4>1
      <4> QED
        BY <2>6, <3>3, <3>4, <4>2
    <3>5. CASE k # d
      BY <2>6, <3>2, <3>3, <3>5
    <3> QED
      BY <3>4, <3>5
  <2> QED
    BY <2>6, <2>9, <2>10, <2>11
<1>3. ASSUME NEW c \in Callers, End(c), UNCHANGED <<revision, snapshot, fileDeleted>>
      PROVE  OrdinalInv'
  BY <1>0, <1>3, EndMeans, OrdinalsKept
<1>4. ASSUME NEW c \in Callers, NEW l, Goto(c, l), l # "create",
             UNCHANGED <<revision, snapshot, fileDeleted, ordinal>>,
             \A e \in Callers \ {c} : subject'[e] = subject[e]
                                     /\ knownUrl'[e] = knownUrl[e]
      PROVE  OrdinalInv'
  <2>1. \A e \in Callers : step'[e] = "create" => e # c /\ step[e] = "create"
    BY <1>0, <1>4 DEF TypeOK
  <2> QED
    BY <1>0, <1>4, <2>1, OrdinalsKept
<1>5. ASSUME NEW c \in Callers, CaptureFile(c) \/ AskForRevision(c)
      PROVE  OrdinalInv'
  <2>1. /\ Goto(c, "look") /\ UNCHANGED <<revision, snapshot, fileDeleted,
                                          ordinal, knownUrl>>
        /\ \A e \in Callers \ {c} : subject'[e] = subject[e]
    BY <1>0, <1>5 DEF CaptureFile, AskForRevision, Begin, TypeOK
  <2> QED
    BY <1>4, <2>1
<1>6. ASSUME NEW c \in Callers,
             LookUpFile(c) \/ LookUpRevision(c) \/ FindUrl(c) \/ CreateUrl(c)
             \/ RelinkFile(c) \/ EnsureDocument(c) \/ RecordEvent(c)
             \/ (CreateRevision(c) /\ revision' = revision)
      PROVE  OrdinalInv'
  <2>1. UNCHANGED <<revision, snapshot, fileDeleted>>
    BY <1>6 DEF LookUpFile, LookUpRevision, FindUrl, CreateUrl, RelinkFile,
       EnsureDocument, RecordEvent, CreateRevision
  <2>2. CASE End(c)
    BY <1>3, <2>1, <2>2
  <2>3. CASE ~End(c)
    <3>1. UNCHANGED <<ordinal, subject>>
      BY <1>6, <2>3 DEF LookUpFile, LookUpRevision, FindUrl, CreateUrl,
         RelinkFile, EnsureDocument, RecordEvent, CreateRevision
    <3>2. \E l \in Steps \ {"create"} : Goto(c, l)
      BY <1>6, <2>3 DEF LookUpFile, LookUpRevision, FindUrl, CreateUrl,
         RelinkFile, EnsureDocument, RecordEvent, CreateRevision, Steps
    <3>3. \A e \in Callers \ {c} : knownUrl'[e] = knownUrl[e]
      BY <1>0, <1>6, <2>3 DEF LookUpFile, LookUpRevision, FindUrl, CreateUrl,
         RelinkFile, EnsureDocument, RecordEvent, CreateRevision, TypeOK
    <3> QED
      BY <1>4, <2>1, <3>1, <3>2, <3>3
  <2> QED
    BY <2>2, <2>3
<1>7. CASE SaveUrl \/ DeleteUrl \/ UNCHANGED historyVars
  <2>1. UNCHANGED <<revision, snapshot, fileDeleted, step, subject, knownUrl,
                    ordinal>>
    BY <1>7 DEF SaveUrl, DeleteUrl, historyVars
  <2> QED
    BY <1>0, <2>1, OrdinalsKept
<1>8. CASE DeleteStoredFile
  BY <1>8 DEF DeleteStoredFile, OrdinalInv
<1> QED
  BY <1>1, <1>2, <1>5, <1>6, <1>7, <1>8 DEF Next, EnsureStep

-----------------------------------------------------------------------------
(* The addresses.                                                            *)
LEMMA NoRowNoLink ==
    ASSUME ValuesApart, TypeOK, SubjectInv, AddressInv, ~urlDeleted,
           LiveUrls = {}
    PROVE  /\ \A f \in Captured : urlOf[f] = None
           /\ \A c \in Callers : knownUrl[c] = None /\ ~FoundUrl(c)
           /\ \A f \in Captured : revision[f] = None \/ ~snapshot[f]
<1>1. /\ \A f \in Captured : urlOf[f] = None
      /\ \A c \in Callers : knownUrl[c] = None
  BY DEF AddressInv
<1>2. \A c \in Callers : ~FoundUrl(c)
  <2>1. \A c \in Callers : FoundUrl(c) => subject[c] \in Captured
    BY SubjectTyped DEF FoundUrl, Placing
  <2> QED
    BY <1>1, <2>1 DEF AddressInv
<1>3. ASSUME NEW f \in Captured, revision[f] # None, snapshot[f] PROVE FALSE
  <2>1. revision[f].document = None
    BY <1>1, <1>3 DEF AddressInv
  <2>2. revision[f].document \in UrlIds \cup Captured
    BY <1>3 DEF TypeOK, Revisions, Keys
  <2> QED
    BY <2>1, <2>2 DEF ValuesApart
<1> QED
  BY <1>1, <1>2, <1>3

LEMMA NextAddress ==
    ASSUME ValuesApart, HistoryInv, [Next]_historyVars PROVE AddressInv'
<1> USE DEF tables, Goto, Keep
<1>0. TypeOK /\ SubjectInv /\ AddressInv
  BY DEF HistoryInv
(* Only one caller moves.                                                    *)
<1>1. ASSUME UNCHANGED <<url, urlOf, revision, snapshot, urlDeleted>>,
             NEW c \in Callers,
             \A e \in Callers \ {c} : /\ step'[e] = step[e]
                                      /\ subject'[e] = subject[e]
                                      /\ knownUrl'[e] = knownUrl[e],
             ~urlDeleted /\ knownUrl'[c] # None => knownUrl'[c] \in LiveUrls,
             ~urlDeleted /\ FoundUrl(c)' => urlOf[subject'[c]] # None
      PROVE  AddressInv'
  <2>1. \A e \in Callers \ {c} : FoundUrl(e)' = FoundUrl(e)
    BY <1>1 DEF FoundUrl, Placing
  <2>2. LiveUrls' = LiveUrls
    BY <1>1 DEF LiveUrls
  <2> QED
    BY <1>0, <1>1, <2>1, <2>2 DEF AddressInv
<1>2. ASSUME UNCHANGED <<url, urlOf, revision, snapshot, urlDeleted>>,
             NEW c \in Callers, End(c)
      PROVE  AddressInv'
  <2>1. ~FoundUrl(c)' /\ knownUrl'[c] = None
    BY <1>0, <1>2, EndMeans DEF FoundUrl, Placing
  <2> QED
    BY <1>0, <1>1, <1>2, <2>1, EndMeans
(* A row for the address is created only where there is none.                *)
<1>3. ASSUME LiveUrls = {}, NEW u \in UrlIds, url' = [url EXCEPT ![u] = "live"],
             UNCHANGED <<urlOf, revision, snapshot, urlDeleted>>,
             \A e \in Callers : knownUrl'[e] \in {knownUrl[e], u},
             \A e \in Callers : FoundUrl(e)' => FoundUrl(e)
      PROVE  AddressInv'
  <2>1. LiveUrls' = {u}
    BY <1>0, <1>3 DEF LiveUrls, TypeOK
  <2> SUFFICES ASSUME ~urlDeleted PROVE AddressInv'
    BY <1>3 DEF AddressInv
  <2> QED
    BY <1>0, <1>3, <2>1, NoRowNoLink DEF AddressInv
<1>4. ASSUME NEW c \in Callers, CaptureFile(c) PROVE AddressInv'
  <2>1. PICK f \in Captured, u \in LiveUrls \cup {None} :
          /\ stored[f] = "absent" /\ urlOf' = [urlOf EXCEPT ![f] = u]
          /\ step' = [step EXCEPT ![c] = "look"]
          /\ subject' = [subject EXCEPT ![c] = f]
          /\ UNCHANGED <<url, snapshot, revision, knownUrl, urlDeleted>>
    BY <1>4 DEF CaptureFile, Begin
  <2>2. revision[f] = None /\ \A e \in Callers : step[e] # "idle" => subject[e] # f
    BY <1>0, <2>1 DEF SubjectInv
  <2>3. LiveUrls' = LiveUrls
    BY <2>1 DEF LiveUrls
  <2>4. \A e \in Callers : FoundUrl(e)' =>
           FoundUrl(e) /\ subject'[e] = subject[e] /\ subject[e] # f
    BY <1>0, <2>1, <2>2 DEF FoundUrl, Placing, TypeOK
  <2>5. \A e \in Callers : FoundUrl(e) => subject[e] \in Captured
    BY <1>0, SubjectTyped DEF FoundUrl, Placing
  <2> QED
    BY <1>0, <2>1, <2>2, <2>3, <2>4, <2>5 DEF AddressInv, TypeOK
<1>5. ASSUME NEW c \in Callers, AskForRevision(c) PROVE AddressInv'
  <2>1. ~FoundUrl(c)'
    BY <1>0, <1>5 DEF AskForRevision, Begin, FoundUrl, Placing, TypeOK
  <2> QED
    BY <1>0, <1>1, <1>5, <2>1 DEF AskForRevision, Begin, TypeOK, AddressInv
<1>6. ASSUME NEW c \in Callers, LookUpFile(c), ~End(c) PROVE AddressInv'
  <2>1. subject[c] \in Captured
    BY <1>0, <1>6, SubjectTyped DEF LookUpFile
  <2>2. knownUrl'[c] = urlOf[subject[c]] /\ step'[c] = "linked"
    BY <1>0, <1>6 DEF LookUpFile, TypeOK
  <2>3. FoundUrl(c)' => urlOf[subject[c]] # None
    BY <2>2 DEF FoundUrl, Placing
  <2> QED
    BY <1>0, <1>1, <1>6, <2>1, <2>2, <2>3 DEF LookUpFile, TypeOK, AddressInv
<1>7. ASSUME NEW c \in Callers, ~End(c),
             LookUpRevision(c) \/ EnsureDocument(c) \/ ComputeOrdinal(c)
      PROVE  AddressInv'
  <2>1. /\ UNCHANGED <<url, urlOf, revision, snapshot, urlDeleted, subject,
                       knownUrl>>
        /\ \A e \in Callers \ {c} : step'[e] = step[e]
    BY <1>0, <1>7 DEF LookUpRevision, EnsureDocument, ComputeOrdinal, TypeOK
  <2>2. FoundUrl(c)' => FoundUrl(c)
    BY <1>0, <1>7 DEF LookUpRevision, EnsureDocument, ComputeOrdinal, FoundUrl,
       Placing, TypeOK
  <2> QED
    BY <1>0, <1>1, <2>1, <2>2 DEF AddressInv
<1>8. ASSUME NEW c \in Callers, FindUrl(c) PROVE AddressInv'
  <2>1. UNCHANGED <<url, urlOf, revision, snapshot, urlDeleted, subject>>
    BY <1>8 DEF FindUrl
  <2>2. knownUrl'[c] \in LiveUrls \cup {knownUrl[c]} /\ ~FoundUrl(c)'
    BY <1>0, <1>8 DEF FindUrl, FoundUrl, Placing, TypeOK
  <2>3. \A e \in Callers \ {c} : step'[e] = step[e] /\ knownUrl'[e] = knownUrl[e]
    BY <1>0, <1>8 DEF FindUrl, TypeOK
  <2> QED
    BY <1>0, <1>1, <2>1, <2>2, <2>3 DEF AddressInv
<1>9. ASSUME NEW c \in Callers, CreateUrl(c) PROVE AddressInv'
  <2>1. CASE LiveUrls # {}
    BY <1>2, <1>9, <2>1 DEF CreateUrl
  <2>2. CASE LiveUrls = {}
    <3>1. PICK u \in UrlIds : /\ url' = [url EXCEPT ![u] = "live"]
                              /\ knownUrl' = [knownUrl EXCEPT ![c] = u]
                              /\ step' = [step EXCEPT ![c] = "relink"]
                              /\ subject' = subject
      BY <1>9, <2>2 DEF CreateUrl
    <3>2. \A e \in Callers : FoundUrl(e)' => FoundUrl(e)
      BY <1>0, <1>9, <3>1 DEF CreateUrl, FoundUrl, Placing, TypeOK
    <3>3. \A e \in Callers : knownUrl'[e] \in {knownUrl[e], u}
      BY <1>0, <3>1 DEF TypeOK
    <3> QED
      BY <1>3, <1>9, <2>2, <3>1, <3>2, <3>3 DEF CreateUrl
  <2> QED
    BY <2>1, <2>2
<1>10. ASSUME NEW c \in Callers, RelinkFile(c), ~End(c) PROVE AddressInv'
  <2>1. PICK f \in Captured : f = subject[c]
    BY <1>0, <1>10, SubjectTyped DEF RelinkFile
  <2>2. /\ urlOf' = [urlOf EXCEPT ![f] = knownUrl[c]]
        /\ step' = [step EXCEPT ![c] = "document"]
        /\ UNCHANGED <<url, revision, snapshot, urlDeleted, subject, knownUrl>>
    BY <1>10, <2>1 DEF RelinkFile
  <2>3. knownUrl[c] # None
    BY <1>0, <1>10 DEF RelinkFile, SubjectInv
  <2>4. LiveUrls' = LiveUrls
    BY <2>2 DEF LiveUrls
  <2>5. \A e \in Callers : FoundUrl(e)' => FoundUrl(e) \/ e = c
    BY <1>0, <2>2 DEF FoundUrl, Placing, TypeOK
  <2>6. revision[f] # None => revision[f].document \in Keys
    BY <1>0, <2>1 DEF TypeOK, Revisions
  <2> SUFFICES ASSUME ~urlDeleted PROVE AddressInv'
    BY <2>2 DEF AddressInv
  <2>7. revision[f] # None /\ snapshot[f] => urlOf[f] = knownUrl[c]
    BY <1>0, <2>1, <2>3, <2>6 DEF AddressInv, ValuesApart, Keys
  <2>8. \A e \in Callers : FoundUrl(e) => subject[e] \in Captured
    BY <1>0, SubjectTyped DEF FoundUrl, Placing
  <2> QED
    BY <1>0, <2>1, <2>2, <2>3, <2>4, <2>5, <2>7, <2>8 DEF AddressInv, TypeOK
<1>11. ASSUME NEW c \in Callers, CreateRevision(c), revision' # revision
       PROVE  AddressInv'
  <2>1. PICK f \in Captured, d \in Keys : f = subject[c] /\ d = DocumentKey(c)
    BY <1>0, <1>11, SubjectTyped DEF CreateRevision, Placing
  <2>2. /\ revision' = [revision EXCEPT ![f] =
                          [document |-> d, ordinal |-> ordinal[c]]]
        /\ UNCHANGED <<url, urlOf, snapshot, urlDeleted>>
        /\ step[c] = "create"
    BY <1>11, <2>1 DEF CreateRevision
  <2>3. \A e \in Callers : /\ FoundUrl(e)' => FoundUrl(e) /\ subject'[e] = subject[e]
                           /\ knownUrl'[e] \in {None, knownUrl[e]}
    <3>1. CASE End(c)
      BY <1>0, <2>2, <3>1, EndMeans DEF FoundUrl, Placing
    <3>2. CASE ~End(c)
      BY <1>0, <1>11, <2>2, <3>2 DEF CreateRevision, FoundUrl, Placing, TypeOK
    <3> QED
      BY <3>1, <3>2
  <2>4. LiveUrls' = LiveUrls
    BY <2>2 DEF LiveUrls
  <2> SUFFICES ASSUME ~urlDeleted PROVE AddressInv'
    BY <2>2 DEF AddressInv
  <2>5. snapshot[f] => d = urlOf[f]
    <3>1. ASSUME snapshot[f] PROVE d = knownUrl[c] /\ d # None /\ FoundUrl(c)
      BY <1>0, <2>1, <2>2, <3>1 DEF DocumentKey, SubjectInv, FoundUrl, Placing
    <3> QED
      BY <1>0, <2>1, <3>1 DEF AddressInv
  <2>6. \A g \in Captured : revision'[g] = IF g = f
               THEN [document |-> d, ordinal |-> ordinal[c]] ELSE revision[g]
    BY <1>0, <2>2 DEF TypeOK
  <2> QED
    BY <1>0, <2>2, <2>3, <2>4, <2>5, <2>6 DEF AddressInv
<1>12. ASSUME NEW c \in Callers, CreateRevision(c), revision' = revision, ~End(c)
       PROVE  AddressInv'
  <2>1. /\ Goto(c, "event") /\ Keep(c)
        /\ UNCHANGED <<url, urlOf, snapshot, urlDeleted>>
    BY <1>12 DEF CreateRevision
  <2>2. step'[c] = "event" /\ \A e \in Callers \ {c} : step'[e] = step[e]
    BY <1>0, <2>1 DEF TypeOK
  <2>3. ~FoundUrl(c)'
    BY <2>2 DEF FoundUrl, Placing
  <2> QED
    BY <1>0, <1>1, <1>12, <2>1, <2>2, <2>3 DEF AddressInv
<1>13. ASSUME NEW c \in Callers, End(c),
              LookUpFile(c) \/ LookUpRevision(c) \/ RelinkFile(c)
              \/ EnsureDocument(c) \/ RecordEvent(c)
              \/ (CreateRevision(c) /\ revision' = revision)
       PROVE  AddressInv'
  <2>0. step'[c] # "document"
    BY <1>0, <1>13, EndMeans
  <2>1. UNCHANGED <<url, urlOf, revision, snapshot, urlDeleted>>
    BY <1>0, <1>13, <2>0 DEF TypeOK, LookUpFile, LookUpRevision, RelinkFile, EnsureDocument,
       RecordEvent, CreateRevision
  <2> QED
    BY <1>2, <1>13, <2>1
<1>14. CASE SaveUrl
  <2>1. /\ LiveUrls = {} /\ \E u \in UrlIds : url' = [url EXCEPT ![u] = "live"]
        /\ UNCHANGED <<urlOf, revision, snapshot, urlDeleted, knownUrl, step,
                       subject>>
    BY <1>14 DEF SaveUrl
  <2>2. \A e \in Callers : FoundUrl(e)' = FoundUrl(e)
    BY <2>1 DEF FoundUrl, Placing
  <2> QED
    BY <1>3, <2>1, <2>2
<1>15. CASE DeleteUrl
  BY <1>15 DEF DeleteUrl, AddressInv
<1>16. CASE DeleteStoredFile \/ UNCHANGED historyVars
  <2>1. /\ UNCHANGED <<url, urlOf, snapshot, urlDeleted, knownUrl, step, subject>>
        /\ \A f \in Captured : revision'[f] \in {None, revision[f]}
    BY <1>0, <1>16 DEF DeleteStoredFile, historyVars, TypeOK
  <2>2. LiveUrls' = LiveUrls /\ \A e \in Callers : FoundUrl(e)' = FoundUrl(e)
    BY <2>1 DEF FoundUrl, Placing, LiveUrls
  <2> QED
    BY <1>0, <2>1, <2>2 DEF AddressInv
<1> QED
  <2>1. ASSUME NEW c \in Callers, ComputeOrdinal(c), End(c) PROVE FALSE
    <3>1. step'[c] = "create"
      BY <1>0, <2>1 DEF ComputeOrdinal, TypeOK
    <3>2. step'[c] = "idle"
      BY <1>0, <2>1, EndMeans
    <3> QED
      BY <3>1, <3>2
  <2>2. ASSUME NEW c \in Callers, RecordEvent(c) PROVE AddressInv'
    BY <1>13, <2>2 DEF RecordEvent
  <2>3. ASSUME NEW c \in Callers, EnsureStep(c), End(c) PROVE AddressInv'
    BY <1>8, <1>9, <1>11, <1>13, <2>1, <2>3 DEF EnsureStep
  <2>4. ASSUME NEW c \in Callers, EnsureStep(c), ~End(c) PROVE AddressInv'
    BY <1>6, <1>7, <1>8, <1>9, <1>10, <1>11, <1>12, <2>4 DEF EnsureStep
  <2> QED
    BY <1>4, <1>5, <1>14, <1>15, <1>16, <2>2, <2>3, <2>4 DEF Next

-----------------------------------------------------------------------------
LEMMA InitInv == ASSUME ValuesApart PROVE Init => HistoryInv
<1> SUFFICES ASSUME Init PROVE HistoryInv
  OBVIOUS
<1>1. TypeOK
  BY DEF Init, TypeOK, RowStates, Steps
<1>2. SubjectInv /\ AddressInv
  BY DEF Init, SubjectInv, AddressInv, LiveUrls, FoundUrl, Placing
<1>3. \A d : RevisionsOf(d) = {} /\ OrdinalsOf(d) = {}
  BY DEF Init, RevisionsOf, OrdinalsOf
<1>4. 1..Cardinality({}) = {}
  BY FS_EmptySet
<1>5. OrdinalInv
  BY <1>3, <1>4 DEF Init, OrdinalInv
<1> QED
  BY <1>1, <1>2, <1>5 DEF HistoryInv

LEMMA NextInv ==
    ASSUME ValuesApart PROVE HistoryInv /\ [Next]_historyVars => HistoryInv'
BY NextTyped, NextOrdinals, NextSubjects, NextAddress DEF HistoryInv

(* The inductive invariant of the revision history holds, whatever captures, *)
(* repairs and deletions run at once.                                        *)
THEOREM HistoryInvariance == ASSUME ValuesApart PROVE Spec => []HistoryInv
BY InitInv, NextInv, PTL DEF Spec

(* The revisions of a document are numbered without a gap until a file is    *)
(* deleted, and a snapshot is one of its Url row's until a Url row is.       *)
THEOREM RevisionsStayInOrder ==
    ASSUME ValuesApart PROVE Spec => []RevisionsInOrder
<1>1. HistoryInv => RevisionsInOrder
  BY DEF HistoryInv, TypeOK, OrdinalInv, AddressInv, RevisionsInOrder,
     NoOrdinalGaps, SnapshotInItsDocument
<1> QED
  BY <1>1, HistoryInvariance, PTL
-----------------------------------------------------------------------------
(* Governance rows.                                                          *)
LEMMA MentionTyped ==
    ASSUME NEW m \in Mentions
    PROVE  /\ Len(m) \in Nat /\ (Len(m) = 0 <=> m = <<>>)
           /\ \A i \in 1..Len(m) : m[i] \in Agencies
<1>1. CASE m = <<>>
  BY <1>1
<1>2. CASE \E a \in Agencies : m = <<a>>
  BY <1>2
<1>3. CASE \E a, b \in Agencies : m = <<a, b>>
  BY <1>3
<1> QED
  BY <1>1, <1>2, <1>3 DEF Mentions

(* A URL's result is for the latest snapshot outside the trash.              *)
LEMMA SubjectIsKnown ==
    ASSUME ProjectionTypeOK, NEW t \in Results
    PROVE  /\ about[t] # UrlRow => SubjectOf(t) = about[t]
           /\ about[t] = UrlRow => SubjectOf(t) \in {Nothing} \cup (Known \cap Snapshots)
<1> DEFINE live == {i \in DOMAIN captured : captured[i] \in linked \ trashed}
<1>1. about[t] # UrlRow => SubjectOf(t) = about[t]
  BY DEF SubjectOf
<1>2. ASSUME live # {} PROVE \E i \in live : \A j \in live : j <= i
  <2>1. live \subseteq 1..Len(captured) /\ Len(captured) \in Nat
    BY DEF ProjectionTypeOK
  <2>2. IsFiniteSet(live)
    BY <2>1, FS_Interval, FS_Subset
  <2> DEFINE rank == [i \in live |-> i]
  <2>3. rank \in [live -> Nat]
    BY <2>1
  <2>4. PICK i \in live : \A j \in live : rank[j] <= rank[i]
    <3> HIDE DEF live, rank
    <3> QED
      BY <1>2, <2>2, <2>3, HasHighest
  <2> QED
    BY <2>4
<1> QED
  <2>1. CASE live = {}
    <3>1. about[t] = UrlRow => SubjectOf(t) = Nothing
      BY <2>1 DEF SubjectOf, LatestRevision
    <3> QED
      BY <1>1, <3>1
  <2>2. CASE live # {}
    <3> DEFINE last == CHOOSE i \in live : \A j \in live : j <= i
    <3>1. last \in live
      BY <1>2, <2>2
    <3>2. about[t] = UrlRow => SubjectOf(t) = captured[last]
      BY <2>2 DEF SubjectOf, LatestRevision
    <3>3. captured[last] \in Known \cap Snapshots
      <4>1. last \in DOMAIN captured
        BY <3>1
      <4> HIDE DEF last
      <4> QED
        BY <4>1 DEF Known, ProjectionTypeOK
    <3> HIDE DEF last
    <3> QED
      BY <1>1, <3>2, <3>3
  <2> HIDE DEF live
  <2> QED
    BY <2>1, <2>2

LEMMA ProjectionStarts == ProjectionInit => ProjectionInv
<1> SUFFICES ASSUME ProjectionInit PROVE ProjectionInv
  OBVIOUS
<1>1. ProjectionTypeOK
  <2>1. \A t \in Results : Len(names[t]) \in Nat
    BY MentionTyped DEF ProjectionInit
  <2>2. /\ linked \subseteq Snapshots /\ trashed \subseteq Snapshots
        /\ trace \subseteq Traces /\ agency \subseteq Agencies
    BY DEF ProjectionInit
  <2>5. captured \in Seq(Snapshots)
    BY DEF ProjectionInit
  <2>6. {overlapped, deleted} \subseteq BOOLEAN
    BY DEF ProjectionInit
  <2>3. /\ outcome \in [Rows -> {Nothing, Failed} \cup Results]
        /\ about \in [Results -> Rows] /\ names \in [Results -> Mentions]
        /\ phase \in [Results -> Phases]
        /\ traceSubject \in [Results -> {Nothing} \cup Snapshots]
    BY DEF ProjectionInit, Phases
  <2>4. /\ doomed \in [Results -> {Nothing} \cup SUBSET Traces]
        /\ named \in [Results -> Nat] /\ \A t \in Results : named[t] = 0
        /\ locked \in [Results -> SUBSET (Rows \cup Agencies \cup Traces)]
    BY DEF ProjectionInit
  <2> QED
    BY <2>1, <2>2, <2>3, <2>4, <2>5, <2>6 DEF ProjectionTypeOK
<1>2. RowsInv
  BY DEF ProjectionInit, RowsInv, Writing
<1>3. SubjectsInv
  BY ProjectionAssumption DEF ProjectionInit, SubjectsInv, Known, Rows
<1>4. FoundInv
  BY DEF ProjectionInit, FoundInv, Found
<1>5. ReplacedInv /\ OutcomeHasTraces
  BY DEF ProjectionInit, ReplacedInv, OutcomeHasTraces, OneEach, OfSubject
<1> QED
  BY <1>1, <1>2, <1>3, <1>4, <1>5 DEF ProjectionInv
-----------------------------------------------------------------------------
(* A snapshot nobody has seen yet has no traces, no result and no job.       *)
LEMMA CaptureKeeps ==
    ASSUME ProjectionInv, CaptureSnapshot PROVE ProjectionInv'
<1> USE DEF ProjectionInv
<1>1. PICK s \in Snapshots :
        /\ \A i \in DOMAIN captured : captured[i] # s
        /\ captured' = Append(captured, s)
        /\ linked' = linked \cup {s}
  BY DEF CaptureSnapshot
<1>2. UNCHANGED <<trashed, outcome, trace, agency, about, names, txVars, overlapped,
                  deleted>>
  BY DEF CaptureSnapshot
<1>3. ProjectionTypeOK'
  BY <1>1, <1>2 DEF ProjectionTypeOK, txVars
<1>4. RowsInv'
  BY <1>2 DEF RowsInv, txVars
<1>5. Known' = Known \cup {s} /\ s \notin Known
  <2>1. captured \in Seq(Snapshots)
    BY DEF ProjectionTypeOK
  <2>2. /\ DOMAIN captured' = DOMAIN captured \cup {Len(captured) + 1}
        /\ \A i \in DOMAIN captured : captured'[i] = captured[i]
        /\ captured'[Len(captured) + 1] = s
    BY <1>1, <2>1
  <2>3. s # UrlRow /\ s # Nothing
    BY ProjectionAssumption DEF Rows
  <2> QED
    BY <1>1, <2>2, <2>3 DEF Known
<1>6. SubjectsInv'
  BY <1>1, <1>2, <1>5 DEF SubjectsInv, txVars, Trace
<1>7. OfSubject(s) = {} /\ \A t \in Results : traceSubject[t] # s
  <2>1. s # Nothing
    BY ProjectionAssumption DEF Rows
  <2> QED
    BY <1>5, <2>1 DEF SubjectsInv, OfSubject
<1>8. FoundInv'
  <2>1. \A t \in Results : (FindsAll(t) <=> FindsAll(t)') /\ (Found(t) <=> Found(t)')
    BY <1>2 DEF FindsAll, Found, OfSubject, txVars
  <2>2. UrlCommitted' <=> UrlCommitted
    BY <1>2 DEF UrlCommitted, txVars
  <2>3. \A t \in Results : Found(t) /\ about[t] # UrlRow => about[t] # s
    BY <1>7 DEF SubjectsInv, Found
  <2> QED
    BY <1>1, <1>2, <1>7, <2>1, <2>2, <2>3 DEF FoundInv, txVars
<1>9. ReplacedInv'
  BY <1>1, <1>2, <1>7 DEF ReplacedInv, OneEach, OfSubject
<1>10. OutcomeHasTraces'
  <2>1. outcome[s] \notin Results
    BY <1>5 DEF SubjectsInv
  <2>2. \A r \in Snapshots : ResultsIn(r)' = ResultsIn(r)
    BY <1>2 DEF ResultsIn, OfSubject
  <2>3. linked \subseteq Snapshots
    BY DEF ProjectionTypeOK
  <2> QED
    BY <1>1, <1>2, <2>1, <2>2, <2>3 DEF OutcomeHasTraces, txVars
<1> QED
  BY <1>3, <1>4, <1>6, <1>8, <1>9, <1>10

(* The trash is where a result of the URL does not look, and nothing else.   *)
LEMMA TrashKeeps ==
    ASSUME ProjectionInv, TrashSnapshot PROVE ProjectionInv'
<1> USE DEF ProjectionInv
<1>1. /\ UNCHANGED <<captured, linked, outcome, trace, agency, about, names>>
      /\ UNCHANGED <<phase, traceSubject, doomed, named, locked, overlapped, deleted>>
  BY DEF TrashSnapshot, storedVars, txVars
<1>2. trashed' \subseteq Snapshots
  BY DEF TrashSnapshot, ProjectionTypeOK
<1>3. ProjectionTypeOK'
  BY <1>1, <1>2 DEF ProjectionTypeOK
<1>4. RowsInv' /\ ReplacedInv' /\ OutcomeHasTraces'
  BY <1>1 DEF RowsInv, ReplacedInv, OneEach, OutcomeHasTraces, ResultsIn, OfSubject
<1>5. SubjectsInv'
  BY <1>1 DEF SubjectsInv, Known, Trace
<1>6. FoundInv'
  BY <1>1 DEF FoundInv, Found, FindsAll, OfSubject, UrlCommitted
<1> QED
  BY <1>3, <1>4, <1>5, <1>6

(* The traces of a deleted snapshot are no longer any snapshot's, and nobody *)
(* is about to give it others.                                               *)
LEMMA DeletionKeeps ==
    ASSUME ProjectionInv, DeleteSnapshot PROVE ProjectionInv'
<1> USE DEF ProjectionInv
<1>1. PICK s \in linked :
        /\ \A t \in Results : phase[t] = "agencies" => traceSubject[t] # s
        /\ linked' = linked \ {s} /\ trashed' = trashed \ {s}
        /\ trace' = {[k EXCEPT !.subject = IF @ = s THEN Nothing ELSE @] : k \in trace}
        /\ outcome' = [outcome EXCEPT ![s] = Nothing]
  BY DEF DeleteSnapshot
<1>2. deleted' = TRUE /\ UNCHANGED <<captured, agency, about, names, txVars, overlapped>>
  BY DEF DeleteSnapshot
<1>3. s \in Snapshots /\ s # Nothing /\ Nothing \notin Snapshots /\ Nothing \notin Results
  BY ProjectionAssumption DEF ProjectionTypeOK, Rows
<1>4. \A k \in trace' : \E l \in trace :
        /\ k.result = l.result /\ k \in Traces
        /\ k.subject = IF l.subject = s THEN Nothing ELSE l.subject
  <2>1. \A l \in trace : l \in [subject : {Nothing} \cup Snapshots, result : Results]
    BY DEF ProjectionTypeOK, Traces
  <2> QED
    BY <1>1, <1>3, <2>1 DEF Traces
<1>5. ASSUME NEW r, r # s, r # Nothing PROVE OfSubject(r)' = OfSubject(r)
  <2>1. \A l \in trace : l \in [subject : {Nothing} \cup Snapshots, result : Results]
    BY DEF ProjectionTypeOK, Traces
  <2>2. \A l \in trace : l.subject # s => [l EXCEPT !.subject = IF @ = s THEN Nothing ELSE @] = l
    BY <2>1
  <2>3. \A l \in trace : l.subject = s =>
          [l EXCEPT !.subject = IF @ = s THEN Nothing ELSE @].subject = Nothing
    BY <2>1
  <2>4. OfSubject(r)' = {k \in trace' : k.subject = r}
    BY DEF OfSubject
  <2>5. \A k \in trace' : k.subject = r => k \in trace
    BY <1>1, <1>5, <2>2, <2>3
  <2>6. \A k \in trace : k.subject = r => k \in trace'
    BY <1>1, <1>5, <2>2
  <2> QED
    BY <2>4, <2>5, <2>6 DEF OfSubject
<1>6. ProjectionTypeOK'
  BY <1>1, <1>2, <1>3, <1>4 DEF ProjectionTypeOK, txVars, Rows
<1>7. RowsInv'
  BY <1>2 DEF RowsInv, txVars
<1>8. SubjectsInv'
  <2>1. Known' = Known
    BY <1>2 DEF Known
  <2>2. \A k \in trace' : k.subject \in linked' \cup {Nothing} /\ phase[k.result] = "committed"
    BY <1>1, <1>4 DEF SubjectsInv
  <2>3. \A r \in Snapshots : outcome'[r] \in Results => r \in Known
    BY <1>1, <1>3 DEF SubjectsInv, ProjectionTypeOK, Rows
  <2> QED
    BY <1>1, <1>2, <2>1, <2>2, <2>3 DEF SubjectsInv, txVars, Trace
<1>9. FoundInv'
  <2>1. \A t \in Results : traceSubject[t] \in linked' => (FindsAll(t) <=> FindsAll(t)')
    BY <1>1, <1>2, <1>3, <1>5 DEF FindsAll, txVars, ProjectionTypeOK
  <2>2. \A t \in Results : Found(t)' <=> Found(t)
    BY <1>2 DEF Found, txVars
  <2>3. UrlCommitted' <=> UrlCommitted
    BY <1>2 DEF UrlCommitted, txVars
  <2>4. \A t \in Results : Found(t) /\ about[t] # UrlRow => traceSubject[t] = about[t]
    BY DEF SubjectsInv, Found
  <2> QED
    BY <1>1, <1>2, <2>1, <2>2, <2>3, <2>4 DEF FoundInv, txVars
<1>10. \A r \in linked' : OfSubject(r)' = OfSubject(r) /\ r \in linked
  BY <1>1, <1>3, <1>5 DEF ProjectionTypeOK
<1>11. ReplacedInv'
  BY <1>2, <1>10 DEF ReplacedInv, OneEach
<1>12. OutcomeHasTraces'
  <2>1. \A r \in linked' : outcome'[r] = outcome[r] /\ r \in linked
    BY <1>1 DEF ProjectionTypeOK, Rows
  <2> QED
    BY <1>2, <1>10, <2>1 DEF OutcomeHasTraces, ResultsIn, txVars
<1> QED
  BY <1>6, <1>7, <1>8, <1>9, <1>11, <1>12
-----------------------------------------------------------------------------
LEMMA BeginKeeps ==
    ASSUME ProjectionInv, NEW t \in Results, BeginResult(t) PROVE ProjectionInv'
<1> USE DEF ProjectionInv
<1>1. /\ phase[t] = "waiting" /\ RowExists(t)
      /\ phase' = [phase EXCEPT ![t] = "row"]
      /\ UNCHANGED <<captured, trashed, storedVars, about, names, traceSubject,
                     doomed, named, locked, overlapped, deleted>>
  BY DEF BeginResult, Enter
<1>2. phase \in [Results -> Phases]
  BY DEF ProjectionTypeOK
<1>3. ProjectionTypeOK'
  BY <1>1 DEF ProjectionTypeOK, storedVars, Phases
<1>4. RowsInv'
  BY <1>1, <1>2 DEF RowsInv, Writing
<1>5. SubjectsInv'
  BY <1>1, <1>2 DEF SubjectsInv, storedVars, Known, RowExists, Trace
<1>6. FoundInv'
  BY <1>1, <1>2 DEF FoundInv, storedVars, Found, FindsAll, UrlCommitted, OfSubject
<1>7. ReplacedInv'
  BY <1>1 DEF ReplacedInv, storedVars, OneEach, OfSubject
<1>8. OutcomeHasTraces'
  BY <1>1, <1>2 DEF OutcomeHasTraces, storedVars, ResultsIn, OfSubject
<1> QED
  BY <1>3, <1>4, <1>5, <1>6, <1>7, <1>8

(* The row is written when no other transaction has written it.              *)
LEMMA StoreKeeps ==
    ASSUME ProjectionInv, NEW t \in Results, StoreResult(t), RowExists(t)
    PROVE  ProjectionInv'
<1> USE DEF ProjectionInv
<1>1. /\ phase[t] = "row" /\ ~Waits(t)
      /\ locked' = [locked EXCEPT ![t] = @ \cup {about[t]}]
      /\ phase' = [phase EXCEPT ![t] = "context"]
      /\ UNCHANGED <<captured, trashed, storedVars, about, names, traceSubject,
                     doomed, named, overlapped, deleted>>
  BY DEF StoreResult, Enter, Lock, RowOf
<1>2. phase \in [Results -> Phases] /\ about[t] \in Rows
      /\ locked \in [Results -> SUBSET (Rows \cup Agencies \cup Traces)]
  BY DEF ProjectionTypeOK
<1>3. \A o \in Results \ {t} : phase[o] \in Writing => about[o] # about[t]
  BY <1>1 DEF Waits, WaitsFor, Wanted, RowOf, Others, Running, RowsInv, Writing
<1>4. ProjectionTypeOK'
  BY <1>1, <1>2 DEF ProjectionTypeOK, storedVars, Phases
<1>5. RowsInv'
  BY <1>1, <1>2, <1>3 DEF RowsInv, Writing
<1>6. about[t] \notin Traces
  BY <1>2, ProjectionAssumption
<1>7. SubjectsInv'
  BY <1>1, <1>2, <1>6 DEF SubjectsInv, storedVars, Known, Trace
<1>8. FoundInv'
  BY <1>1, <1>2 DEF FoundInv, storedVars, Found, FindsAll, UrlCommitted, OfSubject
<1>9. ReplacedInv'
  BY <1>1 DEF ReplacedInv, storedVars, OneEach, OfSubject
<1>10. OutcomeHasTraces'
  BY <1>1, <1>2 DEF OutcomeHasTraces, storedVars, ResultsIn, OfSubject
<1> QED
  BY <1>4, <1>5, <1>7, <1>8, <1>9, <1>10

(* What is undone leaves nothing behind but a stored failure.                *)
LEMMA RollbackKeeps ==
    ASSUME ProjectionInv, NEW t \in Results, Rollback(t), phase[t] # "committed",
           UNCHANGED <<captured, trashed, linked, trace, agency, about, names, traceSubject,
                       overlapped, deleted>>,
           \/ outcome' = outcome
           \/ RowExists(t) /\ outcome' = [outcome EXCEPT ![about[t]] = Failed],
           phase[t] # "waiting"
    PROVE  ProjectionInv'
<1> USE DEF ProjectionInv
<1>1. /\ phase' = [phase EXCEPT ![t] = "aborted"]
      /\ locked' = [locked EXCEPT ![t] = {}]
      /\ doomed' = [doomed EXCEPT ![t] = Nothing]
      /\ named' = [named EXCEPT ![t] = 0]
  BY DEF Rollback, Enter
<1>2. phase \in [Results -> Phases] /\ about \in [Results -> Rows]
      /\ locked \in [Results -> SUBSET (Rows \cup Agencies \cup Traces)]
      /\ doomed \in [Results -> {Nothing} \cup SUBSET Traces]
      /\ named \in [Results -> Nat]
      /\ outcome \in [Rows -> {Nothing, Failed} \cup Results]
  BY DEF ProjectionTypeOK
<1>3. ProjectionTypeOK'
  <2>1. \A o \in Results : named'[o] <= Len(names'[o])
    <3>1. Len(names[t]) \in Nat
      BY MentionTyped DEF ProjectionTypeOK
    <3> QED
      BY <1>1, <1>2, <3>1 DEF ProjectionTypeOK
  <2>2. outcome' \in [Rows -> {Nothing, Failed} \cup Results]
    BY <1>2
  <2> QED
    BY <1>1, <1>2, <2>1, <2>2 DEF ProjectionTypeOK, Phases
<1>4. RowsInv'
  BY <1>1, <1>2 DEF RowsInv, Writing
<1>5. SubjectsInv'
  <2>1. \A s \in Snapshots : outcome'[s] \in Results => outcome[s] \in Results
    BY <1>2, ProjectionAssumption DEF Rows
  <2> QED
    BY <1>1, <1>2, <2>1 DEF SubjectsInv, Known, Trace
<1>6. FoundInv'
  <2>1. UrlCommitted' <=> UrlCommitted
    BY <1>1, <1>2 DEF UrlCommitted
  <2>2. ~Found(t)' /\ doomed'[t] = Nothing
    BY <1>1, <1>2 DEF Found
  <2>3. \A o \in Results \ {t} : /\ (Found(o)' <=> Found(o)) /\ doomed'[o] = doomed[o]
                                 /\ (FindsAll(o)' <=> FindsAll(o))
    BY <1>1, <1>2 DEF Found, FindsAll, OfSubject
  <2> QED
    BY <2>1, <2>2, <2>3 DEF FoundInv
<1>7. ReplacedInv'
  BY DEF ReplacedInv, OneEach, OfSubject
<1>8. OutcomeHasTraces'
  <2>1. \A s \in linked : outcome'[s] \in Results => outcome'[s] = outcome[s]
    BY <1>2, ProjectionAssumption DEF Rows, ProjectionTypeOK
  <2>2. UrlCommitted' <=> UrlCommitted
    BY <1>1, <1>2 DEF UrlCommitted
  <2> QED
    BY <2>1, <2>2 DEF OutcomeHasTraces, ResultsIn, OfSubject, UrlCommitted
<1> QED
  BY <1>3, <1>4, <1>5, <1>6, <1>7, <1>8

LEMMA AbortKeeps ==
    ASSUME ProjectionInv, NEW t \in Results, Abort(t),
           phase[t] \in {"row", "delete", "agencies"}
    PROVE  ProjectionInv'
<1>1. /\ Rollback(t)
      /\ UNCHANGED <<captured, trashed, linked, trace, agency, about, names,
                     traceSubject, overlapped, deleted>>
      /\ \/ outcome' = outcome
         \/ RowExists(t) /\ outcome' = [outcome EXCEPT ![about[t]] = Failed]
  BY DEF Abort, AfterRollback
<1> QED
  BY <1>1, RollbackKeeps

LEMMA LossKeeps ==
    ASSUME ProjectionInv, NEW t \in Results, LoseProcess(t) PROVE ProjectionInv'
<1>1. /\ Rollback(t) /\ outcome' = outcome
      /\ UNCHANGED <<captured, trashed, linked, trace, agency, about, names,
                     traceSubject, overlapped, deleted>>
  BY DEF LoseProcess, storedVars
<1>2. phase[t] # "waiting" /\ phase[t] # "committed"
  BY DEF LoseProcess, Running
<1> QED
  BY <1>1, <1>2, RollbackKeeps

LEMMA DeadlockKeeps ==
    ASSUME ProjectionInv, NEW t \in Results, BreakDeadlock(t) PROVE ProjectionInv'
<1>1. PICK o \in Results : WaitsFor(t, o)
  BY DEF BreakDeadlock
<1>2. phase[t] \in {"row", "delete", "agencies"}
  BY <1>1 DEF WaitsFor, Wanted
<1> QED
  BY <1>2, AbortKeeps DEF BreakDeadlock
-----------------------------------------------------------------------------
(* The context of a file is its own revision.                                *)
LEMMA ContextKeeps ==
    ASSUME ProjectionInv, NEW t \in Results, BuildContext(t) PROVE ProjectionInv'
<1> USE DEF ProjectionInv
<1>1. /\ phase[t] = "context"
      /\ traceSubject' = [traceSubject EXCEPT ![t] = SubjectOf(t)]
      /\ phase' = [phase EXCEPT ![t] = "delete"]
      /\ UNCHANGED <<captured, trashed, storedVars, about, names, doomed, named,
                     locked, overlapped, deleted>>
  BY DEF BuildContext, Enter
<1>2. phase \in [Results -> Phases] /\ about \in [Results -> Rows]
      /\ traceSubject \in [Results -> {Nothing} \cup Snapshots]
  BY DEF ProjectionTypeOK
<1>3. /\ about[t] # UrlRow => SubjectOf(t) = about[t]
      /\ about[t] = UrlRow => SubjectOf(t) \in {Nothing} \cup (Known \cap Snapshots)
  BY SubjectIsKnown
<1>4. SubjectOf(t) \in Known /\ SubjectOf(t) \in {Nothing} \cup Snapshots
  <2>1. about[t] \in Known
    BY <1>1 DEF SubjectsInv
  <2> QED
    BY <1>2, <1>3, <2>1 DEF Known, Rows
<1>5. ProjectionTypeOK'
  BY <1>1, <1>2, <1>4 DEF ProjectionTypeOK, storedVars, Phases
<1>6. RowsInv'
  BY <1>1, <1>2 DEF RowsInv, Writing
<1>7. ~Found(t) /\ doomed[t] = Nothing
  BY <1>1 DEF FoundInv, Found
<1>8. SubjectsInv'
  <2>1. \A o \in Results \ {t} : Trace(o)' = Trace(o)
    BY <1>1, <1>2 DEF Trace
  <2>2. \A k \in locked[t] \cap Traces : k.result # t
    BY <1>1 DEF SubjectsInv
  <2> QED
    BY <1>1, <1>2, <1>3, <1>4, <2>1, <2>2 DEF SubjectsInv, storedVars, Known
<1>9. FoundInv'
  <2>1. ~Found(t)' /\ doomed'[t] = Nothing
    BY <1>1, <1>2, <1>7 DEF Found
  <2>2. \A o \in Results \ {t} : /\ (Found(o)' <=> Found(o)) /\ (FindsAll(o)' <=> FindsAll(o))
                                 /\ traceSubject'[o] = traceSubject[o]
    BY <1>1, <1>2 DEF Found, FindsAll, OfSubject, storedVars
  <2>3. UrlCommitted' <=> UrlCommitted
    BY <1>1, <1>2 DEF UrlCommitted
  <2> QED
    BY <1>1, <2>1, <2>2, <2>3 DEF FoundInv, storedVars
<1>10. ReplacedInv'
  BY <1>1 DEF ReplacedInv, storedVars, OneEach, OfSubject
<1>11. OutcomeHasTraces'
  BY <1>1, <1>2 DEF OutcomeHasTraces, storedVars, ResultsIn, OfSubject
<1> QED
  BY <1>5, <1>6, <1>8, <1>9, <1>10, <1>11

(* It finds all the traces of its subject.  Another result of the same row   *)
(* is not under way, so that whoever has found them too is of another row.   *)
LEMMA FindKeeps ==
    ASSUME ProjectionInv, NEW t \in Results, FindTraces(t) PROVE ProjectionInv'
<1> USE DEF ProjectionInv
<1>1. /\ phase[t] = "delete" /\ doomed[t] = Nothing
      /\ doomed' = [doomed EXCEPT ![t] = OfSubject(traceSubject[t])]
      /\ UNCHANGED <<captured, trashed, storedVars, about, names, phase,
                     traceSubject, named, locked, deleted>>
  BY DEF FindTraces
<1>2. overlapped' = (overlapped \/ \E o \in Others(t) :
                       /\ doomed[o] # Nothing /\ traceSubject[o] = traceSubject[t]
                       /\ about[o] # about[t])
  BY DEF FindTraces
<1>3. phase \in [Results -> Phases] /\ doomed \in [Results -> {Nothing} \cup SUBSET Traces]
  BY DEF ProjectionTypeOK
<1>4. doomed'[t] = OfSubject(traceSubject[t]) /\ doomed'[t] \subseteq Traces
      /\ \A o \in Results \ {t} : doomed'[o] = doomed[o]
  BY <1>1, <1>3 DEF OfSubject, ProjectionTypeOK
<1>5. ProjectionTypeOK'
  <2>1. doomed' \in [Results -> {Nothing} \cup SUBSET Traces]
    BY <1>1, <1>3, <1>4
  <2>2. {overlapped', deleted'} \subseteq BOOLEAN
    <3>1. {overlapped, deleted} \subseteq BOOLEAN
      BY DEF ProjectionTypeOK
    <3>2. overlapped' \in BOOLEAN
      BY <1>2, <3>1
    <3> QED
      BY <1>1, <3>1, <3>2
  <2> QED
    BY <1>1, <2>1, <2>2 DEF ProjectionTypeOK, storedVars
<1>6. RowsInv'
  BY <1>1 DEF RowsInv
<1>7. SubjectsInv'
  BY <1>1 DEF SubjectsInv, storedVars, Known, Trace
<1>8. doomed'[t] # Nothing
  BY <1>4, ProjectionAssumption
<1>9. FoundInv'
  <2>1. \A o \in Results : OfSubject(traceSubject[o])' = OfSubject(traceSubject[o])
    BY <1>1 DEF OfSubject, storedVars
  <2>2. \A o \in Results \ {t} : (Found(o)' <=> Found(o)) /\ (FindsAll(o)' <=> FindsAll(o))
    BY <1>1, <1>4, <2>1 DEF Found, FindsAll
  <2>3. Found(t)' /\ FindsAll(t)'
    BY <1>1, <1>4, <1>8, <2>1 DEF Found, FindsAll
  <2>4. \A k \in doomed'[t] : k.subject = traceSubject[t]
    BY <1>4 DEF OfSubject
  <2>5. UrlCommitted' <=> UrlCommitted
    BY <1>1 DEF UrlCommitted
  <2>6. overlapped => overlapped'
    BY <1>2
  <2>7. ASSUME ~overlapped', NEW o \in Results \ {t}, Found(o)
        PROVE  traceSubject[o] # traceSubject[t]
    <3>1. doomed[o] # Nothing /\ phase[o] \in {"delete", "agencies"}
      BY <2>7 DEF FoundInv, Found
    <3>2. o \in Others(t)
      BY <3>1 DEF Others, Running
    <3>3. about[o] # about[t]
      BY <1>1, <3>1 DEF RowsInv, Writing
    <3> QED
      BY <1>2, <2>7, <3>1, <3>2, <3>3
  <2>8. UNCHANGED <<linked, about, traceSubject, deleted>>
    BY <1>1 DEF storedVars
  <2>9. \A o \in Results : doomed'[o] # Nothing => Found(o)'
    BY <1>4, <2>2, <2>3 DEF FoundInv
  <2>10. \A o \in Results : Found(o)' =>
           /\ doomed'[o] # Nothing
           /\ \A k \in doomed'[o] : k.subject = traceSubject[o]
           /\ ~UrlCommitted /\ about[o] # UrlRow /\ about[o] \in linked => FindsAll(o)'
    BY <1>4, <1>8, <2>2, <2>3, <2>4 DEF FoundInv
  <2>11. ~overlapped' => \A x, o \in Results :
           Found(x)' /\ Found(o)' /\ traceSubject[x] = traceSubject[o] => x = o
    BY <2>2, <2>6, <2>7 DEF FoundInv
  <2>12. ~overlapped' => \A o \in Results :
           Found(o)' /\ traceSubject[o] \in linked \cup (IF deleted THEN {} ELSE {Nothing}) =>
             FindsAll(o)'
    BY <2>2, <2>3, <2>6 DEF FoundInv
  <2> QED
    BY <2>5, <2>8, <2>9, <2>10, <2>11, <2>12 DEF FoundInv
<1>10. ReplacedInv'
  <2>1. overlapped => overlapped'
    BY <1>2
  <2> QED
    BY <1>1, <2>1 DEF ReplacedInv, storedVars, OneEach, OfSubject
<1>11. OutcomeHasTraces'
  BY <1>1 DEF OutcomeHasTraces, storedVars, ResultsIn, OfSubject
<1> QED
  BY <1>5, <1>6, <1>7, <1>9, <1>10, <1>11

(* Those it does not find any more are not there.                            *)
LEMMA DeleteKeeps ==
    ASSUME ProjectionInv, NEW t \in Results, DeleteTraces(t),
           ~(names[t] # <<>> /\ traceSubject[t] \notin linked \cup {Nothing})
    PROVE  ProjectionInv'
<1> USE DEF ProjectionInv
<1> DEFINE first == IF names[t] = <<>> THEN {} ELSE {Trace(t)}
<1>1. /\ phase[t] = "delete" /\ doomed[t] # Nothing
      /\ doomed' = [doomed EXCEPT ![t] = @ \cap trace]
      /\ locked' = [locked EXCEPT ![t] = @ \cup (doomed'[t] \cup first)]
      /\ phase' = [phase EXCEPT ![t] = "agencies"]
      /\ UNCHANGED <<captured, trashed, storedVars, about, names, traceSubject,
                     named, overlapped, deleted>>
  BY DEF DeleteTraces, Lock, Enter
<1>2. /\ phase \in [Results -> Phases] /\ doomed \in [Results -> {Nothing} \cup SUBSET Traces]
      /\ locked \in [Results -> SUBSET (Rows \cup Agencies \cup Traces)]
      /\ trace \subseteq Traces /\ Trace(t) \in Traces
      /\ traceSubject \in [Results -> {Nothing} \cup Snapshots]
  BY DEF ProjectionTypeOK, Trace, Traces
<1>3. /\ doomed'[t] = doomed[t] \cap trace
      /\ locked'[t] = locked[t] \cup doomed'[t] \cup first
      /\ phase'[t] = "agencies"
      /\ \A o \in Results \ {t} :
           doomed'[o] = doomed[o] /\ locked'[o] = locked[o] /\ phase'[o] = phase[o]
  <2> HIDE DEF first
  <2> QED
    BY <1>1, <1>2
<1>4. ProjectionTypeOK'
  <2>1. doomed' \in [Results -> {Nothing} \cup SUBSET Traces]
    BY <1>1, <1>2, <1>3
  <2>2. locked'[t] \subseteq Rows \cup Agencies \cup Traces
    BY <1>2, <1>3
  <2>3. locked' \in [Results -> SUBSET (Rows \cup Agencies \cup Traces)]
    BY <1>1, <1>2, <2>2
  <2>4. phase' \in [Results -> Phases]
    BY <1>1, <1>2 DEF Phases
  <2> QED
    BY <1>1, <2>1, <2>3, <2>4 DEF ProjectionTypeOK, storedVars
<1>5. RowsInv'
  BY <1>1, <1>3 DEF RowsInv, Writing
<1>6. SubjectsInv'
  <2>1. \A k \in locked'[t] \cap Traces : k.result = t => names[t] # <<>>
    <3>1. \A k \in doomed'[t] : k.result # t
      BY <1>1, <1>3 DEF SubjectsInv
    <3>2. \A k \in locked[t] \cap Traces : k.result # t
      BY <1>1 DEF SubjectsInv
    <3> QED
      BY <1>3, <3>1, <3>2
  <2>2. names[t] # <<>> => Trace(t) \in locked'[t]
    BY <1>3
  <2>3. \A o \in Results : Trace(o)' = Trace(o)
    BY <1>1 DEF Trace
  <2>4. UNCHANGED <<captured, trashed, linked, outcome, trace, about, names, traceSubject>>
    BY <1>1 DEF storedVars
  <2>5. \A k \in trace : k.result # t
    BY <1>1 DEF SubjectsInv
  <2>6. \A k \in trace : k.result \in Results
    BY <1>2 DEF Traces
  <2>7. Known' = Known
    BY <2>4 DEF Known
  <2>8. \A k \in trace : k.subject \in linked \cup {Nothing} /\ phase'[k.result] = "committed"
    BY <1>3, <2>5, <2>6 DEF SubjectsInv
  <2>9. ASSUME NEW o \in Results
        PROVE /\ phase'[o] # "waiting" => about[o] \in Known
              /\ phase'[o] \in {"delete", "agencies"} /\ about[o] # UrlRow =>
                   traceSubject[o] = about[o]
              /\ phase'[o] = "agencies" =>
                   traceSubject[o] \in linked \cup {Nothing} \/ names[o] = <<>>
    BY <1>1, <1>3 DEF SubjectsInv
  <2>10. ASSUME NEW o \in Results
         PROVE /\ \A k \in locked'[o] \cap Traces : k.result = o =>
                    phase'[o] = "agencies" /\ names[o] # <<>>
               /\ phase'[o] = "agencies" /\ names[o] # <<>> => Trace(o) \in locked'[o]
    BY <1>1, <1>3, <2>1, <2>2 DEF SubjectsInv
  <2> QED
    BY <2>3, <2>4, <2>7, <2>8, <2>9, <2>10 DEF SubjectsInv
<1>7. doomed'[t] # Nothing
  BY <1>2, <1>3, ProjectionAssumption
<1>8. FoundInv'
  <2>1. \A o \in Results : OfSubject(traceSubject[o])' = OfSubject(traceSubject[o])
    BY <1>1 DEF OfSubject, storedVars
  <2>2. \A o \in Results : Found(o)' <=> Found(o)
    BY <1>1, <1>3 DEF Found
  <2>3. \A o \in Results : FindsAll(o)' <=> FindsAll(o)
    BY <1>3, <2>1 DEF FindsAll, OfSubject
  <2>4. UrlCommitted' <=> UrlCommitted
    BY <1>1, <1>3 DEF UrlCommitted
  <2>5. \A o \in Results : doomed'[o] = doomed[o] \/ (o = t /\ doomed'[o] \subseteq doomed[o])
    BY <1>3
  <2> QED
    BY <1>1, <1>3, <1>7, <2>2, <2>3, <2>4, <2>5 DEF FoundInv, storedVars
<1>9. ReplacedInv'
  BY <1>1 DEF ReplacedInv, storedVars, OneEach, OfSubject
<1>10. OutcomeHasTraces'
  <2>1. UrlCommitted' <=> UrlCommitted
    BY <1>1, <1>3 DEF UrlCommitted
  <2>2. \A s : ResultsIn(s)' = ResultsIn(s)
    BY <1>1 DEF storedVars, ResultsIn, OfSubject
  <2> QED
    BY <1>1, <2>1, <2>2 DEF OutcomeHasTraces, storedVars, UrlCommitted
<1> QED
  BY <1>4, <1>5, <1>6, <1>8, <1>9, <1>10

LEMMA UpsertKeeps ==
    ASSUME ProjectionInv, NEW t \in Results, UpsertAgency(t) PROVE ProjectionInv'
<1> USE DEF ProjectionInv
<1>1. /\ phase[t] = "agencies" /\ named[t] < Len(names[t])
      /\ locked' = [locked EXCEPT ![t] = @ \cup {names[t][named[t] + 1]}]
      /\ named' = [named EXCEPT ![t] = @ + 1]
      /\ UNCHANGED <<captured, trashed, storedVars, about, names, phase,
                     traceSubject, doomed, overlapped, deleted>>
  BY DEF UpsertAgency, Lock, Wanted
<1>2. /\ locked \in [Results -> SUBSET (Rows \cup Agencies \cup Traces)]
      /\ named \in [Results -> Nat] /\ \A o \in Results : named[o] <= Len(names[o])
      /\ names[t] \in Mentions
  BY DEF ProjectionTypeOK
<1>3. Len(names[t]) \in Nat /\ names[t][named[t] + 1] \in Agencies
  BY <1>1, <1>2, MentionTyped
<1>4. /\ locked'[t] = locked[t] \cup {names[t][named[t] + 1]}
      /\ \A o \in Results \ {t} : locked'[o] = locked[o]
  BY <1>1, <1>2
<1>5. ProjectionTypeOK'
  <2>1. locked' \in [Results -> SUBSET (Rows \cup Agencies \cup Traces)]
    BY <1>1, <1>2, <1>3, <1>4
  <2>2. named' \in [Results -> Nat] /\ \A o \in Results : named'[o] <= Len(names[o])
    BY <1>1, <1>2, <1>3
  <2> QED
    BY <1>1, <2>1, <2>2 DEF ProjectionTypeOK, storedVars
<1>6. RowsInv'
  BY <1>1, <1>4 DEF RowsInv
<1>7. names[t][named[t] + 1] \notin Traces
  BY <1>3, ProjectionAssumption
<1>8. SubjectsInv'
  BY <1>1, <1>4, <1>7 DEF SubjectsInv, storedVars, Known, Trace
<1>9. FoundInv'
  BY <1>1 DEF FoundInv, storedVars, Found, FindsAll, OfSubject, UrlCommitted
<1>10. ReplacedInv'
  BY <1>1 DEF ReplacedInv, storedVars, OneEach, OfSubject
<1>11. OutcomeHasTraces'
  BY <1>1 DEF OutcomeHasTraces, storedVars, ResultsIn, OfSubject
<1> QED
  BY <1>5, <1>6, <1>8, <1>9, <1>10, <1>11
-----------------------------------------------------------------------------
(* A result replaces the traces of its subject, and no others.               *)
LEMMA Replacement ==
    ASSUME ProjectionInv, NEW t \in Results, CommitResult(t)
    PROVE  LET new == IF names[t] = <<>> THEN {} ELSE {Trace(t)}
           IN  /\ trace' = (trace \ doomed[t]) \cup new
               /\ \A s : s # traceSubject[t] => OfSubject(s)' = OfSubject(s)
               /\ FindsAll(t) => OfSubject(traceSubject[t])' = new
<1> DEFINE new == IF names[t] = <<>> THEN {} ELSE {Trace(t)}
<1> USE DEF ProjectionInv
<1>1. phase[t] = "agencies" /\ trace' = TracesAfter(t)
  BY DEF CommitResult
<1>2. Trace(t) \in Traces /\ Trace(t).result = t /\ Trace(t).subject = traceSubject[t]
  BY DEF Trace, Traces, ProjectionTypeOK
<1>3. locked[t] \cap {Trace(t)} = new
  BY <1>1, <1>2 DEF SubjectsInv
<1>4. trace' = (trace \ doomed[t]) \cup new
  BY <1>1, <1>3 DEF TracesAfter
<1>5. \A k \in doomed[t] \cup new : k.subject = traceSubject[t]
  BY <1>1, <1>2 DEF FoundInv, Found
<1>6. ASSUME NEW s, s # traceSubject[t] PROVE OfSubject(s)' = OfSubject(s)
  <2> HIDE DEF new
  <2>1. \A k : k \in trace' /\ k.subject = s <=> k \in trace /\ k.subject = s
    BY <1>4, <1>5, <1>6
  <2> QED
    BY <2>1 DEF OfSubject
<1>7. ASSUME FindsAll(t) PROVE OfSubject(traceSubject[t])' = new
  <2>1. traceSubject' = traceSubject
    BY DEF CommitResult
  <2> HIDE DEF new
  <2>2. \A k \in trace : k.subject = traceSubject[t] => k \in doomed[t]
    BY <1>7 DEF FindsAll, OfSubject
  <2>3. \A k : k \in trace' /\ k.subject = traceSubject[t] <=> k \in new
    BY <1>4, <1>5, <2>2
  <2> QED
    BY <2>1, <2>3 DEF OfSubject
<1> QED
  BY <1>4, <1>6, <1>7

LEMMA CommitKeeps ==
    ASSUME ProjectionInv, NEW t \in Results, CommitResult(t) PROVE ProjectionInv'
<1> USE DEF ProjectionInv
<1> DEFINE new == IF names[t] = <<>> THEN {} ELSE {Trace(t)}
<1>1. /\ phase[t] = "agencies"
      /\ outcome' = [outcome EXCEPT ![about[t]] = t]
      /\ phase' = [phase EXCEPT ![t] = "committed"]
      /\ locked' = [locked EXCEPT ![t] = {}]
      /\ doomed' = [doomed EXCEPT ![t] = Nothing]
      /\ agency' = agency \cup (locked[t] \cap Agencies)
      /\ UNCHANGED <<captured, trashed, linked, about, names, traceSubject, named,
                     overlapped, deleted>>
  BY DEF CommitResult, Enter
<1>2. /\ phase \in [Results -> Phases] /\ doomed \in [Results -> {Nothing} \cup SUBSET Traces]
      /\ locked \in [Results -> SUBSET (Rows \cup Agencies \cup Traces)]
      /\ trace \subseteq Traces /\ about \in [Results -> Rows]
      /\ outcome \in [Rows -> {Nothing, Failed} \cup Results]
  BY DEF ProjectionTypeOK
<1>3. /\ phase'[t] = "committed" /\ locked'[t] = {} /\ doomed'[t] = Nothing
      /\ \A o \in Results \ {t} :
           doomed'[o] = doomed[o] /\ locked'[o] = locked[o] /\ phase'[o] = phase[o]
  BY <1>1, <1>2
<1>4. /\ trace' = (trace \ doomed[t]) \cup new
      /\ \A s : s # traceSubject[t] => OfSubject(s)' = OfSubject(s)
      /\ FindsAll(t) => OfSubject(traceSubject[t])' = new
  BY Replacement
<1>5. Trace(t) \in Traces /\ Trace(t).result = t /\ Trace(t).subject = traceSubject[t]
  BY DEF Trace, Traces, ProjectionTypeOK
<1>6. Found(t) /\ ~Found(t)' /\ \A o \in Results \ {t} : Found(o)' <=> Found(o)
  BY <1>1, <1>3 DEF Found
<1>7. ASSUME ~UrlCommitted'
      PROVE  ~UrlCommitted /\ about[t] # UrlRow /\ traceSubject[t] = about[t]
  <2>1. about[t] # UrlRow
    BY <1>1, <1>3, <1>7 DEF UrlCommitted
  <2>2. ~UrlCommitted
    BY <1>1, <1>3, <1>7 DEF UrlCommitted
  <2> QED
    BY <1>1, <2>1, <2>2 DEF SubjectsInv
<1>8. ProjectionTypeOK'
  <2>1. trace' \subseteq Traces
    BY <1>2, <1>4, <1>5
  <2>2. outcome' \in [Rows -> {Nothing, Failed} \cup Results]
    BY <1>1, <1>2
  <2>3. phase' \in [Results -> Phases]
    BY <1>1, <1>2 DEF Phases
  <2> QED
    BY <1>1, <1>2, <2>1, <2>2, <2>3 DEF ProjectionTypeOK
<1>9. RowsInv'
  BY <1>1, <1>3 DEF RowsInv, Writing
<1>10. SubjectsInv'
  <2>1. \A s \in Snapshots : outcome'[s] \in Results => s \in Known
    BY <1>1, <1>2 DEF SubjectsInv, Rows
  <2>2. \A k \in trace' : k.subject \in linked \cup {Nothing} /\ phase'[k.result] = "committed"
    <3>1. ASSUME NEW k \in trace
          PROVE k.subject \in linked \cup {Nothing} /\ phase'[k.result] = "committed"
      <4>1. k.subject \in linked \cup {Nothing} /\ phase[k.result] = "committed"
        BY DEF SubjectsInv
      <4>2. k.result \in Results
        BY <1>2 DEF Traces
      <4> QED
        BY <1>1, <1>3, <4>1, <4>2
    <3>2. names[t] # <<>> => traceSubject[t] \in linked \cup {Nothing}
      BY <1>1 DEF SubjectsInv
    <3> QED
      BY <1>3, <1>4, <1>5, <3>1, <3>2
  <2>3. Known' = Known /\ \A o \in Results : Trace(o)' = Trace(o)
    BY <1>1 DEF Known, Trace
  <2> QED
    BY <1>1, <1>3, <2>1, <2>2, <2>3 DEF SubjectsInv
<1>11. FoundInv'
  <2>1. ASSUME NEW o \in Results \ {t}, traceSubject[o] # traceSubject[t]
        PROVE  FindsAll(o)' <=> FindsAll(o)
    BY <1>1, <1>3, <1>4, <2>1 DEF FindsAll
  <2>2. ASSUME NEW o \in Results \ {t}, Found(o), ~UrlCommitted', about[o] # UrlRow
        PROVE  traceSubject[o] # traceSubject[t]
    <3>1. traceSubject[o] = about[o]
      BY <2>2 DEF SubjectsInv, Found
    <3>2. about[o] # about[t]
      BY <1>1, <2>2 DEF RowsInv, Writing, Found
    <3> QED
      BY <1>7, <2>2, <3>1, <3>2
  <2>3. ASSUME ~overlapped, NEW o \in Results \ {t}, Found(o)
        PROVE  traceSubject[o] # traceSubject[t]
    BY <1>6, <2>3 DEF FoundInv
  <2>4. \A o \in Results : doomed'[o] # Nothing => Found(o)'
    BY <1>3, <1>6 DEF FoundInv
  <2>5. \A o \in Results : Found(o)' =>
           /\ doomed'[o] # Nothing
           /\ \A k \in doomed'[o] : k.subject = traceSubject[o]
           /\ ~UrlCommitted' /\ about[o] # UrlRow /\ about[o] \in linked => FindsAll(o)'
    <3>1. SUFFICES ASSUME NEW o \in Results, Found(o)'
                   PROVE  /\ doomed'[o] # Nothing
                          /\ \A k \in doomed'[o] : k.subject = traceSubject[o]
                          /\ ~UrlCommitted' /\ about[o] # UrlRow /\ about[o] \in linked =>
                               FindsAll(o)'
      OBVIOUS
    <3>2. o # t /\ Found(o) /\ doomed'[o] = doomed[o]
      BY <1>3, <1>6, <3>1
    <3>3. ASSUME ~UrlCommitted', about[o] # UrlRow, about[o] \in linked PROVE FindsAll(o)'
      BY <1>7, <2>1, <2>2, <3>2, <3>3 DEF FoundInv
    <3> QED
      BY <3>2, <3>3 DEF FoundInv
  <2>6. ~overlapped => \A x, o \in Results :
           Found(x)' /\ Found(o)' /\ traceSubject[x] = traceSubject[o] => x = o
    BY <1>6 DEF FoundInv
  <2>7. ~overlapped => \A o \in Results :
           Found(o)' /\ traceSubject[o] \in linked \cup (IF deleted THEN {} ELSE {Nothing}) =>
             FindsAll(o)'
    BY <1>6, <2>1, <2>3 DEF FoundInv
  <2> QED
    BY <1>1, <2>4, <2>5, <2>6, <2>7 DEF FoundInv
<1>12. ReplacedInv'
  <2> SUFFICES ASSUME ~overlapped,
                      NEW s \in linked \cup (IF deleted THEN {} ELSE {Nothing})
               PROVE  OneEach(s)'
    BY <1>1 DEF ReplacedInv
  <2>1. CASE s # traceSubject[t]
    <3>1. OfSubject(s)' = OfSubject(s)
      BY <1>4, <2>1
    <3> QED
      BY <3>1 DEF ReplacedInv, OneEach
  <2>2. CASE s = traceSubject[t]
    <3>1. FindsAll(t)
      BY <1>6, <2>2 DEF FoundInv
    <3>2. {k \in trace' : k.subject = s} = new
      BY <1>1, <1>4, <2>2, <3>1 DEF OfSubject
    <3> QED
      BY <3>2 DEF OneEach, OfSubject
  <2> QED
    BY <2>1, <2>2
<1>13. OutcomeHasTraces'
  <2> SUFFICES ASSUME NEW s \in linked, outcome'[s] \in Results, ~UrlCommitted'
               PROVE  ResultsIn(s)' = IF names[outcome'[s]] = <<>> THEN {} ELSE {outcome'[s]}
    BY <1>1 DEF OutcomeHasTraces, UrlCommitted
  <2>1. linked \subseteq Rows
    BY DEF ProjectionTypeOK, Rows
  <2>2. CASE s = about[t]
    <3>1. FindsAll(t)
      BY <1>6, <1>7, <2>2 DEF FoundInv
    <3>2. {k \in trace' : k.subject = s} = new
      BY <1>1, <1>4, <1>7, <2>2, <3>1 DEF OfSubject
    <3>3. outcome'[s] = t
      BY <1>1, <1>2, <2>1, <2>2
    <3> QED
      BY <1>5, <3>2, <3>3 DEF ResultsIn, OfSubject
  <2>3. CASE s # about[t]
    <3>1. OfSubject(s)' = OfSubject(s)
      BY <1>4, <1>7, <2>3
    <3>2. outcome'[s] = outcome[s]
      BY <1>1, <1>2, <2>1, <2>3
    <3> QED
      BY <1>7, <3>1, <3>2 DEF OutcomeHasTraces, ResultsIn, UrlCommitted
  <2> QED
    BY <2>2, <2>3
<1> QED
  BY <1>8, <1>9, <1>10, <1>11, <1>12, <1>13
-----------------------------------------------------------------------------
LEMMA ProjectionStepKeeps == ProjectionInv /\ [ProjectionNext]_projectionVars => ProjectionInv'
<1> SUFFICES ASSUME ProjectionInv, [ProjectionNext]_projectionVars PROVE ProjectionInv'
  OBVIOUS
<1>1. CASE CaptureSnapshot
  BY <1>1, CaptureKeeps
<1>2. CASE DeleteSnapshot
  BY <1>2, DeletionKeeps
<1>3. ASSUME NEW t \in Results, BeginResult(t) PROVE ProjectionInv'
  BY <1>3, BeginKeeps
<1>4. ASSUME NEW t \in Results, StoreResult(t) PROVE ProjectionInv'
  <2>1. CASE RowExists(t)
    BY <1>4, <2>1, StoreKeeps
  <2>2. CASE ~RowExists(t)
    BY <1>4, <2>2, AbortKeeps DEF StoreResult
  <2> QED
    BY <2>1, <2>2
<1>5. ASSUME NEW t \in Results, BuildContext(t) PROVE ProjectionInv'
  BY <1>5, ContextKeeps
<1>6. ASSUME NEW t \in Results, FindTraces(t) PROVE ProjectionInv'
  BY <1>6, FindKeeps
<1>7. ASSUME NEW t \in Results, DeleteTraces(t) PROVE ProjectionInv'
  <2>1. CASE names[t] # <<>> /\ traceSubject[t] \notin linked \cup {Nothing}
    BY <1>7, <2>1, AbortKeeps DEF DeleteTraces
  <2>2. CASE ~(names[t] # <<>> /\ traceSubject[t] \notin linked \cup {Nothing})
    BY <1>7, <2>2, DeleteKeeps
  <2> QED
    BY <2>1, <2>2
<1>8. ASSUME NEW t \in Results, UpsertAgency(t) PROVE ProjectionInv'
  BY <1>8, UpsertKeeps
<1>9. ASSUME NEW t \in Results, CommitResult(t) PROVE ProjectionInv'
  BY <1>9, CommitKeeps
<1>10. ASSUME NEW t \in Results, BreakDeadlock(t) PROVE ProjectionInv'
  BY <1>10, DeadlockKeeps
<1>11. ASSUME NEW t \in Results, LoseProcess(t) PROVE ProjectionInv'
  BY <1>11, LossKeeps
<1>13. CASE TrashSnapshot
  BY <1>13, TrashKeeps
<1>12. CASE UNCHANGED projectionVars
  <2>1. UNCHANGED <<captured, trashed, linked, outcome, trace, agency, about, names, phase,
                    traceSubject, doomed, named, locked, overlapped, deleted>>
    BY <1>12 DEF projectionVars, storedVars, txVars
  <2>2. ProjectionTypeOK' /\ RowsInv' /\ SubjectsInv'
    BY <2>1 DEF ProjectionInv, ProjectionTypeOK, RowsInv, SubjectsInv, Known, Trace
  <2>3. FoundInv'
    BY <2>1 DEF ProjectionInv, FoundInv, Found, FindsAll, UrlCommitted, OfSubject
  <2>4. ReplacedInv'
    BY <2>1 DEF ProjectionInv, ReplacedInv, OneEach, OfSubject
  <2>5. OutcomeHasTraces'
    BY <2>1 DEF ProjectionInv, OutcomeHasTraces, ResultsIn, OfSubject
  <2> QED
    BY <2>2, <2>3, <2>4, <2>5 DEF ProjectionInv
<1> QED
  BY <1>1, <1>2, <1>3, <1>4, <1>5, <1>6, <1>7, <1>8, <1>9, <1>10, <1>11, <1>12,
     <1>13 DEF ProjectionNext

(* Nobody sees a transaction that has not committed: whatever results are    *)
(* stored at once, wait for each other, abort or die, rows, locks and traces *)
(* belong together.                                                          *)
THEOREM ProjectionInvariance == ProjectionSpec => []ProjectionInv
<1>1. ProjectionInit => ProjectionInv
  BY ProjectionStarts
<1>2. ProjectionInv /\ [ProjectionNext]_projectionVars => ProjectionInv'
  BY ProjectionStepKeeps
<1> QED
  BY <1>1, <1>2, PTL DEF ProjectionSpec

LEMMA AtMostOneResult ==
    ASSUME NEW s, OneEach(s) PROVE Cardinality(ResultsIn(s)) <= 1
<1>1. CASE OfSubject(s) = {}
  <2>1. ResultsIn(s) = {}
    BY <1>1 DEF ResultsIn
  <2> QED
    BY <2>1, FS_EmptySet
<1>2. CASE OfSubject(s) # {}
  <2>1. PICK k \in OfSubject(s) : TRUE
    BY <1>2
  <2>2. ResultsIn(s) = {k.result}
    BY <2>1 DEF OneEach, ResultsIn
  <2>3. Cardinality(ResultsIn(s)) = 1
    <3> DEFINE only == k.result
    <3>1. ResultsIn(s) = {only}
      BY <2>2
    <3> HIDE DEF only
    <3> QED
      BY <3>1, FS_Singleton
  <2> QED
    BY <2>3
<1> QED
  BY <1>1, <1>2

(* The traces of a revision come from one result, and a file with a stored   *)
(* result has the traces of that result.                                     *)
THEOREM TracesOfOne == ProjectionSpec => []TracesOfOneResult
<1>1. ProjectionInv => TracesOfOneResult
  BY AtMostOneResult
     DEF ProjectionInv, TracesOfOneResult, OneResultPerRevision, ReplacedInv
<1> QED
  BY <1>1, ProjectionInvariance, PTL

-----------------------------------------------------------------------------
(* The library of URLs.  What requests ask for.                              *)
LEMMA AskTyped ==
    ASSUME NEW a \in Asks
    PROVE  /\ a.pages \in Seq(Pages) /\ Len(a.pages) \in {1, 2}
           /\ a.want \subseteq Collections
           /\ a.kind \in {"save", "purpose", "assign", "add", "remove"}
           /\ a.kind \in {"save", "purpose"} \/ Len(a.pages) = 1
<1>1. a.pages \in Selections
  BY DEF Asks, Selections
<1>2. a.pages \in Seq(Pages) /\ Len(a.pages) \in {1, 2}
  <2>1. CASE a.pages \in Single
    <3>1. PICK p \in Pages : a.pages = <<p>>
      BY <2>1 DEF Single
    <3> QED
      BY <3>1
  <2>2. CASE a.pages \in UNION {{<<p, q>> : q \in Pages \ {p}} : p \in Pages}
    <3>1. PICK p \in Pages : a.pages \in {<<p, q>> : q \in Pages \ {p}}
      BY <2>2
    <3>2. PICK q \in Pages : a.pages = <<p, q>>
      BY <3>1
    <3> QED
      BY <3>2
  <2> QED
    BY <1>1, <2>1, <2>2 DEF Selections
<1>3. a.want \subseteq Collections
  BY DEF Asks
<1>4. a.kind \in {"save", "purpose", "assign", "add", "remove"}
  BY DEF Asks
<1>5. a.kind \in {"save", "purpose"} \/ Len(a.pages) = 1
  BY DEF Asks, Single
<1> QED
  BY <1>2, <1>3, <1>4, <1>5

(* A sequence of the elements of a finite set.                               *)
LEMMA Listing ==
    ASSUME NEW S, IsFiniteSet(S)
    PROVE  /\ Cardinality(S) \in Nat
           /\ SetToSeq(S) \in [1..Cardinality(S) -> S]
           /\ Len(SetToSeq(S)) = Cardinality(S)
<1>1. Cardinality(S) \in Nat /\ ExistsBijection(1..Cardinality(S), S)
  BY FS_CardinalityType
<1>2. PICK f : f \in Bijection(1..Cardinality(S), S)
  BY <1>1 DEF ExistsBijection
<1>3. f \in [1..Cardinality(S) -> S] /\ IsInjective(f)
  BY <1>2 DEF Bijection, Injection, IsInjective
<1>4. SetToSeq(S) \in [1..Cardinality(S) -> S]
  BY <1>3 DEF SetToSeq
<1> QED
  BY <1>1, <1>4

(* The row a request works on.                                               *)
LEMMA PageTyped ==
    ASSUME LibraryTypeOK, NEW r \in Requests, StatementsFit(r),
           at[r] \in Statements \ AfterPages
    PROVE  Page(r) \in Pages /\ item[r] \in 1..Len(ask[r].pages)
BY AskTyped DEF LibraryTypeOK, StatementsFit, Page

-----------------------------------------------------------------------------
(* What a step of one request leaves alone, and what every step keeps.       *)
OthersRest(r) ==
    \A o \in Requests \ {r} :
        /\ at'[o] = at[o] /\ item'[o] = item[o] /\ row'[o] = row[o]
        /\ made'[o] = made[o] /\ cleared'[o] = cleared[o]

RequestStep(r) ==
    \/ Look(r) \/ Create(r) \/ SaveFails(r) \/ Schedule(r) \/ ScheduleExisting(r)
    \/ CheckCollection(r) \/ Find(r) \/ Patch(r) \/ Insert(r) \/ Join(r) \/ Detach(r)
    \/ CheckCollections(r) \/ Clear(r) \/ Fill(r)
    \/ Select(r) \/ InsertInTx(r) \/ LinkRow(r) \/ Commit(r) \/ RollBack(r)

LEMMA StepOthers ==
    ASSUME LibraryTypeOK, NEW r \in Requests, RequestStep(r)
    PROVE  OthersRest(r) /\ ask' = ask
<1> USE DEF LibraryTypeOK, OthersRest, GoTo, NextItem, ForgetRow, ForgetMade
<1>1. CASE Look(r) \/ Create(r) \/ SaveFails(r)
  BY <1>1 DEF Look, Create, SaveFails
<1>2. CASE Schedule(r) \/ ScheduleExisting(r)
  BY <1>2 DEF Schedule, ScheduleExisting
<1>3. CASE CheckCollection(r) \/ Find(r)
  BY <1>3 DEF CheckCollection, Find
<1>4. CASE Patch(r) \/ Insert(r)
  BY <1>4 DEF Patch, Insert
<1>5. CASE Join(r) \/ Detach(r) \/ CheckCollections(r)
  BY <1>5 DEF Join, Detach, CheckCollections
<1>6. CASE Clear(r) \/ Fill(r)
  BY <1>6 DEF Clear, Fill
<1>7. CASE Select(r) \/ InsertInTx(r) \/ LinkRow(r)
  BY <1>7 DEF Select, InsertInTx, LinkRow
<1>8. CASE Commit(r) \/ RollBack(r)
  BY <1>8 DEF Commit, RollBack
<1> QED
  BY <1>1, <1>2, <1>3, <1>4, <1>5, <1>6, <1>7, <1>8 DEF RequestStep

(* Where a request goes.                                                     *)
LEMMA AtTyped ==
    ASSUME LibraryTypeOK, NEW r \in Requests, NEW label \in Statements \cup Answers,
           GoTo(r, label)
    PROVE  at' \in [Requests -> Statements \cup Answers] /\ at'[r] = label
BY DEF LibraryTypeOK, GoTo

LEMMA CreateTyped ==
    ASSUME LibraryTypeOK, NEW r \in Requests, Page(r) \in Pages, CreateRow(r)
    PROVE  /\ next \in Ids \ DOMAIN rows /\ next' \in 1..MaxRow + 1 /\ next' = next + 1
           /\ DOMAIN rows' = DOMAIN rows \cup {next}
           /\ DOMAIN rows' \subseteq 1..next' - 1
           /\ rows' \in [DOMAIN rows' -> Row]
           /\ rows'[next] = NewRow(r)
           /\ \A i \in DOMAIN rows : rows'[i] = rows[i]
<1>1. next \in Ids /\ next \notin DOMAIN rows /\ next' = next + 1
  BY DEF LibraryTypeOK, CreateRow, Ids
<1>2. NewRow(r) \in Row
  BY DEF NewRow, Row, Spellings
<1>3. rows' = With(next, NewRow(r))
  BY DEF CreateRow
<1>4. DOMAIN rows' = DOMAIN rows \cup {next}
  BY <1>3 DEF With
<1>5. rows'[next] = NewRow(r) /\ \A i \in DOMAIN rows : rows'[i] = rows[i]
  BY <1>1, <1>3 DEF With
<1>6. rows' \in [DOMAIN rows' -> Row]
  <2>1. \A i \in DOMAIN rows' : rows'[i] \in Row
    BY <1>2, <1>4, <1>5 DEF LibraryTypeOK
  <2>2. rows' = [i \in DOMAIN rows' |-> rows'[i]]
    BY <1>3 DEF With
  <2> QED
    BY <2>1, <2>2
<1> QED
  BY <1>1, <1>4, <1>5, <1>6, LibraryAssumption DEF LibraryTypeOK, Ids

LEMMA RowIds ==
    ASSUME LibraryTypeOK, NEW i \in DOMAIN rows
    PROVE  i \in Ids /\ i \in Nat /\ i < next /\ next \in Nat /\ rows[i] \in Row
BY LibraryAssumption DEF LibraryTypeOK, Ids

(* A row that gets the canonical address.                                    *)
Canonizes(i) ==
    rows' = [rows EXCEPT ![i].canonical = TRUE, ![i].spelling = "canonical"]

LEMMA CanonizedRow ==
    ASSUME NEW x \in Row
    PROVE  LET y == [[x EXCEPT !.canonical = TRUE] EXCEPT !.spelling = "canonical"]
           IN  /\ y \in Row /\ y.page = x.page /\ y.by = x.by
               /\ y.tagged = x.tagged /\ y.canonical = TRUE
BY DEF Row, Spellings

LEMMA CanonizedRows ==
    ASSUME LibraryTypeOK, NEW i \in DOMAIN rows, Canonizes(i)
    PROVE  /\ DOMAIN rows' = DOMAIN rows /\ rows' \in [DOMAIN rows' -> Row]
           /\ \A j \in DOMAIN rows :
                /\ rows'[j].page = rows[j].page /\ rows'[j].by = rows[j].by
                /\ rows'[j].tagged = rows[j].tagged
                /\ rows'[j].canonical = rows[j].canonical \/ rows'[j].canonical = TRUE
<1> DEFINE y == [[rows[i] EXCEPT !.canonical = TRUE] EXCEPT !.spelling = "canonical"]
<1>1. rows[i] \in Row
  BY DEF LibraryTypeOK
<1>2. /\ y \in Row /\ y.page = rows[i].page /\ y.by = rows[i].by
      /\ y.tagged = rows[i].tagged /\ y.canonical = TRUE
  BY <1>1, CanonizedRow
<1>3. rows' = [rows EXCEPT ![i] = y]
  BY <1>1 DEF Canonizes, LibraryTypeOK
<1> HIDE DEF y
<1>4. /\ DOMAIN rows' = DOMAIN rows /\ rows' \in [DOMAIN rows' -> Row]
      /\ rows'[i] = y /\ \A j \in DOMAIN rows \ {i} : rows'[j] = rows[j]
  BY <1>2, <1>3 DEF LibraryTypeOK
<1> QED
  BY <1>2, <1>4

(* Steps that leave the database alone.                                      *)
LEMMA QuietTyped ==
    ASSUME LibraryTypeOK, NEW r \in Requests, StatementsFit(r),
           \/ Look(r) \/ SaveFails(r) \/ CheckCollection(r) \/ Find(r)
           \/ CheckCollections(r) \/ Select(r)
    PROVE  LibraryTypeOK'
<1> USE DEF LibraryTypeOK, storeVars, GoTo, Statements, Answers
<1>1. CASE Look(r)
  <2>1. at' \in [Requests -> Statements \cup Answers]
    BY <1>1 DEF Look, NextItem
  <2>2. /\ item' \in [Requests -> Nat \ {0}]
        /\ \A o \in Requests : item'[o] <= Len(ask[o].pages) + 1
    <3>1. item[r] \in 1..Len(ask[r].pages)
      BY <1>1, PageTyped DEF Look, AfterPages
    <3>2. item' = item \/ item' = [item EXCEPT ![r] = item[r] + 1]
      BY <1>1 DEF Look, NextItem
    <3>3. item' \in [Requests -> Nat \ {0}]
      BY <3>1, <3>2
    <3>4. Len(ask[r].pages) \in Nat
      BY AskTyped
    <3>5. ASSUME NEW o \in Requests PROVE item'[o] <= Len(ask[o].pages) + 1
      <4>1. CASE o = r
        BY <3>1, <3>2, <3>4, <4>1
      <4>2. CASE o # r
        BY <3>2, <4>2
      <4> QED
        BY <4>1, <4>2
    <3> QED
      BY <3>3, <3>5
  <2> QED
    BY <1>1, <2>1, <2>2 DEF Look
<1>2. CASE SaveFails(r)
  BY <1>2 DEF SaveFails, ForgetMade
<1>3. CASE CheckCollection(r)
  BY <1>3 DEF CheckCollection
<1>4. CASE Find(r)
  <2>1. at' \in [Requests -> Statements \cup Answers]
    BY <1>4 DEF Find
  <2>2. \A i \in Matching(r) : i \in Ids
    BY RowIds DEF Matching, Canonical, AsSpelled, Visible
  <2>3. row' \in [Requests -> {Nobody} \cup Ids]
    BY <1>4, <2>2 DEF Find
  <2> QED
    BY <1>4, <2>1, <2>3 DEF Find
<1>5. CASE CheckCollections(r)
  BY <1>5 DEF CheckCollections
<1>6. CASE Select(r)
  <2>1. at' \in [Requests -> Statements \cup Answers]
    BY <1>6 DEF Select
  <2>2. \A i \in Canonical(r) \cup AsSpelled(r, {ask[r].spelling}) : i \in Ids
    BY RowIds DEF Canonical, AsSpelled, Visible
  <2>3. row' \in [Requests -> {Nobody} \cup Ids]
    BY <1>6, <2>2 DEF Select
  <2> QED
    BY <1>6, <2>1, <2>3 DEF Select
<1> QED
  BY <1>1, <1>2, <1>3, <1>4, <1>5, <1>6

(* Steps about one page, or all, that write.                                 *)
LEMMA SaveTyped ==
    ASSUME LibraryTypeOK, NEW r \in Requests, StatementsFit(r),
           Create(r) \/ Schedule(r) \/ ScheduleExisting(r)
    PROVE  LibraryTypeOK'
<1> USE DEF LibraryTypeOK, GoTo, Statements, Answers
<1>1. CASE Create(r)
  <2>1. Page(r) \in Pages /\ item[r] \in 1..Len(ask[r].pages)
    BY <1>1, PageTyped DEF Create, AfterPages
  <2>2. at' \in [Requests -> Statements \cup Answers]
    BY <1>1 DEF Create, NextItem
  <2>3. /\ item' \in [Requests -> Nat \ {0}]
        /\ \A o \in Requests : item'[o] <= Len(ask[o].pages) + 1
    BY <1>1, <2>1, AskTyped DEF Create, NextItem
  <2>4. /\ next' \in 1..MaxRow + 1 /\ DOMAIN rows' \subseteq 1..next' - 1
        /\ rows' \in [DOMAIN rows' -> Row]
        /\ DOMAIN rows \subseteq DOMAIN rows'
        /\ made' \in [Requests -> SUBSET Ids]
    <3>1. CASE Canonical(r) # {} /\ UNCHANGED <<next, rows, made>>
      BY <3>1
    <3>2. CASE CreateRow(r) /\ made' = [made EXCEPT ![r] = @ \cup {next}]
      BY <2>1, <3>2, CreateTyped
    <3> QED
      BY <1>1, <3>1, <3>2 DEF Create
  <2> QED
    BY <1>1, <2>2, <2>3, <2>4 DEF Create
<1>2. CASE Schedule(r)
  BY <1>2 DEF Schedule, ForgetMade
<1>3. CASE ScheduleExisting(r)
  BY <1>3, RowIds DEF ScheduleExisting, Visible
<1> QED
  BY <1>1, <1>2, <1>3

LEMMA RowTyped ==
    ASSUME LibraryTypeOK, NEW r \in Requests, StatementsFit(r),
           Patch(r) \/ Insert(r)
    PROVE  LibraryTypeOK'
<1> USE DEF LibraryTypeOK, GoTo, Statements, Answers
<1>1. CASE Patch(r)
  <2>1. at' \in [Requests -> Statements \cup Answers]
    BY <1>1 DEF Patch, AfterRow
  <2>2. DOMAIN rows' = DOMAIN rows /\ rows' \in [DOMAIN rows' -> Row]
    <3>1. CASE rows' = rows
      BY <3>1
    <3>2. CASE row[r] \in DOMAIN rows /\ Canonizes(row[r])
      BY <3>2, CanonizedRows
    <3> QED
      BY <1>1, <3>1, <3>2 DEF Patch, Canonizes
  <2> QED
    BY <1>1, <2>1, <2>2 DEF Patch
<1>2. CASE Insert(r)
  <2>1. Page(r) \in Pages
    BY <1>2, PageTyped DEF Insert, AfterPages
  <2>2. at' \in [Requests -> Statements \cup Answers]
    BY <1>2 DEF Insert, AfterRow
  <2>3. /\ next' \in 1..MaxRow + 1 /\ DOMAIN rows' \subseteq 1..next' - 1
        /\ rows' \in [DOMAIN rows' -> Row]
        /\ DOMAIN rows \subseteq DOMAIN rows'
        /\ row' \in [Requests -> {Nobody} \cup Ids]
    <3>1. CASE UNCHANGED <<next, rows, row>>
      BY <3>1
    <3>2. CASE CreateRow(r) /\ row' = [row EXCEPT ![r] = next]
      BY <2>1, <3>2, CreateTyped
    <3> QED
      BY <1>2, <3>1, <3>2 DEF Insert
  <2> QED
    BY <1>2, <2>2, <2>3 DEF Insert
<1> QED
  BY <1>1, <1>2

(* What others hold is not touched.                                          *)
LEMMA HeldApart ==
    ASSUME NEW r \in Requests, NEW X, X \cap HeldPairs(r) = {},
           NEW o \in Requests \ {r}
    PROVE  cleared[o] \cap X = {}
BY DEF HeldPairs

(* Steps about memberships.                                                  *)
LEMMA MemberTyped ==
    ASSUME LibraryTypeOK, OwnersInv, ClearedInv, NEW r \in Requests,
           Join(r) \/ Detach(r) \/ Clear(r) \/ Fill(r)
    PROVE  LibraryTypeOK'
<1>1. /\ members' \subseteq Collections \X DOMAIN rows
      /\ cleared' \in [Requests -> SUBSET members']
  <2> USE DEF LibraryTypeOK, GoTo
  <2>0. HasTargets(r) => Pairs(r) \subseteq Collections \X DOMAIN rows
    BY DEF HasTargets, Pairs
  <2>1. CASE Join(r)
    BY <2>0, <2>1 DEF Join
  <2>2. CASE Detach(r)
    <3>1. cleared[r] = {}
      BY <2>2 DEF Detach, ClearedInv
    <3>2. \A o \in Requests : cleared[o] \cap Pairs(r) = {}
      BY <2>2, <3>1, HeldApart DEF Detach
    <3> QED
      BY <2>2, <3>2 DEF Detach
  <2>3. CASE Clear(r)
    <3>1. cleared[r] = {}
      BY <2>3 DEF Clear, ClearedInv
    <3>2. \A o \in Requests : cleared[o] \cap NoLongerAsked(r) = {}
      BY <2>3, <3>1, HeldApart DEF Clear
    <3>3. CASE members' = members \ NoLongerAsked(r) /\ UNCHANGED cleared
      BY <3>2, <3>3
    <3>4. CASE UNCHANGED members
               /\ cleared' = [cleared EXCEPT ![r] = NoLongerAsked(r) \cap members]
      BY <3>4
    <3> QED
      BY <2>3, <3>3, <3>4 DEF Clear
  <2>4. CASE Fill(r)
    <3>1. \A o \in Requests \ {r} : cleared[o] \cap cleared[r] = {}
      BY DEF ClearedInv
    <3>2. cleared' = [cleared EXCEPT ![r] = {}]
      BY <2>4 DEF Fill
    <3>3. CASE members' = (members \ cleared[r]) \cup Pairs(r) /\ HasTargets(r)
      BY <2>0, <3>1, <3>2, <3>3
    <3>4. CASE UNCHANGED members
      BY <3>2, <3>4
    <3> QED
      BY <2>4, <3>3, <3>4 DEF Fill
  <2> QED
    BY <2>1, <2>2, <2>3, <2>4
<1>2. /\ at' \in [Requests -> Statements \cup Answers]
      /\ row' \in [Requests -> {Nobody} \cup Ids]
      /\ disturbed' \subseteq Requests
      /\ UNCHANGED <<next, rows, links, open, scheduled, gone, ask, item, made>>
  <2>0. ASSUME NEW X, Disturb(X, r) PROVE disturbed' \subseteq Requests
    BY <2>0 DEF Disturb, Replacing, LibraryTypeOK
  <2> USE DEF LibraryTypeOK, GoTo, ForgetRow, Statements, Answers
  <2>1. CASE Join(r)
    BY <2>0, <2>1 DEF Join
  <2>2. CASE Detach(r)
    BY <2>0, <2>2 DEF Detach
  <2>3. CASE Clear(r)
    <3>1. at' \in [Requests -> Statements \cup Answers]
      BY <2>3 DEF Clear
    <3>2. disturbed' \subseteq Requests
      BY <2>0, <2>3 DEF Clear
    <3> QED
      BY <2>3, <3>1, <3>2 DEF Clear
  <2>4. CASE Fill(r)
    <3>1. at' = [at EXCEPT ![r] = "ok"] \/ at' = [at EXCEPT ![r] = "failed"]
      BY <2>4 DEF Fill
    <3>3. at' \in [Requests -> Statements \cup Answers]
      BY <3>1
    <3>2. disturbed' \subseteq Requests
      BY <2>0, <2>4 DEF Fill
    <3> QED
      BY <2>4, <3>2, <3>3 DEF Fill
  <2> QED
    BY <2>1, <2>2, <2>3, <2>4
<1> QED
  BY <1>1, <1>2 DEF LibraryTypeOK

(* Steps of the transaction of a selection.                                  *)
LEMMA SelectionTyped ==
    ASSUME LibraryTypeOK, NEW r \in Requests, StatementsFit(r),
           InsertInTx(r) \/ LinkRow(r) \/ Commit(r)
    PROVE  LibraryTypeOK'
<1> USE DEF LibraryTypeOK, GoTo, Statements, Answers
<1>1. CASE InsertInTx(r)
  <2>1. Page(r) \in Pages
    BY <1>1, PageTyped DEF InsertInTx, AfterPages
  <2>2. at' \in [Requests -> Statements \cup Answers]
    BY <1>1 DEF InsertInTx
  <2>3. /\ next' \in 1..MaxRow + 1 /\ DOMAIN rows' \subseteq 1..next' - 1
        /\ rows' \in [DOMAIN rows' -> Row]
        /\ DOMAIN rows \subseteq DOMAIN rows'
        /\ row' \in [Requests -> {Nobody} \cup Ids]
        /\ made' \in [Requests -> SUBSET Ids]
    BY <1>1, <2>1, CreateTyped DEF InsertInTx
  <2> QED
    BY <1>1, <2>2, <2>3 DEF InsertInTx
<1>2. CASE LinkRow(r)
  <2>1. at' \in [Requests -> Statements \cup Answers]
    BY <1>2 DEF LinkRow, NextItem
  <2>2. /\ item' \in [Requests -> Nat \ {0}]
        /\ \A o \in Requests : item'[o] <= Len(ask[o].pages) + 1
    <3>1. item[r] \in 1..Len(ask[r].pages)
      BY <1>2, PageTyped DEF LinkRow, AfterPages
    <3> QED
      BY <1>2, <3>1, AskTyped DEF LinkRow, NextItem
  <2>3. links' \subseteq Requests \X DOMAIN rows
    BY <1>2 DEF LinkRow
  <2>4. made' \in [Requests -> SUBSET Ids] /\ row' \in [Requests -> {Nobody} \cup Ids]
    BY <1>2, RowIds DEF LinkRow, ForgetRow
  <2> QED
    BY <1>2, <2>1, <2>2, <2>3, <2>4 DEF LinkRow
<1>3. CASE Commit(r)
  <2>1. \A i \in DOMAIN rows : [rows[i] EXCEPT !.by = IF @ = r THEN Nobody ELSE @] \in Row
    BY DEF Row
  <2>2. DOMAIN rows' = DOMAIN rows /\ rows' \in [DOMAIN rows' -> Row]
    BY <1>3, <2>1 DEF Commit
  <2>3. scheduled' \subseteq Ids
    BY <1>3 DEF Commit
  <2>4. made' \in [Requests -> SUBSET Ids]
    BY <1>3 DEF Commit, ForgetMade
  <2>5. at' \in [Requests -> Statements \cup Answers]
    BY <1>3 DEF Commit
  <2> QED
    BY <1>3, <2>2, <2>3, <2>4, <2>5 DEF Commit
<1> QED
  BY <1>1, <1>2, <1>3

(* Steps that remove rows or what belongs to them.                           *)
LEMMA RemovalTyped ==
    ASSUME LibraryTypeOK, OwnersInv, ClearedInv,
           (\E r \in Requests : RollBack(r)) \/ DeleteUrlRow \/ DeleteCollection
    PROVE  LibraryTypeOK'
<1> USE DEF LibraryTypeOK
<1>1. ASSUME NEW r \in Requests, RollBack(r) PROVE LibraryTypeOK'
  <2>1. at' \in [Requests -> Statements \cup Answers]
    BY <1>1 DEF RollBack, GoTo, Answers
  <2>2. row' \in [Requests -> {Nobody} \cup Ids] /\ made' \in [Requests -> SUBSET Ids]
    BY <1>1 DEF RollBack, ForgetRow, ForgetMade
  <2>3. DOMAIN rows' \subseteq 1..next' - 1 /\ rows' \in [DOMAIN rows' -> Row]
    BY <1>1 DEF RollBack
  <2>4. members' \subseteq Collections \X DOMAIN rows'
    <3>1. SUFFICES ASSUME NEW m \in members PROVE m[2] \in DOMAIN rows'
      BY <1>1 DEF RollBack
    <3>2. rows[m[2]].by = Nobody /\ m[2] \in DOMAIN rows
      BY DEF OwnersInv
    <3> QED
      BY <1>1, <3>2, LibraryAssumption DEF RollBack
  <2>5. links' \subseteq Requests \X DOMAIN rows'
    <3>1. SUFFICES ASSUME NEW k \in links, k[1] # r PROVE k[2] \in DOMAIN rows'
      BY <1>1 DEF RollBack, LinksAfterRollback
    <3>2. rows[k[2]].by \in {Nobody, k[1]} /\ k[2] \in DOMAIN rows
      BY DEF OwnersInv
    <3> QED
      BY <1>1, <3>1, <3>2, LibraryAssumption DEF RollBack
  <2>6. cleared' \in [Requests -> SUBSET members']
    BY <1>1 DEF RollBack
  <2>7. disturbed' \subseteq Requests
    BY <1>1 DEF RollBack
  <2> QED
    BY <1>1, <2>1, <2>2, <2>3, <2>4, <2>5, <2>6, <2>7 DEF RollBack
<1>2. CASE DeleteUrlRow
  <2>1. PICK i \in DOMAIN rows :
          /\ \A r \in Requests : cleared[r] \cap (Collections \X {i}) = {}
          /\ rows' = [j \in DOMAIN rows \ {i} |-> rows[j]]
          /\ members' = {m \in members : m[2] # i}
          /\ links' = {k \in links : k[2] # i}
          /\ gone' = gone \cup {rows[i].page}
          /\ UNCHANGED <<next, open, scheduled, ask, requestVars, disturbed>>
    BY <1>2 DEF DeleteUrlRow
  <2>2. DOMAIN rows' \subseteq 1..next' - 1 /\ rows' \in [DOMAIN rows' -> Row]
    BY <2>1
  <2>3. gone' \subseteq Pages
    BY <2>1, RowIds DEF Row
  <2>4. members' \subseteq Collections \X DOMAIN rows'
        /\ links' \subseteq Requests \X DOMAIN rows'
    BY <2>1
  <2>5. cleared' \in [Requests -> SUBSET members']
    <3>1. ASSUME NEW r \in Requests, NEW m \in cleared[r] PROVE m \in members'
      <4>1. m \in members /\ m \in Collections \X DOMAIN rows
        OBVIOUS
      <4>2. m = <<m[1], m[2]>> /\ m[1] \in Collections
        BY <4>1
      <4>3. m[2] # i
        BY <2>1, <4>2
      <4> QED
        BY <2>1, <4>1, <4>3
    <3> QED
      BY <2>1, <3>1 DEF requestVars
  <2> QED
    BY <2>1, <2>2, <2>3, <2>4, <2>5 DEF requestVars
<1>3. CASE DeleteCollection
  <2>1. PICK c \in open :
          /\ \A r \in Requests : cleared[r] \cap ({c} \X Ids) = {}
          /\ open' = open \ {c}
          /\ members' = {m \in members : m[1] # c}
          /\ disturbed' = disturbed \cup {r \in Requests : at[r] = "fill"}
          /\ UNCHANGED <<next, rows, links, scheduled, gone, ask, requestVars>>
    BY <1>3 DEF DeleteCollection
  <2>2. cleared' \in [Requests -> SUBSET members']
    <3>1. ASSUME NEW r \in Requests, NEW m \in cleared[r] PROVE m \in members'
      <4>1. m \in members /\ m \in Collections \X DOMAIN rows
        OBVIOUS
      <4>2. m = <<m[1], m[2]>> /\ m[2] \in Ids
        BY <4>1, RowIds
      <4>3. m[1] # c
        BY <2>1, <4>2
      <4> QED
        BY <2>1, <4>1, <4>3
    <3> QED
      BY <2>1, <3>1 DEF requestVars
  <2> QED
    BY <2>1, <2>2 DEF requestVars
<1> QED
  BY <1>1, <1>2, <1>3

LEMMA LibraryNextTyped ==
    ASSUME LibraryInv, [LibraryNext]_libraryVars
    PROVE  LibraryTypeOK'
<1> USE DEF LibraryInv
<1>1. ASSUME NEW r \in Requests, RequestStep(r) PROVE LibraryTypeOK'
  BY <1>1, QuietTyped, SaveTyped, RowTyped, MemberTyped, SelectionTyped, RemovalTyped
     DEF RequestStep
<1>2. CASE UNCHANGED libraryVars
  BY <1>2 DEF libraryVars, requestVars, LibraryTypeOK
<1> QED
  BY <1>1, <1>2, RemovalTyped DEF LibraryNext, RequestStep

-----------------------------------------------------------------------------
(* Each request keeps to the statements of its kind.                         *)
LEMMA ActorFits ==
    ASSUME LibraryTypeOK, NEW r \in Requests, StatementsFit(r), RequestStep(r)
    PROVE  StatementsFit(r)'
<1> USE DEF LibraryTypeOK, StatementsFit, GoTo, Saving, Selecting, AfterPages, Statements
<1>0. /\ Len(ask[r].pages) \in Nat /\ item[r] \in Nat
      /\ ask[r].kind \in {"save", "purpose", "assign", "add", "remove"}
      /\ ask' = ask
  BY AskTyped, StepOthers
<1>1. CASE Look(r)
  BY <1>0, <1>1 DEF Look, NextItem, LastItem
<1>2. CASE Create(r)
  BY <1>0, <1>2 DEF Create, NextItem, LastItem
<1>3. CASE SaveFails(r) \/ Schedule(r) \/ ScheduleExisting(r)
  BY <1>0, <1>3 DEF SaveFails, Schedule, ScheduleExisting
<1>4. CASE CheckCollection(r) \/ CheckCollections(r)
  BY <1>0, <1>4 DEF CheckCollection, CheckCollections
<1>5. CASE Find(r)
  BY <1>0, <1>5 DEF Find
<1>6. CASE Patch(r)
  BY <1>0, <1>6 DEF Patch, AfterRow
<1>7. CASE Insert(r)
  BY <1>0, <1>7 DEF Insert, AfterRow
<1>8. CASE Join(r) \/ Detach(r)
  BY <1>0, <1>8 DEF Join, Detach
<1>9. CASE Clear(r) \/ Fill(r)
  BY <1>0, <1>9 DEF Clear, Fill
<1>10. CASE Select(r) \/ InsertInTx(r)
  BY <1>0, <1>10 DEF Select, InsertInTx
<1>11. CASE LinkRow(r)
  BY <1>0, <1>11 DEF LinkRow, NextItem, LastItem
<1>12. CASE Commit(r) \/ RollBack(r)
  BY <1>0, <1>12 DEF Commit, RollBack
<1> QED
  BY <1>1, <1>2, <1>3, <1>4, <1>5, <1>6, <1>7, <1>8, <1>9, <1>10, <1>11, <1>12
     DEF RequestStep

LEMMA NextFits ==
    ASSUME LibraryInv, [LibraryNext]_libraryVars, NEW o \in Requests
    PROVE  StatementsFit(o)'
<1> USE DEF LibraryInv
<1>1. ASSUME NEW r \in Requests, RequestStep(r) PROVE StatementsFit(o)'
  <2>1. CASE o = r
    BY <1>1, <2>1, ActorFits
  <2>2. CASE o # r
    BY <1>1, <2>2, StepOthers DEF OthersRest, StatementsFit
  <2> QED
    BY <2>1, <2>2
<1>2. CASE UNCHANGED <<ask, at, item>>
  BY <1>2 DEF StatementsFit
<1> QED
  BY <1>1, <1>2
     DEF LibraryNext, RequestStep, DeleteUrlRow, DeleteCollection, libraryVars, requestVars

-----------------------------------------------------------------------------
(* Who holds what.  First the steps that create and remove no row: what is   *)
(* new in a membership, a link or a request's hand is a row the request may  *)
(* use.                                                                      *)
UsesOwn(r) ==
    /\ next' = next /\ DOMAIN rows' = DOMAIN rows
    /\ \A i \in DOMAIN rows : rows'[i].by = rows[i].by
    /\ at[r] \in Selecting \cup {"ok"} => at'[r] \in Selecting
    /\ \A m \in members' \ members :
         m[2] = row[r] /\ row[r] \in DOMAIN rows /\ at[r] \notin Selecting
    /\ \A k \in links' \ links :
         k = <<r, row[r]>> /\ row[r] \in DOMAIN rows /\ at'[r] \in Selecting
    /\ row'[r] \in {row[r], Nobody} \cup Visible(r)
    /\ made'[r] \subseteq made[r] \cup DOMAIN rows

LEMMA OwnerStays ==
    ASSUME NEW r \in Requests, OthersRest(r),
           at[r] \in Selecting \cup {"ok"} => at'[r] \in Selecting,
           NEW b \in Requests, at[b] \in Selecting
    PROVE  at'[b] \in Selecting
<1>1. CASE b = r
  BY <1>1
<1>2. CASE b # r
  BY <1>2 DEF OthersRest
<1> QED
  BY <1>1, <1>2

LEMMA OwnersUse ==
    ASSUME LibraryTypeOK, OwnersInv, NEW r \in Requests, OthersRest(r), UsesOwn(r)
    PROVE  OwnersInv'
<1> USE DEF LibraryTypeOK, OwnersInv, UsesOwn, OthersRest
<1>0. \A i \in DOMAIN rows : rows[i] \in Row /\ rows[i].by \in {Nobody} \cup Requests
  BY DEF Row
<1>5. \A o \in Requests : row[o] \in DOMAIN rows => rows'[row[o]].by \in {Nobody, o}
  OBVIOUS
<1>1. \A i \in DOMAIN rows' : rows'[i].by # Nobody => at'[rows'[i].by] \in Selecting
  <2>1. SUFFICES ASSUME NEW i \in DOMAIN rows, rows[i].by # Nobody
                 PROVE  at'[rows[i].by] \in Selecting
    OBVIOUS
  <2>2. rows[i].by \in Requests /\ at[rows[i].by] \in Selecting
    BY <1>0, <2>1
  <2> QED
    BY <2>2, OwnerStays
<1>2. \A m \in members' : rows'[m[2]].by = Nobody
  BY LibraryAssumption
<1>3. \A k \in links' :
        rows'[k[2]].by \in {Nobody, k[1]} /\ at'[k[1]] \in Selecting \cup {"ok"}
  <2>1. SUFFICES ASSUME NEW k \in links'
                 PROVE  /\ rows'[k[2]].by \in {Nobody, k[1]}
                        /\ at'[k[1]] \in Selecting \cup {"ok"}
    OBVIOUS
  <2>2. CASE k \in links
    BY <2>2
  <2>3. CASE k \notin links
    <3>1. k = <<r, row[r]>> /\ row[r] \in DOMAIN rows /\ at'[r] \in Selecting
      BY <2>3
    <3> QED
      BY ONLY <1>5, <3>1
  <2> QED
    BY <2>2, <2>3
<1>4. ASSUME NEW o \in Requests
      PROVE  /\ row'[o] # Nobody => row'[o] < next'
             /\ made'[o] \subseteq 1..next' - 1
             /\ row'[o] \in DOMAIN rows' => rows'[row'[o]].by \in {Nobody, o}
  <2>2. \A i \in DOMAIN rows : i < next /\ i \in 1..next' - 1
    BY RowIds
  <2>3. made'[o] \subseteq 1..next' - 1
    BY <2>2
  <2>4. CASE row'[o] = row[o]
    <3>1. row[o] # Nobody => row[o] < next
      OBVIOUS
    <3> QED
      BY <1>5, <2>3, <2>4, <3>1
  <2>5. CASE o = r /\ row'[o] = Nobody
    BY <2>2, <2>3, <2>5, RowIds, LibraryAssumption DEF Ids
  <2>6. CASE o = r /\ row'[o] \in Visible(r)
    BY <2>2, <2>3, <2>6 DEF Visible
  <2> QED
    BY <2>4, <2>5, <2>6
<1> QED
  BY <1>1, <1>2, <1>3, <1>4

LEMMA OwnersCreate ==
    ASSUME LibraryTypeOK, OwnersInv, NEW r \in Requests, OthersRest(r),
           Page(r) \in Pages, CreateRow(r), UNCHANGED <<members, links>>,
           at[r] \in Selecting \cup {"ok"} \/ InTx(r) => at'[r] \in Selecting,
           row'[r] \in {row[r], next}, made'[r] \subseteq made[r] \cup {next}
    PROVE  OwnersInv'
<1> USE DEF LibraryTypeOK, OwnersInv, OthersRest
<1>0. /\ next \in Nat /\ next \notin DOMAIN rows /\ next' = next + 1
      /\ DOMAIN rows' = DOMAIN rows \cup {next}
      /\ rows'[next].by = IF InTx(r) THEN r ELSE Nobody
      /\ \A i \in DOMAIN rows : rows'[i] = rows[i]
  <2>1. next \in Ids /\ rows'[next] = NewRow(r)
    BY CreateTyped
  <2>2. next \in Nat
    BY <2>1, LibraryAssumption DEF Ids
  <2>3. NewRow(r).by = IF InTx(r) THEN r ELSE Nobody
    BY DEF NewRow
  <2> QED
    BY <2>1, <2>2, <2>3, CreateTyped
<1>1. \A i \in DOMAIN rows' : rows'[i].by # Nobody => at'[rows'[i].by] \in Selecting
  <2>1. ASSUME NEW i \in DOMAIN rows, rows[i].by # Nobody
        PROVE  at'[rows[i].by] \in Selecting
    <3>1. rows[i].by \in Requests /\ at[rows[i].by] \in Selecting
      BY <2>1, RowIds DEF Row
    <3> QED
      BY <3>1, OwnerStays
  <2>2. rows'[next].by # Nobody => at'[rows'[next].by] \in Selecting
    BY <1>0
  <2> QED
    BY <1>0, <2>1, <2>2
<1>2. \A m \in members' : rows'[m[2]].by = Nobody
  BY <1>0
<1>3. \A k \in links' :
        rows'[k[2]].by \in {Nobody, k[1]} /\ at'[k[1]] \in Selecting \cup {"ok"}
  BY <1>0
<1>4. ASSUME NEW o \in Requests
      PROVE  /\ row'[o] # Nobody => row'[o] < next'
             /\ made'[o] \subseteq 1..next' - 1
             /\ row'[o] \in DOMAIN rows' => rows'[row'[o]].by \in {Nobody, o}
  <2>1. row[o] # Nobody => row[o] < next /\ row[o] \in Nat
    BY DEF Ids
  <2>2. row'[o] # Nobody => row'[o] < next'
    BY <1>0, <2>1
  <2>3. made'[o] \subseteq 1..next' - 1
    <3>1. made'[o] \subseteq made[o] \cup {next} /\ made[o] \subseteq 1..next - 1
      OBVIOUS
    <3>2. 1..next - 1 \subseteq 1..next' - 1 /\ next \in 1..next' - 1
      <4>1. next >= 1
        OBVIOUS
      <4> QED
        BY <1>0, <4>1
    <3> QED
      BY <3>1, <3>2
  <2>4. row'[o] \in DOMAIN rows' => rows'[row'[o]].by \in {Nobody, o}
    <3>1. CASE o = r /\ row'[r] = next
      BY <1>0, <3>1
    <3>2. CASE row'[o] = row[o]
      <4>1. row[o] # next
        BY <1>0, <2>1, CreateTyped, LibraryAssumption DEF Ids
      <4> QED
        BY <1>0, <3>2, <4>1
    <3> QED
      BY <3>1, <3>2
  <2> QED
    BY <2>2, <2>3, <2>4
<1> QED
  BY <1>1, <1>2, <1>3, <1>4

LEMMA ActorOwns ==
    ASSUME LibraryTypeOK, OwnersInv, NEW r \in Requests, StatementsFit(r),
           OthersRest(r), RequestStep(r)
    PROVE  OwnersInv'
<1> USE DEF LibraryTypeOK, GoTo, Selecting
<1>1. CASE Look(r) \/ SaveFails(r) \/ Schedule(r) \/ ScheduleExisting(r)
  <2>1. UsesOwn(r)
    BY <1>1 DEF UsesOwn, Look, SaveFails, Schedule, ScheduleExisting, ForgetMade, storeVars
  <2> QED
    BY <2>1, OwnersUse
<1>2. CASE CheckCollection(r) \/ CheckCollections(r)
  <2>1. UsesOwn(r)
    BY <1>2 DEF UsesOwn, CheckCollection, CheckCollections, storeVars
  <2> QED
    BY <2>1, OwnersUse
<1>3. CASE Find(r) \/ Select(r)
  <2>1. Matching(r) \subseteq Visible(r)
        /\ Canonical(r) \cup AsSpelled(r, {ask[r].spelling}) \subseteq Visible(r)
    BY DEF Matching, Canonical, AsSpelled
  <2>2. UsesOwn(r)
    BY <1>3, <2>1 DEF UsesOwn, Find, Select, storeVars
  <2> QED
    BY <2>2, OwnersUse
<1>4. CASE Patch(r)
  <2>1. DOMAIN rows' = DOMAIN rows /\ \A i \in DOMAIN rows : rows'[i].by = rows[i].by
    <3>1. CASE rows' = rows
      BY <3>1
    <3>2. CASE row[r] \in DOMAIN rows /\ Canonizes(row[r])
      BY <3>2, CanonizedRows
    <3> QED
      BY <1>4, <3>1, <3>2 DEF Patch, Canonizes
  <2>2. UsesOwn(r)
    BY <1>4, <2>1 DEF UsesOwn, Patch
  <2> QED
    BY <2>2, OwnersUse
<1>5. CASE Join(r) \/ Detach(r) \/ Clear(r) \/ Fill(r)
  <2>1. \A m \in members' \ members :
          m[2] = row[r] /\ row[r] \in DOMAIN rows /\ at[r] \notin Selecting
    BY <1>5 DEF Join, Detach, Clear, Fill, Pairs, HasTargets
  <2>2. /\ next' = next /\ rows' = rows /\ links' = links /\ made' = made
        /\ at[r] \notin Selecting \cup {"ok"} /\ row'[r] \in {row[r], Nobody}
    BY <1>5 DEF Join, Detach, Clear, Fill, ForgetRow
  <2>3. UsesOwn(r)
    BY <2>1, <2>2 DEF UsesOwn
  <2> QED
    BY <2>3, OwnersUse
<1>6. CASE LinkRow(r)
  <2>1. /\ at'[r] \in Selecting /\ next' = next /\ rows' = rows /\ members' = members
        /\ row[r] \in DOMAIN rows /\ row'[r] = Nobody
    BY <1>6 DEF LinkRow, NextItem, ForgetRow
  <2>2. \A k \in links' \ links : k = <<r, row[r]>>
    BY <1>6 DEF LinkRow
  <2>3. made'[r] \subseteq made[r] \cup DOMAIN rows
    BY <1>6, <2>1 DEF LinkRow
  <2>4. UsesOwn(r)
    BY <2>1, <2>2, <2>3 DEF UsesOwn
  <2> QED
    BY <2>4, OwnersUse
<1>7. CASE Create(r)
  <2>1. CASE UNCHANGED <<next, rows, made>>
    <3>1. UsesOwn(r)
      BY <1>7, <2>1 DEF Create, UsesOwn
    <3> QED
      BY <3>1, OwnersUse
  <2>2. CASE CreateRow(r) /\ made' = [made EXCEPT ![r] = @ \cup {next}]
    <3>1. ~InTx(r) /\ Page(r) \in Pages
      BY <1>7, PageTyped DEF Create, StatementsFit, Saving, AfterPages, Statements, InTx
    <3> QED
      BY <1>7, <2>2, <3>1, OwnersCreate DEF Create
  <2> QED
    BY <1>7, <2>1, <2>2 DEF Create
<1>8. CASE Insert(r)
  <2>1. CASE UNCHANGED <<next, rows, row>>
    <3>1. UsesOwn(r)
      BY <1>8, <2>1 DEF Insert, UsesOwn
    <3> QED
      BY <3>1, OwnersUse
  <2>2. CASE CreateRow(r) /\ row' = [row EXCEPT ![r] = next]
    <3>1. ~InTx(r) /\ Page(r) \in Pages
      BY <1>8, PageTyped DEF Insert, StatementsFit, AfterPages, Statements, InTx
    <3> QED
      BY <1>8, <2>2, <3>1, OwnersCreate DEF Insert
  <2> QED
    BY <1>8, <2>1, <2>2 DEF Insert
<1>9. CASE InsertInTx(r)
  <2>1. Page(r) \in Pages
    BY <1>9, PageTyped DEF InsertInTx, AfterPages, Statements
  <2> QED
    BY <1>9, <2>1, OwnersCreate DEF InsertInTx
<1>10. CASE Commit(r)
  <2> USE DEF OwnersInv, OthersRest
  <2>0. /\ DOMAIN rows' = DOMAIN rows /\ at'[r] = "ok" /\ next' = next
        /\ \A i \in DOMAIN rows :
             rows'[i].by = IF rows[i].by = r THEN Nobody ELSE rows[i].by
        /\ UNCHANGED <<members, links, row>>
        /\ made'[r] = {}
    BY <1>10 DEF Commit, ForgetMade, Row
  <2>1. \A i \in DOMAIN rows' : rows'[i].by # Nobody => at'[rows'[i].by] \in Selecting
    BY <2>0 DEF Row
  <2>2. \A m \in members' : rows'[m[2]].by = Nobody
    BY <2>0
  <2>3. \A k \in links' :
          rows'[k[2]].by \in {Nobody, k[1]} /\ at'[k[1]] \in Selecting \cup {"ok"}
    BY <2>0
  <2>4. ASSUME NEW o \in Requests
        PROVE  /\ row'[o] # Nobody => row'[o] < next'
               /\ made'[o] \subseteq 1..next' - 1
               /\ row'[o] \in DOMAIN rows' => rows'[row'[o]].by \in {Nobody, o}
    BY <2>0
  <2> QED
    BY <2>1, <2>2, <2>3, <2>4
<1>11. CASE RollBack(r)
  <2> USE DEF OwnersInv, OthersRest
  <2>0. /\ DOMAIN rows' = {i \in DOMAIN rows : rows[i].by # r} /\ next' = next
        /\ \A i \in DOMAIN rows' : rows'[i] = rows[i]
        /\ members' = members /\ links' = {k \in links : k[1] # r}
        /\ row'[r] = Nobody /\ made'[r] = {}
    BY <1>11 DEF RollBack, LinksAfterRollback, ForgetMade, ForgetRow
  <2>1. \A i \in DOMAIN rows' : rows'[i].by # Nobody => at'[rows'[i].by] \in Selecting
    BY <2>0 DEF Row
  <2>2. \A m \in members' : rows'[m[2]].by = Nobody
    BY <2>0, LibraryAssumption
  <2>3. \A k \in links' :
          rows'[k[2]].by \in {Nobody, k[1]} /\ at'[k[1]] \in Selecting \cup {"ok"}
    BY <2>0, LibraryAssumption
  <2>4. ASSUME NEW o \in Requests
        PROVE  /\ row'[o] # Nobody => row'[o] < next'
               /\ made'[o] \subseteq 1..next' - 1
               /\ row'[o] \in DOMAIN rows' => rows'[row'[o]].by \in {Nobody, o}
    <3>1. Nobody \notin DOMAIN rows
      BY RowIds, LibraryAssumption DEF Ids
    <3>2. CASE o = r
      BY <2>0, <3>1, <3>2
    <3>3. CASE o # r
      BY <2>0, <3>3
    <3> QED
      BY <3>2, <3>3
  <2> QED
    BY <2>1, <2>2, <2>3, <2>4
<1> QED
  BY <1>1, <1>2, <1>3, <1>4, <1>5, <1>6, <1>7, <1>8, <1>9, <1>10, <1>11
     DEF RequestStep

LEMMA NextOwns ==
    ASSUME LibraryInv, [LibraryNext]_libraryVars
    PROVE  OwnersInv'
<1> USE DEF LibraryInv
<1>1. ASSUME NEW r \in Requests, RequestStep(r) PROVE OwnersInv'
  BY <1>1, StepOthers, ActorOwns
<1>2. CASE DeleteUrlRow
  <2>1. PICK i \in DOMAIN rows :
          /\ rows' = [j \in DOMAIN rows \ {i} |-> rows[j]]
          /\ members' = {m \in members : m[2] # i}
          /\ links' = {k \in links : k[2] # i}
          /\ UNCHANGED <<next, requestVars>>
    BY <1>2 DEF DeleteUrlRow
  <2>2. /\ DOMAIN rows' = DOMAIN rows \ {i} /\ \A j \in DOMAIN rows' : rows'[j] = rows[j]
        /\ \A m \in members' : m \in members /\ m[2] \in DOMAIN rows'
        /\ \A k \in links' : k \in links /\ k[2] \in DOMAIN rows'
        /\ UNCHANGED <<next, at, row, made>>
    BY <2>1 DEF requestVars, LibraryTypeOK
  <2> QED
    BY <2>2 DEF OwnersInv
<1>3. CASE DeleteCollection
  <2>1. members' \subseteq members /\ UNCHANGED <<next, rows, links, requestVars>>
    BY <1>3 DEF DeleteCollection
  <2> QED
    BY <2>1 DEF OwnersInv, requestVars
<1>4. CASE UNCHANGED libraryVars
  BY <1>4 DEF OwnersInv, libraryVars, requestVars
<1> QED
  BY <1>1, <1>2, <1>3, <1>4 DEF LibraryNext, RequestStep

-----------------------------------------------------------------------------
(* What assignments hold, and what they leave.  A step that changes the      *)
(* members of a page disturbs the assignments of others.                     *)
LEMMA DisturbsOthers ==
    ASSUME ClearedInv, NEW r \in Requests, OthersRest(r), ask' = ask,
           \A m \in members' : m \in members \/ m[2] = row[r],
           members' = members \/ disturbed' = (disturbed \cup Replacing(row[r])) \ {r},
           disturbed \ {r} \subseteq disturbed', cleared'[r] = {}, at'[r] # "fill"
    PROVE  ClearedInv'
<1>1. \A q, o \in Requests : q # o => cleared'[q] \cap cleared'[o] = {}
  BY DEF ClearedInv, OthersRest
<1>2. ASSUME NEW o \in Requests \ {r}, at'[o] = "fill", o \notin disturbed',
             NEW m \in members', m[2] = row'[o]
      PROVE  m \in cleared'[o] \cup Pairs(o)'
  <2>1. /\ at[o] = "fill" /\ o \notin disturbed /\ m[2] = row[o]
        /\ cleared'[o] = cleared[o] /\ Pairs(o)' = Pairs(o)
    BY <1>2 DEF OthersRest, Pairs
  <2>2. m \in members
    BY <1>2, <2>1 DEF Replacing
  <2> QED
    BY <2>1, <2>2 DEF ClearedInv
<1>3. ASSUME NEW o \in Requests \ {r}
      PROVE  /\ cleared'[o] # {} => at'[o] = "fill"
             /\ cleared'[o] \subseteq Collections \X {row'[o]}
  BY DEF ClearedInv, OthersRest
<1> QED
  BY <1>1, <1>2, <1>3 DEF ClearedInv

LEMMA ActorClears ==
    ASSUME LibraryTypeOK, ClearedInv, NEW r \in Requests, StatementsFit(r),
           OthersRest(r), ask' = ask, RequestStep(r)
    PROVE  ClearedInv'
<1> USE DEF LibraryTypeOK, OthersRest
<1> DEFINE Left(o) == \A m \in members : m[2] = row[o] => m \in cleared[o] \cup Pairs(o)
           Calm(o) == at[o] = "fill" /\ o \notin disturbed
<1>0. \A o \in Requests \ {r} : Pairs(o)' = Pairs(o)
  BY DEF Pairs
<1>1. ASSUME at[r] \notin {"join", "detach", "clear", "fill"}
      PROVE  ClearedInv'
  <2>1. members' = members /\ cleared'[r] = {} /\ at'[r] # "fill"
        /\ disturbed' \in {disturbed, disturbed \ {r}}
    <3>1. cleared[r] = {} /\ cleared \in [Requests -> SUBSET members]
      BY <1>1 DEF ClearedInv
    <3> QED
      BY <1>1, <3>1 DEF RequestStep, Look, Create, SaveFails, Schedule, ScheduleExisting,
         CheckCollection, Find, Patch, Insert, Join, Detach, CheckCollections, Clear, Fill,
         Select, InsertInTx, LinkRow, Commit, RollBack, GoTo, NextItem, AfterRow, storeVars
  <2> QED
    BY <1>0, <2>1 DEF ClearedInv
<1>2. ASSUME at[r] \in {"join", "detach"}
      PROVE  ClearedInv'
  <2>1. /\ \A m \in members' : m \in members \/ m[2] = row[r]
        /\ members' = members \/ disturbed' = (disturbed \cup Replacing(row[r])) \ {r}
        /\ disturbed \ {r} \subseteq disturbed'
        /\ cleared'[r] = {} /\ at'[r] # "fill"
    BY <1>2 DEF RequestStep, Look, Create, SaveFails, Schedule, ScheduleExisting,
       CheckCollection, Find, Patch, Insert, Join, Detach, CheckCollections, Clear, Fill,
       Select, InsertInTx, LinkRow, Commit, RollBack, GoTo, Disturb, Pairs, ClearedInv
  <2> QED
    BY <2>1, DisturbsOthers
<1>3. CASE Clear(r)
  <2>0. at[r] = "clear" /\ cleared[r] = {}
    BY <1>3 DEF Clear, ClearedInv
  <2>1. CASE /\ members' = members \ NoLongerAsked(r) /\ UNCHANGED cleared
             /\ GoTo(r, "ok") /\ Disturb({row[r]}, r)
    <3>1. at'[r] # "fill" /\ disturbed \ {r} \subseteq disturbed'
      BY <2>1 DEF GoTo, Disturb
    <3> QED
      BY <1>0, <2>0, <2>1, <3>1 DEF ClearedInv
  <2>2. CASE /\ members' = members /\ disturbed' = disturbed \ {r} /\ GoTo(r, "fill")
             /\ cleared' = [cleared EXCEPT ![r] = NoLongerAsked(r) \cap members]
    <3>1. \A o \in Requests \ {r} : cleared[o] \cap NoLongerAsked(r) = {}
      BY <1>3, HeldApart DEF Clear
    <3>2. cleared'[r] = NoLongerAsked(r) \cap members /\ at'[r] = "fill"
          /\ row' = row /\ Pairs(r)' = Pairs(r)
      BY <1>3, <2>2 DEF Clear, GoTo, Pairs
    <3>3. cleared'[r] \subseteq Collections \X {row'[r]}
      BY <3>2 DEF NoLongerAsked
    <3>4. ASSUME NEW m \in members, m[2] = row[r]
          PROVE  m \in cleared'[r] \cup Pairs(r)
      <4>1. m = <<m[1], m[2]>> /\ m[1] \in Collections
        OBVIOUS
      <4>2. m \in Collections \X {row[r]}
        BY <3>4, <4>1
      <4> QED
        BY <3>2, <4>2 DEF NoLongerAsked
    <3> QED
      BY <1>0, <2>2, <3>1, <3>2, <3>3, <3>4 DEF ClearedInv
  <2> QED
    BY <1>3, <2>1, <2>2 DEF Clear
<1>4. CASE Fill(r)
  <2>1. /\ \A m \in members' : m \in members \/ m[2] = row[r]
        /\ members' = members \/ disturbed' = (disturbed \cup Replacing(row[r])) \ {r}
        /\ disturbed \ {r} \subseteq disturbed'
        /\ cleared'[r] = {} /\ at'[r] # "fill"
    BY <1>4 DEF Fill, GoTo, Disturb, Pairs
  <2> QED
    BY <2>1, DisturbsOthers
<1>5. CASE RollBack(r)
  <2>1. members' = members /\ cleared'[r] = {} /\ at'[r] # "fill"
        /\ disturbed' = disturbed \ {r}
    BY <1>5 DEF RollBack, GoTo
  <2> QED
    BY <1>0, <2>1 DEF ClearedInv
<1>6. CASE at[r] \in {"clear", "fill"}
  BY <1>3, <1>4, <1>5, <1>6 DEF RequestStep, Look, Create, SaveFails, Schedule,
     ScheduleExisting, CheckCollection, Find, Patch, Insert, Join, Detach, CheckCollections,
     Select, InsertInTx, LinkRow, Commit
<1> QED
  BY <1>1, <1>2, <1>6

LEMMA NextClears ==
    ASSUME LibraryInv, [LibraryNext]_libraryVars
    PROVE  ClearedInv'
<1> USE DEF LibraryInv
<1>1. ASSUME NEW r \in Requests, RequestStep(r) PROVE ClearedInv'
  BY <1>1, StepOthers, ActorClears
<1>2. CASE members' \subseteq members /\ disturbed \subseteq disturbed'
           /\ UNCHANGED <<ask, requestVars>>
  BY <1>2 DEF ClearedInv, Pairs, requestVars
<1> QED
  BY <1>1, <1>2
     DEF LibraryNext, RequestStep, DeleteUrlRow, DeleteCollection, libraryVars

-----------------------------------------------------------------------------
(* What no step takes away without a page being deleted: stored rows, links  *)
(* of requests that are done, and, as long as a request itself does nothing, *)
(* what it has written.                                                      *)
SameRow(i) ==
    /\ i \in DOMAIN rows'
    /\ rows'[i].page = rows[i].page /\ rows'[i].tagged = rows[i].tagged
    /\ rows'[i].canonical = rows[i].canonical \/ rows'[i].canonical = TRUE

Kept ==
    /\ gone \subseteq gone' /\ scheduled \subseteq scheduled'
    /\ \A i \in DOMAIN rows : rows[i].by = Nobody =>
         rows[i].page \in gone' \/ (SameRow(i) /\ rows'[i].by = Nobody)
    /\ \A i \in DOMAIN rows' :
         i = next \/ (i \in DOMAIN rows /\ rows'[i].page = rows[i].page)
    /\ \A k \in links : Committed(k[1]) => rows[k[2]].page \in gone' \/ k \in links'
    /\ \A o \in Requests : Committed(o) => Committed(o)'

KeptFor(o) ==
    /\ \A i \in DOMAIN rows : rows[i].by = o => SameRow(i) /\ rows'[i].by = o
    /\ \A k \in links : k[1] = o => rows[k[2]].page \in gone' \/ k \in links'

(* Steps that only add rows, links and rows to schedule.                     *)
LEMMA AddingKeeps ==
    ASSUME LibraryTypeOK, NEW r \in Requests, OthersRest(r), at[r] # "ok",
           gone' = gone, scheduled \subseteq scheduled', links \subseteq links',
           \/ UNCHANGED rows
           \/ Page(r) \in Pages /\ CreateRow(r)
    PROVE  Kept /\ \A o \in Requests : KeptFor(o)
<1>1. \A i \in DOMAIN rows : SameRow(i) /\ rows'[i] = rows[i]
  BY CreateTyped DEF SameRow
<1>2. \A i \in DOMAIN rows' : i = next \/ (i \in DOMAIN rows /\ rows'[i] = rows[i])
  BY CreateTyped
<1>3. \A o \in Requests : Committed(o) => Committed(o)'
  BY DEF OthersRest, Committed
<1> QED
  BY <1>1, <1>2, <1>3 DEF Kept, KeptFor

LEMMA ActorKeeps ==
    ASSUME LibraryTypeOK, NEW r \in Requests, StatementsFit(r), OthersRest(r),
           RequestStep(r)
    PROVE  Kept /\ \A o \in Requests \ {r} : KeptFor(o)
<1>1. CASE Look(r) \/ SaveFails(r) \/ Schedule(r) \/ ScheduleExisting(r)
  BY <1>1, AddingKeeps DEF Look, SaveFails, Schedule, ScheduleExisting, storeVars
<1>2. CASE CheckCollection(r) \/ CheckCollections(r) \/ Find(r) \/ Select(r)
  BY <1>2, AddingKeeps DEF CheckCollection, CheckCollections, Find, Select, storeVars
<1>3. CASE Join(r) \/ Detach(r) \/ Clear(r) \/ Fill(r)
  BY <1>3, AddingKeeps DEF Join, Detach, Clear, Fill
<1>4. CASE LinkRow(r)
  BY <1>4, AddingKeeps DEF LinkRow
<1>5. CASE Create(r) \/ Insert(r) \/ InsertInTx(r)
  <2>1. Page(r) \in Pages
    BY <1>5, PageTyped DEF Create, Insert, InsertInTx, Statements, AfterPages
  <2> QED
    BY <1>5, <2>1, AddingKeeps DEF Create, Insert, InsertInTx
<1>6. CASE Patch(r)
  <2>1. DOMAIN rows' = DOMAIN rows
        /\ \A i \in DOMAIN rows : SameRow(i) /\ rows'[i].by = rows[i].by
    <3>1. CASE rows' = rows
      BY <3>1 DEF SameRow
    <3>2. CASE row[r] \in DOMAIN rows /\ Canonizes(row[r])
      BY <3>2, CanonizedRows DEF SameRow
    <3> QED
      BY <1>6, <3>1, <3>2 DEF Patch, Canonizes
  <2>2. \A o \in Requests : Committed(o) => Committed(o)'
    BY <1>6 DEF Patch, OthersRest, Committed
  <2>3. UNCHANGED <<gone, scheduled, links>>
    BY <1>6 DEF Patch
  <2> QED
    BY <2>1, <2>2, <2>3 DEF Kept, KeptFor, SameRow
<1>7. CASE Commit(r)
  <2>1. /\ DOMAIN rows' = DOMAIN rows
        /\ \A i \in DOMAIN rows :
             SameRow(i) /\ rows'[i].by = IF rows[i].by = r THEN Nobody ELSE rows[i].by
    BY <1>7 DEF Commit, SameRow, Row, LibraryTypeOK
  <2>2. \A o \in Requests : Committed(o) => Committed(o)'
    BY <1>7 DEF Commit, OthersRest, Committed
  <2>3. gone' = gone /\ scheduled \subseteq scheduled' /\ links' = links
    BY <1>7 DEF Commit
  <2> QED
    BY <2>1, <2>2, <2>3 DEF Kept, KeptFor, SameRow
<1>8. CASE RollBack(r)
  <2>1. /\ DOMAIN rows' = {i \in DOMAIN rows : rows[i].by # r}
        /\ \A i \in DOMAIN rows' : SameRow(i) /\ rows'[i].by = rows[i].by
    BY <1>8 DEF RollBack, SameRow
  <2>2. \A o \in Requests : Committed(o) => Committed(o)' /\ o # r
    BY <1>8 DEF RollBack, OthersRest, Committed
  <2>3. gone' = gone /\ scheduled' = scheduled /\ links' = {k \in links : k[1] # r}
    BY <1>8 DEF RollBack, LinksAfterRollback
  <2>4. \A k \in links : Committed(k[1]) => k \in links'
    BY <2>2, <2>3 DEF LibraryTypeOK
  <2>5. \A i \in DOMAIN rows : rows[i].by = Nobody => i \in DOMAIN rows'
    BY <2>1, LibraryAssumption
  <2> QED
    BY <2>1, <2>2, <2>3, <2>4, <2>5 DEF Kept, KeptFor, SameRow
<1> QED
  BY <1>1, <1>2, <1>3, <1>4, <1>5, <1>6, <1>7, <1>8 DEF RequestStep

LEMMA LibraryDeletionKeeps ==
    ASSUME LibraryTypeOK, DeleteUrlRow \/ DeleteCollection \/ UNCHANGED libraryVars
    PROVE  Kept /\ \A o \in Requests : KeptFor(o)
<1>1. CASE DeleteUrlRow
  <2>1. PICK i \in DOMAIN rows :
          /\ rows[i].by = Nobody
          /\ rows' = [j \in DOMAIN rows \ {i} |-> rows[j]]
          /\ links' = {k \in links : k[2] # i}
          /\ gone' = gone \cup {rows[i].page}
          /\ UNCHANGED <<next, scheduled, requestVars>>
    BY <1>1 DEF DeleteUrlRow
  <2>2. /\ DOMAIN rows' = DOMAIN rows \ {i}
        /\ \A j \in DOMAIN rows' : SameRow(j) /\ rows'[j].by = rows[j].by
    BY <2>1 DEF SameRow
  <2>3. \A k \in links : k \in links' \/ rows[k[2]].page \in gone'
    BY <2>1
  <2> QED
    BY <2>1, <2>2, <2>3, LibraryAssumption DEF Kept, KeptFor, SameRow, Committed, requestVars
<1>2. CASE UNCHANGED <<rows, links, gone, scheduled, at>>
  BY <1>2 DEF Kept, KeptFor, SameRow, Committed
<1> QED
  BY <1>1, <1>2 DEF DeleteCollection, libraryVars, requestVars

LEMMA StoredKept ==
    ASSUME Kept, NEW p, NEW i \in Stored(p), p \notin gone'
    PROVE  /\ i \in Stored(p)' /\ rows'[i].tagged = rows[i].tagged
           /\ rows'[i].canonical = rows[i].canonical \/ rows'[i].canonical = TRUE
BY DEF Kept, SameRow, Stored

(* A request that does nothing keeps what it has achieved.                   *)
Rests(o) ==
    /\ ask' = ask /\ at'[o] = at[o] /\ item'[o] = item[o] /\ row'[o] = row[o]
    /\ made'[o] = made[o]

LEMMA DoneKept ==
    ASSUME NEW o, Rests(o), gone \subseteq gone', NEW p \in PagesDone(o)'
    PROVE  p \in PagesDone(o) /\ p \notin gone'
BY DEF Rests, PagesDone

LEMMA SavingKept ==
    ASSUME Kept, NEW o \in Requests, Rests(o), SavingInv(o)
    PROVE  SavingInv(o)'
<1>1. gone \subseteq gone'
  BY DEF Kept
<1>2. ASSUME at'[o] \in Saving, NEW p \in PagesDone(o)'
      PROVE  \E i \in Stored(p)' : rows'[i].canonical
  <2>1. p \in PagesDone(o) /\ p \notin gone' /\ at[o] \in Saving
    BY <1>1, <1>2, DoneKept DEF Rests
  <2>2. PICK i \in Stored(p) : rows[i].canonical
    BY <2>1 DEF SavingInv
  <2>3. i \in Stored(p)' /\ rows'[i].canonical
    BY <2>1, <2>2, StoredKept
  <2> QED
    BY <2>3
<1>3. ASSUME at'[o] \in Saving \ {"existing"}
      PROVE  /\ Cardinality(made'[o]) <= item'[o] - 1
             /\ Cardinality(made'[o]) = item'[o] - 1 =>
                  \A p \in PagesDone(o)' : Stored(p)' \cap made'[o] # {}
  <2>1. Cardinality(made[o]) <= item[o] - 1 /\ at[o] \in Saving \ {"existing"}
    BY <1>3 DEF Rests, SavingInv
  <2>2. ASSUME Cardinality(made[o]) = item[o] - 1, NEW p \in PagesDone(o)'
        PROVE  Stored(p)' \cap made[o] # {}
    <3>1. p \in PagesDone(o) /\ p \notin gone'
      BY <1>1, DoneKept
    <3>2. PICK i \in Stored(p) : i \in made[o]
      BY <2>1, <2>2, <3>1 DEF SavingInv
    <3> QED
      BY <3>1, <3>2, StoredKept
  <2> QED
    BY <2>1, <2>2 DEF Rests
<1> QED
  BY <1>2, <1>3 DEF SavingInv

LEMMA SelectedKept ==
    ASSUME Kept, NEW o \in Requests, KeptFor(o), made[o] \subseteq made'[o],
           NEW p, p \notin gone', Selected(o, p)
    PROVE  Selected(o, p)'
<1>1. PICK i \in Visible(o) :
        /\ rows[i].page = p
        /\ rows[i].tagged \/ i \in made[o] \cup scheduled
        /\ \E q \in LinksOf(i) : q = o \/ Committed(q)
  BY DEF Selected
<1>2. PICK q \in LinksOf(i) : q = o \/ Committed(q)
  BY <1>1
<1>3. i \in Visible(o)' /\ SameRow(i)
  BY <1>1 DEF Visible, Kept, KeptFor, SameRow
<1>4. <<q, i>> \in links' /\ (q = o \/ Committed(q)')
  BY <1>1, <1>2 DEF LinksOf, Kept, KeptFor
<1>5. q \in LinksOf(i)'
  BY <1>4 DEF LinksOf
<1>6. rows'[i].page = p /\ (rows'[i].tagged \/ i \in made'[o] \cup scheduled')
  BY <1>1, <1>3 DEF SameRow, Kept
<1> QED
  BY <1>3, <1>4, <1>5, <1>6 DEF Selected

LEMMA SelectionKept ==
    ASSUME LibraryTypeOK, OwnersInv, Kept, NEW o \in Requests, Rests(o), KeptFor(o),
           SelectionInv(o)
    PROVE  SelectionInv(o)'
<1>1. ASSUME at'[o] = "link", row'[o] \in DOMAIN rows'
      PROVE  rows'[row'[o]].page = Page(o)'
  <2>1. row[o] \in DOMAIN rows' /\ at[o] = "link" /\ Page(o)' = Page(o)
    BY <1>1 DEF Rests, Page
  <2>2. row[o] # next
    <3>1. next \in Nat
      BY LibraryAssumption DEF LibraryTypeOK
    <3>2. row[o] \in Nat => row[o] < next
      BY LibraryAssumption DEF OwnersInv
    <3> QED
      BY <3>1, <3>2
  <2>3. row[o] \in DOMAIN rows /\ rows'[row[o]].page = rows[row[o]].page
    BY <2>1, <2>2 DEF Kept
  <2> QED
    BY <2>1, <2>3 DEF SelectionInv, Rests
<1>2. ASSUME at'[o] \in Selecting, NEW p \in PagesDone(o)' PROVE Selected(o, p)'
  <2>1. p \in PagesDone(o) /\ p \notin gone' /\ at[o] \in Selecting
    BY <1>2, DoneKept DEF Rests, Kept
  <2> QED
    BY <2>1, SelectedKept DEF SelectionInv, Rests
<1> QED
  BY <1>1, <1>2 DEF SelectionInv

(* What a request that is done has to show for its pages.                    *)
PagesSaved(o) ==
    \A k \in DOMAIN ask[o].pages :
      \/ ask[o].pages[k] \in gone
      \/ \E i \in Stored(ask[o].pages[k]) : rows[i].tagged \/ i \in scheduled
PagesLinked(o) ==
    \A k \in DOMAIN ask[o].pages :
      \/ ask[o].pages[k] \in gone
      \/ \E i \in Stored(ask[o].pages[k]), q \in Requests :
           <<q, i>> \in links /\ Committed(q)

LEMMA SavedKept ==
    ASSUME Kept, ask' = ask, NEW o, PagesSaved(o)
    PROVE  PagesSaved(o)'
<1> SUFFICES ASSUME NEW k \in DOMAIN ask[o].pages, ask[o].pages[k] \notin gone'
             PROVE  \E i \in Stored(ask[o].pages[k])' :
                      rows'[i].tagged \/ i \in scheduled'
  BY DEF PagesSaved
<1> DEFINE p == ask[o].pages[k]
<1>1. p \notin gone
  BY DEF Kept
<1>2. PICK i \in Stored(p) : rows[i].tagged \/ i \in scheduled
  BY <1>1 DEF PagesSaved
<1> HIDE DEF p
<1>3. i \in Stored(p)' /\ (rows'[i].tagged \/ i \in scheduled')
  BY <1>2, StoredKept DEF Kept, p
<1> QED
  BY <1>3 DEF p

LEMMA LinkedKept ==
    ASSUME Kept, ask' = ask, NEW o, PagesLinked(o)
    PROVE  PagesLinked(o)'
<1> SUFFICES ASSUME NEW k \in DOMAIN ask[o].pages, ask[o].pages[k] \notin gone'
             PROVE  \E i \in Stored(ask[o].pages[k])', q \in Requests :
                      <<q, i>> \in links' /\ Committed(q)'
  BY DEF PagesLinked
<1> DEFINE p == ask[o].pages[k]
<1>1. p \notin gone
  BY DEF Kept
<1>2. PICK i \in Stored(p), q \in Requests : <<q, i>> \in links /\ Committed(q)
  BY <1>1 DEF PagesLinked
<1> HIDE DEF p
<1>3. i \in Stored(p)' /\ rows[i].page = p
  BY <1>2, StoredKept DEF p, Stored
<1>4. <<q, i>> \in links' /\ Committed(q)'
  BY <1>2, <1>3 DEF Kept, p
<1> QED
  BY <1>3, <1>4 DEF p

-----------------------------------------------------------------------------
(* Saving pages, row by row.                                                 *)
LEMMA DoneNext ==
    ASSUME NEW r, item[r] \in Nat \ {0}, item'[r] = item[r] + 1, ask' = ask,
           gone \subseteq gone', NEW p \in PagesDone(r)'
    PROVE  /\ p \notin gone'
           /\ p \in PagesDone(r) \/ p = Page(r)
<1>1. PICK k \in 1..item'[r] - 1 : p = ask[r].pages[k] /\ p \notin gone'
  BY DEF PagesDone
<1>2. k \in 1..item[r] - 1 \/ k = item[r]
  BY <1>1
<1> QED
  BY <1>1, <1>2 DEF PagesDone, Page

LEMMA MadeFinite ==
    ASSUME LibraryTypeOK, NEW r \in Requests
    PROVE  IsFiniteSet(made[r]) /\ Cardinality(made[r]) \in Nat
<1>1. IsFiniteSet(Ids)
  BY LibraryAssumption, FS_Interval DEF Ids
<1>2. made[r] \subseteq Ids
  BY DEF LibraryTypeOK
<1> QED
  BY <1>1, <1>2, FS_Subset, FS_CardinalityType

LEMMA CanonicalStored ==
    ASSUME LibraryTypeOK, OwnersInv, NEW r \in Requests, at[r] \notin Selecting,
           NEW i \in Canonical(r)
    PROVE  i \in Stored(Page(r)) /\ rows[i].canonical
BY LibraryAssumption DEF Canonical, Visible, Stored, OwnersInv

(* The page has a canonical row already.                                     *)
LEMMA SkipSaves ==
    ASSUME LibraryTypeOK, OwnersInv, Kept, NEW r \in Requests, SavingInv(r), ask' = ask,
           at[r] \in {"look", "create"}, Canonical(r) # {}, made' = made,
           item'[r] = item[r] + 1
    PROVE  SavingInv(r)'
<1>0. /\ at[r] \in Saving \ {"existing"} /\ at[r] \notin Selecting
      /\ item[r] \in Nat \ {0} /\ gone \subseteq gone'
  BY DEF Saving, Selecting, LibraryTypeOK, Kept
<1>1. ASSUME NEW p \in PagesDone(r)' PROVE \E i \in Stored(p)' : rows'[i].canonical
  <2>1. p \notin gone' /\ (p \in PagesDone(r) \/ p = Page(r))
    BY <1>0, DoneNext
  <2>2. PICK i \in Stored(p) : rows[i].canonical
    BY <1>0, <2>1, CanonicalStored DEF SavingInv
  <2> QED
    BY <2>1, <2>2, StoredKept
<1>2. Cardinality(made[r]) \in Nat /\ Cardinality(made[r]) <= item[r] - 1
  BY <1>0, MadeFinite DEF SavingInv
<1>3. Cardinality(made'[r]) < item'[r] - 1
  BY <1>0, <1>2
<1> QED
  BY <1>0, <1>1, <1>2, <1>3 DEF SavingInv

LEMMA CreateSaves ==
    ASSUME LibraryTypeOK, OwnersInv, Kept, NEW r \in Requests, SavingInv(r), ask' = ask,
           at[r] = "create", ~InTx(r), Page(r) \in Pages, CreateRow(r),
           made' = [made EXCEPT ![r] = @ \cup {next}], item'[r] = item[r] + 1
    PROVE  SavingInv(r)'
<1>0. /\ at[r] \in Saving \ {"existing"}
      /\ item[r] \in Nat \ {0} /\ gone \subseteq gone'
      /\ made'[r] = made[r] \cup {next}
  BY DEF Saving, LibraryTypeOK, Kept
<1>1. ASSUME NEW p, p = Page(r) PROVE next \in Stored(p)' /\ rows'[next].canonical
  <2>1. next \in DOMAIN rows' /\ rows'[next] = NewRow(r)
    BY CreateTyped
  <2>2. NewRow(r).page = Page(r) /\ NewRow(r).canonical /\ NewRow(r).by = Nobody
    BY DEF NewRow
  <2> QED
    BY <1>1, <2>1, <2>2 DEF Stored
<1>2. ASSUME NEW p \in PagesDone(r)' PROVE \E i \in Stored(p)' : rows'[i].canonical
  <2>1. p \notin gone' /\ (p \in PagesDone(r) \/ p = Page(r))
    BY <1>0, DoneNext
  <2>2. CASE p \in PagesDone(r)
    <3>1. PICK i \in Stored(p) : rows[i].canonical
      BY <1>0, <2>2 DEF SavingInv
    <3> QED
      BY <2>1, <3>1, StoredKept
  <2>3. CASE p = Page(r)
    BY <1>1, <2>3
  <2> QED
    BY <2>1, <2>2, <2>3
<1>3. /\ Cardinality(made[r]) \in Nat /\ Cardinality(made[r]) <= item[r] - 1
      /\ Cardinality(made'[r]) = Cardinality(made[r]) + 1
  <2>1. next \notin made[r]
    BY LibraryAssumption DEF OwnersInv, LibraryTypeOK
  <2>2. IsFiniteSet(made[r]) /\ Cardinality(made[r]) \in Nat
    BY MadeFinite
  <2>3. Cardinality(made[r] \cup {next}) = Cardinality(made[r]) + 1
    BY <2>1, <2>2, FS_AddElement
  <2>4. Cardinality(made[r]) <= item[r] - 1
    BY <1>0 DEF SavingInv
  <2> QED
    BY <1>0, <2>2, <2>3, <2>4
<1>4. ASSUME Cardinality(made'[r]) = item'[r] - 1, NEW p \in PagesDone(r)'
      PROVE  Stored(p)' \cap made'[r] # {}
  <2>1. p \notin gone' /\ (p \in PagesDone(r) \/ p = Page(r))
    BY <1>0, DoneNext
  <2>2. CASE p \in PagesDone(r)
    <3>1. Cardinality(made[r]) = item[r] - 1
      BY <1>0, <1>3, <1>4
    <3>2. PICK i \in Stored(p) : i \in made[r]
      BY <1>0, <2>2, <3>1 DEF SavingInv
    <3> QED
      BY <1>0, <2>1, <3>2, StoredKept
  <2>3. CASE p = Page(r)
    BY <1>0, <1>1, <2>3
  <2> QED
    BY <2>1, <2>2, <2>3
<1>5. Cardinality(made'[r]) <= item'[r] - 1
  BY <1>0, <1>3
<1> QED
  BY <1>2, <1>4, <1>5 DEF SavingInv

LEMMA ActorSaves ==
    ASSUME LibraryTypeOK, OwnersInv, Kept, NEW r \in Requests, SavingInv(r),
           StatementsFit(r), OthersRest(r), ask' = ask, RequestStep(r)
    PROVE  SavingInv(r)'
<1> USE DEF GoTo
<1>1. CASE Look(r)
  <2>1. CASE Canonical(r) # {}
    BY <1>1, <2>1, SkipSaves DEF Look, NextItem, LibraryTypeOK
  <2>2. CASE Canonical(r) = {}
    <3>1. SavingInv(r) /\ at[r] = "look" /\ at'[r] = "create"
          /\ UNCHANGED <<rows, gone, item, made, ask>>
      BY <1>1, <2>2 DEF Look, LibraryTypeOK, storeVars
    <3> QED
      BY <3>1 DEF SavingInv, PagesDone, Stored, Saving
  <2> QED
    BY <2>1, <2>2
<1>2. CASE Create(r)
  <2>1. item'[r] = item[r] + 1 /\ at[r] = "create"
    BY <1>2 DEF Create, NextItem, LibraryTypeOK
  <2>2. CASE Canonical(r) # {} /\ UNCHANGED <<next, rows, made>>
    BY <2>1, <2>2, SkipSaves
  <2>3. CASE CreateRow(r) /\ made' = [made EXCEPT ![r] = @ \cup {next}]
    <3>1. ~InTx(r) /\ Page(r) \in Pages
      BY <2>1, PageTyped DEF StatementsFit, Saving, AfterPages, Statements, InTx
    <3> QED
      BY <2>1, <2>3, <3>1, CreateSaves
  <2> QED
    BY <1>2, <2>2, <2>3 DEF Create
<1>3. CASE Schedule(r)
  <2>1. at[r] \in Saving /\ at'[r] \in {"ok", "existing"} /\ UNCHANGED <<rows, gone, item, ask>>
    BY <1>3 DEF Schedule, Saving, LibraryTypeOK
  <2> QED
    BY <2>1 DEF SavingInv, PagesDone, Stored, Saving
<1>4. CASE at'[r] \notin Saving
  BY <1>4 DEF SavingInv
<1>5. CASE SaveFails(r) \/ ScheduleExisting(r) \/ CheckCollection(r) \/ Find(r)
  BY <1>4, <1>5 DEF SaveFails, ScheduleExisting, CheckCollection, Find, Saving, LibraryTypeOK
<1>6. CASE Patch(r) \/ Insert(r) \/ Join(r) \/ Detach(r)
  BY <1>4, <1>6 DEF Patch, Insert, Join, Detach, AfterRow, Saving, LibraryTypeOK
<1>7. CASE CheckCollections(r) \/ Clear(r) \/ Fill(r)
  BY <1>4, <1>7 DEF CheckCollections, Clear, Fill, Saving, LibraryTypeOK
<1>8. CASE Select(r) \/ InsertInTx(r) \/ LinkRow(r) \/ Commit(r) \/ RollBack(r)
  BY <1>4, <1>8 DEF Select, InsertInTx, LinkRow, NextItem, Commit, RollBack, Saving,
     LibraryTypeOK
<1> QED
  BY <1>1, <1>2, <1>3, <1>5, <1>6, <1>7, <1>8 DEF RequestStep

-----------------------------------------------------------------------------
(* Saving a selection, in one transaction.                                   *)
LEMMA LinkSelects ==
    ASSUME LibraryTypeOK, OwnersInv, NEW r \in Requests, StatementsFit(r), OthersRest(r),
           SelectionInv(r), LinkRow(r)
    PROVE  SelectionInv(r)'
<1>1. /\ at[r] = "link" /\ row[r] \in DOMAIN rows /\ rows' = rows /\ ask' = ask
      /\ gone' = gone /\ scheduled' = scheduled /\ links \subseteq links'
      /\ item'[r] = item[r] + 1 /\ row'[r] = Nobody /\ made[r] \subseteq made'[r]
  BY DEF LinkRow, NextItem, ForgetRow, LibraryTypeOK
<1>2. Kept /\ KeptFor(r)
  BY <1>1, AddingKeeps
<1>3. ASSUME NEW p, p = Page(r) PROVE Selected(r, p)'
  <2>0. PICK i : i = row[r]
    OBVIOUS
  <2>1. i \in Visible(r)' /\ rows'[i].page = p
    BY <1>1, <1>3, <2>0 DEF Visible, OwnersInv, SelectionInv
  <2>2. rows'[i].tagged \/ i \in made'[r]
    BY <1>1, <2>0 DEF LinkRow, NeedsTagging, LibraryTypeOK
  <2>3. PICK o \in Requests : <<o, i>> \in links' /\ (o = r \/ Committed(o))
    <3>1. CASE LinksOf(i) = {}
      BY <1>1, <2>0, <3>1 DEF LinkRow
    <3>2. CASE LinksOf(i) # {}
      BY <1>1, <2>0, <3>2 DEF LinkRow, LinksOf
    <3> QED
      BY <3>1, <3>2
  <2>4. o = r \/ Committed(o)'
    BY <1>2, <2>3 DEF Kept
  <2>5. o \in LinksOf(i)'
    BY <2>3 DEF LinksOf
  <2> QED
    BY <2>1, <2>2, <2>4, <2>5 DEF Selected
<1>4. ASSUME NEW p \in PagesDone(r)' PROVE Selected(r, p)'
  <2>1. p \notin gone' /\ (p \in PagesDone(r) \/ p = Page(r))
    BY <1>1, DoneNext DEF LibraryTypeOK
  <2>2. CASE p \in PagesDone(r)
    BY <1>1, <1>2, <2>1, <2>2, SelectedKept DEF SelectionInv, Selecting
  <2> QED
    BY <1>3, <2>1, <2>2
<1>5. at'[r] # "link"
  BY DEF LinkRow, NextItem, GoTo, LibraryTypeOK
<1> QED
  BY <1>4, <1>5 DEF SelectionInv

LEMMA ActorSelects ==
    ASSUME LibraryTypeOK, OwnersInv, NEW r \in Requests, SelectionInv(r),
           StatementsFit(r), OthersRest(r), ask' = ask, RequestStep(r)
    PROVE  SelectionInv(r)'
<1> USE DEF GoTo
<1>1. CASE Select(r)
  <2>1. at[r] \in Selecting /\ UNCHANGED <<rows, links, scheduled, gone, ask, item, made>>
    BY <1>1 DEF Select, Selecting, storeVars
  <2>2. at'[r] = "link" => row'[r] \in Canonical(r) \cup AsSpelled(r, {ask[r].spelling})
    BY <1>1 DEF Select, LibraryTypeOK
  <2>3. at'[r] = "link" => rows[row'[r]].page = Page(r)
    BY <2>2 DEF Canonical, AsSpelled
  <2>4. Kept /\ KeptFor(r)
    BY <1>1, <2>1, AddingKeeps DEF Select
  <2>5. ASSUME NEW p \in PagesDone(r)' PROVE Selected(r, p)'
    BY <2>1, <2>4, SelectedKept DEF PagesDone, SelectionInv
  <2> QED
    BY <2>1, <2>3, <2>5 DEF SelectionInv, Page
<1>2. CASE InsertInTx(r)
  <2>1. Page(r) \in Pages /\ at[r] \in Selecting
    BY <1>2, PageTyped DEF InsertInTx, AfterPages, Statements, Selecting
  <2>2. Kept /\ KeptFor(r)
    BY <1>2, <2>1, AddingKeeps DEF InsertInTx
  <2>3. row'[r] = next /\ made[r] \subseteq made'[r] /\ UNCHANGED <<gone, item, ask>>
    BY <1>2 DEF InsertInTx, LibraryTypeOK
  <2>4. rows'[next].page = Page(r)
    <3>1. NewRow(r).page = Page(r)
      BY DEF NewRow
    <3> QED
      BY <1>2, <2>1, <3>1, CreateTyped DEF InsertInTx
  <2>5. ASSUME NEW p \in PagesDone(r)' PROVE Selected(r, p)'
    BY <2>1, <2>2, <2>3, SelectedKept DEF PagesDone, SelectionInv
  <2> QED
    BY <2>3, <2>4, <2>5 DEF SelectionInv, Page
<1>3. CASE at'[r] \notin Selecting
  BY <1>3 DEF SelectionInv, Selecting
<1>4. CASE Look(r) \/ Create(r) \/ SaveFails(r) \/ Schedule(r) \/ ScheduleExisting(r)
  BY <1>3, <1>4 DEF Look, Create, NextItem, SaveFails, Schedule, ScheduleExisting, Selecting,
     LibraryTypeOK
<1>5. CASE CheckCollection(r) \/ Find(r) \/ Patch(r) \/ Insert(r)
  BY <1>3, <1>5 DEF CheckCollection, Find, Patch, Insert, AfterRow, Selecting, LibraryTypeOK
<1>6. CASE Join(r) \/ Detach(r) \/ CheckCollections(r)
  BY <1>3, <1>6 DEF Join, Detach, CheckCollections, Selecting, LibraryTypeOK
<1>7. CASE Clear(r) \/ Fill(r) \/ Commit(r) \/ RollBack(r)
  BY <1>3, <1>7 DEF Clear, Fill, Commit, RollBack, Selecting, LibraryTypeOK
<1> QED
  BY <1>1, <1>2, <1>4, <1>5, <1>6, <1>7, LinkSelects DEF RequestStep

LEMMA NextPagesKept ==
    ASSUME LibraryInv, [LibraryNext]_libraryVars, NEW o \in Requests
    PROVE  Kept /\ SavingInv(o)' /\ SelectionInv(o)'
<1> USE DEF LibraryInv
<1>1. ASSUME NEW r \in Requests, RequestStep(r)
      PROVE  Kept /\ SavingInv(o)' /\ SelectionInv(o)'
  <2>1. OthersRest(r) /\ ask' = ask
    BY <1>1, StepOthers
  <2>2. Kept /\ \A q \in Requests \ {r} : KeptFor(q)
    BY <1>1, <2>1, ActorKeeps
  <2>3. CASE o = r
    BY <1>1, <2>1, <2>2, <2>3, ActorSaves, ActorSelects
  <2>4. CASE o # r
    <3>1. Rests(o)
      BY <2>1, <2>4 DEF OthersRest, Rests
    <3> QED
      BY <2>2, <2>4, <3>1, SavingKept, SelectionKept
  <2> QED
    BY <2>3, <2>4
<1>2. CASE DeleteUrlRow \/ DeleteCollection \/ UNCHANGED libraryVars
  <2>1. Kept /\ KeptFor(o)
    BY <1>2, LibraryDeletionKeeps
  <2>2. Rests(o)
    BY <1>2 DEF DeleteUrlRow, DeleteCollection, libraryVars, requestVars, Rests
  <2> QED
    BY <2>1, <2>2, SavingKept, SelectionKept
<1> QED
  BY <1>1, <1>2 DEF LibraryNext, RequestStep

-----------------------------------------------------------------------------
(* Requests that are done.                                                   *)
LEMMA AllDone ==
    ASSUME LibraryTypeOK, NEW r \in Requests, item[r] = Len(ask[r].pages) + 1,
           NEW k \in DOMAIN ask[r].pages, ask[r].pages[k] \notin gone
    PROVE  ask[r].pages[k] \in PagesDone(r)
<1>1. DOMAIN ask[r].pages = 1..Len(ask[r].pages) /\ Len(ask[r].pages) \in Nat
  BY AskTyped DEF LibraryTypeOK
<1>2. k \in 1..item[r] - 1
  BY <1>1
<1> QED
  BY <1>2 DEF PagesDone

LEMMA ActorCompletes ==
    ASSUME LibraryTypeOK, OwnersInv, NEW r \in Requests, StatementsFit(r), SavingInv(r),
           SelectionInv(r), ask' = ask, RequestStep(r), at'[r] = "ok",
           ask[r].kind \in {"save", "purpose"}
    PROVE  /\ PagesSaved(r)'
           /\ ask[r].kind = "purpose" => PagesLinked(r)'
<1>0. at' = [at EXCEPT ![r] = "ok"] /\ at[r] \in {"schedule", "existing", "commit"}
  BY DEF RequestStep, Look, Create, SaveFails, Schedule, ScheduleExisting, CheckCollection,
     Find, Patch, Insert, Join, Detach, CheckCollections, Clear, Fill, Select, InsertInTx,
     LinkRow, Commit, RollBack, GoTo, NextItem, AfterRow, StatementsFit, LibraryTypeOK,
     Saving, Selecting
<1>1. item[r] = Len(ask[r].pages) + 1
  BY <1>0 DEF StatementsFit, AfterPages
<1>2. CASE Schedule(r)
  <2>1. /\ rows' = rows /\ gone' = gone /\ scheduled' = scheduled \cup made[r]
        /\ at[r] \in Saving \ {"existing"}
        /\ Cardinality(made[r]) = item[r] - 1
    <3>1. Len(ask[r].pages) \in Nat
      BY AskTyped DEF LibraryTypeOK
    <3> QED
      BY <1>0, <1>1, <1>2, <3>1 DEF Schedule, GoTo, Saving, LibraryTypeOK
  <2>2. ASSUME NEW k \in DOMAIN ask[r].pages, ask[r].pages[k] \notin gone'
        PROVE  \E i \in Stored(ask[r].pages[k])' : i \in scheduled'
    <3>1. ask[r].pages[k] \in PagesDone(r)
      BY <1>1, <2>1, <2>2, AllDone
    <3>2. PICK i \in Stored(ask[r].pages[k]) : i \in made[r]
      BY <2>1, <3>1 DEF SavingInv
    <3> QED
      BY <2>1, <3>2 DEF Stored
  <2>3. ask[r].kind # "purpose"
    BY <2>1 DEF StatementsFit
  <2> QED
    BY <2>2, <2>3 DEF PagesSaved
<1>3. CASE ScheduleExisting(r)
  <2>1. /\ rows' = rows /\ gone' = gone /\ at[r] \in Saving
    BY <1>3 DEF ScheduleExisting, Saving
  <2>2. ASSUME NEW k \in DOMAIN ask[r].pages, ask[r].pages[k] \notin gone'
        PROVE  \E i \in Stored(ask[r].pages[k])' : rows'[i].tagged \/ i \in scheduled'
    <3>1. ask[r].pages[k] \in PagesDone(r)
      BY <1>1, <2>1, <2>2, AllDone
    <3>2. PICK i \in Stored(ask[r].pages[k]) : rows[i].canonical
      BY <2>1, <3>1 DEF SavingInv
    <3>3. ask[r].pages[k] \in ToSet(ask[r].pages)
      BY DEF ToSet
    <3>4. ~rows[i].tagged => i \in scheduled'
      BY <1>3, <3>2, <3>3 DEF ScheduleExisting, Stored, Visible, NeedsTagging
    <3>5. i \in Stored(ask[r].pages[k])'
      BY <2>1, <3>2 DEF Stored
    <3> QED
      BY <2>1, <3>4, <3>5
  <2>3. ask[r].kind # "purpose"
    BY <2>1 DEF StatementsFit
  <2> QED
    BY <2>2, <2>3 DEF PagesSaved
<1>4. CASE Commit(r)
  <2>1. /\ gone' = gone /\ scheduled' = scheduled \cup made[r] /\ links' = links
        /\ at[r] \in Selecting /\ DOMAIN rows' = DOMAIN rows
        /\ \A i \in DOMAIN rows :
             /\ rows'[i].page = rows[i].page /\ rows'[i].tagged = rows[i].tagged
             /\ rows'[i].by = IF rows[i].by = r THEN Nobody ELSE rows[i].by
    BY <1>4 DEF Commit, Selecting, Row, LibraryTypeOK
  <2>2. ASSUME NEW k \in DOMAIN ask[r].pages, ask[r].pages[k] \notin gone'
        PROVE  \E i \in Stored(ask[r].pages[k])' :
                 /\ rows'[i].tagged \/ i \in scheduled'
                 /\ \E q \in Requests : <<q, i>> \in links' /\ Committed(q)'
    <3>1. ask[r].pages[k] \in PagesDone(r)
      BY <1>1, <2>1, <2>2, AllDone
    <3>2. Selected(r, ask[r].pages[k])
      BY <2>1, <3>1 DEF SelectionInv
    <3>3. PICK i \in Visible(r) :
            /\ rows[i].page = ask[r].pages[k]
            /\ rows[i].tagged \/ i \in made[r] \cup scheduled
            /\ \E o \in LinksOf(i) : o = r \/ Committed(o)
      BY <3>2 DEF Selected
    <3>4. PICK o \in LinksOf(i) : o = r \/ Committed(o)
      BY <3>3
    <3>5. Committed(o)'
      BY <1>0, <3>4 DEF Committed, LinksOf, LibraryTypeOK
    <3>6. o \in Requests /\ <<o, i>> \in links'
      BY <2>1, <3>4 DEF LinksOf
    <3>7. i \in Stored(ask[r].pages[k])'
      BY <2>1, <3>3 DEF Stored, Visible
    <3>8. rows'[i].tagged \/ i \in scheduled'
      BY <2>1, <3>3 DEF Visible
    <3> QED
      BY <3>5, <3>6, <3>7, <3>8
  <2>3. PagesSaved(r)'
    BY <2>2 DEF PagesSaved
  <2>4. PagesLinked(r)'
    BY <2>2 DEF PagesLinked
  <2> QED
    BY <2>3, <2>4
<1>5. Schedule(r) \/ ScheduleExisting(r) \/ Commit(r)
  BY <1>0 DEF RequestStep, Look, Create, SaveFails, Schedule, ScheduleExisting, CheckCollection,
     Find, Patch, Insert, Join, Detach, CheckCollections, Clear, Fill, Select, InsertInTx,
     LinkRow, Commit, RollBack, GoTo, LibraryTypeOK
<1> QED
  BY <1>2, <1>3, <1>4, <1>5

LEMMA CompleteMeans ==
    SavingIsComplete <=>
      \A r \in Requests :
        /\ ask[r].kind \in {"save", "purpose"} /\ at[r] = "ok" => PagesSaved(r)
        /\ ask[r].kind = "purpose" /\ at[r] = "ok" => PagesLinked(r)
        /\ ask[r].kind = "purpose" /\ at[r] = "failed" => r \notin {k[1] : k \in links}
BY DEF SavingIsComplete, SavedIsScheduled, SelectionIsWhole, PagesSaved, PagesLinked

LEMMA NextCompletes ==
    ASSUME LibraryInv, [LibraryNext]_libraryVars, OwnersInv'
    PROVE  SavingIsComplete'
<1> USE DEF LibraryInv
<1>1. ASSUME NEW o \in Requests, at'[o] = "failed" PROVE o \notin {k[1] : k \in links'}
  BY <1>1 DEF OwnersInv, Selecting
<1>2. ask' = ask
  BY StepOthers DEF LibraryNext, RequestStep, DeleteUrlRow, DeleteCollection, libraryVars
<1>3. ASSUME NEW o \in Requests, at'[o] = "ok", ask[o].kind \in {"save", "purpose"}
      PROVE  PagesSaved(o)' /\ (ask[o].kind = "purpose" => PagesLinked(o)')
  <2>1. CASE at[o] = "ok"
    <3>1. Kept
      BY NextPagesKept
    <3> QED
      BY <1>2, <1>3, <2>1, <3>1, CompleteMeans, SavedKept, LinkedKept
  <2>2. CASE at[o] # "ok"
    <3>1. ASSUME NEW r \in Requests, RequestStep(r)
          PROVE  PagesSaved(o)' /\ (ask[o].kind = "purpose" => PagesLinked(o)')
      <4>1. r = o
        BY <1>3, <2>2, <3>1, StepOthers DEF OthersRest
      <4> QED
        BY <1>2, <1>3, <3>1, <4>1, ActorCompletes
    <3>2. ~(DeleteUrlRow \/ DeleteCollection \/ UNCHANGED libraryVars)
      BY <1>3, <2>2 DEF DeleteUrlRow, DeleteCollection, libraryVars, requestVars
    <3> QED
      BY <3>1, <3>2 DEF LibraryNext, RequestStep
  <2> QED
    BY <2>1, <2>2
<1>4. \A r \in Requests :
        /\ ask'[r].kind \in {"save", "purpose"} /\ at'[r] = "ok" => PagesSaved(r)'
        /\ ask'[r].kind = "purpose" /\ at'[r] = "ok" => PagesLinked(r)'
        /\ ask'[r].kind = "purpose" /\ at'[r] = "failed" => r \notin {k[1] : k \in links'}
  BY <1>1, <1>2, <1>3
<1> QED
  BY <1>4 DEF SavingIsComplete, SavedIsScheduled, SelectionIsWhole, PagesSaved, PagesLinked

-----------------------------------------------------------------------------
LEMMA FirstTyped ==
    ASSUME NEW r, ask[r].kind \in {"save", "purpose", "assign", "add", "remove"},
           at[r] = First(ask[r].kind)
    PROVE  /\ at[r] \in Statements \ AfterPages
           /\ at[r] # "fill" /\ at[r] # "link"
           /\ at[r] \in Saving => ask[r].kind = "save"
           /\ at[r] \in Selecting => ask[r].kind = "purpose"
           /\ at[r] = "collection" => ask[r].kind \in {"add", "remove"}
           /\ at[r] = "find" => ask[r].kind = "assign"
           /\ at[r] \in {"look", "select", "find", "collection"}
BY DEF First, Statements, AfterPages, Saving, Selecting

LEMMA LibraryInitInv == LibraryInit => LibraryInv
<1> SUFFICES ASSUME LibraryInit PROVE LibraryInv
  OBVIOUS
<1>1. PICK held, order, old :
        /\ held \in SUBSET Pages /\ order = SetToSeq(held) /\ old \in [held -> Earlier]
        /\ rows = [i \in DOMAIN order |->
                     [page |-> order[i], spelling |-> old[order[i]].spelling,
                      canonical |-> old[order[i]].canonical,
                      tagged |-> old[order[i]].tagged, by |-> Nobody]]
        /\ next = Len(order) + 1
        /\ links = {} /\ open = Collections /\ scheduled = {} /\ gone = {}
        /\ ask \in [Requests -> Asks]
        /\ members \in {{}, IF CollectionsMatter THEN Collections \X DOMAIN order ELSE {}}
        /\ at = [r \in Requests |-> First(ask[r].kind)]
        /\ item = [r \in Requests |-> 1]
        /\ row = [r \in Requests |-> Nobody]
        /\ made = [r \in Requests |-> {}]
        /\ cleared = [r \in Requests |-> {}]
        /\ disturbed = {}
  BY DEF LibraryInit
<1> DEFINE n == Cardinality(held)
<1>2. n \in Nat /\ n <= MaxRow /\ order \in [1..n -> held] /\ Len(order) = n
  <2>1. IsFiniteSet(held) /\ Cardinality(held) <= Cardinality(Pages)
    BY <1>1, LibraryAssumption, FS_Subset
  <2>2. Cardinality(held) \in Nat /\ Cardinality(Pages) \in Nat
    BY <2>1, LibraryAssumption, FS_CardinalityType
  <2> QED
    BY <1>1, <2>1, <2>2, LibraryAssumption, Listing
<1> HIDE DEF n
<1>3. /\ DOMAIN rows = 1..n /\ next = n + 1
      /\ \A i \in DOMAIN rows : rows[i] \in Row /\ rows[i].by = Nobody
      /\ rows \in [DOMAIN rows -> Row]
  <2>1. rows = [i \in 1..n |->
                  [page |-> order[i], spelling |-> old[order[i]].spelling,
                   canonical |-> old[order[i]].canonical,
                   tagged |-> old[order[i]].tagged, by |-> Nobody]]
    BY <1>1, <1>2
  <2>2. ASSUME NEW e \in Earlier
        PROVE  e.spelling \in Spellings /\ e.canonical \in BOOLEAN /\ e.tagged \in BOOLEAN
    <3>1. CASE e = [spelling |-> "canonical", canonical |-> TRUE, tagged |-> FALSE]
      BY <3>1 DEF Spellings
    <3>2. CASE e = [spelling |-> "other", canonical |-> FALSE, tagged |-> TRUE]
      BY <3>2 DEF Spellings
    <3> QED
      BY <3>1, <3>2 DEF Earlier
  <2>3. \A i \in 1..n : order[i] \in Pages /\ old[order[i]] \in Earlier
    BY <1>1, <1>2
  <2>4. \A i \in 1..n : rows[i] \in Row /\ rows[i].by = Nobody
    BY <2>1, <2>2, <2>3 DEF Row
  <2>5. next = n + 1
    BY <1>1, <1>2
  <2> QED
    BY <2>1, <2>4, <2>5
<1>4. ASSUME NEW r \in Requests
      PROVE  /\ Len(ask[r].pages) \in {1, 2}
             /\ ask[r].kind \in {"save", "purpose", "assign", "add", "remove"}
             /\ at[r] = First(ask[r].kind) /\ item[r] = 1 /\ made[r] = {}
             /\ cleared[r] = {} /\ row[r] = Nobody
  BY <1>1, AskTyped
<1>5. members \subseteq Collections \X DOMAIN rows
  BY <1>1, <1>2, <1>3
<1>6. LibraryTypeOK
  <2>1. next \in 1..MaxRow + 1 /\ DOMAIN rows \subseteq 1..next - 1
    BY <1>2, <1>3, LibraryAssumption
  <2>2. at \in [Requests -> Statements \cup Answers]
    <3>1. \A r \in Requests : at[r] \in Statements
      BY <1>4, FirstTyped
    <3> QED
      BY <1>1, <3>1
  <2>3. item \in [Requests -> Nat \ {0}]
        /\ \A r \in Requests : item[r] <= Len(ask[r].pages) + 1
    BY <1>1, <1>4
  <2>4. /\ links \subseteq Requests \X DOMAIN rows /\ open \subseteq Collections
        /\ gone \subseteq Pages /\ scheduled \subseteq Ids /\ disturbed \subseteq Requests
        /\ \A r \in Requests : ask[r] \in Asks
    BY <1>1
  <2>5. /\ row \in [Requests -> {Nobody} \cup Ids] /\ made \in [Requests -> SUBSET Ids]
        /\ cleared \in [Requests -> SUBSET members]
    BY <1>1
  <2> QED
    BY <1>3, <1>5, <2>1, <2>2, <2>3, <2>4, <2>5 DEF LibraryTypeOK
<1>7. OwnersInv
  <2>1. \A m \in members : rows[m[2]].by = Nobody
    BY <1>3, <1>5
  <2>2. Nobody \notin DOMAIN rows
    BY <1>3, LibraryAssumption
  <2> QED
    BY <1>1, <1>3, <1>4, <2>1, <2>2 DEF OwnersInv
<1>8. ClearedInv
  BY <1>4, FirstTyped DEF ClearedInv
<1>9. ASSUME NEW r \in Requests PROVE StatementsFit(r) /\ SavingInv(r) /\ SelectionInv(r)
  <2>1. PagesDone(r) = {}
    BY <1>4 DEF PagesDone
  <2>2. StatementsFit(r)
    <3>1. /\ at[r] \in {"look", "select", "find", "collection"}
          /\ at[r] \in Saving => ask[r].kind = "save"
          /\ at[r] \in Selecting => ask[r].kind = "purpose"
          /\ at[r] = "collection" => ask[r].kind \in {"add", "remove"}
          /\ at[r] = "find" => ask[r].kind = "assign"
      BY <1>4, FirstTyped
    <3>2. item[r] <= Len(ask[r].pages)
      BY <1>4
    <3> QED
      BY <3>1, <3>2 DEF StatementsFit, AfterPages
  <2>3. Cardinality(made[r]) = 0
    BY <1>4, FS_EmptySet
  <2>4. SavingInv(r)
    BY <1>4, <2>1, <2>3 DEF SavingInv
  <2>5. SelectionInv(r)
    BY <1>4, <2>1, FirstTyped DEF SelectionInv
  <2> QED
    BY <2>2, <2>4, <2>5
<1>10. SavingIsComplete
  BY <1>4, FirstTyped DEF SavingIsComplete, SavedIsScheduled, SelectionIsWhole
<1> QED
  BY <1>6, <1>7, <1>8, <1>9, <1>10 DEF LibraryInv

LEMMA LibraryNextInv == LibraryInv /\ [LibraryNext]_libraryVars => LibraryInv'
<1> SUFFICES ASSUME LibraryInv, [LibraryNext]_libraryVars PROVE LibraryInv'
  OBVIOUS
<1>1. LibraryTypeOK' /\ OwnersInv' /\ ClearedInv'
  BY LibraryNextTyped, NextOwns, NextClears
<1>2. \A r \in Requests : StatementsFit(r)' /\ SavingInv(r)' /\ SelectionInv(r)'
  BY NextFits, NextPagesKept
<1>3. SavingIsComplete'
  BY <1>1, NextCompletes
<1> QED
  BY <1>1, <1>2, <1>3 DEF LibraryInv

(* LibraryInv holds in every reachable state: each request keeps to its      *)
(* statements, nobody holds the uncommitted rows of another, and what an     *)
(* open transaction has deleted stays its own.                               *)
THEOREM LibraryInvariance == LibrarySpec => []LibraryInv
<1>1. LibraryInit => LibraryInv
  BY LibraryInitInv
<1>2. LibraryInv /\ [LibraryNext]_libraryVars => LibraryInv'
  BY LibraryNextInv
<1> QED
  BY <1>1, <1>2, PTL DEF LibrarySpec

(* Saving leaves no page out of the tagging queue, and a selection is saved  *)
(* as a whole or not at all, however many requests save, select, repair,     *)
(* fail and delete at once.                                                  *)
THEOREM SavesAreComplete == LibrarySpec => []SavingIsComplete
<1>1. LibraryInv => SavingIsComplete
  BY DEF LibraryInv
<1> QED
  BY <1>1, LibraryInvariance, PTL

(* Only the statement that fills in the asked memberships ends an assignment *)
(* well, and undisturbed it leaves exactly those.                            *)
Replaces ==
    \A r \in Requests :
      at[r] = "fill" /\ at'[r] = "ok" /\ r \notin disturbed =>
        {c \in Collections : <<c, row[r]>> \in members'} = ask[r].want

LEMMA StepReplaces == LibraryInv /\ [LibraryNext]_libraryVars => [Replaces]_libraryVars
<1> SUFFICES ASSUME LibraryInv, LibraryNext, NEW r \in Requests,
                    at[r] = "fill", at'[r] = "ok", r \notin disturbed
             PROVE  {c \in Collections : <<c, row[r]>> \in members'} = ask[r].want
  BY DEF Replaces
<1> USE DEF LibraryInv
<1>1. RequestStep(r)
  <2>1. ASSUME NEW o \in Requests, RequestStep(o) PROVE o = r
    BY <2>1, StepOthers DEF OthersRest
  <2>2. ~(DeleteUrlRow \/ DeleteCollection)
    BY DEF DeleteUrlRow, DeleteCollection, requestVars
  <2> QED
    BY <2>1, <2>2 DEF LibraryNext, RequestStep
<1>2. Fill(r)
  BY <1>1 DEF RequestStep, Look, Create, SaveFails, Schedule, ScheduleExisting,
     CheckCollection, Find, Patch, Insert, Join, Detach, CheckCollections, Clear, Select,
     InsertInTx, LinkRow, Commit, RollBack, GoTo, LibraryTypeOK
<1>3. members' = (members \ cleared[r]) \cup Pairs(r)
  BY <1>2 DEF Fill, GoTo, LibraryTypeOK
<1>4. \A m \in members : m[2] = row[r] => m \in cleared[r] \cup Pairs(r)
  BY DEF ClearedInv
<1>5. ask[r].want \subseteq Collections
  BY AskTyped DEF LibraryTypeOK
<1>6. ASSUME NEW c \in Collections PROVE <<c, row[r]>> \in members' <=> c \in ask[r].want
  <2>1. <<c, row[r]>> \in Pairs(r) <=> c \in ask[r].want
    BY DEF Pairs
  <2>2. <<c, row[r]>> \in members => <<c, row[r]>> \in cleared[r] \cup Pairs(r)
    BY <1>4
  <2> QED
    BY <1>3, <2>1, <2>2
<1> QED
  BY <1>5, <1>6

(* An assignment replaces the collections of its page, unless others change  *)
(* them between its two statements.                                          *)
THEOREM AssignmentsReplace == LibrarySpec => AssignmentReplaces
<1>1. LibraryInv /\ [LibraryNext]_libraryVars => [Replaces]_libraryVars
  BY StepReplaces
<1> QED
  BY <1>1, LibraryInvariance, PTL DEF LibrarySpec, AssignmentReplaces, Replaces
=============================================================================
