----------------------------- MODULE TextProofs -----------------------------
(***************************************************************************)
(* Proofs about the texts that are cut into pieces.                        *)
(***************************************************************************)
EXTENDS Texts, SequenceTheorems, FiniteSetTheorems, TLAPS

(* A character of a window is one of its segments'.                         *)
LEMMA InCharsOf ==
    ASSUME NEW q, NEW c
    PROVE  c \in CharsOf(q) <=> \E i \in DOMAIN q : c \in Chars(q[i])
  BY DEF CharsOf

LEMMA CharsOfOne ==
    ASSUME NEW s
    PROVE  CharsOf(<<s>>) = Chars(s) /\ Apart(<<s>>)
<1>1. DOMAIN <<s>> = {1} /\ <<s>>[1] = s
  OBVIOUS
<1>2. \A c : c \in CharsOf(<<s>>) <=> c \in Chars(s)
  BY <1>1, InCharsOf
<1>3. Apart(<<s>>)
  BY <1>1 DEF Apart
<1> QED
  BY <1>2, <1>3

LEMMA CharsOfNone == CharsOf(<<>>) = {} /\ Apart(<<>>)
<1>1. DOMAIN <<>> = {}
  OBVIOUS
<1> QED
  BY <1>1 DEF CharsOf, Apart

(* A segment at the end adds its characters;                                *)
LEMMA CharsOfAppend ==
    ASSUME NEW q, q \in Seq(Segments), NEW s, s \in Segments
    PROVE  /\ CharsOf(Append(q, s)) = CharsOf(q) \cup Chars(s)
           /\ Apart(q) /\ CharsOf(q) \cap Chars(s) = {} => Apart(Append(q, s))
<1>1. /\ DOMAIN Append(q, s) = DOMAIN q \cup {Len(q) + 1}
      /\ Len(q) + 1 \notin DOMAIN q
      /\ \A i \in DOMAIN q : Append(q, s)[i] = q[i]
      /\ Append(q, s)[Len(q) + 1] = s
  OBVIOUS
<1>2. \A c : c \in CharsOf(Append(q, s)) <=> c \in CharsOf(q) \/ c \in Chars(s)
  BY <1>1, InCharsOf
<1>3. \A i \in DOMAIN q : Chars(q[i]) \subseteq CharsOf(q)
  BY DEF CharsOf
<1>4. ASSUME Apart(q), CharsOf(q) \cap Chars(s) = {}
      PROVE  Apart(Append(q, s))
  BY <1>1, <1>3, <1>4 DEF Apart
<1> QED
  BY <1>2, <1>4

(* the first and the others have all of them;                               *)
LEMMA CharsOfTail ==
    ASSUME NEW q, q \in Seq(Segments), q # <<>>
    PROVE  /\ Head(q) \in Segments /\ Tail(q) \in Seq(Segments)
           /\ CharsOf(q) = Chars(Head(q)) \cup CharsOf(Tail(q))
           /\ Apart(q) => /\ Apart(Tail(q))
                          /\ Chars(Head(q)) \cap CharsOf(Tail(q)) = {}
<1>1. /\ Head(q) = q[1] /\ 1 \in DOMAIN q /\ Len(q) \in Nat
      /\ DOMAIN q = 1..Len(q)
      /\ Tail(q) \in Seq(Segments) /\ DOMAIN Tail(q) = 1..(Len(q) - 1)
      /\ \A i \in DOMAIN Tail(q) : Tail(q)[i] = q[i + 1]
      /\ q[1] \in Segments
  OBVIOUS
<1>2. \A c : c \in CharsOf(q) <=> c \in Chars(Head(q)) \/ c \in CharsOf(Tail(q))
  <2> TAKE c
  <2>1. ASSUME NEW i \in DOMAIN q, c \in Chars(q[i]), i # 1
        PROVE  c \in CharsOf(Tail(q))
    <3>1. i - 1 \in DOMAIN Tail(q) /\ Tail(q)[i - 1] = q[i]
      BY <1>1, <2>1
    <3> QED
      BY <3>1, <2>1, InCharsOf
  <2>2. ASSUME NEW i \in DOMAIN Tail(q), c \in Chars(Tail(q)[i])
        PROVE  c \in CharsOf(q)
    <3>1. i + 1 \in DOMAIN q /\ Tail(q)[i] = q[i + 1]
      BY <1>1
    <3> QED
      BY <3>1, <2>2, InCharsOf
  <2> QED
    BY <1>1, <2>1, <2>2, InCharsOf
<1>3. ASSUME Apart(q)
      PROVE  Apart(Tail(q)) /\ Chars(Head(q)) \cap CharsOf(Tail(q)) = {}
  <2>1. ASSUME NEW i \in DOMAIN Tail(q), NEW j \in DOMAIN Tail(q), i # j
        PROVE  Chars(Tail(q)[i]) \cap Chars(Tail(q)[j]) = {}
    <3>1. /\ i + 1 \in DOMAIN q /\ Tail(q)[i] = q[i + 1]
          /\ j + 1 \in DOMAIN q /\ Tail(q)[j] = q[j + 1] /\ i + 1 # j + 1
      BY <1>1, <2>1
    <3> QED
      BY <3>1, <1>3 DEF Apart
  <2>2. ASSUME NEW i \in DOMAIN Tail(q)
        PROVE  Chars(q[1]) \cap Chars(Tail(q)[i]) = {}
    <3>1. i + 1 \in DOMAIN q /\ Tail(q)[i] = q[i + 1] /\ i + 1 # 1
      BY <1>1
    <3> QED
      BY <3>1, <1>1, <1>3 DEF Apart
  <2>3. \A c : c \in CharsOf(Tail(q)) => c \notin Chars(Head(q))
    BY <1>1, <2>2, InCharsOf
  <2>4. Apart(Tail(q))
    BY <2>1 DEF Apart
  <2> QED
    BY <2>3, <2>4
<1> QED
  BY <1>1, <1>2, <1>3

(* so have its two parts.                                                   *)
LEMMA CharsOfParts ==
    ASSUME NEW q, q \in Seq(Segments), NEW k, k \in 1..Len(q) - 1
    PROVE  LET left == SubSeq(q, 1, k)
               right == SubSeq(q, k + 1, Len(q))
           IN  /\ left \in Windows /\ right \in Windows
               /\ CharsOf(left) \cup CharsOf(right) = CharsOf(q)
               /\ Apart(q) => /\ Apart(left) /\ Apart(right)
                              /\ CharsOf(left) \cap CharsOf(right) = {}
<1> DEFINE left == SubSeq(q, 1, k)
           right == SubSeq(q, k + 1, Len(q))
<1>1. Len(q) \in Nat /\ DOMAIN q = 1..Len(q) /\ \A i \in DOMAIN q : q[i] \in Segments
  OBVIOUS
<1>2. /\ left \in Seq(Segments) /\ DOMAIN left = 1..k
      /\ \A i \in 1..k : left[i] = q[i]
  BY <1>1, SubSeqProperties
<1>3. /\ right \in Seq(Segments) /\ DOMAIN right = 1..(Len(q) - k)
      /\ \A i \in 1..(Len(q) - k) : right[i] = q[k + i]
  BY <1>1, SubSeqProperties
<1>4. left # <<>> /\ right # <<>>
  <2>1. 1 \in DOMAIN left /\ 1 \in DOMAIN right
    BY <1>1, <1>2, <1>3
  <2> HIDE DEF left, right
  <2> QED
    BY <2>1
<1> HIDE DEF left, right
<1>5. \A c : c \in CharsOf(q) <=> c \in CharsOf(left) \/ c \in CharsOf(right)
  <2> TAKE c
  <2>1. ASSUME NEW i \in DOMAIN q, c \in Chars(q[i])
        PROVE  c \in CharsOf(left) \/ c \in CharsOf(right)
    <3>1. CASE i <= k
      BY <3>1, <2>1, <1>1, <1>2, InCharsOf
    <3>2. CASE i > k
      <4>1. i - k \in 1..(Len(q) - k) /\ k + (i - k) = i
        BY <3>2, <1>1
      <4> QED
        BY <4>1, <2>1, <1>3, InCharsOf
    <3> QED
      BY <3>1, <3>2, <1>1
  <2>2. ASSUME NEW i \in DOMAIN left, c \in Chars(left[i])
        PROVE  c \in CharsOf(q)
    BY <2>2, <1>1, <1>2, InCharsOf
  <2>3. ASSUME NEW i \in DOMAIN right, c \in Chars(right[i])
        PROVE  c \in CharsOf(q)
    <3>1. k + i \in DOMAIN q
      BY <1>1, <1>3
    <3> QED
      BY <3>1, <2>3, <1>3, InCharsOf
  <2> QED
    BY <2>1, <2>2, <2>3, InCharsOf
<1>6. ASSUME Apart(q)
      PROVE  /\ Apart(left) /\ Apart(right)
             /\ CharsOf(left) \cap CharsOf(right) = {}
  <2>1. Apart(left)
    <3>1. \A i \in DOMAIN left : i \in DOMAIN q
      BY <1>1, <1>2
    <3> QED
      BY <3>1, <1>2, <1>6 DEF Apart
  <2>2. ASSUME NEW i \in DOMAIN right, NEW j \in DOMAIN right, i # j
        PROVE  Chars(right[i]) \cap Chars(right[j]) = {}
    <3>1. {k + i, k + j} \subseteq DOMAIN q /\ k + i # k + j
      BY <1>1, <1>3, <2>2
    <3> QED
      BY <3>1, <1>3, <1>6 DEF Apart
  <2>3. ASSUME NEW i \in DOMAIN left, NEW j \in DOMAIN right
        PROVE  Chars(left[i]) \cap Chars(right[j]) = {}
    <3>1. {i, k + j} \subseteq DOMAIN q /\ i # k + j
      BY <1>1, <1>2, <1>3
    <3> QED
      BY <3>1, <1>2, <1>3, <1>6 DEF Apart
  <2>4. \A c : ~(c \in CharsOf(left) /\ c \in CharsOf(right))
    BY <2>3, InCharsOf
  <2>5. Apart(right)
    BY <2>2 DEF Apart
  <2> QED
    BY <2>1, <2>4, <2>5
<1>7. /\ left \in Windows /\ right \in Windows
      /\ CharsOf(left) \cup CharsOf(right) = CharsOf(q)
  BY <1>2, <1>3, <1>4, <1>5 DEF Windows
<1> QED
  BY <1>6, <1>7 DEF left, right

(* A cut through a segment leaves two that have its characters;             *)
LEMMA CharsOfCut ==
    ASSUME NEW s, s \in Segments, NEW at, at \in s.from..s.to
    PROVE  /\ UpTo(s, at) \in Segments /\ After(s, at) \in Segments
           /\ Chars(UpTo(s, at)) \cup Chars(After(s, at)) = Chars(s)
           /\ Chars(UpTo(s, at)) \cap Chars(After(s, at)) = {}
<1>1. s.unit \in Nat /\ s.from \in Nat /\ s.to \in Nat /\ at \in Nat
  BY DEF Segments
<1>2. /\ UpTo(s, at) = [unit |-> s.unit, from |-> s.from, to |-> at]
      /\ After(s, at) = [unit |-> s.unit, from |-> at, to |-> s.to]
  BY <1>1 DEF UpTo, After, Segments
<1>3. \A c : c \in Chars(UpTo(s, at)) <=>
                \E i \in s.from + 1..at : c = <<s.unit, i>>
  BY <1>2 DEF Chars
<1>4. \A c : c \in Chars(After(s, at)) <=>
                \E i \in at + 1..s.to : c = <<s.unit, i>>
  BY <1>2 DEF Chars
<1>5. \A c : c \in Chars(s) <=> \E i \in s.from + 1..s.to : c = <<s.unit, i>>
  BY DEF Chars
<1>6. \A i : i \in s.from + 1..s.to <=> i \in s.from + 1..at \/ i \in at + 1..s.to
  BY <1>1
<1>7. \A i \in s.from + 1..at, j \in at + 1..s.to : <<s.unit, i>> # <<s.unit, j>>
  BY <1>1
<1>8. UpTo(s, at) \in Segments /\ After(s, at) \in Segments
  BY <1>1, <1>2 DEF Segments
<1>9. Chars(UpTo(s, at)) \cup Chars(After(s, at)) = Chars(s)
  BY <1>3, <1>4, <1>5, <1>6
<1>10. Chars(UpTo(s, at)) \cap Chars(After(s, at)) = {}
  BY <1>3, <1>4, <1>7
<1> QED
  BY <1>8, <1>9, <1>10

(* and so do the halves of a window.                                        *)
LEMMA CharsOfHalves ==
    ASSUME MapAssumption, NEW w, w \in Windows, NEW halves, halves \in SplitWindow(w)
    PROVE  /\ halves[1] \in Windows /\ halves[2] \in Windows
           /\ CharsOf(halves[1]) \cup CharsOf(halves[2]) = CharsOf(w)
           /\ Apart(w) => /\ Apart(halves[1]) /\ Apart(halves[2])
                          /\ CharsOf(halves[1]) \cap CharsOf(halves[2]) = {}
<1>1. w \in Seq(Segments) /\ w # <<>> /\ Len(w) \in Nat
  BY DEF Windows
<1>2. CASE Len(w) > 1
  <2>1. halves = <<SubSeq(w, 1, Len(w) \div 2), SubSeq(w, Len(w) \div 2 + 1, Len(w))>>
    BY <1>2 DEF SplitWindow
  <2>2. Len(w) \div 2 \in 1..Len(w) - 1
    BY <1>1, <1>2
  <2>3. /\ halves[1] = SubSeq(w, 1, Len(w) \div 2)
        /\ halves[2] = SubSeq(w, Len(w) \div 2 + 1, Len(w))
    BY <2>1
  <2> QED
    BY <1>1, <2>2, <2>3, CharsOfParts
<1>3. CASE ~(Len(w) > 1)
  <2>a. Len(w) = 1
    <3>1. Len(w) # 0
      BY <1>1, EmptySeq
    <3>2. \A n \in Nat : n # 0 /\ ~(n > 1) => n = 1
      OBVIOUS
    <3> QED
      BY <1>1, <1>3, <3>1, <3>2
  <2>1. Len(w) = 1 /\ w[1] \in Segments
    BY <1>1, <2>a, ElementOfSeq
  <2>2. w = <<w[1]>>
    BY <1>1, <2>1
  <2>3. PICK at \in w[1].from + MinSplit..w[1].to - MinSplit :
            halves = <<<<UpTo(w[1], at)>>, <<After(w[1], at)>>>>
    BY <1>3 DEF SplitWindow
  <2>4. w[1].from \in Nat /\ w[1].to \in Nat /\ MinSplit \in Nat
    BY <2>1 DEF Segments, MapAssumption
  <2>5. at \in w[1].from..w[1].to
    <3>1. PICK from \in Nat, to \in Nat, min \in Nat :
              from = w[1].from /\ to = w[1].to /\ min = MinSplit
      BY <2>4
    <3>2. at \in from + min..to - min
      BY <2>3, <3>1
    <3>3. at \in from..to
      BY <3>2
    <3> QED
      BY <3>1, <3>3
  <2>6. /\ halves[1] = <<UpTo(w[1], at)>> /\ halves[2] = <<After(w[1], at)>>
    BY <2>3
  <2>7. /\ UpTo(w[1], at) \in Segments /\ After(w[1], at) \in Segments
        /\ Chars(UpTo(w[1], at)) \cup Chars(After(w[1], at)) = Chars(w[1])
        /\ Chars(UpTo(w[1], at)) \cap Chars(After(w[1], at)) = {}
    BY <2>1, <2>5, CharsOfCut
  <2>8. CharsOf(w) = Chars(w[1])
    BY <2>2, CharsOfOne
  <2>9. /\ CharsOf(halves[1]) = Chars(UpTo(w[1], at)) /\ Apart(halves[1])
        /\ CharsOf(halves[2]) = Chars(After(w[1], at)) /\ Apart(halves[2])
    BY <2>6, CharsOfOne
  <2>10. halves[1] \in Windows /\ halves[2] \in Windows
    BY <2>6, <2>7 DEF Windows
  <2> QED
    BY <2>7, <2>8, <2>9, <2>10
<1> QED
  BY <1>2, <1>3
-----------------------------------------------------------------------------
(* Cutting the text.                                                        *)
LEMMA MapInitInv ==
    ASSUME MapAssumption, MapInit
    PROVE  MapInv
<1>1. grounding \in Seq(Nat \ {0}) /\ grounding \in Documents
  BY DEF MapAssumption, MapInit
<1>2. /\ units = <<>> /\ windows = <<>> /\ packed = <<>> /\ stack = <<>>
      /\ batch = 1 /\ attempt = 1 /\ mapped = <<>> /\ failed = 0 /\ items = <<>>
      /\ judged = {} /\ accepted = {} /\ criticFailed = 0
  BY DEF MapInit
<1>3. batch \in 1..Batches /\ attempt \in 1..MaxAttempts
  BY <1>2 DEF MapAssumption
<1>4. ClaimsInv
  BY <1>2 DEF ClaimsInv
<1>5. PackInv /\ stage \in {"cut", "done"}
  BY DEF MapInit, PackInv
<1>6. CASE grounding = <<>>
  <2>1. rest = <<>> /\ stage = "done"
    BY <1>6 DEF MapInit
  <2>2. Text = {}
    BY <1>6 DEF Text
  <2>3. ReadInv
    BY <1>2, <2>1, <2>2 DEF ReadInv
  <2>4. CutInv
    BY <2>1 DEF CutInv
  <2>5. MapTypeOK
    BY <1>1, <1>2, <1>3, <2>1 DEF MapTypeOK
  <2> QED
    BY <1>2, <1>4, <1>5, <2>3, <2>4, <2>5 DEF MapInv
<1>7. CASE grounding # <<>>
  <2> DEFINE s == [unit |-> 1, from |-> 0, to |-> grounding[1]]
  <2>1. rest = <<s>> /\ stage = "cut"
    BY <1>7 DEF MapInit
  <2>2. /\ 1 \in DOMAIN grounding /\ grounding[1] \in Nat \ {0}
        /\ DOMAIN grounding = 1..Len(grounding) /\ Len(grounding) \in Nat
    BY <1>1, <1>7
  <2>3. s \in Segments
    BY <2>2 DEF Segments
  <2>4. Before(s) = {}
    <3>1. \A c \in Text : c[1] \in Nat /\ c[1] >= 1 /\ c[2] \in Nat /\ c[2] >= 1
      BY <1>1, <2>2 DEF Text
    <3> QED
      BY <3>1 DEF Before
  <2>5. ReadInv
    BY <2>1 DEF ReadInv
  <2>6. rest[1] = s /\ Len(rest) = 1 /\ rest # <<>>
    BY <2>1
  <2>7. CutInv
    <3>1. s.unit = 1 /\ s.from = 0 /\ s.to = grounding[1]
      OBVIOUS
    <3>2. CharsOf(units) = Before(s) /\ Apart(units)
      BY <1>2, <2>4, CharsOfNone
    <3>3. s.from < s.to /\ s.to = grounding[s.unit] /\ s.unit \in DOMAIN grounding
      BY <2>2, <3>1
    <3> HIDE DEF s
    <3> QED
      BY <2>6, <3>2, <3>3 DEF CutInv
  <2>8. MapTypeOK
    BY <1>1, <1>2, <1>3, <2>1, <2>3 DEF MapTypeOK
  <2> QED
    BY <1>2, <1>4, <1>5, <2>5, <2>7, <2>8 DEF MapInv
<1> QED
  BY <1>6, <1>7

(* The characters of the text are pairs of a unit and a place in it.        *)
LEMMA InText ==
    ASSUME grounding \in Seq(Nat \ {0})
    PROVE  /\ \A u, i : <<u, i>> \in Text <=> u \in DOMAIN grounding /\ i \in 1..grounding[u]
           /\ \A c \in Text : \E u, i : c = <<u, i>>
  BY DEF Text

(* What has been cut grows by what is cut off,                              *)
LEMMA BeforeCut ==
    ASSUME grounding \in Seq(Nat \ {0}), NEW s, s \in Segments,
           s.unit \in DOMAIN grounding, s.to = grounding[s.unit],
           NEW at, at \in s.from..s.to
    PROVE  /\ Before(s) \cap Chars(UpTo(s, at)) = {}
           /\ Before(s) \cup Chars(UpTo(s, at)) = Before(After(s, at))
<1>1. /\ s.unit \in Nat /\ s.from \in Nat /\ s.to \in Nat /\ at \in Nat
      /\ s.from <= at /\ at <= s.to
  BY DEF Segments
<1>2. /\ UpTo(s, at) = [unit |-> s.unit, from |-> s.from, to |-> at]
      /\ After(s, at) = [unit |-> s.unit, from |-> at, to |-> s.to]
  BY <1>1 DEF UpTo, After, Segments
<1>3. DOMAIN grounding \subseteq Nat /\ \A u \in DOMAIN grounding : grounding[u] \in Nat
  OBVIOUS
<1>4. \A u, i : <<u, i>> \in Chars(UpTo(s, at)) <=> u = s.unit /\ i \in s.from + 1..at
  BY <1>2 DEF Chars
<1>5. \A u, i : <<u, i>> \in Before(s) <=>
          <<u, i>> \in Text /\ (u < s.unit \/ (u = s.unit /\ i <= s.from))
  BY DEF Before
<1>6. \A u, i : <<u, i>> \in Before(After(s, at)) <=>
          <<u, i>> \in Text /\ (u < s.unit \/ (u = s.unit /\ i <= at))
  BY <1>2 DEF Before
<1>7. /\ \A c \in Before(s) \cup Before(After(s, at)) : \E u, i : c = <<u, i>>
      /\ \A c \in Chars(UpTo(s, at)) : \E u, i : c = <<u, i>>
  BY InText DEF Before, Chars
<1>8. \A i : i \in s.from + 1..at => ~(i <= s.from)
  BY <1>1
<1>9. \A u, i : ~(<<u, i>> \in Before(s) /\ <<u, i>> \in Chars(UpTo(s, at)))
  <2> TAKE u, i
  <2>1. u = s.unit => ~(u < s.unit)
    BY <1>1
  <2> QED
    BY <2>1, <1>4, <1>5, <1>8
<1>10. \A u, i : <<u, i>> \in Before(s) \/ <<u, i>> \in Chars(UpTo(s, at))
                    <=> <<u, i>> \in Before(After(s, at))
  <2> TAKE u, i
  <2>1. CASE <<u, i>> \in Text
    <3>1. u \in DOMAIN grounding /\ i \in 1..grounding[u] /\ u \in Nat /\ i \in Nat
      BY <2>1, <1>3, InText
    <3>2. u = s.unit => (i <= s.from \/ i \in s.from + 1..at <=> i <= at)
      BY <3>1, <1>1
    <3>3. u = s.unit => ~(u < s.unit)
      BY <1>1
    <3> QED
      BY <2>1, <3>2, <3>3, <1>4, <1>5, <1>6
  <2>2. CASE <<u, i>> \notin Text
    <3>1. ~(u = s.unit /\ i \in s.from + 1..at)
      <4>1. i \in s.from + 1..at => i \in 1..s.to
        BY <1>1
      <4> QED
        BY <2>2, <4>1, InText
    <3> QED
      BY <2>2, <3>1, <1>4, <1>5, <1>6
  <2> QED
    BY <2>1, <2>2
<1>11. Before(s) \cap Chars(UpTo(s, at)) = {}
  BY <1>7, <1>9
<1>12. Before(s) \cup Chars(UpTo(s, at)) = Before(After(s, at))
  BY <1>7, <1>10
<1> QED
  BY <1>11, <1>12

(* and after a unit comes the next, or the text has been read.              *)
LEMMA BeforeNext ==
    ASSUME grounding \in Seq(Nat \ {0}), NEW s, s \in Segments,
           s.unit \in DOMAIN grounding, s.to = grounding[s.unit]
    PROVE  /\ s.unit = Len(grounding) => Before(After(s, s.to)) = Text
           /\ s.unit # Len(grounding) =>
                LET n == [unit |-> s.unit + 1, from |-> 0, to |-> grounding[s.unit + 1]]
                IN  /\ n \in Segments /\ n.unit \in DOMAIN grounding
                    /\ n.from < n.to /\ n.to = grounding[n.unit]
                    /\ Before(After(s, s.to)) = Before(n)
<1>1. /\ s.unit \in Nat /\ s.from \in Nat /\ s.to \in Nat
      /\ Len(grounding) \in Nat /\ DOMAIN grounding = 1..Len(grounding)
      /\ \A u \in DOMAIN grounding : grounding[u] \in Nat \ {0}
  BY DEF Segments
<1>2. After(s, s.to) = [unit |-> s.unit, from |-> s.to, to |-> s.to]
  BY <1>1 DEF After, Segments
<1>3. \A c : c \in Before(After(s, s.to)) <=>
          c \in Text /\ (c[1] < s.unit \/ (c[1] = s.unit /\ c[2] <= s.to))
  BY <1>2 DEF Before
<1>4. \A c \in Text : /\ c[1] \in DOMAIN grounding /\ c[2] \in 1..grounding[c[1]]
                      /\ c[1] \in 1..Len(grounding) /\ c[1] \in Nat /\ c[2] \in Nat
  BY InText, <1>1
<1>5. \A c : c \in Before(After(s, s.to)) <=> c \in Text /\ c[1] <= s.unit
  <2>1. \A c \in Text : c[1] = s.unit => c[2] <= s.to
    BY <1>1, <1>4
  <2> QED
    BY <2>1, <1>1, <1>3, <1>4
<1>6. ASSUME s.unit = Len(grounding)
      PROVE  Before(After(s, s.to)) = Text
  <2>1. \A c \in Text : c[1] <= s.unit
    BY <1>1, <1>4, <1>6
  <2> QED
    BY <2>1, <1>5
<1>7. ASSUME s.unit # Len(grounding),
             NEW n, n = [unit |-> s.unit + 1, from |-> 0, to |-> grounding[s.unit + 1]]
      PROVE  /\ n \in Segments /\ n.unit \in DOMAIN grounding
             /\ n.from < n.to /\ n.to = grounding[n.unit]
             /\ Before(After(s, s.to)) = Before(n)
  <2>1. s.unit + 1 \in 1..Len(grounding)
    BY <1>1, <1>7
  <2>2. grounding[s.unit + 1] \in Nat \ {0}
    BY <1>1, <2>1
  <2>3. n.unit = s.unit + 1 /\ n.from = 0 /\ n.to = grounding[s.unit + 1]
    BY <1>7
  <2>4. \A c : c \in Before(n) <=> c \in Text /\ c[1] <= s.unit
    <3>1. \A c \in Text : c[1] < s.unit + 1 <=> c[1] <= s.unit
      BY <1>1, <1>4
    <3>2. \A c \in Text : ~(c[2] <= 0)
      BY <1>1, <1>4
    <3> QED
      BY <3>1, <3>2, <2>3 DEF Before
  <2>5. n \in Segments
    BY <1>7, <1>1, <2>2 DEF Segments
  <2>6. n.from < n.to
    BY <2>2, <2>3
  <2> QED
    BY <1>1, <2>1, <2>3, <2>4, <2>5, <2>6, <1>5
<1> QED
  BY <1>6, <1>7

LEMMA CutUnitInv ==
    ASSUME MapAssumption, MapInv, CutUnit
    PROVE  MapInv'
<1> DEFINE s == rest[1]
<1>1. /\ MapTypeOK /\ CutInv /\ ClaimsInv
      /\ stage = "cut" /\ rest # <<>> /\ batch = 1 /\ stack = <<>> /\ mapped = <<>>
      /\ windows = <<>> /\ packed = <<>>
  BY DEF MapInv, CutUnit
<1>2. /\ stage' = "cut" /\ grounding' = grounding /\ windows' = windows
      /\ packed' = packed /\ batch' = batch /\ stack' = stack /\ attempt' = attempt
      /\ mapped' = mapped /\ failed' = failed /\ items' = items
      /\ judged' = judged /\ accepted' = accepted /\ criticFailed' = criticFailed
  BY <1>1 DEF CutUnit, callVars, criticVars
<1>3. /\ grounding \in Documents /\ grounding \in Seq(Nat \ {0})
      /\ units \in Seq(Segments) /\ rest \in Seq(Segments)
      /\ \A i \in DOMAIN units : Length(units[i]) \in 1..MaxWindow
      /\ MaxWindow \in Nat \ {0}
  BY <1>1 DEF MapTypeOK, MapAssumption
<1>4. /\ s \in Segments /\ s.unit \in DOMAIN grounding /\ s.from < s.to
      /\ s.to = grounding[s.unit] /\ Head(rest) = s
      /\ Apart(units) /\ CharsOf(units) = Before(s)
  <2>1. Head(rest) = rest[1] /\ rest[1] \in Segments
    BY <1>1, <1>3
  <2> QED
    BY <1>1, <2>1 DEF CutInv
<1>5. s.unit \in Nat /\ s.from \in Nat /\ s.to \in Nat
  BY <1>4 DEF Segments
<1> HIDE DEF s
<1>6. Text' = Text /\ (\A t : Before(t)' = Before(t)) /\ CharsOf(units)' = CharsOf(units')
  BY <1>2 DEF Text, Before, CharsOf
<1>7. ASSUME NEW at, at \in s.from..s.to, at > s.from, at - s.from <= MaxWindow,
             units' = Append(units, UpTo(s, at))
      PROVE  /\ units' \in Seq(Segments) /\ Apart(units')
             /\ \A i \in DOMAIN units' : Length(units'[i]) \in 1..MaxWindow
             /\ CharsOf(units') = Before(After(s, at))
  <2>1. UpTo(s, at) \in Segments
    BY <1>4, <1>7, CharsOfCut
  <2>2. /\ Before(s) \cap Chars(UpTo(s, at)) = {}
        /\ Before(s) \cup Chars(UpTo(s, at)) = Before(After(s, at))
    BY <1>3, <1>4, <1>7, BeforeCut
  <2>3. /\ CharsOf(units') = Before(After(s, at)) /\ Apart(units')
    BY <1>3, <1>4, <1>7, <2>1, <2>2, CharsOfAppend
  <2>4. Length(UpTo(s, at)) = at - s.from
    BY <1>4, <1>5 DEF Length, UpTo, Segments
  <2>5. Length(UpTo(s, at)) \in 1..MaxWindow
    BY <2>4, <1>7, <1>5, <1>3
  <2>6. \A i \in DOMAIN units' :
            units'[i] = UpTo(s, at) \/ (i \in DOMAIN units /\ units'[i] = units[i])
    <3>1. /\ DOMAIN units = 1..Len(units) /\ Len(units) \in Nat
          /\ DOMAIN Append(units, UpTo(s, at)) = 1..Len(units) + 1
          /\ \A i \in 1..Len(units) : Append(units, UpTo(s, at))[i] = units[i]
          /\ Append(units, UpTo(s, at))[Len(units) + 1] = UpTo(s, at)
      BY <1>3, <2>1, AppendProperties
    <3>2. \A i \in 1..Len(units) + 1 : i = Len(units) + 1 \/ i \in 1..Len(units)
      BY <3>1
    <3> DEFINE longer == Append(units, UpTo(s, at))
    <3>3. \A i \in DOMAIN longer :
            longer[i] = UpTo(s, at) \/ (i \in DOMAIN units /\ longer[i] = units[i])
      BY <3>1, <3>2
    <3>4. units' = longer
      BY <1>7
    <3> HIDE DEF longer
    <3> QED
      BY <3>3, <3>4
  <2>7. units' \in Seq(Segments)
    BY <1>3, <1>7, <2>1
  <2> QED
    BY <2>3, <2>5, <2>6, <2>7, <1>3
<1>8. ASSUME /\ units' \in Seq(Segments) /\ Apart(units')
             /\ \A i \in DOMAIN units' : Length(units'[i]) \in 1..MaxWindow,
             \/ rest' = <<>> /\ CharsOf(units') = Text
             \/ \E t \in Segments :
                  /\ rest' = <<t>> /\ t.unit \in DOMAIN grounding
                  /\ t.from < t.to /\ t.to = grounding[t.unit]
                  /\ CharsOf(units') = Before(t)
      PROVE  MapInv'
  <2>1. rest' \in Seq(Segments)
    <3>1. <<>> \in Seq(Segments) /\ \A t \in Segments : <<t>> \in Seq(Segments)
      OBVIOUS
    <3> QED
      BY <1>8, <3>1
  <2>2. MapTypeOK'
    BY <1>1, <1>2, <1>8, <2>1 DEF MapTypeOK
  <2>3. CutInv'
    <3>1. CASE rest' = <<>> /\ CharsOf(units') = Text
      BY <3>1, <1>6, <1>8 DEF CutInv, Apart
    <3>2. ASSUME NEW t \in Segments,
                 rest' = <<t>> /\ t.unit \in DOMAIN grounding,
                 t.from < t.to /\ t.to = grounding[t.unit],
                 CharsOf(units') = Before(t)
          PROVE  CutInv'
      <4>1. rest' # <<>> /\ Len(rest') = 1 /\ rest'[1] = t
        BY <3>2
      <4>2. Before(rest[1])' = Before(t)
        BY <4>1, <1>2 DEF Before, Text
      <4>3. Apart(units)'
        BY <1>8 DEF Apart
      <4> QED
        BY <3>2, <4>1, <4>2, <4>3, <1>2, <1>6 DEF CutInv
    <3> QED
      BY <3>1, <3>2, <1>8
  <2>4. PackInv' /\ ReadInv'
    BY <1>2 DEF PackInv, ReadInv
  <2>5. ClaimsInv'
    BY <1>1, <1>2 DEF ClaimsInv
  <2> QED
    BY <1>1, <1>2, <2>2, <2>3, <2>4, <2>5 DEF MapInv
<1>9. CASE Length(s) <= MaxWindow /\ units' = Append(units, s) /\ rest' = NextUnit(s)
  <2>1. UpTo(s, s.to) = s
    BY <1>4 DEF UpTo, Segments
  <2>2. s.to \in s.from..s.to /\ s.to > s.from /\ s.to - s.from <= MaxWindow
    BY <1>4, <1>5, <1>9 DEF Length
  <2>3. /\ units' \in Seq(Segments) /\ Apart(units')
        /\ \A i \in DOMAIN units' : Length(units'[i]) \in 1..MaxWindow
        /\ CharsOf(units') = Before(After(s, s.to))
    BY <1>7, <1>9, <2>1, <2>2
  <2>4. CASE s.unit = Len(grounding)
    <3>1. rest' = <<>>
      BY <1>9, <2>4 DEF NextUnit
    <3>2. CharsOf(units') = Text
      BY <2>3, <2>4, <1>3, <1>4, BeforeNext
    <3> QED
      BY <2>3, <3>1, <3>2, <1>8
  <2>5. CASE s.unit # Len(grounding)
    <3> DEFINE n == [unit |-> s.unit + 1, from |-> 0, to |-> grounding[s.unit + 1]]
    <3>1. rest' = <<n>>
      BY <1>9, <2>5 DEF NextUnit
    <3>2. /\ n \in Segments /\ n.unit \in DOMAIN grounding
          /\ n.from < n.to /\ n.to = grounding[n.unit]
          /\ Before(After(s, s.to)) = Before(n)
      BY <2>5, <1>3, <1>4, BeforeNext
    <3> HIDE DEF n
    <3> QED
      BY <2>3, <3>1, <3>2, <1>8
  <2> QED
    BY <2>4, <2>5
<1>10. ASSUME Length(s) > MaxWindow,
              NEW at \in s.from + (55 * MaxWindow) \div 100..s.from + MaxWindow,
              at > s.from, units' = Append(units, UpTo(s, at)), rest' = <<After(s, at)>>
       PROVE  MapInv'
  <2>1. (55 * MaxWindow) \div 100 \in Int
    BY <1>3
  <2>2. at \in s.from..s.to /\ at - s.from <= MaxWindow /\ at < s.to
    <3>1. at \in Int /\ at <= s.from + MaxWindow
      <4>1. PICK low \in Int, high \in Int :
                low = s.from + (55 * MaxWindow) \div 100 /\ high = s.from + MaxWindow
        BY <1>3, <1>5, <2>1
      <4>2. at \in low..high
        BY <1>10, <4>1
      <4>3. at \in Int /\ at <= high
        BY <4>2
      <4> QED
        BY <4>1, <4>3
    <3>2. s.to - s.from > MaxWindow
      BY <1>10 DEF Length
    <3>3. at > s.from
      BY <1>10
    <3>4. PICK from \in Nat, to \in Nat, max \in Nat :
              from = s.from /\ to = s.to /\ max = MaxWindow
      BY <1>3, <1>5
    <3>5. at \in Int /\ at <= from + max /\ to - from > max /\ at > from
      BY <3>1, <3>2, <3>3, <3>4
    <3>6. at \in from..to /\ at - from <= max /\ at < to
      BY <3>5
    <3> QED
      BY <3>4, <3>6
  <2>3. /\ units' \in Seq(Segments) /\ Apart(units')
        /\ \A i \in DOMAIN units' : Length(units'[i]) \in 1..MaxWindow
        /\ CharsOf(units') = Before(After(s, at))
    BY <1>7, <1>10, <2>2
  <2>4. /\ After(s, at).unit = s.unit /\ After(s, at).from = at
        /\ After(s, at).to = s.to
    BY <1>4 DEF After, Segments
  <2>5. After(s, at) \in Segments
    BY <1>4, <2>2, CharsOfCut
  <2>6. /\ After(s, at).unit \in DOMAIN grounding
        /\ After(s, at).from < After(s, at).to
        /\ After(s, at).to = grounding[After(s, at).unit]
    BY <2>2, <2>4, <1>4
  <2> QED
    BY <1>8, <1>10, <2>3, <2>5, <2>6
<1> QED
  BY <1>4, <1>9, <1>10 DEF CutUnit
-----------------------------------------------------------------------------
(* Packing what has been cut: the windows have the characters of all units. *)
LEMMA CharsOfAllAppend ==
    ASSUME NEW list, list \in Seq(Windows), NEW w, w \in Windows
    PROVE  /\ CharsOfAll(Append(list, w)) = CharsOfAll(list) \cup CharsOf(w)
           /\ Separate(list) /\ CharsOfAll(list) \cap CharsOf(w) = {} =>
                Separate(Append(list, w))
           /\ (\A i \in DOMAIN list : Apart(list[i])) /\ Apart(w) =>
                \A i \in DOMAIN Append(list, w) : Apart(Append(list, w)[i])
<1> DEFINE longer == Append(list, w)
<1>1. /\ DOMAIN longer = DOMAIN list \cup {Len(list) + 1}
      /\ Len(list) + 1 \notin DOMAIN list
      /\ \A i \in DOMAIN list : longer[i] = list[i]
      /\ longer[Len(list) + 1] = w
  OBVIOUS
<1> HIDE DEF longer
<1>2. \A c : c \in CharsOfAll(longer) <=> c \in CharsOfAll(list) \/ c \in CharsOf(w)
  BY <1>1 DEF CharsOfAll
<1>3. \A i \in DOMAIN list : CharsOf(list[i]) \subseteq CharsOfAll(list)
  BY DEF CharsOfAll
<1>4. ASSUME Separate(list), CharsOfAll(list) \cap CharsOf(w) = {}
      PROVE  Separate(longer)
  BY <1>1, <1>3, <1>4 DEF Separate
<1>5. ASSUME \A i \in DOMAIN list : Apart(list[i]), Apart(w)
      PROVE  \A i \in DOMAIN longer : Apart(longer[i])
  BY <1>1, <1>5
<1>6. CharsOfAll(longer) = CharsOfAll(list) \cup CharsOf(w)
  BY <1>2
<1> QED
  BY <1>4, <1>5, <1>6 DEF longer

LEMMA StartPackingInv ==
    ASSUME MapAssumption, MapInv, StartPacking
    PROVE  MapInv'
<1>1. /\ MapTypeOK /\ CutInv /\ ClaimsInv
      /\ stage = "cut" /\ rest = <<>> /\ batch = 1 /\ stack = <<>> /\ mapped = <<>>
      /\ windows = <<>> /\ packed = <<>>
  BY DEF MapInv, StartPacking
<1>2. /\ stage' = "pack" /\ rest' = units /\ grounding' = grounding /\ units' = units
      /\ windows' = windows
      /\ packed' = packed /\ batch' = batch /\ stack' = stack /\ attempt' = attempt
      /\ mapped' = mapped /\ failed' = failed /\ items' = items
      /\ judged' = judged /\ accepted' = accepted /\ criticFailed' = criticFailed
  BY DEF StartPacking, windowVars, callVars, criticVars
<1>3. Apart(units) /\ CharsOf(units) = Text
  BY <1>1 DEF CutInv
<1>4. MapTypeOK'
  BY <1>1, <1>2 DEF MapTypeOK
<1>5. /\ Text' = Text /\ CharsOf(rest)' = CharsOf(units) /\ Apart(rest)' = Apart(units)
      /\ packed' = <<>> /\ windows' = <<>>
  BY <1>1, <1>2 DEF Text, CharsOf, Apart
<1>6. /\ CharsOf(packed') = {} /\ Apart(packed') /\ CharsOfAll(windows') = {}
      /\ Separate(windows') /\ DOMAIN windows' = {}
  <2>1. DOMAIN <<>> = {}
    OBVIOUS
  <2>2. CharsOfAll(<<>>) = {} /\ Separate(<<>>)
    BY <2>1 DEF CharsOfAll, Separate
  <2> QED
    BY <1>5, <2>1, <2>2, CharsOfNone
<1>7. /\ CharsOf(packed)' = CharsOf(packed') /\ Apart(packed)' = Apart(packed')
      /\ CharsOfAll(windows)' = CharsOfAll(windows') /\ Separate(windows)' = Separate(windows')
  BY DEF CharsOf, Apart, CharsOfAll, Separate
<1>8. PackInv'
  BY <1>3, <1>5, <1>6, <1>7 DEF PackInv
<1>9. CutInv' /\ ReadInv' /\ ClaimsInv'
  BY <1>1, <1>2 DEF CutInv, ReadInv, ClaimsInv
<1> QED
  BY <1>1, <1>2, <1>4, <1>8, <1>9 DEF MapInv

LEMMA PackUnitInv ==
    ASSUME MapAssumption, MapInv, PackUnit
    PROVE  MapInv'
<1> DEFINE h == Head(rest)
           left == Tail(rest)
<1>1. /\ MapTypeOK /\ PackInv /\ ClaimsInv
      /\ stage = "pack" /\ rest # <<>> /\ batch = 1 /\ stack = <<>> /\ mapped = <<>>
  BY DEF MapInv, PackUnit
<1>2. /\ stage' = "pack" /\ rest' = left /\ grounding' = grounding /\ units' = units
      /\ batch' = batch /\ stack' = stack /\ attempt' = attempt
      /\ mapped' = mapped /\ failed' = failed /\ items' = items
      /\ judged' = judged /\ accepted' = accepted /\ criticFailed' = criticFailed
  BY <1>1 DEF PackUnit, callVars, criticVars
<1>3. /\ rest \in Seq(Segments) /\ packed \in Seq(Segments) /\ windows \in Seq(Windows)
  BY <1>1 DEF MapTypeOK
<1>4. /\ h \in Segments /\ left \in Seq(Segments)
      /\ CharsOf(rest) = Chars(h) \cup CharsOf(left)
      /\ Apart(rest) => Apart(left) /\ Chars(h) \cap CharsOf(left) = {}
  BY <1>1, <1>3, CharsOfTail
<1>5. /\ Apart(rest) /\ Apart(packed) /\ Separate(windows)
      /\ \A i \in DOMAIN windows : Apart(windows[i])
      /\ CharsOf(packed) \cap CharsOf(rest) = {}
      /\ CharsOfAll(windows) \cap (CharsOf(packed) \cup CharsOf(rest)) = {}
      /\ Text = CharsOfAll(windows) \cup CharsOf(packed) \cup CharsOf(rest)
  BY <1>1 DEF PackInv
<1> HIDE DEF h, left
<1>6. /\ Text' = Text /\ Apart(rest)' = Apart(left) /\ CharsOf(rest)' = CharsOf(left)
      /\ CharsOf(packed)' = CharsOf(packed') /\ Apart(packed)' = Apart(packed')
      /\ CharsOfAll(windows)' = CharsOfAll(windows') /\ Separate(windows)' = Separate(windows')
      /\ (\A i \in DOMAIN windows : Apart(windows[i]))'
            <=> \A i \in DOMAIN windows' : Apart(windows'[i])
  BY <1>2 DEF Text, CharsOf, Apart, CharsOfAll, Separate
<1>7. ASSUME windows' \in Seq(Windows), packed' \in Seq(Segments),
             Apart(packed'), Separate(windows'),
             \A i \in DOMAIN windows' : Apart(windows'[i]),
             CharsOf(packed') \cap CharsOf(left) = {},
             CharsOfAll(windows') \cap (CharsOf(packed') \cup CharsOf(left)) = {},
             Text = CharsOfAll(windows') \cup CharsOf(packed') \cup CharsOf(left)
      PROVE  MapInv'
  <2>1. MapTypeOK'
    BY <1>1, <1>2, <1>4, <1>7 DEF MapTypeOK
  <2>2. PackInv'
    BY <1>4, <1>5, <1>6, <1>7 DEF PackInv
  <2>3. CutInv' /\ ReadInv' /\ ClaimsInv'
    BY <1>1, <1>2 DEF CutInv, ReadInv, ClaimsInv
  <2> QED
    BY <1>1, <1>2, <2>1, <2>2, <2>3 DEF MapInv
<1>8. CASE packed # <<>> /\ windows' = Append(windows, packed) /\ packed' = <<h>>
  <2>1. packed \in Windows
    BY <1>3, <1>8 DEF Windows
  <2>2. /\ CharsOf(packed') = Chars(h) /\ Apart(packed')
    BY <1>8, CharsOfOne
  <2>3. /\ CharsOfAll(windows') = CharsOfAll(windows) \cup CharsOf(packed)
        /\ Separate(windows') /\ \A i \in DOMAIN windows' : Apart(windows'[i])
    <3>1. CharsOfAll(windows) \cap CharsOf(packed) = {}
      BY <1>5
    <3> DEFINE longer == Append(windows, packed)
    <3>2. /\ CharsOfAll(longer) = CharsOfAll(windows) \cup CharsOf(packed)
          /\ Separate(longer) /\ \A i \in DOMAIN longer : Apart(longer[i])
      BY <1>3, <1>5, <2>1, <3>1, CharsOfAllAppend
    <3>3. windows' = longer
      BY <1>8
    <3> HIDE DEF longer
    <3> QED
      BY <3>2, <3>3
  <2>4. windows' \in Seq(Windows) /\ packed' \in Seq(Segments)
    BY <1>3, <1>4, <1>8, <2>1
  <2>5. /\ CharsOf(packed') \cap CharsOf(left) = {}
        /\ CharsOfAll(windows') \cap (CharsOf(packed') \cup CharsOf(left)) = {}
        /\ Text = CharsOfAll(windows') \cup CharsOf(packed') \cup CharsOf(left)
    BY <1>4, <1>5, <2>2, <2>3
  <2> QED
    BY <1>7, <2>2, <2>3, <2>4, <2>5
<1>9. CASE windows' = windows /\ packed' = Append(packed, h)
  <2>1. CharsOf(packed) \cap Chars(h) = {}
    BY <1>4, <1>5
  <2>2. CharsOf(packed') = CharsOf(packed) \cup Chars(h) /\ Apart(packed')
    BY <1>3, <1>4, <1>5, <1>9, <2>1, CharsOfAppend
  <2>3. windows' \in Seq(Windows) /\ packed' \in Seq(Segments)
    BY <1>3, <1>4, <1>9
  <2>4. Separate(windows') /\ \A i \in DOMAIN windows' : Apart(windows'[i])
    BY <1>5, <1>9
  <2>5. /\ CharsOf(packed') \cap CharsOf(left) = {}
        /\ CharsOfAll(windows') \cap (CharsOf(packed') \cup CharsOf(left)) = {}
        /\ Text = CharsOfAll(windows') \cup CharsOf(packed') \cup CharsOf(left)
    BY <1>4, <1>5, <1>9, <2>2
  <2> QED
    BY <1>7, <2>2, <2>3, <2>4, <2>5
<1> QED
  BY <1>8, <1>9 DEF PackUnit, h

LEMMA StartMapInv ==
    ASSUME MapAssumption, MapInv, StartMap
    PROVE  MapInv'
<1>1. /\ MapTypeOK /\ PackInv /\ ClaimsInv
      /\ stage = "pack" /\ rest = <<>> /\ batch = 1 /\ stack = <<>> /\ mapped = <<>>
  BY DEF MapInv, StartMap
<1>2. /\ stage' = "map" /\ rest' = WithPacked /\ windows' = WithPacked
      /\ packed' = <<>> /\ grounding' = grounding /\ units' = units
      /\ batch' = batch /\ stack' = stack /\ attempt' = attempt
      /\ mapped' = mapped /\ failed' = failed /\ items' = items
      /\ judged' = judged /\ accepted' = accepted /\ criticFailed' = criticFailed
  BY DEF StartMap, callVars, criticVars
<1>3. packed \in Seq(Segments) /\ windows \in Seq(Windows)
  BY <1>1 DEF MapTypeOK
<1>4. /\ Apart(packed) /\ Separate(windows)
      /\ \A i \in DOMAIN windows : Apart(windows[i])
      /\ CharsOfAll(windows) \cap CharsOf(packed) = {}
      /\ Text = CharsOfAll(windows) \cup CharsOf(packed)
  BY <1>1, CharsOfNone DEF PackInv
<1> DEFINE ws == WithPacked
<1>5. /\ ws \in Seq(Windows) /\ Separate(ws) /\ \A i \in DOMAIN ws : Apart(ws[i])
      /\ Text = CharsOfAll(ws)
  <2>1. CASE packed = <<>>
    BY <2>1, <1>3, <1>4, CharsOfNone DEF WithPacked
  <2>2. CASE packed # <<>>
    <3>1. packed \in Windows
      BY <2>2, <1>3 DEF Windows
    <3> DEFINE longer == Append(windows, packed)
    <3>2. ws = longer /\ longer \in Seq(Windows)
      BY <2>2, <1>3, <3>1 DEF WithPacked
    <3>3. /\ CharsOfAll(longer) = CharsOfAll(windows) \cup CharsOf(packed)
          /\ Separate(longer) /\ \A i \in DOMAIN longer : Apart(longer[i])
      BY <1>3, <1>4, <3>1, CharsOfAllAppend
    <3> HIDE DEF longer, ws
    <3> QED
      BY <3>2, <3>3, <1>4
  <2> QED
    BY <2>1, <2>2
<1> HIDE DEF ws
<1>6. rest' = ws /\ windows' = ws
  BY <1>2 DEF ws
<1>7. MapTypeOK'
  BY <1>1, <1>2, <1>5, <1>6 DEF MapTypeOK
<1>8. Text' = Text
  BY <1>2 DEF Text
<1>9. ASSUME NEW b \in 1..Batches, NEW c \in Text
      PROVE  InOnePlace(b, c)'
  <2>1. stack' = <<>> /\ mapped' = <<>> /\ batch' = 1 /\ DOMAIN <<>> = {}
    BY <1>1, <1>2
  <2>2. Reading(stack, b, c)' = {} /\ Reading(mapped, b, c)' = {}
    BY <2>1 DEF Reading
  <2>3. b >= 1
    BY DEF MapAssumption
  <2>4. ToRead(b, c)' = {i \in DOMAIN ws : c \in CharsOf(ws[i])}
    BY <1>6, <2>1, <2>3 DEF ToRead, CharsOf, Chars
  <2>5. PICK i \in DOMAIN ws : c \in CharsOf(ws[i])
    BY <1>5 DEF CharsOfAll
  <2>6. {k \in DOMAIN ws : c \in CharsOf(ws[k])} = {i}
    BY <1>5, <2>5 DEF Separate
  <2>7. Once(ToRead(b, c))'
    BY <2>4, <2>6 DEF Once
  <2> QED
    BY <2>2, <2>7 DEF InOnePlace
<1>10. ReadInv'
  <2>1. (\A i \in DOMAIN rest : Apart(rest[i]))'
    BY <1>5, <1>6 DEF Apart
  <2>2. (\A i \in DOMAIN stack : Apart(stack[i].window))'
    BY <1>1, <1>2
  <2>3. (\A b \in 1..Batches, c \in Text : InOnePlace(b, c))'
    BY <1>8, <1>9
  <2> QED
    BY <2>1, <2>2, <2>3 DEF ReadInv
<1>11. CutInv' /\ PackInv' /\ ClaimsInv'
  BY <1>1, <1>2 DEF CutInv, PackInv, ClaimsInv
<1> QED
  BY <1>1, <1>2, <1>7, <1>10, <1>11 DEF MapInv
-----------------------------------------------------------------------------
(* Mapping the windows: every character stays in one place.  A set of       *)
(* places that are all renumbered is as large as it was.                    *)
LEMMA Renumbered ==
    ASSUME NEW S, S \subseteq Int, NEW T, T \subseteq Int, NEW k, k \in Int,
           \A i \in S : i + k \in T, \A j \in T : j - k \in S
    PROVE  (S = {} <=> T = {}) /\ (Once(S) <=> Once(T))
<1>1. \A i \in Int : (i + k) - k = i /\ (i - k) + k = i
  OBVIOUS
<1>2. ASSUME Once(S)
      PROVE  Once(T)
  <2>1. PICK i \in S : S = {i}
    BY <1>2 DEF Once
  <2>2. \A j \in T : j = i + k
    BY <1>1, <2>1
  <2>3. T = {i + k}
    BY <2>1, <2>2
  <2> QED
    BY <2>3 DEF Once
<1>3. ASSUME Once(T)
      PROVE  Once(S)
  <2>1. PICK j \in T : T = {j}
    BY <1>3 DEF Once
  <2>2. \A i \in S : i = j - k
    BY <1>1, <2>1
  <2>3. S = {j - k}
    BY <2>1, <2>2
  <2> QED
    BY <2>3 DEF Once
<1> QED
  BY <1>2, <1>3

LEMMA InReading ==
    ASSUME NEW q, NEW b, NEW c, NEW i
    PROVE  i \in Reading(q, b, c) <=>
               i \in DOMAIN q /\ q[i].batch = b /\ c \in CharsOf(q[i].window)
  BY DEF Reading

(* The state that is shared by all steps of the map.                        *)
LEMMA MapStageInv ==
    ASSUME MapInv, stage = "map"
    PROVE  /\ MapTypeOK /\ ClaimsInv
           /\ rest \in Seq(Windows) /\ stack \in Seq(Calls) /\ mapped \in Seq(Leaves)
           /\ \A i \in DOMAIN rest : Apart(rest[i])
           /\ \A i \in DOMAIN stack : Apart(stack[i].window)
           /\ failed = 0 => \A b \in 1..Batches, c \in Text : InOnePlace(b, c)
<1>1. MapTypeOK /\ ReadInv /\ ClaimsInv
  BY DEF MapInv
<1>2. stage \notin {"cut", "pack"}
  OBVIOUS
<1>3. /\ \A i \in DOMAIN rest : Apart(rest[i])
      /\ \A i \in DOMAIN stack : Apart(stack[i].window)
      /\ failed = 0 => \A b \in 1..Batches, c \in Text : InOnePlace(b, c)
  BY <1>1, <1>2 DEF ReadInv
<1> QED
  BY <1>1, <1>3 DEF MapTypeOK

LEMMA MapStageInvNext ==
    ASSUME MapTypeOK', ClaimsInv', stage' \notin {"cut", "pack"}, Text' = Text,
           (\A i \in DOMAIN rest : Apart(rest[i]))',
           (\A i \in DOMAIN stack : Apart(stack[i].window))',
           failed' = 0 => \A b \in 1..Batches, c \in Text : InOnePlace(b, c)'
    PROVE  MapInv'
<1>1. ReadInv'
  BY DEF ReadInv
<1>2. CutInv' /\ PackInv'
  BY DEF CutInv, PackInv
<1> QED
  BY <1>1, <1>2 DEF MapInv

LEMMA MapWindowInv ==
    ASSUME MapAssumption, MapInv, MapWindow
    PROVE  MapInv'
<1> DEFINE w == rest[1]
<1>1. /\ stage = "map" /\ stack = <<>> /\ rest # <<>>
      /\ stage' = "map" /\ grounding' = grounding /\ units' = units
      /\ windows' = windows /\ packed' = packed /\ attempt' = attempt
      /\ mapped' = mapped /\ failed' = failed /\ items' = items
      /\ judged' = judged /\ accepted' = accepted /\ criticFailed' = criticFailed
  BY DEF MapWindow, windowVars, criticVars
<1>2. /\ MapTypeOK /\ ClaimsInv
      /\ rest \in Seq(Windows)
      /\ \A i \in DOMAIN rest : Apart(rest[i])
      /\ failed = 0 => \A b \in 1..Batches, c \in Text : InOnePlace(b, c)
  BY <1>1, MapStageInv
<1>3. /\ Head(rest) = w /\ w \in Windows /\ 1 \in DOMAIN rest /\ Len(rest) \in Nat
      /\ DOMAIN rest = 1..Len(rest)
      /\ Tail(rest) \in Seq(Windows) /\ DOMAIN Tail(rest) = 1..Len(rest) - 1
      /\ \A i \in DOMAIN Tail(rest) : Tail(rest)[i] = rest[i + 1]
  BY <1>1, <1>2
<1> HIDE DEF w
<1>4. batch \in 1..Batches /\ Batches \in Nat \ {0}
  BY <1>2 DEF MapTypeOK, MapAssumption
<1>5. stack' = <<[window |-> w, batch |-> batch]>>
  BY <1>3 DEF MapWindow
<1>6. /\ DOMAIN stack' = {1} /\ stack'[1].window = w /\ stack'[1].batch = batch
      /\ stack' \in Seq(Calls)
  BY <1>3, <1>4, <1>5 DEF Calls
<1>7. \/ batch = Batches /\ batch' = 1 /\ rest' = Tail(rest)
      \/ batch # Batches /\ batch' = batch + 1 /\ rest' = rest
  BY DEF MapWindow
<1>8. batch' \in 1..Batches /\ rest' \in Seq(Windows)
  <2>1. CASE batch = Batches /\ batch' = 1 /\ rest' = Tail(rest)
    BY <2>1, <1>3, <1>4
  <2>2. CASE batch # Batches /\ batch' = batch + 1 /\ rest' = rest
    <3>1. batch + 1 \in 1..Batches
      BY <2>2, <1>4
    <3> QED
      BY <2>2, <3>1, <1>2
  <2> QED
    BY <2>1, <2>2, <1>7
<1>9. MapTypeOK'
  BY <1>1, <1>2, <1>6, <1>8 DEF MapTypeOK
<1>10. Text' = Text /\ ClaimsInv'
  BY <1>1, <1>2 DEF Text, ClaimsInv
<1>11. (\A i \in DOMAIN rest : Apart(rest[i]))'
  <2>1. \A i \in DOMAIN rest' : Apart(rest'[i])
    <3>1. CASE rest' = rest
      BY <3>1, <1>2
    <3>2. CASE rest' = Tail(rest)
      <4>1. \A i \in DOMAIN Tail(rest) : i + 1 \in DOMAIN rest
        BY <1>3
      <4> QED
        BY <3>2, <4>1, <1>2, <1>3
    <3> QED
      BY <3>1, <3>2, <1>7
  <2> QED
    BY <2>1 DEF Apart
<1>12. (\A i \in DOMAIN stack : Apart(stack[i].window))'
  <2>1. Apart(w)
    BY <1>2, <1>3 DEF w
  <2> QED
    BY <2>1, <1>6 DEF Apart
<1>13. ASSUME failed' = 0, NEW b \in 1..Batches, NEW c \in Text
       PROVE  InOnePlace(b, c)'
  <2>1. InOnePlace(b, c) /\ Reading(stack, b, c) = {}
    <3>1. DOMAIN stack = {}
      BY <1>1
    <3> QED
      BY <3>1, <1>1, <1>2, <1>13 DEF Reading
  <2>2. Reading(mapped, b, c)' = Reading(mapped, b, c)
    BY <1>1 DEF Reading, CharsOf, Chars
  <2>3. /\ ToRead(b, c)' = {i \in DOMAIN rest' : (i > 1 \/ b >= batch') /\ c \in CharsOf(rest'[i])}
        /\ Reading(stack, b, c)' = {i \in {1} : batch = b /\ c \in CharsOf(w)}
    BY <1>6 DEF ToRead, Reading, CharsOf, Chars
  <2>4. b \in Nat /\ batch \in Nat
    BY <1>4
  <2>5. CASE batch = b /\ c \in CharsOf(w)
    <3>1. 1 \in ToRead(b, c)
      BY <2>4, <2>5, <1>3 DEF ToRead, w
    <3>2. ToRead(b, c) = {1} /\ Reading(mapped, b, c) = {}
      BY <3>1, <2>1 DEF InOnePlace, Once
    <3>3. \A i \in DOMAIN rest : i > 1 => c \notin CharsOf(rest[i])
      BY <3>2 DEF ToRead
    <3>4. ToRead(b, c)' = {}
      <4>1. CASE batch = Batches /\ batch' = 1 /\ rest' = Tail(rest)
        <5>1. \A i \in DOMAIN Tail(rest) : i + 1 \in DOMAIN rest /\ i + 1 > 1
          BY <1>3
        <5>2. \A i \in DOMAIN Tail(rest) : c \notin CharsOf(Tail(rest)[i])
          BY <5>1, <3>3, <1>3
        <5> QED
          BY <5>2, <4>1, <2>3
      <4>2. CASE batch # Batches /\ batch' = batch + 1 /\ rest' = rest
        <5>1. ~(b >= batch')
          BY <4>2, <2>4, <2>5
        <5> QED
          BY <5>1, <4>2, <2>3, <3>3
      <4> QED
        BY <4>1, <4>2, <1>7
    <3>5. Reading(stack, b, c)' = {1}
      BY <2>3, <2>5
    <3> QED
      BY <3>2, <3>4, <3>5, <2>2 DEF InOnePlace, Once
  <2>6. CASE ~(batch = b /\ c \in CharsOf(w))
    <3>1. Reading(stack, b, c)' = {}
      BY <2>3, <2>6
    <3>2. /\ ToRead(b, c) = {} <=> ToRead(b, c)' = {}
          /\ Once(ToRead(b, c)) <=> Once(ToRead(b, c)')
      <4>1. CASE batch = Batches /\ batch' = 1 /\ rest' = Tail(rest)
        <5> DEFINE S == ToRead(b, c)
                   T == {i \in DOMAIN Tail(rest) : c \in CharsOf(rest[i + 1])}
        <5>1. ToRead(b, c)' = T
          BY <4>1, <2>3, <2>4, <1>3
        <5>2. S \subseteq Int /\ T \subseteq Int
          BY <1>3 DEF ToRead
        <5>3. \A i \in T : i + 1 \in S
          BY <1>3 DEF ToRead
        <5>4. 1 \notin S
          <6>1. b >= batch => b = batch
            BY <4>1, <1>4
          <6> QED
            BY <6>1, <2>6 DEF ToRead, w
        <5>5. \A j \in S : j - 1 \in T
          <6> TAKE j \in S
          <6>1. j \in 1..Len(rest) /\ j # 1 /\ c \in CharsOf(rest[j])
            BY <5>4, <1>3 DEF ToRead
          <6>2. j - 1 \in 1..Len(rest) - 1 /\ (j - 1) + 1 = j
            BY <6>1, <1>3
          <6> QED
            BY <6>1, <6>2, <1>3
        <5> HIDE DEF S, T
        <5>6. (T = {} <=> S = {}) /\ (Once(T) <=> Once(S))
          <6>1. \A k \in {1} : k \in Int /\ (\A i \in T : i + k \in S)
                                        /\ (\A j \in S : j - k \in T)
            BY <5>3, <5>5
          <6>2. PICK k \in {1} : TRUE
            OBVIOUS
          <6> QED
            BY <5>2, <6>1, <6>2, Renumbered, Zenon
        <5> QED
          BY <5>1, <5>6 DEF S
      <4>2. CASE batch # Batches /\ batch' = batch + 1 /\ rest' = rest
        <5>1. \A i \in DOMAIN rest : c \in CharsOf(rest[i]) =>
                ((i > 1 \/ b >= batch') <=> (i > 1 \/ b >= batch))
          <6> TAKE i \in DOMAIN rest
          <6>1. i \in Nat /\ i >= 1
            BY <1>3
          <6>2. CASE i > 1
            BY <6>2
          <6>3. CASE i = 1
            <7>1. c \in CharsOf(rest[i]) => batch # b
              BY <2>6, <6>3 DEF w
            <7>2. batch # b => (b >= batch + 1 <=> b >= batch)
              BY <2>4
            <7> QED
              BY <7>1, <7>2, <4>2
          <6> QED
            BY <6>1, <6>2, <6>3
        <5>2. ToRead(b, c)' = ToRead(b, c)
          BY <5>1, <2>3, <4>2 DEF ToRead
        <5> QED
          BY <5>2
      <4> QED
        BY <4>1, <4>2, <1>7
    <3>3. Once(ToRead(b, c))' = Once(ToRead(b, c)') /\ Once(Reading(mapped, b, c))' = Once(Reading(mapped, b, c))
      BY <2>2 DEF Once
    <3>4. Reading(stack, b, c) = {} /\ ~Once(Reading(stack, b, c))
      BY <2>1 DEF Once
    <3> QED
      BY <2>1, <2>2, <3>1, <3>2, <3>3, <3>4 DEF InOnePlace
  <2> QED
    BY <2>5, <2>6
<1> QED
  BY <1>1, <1>9, <1>10, <1>11, <1>12, <1>13, MapStageInvNext

(* The calls below the innermost one are what they were when it is replaced *)
(* by none, or by two.                                                      *)
LEMMA ReadingBelow ==
    ASSUME NEW q, q \in Seq(Calls), q # <<>>, NEW p, p \in Seq(Calls),
           NEW k, k \in Nat, Len(p) = Len(q) - 1 + k,
           \A i \in 2..Len(q) : p[i - 1 + k] = q[i],
           NEW b, NEW c, \A i \in 1..k : i \notin Reading(p, b, c)
    PROVE  /\ 1 \notin Reading(q, b, c) =>
                /\ Reading(q, b, c) = {} <=> Reading(p, b, c) = {}
                /\ Once(Reading(q, b, c)) <=> Once(Reading(p, b, c))
           /\ Reading(q, b, c) = {1} => Reading(p, b, c) = {}
<1> DEFINE S == Reading(q, b, c)
           T == Reading(p, b, c)
<1>1. /\ Len(q) \in Nat /\ Len(p) \in Nat /\ DOMAIN q = 1..Len(q) /\ DOMAIN p = 1..Len(p)
      /\ k - 1 \in Int
  OBVIOUS
<1>2. S \subseteq 1..Len(q) /\ T \subseteq 1..Len(p)
  BY <1>1 DEF Reading
<1>3. S \subseteq Int /\ T \subseteq Int
  BY <1>2
<1>4. \A j \in T : j - (k - 1) \in S /\ j - (k - 1) # 1
  <2> TAKE j \in T
  <2>1. j \in 1..Len(p) /\ j > k /\ p[j].batch = b /\ c \in CharsOf(p[j].window)
    <3>1. j \in 1..Len(p) /\ p[j].batch = b /\ c \in CharsOf(p[j].window)
      BY <1>1, InReading
    <3>2. j \notin 1..k
      OBVIOUS
    <3> QED
      BY <3>1, <3>2
  <2>2. j - (k - 1) \in 2..Len(q) /\ (j - (k - 1)) - 1 + k = j
    BY <2>1, <1>1
  <2>3. p[j] = q[j - (k - 1)]
    BY <2>2
  <2> QED
    BY <2>1, <2>2, <2>3, <1>1, InReading
<1>5. ASSUME 1 \notin S
      PROVE  \A i \in S : i + (k - 1) \in T
  <2> TAKE i \in S
  <2>1. i \in 2..Len(q) /\ q[i].batch = b /\ c \in CharsOf(q[i].window)
    <3>1. i \in 1..Len(q) /\ q[i].batch = b /\ c \in CharsOf(q[i].window)
      BY <1>1, InReading
    <3> QED
      BY <3>1, <1>5
  <2>2. i + (k - 1) = i - 1 + k /\ i + (k - 1) \in DOMAIN p
    BY <2>1, <1>1
  <2>3. p[i + (k - 1)] = q[i]
    BY <2>1, <2>2
  <2> QED
    BY <2>1, <2>2, <2>3, InReading
<1> HIDE DEF S, T
<1>6. ASSUME 1 \notin S
      PROVE  (S = {} <=> T = {}) /\ (Once(S) <=> Once(T))
  <2>1. PICK m \in Int : m = k - 1
    BY <1>1
  <2>2. (\A i \in S : i + m \in T) /\ (\A j \in T : j - m \in S)
    BY <2>1, <1>4, <1>5, <1>6
  <2> QED
    BY <1>3, <2>2, Renumbered, Zenon
<1>7. ASSUME S = {1}
      PROVE  T = {}
  BY <1>4, <1>7
<1> QED
  BY <1>6, <1>7 DEF S, T

LEMMA LeafSucceedsInv ==
    ASSUME MapAssumption, MapInv, LeafSucceeds
    PROVE  MapInv'
<1> DEFINE call == stack[1]
           below == Tail(stack)
<1>1. /\ stage = "map" /\ stack # <<>>
      /\ stage' = "map" /\ grounding' = grounding /\ units' = units
      /\ windows' = windows /\ packed' = packed /\ attempt' = 1
      /\ rest' = rest /\ batch' = batch /\ failed' = failed /\ stack' = below
      /\ judged' = judged /\ accepted' = accepted /\ criticFailed' = criticFailed
  BY DEF LeafSucceeds, windowVars, criticVars
<1>2. /\ MapTypeOK /\ ClaimsInv
      /\ rest \in Seq(Windows) /\ stack \in Seq(Calls) /\ mapped \in Seq(Leaves)
      /\ \A i \in DOMAIN rest : Apart(rest[i])
      /\ \A i \in DOMAIN stack : Apart(stack[i].window)
      /\ failed = 0 => \A b \in 1..Batches, c \in Text : InOnePlace(b, c)
  BY <1>1, MapStageInv
<1>3. /\ Head(stack) = call /\ call \in Calls
      /\ below \in Seq(Calls) /\ Len(below) = Len(stack) - 1
      /\ Len(stack) \in Nat /\ DOMAIN stack = 1..Len(stack) /\ 1 \in DOMAIN stack
      /\ DOMAIN below = 1..Len(stack) - 1
      /\ \A i \in 1..Len(stack) - 1 : below[i] = stack[i + 1]
  BY <1>1, <1>2
<1>4. PICK claim \in BOOLEAN :
        /\ mapped' = Append(mapped, [window |-> Head(stack).window,
                                     batch |-> Head(stack).batch, claim |-> claim])
        /\ items' = IF claim THEN Append(items, Len(mapped) + 1) ELSE items
  BY DEF LeafSucceeds
<1> DEFINE leaf == [window |-> call.window, batch |-> call.batch, claim |-> claim]
<1>5. /\ leaf \in Leaves /\ leaf.window = call.window /\ leaf.batch = call.batch
      /\ leaf.claim = claim
  BY <1>3 DEF Leaves, Calls
<1>6. mapped' = Append(mapped, leaf)
  BY <1>3, <1>4
<1> HIDE DEF call, below, leaf
<1>7. /\ mapped' \in Seq(Leaves)
      /\ DOMAIN mapped = 1..Len(mapped) /\ Len(mapped) \in Nat
      /\ DOMAIN mapped' = 1..Len(mapped) + 1
      /\ \A i \in 1..Len(mapped) : mapped'[i] = mapped[i]
      /\ mapped'[Len(mapped) + 1] = leaf
  BY <1>2, <1>5, <1>6, AppendProperties
<1>8. DOMAIN mapped' = DOMAIN mapped \cup {Len(mapped) + 1} /\ Len(mapped) + 1 \notin DOMAIN mapped
  BY <1>7
<1>9. items \in Seq(DOMAIN mapped)
  BY <1>2 DEF MapTypeOK
<1>10. items \in Seq(DOMAIN mapped') /\ Len(mapped) + 1 \in DOMAIN mapped'
  BY <1>8, <1>9, SeqMonotonic
<1>11. items' \in Seq(DOMAIN mapped')
  <2>1. Append(items, Len(mapped) + 1) \in Seq(DOMAIN mapped')
    BY <1>10, AppendProperties
  <2> QED
    BY <2>1, <1>4, <1>10
<1>12. MapTypeOK'
  <2>1. accepted' \subseteq DOMAIN mapped' /\ judged' \subseteq DOMAIN mapped'
    BY <1>1, <1>2, <1>8 DEF MapTypeOK
  <2>2. attempt' \in 1..MaxAttempts
    BY <1>1 DEF MapAssumption
  <2>3. stack' \in Seq(Calls)
    BY <1>1, <1>3
  <2> QED
    BY <1>1, <1>2, <1>7, <1>11, <2>1, <2>2, <2>3 DEF MapTypeOK
<1>13. ClaimsInv'
  <2>1. ASSUME criticFailed' = 0, NEW i \in DOMAIN mapped', mapped'[i].claim
        PROVE  i \in judged' \/ \E k \in DOMAIN items' : items'[k] = i
    <3>1. /\ DOMAIN items \subseteq DOMAIN items'
          /\ \A k \in DOMAIN items : items'[k] = items[k]
      <4>1. CASE claim
        <5>1. items' = Append(items, Len(mapped) + 1)
          BY <4>1, <1>4
        <5> QED
          BY <5>1, <1>9, <1>10
      <4>2. CASE ~claim
        BY <4>2, <1>4
      <4> QED
        BY <4>1, <4>2
    <3>2. CASE i \in DOMAIN mapped
      <4>1. mapped[i].claim
        BY <2>1, <3>2, <1>7
      <4>2. i \in judged \/ \E k \in DOMAIN items : items[k] = i
        BY <4>1, <3>2, <2>1, <1>1, <1>2 DEF ClaimsInv
      <4> QED
        BY <4>2, <3>1, <1>1
    <3>3. CASE i = Len(mapped) + 1
      <4>1. claim
        BY <2>1, <3>3, <1>5, <1>7
      <4>2. items' = Append(items, Len(mapped) + 1)
        BY <4>1, <1>4
      <4>3. Len(items) + 1 \in DOMAIN items' /\ items'[Len(items) + 1] = Len(mapped) + 1
        BY <4>2, <1>9, <1>10
      <4> QED
        BY <4>3, <3>3
    <3> QED
      BY <2>1, <3>2, <3>3, <1>8
  <2>2. stage' # "done"
    BY <1>1, <1>2
  <2> QED
    BY <2>1, <2>2 DEF ClaimsInv
<1>14. Text' = Text
  BY <1>1 DEF Text
<1>15. /\ (\A i \in DOMAIN rest : Apart(rest[i]))'
       /\ (\A i \in DOMAIN stack : Apart(stack[i].window))'
  <2>1. \A i \in DOMAIN below : i + 1 \in DOMAIN stack /\ below[i] = stack[i + 1]
    BY <1>3
  <2>2. \A i \in DOMAIN below : Apart(below[i].window)
    BY <2>1, <1>2
  <2> QED
    BY <1>1, <1>2, <2>2 DEF Apart
<1>16. ASSUME failed' = 0, NEW b \in 1..Batches, NEW c \in Text
       PROVE  InOnePlace(b, c)'
  <2>1. InOnePlace(b, c)
    BY <1>1, <1>2, <1>16
  <2>2. /\ ToRead(b, c)' = ToRead(b, c) /\ Reading(stack, b, c)' = Reading(below, b, c)
        /\ Reading(mapped, b, c)' = Reading(mapped', b, c)
    BY <1>1 DEF ToRead, Reading, CharsOf, Chars
  <2>3. /\ 1 \notin Reading(stack, b, c) =>
             /\ Reading(stack, b, c) = {} <=> Reading(below, b, c) = {}
             /\ Once(Reading(stack, b, c)) <=> Once(Reading(below, b, c))
        /\ Reading(stack, b, c) = {1} => Reading(below, b, c) = {}
    <3>1. \A i \in 2..Len(stack) : below[i - 1 + 0] = stack[i]
      <4> TAKE i \in 2..Len(stack)
      <4>1. i - 1 \in 1..Len(stack) - 1 /\ (i - 1) + 1 = i /\ i - 1 + 0 = i - 1
        BY <1>3
      <4> QED
        BY <4>1, <1>3
    <3>2. Len(below) = Len(stack) - 1 + 0 /\ \A i \in 1..0 : i \notin Reading(below, b, c)
      BY <1>3
    <3> QED
      BY <1>1, <1>2, <1>3, <3>1, <3>2, ReadingBelow
  <2>4. 1 \in Reading(stack, b, c) <=> call.batch = b /\ c \in CharsOf(call.window)
    BY <1>3 DEF Reading, call
  <2>5. CASE call.batch = b /\ c \in CharsOf(call.window)
    <3>1. ToRead(b, c) = {} /\ Reading(stack, b, c) = {1} /\ Reading(mapped, b, c) = {}
      BY <2>1, <2>4, <2>5 DEF InOnePlace, Once
    <3>2. \A i \in DOMAIN mapped : i \notin Reading(mapped', b, c)
      BY <3>1, <1>7 DEF Reading
    <3>3. Len(mapped) + 1 \in Reading(mapped', b, c)
      BY <2>5, <1>5, <1>7, <1>8 DEF Reading
    <3>4. Reading(mapped', b, c) \subseteq DOMAIN mapped'
      BY DEF Reading
    <3>5. Reading(mapped', b, c) = {Len(mapped) + 1}
      BY <3>2, <3>3, <3>4, <1>8
    <3>6. Once(Reading(mapped, b, c))'
      BY <2>2, <3>5 DEF Once
    <3> QED
      BY <2>2, <2>3, <3>1, <3>6 DEF InOnePlace
  <2>6. CASE ~(call.batch = b /\ c \in CharsOf(call.window))
    <3>1. Reading(mapped', b, c) = Reading(mapped, b, c)
      <4>1. Len(mapped) + 1 \notin Reading(mapped', b, c)
        BY <2>6, <1>5, <1>7 DEF Reading
      <4>2. \A i \in DOMAIN mapped : i \in Reading(mapped', b, c) <=> i \in Reading(mapped, b, c)
        BY <1>7, <1>8 DEF Reading
      <4>3. Reading(mapped', b, c) \subseteq DOMAIN mapped' /\ Reading(mapped, b, c) \subseteq DOMAIN mapped
        BY DEF Reading
      <4> QED
        BY <4>1, <4>2, <4>3, <1>8
    <3>2. /\ Reading(stack, b, c) = {} <=> Reading(below, b, c) = {}
          /\ Once(Reading(stack, b, c)) <=> Once(Reading(below, b, c))
      BY <2>3, <2>4, <2>6
    <3>3. /\ Once(ToRead(b, c))' = Once(ToRead(b, c))
          /\ Once(Reading(stack, b, c))' = Once(Reading(below, b, c))
          /\ Once(Reading(mapped, b, c))' = Once(Reading(mapped, b, c))
      BY <2>2, <3>1 DEF Once
    <3> QED
      BY <2>1, <2>2, <3>1, <3>2, <3>3 DEF InOnePlace
  <2> QED
    BY <2>5, <2>6
<1> QED
  BY <1>1, <1>12, <1>13, <1>14, <1>15, <1>16, MapStageInvNext

LEMMA LeafFailsInv ==
    ASSUME MapAssumption, MapInv, LeafFails
    PROVE  MapInv'
<1> DEFINE call == stack[1]
           below == Tail(stack)
<1>1. /\ stage = "map" /\ stack # <<>>
      /\ stage' = "map" /\ grounding' = grounding /\ units' = units
      /\ windows' = windows /\ packed' = packed /\ items' = items
      /\ rest' = rest /\ batch' = batch /\ mapped' = mapped
      /\ judged' = judged /\ accepted' = accepted /\ criticFailed' = criticFailed
  BY DEF LeafFails, windowVars, criticVars
<1>2. /\ MapTypeOK /\ ClaimsInv
      /\ rest \in Seq(Windows) /\ stack \in Seq(Calls) /\ mapped \in Seq(Leaves)
      /\ \A i \in DOMAIN rest : Apart(rest[i])
      /\ \A i \in DOMAIN stack : Apart(stack[i].window)
      /\ failed = 0 => \A b \in 1..Batches, c \in Text : InOnePlace(b, c)
  BY <1>1, MapStageInv
<1>3. /\ Head(stack) = call /\ call \in Calls
      /\ below \in Seq(Calls) /\ Len(below) = Len(stack) - 1
      /\ Len(stack) \in Nat /\ DOMAIN stack = 1..Len(stack) /\ 1 \in DOMAIN stack
      /\ DOMAIN below = 1..Len(stack) - 1
      /\ \A i \in 1..Len(stack) - 1 : below[i] = stack[i + 1]
  BY <1>1, <1>2
<1>4. call.window \in Windows /\ call.batch \in 1..Batches /\ Apart(call.window)
  BY <1>2, <1>3 DEF Calls
<1> HIDE DEF call, below
<1>5. Text' = Text /\ ClaimsInv' /\ (\A i \in DOMAIN rest : Apart(rest[i]))'
  BY <1>1, <1>2 DEF Text, ClaimsInv, Apart
<1>6. failed \in Nat /\ attempt \in 1..MaxAttempts /\ MaxAttempts \in Nat \ {0}
  BY <1>2 DEF MapTypeOK, MapAssumption
<1>7. ASSUME attempt' \in 1..MaxAttempts, failed' \in Nat, stack' \in Seq(Calls),
             (\A i \in DOMAIN stack : Apart(stack[i].window))',
             failed' = 0 => \A b \in 1..Batches, c \in Text : InOnePlace(b, c)'
      PROVE  MapInv'
  <2>1. MapTypeOK'
    BY <1>1, <1>2, <1>7 DEF MapTypeOK
  <2> QED
    BY <2>1, <1>1, <1>5, <1>7, MapStageInvNext
<1>8. \A i \in DOMAIN below : Apart(below[i].window)
  <2>1. \A i \in DOMAIN below : i + 1 \in DOMAIN stack /\ below[i] = stack[i + 1]
    BY <1>3
  <2> QED
    BY <2>1, <1>2
<1>9. CASE attempt < MaxAttempts /\ attempt' = attempt + 1 /\ stack' = stack /\ failed' = failed
  <2>1. attempt' \in 1..MaxAttempts
    BY <1>6, <1>9
  <2>2. (\A i \in DOMAIN stack : Apart(stack[i].window))'
    BY <1>2, <1>9 DEF Apart
  <2>3. ASSUME failed' = 0, NEW b \in 1..Batches, NEW c \in Text
        PROVE  InOnePlace(b, c)'
    <3>1. InOnePlace(b, c)
      BY <1>2, <1>9, <2>3
    <3>2. /\ ToRead(b, c)' = ToRead(b, c) /\ Reading(stack, b, c)' = Reading(stack, b, c)
          /\ Reading(mapped, b, c)' = Reading(mapped, b, c)
      BY <1>1, <1>9 DEF ToRead, Reading, CharsOf, Chars
    <3> QED
      BY <3>1, <3>2 DEF InOnePlace, Once
  <2> QED
    BY <1>2, <1>6, <1>7, <1>9, <2>1, <2>2, <2>3
<1>10. CASE attempt' = 1 /\ failed' = failed + 1 /\ stack' = below
  <2>1. attempt' \in 1..MaxAttempts /\ failed' \in Nat /\ failed' # 0
    BY <1>6, <1>10
  <2>2. stack' \in Seq(Calls) /\ (\A i \in DOMAIN stack : Apart(stack[i].window))'
    BY <1>3, <1>8, <1>10 DEF Apart
  <2> QED
    BY <1>7, <2>1, <2>2
<1>11. ASSUME attempt' = 1, failed' = failed, NEW halves, halves \in SplitWindow(call.window),
              stack' = CallsOn(halves, call.batch) \o below
       PROVE  MapInv'
  <2> DEFINE one == [window |-> halves[1], batch |-> call.batch]
             two == [window |-> halves[2], batch |-> call.batch]
             both == <<one, two>>
             new == both \o below
  <2>1. /\ halves[1] \in Windows /\ halves[2] \in Windows
        /\ CharsOf(halves[1]) \cup CharsOf(halves[2]) = CharsOf(call.window)
        /\ Apart(halves[1]) /\ Apart(halves[2])
        /\ CharsOf(halves[1]) \cap CharsOf(halves[2]) = {}
    BY <1>4, <1>11, CharsOfHalves
  <2>2. /\ one \in Calls /\ two \in Calls
        /\ one.window = halves[1] /\ one.batch = call.batch
        /\ two.window = halves[2] /\ two.batch = call.batch
    BY <1>4, <2>1 DEF Calls
  <2>3. stack' = new
    BY <1>11 DEF CallsOn
  <2> HIDE DEF one, two
  <2>4. both \in Seq(Calls) /\ Len(both) = 2 /\ both[1] = one /\ both[2] = two
    BY <2>2
  <2> HIDE DEF both
  <2>5. /\ new \in Seq(Calls) /\ Len(new) = Len(stack) + 1
        /\ new[1] = one /\ new[2] = two
        /\ \A i \in 1..Len(stack) - 1 : new[i + 2] = below[i]
    <3>0. /\ new \in Seq(Calls) /\ Len(new) = Len(both) + Len(below)
          /\ \A i \in 1..Len(both) + Len(below) :
               new[i] = IF i <= Len(both) THEN both[i] ELSE below[i - Len(both)]
      <4>1. both \in Seq(Calls) /\ below \in Seq(Calls)
        BY <1>3, <2>4
      <4> HIDE DEF below
      <4> QED
        BY <4>1, ConcatProperties
    <3> HIDE DEF new
    <3>1. /\ new \in Seq(Calls) /\ Len(new) = 2 + Len(below)
          /\ \A i \in 1..2 + Len(below) : new[i] = IF i <= 2 THEN both[i] ELSE below[i - 2]
      BY <3>0, <2>4
    <3>2. Len(new) = Len(stack) + 1 /\ 2 + Len(below) = Len(stack) + 1
      BY <1>3, <3>1
    <3>3. 1 \in 1..Len(stack) + 1 /\ 2 \in 1..Len(stack) + 1
      BY <1>3
    <3>4. new[1] = one /\ new[2] = two
      BY <2>4, <3>1, <3>2, <3>3
    <3>5. ASSUME NEW i \in 1..Len(stack) - 1
          PROVE  new[i + 2] = below[i]
      <4>1. i + 2 \in 1..Len(stack) + 1 /\ ~(i + 2 <= 2) /\ (i + 2) - 2 = i
        BY <1>3
      <4> QED
        BY <4>1, <3>1, <3>2
    <3> QED
      BY <3>1, <3>2, <3>4, <3>5
  <2> HIDE DEF new
  <2>6. DOMAIN new = 1..Len(stack) + 1
    BY <2>5
  <2>7. \A i \in 2..Len(stack) : new[i - 1 + 2] = stack[i]
    <3> TAKE i \in 2..Len(stack)
    <3>1. i - 1 \in 1..Len(stack) - 1 /\ (i - 1) + 1 = i
      BY <1>3
    <3> QED
      BY <3>1, <2>5, <1>3
  <2>8. \A i \in DOMAIN new : Apart(new[i].window)
    <3> TAKE i \in DOMAIN new
    <3>1. CASE i = 1 \/ i = 2
      BY <3>1, <2>1, <2>2, <2>5
    <3>2. CASE i # 1 /\ i # 2
      <4>1. i - 2 \in DOMAIN below /\ (i - 2) + 2 = i
        BY <3>2, <2>6, <1>3
      <4> QED
        BY <4>1, <2>5, <1>3, <1>8
    <3> QED
      BY <3>1, <3>2
  <2>9. (\A i \in DOMAIN stack : Apart(stack[i].window))'
    BY <2>3, <2>8 DEF Apart
  <2>10. ASSUME failed' = 0, NEW b \in 1..Batches, NEW c \in Text
         PROVE  InOnePlace(b, c)'
    <3>1. InOnePlace(b, c)
      BY <1>2, <1>11, <2>10
    <3>2. /\ ToRead(b, c)' = ToRead(b, c) /\ Reading(stack, b, c)' = Reading(new, b, c)
          /\ Reading(mapped, b, c)' = Reading(mapped, b, c)
      BY <1>1, <2>3 DEF ToRead, Reading, CharsOf, Chars
    <3>3. 1 \in Reading(stack, b, c) <=> call.batch = b /\ c \in CharsOf(call.window)
      BY <1>3 DEF Reading, call
    <3>4. /\ 1 \in Reading(new, b, c) <=> call.batch = b /\ c \in CharsOf(halves[1])
          /\ 2 \in Reading(new, b, c) <=> call.batch = b /\ c \in CharsOf(halves[2])
      <4>1. 1 \in DOMAIN new /\ 2 \in DOMAIN new
        BY <2>6, <1>3
      <4> QED
        BY <4>1, <2>2, <2>5, InReading
    <3>5. CASE call.batch = b /\ c \in CharsOf(call.window)
      <4>1. ToRead(b, c) = {} /\ Reading(stack, b, c) = {1} /\ Reading(mapped, b, c) = {}
        BY <3>1, <3>3, <3>5 DEF InOnePlace, Once
      <4>2. \A i \in DOMAIN new : i # 1 /\ i # 2 => i \notin Reading(new, b, c)
        <5> TAKE i \in DOMAIN new
        <5>1. ASSUME i # 1, i # 2
              PROVE  i \notin Reading(new, b, c)
          <6>1. i - 1 \in 2..Len(stack) /\ (i - 1) - 1 + 2 = i
            BY <5>1, <2>6, <1>3
          <6>2. new[i] = stack[i - 1]
            BY <6>1, <2>7
          <6>3. i - 1 \notin Reading(stack, b, c) /\ i - 1 \in DOMAIN stack
            BY <4>1, <6>1, <1>3
          <6> QED
            BY <6>2, <6>3, InReading
        <5> QED
          BY <5>1
      <4>3. \/ 1 \in Reading(new, b, c) /\ 2 \notin Reading(new, b, c)
            \/ 2 \in Reading(new, b, c) /\ 1 \notin Reading(new, b, c)
        BY <2>1, <3>4, <3>5
      <4>4. Reading(new, b, c) \subseteq DOMAIN new
        BY DEF Reading
      <4>5. Reading(new, b, c) = {1} \/ Reading(new, b, c) = {2}
        BY <4>2, <4>3, <4>4
      <4>6. Once(Reading(stack, b, c))'
        BY <4>5, <3>2 DEF Once
      <4> QED
        BY <3>2, <4>1, <4>6 DEF InOnePlace
    <3>6. CASE ~(call.batch = b /\ c \in CharsOf(call.window))
      <4>1. \A i \in 1..2 : i \notin Reading(new, b, c)
        <5>1. 1 \notin Reading(new, b, c) /\ 2 \notin Reading(new, b, c)
          BY <2>1, <3>4, <3>6
        <5>2. \A i \in 1..2 : i = 1 \/ i = 2
          OBVIOUS
        <5> QED
          BY <5>1, <5>2
      <4>2. Len(new) = Len(stack) - 1 + 2
        BY <1>3, <2>5
      <4>3. /\ Reading(stack, b, c) = {} <=> Reading(new, b, c) = {}
            /\ Once(Reading(stack, b, c)) <=> Once(Reading(new, b, c))
        BY <1>1, <1>2, <2>5, <2>7, <3>3, <3>6, <4>1, <4>2, ReadingBelow
      <4>4. /\ Once(ToRead(b, c))' = Once(ToRead(b, c))
            /\ Once(Reading(stack, b, c))' = Once(Reading(new, b, c))
            /\ Once(Reading(mapped, b, c))' = Once(Reading(mapped, b, c))
        BY <3>2 DEF Once
      <4> QED
        BY <3>1, <3>2, <4>3, <4>4 DEF InOnePlace
    <3> QED
      BY <3>5, <3>6
  <2>11. attempt' \in 1..MaxAttempts /\ failed' \in Nat /\ stack' \in Seq(Calls)
    BY <1>6, <1>11, <2>3, <2>5
  <2> QED
    BY <1>7, <2>9, <2>10, <2>11
<1>12. \/ attempt < MaxAttempts /\ attempt' = attempt + 1 /\ stack' = stack /\ failed' = failed
       \/ attempt' = 1 /\ failed' = failed + 1 /\ stack' = below
       \/ /\ attempt' = 1 /\ failed' = failed
          /\ \E halves \in SplitWindow(call.window) :
               stack' = CallsOn(halves, call.batch) \o below
  <2>1. PICK e \in Errors :
        \/ /\ ~GivesUp(e)
           /\ attempt' = attempt + 1 /\ UNCHANGED <<stack, failed>>
        \/ /\ GivesUp(e) /\ attempt' = 1
           /\ \/ failed' = failed + 1 /\ stack' = below
              \/ \E halves \in IF Halves(e) THEN SplitWindow(call.window) ELSE {} :
                    /\ failed' = failed
                    /\ stack' = CallsOn(halves, call.batch) \o below
    BY <1>3 DEF LeafFails, below
  <2>2. ~GivesUp(e) => attempt < MaxAttempts
    BY <1>6 DEF GivesUp
  <2> QED
    BY <2>1, <2>2
<1> QED
  BY <1>9, <1>10, <1>11, <1>12
-----------------------------------------------------------------------------
(* Judging what was found.                                                  *)
LEMMA StartCriticInv ==
    ASSUME MapAssumption, MapInv, StartCritic
    PROVE  MapInv'
<1>1. /\ stage = "map" /\ stage' = "judge" /\ rest = <<>> /\ stack = <<>>
      /\ rest' = rest /\ items' = items /\ grounding' = grounding /\ units' = units
      /\ windows' = windows /\ packed' = packed /\ batch' = batch /\ stack' = stack
      /\ attempt' = attempt /\ mapped' = mapped /\ failed' = failed
      /\ judged' = judged /\ accepted' = accepted /\ criticFailed' = criticFailed
  BY DEF StartCritic, windowVars, callVars, criticVars
<1>2. /\ MapTypeOK /\ ClaimsInv
      /\ failed = 0 => \A b \in 1..Batches, c \in Text : InOnePlace(b, c)
  BY <1>1, MapStageInv
<1>3. MapTypeOK'
  BY <1>1, <1>2 DEF MapTypeOK
<1>4. /\ ClaimsInv' /\ Text' = Text
      /\ (\A i \in DOMAIN rest : Apart(rest[i]))'
      /\ (\A i \in DOMAIN stack : Apart(stack[i].window))'
  <2>1. DOMAIN <<>> = {}
    OBVIOUS
  <2>2. rest' = <<>> /\ stack' = <<>>
    BY <1>1
  <2>3. ClaimsInv' /\ Text' = Text
    BY <1>1, <1>2 DEF ClaimsInv, Text
  <2> QED
    BY <2>1, <2>2, <2>3
<1>5. ASSUME failed' = 0, NEW b \in 1..Batches, NEW c \in Text
      PROVE  InOnePlace(b, c)'
  <2>1. InOnePlace(b, c)
    BY <1>1, <1>2, <1>5
  <2>2. /\ ToRead(b, c)' = ToRead(b, c) /\ Reading(stack, b, c)' = Reading(stack, b, c)
        /\ Reading(mapped, b, c)' = Reading(mapped, b, c)
    BY <1>1 DEF ToRead, Reading, CharsOf, Chars
  <2> QED
    BY <2>1, <2>2 DEF InOnePlace, Once
<1> QED
  BY <1>1, <1>3, <1>4, <1>5, MapStageInvNext

(* The critic leaves the map as it is.                                      *)
LEMMA CriticInv ==
    ASSUME MapInv, stage = "judge", stage' \in {"judge", "done"},
           UNCHANGED <<windowVars, rest, batch, stack, mapped, failed>>,
           attempt' \in 1..MaxAttempts, criticFailed' \in Nat,
           items' \in Seq(DOMAIN mapped), accepted' \subseteq DOMAIN mapped,
           judged' \subseteq DOMAIN mapped,
           stage' = "done" => items' = <<>>,
           criticFailed' = 0 => /\ criticFailed = 0 /\ judged \subseteq judged'
                                /\ \A k \in DOMAIN items : items[k] \in judged' \/
                                     \E l \in DOMAIN items' : items'[l] = items[k]
    PROVE  MapInv'
<1>1. /\ rest' = rest /\ grounding' = grounding /\ units' = units
      /\ windows' = windows /\ packed' = packed /\ batch' = batch /\ stack' = stack
      /\ mapped' = mapped /\ failed' = failed
  BY DEF windowVars
<1>2. MapTypeOK /\ ReadInv /\ ClaimsInv
  BY DEF MapInv
<1>3. /\ \A i \in DOMAIN rest : Apart(rest[i])
      /\ \A i \in DOMAIN stack : Apart(stack[i].window)
      /\ failed = 0 => \A b \in 1..Batches, c \in Text : InOnePlace(b, c)
  BY <1>2 DEF ReadInv
<1>4. MapTypeOK'
  BY <1>1, <1>2 DEF MapTypeOK
<1>5. ClaimsInv'
  BY <1>1, <1>2 DEF ClaimsInv
<1>6. /\ Text' = Text
      /\ (\A i \in DOMAIN rest : Apart(rest[i]))'
      /\ (\A i \in DOMAIN stack : Apart(stack[i].window))'
  <2>1. Text' = Text
    BY <1>1 DEF Text
  <2>2. (\A i \in DOMAIN rest : Apart(rest[i]))'
    BY <1>1, <1>3 DEF Apart
  <2>3. (\A i \in DOMAIN stack : Apart(stack[i].window))'
    BY <1>1, <1>3 DEF Apart
  <2> QED
    BY <2>1, <2>2, <2>3
<1>7. ASSUME failed' = 0, NEW b \in 1..Batches, NEW c \in Text
      PROVE  InOnePlace(b, c)'
  <2>1. InOnePlace(b, c)
    BY <1>1, <1>3, <1>7
  <2>2. /\ ToRead(b, c)' = ToRead(b, c) /\ Reading(stack, b, c)' = Reading(stack, b, c)
        /\ Reading(mapped, b, c)' = Reading(mapped, b, c)
    BY <1>1 DEF ToRead, Reading, CharsOf, Chars
  <2> QED
    BY <2>1, <2>2 DEF InOnePlace, Once
<1> QED
  BY <1>4, <1>5, <1>6, <1>7, MapStageInvNext

LEMMA RemainingItems ==
    ASSUME NEW S, items \in Seq(S), CriticSize \in Nat \ {0}
    PROVE  /\ Remaining \in Seq(S) /\ JudgedAtOnce \subseteq S
           /\ \A k \in DOMAIN items :
                items[k] \in JudgedAtOnce \/ \E l \in DOMAIN Remaining : Remaining[l] = items[k]
<1>1. /\ Len(items) \in Nat /\ DOMAIN items = 1..Len(items)
      /\ \A i \in DOMAIN items : items[i] \in S
  OBVIOUS
<1>2. JudgedAtOnce \subseteq S
  BY <1>1 DEF JudgedAtOnce
<1>3. CASE CriticSize + 1 > Len(items)
  <2>1. Remaining = <<>>
    BY <1>1, <1>3, SubSeqEmpty DEF Remaining
  <2>2. \A k \in DOMAIN items : items[k] \in JudgedAtOnce
    <3>1. \A k \in 1..Len(items) : k <= CriticSize
      BY <1>1, <1>3
    <3> QED
      BY <3>1, <1>1 DEF JudgedAtOnce
  <2> QED
    BY <2>1, <2>2, <1>2
<1>4. CASE CriticSize + 1 <= Len(items)
  <2>1. /\ Remaining \in Seq(S) /\ DOMAIN Remaining = 1..(Len(items) - CriticSize)
        /\ \A i \in 1..(Len(items) - CriticSize) : Remaining[i] = items[CriticSize + i]
    BY <1>1, <1>4, SubSeqProperties DEF Remaining
  <2>2. ASSUME NEW k \in DOMAIN items
        PROVE  items[k] \in JudgedAtOnce \/ \E l \in DOMAIN Remaining : Remaining[l] = items[k]
    <3>1. CASE k <= CriticSize
      BY <3>1 DEF JudgedAtOnce
    <3>2. CASE k > CriticSize
      <4>1. k - CriticSize \in 1..(Len(items) - CriticSize) /\ CriticSize + (k - CriticSize) = k
        BY <3>2, <1>1
      <4> QED
        BY <4>1, <2>1
    <3> QED
      BY <3>1, <3>2, <1>1
  <2> QED
    BY <1>2, <2>1, <2>2
<1> QED
  BY <1>1, <1>3, <1>4

LEMMA CriticRepliesInv ==
    ASSUME MapAssumption, MapInv, CriticReplies
    PROVE  MapInv'
<1>1. /\ stage = "judge" /\ stage' = "judge"
      /\ UNCHANGED <<windowVars, rest, batch, stack, mapped, failed>>
  BY DEF CriticReplies
<1>2. /\ items \in Seq(DOMAIN mapped) /\ accepted \subseteq DOMAIN mapped
      /\ judged \subseteq DOMAIN mapped /\ criticFailed \in Nat
      /\ attempt \in 1..MaxAttempts
  BY DEF MapInv, MapTypeOK
<1>3. MaxAttempts \in Nat \ {0} /\ CriticSize \in Nat \ {0}
  BY DEF MapAssumption
<1>4. /\ Remaining \in Seq(DOMAIN mapped) /\ JudgedAtOnce \subseteq DOMAIN mapped
      /\ \A k \in DOMAIN items :
           items[k] \in JudgedAtOnce \/ \E l \in DOMAIN Remaining : Remaining[l] = items[k]
  BY <1>2, <1>3, RemainingItems
<1>5. PICK reply \in SUBSET JudgedAtOnce :
        \/ /\ reply = JudgedAtOnce
           /\ \E supported \in SUBSET reply : accepted' = accepted \cup supported
           /\ judged' = judged \cup reply
           /\ items' = Remaining /\ attempt' = 1
           /\ criticFailed' = criticFailed
        \/ /\ attempt < MaxAttempts /\ attempt' = attempt + 1
           /\ items' = items /\ judged' = judged /\ accepted' = accepted
           /\ criticFailed' = criticFailed
  BY DEF CriticReplies, CoversBatch, criticVars
<1>6. CASE /\ reply = JudgedAtOnce
           /\ \E supported \in SUBSET reply : accepted' = accepted \cup supported
           /\ judged' = judged \cup reply
           /\ items' = Remaining /\ attempt' = 1
           /\ criticFailed' = criticFailed
  <2>1. attempt' \in 1..MaxAttempts
    BY <1>3, <1>6
  <2>2. /\ items' \in Seq(DOMAIN mapped) /\ accepted' \subseteq DOMAIN mapped
        /\ judged' \subseteq DOMAIN mapped /\ criticFailed' \in Nat
    BY <1>2, <1>4, <1>6
  <2>3. /\ judged \subseteq judged'
        /\ \A k \in DOMAIN items : items[k] \in judged' \/
             \E l \in DOMAIN items' : items'[l] = items[k]
    BY <1>4, <1>6
  <2> QED
    BY <1>1, <1>6, <2>1, <2>2, <2>3, CriticInv
<1>7. CASE /\ attempt < MaxAttempts /\ attempt' = attempt + 1
           /\ items' = items /\ judged' = judged /\ accepted' = accepted
           /\ criticFailed' = criticFailed
  <2>1. attempt' \in 1..MaxAttempts
    BY <1>2, <1>3, <1>7
  <2> QED
    BY <1>1, <1>2, <1>7, <2>1, CriticInv
<1> QED
  BY <1>5, <1>6, <1>7

LEMMA CriticFailsInv ==
    ASSUME MapAssumption, MapInv, CriticFails
    PROVE  MapInv'
<1>1. /\ stage = "judge" /\ stage' = "judge"
      /\ UNCHANGED <<windowVars, rest, batch, stack, mapped, failed>>
      /\ criticFailed' = criticFailed + 1 /\ items' = Remaining /\ attempt' = 1
      /\ judged' = judged /\ accepted' = accepted
  BY DEF CriticFails
<1>2. /\ items \in Seq(DOMAIN mapped) /\ accepted \subseteq DOMAIN mapped
      /\ judged \subseteq DOMAIN mapped /\ criticFailed \in Nat
  BY DEF MapInv, MapTypeOK
<1>3. Remaining \in Seq(DOMAIN mapped)
  BY <1>2, RemainingItems DEF MapAssumption
<1>4. attempt' \in 1..MaxAttempts /\ criticFailed' \in Nat /\ criticFailed' # 0
  BY <1>1, <1>2 DEF MapAssumption
<1> QED
  BY <1>1, <1>2, <1>3, <1>4, CriticInv

LEMMA FinishMapInv ==
    ASSUME MapAssumption, MapInv, FinishMap
    PROVE  MapInv'
<1>1. /\ stage = "judge" /\ stage' = "done" /\ items' = items /\ attempt' = attempt
      /\ items = <<>>
      /\ UNCHANGED <<windowVars, rest, batch, stack, mapped, failed>>
      /\ judged' = judged /\ accepted' = accepted /\ criticFailed' = criticFailed
  BY DEF FinishMap, callVars, criticVars
<1>2. /\ items \in Seq(DOMAIN mapped) /\ accepted \subseteq DOMAIN mapped
      /\ judged \subseteq DOMAIN mapped /\ criticFailed \in Nat
      /\ attempt \in 1..MaxAttempts
  BY DEF MapInv, MapTypeOK
<1> QED
  BY <1>1, <1>2, CriticInv

LEMMA MapStutter ==
    ASSUME MapInv, UNCHANGED mapVars
    PROVE  MapInv'
<1>1. /\ stage' = stage /\ rest' = rest /\ grounding' = grounding /\ units' = units
      /\ windows' = windows /\ packed' = packed /\ batch' = batch /\ stack' = stack
      /\ attempt' = attempt /\ mapped' = mapped /\ failed' = failed /\ items' = items
      /\ judged' = judged /\ accepted' = accepted /\ criticFailed' = criticFailed
  BY DEF mapVars, windowVars, callVars, criticVars
<1>2. MapTypeOK' /\ ClaimsInv'
  BY <1>1 DEF MapInv, MapTypeOK, ClaimsInv
<1>3. Text' = Text /\ \A t : Before(t)' = Before(t)
  BY <1>1 DEF Text, Before
<1>4. CutInv'
  BY <1>1, <1>3 DEF MapInv, CutInv, Apart, CharsOf, Before
<1>5. PackInv'
  BY <1>1, <1>3 DEF MapInv, PackInv, Apart, CharsOf, CharsOfAll, Separate
<1>6. ReadInv'
  <2>1. ReadInv
    BY DEF MapInv
  <2>2. CASE stage \in {"cut", "pack"}
    BY <2>2, <1>1 DEF ReadInv
  <2>3. CASE stage \notin {"cut", "pack"}
    <3>1. \A b, c : InOnePlace(b, c)' = InOnePlace(b, c)
      BY <1>1 DEF InOnePlace, Once, ToRead, Reading, CharsOf
    <3>2. (\A i \in DOMAIN rest : Apart(rest[i]))'
      BY <1>1, <2>1, <2>3 DEF ReadInv, Apart
    <3>3. (\A i \in DOMAIN stack : Apart(stack[i].window))'
      BY <1>1, <2>1, <2>3 DEF ReadInv, Apart
    <3>4. (failed = 0 => \A b \in 1..Batches, c \in Text : InOnePlace(b, c))'
      BY <1>1, <1>3, <2>1, <2>3, <3>1 DEF ReadInv
    <3> QED
      BY <3>2, <3>3, <3>4 DEF ReadInv
  <2> QED
    BY <2>2, <2>3
<1> QED
  BY <1>1, <1>2, <1>4, <1>5, <1>6 DEF MapInv

(* Cutting, packing and mapping keep every character in one place, and the  *)
(* critic every claim.                                                      *)
THEOREM MapInvariance == MapSpec => []MapInv
<1>1. MapInit => MapInv
  BY MapInitInv, MapAssumption
<1>2. MapInv /\ [MapNext]_mapVars => MapInv'
  BY MapAssumption, CutUnitInv, StartPackingInv, PackUnitInv, StartMapInv, MapWindowInv,
     LeafSucceedsInv, LeafFailsInv, StartCriticInv, CriticRepliesInv,
     CriticFailsInv, FinishMapInv, MapStutter DEF MapNext
<1> QED
  BY <1>1, <1>2, PTL DEF MapSpec

LEMMA MapIsComplete ==
    ASSUME MapInv
    PROVE  CompleteMapReadsAll /\ CompleteMapIsJudged
<1>1. MapTypeOK /\ ReadInv /\ ClaimsInv
  BY DEF MapInv
<1>2. ASSUME Complete, NEW b \in 1..Batches, NEW c \in Text
      PROVE  Cardinality({i \in DOMAIN mapped :
                 mapped[i].batch = b /\ c \in CharsOf(mapped[i].window)}) = 1
  <2>1. stage = "done" /\ failed = 0 /\ rest = <<>> /\ stack = <<>>
    BY <1>1, <1>2 DEF Complete, MapTypeOK
  <2>2. InOnePlace(b, c)
    BY <1>1, <2>1 DEF ReadInv
  <2>3. DOMAIN rest = {} /\ DOMAIN stack = {}
    BY <2>1
  <2>4. ToRead(b, c) = {} /\ Reading(stack, b, c) = {}
    BY <2>3 DEF ToRead, Reading
  <2>5. PICK i \in Reading(mapped, b, c) : Reading(mapped, b, c) = {i}
    BY <2>2, <2>4 DEF InOnePlace, Once
  <2> QED
    BY <2>5, FS_Singleton DEF Reading
<1>3. ASSUME Complete, NEW i \in DOMAIN mapped, mapped[i].claim
      PROVE  i \in judged
  <2>1. criticFailed = 0 /\ items = <<>> /\ DOMAIN <<>> = {}
    BY <1>1, <1>3 DEF Complete, ClaimsInv
  <2> QED
    BY <1>1, <1>3, <2>1 DEF ClaimsInv
<1> QED
  BY <1>2, <1>3 DEF CompleteMapReadsAll, CompleteMapIsJudged

-----------------------------------------------------------------------------
(* The chunks of a text.  The highest and the lowest of finitely many        *)
(* numbers are among them.                                                   *)
LEMMA HasHighest ==
    ASSUME NEW T, IsFiniteSet(T), T # {}, NEW rank, rank \in [T -> Nat]
    PROVE  \E x \in T : \A y \in T : rank[y] <= rank[x]
<1> DEFINE Above(x) == {y \in T : rank[x] < rank[y]}
           All == {Above(x) : x \in T}
<1>1. IsWellFoundedOn(StrictSubsetOrdering(T), SUBSET T)
  BY FS_StrictSubsetOrderingWellFounded, FS_FiniteSubsetsOfFinite
<1>2. All \subseteq SUBSET T /\ All # {}
  <2>1. PICK x \in T : TRUE
    OBVIOUS
  <2>2. Above(x) \in All
    BY <2>1
  <2>3. \A y \in T : Above(y) \in SUBSET T
    OBVIOUS
  <2>4. All \subseteq SUBSET T
    BY <2>3
  <2> HIDE DEF All
  <2> QED
    BY <2>2, <2>4
<1>3. PICK low \in All : \A s \in All : ~(<<s, low>> \in StrictSubsetOrdering(T))
  <2> HIDE DEF All
  <2> QED
    BY <1>1, <1>2, WFMin
<1>4. PICK x \in T : low = Above(x)
  BY <1>3
<1>5. ASSUME NEW y \in T, rank[x] < rank[y]
      PROVE  FALSE
  <2>1. Above(y) \subseteq Above(x) /\ y \in Above(x) /\ y \notin Above(y)
    BY <1>5
  <2>2. <<Above(y), Above(x)>> \in StrictSubsetOrdering(T)
    BY <2>1 DEF StrictSubsetOrdering
  <2> QED
    BY <1>3, <1>4, <2>2
<1> QED
  BY <1>5

LEMMA MaxIsHighest ==
    ASSUME NEW n \in Nat, NEW T, T \subseteq 1..n, T # {}
    PROVE  Max(T) \in T /\ \A y \in T : y <= Max(T)
<1>1. IsFiniteSet(T)
  <2>1. IsFiniteSet(1..n)
    BY FS_Interval
  <2> QED
    BY <2>1, FS_Subset
<1> DEFINE rank == [y \in T |-> y]
<1>2. rank \in [T -> Nat]
  OBVIOUS
<1>3. PICK x \in T : \A y \in T : rank[y] <= rank[x]
  <2> HIDE DEF rank
  <2> QED
    BY <1>1, <1>2, HasHighest
<1>4. \A y \in T : x >= y
  BY <1>3
<1>5. Max(T) \in T /\ \A y \in T : Max(T) >= y
  BY <1>4 DEF Max
<1> QED
  BY <1>5

LEMMA MinIsLowest ==
    ASSUME NEW n \in Nat, NEW T, T \subseteq 1..n, T # {}
    PROVE  Min(T) \in T /\ \A y \in T : Min(T) <= y
<1>1. IsFiniteSet(T)
  <2>1. IsFiniteSet(1..n)
    BY FS_Interval
  <2> QED
    BY <2>1, FS_Subset
<1> DEFINE rank == [y \in T |-> n - y]
<1>2. rank \in [T -> Nat]
  OBVIOUS
<1>3. PICK x \in T : \A y \in T : rank[y] <= rank[x]
  <2> HIDE DEF rank
  <2> QED
    BY <1>1, <1>2, HasHighest
<1>4. \A y \in T : x =< y
  BY <1>3
<1> QED
  BY <1>4 DEF Min

LEMMA MinOfTwo ==
    ASSUME NEW a \in Nat, NEW b \in Nat
    PROVE  Min({a, b}) = IF a <= b THEN a ELSE b
<1>1. \E x \in {a, b} : \A y \in {a, b} : x =< y
  OBVIOUS
<1>2. Min({a, b}) \in {a, b} /\ \A y \in {a, b} : Min({a, b}) =< y
  BY <1>1 DEF Min
<1> QED
  BY <1>2

(* A part of a block is in the text where the block is.                     *)
LEMMA PartFacts ==
    ASSUME NEW b, b \in Blocks, NEW from \in Nat, NEW to \in Nat, from < to
    PROVE  /\ Part(b, from, to) \in Seq(Int) /\ Len(Part(b, from, to)) = to - from
           /\ \A k \in 1..to - from : Part(b, from, to)[k] = b.start + from + k - 1
<1> DEFINE n == to - from
           q == [i \in 1..n |-> b.start + from + i - 1]
<1>1. n \in Nat /\ b.start \in Nat /\ Part(b, from, to) = q
  BY DEF Blocks, Part
<1>2. q \in [1..n -> Int]
  BY <1>1
<1>3. q \in Seq(Int) /\ Len(q) = n
  BY <1>1, <1>2
<1> QED
  BY <1>1, <1>3

LEMMA GenuinePart ==
    ASSUME NEW b, b \in Blocks, NEW from \in Nat, NEW to \in Nat, from < to,
           to <= Size(b), NEW bs, \E j \in DOMAIN bs : bs[j] = b,
           NEW w, w = [text |-> Part(b, from, to), start |-> b.start + from,
                       end |-> b.start + to]
    PROVE  /\ Genuine(w, bs) /\ Len(w.text) = to - from
           /\ CharsIn(w) = b.start + from..b.start + to - 1
<1> DEFINE text == Part(b, from, to)
<1>1. /\ text \in Seq(Int) /\ Len(text) = to - from /\ DOMAIN text = 1..(to - from)
      /\ \A k \in 1..to - from : text[k] = b.start + from + k - 1
  <2>1. /\ text \in Seq(Int) /\ Len(text) = to - from
        /\ \A k \in 1..to - from : text[k] = b.start + from + k - 1
    <3> HIDE DEF text
    <3> QED
      BY PartFacts DEF text
  <2> HIDE DEF text
  <2>2. DOMAIN text = 1..Len(text)
    BY <2>1, LenProperties
  <2> QED
    BY <2>1, <2>2
<1>2. w.text = text /\ w.start = b.start + from /\ w.end = b.start + to
  OBVIOUS
<1>3. b.start \in Nat /\ b.end \in Nat /\ to <= b.end - b.start
  BY DEF Blocks, Size
<1> HIDE DEF text
<1>4. w \in Pieces
  <2>1. b.start + from \in Nat /\ b.start + to \in Nat
    BY <1>3
  <2>2. w = [text |-> text, start |-> b.start + from, end |-> b.start + to]
    BY DEF text
  <2>3. text \in Seq(Int)
    BY <1>1
  <2> QED
    BY <2>1, <2>2, <2>3 DEF Pieces
<1>5. \A k \in 1..to - from : text[k] # Sep /\ Holds(b, text[k])
  <2> TAKE k \in 1..to - from
  <2>1. PICK m \in Int : m = from + k - 1
    OBVIOUS
  <2>2. 0 <= m /\ m < to /\ text[k] = b.start + m
    BY <1>1, <1>3, <2>1
  <2> QED
    BY <1>3, <2>1, <2>2 DEF Sep, Holds
<1>6. 1 \in 1..to - from /\ Len(text) \in 1..to - from /\ text # <<>>
  BY <1>1
<1>7. CharsInPlace(w)
  BY <1>1, <1>2, <1>3 DEF CharsInPlace
<1>8. w.start + Len(w.text) = w.end
  <2>1. Len(w.text) = to - from
    BY <1>1, <1>2
  <2>2. b.start + from + (to - from) = b.start + to
    BY <1>3
  <2> QED
    BY <1>2, <2>1, <2>2
<1>9. Genuine(w, bs)
  <2>1. w.text # <<>> /\ w.text[1] # Sep /\ w.text[Len(w.text)] # Sep
    BY <1>2, <1>5, <1>6
  <2>2. \A k \in DOMAIN w.text :
            w.text[k] = Sep \/ \E j \in DOMAIN bs : Holds(bs[j], w.text[k])
    BY <1>1, <1>2, <1>5
  <2>3. w.start + Len(w.text) <= w.end
    <3>1. w.end \in Nat
      BY <1>4 DEF Pieces
    <3>2. \A e \in Nat : e <= e
      OBVIOUS
    <3> QED
      BY <3>1, <3>2, <1>8
  <2> QED
    BY <2>1, <2>2, <2>3, <1>4, <1>7, <1>8 DEF Genuine
<1>10. CharsIn(w) = b.start + from..b.start + to - 1
  <2>1. \A k \in 1..to - from : text[k] \in b.start + from..b.start + to - 1
    <3> TAKE k \in 1..to - from
    <3>1. PICK first \in Nat : first = b.start
      BY <1>3
    <3>2. first + from + k - 1 \in first + from..first + to - 1
      OBVIOUS
    <3> QED
      BY <1>1, <3>1, <3>2
  <2>2. ASSUME NEW c \in b.start + from..b.start + to - 1
        PROVE  \E k \in 1..to - from : text[k] = c
    <3>1. PICK k \in 1..to - from : b.start + from + k - 1 = c
      <4>1. c - b.start - from + 1 \in 1..to - from
        BY <1>3
      <4>2. b.start + from + (c - b.start - from + 1) - 1 = c
        BY <1>3
      <4> QED
        BY <4>1, <4>2
    <3>2. text[k] = c
      BY <1>1, <3>1
    <3> QED
      BY <3>2
  <2>3. CharsIn(w) = {text[k] : k \in 1..to - from}
    BY <1>1, <1>2 DEF CharsIn
  <2> QED
    BY <2>1, <2>2, <2>3
<1> QED
  BY <1>1, <1>2, <1>9, <1>10

(* A block is the whole part of itself.                                     *)
LEMMA GenuineWhole ==
    ASSUME NEW b, b \in Blocks, b.start < b.end, NEW bs, \E j \in DOMAIN bs : bs[j] = b
    PROVE  /\ Genuine(Whole(b), bs) /\ Len(Whole(b).text) = Size(b)
           /\ Whole(b).start = b.start /\ Whole(b).end = b.end
           /\ CharsIn(Whole(b)) = Positions(b)
<1> DEFINE w == Whole(b)
<1>1. /\ b.start \in Nat /\ b.end \in Nat /\ Size(b) \in Nat /\ 0 < Size(b)
      /\ Size(b) = b.end - b.start
  BY DEF Blocks, Size
<1>2. b.start + 0 = b.start /\ b.start + Size(b) = b.end
  BY <1>1
<1>3. w = [text |-> Part(b, 0, Size(b)), start |-> b.start + 0, end |-> b.start + Size(b)]
  BY <1>2 DEF Whole
<1>4. PICK from \in Nat : from = 0
  OBVIOUS
<1>5. /\ Genuine(w, bs) /\ Len(w.text) = Size(b) - from
      /\ CharsIn(w) = b.start + from..b.start + Size(b) - 1
  <2> HIDE DEF w
  <2> QED
    BY <1>1, <1>3, <1>4, GenuinePart
<1> QED
  BY <1>1, <1>2, <1>4, <1>5 DEF Positions, Whole

(* What is regular with one more block was so before;                       *)
LEMMA AppendBlock ==
    ASSUME NEW bs, bs \in Seq(Blocks), NEW b, b \in Blocks
    PROVE  /\ Append(bs, b) \in Seq(Blocks) /\ Len(bs) \in Nat
           /\ Len(Append(bs, b)) = Len(bs) + 1 /\ DOMAIN bs = 1..Len(bs)
           /\ DOMAIN Append(bs, b) = 1..Len(bs) + 1
           /\ \A i \in 1..Len(bs) : Append(bs, b)[i] = bs[i]
           /\ Append(bs, b)[Len(bs) + 1] = b
           /\ Append(bs, b) # <<>>
  BY AppendProperties, LenProperties, EmptySeq

LEMMA RegularMore ==
    ASSUME NEW bs, bs \in Seq(Blocks), NEW b, b \in Blocks,
           Regular(Append(bs, b))
    PROVE  /\ Regular(bs)
           /\ bs # <<>> => b.start - bs[Len(bs)].end = 2
           /\ bs = <<>> => b.page = 1
<1> DEFINE new == Append(bs, b)
<1>1. /\ Len(bs) \in Nat /\ Len(new) = Len(bs) + 1 /\ new # <<>>
      /\ \A i \in 1..Len(bs) : new[i] = bs[i]
      /\ new[Len(bs) + 1] = b
  BY AppendBlock
<1>2. new[1].page = 1 /\ \A i \in 2..Len(new) : new[i].start - new[i - 1].end = 2
  BY <1>1 DEF Regular
<1> HIDE DEF new
<1>3. CASE bs = <<>>
  <2>1. Len(bs) = 0 /\ b.page = 1
    BY <1>1, <1>2, <1>3, EmptySeq
  <2> QED
    BY <1>3, <2>1 DEF Regular
<1>4. CASE bs # <<>>
  <2>1. Len(bs) >= 1
    BY <1>4, EmptySeq
  <2>2. new[Len(bs) + 1].start - new[Len(bs) + 1 - 1].end = 2
    BY <1>1, <1>2, <2>1
  <2>3. \A i \in 2..Len(bs) : /\ i \in 2..Len(new) /\ i \in 1..Len(bs)
                              /\ i - 1 \in 1..Len(bs)
    BY <1>1
  <2>4. \A i \in 2..Len(bs) : bs[i].start - bs[i - 1].end = 2
    BY <1>1, <1>2, <2>3
  <2>5. bs[1].page = 1
    BY <1>1, <1>2, <2>1
  <2>6. Len(bs) + 1 - 1 = Len(bs) /\ Len(bs) \in 1..Len(bs)
    BY <1>1, <2>1
  <2>7. b.start - bs[Len(bs)].end = 2
    BY <1>1, <2>2, <2>6
  <2> QED
    BY <2>4, <2>5, <2>7 DEF Regular
<1> QED
  BY <1>3, <1>4

(* and what is genuine or good remains so.                                  *)
LEMMA GenuineMore ==
    ASSUME NEW bs, bs \in Seq(Blocks), NEW b, b \in Blocks, NEW p, Genuine(p, bs)
    PROVE  Genuine(p, Append(bs, b))
<1> DEFINE new == Append(bs, b)
<1>1. \A j \in DOMAIN bs : j \in DOMAIN new /\ new[j] = bs[j]
  BY AppendBlock
<1>2. Regular(new) => Regular(bs)
  BY RegularMore
<1> HIDE DEF new
<1>3. \A k \in DOMAIN p.text :
          p.text[k] = Sep \/ \E j \in DOMAIN new : Holds(new[j], p.text[k])
  BY <1>1 DEF Genuine
<1>4. Genuine(p, new)
  BY <1>2, <1>3 DEF Genuine
<1> QED
  BY <1>4 DEF new

LEMMA GoodMore ==
    ASSUME NEW bs, bs \in Seq(Blocks), NEW b, b \in Blocks, NEW cs, GoodChunks(cs, bs)
    PROVE  GoodChunks(cs, Append(bs, b))
  BY GenuineMore DEF GoodChunks

(* What is kept of a piece is its end, and is in place when the piece is.   *)
LEMMA KeptFacts ==
    ASSUME ChunkAssumption, NEW bs, NEW p, Genuine(p, bs), Kept(p) # Missing
    PROVE  /\ Genuine(Kept(p), bs) /\ Kept(p).end = p.end /\ p.start <= Kept(p).start
           /\ Len(Kept(p).text) \in 1..Overlap
           /\ Kept(p).start + Len(Kept(p).text) = p.end
<1> DEFINE n == Len(p.text)
           T == {i \in DOMAIN p.text : i > n - Overlap /\ p.text[i] # Sep}
           tail == SubSeq(p.text, TailStart(p.text), n)
           m == Len(tail)
<1>1. /\ p \in Pieces /\ p.text \in Seq(Int) /\ p.start \in Nat /\ p.end \in Nat
      /\ n \in Nat /\ n # 0 /\ DOMAIN p.text = 1..n
      /\ p.text[1] # Sep /\ p.text[n] # Sep /\ p.start + n <= p.end
      /\ Overlap \in Nat /\ Overlap # 0
  <2>1. /\ p \in Pieces /\ p.text # <<>> /\ p.text[1] # Sep /\ p.text[n] # Sep
        /\ p.start + n <= p.end
    BY DEF Genuine
  <2>2. p.text \in Seq(Int) /\ p.start \in Nat /\ p.end \in Nat
    BY <2>1 DEF Pieces
  <2>3. n \in Nat /\ n # 0 /\ DOMAIN p.text = 1..n
    BY <2>1, <2>2, EmptySeq, LenProperties
  <2> QED
    BY <2>1, <2>2, <2>3 DEF ChunkAssumption
<1>2. PICK t \in T : t = TailStart(p.text)
  <2>1. n \in T /\ T \subseteq 1..n
    BY <1>1
  <2>2. TailStart(p.text) = Min(T)
    BY DEF TailStart
  <2> HIDE DEF T
  <2>3. Min(T) \in T
    BY <2>1, <1>1, MinIsLowest
  <2> QED
    BY <2>2, <2>3
<1>3. t \in 1..n /\ t > n - Overlap /\ p.text[t] # Sep
  BY <1>1, <1>2
<1>4. /\ tail \in Seq(Int) /\ m = n - t + 1
      /\ \A i \in 1..n - t + 1 : tail[i] = p.text[t + i - 1]
  <2>1. tail = SubSeq(p.text, t, n)
    BY <1>2
  <2>2. \A i \in t..n : p.text[i] \in Int
    BY <1>1, <1>3
  <2>3. t \in Int /\ n \in Int /\ t <= n
    BY <1>1, <1>3
  <2> HIDE DEF tail, n
  <2>4. /\ SubSeq(p.text, t, n) \in Seq(Int)
        /\ Len(SubSeq(p.text, t, n)) = IF t <= n THEN n - t + 1 ELSE 0
        /\ \A i \in 1 .. n - t + 1 : SubSeq(p.text, t, n)[i] = p.text[t + i - 1]
    BY <2>2, <2>3, SubSeqProperties
  <2> QED
    BY <2>1, <2>3, <2>4
<1>5. Kept(p) = [text |-> tail, start |-> p.end - m, end |-> p.end]
  <2>1. p # Missing
    BY <1>1 DEF ChunkAssumption
  <2> QED
    BY <2>1 DEF Kept
<1>6. DOMAIN tail = 1..m
  BY <1>4, LenProperties
<1> HIDE DEF tail
<1>7. /\ m \in 1..n /\ m <= Overlap /\ m = n - t + 1
      /\ t + 1 - 1 = t /\ t + m - 1 = n
  <2> HIDE DEF m, n, T
  <2> QED
    BY <1>1, <1>3, <1>4
<1>8. tail[1] # Sep /\ tail[m] # Sep /\ tail # <<>>
  <2>1. 1 \in 1..n - t + 1 /\ m \in 1..n - t + 1
    BY <1>7
  <2>2. tail[1] = p.text[t] /\ tail[m] = p.text[n]
    BY <1>4, <1>7, <2>1
  <2> QED
    BY <1>1, <1>3, <2>2, <1>7, EmptySeq
<1>9. Kept(p).text = tail /\ Kept(p).start = p.end - m /\ Kept(p).end = p.end
  BY <1>5
<1>10. Kept(p) \in Pieces /\ p.start <= p.end - m /\ p.end - m + m = p.end
  <2>1. p.end - m \in Nat /\ p.start <= p.end - m /\ p.end - m + m = p.end
    <3> HIDE DEF m, n, T
    <3>1. p.start \in Nat /\ p.end \in Nat /\ n \in Nat /\ p.start + n <= p.end
      BY <1>1
    <3>2. m \in Nat /\ m <= n
      BY <1>7, <3>1
    <3>3. PICK from \in Nat, to \in Nat : from = p.start /\ to = p.end
      BY <3>1
    <3>4. to - m \in Nat /\ from <= to - m /\ to - m + m = to
      BY <3>1, <3>2, <3>3
    <3> QED
      BY <3>3, <3>4
  <2> QED
    BY <1>1, <1>4, <1>5, <2>1 DEF Pieces
<1>11. \A k \in 1..m : /\ t + k - 1 \in DOMAIN p.text
                       /\ tail[k] = p.text[t + k - 1]
  <2> HIDE DEF m, n, T
  <2> QED
    BY <1>1, <1>3, <1>4, <1>7
<1>12. \A k \in 1..m : tail[k] = Sep \/ \E j \in DOMAIN bs : Holds(bs[j], tail[k])
  BY <1>11 DEF Genuine
<1>13. ASSUME Regular(bs)
       PROVE  CharsInPlace(Kept(p))
  <2>1. p.start + n = p.end /\ CharsInPlace(p)
    BY <1>13 DEF Genuine
  <2> SUFFICES ASSUME NEW k \in 1..m
               PROVE  tail[k] \in {Sep, p.end - m + k - 1}
    BY <1>6, <1>9 DEF CharsInPlace
  <2>2. tail[k] = p.text[t + k - 1] /\ p.text[t + k - 1] \in {Sep, p.start + (t + k - 1) - 1}
    BY <1>11, <2>1 DEF CharsInPlace
  <2>3. p.start + (t + k - 1) - 1 = p.end - m + k - 1
    <3> HIDE DEF m, n, T
    <3> QED
      BY <1>1, <1>3, <1>7, <2>1
  <2> QED
    BY <2>2, <2>3
<1> DEFINE q == Kept(p)
<1>14. Genuine(q, bs)
  <2>1. q \in Pieces /\ q.text = tail /\ q.start + m = q.end
    BY <1>9, <1>10
  <2>2. Regular(bs) => CharsInPlace(q)
    BY <1>13
  <2> HIDE DEF q
  <2>3. q.start + Len(q.text) = q.end /\ q.end \in Nat
    BY <2>1 DEF Pieces
  <2> HIDE DEF m
  <2>4. q.text[1] # Sep /\ q.text[Len(q.text)] # Sep /\ q.text # <<>>
    BY <1>8, <2>1 DEF m
  <2>5. \A k \in DOMAIN q.text :
            q.text[k] = Sep \/ \E j \in DOMAIN bs : Holds(bs[j], q.text[k])
    BY <1>6, <1>12, <2>1
  <2> QED
    BY <2>1, <2>2, <2>3, <2>4, <2>5 DEF Genuine
<1> QED
  BY <1>7, <1>9, <1>10, <1>14

(* A piece that is joined with the next block holds both.                   *)
LEMMA JoinedText ==
    ASSUME NEW p, p.text \in Seq(Int), NEW b, b \in Blocks, b.start < b.end,
           NEW text, text = Joined(p, b).text
    PROVE  /\ text \in Seq(Int) /\ DOMAIN text = 1..Len(text)
           /\ Len(text) = Len(p.text) + 2 + Size(b)
           /\ \A k \in 1..Len(p.text) : text[k] = p.text[k]
           /\ text[Len(p.text) + 1] = Sep /\ text[Len(p.text) + 2] = Sep
           /\ \A k \in 1..Size(b) : text[Len(p.text) + 2 + k] = b.start + k - 1
<1> DEFINE part == Part(b, 0, Size(b))
           seps == <<Sep, Sep>>
           first == p.text \o seps
<1>1. /\ Len(p.text) \in Nat /\ b.start \in Nat /\ b.end \in Nat
      /\ Size(b) \in Nat /\ 0 < Size(b)
  BY LenProperties DEF Blocks, Size
<1>2. PICK n \in Nat : n = Len(p.text)
  BY <1>1
<1>3. PICK size \in Nat : size = Size(b)
  BY <1>1
<1>4. PICK start \in Nat : start = b.start
  BY <1>1
<1>5. /\ part \in Seq(Int) /\ Len(part) = size
      /\ \A k \in 1..size : part[k] = start + k - 1
  <2>1. PICK from \in Nat : from = 0
    OBVIOUS
  <2>2. /\ Part(b, from, size) \in Seq(Int)
        /\ Len(Part(b, from, size)) = size - from
        /\ \A k \in 1..size - from : Part(b, from, size)[k] = b.start + from + k - 1
    <3>1. from < size
      BY <1>1, <1>3, <2>1
    <3> QED
      BY <3>1, PartFacts
  <2>3. size - from = size /\ start + from = start
    BY <2>1
  <2> QED
    BY <2>1, <2>2, <2>3, <1>3, <1>4
<1>6. seps \in Seq(Int) /\ Len(seps) = 2 /\ seps[1] = Sep /\ seps[2] = Sep
  BY DEF Sep
<1>7. text = first \o part
  BY DEF Joined
<1> HIDE DEF seps, part
<1>8. /\ first \in Seq(Int) /\ Len(first) = n + 2
      /\ \A k \in 1..n + 2 : first[k] = IF k <= n THEN p.text[k] ELSE seps[k - n]
  <2>1. /\ first \in Seq(Int) /\ Len(first) = Len(p.text) + Len(seps)
        /\ \A k \in 1..Len(p.text) + Len(seps) :
             first[k] = IF k <= Len(p.text) THEN p.text[k] ELSE seps[k - Len(p.text)]
    BY <1>6, ConcatProperties
  <2> HIDE DEF first
  <2> QED
    BY <2>1, <1>2, <1>6
<1> HIDE DEF first
<1>9. PICK m \in Nat : m = n + 2
  OBVIOUS
<1>10. /\ text \in Seq(Int) /\ Len(text) = m + size
       /\ \A k \in 1..m + size :
            text[k] = IF k <= m THEN first[k] ELSE part[k - m]
  <2>1. Len(first) = m
    BY <1>8, <1>9
  <2>2. /\ text \in Seq(Int) /\ Len(text) = Len(first) + Len(part)
        /\ \A k \in 1..Len(first) + Len(part) :
             text[k] = IF k <= Len(first) THEN first[k] ELSE part[k - Len(first)]
    <3>1. first \in Seq(Int) /\ part \in Seq(Int)
      BY <1>5, <1>8
    <3> QED
      BY <3>1, <1>7, ConcatProperties
  <2> QED
    BY <1>5, <2>1, <2>2
<1>11. DOMAIN text = 1..Len(text)
  BY <1>10, LenProperties
<1>12. \A k \in 1..n : text[k] = p.text[k]
  <2> TAKE k \in 1..n
  <2>1. k \in 1..m /\ k \in 1..n + 2 /\ k \in 1..m + size /\ k <= m /\ k <= n
    BY <1>9
  <2> QED
    BY <2>1, <1>8, <1>10
<1>13. text[n + 1] = Sep /\ text[n + 2] = Sep
  <2> SUFFICES ASSUME NEW k \in {1, 2}
               PROVE  text[n + k] = Sep
    OBVIOUS
  <2>1. PICK i \in Nat : i = n + k
    OBVIOUS
  <2>2. i \in 1..n + 2 /\ i \in 1..m + size /\ i <= m /\ ~(i <= n) /\ i - n = k
    BY <1>9, <2>1
  <2>3. first[i] = seps[k] /\ text[i] = first[i]
    BY <1>8, <1>10, <2>2
  <2> QED
    BY <1>6, <2>1, <2>3
<1>14. \A k \in 1..size : text[n + 2 + k] = start + k - 1
  <2> TAKE k \in 1..size
  <2>1. PICK i \in Nat : i = n + 2 + k
    OBVIOUS
  <2>2. i \in 1..m + size /\ ~(i <= m) /\ i - m = k
    BY <1>9, <2>1
  <2> QED
    BY <1>5, <1>10, <2>1, <2>2
<1> QED
  BY <1>2, <1>3, <1>4, <1>9, <1>10, <1>11, <1>12, <1>13, <1>14

LEMMA JoinedFacts ==
    ASSUME NEW bs, bs \in Seq(Blocks), bs # <<>>, NEW b, b \in Blocks, b.start < b.end,
           NEW p, Genuine(p, bs), p.end = bs[Len(bs)].end, p.end + 2 <= b.start
    PROVE  /\ Genuine(Joined(p, b), Append(bs, b))
           /\ Joined(p, b).start = p.start /\ Joined(p, b).end = b.end
           /\ Len(Joined(p, b).text) = Len(p.text) + 2 + Size(b)
           /\ CharsIn(p) \subseteq CharsIn(Joined(p, b))
           /\ Positions(b) \subseteq CharsIn(Joined(p, b))
<1> DEFINE q == Joined(p, b)
           text == q.text
           new == Append(bs, b)
<1>0. /\ p \in Pieces /\ p.text \in Seq(Int) /\ p.start \in Nat /\ p.end \in Nat
      /\ Len(p.text) \in Nat /\ Len(p.text) # 0 /\ DOMAIN p.text = 1..Len(p.text)
      /\ p.text[1] # Sep /\ p.start + Len(p.text) <= p.end
      /\ b.start \in Nat /\ b.end \in Nat /\ Size(b) = b.end - b.start
  <2>1. p \in Pieces /\ p.text # <<>> /\ p.text[1] # Sep /\ p.start + Len(p.text) <= p.end
    BY DEF Genuine
  <2>2. p.text \in Seq(Int) /\ p.start \in Nat /\ p.end \in Nat
    BY <2>1 DEF Pieces
  <2> QED
    BY <2>1, <2>2, EmptySeq, LenProperties DEF Blocks, Size
<1>a. PICK n \in Nat : n = Len(p.text)
  BY <1>0
<1>b. PICK first \in Nat : first = p.start
  BY <1>0
<1>c. PICK last \in Nat : last = p.end
  BY <1>0
<1>d. PICK start \in Nat : start = b.start
  BY <1>0
<1>e. PICK end \in Nat : end = b.end
  BY <1>0
<1>3. PICK size \in Nat : size = Size(b) /\ size = end - start /\ 0 < size
  BY <1>0, <1>d, <1>e
<1>1. /\ n # 0 /\ DOMAIN p.text = 1..n /\ p.text[1] # Sep
      /\ first + n <= last /\ last + 2 <= start
  BY <1>0, <1>a, <1>b, <1>c, <1>d
<1>2. /\ text \in Seq(Int) /\ DOMAIN text = 1..n + 2 + size
      /\ Len(text) = n + 2 + size
      /\ \A k \in 1..n : text[k] = p.text[k]
      /\ text[n + 1] = Sep /\ text[n + 2] = Sep
      /\ \A k \in 1..size : text[n + 2 + k] = start + k - 1
  <2>0. text = Joined(p, b).text
    OBVIOUS
  <2> HIDE DEF text
  <2>1. p.text \in Seq(Int)
    BY <1>0
  <2>2. text \in Seq(Int) /\ DOMAIN text = 1..Len(text)
    BY <2>0, <2>1, JoinedText
  <2>3. Len(text) = Len(p.text) + 2 + Size(b)
    BY <2>0, <2>1, JoinedText
  <2>4. \A k \in 1..Len(p.text) : text[k] = p.text[k]
    BY <2>0, <2>1, JoinedText
  <2>5. text[Len(p.text) + 1] = Sep /\ text[Len(p.text) + 2] = Sep
    BY <2>0, <2>1, JoinedText
  <2>6. \A k \in 1..Size(b) : text[Len(p.text) + 2 + k] = b.start + k - 1
    BY <2>0, <2>1, JoinedText
  <2> QED
    BY <2>2, <2>3, <2>4, <2>5, <2>6, <1>a, <1>d, <1>3
<1>4. q.start = first /\ q.end = end
  BY <1>b, <1>e DEF Joined
<1>5. q \in Pieces
  <2>1. q = [text |-> text, start |-> first, end |-> end]
    BY <1>b, <1>e DEF Joined
  <2> HIDE DEF q
  <2> QED
    BY <1>2, <2>1 DEF Pieces
<1>6. /\ \E j \in DOMAIN new : new[j] = b
      /\ \A j \in DOMAIN bs : j \in DOMAIN new /\ new[j] = bs[j]
  <2>1. /\ DOMAIN new = 1..Len(bs) + 1 /\ new[Len(bs) + 1] = b /\ Len(bs) \in Nat
        /\ DOMAIN bs = 1..Len(bs) /\ \A j \in 1..Len(bs) : new[j] = bs[j]
    BY AppendBlock
  <2> HIDE DEF new
  <2>2. Len(bs) + 1 \in DOMAIN new
    BY <2>1
  <2> QED
    BY <2>1, <2>2
<1> HIDE DEF q
<1>7. ASSUME NEW k \in DOMAIN text, ~(k \in 1..n), k # n + 1, k # n + 2
      PROVE  \E i \in 1..size : n + 2 + i = k
  <2>1. k \in 1..n + 2 + size
    BY <1>2, <1>7
  <2>2. PICK i \in Int : i = k - n - 2
    BY <2>1
  <2>3. i \in 1..size /\ n + 2 + i = k
    BY <1>7, <2>1, <2>2
  <2> QED
    BY <2>3
<1>8. \A k \in 1..size : text[n + 2 + k] # Sep /\ Holds(b, text[n + 2 + k])
  <2> TAKE k \in 1..size
  <2>1. text[n + 2 + k] = start + k - 1
    BY <1>2
  <2>2. start <= start + k - 1 /\ start + k - 1 < end
    BY <1>3
  <2> QED
    BY <1>d, <1>e, <2>1, <2>2 DEF Sep, Holds
<1>9. \A k \in DOMAIN text :
          text[k] = Sep \/ \E j \in DOMAIN new : Holds(new[j], text[k])
  <2> HIDE DEF new
  <2> TAKE k \in DOMAIN text
  <2>1. CASE k \in 1..n
    <3>1. text[k] = p.text[k] /\ k \in DOMAIN p.text
      BY <1>1, <1>2, <2>1
    <3>2. p.text[k] = Sep \/ \E j \in DOMAIN bs : Holds(bs[j], p.text[k])
      BY <3>1 DEF Genuine
    <3> QED
      BY <3>1, <3>2, <1>6
  <2>2. CASE k = n + 1 \/ k = n + 2
    BY <1>2, <2>2
  <2>3. CASE ~(k \in 1..n) /\ k # n + 1 /\ k # n + 2
    BY <1>6, <1>7, <1>8, <2>3
  <2> QED
    BY <2>1, <2>2, <2>3
<1>10. text[1] # Sep /\ text[Len(text)] # Sep /\ text # <<>>
  <2>1. text[1] = p.text[1]
    <3>1. 1 \in 1..n
      BY <1>1
    <3> QED
      BY <3>1, <1>2
  <2>2. size \in 1..size
    BY <1>3
  <2>3. text[n + 2 + size] # Sep
    BY <1>8, <2>2
  <2>4. n + 2 + size # 0
    BY <1>1, <1>3
  <2> HIDE DEF text
  <2> QED
    BY <1>1, <1>2, <2>1, <2>3, <2>4, EmptySeq
<1>11. first + (n + 2 + size) <= end
  <2>1. first + n <= last /\ last + 2 <= start
    BY <1>1
  <2>2. start + size = end
    BY <1>3
  <2> QED
    BY <2>1, <2>2
<1>12. ASSUME Regular(new)
       PROVE  first + (n + 2 + size) = end /\ CharsInPlace(q)
  <2>1. Regular(bs) /\ b.start - bs[Len(bs)].end = 2
    BY <1>12, RegularMore
  <2>2. first + n = last /\ CharsInPlace(p) /\ start - last = 2
    BY <2>1, <1>a, <1>b, <1>c, <1>d DEF Genuine
  <2> HIDE DEF new
  <2>3. first + (n + 2 + size) = end
    <3>1. first + n = last /\ start - last = 2
      BY <2>2
    <3>2. start + size = end
      BY <1>3
    <3> QED
      BY <3>1, <3>2
  <2> SUFFICES ASSUME NEW k \in DOMAIN text
               PROVE  text[k] \in {Sep, first + k - 1}
    BY <1>4, <2>3 DEF CharsInPlace
  <2>4. CASE k \in 1..n
    <3>1. text[k] = p.text[k] /\ k \in DOMAIN p.text
      BY <1>1, <1>2, <2>4
    <3> QED
      BY <3>1, <2>2, <1>b DEF CharsInPlace
  <2>5. CASE k = n + 1 \/ k = n + 2
    BY <1>2, <2>5
  <2>6. CASE ~(k \in 1..n) /\ k # n + 1 /\ k # n + 2
    <3>1. PICK i \in 1..size : n + 2 + i = k
      BY <1>7, <2>6
    <3>2. text[k] = start + i - 1
      BY <1>2, <3>1
    <3>3. start + i - 1 = first + k - 1
      BY <1>1, <1>3, <2>2, <3>1
    <3> QED
      BY <3>2, <3>3
  <2> QED
    BY <2>4, <2>5, <2>6
<1>13. Genuine(q, new)
  <2>1. Len(q.text) = n + 2 + size
    BY <1>2
  <2>2. q.start + Len(q.text) <= q.end
    BY <1>4, <1>11, <2>1
  <2>3. Regular(new) => q.start + Len(q.text) = q.end /\ CharsInPlace(q)
    BY <1>4, <1>12, <2>1
  <2> HIDE DEF new
  <2> QED
    BY <1>5, <1>9, <1>10, <2>2, <2>3 DEF Genuine
<1>14. CharsIn(p) \subseteq CharsIn(q)
  <2>1. \A k \in DOMAIN p.text : k \in DOMAIN text /\ text[k] = p.text[k]
    <3> HIDE DEF text
    <3>1. \A k \in 1..n : k \in 1..n + 2 + size
      BY <1>1, <1>3
    <3> QED
      BY <3>1, <1>1, <1>2
  <2> QED
    BY <2>1 DEF CharsIn
<1>15. Positions(b) \subseteq CharsIn(q)
  <2> SUFFICES ASSUME NEW c \in Positions(b) PROVE c \in CharsIn(q)
    OBVIOUS
  <2>1. PICK k \in 1..size : start + k - 1 = c
    <3>1. c \in start..end - 1 /\ size = end - start
      BY <1>3, <1>d, <1>e DEF Positions
    <3>2. PICK i \in Int : i = c - start + 1
      BY <3>1
    <3>3. i \in 1..size /\ start + i - 1 = c
      BY <3>1, <3>2
    <3> QED
      BY <3>3
  <2>2. n + 2 + k \in 1..n + 2 + size
    <3> QED
      BY <1>1, <1>3
  <2>3. n + 2 + k \in DOMAIN text /\ text[n + 2 + k] = c
    BY <1>2, <2>1, <2>2
  <2> QED
    BY <2>3 DEF CharsIn
<1> QED
  BY <1>2, <1>4, <1>13, <1>14, <1>15, <1>a, <1>b, <1>e, <1>3 DEF q

(* What is pushed comes after the chunks it does not begin or end before.   *)
LEMMA PushedFacts ==
    ASSUME ChunkAssumption, NEW bs, NEW cs, cs \in Seq(Pieces), GoodChunks(cs, bs),
           NEW p, Genuine(p, bs), Len(p.text) <= LongestChunk,
           NoneBeyond(cs, p.start, p.start + Len(p.text)),
           NEW all, all = cs \o Pushed(p.text, p.start)
    PROVE  /\ all \in Seq(Pieces) /\ GoodChunks(all, bs)
           /\ NoneBeyond(all, p.start, p.start + Len(p.text))
           /\ InChunks(cs) \subseteq InChunks(all)
           /\ Len(p.text) >= MinChunk => CharsIn(p) \subseteq InChunks(all)
<1> DEFINE c == [text |-> p.text, start |-> p.start, end |-> p.start + Len(p.text)]
<1>1. /\ p \in Pieces /\ p.text \in Seq(Int) /\ p.start \in Nat /\ Len(p.text) \in Nat
      /\ p.start + Len(p.text) \in Nat
  <2>1. p.text \in Seq(Int) /\ p.start \in Nat /\ p \in Pieces
    BY DEF Genuine, Pieces
  <2> QED
    BY <2>1, LenProperties
<1>2. /\ c \in Pieces /\ c.text = p.text /\ c.start = p.start
      /\ c.end = p.start + Len(p.text)
  BY <1>1 DEF Pieces
<1> HIDE DEF c
<1>3. Genuine(c, bs)
  BY <1>1, <1>2 DEF Genuine, CharsInPlace
<1>4. CASE Len(p.text) < MinChunk
  <2>1. all = cs
    BY <1>4, ConcatEmptySeq DEF Pushed
  <2>2. ~(Len(p.text) >= MinChunk)
    BY <1>1, <1>4 DEF ChunkAssumption
  <2> QED
    BY <2>1, <2>2
<1>5. CASE ~(Len(p.text) < MinChunk)
  <2>1. all = cs \o <<c>>
    BY <1>5 DEF Pushed, c
  <2>2. <<c>> \in Seq(Pieces) /\ Len(<<c>>) = 1 /\ <<c>>[1] = c
    BY <1>2
  <2>3. PICK n \in Nat : n = Len(cs)
    BY LenProperties
  <2>4. /\ all \in Seq(Pieces) /\ Len(all) = n + 1
        /\ \A i \in 1..n + 1 : all[i] = IF i <= n THEN cs[i] ELSE <<c>>[i - n]
    <3>1. /\ all \in Seq(Pieces) /\ Len(all) = Len(cs) + Len(<<c>>)
          /\ \A i \in 1..Len(cs) + Len(<<c>>) :
               all[i] = IF i <= Len(cs) THEN cs[i] ELSE <<c>>[i - Len(cs)]
      BY <2>1, <2>2, ConcatProperties
    <3> QED
      BY <3>1, <2>2, <2>3
  <2>5. /\ \A i \in 1..n : all[i] = cs[i]
        /\ all[n + 1] = c
    <3>1. n + 1 \in 1..n + 1 /\ ~(n + 1 <= n) /\ n + 1 - n = 1
      OBVIOUS
    <3>2. \A i \in 1..n : i \in 1..n + 1 /\ i <= n
      OBVIOUS
    <3>3. \A i \in 1..n : all[i] = cs[i]
      BY <3>2, <2>4
    <3>4. all[n + 1] = <<c>>[n + 1 - n]
      BY <3>1, <2>4
    <3> QED
      BY <3>1, <3>3, <3>4, <2>2
  <2>6. DOMAIN all = 1..n + 1 /\ DOMAIN cs = 1..n
    BY <2>3, <2>4, LenProperties
  <2>7. \A i \in 1..n + 1 : i \in 1..n \/ i = n + 1
    OBVIOUS
  <2>8. \A i \in DOMAIN all :
            /\ Genuine(all[i], bs) /\ all[i].end = all[i].start + Len(all[i].text)
            /\ Len(all[i].text) <= LongestChunk
    BY <2>5, <2>6, <2>7, <1>2, <1>3 DEF GoodChunks
  <2>9. Ordered(all)
    <3> SUFFICES ASSUME NEW i \in 2..n + 1
                 PROVE  /\ all[i - 1].start <= all[i].start
                        /\ all[i - 1].end <= all[i].end
      BY <2>4 DEF Ordered
    <3>1. CASE i \in 2..n
      <4>1. i \in 1..n /\ i - 1 \in 1..n /\ i \in 2..Len(cs)
        BY <3>1, <2>3
      <4> QED
        BY <4>1, <2>5 DEF GoodChunks, Ordered
    <3>2. CASE i = n + 1
      <4>1. n \in 1..n /\ i - 1 = n
        <5>1. \A k \in Nat : k + 1 \in 2..k + 1 => k \in 1..k /\ k + 1 - 1 = k
          OBVIOUS
        <5> QED
          BY <3>2, <5>1
      <4>2. all[n] = cs[n] /\ all[n + 1] = c
        BY <4>1, <2>5
      <4>3. cs[n].start <= p.start /\ cs[n].end <= p.start + Len(p.text)
        BY <4>1, <2>6 DEF NoneBeyond
      <4> QED
        BY <4>1, <4>2, <4>3, <3>2, <1>2
    <3>3. i \in 2..n \/ i = n + 1
      OBVIOUS
    <3> QED
      BY <3>1, <3>2, <3>3
  <2>10. NoneBeyond(all, p.start, p.start + Len(p.text))
    <3>1. c.start <= p.start /\ c.end <= p.start + Len(p.text)
      BY <1>1, <1>2
    <3> QED
      BY <2>5, <2>6, <2>7, <3>1 DEF NoneBeyond
  <2>11. \A i \in DOMAIN cs : i \in DOMAIN all /\ all[i] = cs[i]
    BY <2>5, <2>6
  <2>12. InChunks(cs) \subseteq InChunks(all)
    BY <2>11 DEF InChunks
  <2>13. CharsIn(p) \subseteq InChunks(all)
    <3>1. CharsIn(c) = CharsIn(p)
      BY <1>2 DEF CharsIn
    <3>2. n + 1 \in DOMAIN all /\ all[n + 1] = c
      BY <2>5, <2>6
    <3> QED
      BY <3>1, <3>2 DEF InChunks
  <2> QED
    BY <2>4, <2>8, <2>9, <2>10, <2>12, <2>13 DEF GoodChunks
<1> QED
  BY <1>4, <1>5

-----------------------------------------------------------------------------
(* A block that comes next is behind the others, two characters at least,   *)
(* and on their last page or a later one: on the next, if there are two.    *)
LEMMA UpcomingFacts ==
    ASSUME ChunkAssumption, blocks \in Seq(Blocks), BlocksApart(blocks),
           NEW b, b \in Upcoming
    PROVE  /\ b \in Blocks /\ b.start < b.end
           /\ blocks = <<>> => b.start = 0
           /\ blocks # <<>> =>
                /\ LastBlock.end + 2 <= b.start /\ LastBlock.page <= b.page
                /\ b.start - LastBlock.end = 2 => b.page <= LastBlock.page + 1
<1>1. Lengths \subseteq Nat \ {0} /\ Gaps \subseteq Nat \ {0, 1} /\ MaxBlank \in Nat
  BY DEF ChunkAssumption
<1>2. CASE blocks = <<>>
  <2>1. PICK n \in Lengths, k \in 0..MaxBlank : b = [start |-> 0, end |-> n, page |-> k + 1]
    BY <1>2 DEF Upcoming
  <2>2. n \in Nat /\ 0 < n
    BY <1>1
  <2>3. PICK page \in Nat \ {0} : page = k + 1
    BY <1>1
  <2>4. b = [start |-> 0, end |-> n, page |-> page]
    BY <2>1, <2>3
  <2>5. b \in Blocks /\ b.start = 0 /\ b.end = n
    BY <2>2, <2>4 DEF Blocks
  <2> QED
    BY <1>2, <2>2, <2>5
<1>3. CASE blocks # <<>>
  <2>1. PICK last \in Blocks : last = LastBlock
    BY <1>3, EmptySeq, ElementOfSeq DEF LastBlock
  <2>2. last.end \in Nat /\ last.page \in Nat \ {0}
    BY DEF Blocks
  <2>3. CASE \E n \in Lengths, g \in Gaps :
                b = [start |-> last.end + g, end |-> last.end + g + n, page |-> last.page]
    <3>1. PICK n \in Lengths, g \in Gaps :
                b = [start |-> last.end + g, end |-> last.end + g + n, page |-> last.page]
      BY <2>3
    <3>2. b.start = last.end + g /\ b.end = last.end + g + n /\ b.page = last.page
      BY <3>1
    <3>3. b \in Blocks
      BY <1>1, <2>2, <3>1 DEF Blocks
    <3> QED
      BY <1>1, <1>3, <2>1, <2>2, <3>2, <3>3
  <2>4. CASE \E n \in Lengths, k \in 1..MaxBlank + 1 :
                b = [start |-> last.end + 2 * k, end |-> last.end + 2 * k + n,
                     page |-> last.page + k]
    <3>1. PICK n \in Lengths, k \in 1..MaxBlank + 1 :
                b = [start |-> last.end + 2 * k, end |-> last.end + 2 * k + n,
                     page |-> last.page + k]
      BY <2>4
    <3>2. /\ b.start = last.end + 2 * k /\ b.end = last.end + 2 * k + n
          /\ b.page = last.page + k
      BY <3>1
    <3>3. b \in Blocks
      <4>1. n \in Nat /\ k \in Nat
        BY <1>1
      <4>2. \A e, q, m, i \in Nat :
               /\ e + 2 * i \in Nat /\ e + 2 * i + m \in Nat
               /\ q # 0 => q + i \in Nat \ {0}
        OBVIOUS
      <4>3. /\ last.end + 2 * k \in Nat /\ last.end + 2 * k + n \in Nat
            /\ last.page + k \in Nat \ {0}
        BY <2>2, <4>1, <4>2
      <4> QED
        BY <3>1, <4>3 DEF Blocks
    <3>4. last.end + 2 <= b.start /\ (b.start - last.end = 2 => k = 1)
      <4>1. PICK end \in Nat : end = last.end
        BY <2>2
      <4>2. end + 2 <= end + 2 * k /\ (end + 2 * k - end = 2 => k = 1)
        <5>1. k >= 1 /\ k \in Int
          BY <1>1
        <5> QED
          BY <5>1
      <4> QED
        BY <3>2, <4>1, <4>2
    <3>5. b.start < b.end
      BY <1>1, <2>2, <3>2
    <3>6. last.page <= b.page /\ (k = 1 => b.page <= last.page + 1)
      BY <2>2, <3>2
    <3> QED
      BY <1>3, <2>1, <3>3, <3>4, <3>5, <3>6
  <2> QED
    BY <1>3, <2>1, <2>3, <2>4 DEF Upcoming
<1> QED
  BY <1>2, <1>3

LEMMA ApartMore ==
    ASSUME NEW bs, bs \in Seq(Blocks), BlocksApart(bs), NEW b, b \in Blocks, b.start < b.end,
           bs = <<>> => b.start = 0,
           bs # <<>> => /\ bs[Len(bs)].end + 2 <= b.start /\ bs[Len(bs)].page <= b.page
                        /\ b.start - bs[Len(bs)].end = 2 => b.page <= bs[Len(bs)].page + 1
    PROVE  BlocksApart(Append(bs, b))
<1> DEFINE new == Append(bs, b)
<1>1. PICK n \in Nat : n = Len(bs)
  BY AppendBlock
<1>2. /\ DOMAIN bs = 1..n /\ Len(new) = n + 1 /\ DOMAIN new = 1..n + 1
      /\ \A i \in 1..n : new[i] = bs[i]
      /\ new[n + 1] = b
  BY <1>1, AppendBlock
<1> HIDE DEF new
<1>3. /\ \A i \in 1..n : i \in 1..n + 1
      /\ \A i \in 1..n + 1 : i \in 1..n \/ i = n + 1
  OBVIOUS
<1>4. \A i \in 1..n : bs[i] \in Blocks /\ bs[i].start < bs[i].end
  BY <1>1, <1>2, ElementOfSeq DEF BlocksApart
<1>5. /\ b.start \in Nat /\ b.end \in Nat /\ b.page \in Nat
      /\ \A i \in 1..n : /\ bs[i].start \in Nat /\ bs[i].end \in Nat
                         /\ bs[i].page \in Nat
  BY <1>4 DEF Blocks
<1>6. n # 0 => /\ bs # <<>> /\ n \in 1..n /\ bs[n].end + 2 <= b.start /\ bs[n].page <= b.page
               /\ b.start - bs[n].end = 2 => b.page <= bs[n].page + 1
  BY <1>1, EmptySeq
<1>7. n = 0 => bs = <<>>
  BY <1>1, EmptySeq
<1>8. new # <<>> => new[1].start = 0
  <2>1. CASE n = 0
    BY <1>2, <1>7, <2>1
  <2>2. CASE n # 0
    <3>1. 1 \in 1..n /\ bs # <<>>
      BY <1>6, <2>2
    <3> QED
      BY <1>2, <3>1 DEF BlocksApart
  <2> QED
    BY <2>1, <2>2
<1>9. \A i \in DOMAIN new : new[i].start < new[i].end
  BY <1>2, <1>3, <1>4
<1>10. ASSUME NEW i \in 1..n + 1, NEW j \in 1..n + 1, i < j
       PROVE  new[i].end + 2 <= new[j].start /\ new[i].page <= new[j].page
  <2>1. i \in 1..n
    BY <1>10
  <2>2. CASE j \in 1..n
    BY <2>1, <2>2, <1>2, <1>10 DEF BlocksApart
  <2>3. CASE j = n + 1
    <3>1. n # 0 /\ (i = n \/ i < n) /\ n \in 1..n
      BY <2>1
    <3>2. bs[i].end <= bs[n].end /\ bs[i].page <= bs[n].page
      <4>1. CASE i = n
        BY <4>1, <1>5, <2>1
      <4>2. CASE i < n
        <5>1. bs[i].end + 2 <= bs[n].start /\ bs[i].page <= bs[n].page
          BY <4>2, <1>2, <2>1, <3>1 DEF BlocksApart
        <5>2. bs[n].start < bs[n].end
          BY <1>4, <3>1
        <5>3. /\ bs[i].end \in Nat /\ bs[n].start \in Nat /\ bs[n].end \in Nat
          BY <1>5, <2>1, <3>1
        <5> QED
          BY <5>1, <5>2, <5>3
      <4> QED
        BY <3>1, <4>1, <4>2
    <3>3. new[i] = bs[i] /\ new[j] = b
      BY <1>2, <2>1, <2>3
    <3>4. /\ bs[i].end \in Nat /\ bs[n].end \in Nat /\ bs[i].page \in Nat
          /\ bs[n].page \in Nat /\ b.start \in Nat /\ b.page \in Nat
      BY <1>5, <2>1, <3>1
    <3>5. bs[n].end + 2 <= b.start /\ bs[n].page <= b.page
      BY <1>6, <3>1
    <3>6. bs[i].end + 2 <= b.start /\ bs[i].page <= b.page
      <4>1. \A x, y, z \in Nat : x <= y /\ y + 2 <= z => x + 2 <= z
        OBVIOUS
      <4>2. \A x, y, z \in Nat : x <= y /\ y <= z => x <= z
        OBVIOUS
      <4>3. bs[i].end + 2 <= b.start
        BY <3>2, <3>4, <3>5, <4>1
      <4>4. bs[i].page <= b.page
        BY <3>2, <3>4, <3>5, <4>2
      <4> QED
        BY <4>3, <4>4
    <3> QED
      BY <3>3, <3>6
  <2> QED
    BY <1>3, <2>2, <2>3
<1>11. ASSUME NEW i \in 2..n + 1, new[i].start - new[i - 1].end = 2
       PROVE  new[i].page <= new[i - 1].page + 1
  <2>1. CASE i \in 2..n
    <3>1. i \in 1..n /\ i - 1 \in 1..n /\ i \in 2..Len(bs)
      BY <2>1, <1>1
    <3> QED
      BY <3>1, <1>2, <1>11 DEF BlocksApart
  <2>2. CASE i = n + 1
    <3>1. n # 0 /\ i - 1 = n /\ n \in 1..n
      BY <2>2
    <3>2. new[i] = b /\ new[i - 1] = bs[n]
      BY <3>1, <2>2, <1>2
    <3> QED
      BY <3>1, <3>2, <1>6, <1>11
  <2>3. i \in 2..n \/ i = n + 1
    OBVIOUS
  <2> QED
    BY <2>1, <2>2, <2>3
<1>12. BlocksApart(new)
  BY <1>2, <1>8, <1>9, <1>10, <1>11 DEF BlocksApart
<1> QED
  BY <1>12 DEF new

(* What the next block leaves as it was, when it is met.                    *)
LEMMA MeetFacts ==
    ASSUME ChunkAssumption, ChunkInv, NEW b, b \in Upcoming, Meet(b)
    PROVE  /\ b \in Blocks /\ b.start < b.end
           /\ blocks \in Seq(Blocks) /\ blocks' = Append(blocks, b)
           /\ BlocksApart(Append(blocks, b)) /\ GoodChunks(chunks, Append(blocks, b))
           /\ chunks \in Seq(Pieces)
           /\ piece # Missing =>
                /\ piece \in Pieces /\ Genuine(piece, blocks) /\ blocks # <<>>
                /\ Genuine(piece, Append(blocks, b))
                /\ piece.end = blocks[Len(blocks)].end /\ piece.end + 2 <= b.start
                /\ Len(piece.text) <= MaxChars
                /\ NoneBeyond(chunks, piece.start, piece.start + Len(piece.text))
           /\ piece = Missing => NoneBeyond(chunks, b.start, b.start)
           /\ cursor = Missing /\ ~ended' /\ pageStarts' = <<>>
<1>1. /\ blocks \in Seq(Blocks) /\ chunks \in Seq(Pieces) /\ BlocksApart(blocks)
      /\ PieceInv /\ GoodChunks(chunks, blocks) /\ OrderInv /\ PagesInv
      /\ piece \in {Missing} \cup Pieces
  BY DEF ChunkInv, ChunkTypeOK
<1>2. /\ ~ended /\ cursor = Missing /\ blocks' = Append(blocks, b)
      /\ ended' = ended /\ pageStarts' = pageStarts /\ extra' = extra
  BY DEF Meet, pageVars
<1>3. /\ b \in Blocks /\ b.start < b.end
      /\ blocks = <<>> => b.start = 0
      /\ blocks # <<>> =>
           /\ blocks[Len(blocks)].end + 2 <= b.start /\ blocks[Len(blocks)].page <= b.page
           /\ b.start - blocks[Len(blocks)].end = 2 => b.page <= blocks[Len(blocks)].page + 1
  BY <1>1, UpcomingFacts DEF LastBlock
<1>4. BlocksApart(Append(blocks, b))
  BY <1>1, <1>3, ApartMore
<1>5. GoodChunks(chunks, Append(blocks, b))
  BY <1>1, <1>3, GoodMore
<1>6. ASSUME piece # Missing
      PROVE  /\ piece \in Pieces /\ Genuine(piece, blocks) /\ blocks # <<>>
             /\ Genuine(piece, Append(blocks, b))
             /\ piece.end = blocks[Len(blocks)].end /\ piece.end + 2 <= b.start
             /\ Len(piece.text) <= MaxChars
             /\ NoneBeyond(chunks, piece.start, piece.start + Len(piece.text))
  <2>1. /\ Genuine(piece, blocks) /\ blocks # <<>>
        /\ piece.end = blocks[Len(blocks)].end /\ Len(piece.text) <= MaxChars
    BY <1>1, <1>6 DEF PieceInv, LastBlock
  <2>2. Genuine(piece, Append(blocks, b))
    BY <1>1, <1>3, <2>1, GenuineMore
  <2>3. NoneBeyond(chunks, piece.start, piece.start + Len(piece.text))
    BY <1>1, <1>6 DEF OrderInv
  <2> QED
    BY <1>1, <1>3, <1>6, <2>1, <2>2, <2>3
<1>7. ASSUME piece = Missing
      PROVE  NoneBeyond(chunks, b.start, b.start)
  <2> SUFFICES ASSUME NEW i \in DOMAIN chunks
               PROVE  chunks[i].start <= b.start /\ chunks[i].end <= b.start
    BY DEF NoneBeyond
  <2>1. chunks # <<>>
    BY EmptySeq
  <2>2. blocks # <<>> /\ NoneBeyond(chunks, LastBlock.end, LastBlock.end)
    BY <1>1, <1>2, <1>7, <2>1 DEF OrderInv
  <2>3. LastBlock \in Blocks
    BY <1>1, <2>2, EmptySeq, ElementOfSeq DEF LastBlock
  <2>4. chunks[i] \in Pieces
    BY <1>1, ElementOfSeq, LenProperties
  <2>5. /\ chunks[i].start \in Nat /\ chunks[i].end \in Nat /\ LastBlock.end \in Nat
        /\ b.start \in Nat
    BY <1>3, <2>3, <2>4 DEF Pieces, Blocks
  <2>6. chunks[i].start <= LastBlock.end /\ chunks[i].end <= LastBlock.end
    BY <2>2 DEF NoneBeyond
  <2>7. LastBlock.end + 2 <= b.start
    BY <1>3, <2>2 DEF LastBlock
  <2>8. \A x, y, z \in Nat : x <= y /\ y + 2 <= z => x <= z
    OBVIOUS
  <2>9. chunks[i].start <= b.start
    BY <2>5, <2>6, <2>7, <2>8
  <2>10. chunks[i].end <= b.start
    BY <2>5, <2>6, <2>7, <2>8
  <2> QED
    BY <2>9, <2>10
<1>8. pageStarts' = <<>> /\ ~ended'
  BY <1>1, <1>2 DEF PagesInv
<1> QED
  BY <1>1, <1>2, <1>3, <1>4, <1>5, <1>6, <1>7, <1>8

(* What becomes of the chunks and of the piece with the next block.         *)
LEMMA MeetInv ==
    ASSUME ChunkAssumption, ChunkInv, NEW b, b \in Upcoming, Meet(b),
           NEW cs, chunks' = cs, cs \in Seq(Pieces), GoodChunks(cs, Append(blocks, b)),
           NEW p, piece' = p, p \in {Missing} \cup Pieces,
           NEW c, cursor' = c, c \in {Missing, 0},
           p # Missing =>
             /\ c = Missing /\ Genuine(p, Append(blocks, b)) /\ p.end = b.end
             /\ Len(p.text) <= MaxChars /\ NoneBeyond(cs, p.start, p.start + Len(p.text)),
           p = Missing => NoneBeyond(cs, b.end, b.end),
           c = 0 => Size(b) > MaxChars /\ NoneBeyond(cs, b.start, b.start),
           \A x : Safe(x, chunks, piece) => Safe(x, cs, p),
           c = Missing /\ Size(b) >= MinChunk => Safe(b, cs, p)
    PROVE  ChunkInv'
<1>1. /\ b \in Blocks /\ b.start < b.end
      /\ blocks \in Seq(Blocks) /\ blocks' = Append(blocks, b)
      /\ BlocksApart(Append(blocks, b))
      /\ cursor = Missing /\ ~ended' /\ pageStarts' = <<>>
  BY MeetFacts
<1>2. PICK bs \in Seq(Blocks) : bs = blocks'
  BY <1>1, AppendBlock
<1>3. PICK n \in Nat : n = Len(blocks)
  BY <1>1, LenProperties
<1>4. /\ Len(bs) = n + 1 /\ DOMAIN bs = 1..n + 1 /\ bs # <<>> /\ DOMAIN blocks = 1..n
      /\ \A i \in 1..n : bs[i] = blocks[i]
      /\ bs[n + 1] = b
  <2>1. bs = Append(blocks, b)
    BY <1>1, <1>2
  <2> QED
    BY <1>1, <1>3, <2>1, AppendBlock
<1>5. LastBlock' = b
  BY <1>2, <1>4 DEF LastBlock
<1>6. /\ b.start \in Nat /\ b.end \in Nat /\ b.page \in Nat
      /\ Size(b) = b.end - b.start
  BY <1>1 DEF Blocks, Size
<1>7. /\ MaxChars \in Nat /\ Overlap \in Nat /\ Overlap < MaxChars /\ 0 \in Nat
      /\ Missing # 0
  BY DEF ChunkAssumption
<1>8. ChunkTypeOK'
  <2>1. ended' = ended /\ ended \in BOOLEAN
    BY DEF Meet, ChunkInv, ChunkTypeOK
  <2>2. ended' \in BOOLEAN
    BY <2>1
  <2>3. pageStarts' \in Seq(Nat) /\ extra' \in Nat
    BY <1>1, EmptySeq DEF Meet, pageVars, ChunkInv, ChunkTypeOK
  <2> QED
    BY <1>2, <1>7, <2>2, <2>3 DEF ChunkTypeOK
<1>9. BlocksApart(blocks)'
  BY <1>1
<1>10. PieceInv'
  BY <1>1, <1>2, <1>4, <1>5 DEF PieceInv
<1>11. GoodChunks(chunks, blocks)'
  BY <1>1
<1>12. CursorInv'
  <2> SUFFICES ASSUME c # Missing
               PROVE  /\ Size(b) > MaxChars /\ c + Overlap < Size(b)
    BY <1>1, <1>2, <1>4, <1>5 DEF CursorInv
  <2> QED
    BY <1>6, <1>7
<1>13. OrderInv'
  <2>1. p # Missing => NoneBeyond(cs, p.start, p.start + Len(p.text))
    OBVIOUS
  <2>2. c # Missing => NoneBeyond(cs, b.start + c, b.start + c + Overlap)
    <3> SUFFICES ASSUME c # Missing, NEW i \in DOMAIN cs
                 PROVE  cs[i].start <= b.start + c /\ cs[i].end <= b.start + c + Overlap
      BY DEF NoneBeyond
    <3>1. cs[i] \in Pieces
      BY ElementOfSeq, LenProperties
    <3>2. cs[i].start \in Nat /\ cs[i].end \in Nat
      BY <3>1 DEF Pieces
    <3>3. c = 0 /\ cs[i].start <= b.start /\ cs[i].end <= b.start
      BY DEF NoneBeyond
    <3> QED
      BY <3>2, <3>3, <1>6, <1>7
  <2>3. blocks' # <<>>
    BY <1>2, <1>4
  <2> QED
    BY <2>1, <2>2, <2>3, <1>5 DEF OrderInv
<1>14. CoverInv'
  <2>1. ASSUME NEW i \in DOMAIN bs, Size(bs[i]) >= MinChunk, c = Missing \/ i < Len(bs)
        PROVE  Safe(bs[i], cs, p)
    <3>1. CASE i \in 1..n
      <4>1. Safe(blocks[i], chunks, piece)
        BY <1>1, <1>4, <2>1, <3>1 DEF ChunkInv, CoverInv
      <4> QED
        BY <3>1, <4>1, <1>4
    <3>2. CASE i = n + 1
      BY <1>4, <2>1, <3>2
    <3>3. i \in 1..n \/ i = n + 1
      BY <1>4
    <3> QED
      BY <3>1, <3>2, <3>3
  <2>2. c # Missing => \A k \in b.start..b.start + c - 1 : k \in InChunks(cs)
    BY <1>6
  <2>3. \A i \in DOMAIN blocks' :
          Size(blocks'[i]) >= MinChunk /\ (cursor' = Missing \/ i < Len(blocks')) =>
              Safe(blocks'[i], chunks', piece')
    BY <1>2, <2>1
  <2> QED
    BY <1>5, <2>2, <2>3 DEF CoverInv
<1>15. PagesInv'
  <2>1. Len(pageStarts') = 0 /\ DOMAIN pageStarts' = {}
    BY <1>1, EmptySeq
  <2>2. LastPage' \in Nat
    BY <1>2, <1>4, <1>5, <1>6 DEF LastPage
  <2>3. Len(pageStarts') <= LastPage'
    BY <2>1, <2>2
  <2> QED
    BY <1>1, <2>1, <2>3 DEF PagesInv
<1> QED
  BY <1>8, <1>9, <1>10, <1>11, <1>12, <1>13, <1>14, <1>15 DEF ChunkInv

LEMMA FirstBlockInv ==
    ASSUME ChunkAssumption, ChunkInv, NEW b, b \in Upcoming, FirstBlock(b)
    PROVE  ChunkInv'
<1>1. /\ Meet(b) /\ Size(b) <= MaxChars /\ piece = Missing /\ piece' = Whole(b)
      /\ chunks' = chunks /\ cursor' = cursor
  BY DEF FirstBlock
<1>2. /\ b \in Blocks /\ b.start < b.end /\ blocks \in Seq(Blocks)
      /\ GoodChunks(chunks, Append(blocks, b)) /\ chunks \in Seq(Pieces)
      /\ NoneBeyond(chunks, b.start, b.start) /\ cursor = Missing
  BY <1>1, MeetFacts
<1>3. \E j \in DOMAIN Append(blocks, b) : Append(blocks, b)[j] = b
  <2>1. Len(blocks) + 1 \in 1..Len(blocks) + 1
    BY <1>2, AppendBlock
  <2> QED
    BY <1>2, <2>1, AppendBlock
<1> DEFINE p == Whole(b)
<1>4. /\ Genuine(p, Append(blocks, b)) /\ Len(p.text) = Size(b)
      /\ p.start = b.start /\ p.end = b.end /\ CharsIn(p) = Positions(b)
  BY <1>2, <1>3, GenuineWhole
<1> HIDE DEF p
<1>5. /\ p \in Pieces /\ p # Missing
  BY <1>4 DEF Genuine, ChunkAssumption
<1>6. NoneBeyond(chunks, p.start, p.start + Len(p.text))
  <2> SUFFICES ASSUME NEW i \in DOMAIN chunks
               PROVE  /\ chunks[i].start <= b.start
                      /\ chunks[i].end <= b.start + Size(b)
    BY <1>4 DEF NoneBeyond
  <2>1. chunks[i] \in Pieces
    BY <1>2, ElementOfSeq, LenProperties
  <2>2. /\ chunks[i].start \in Nat /\ chunks[i].end \in Nat
        /\ b.start \in Nat /\ b.end \in Nat /\ Size(b) = b.end - b.start
    BY <1>2, <2>1 DEF Pieces, Blocks, Size
  <2>3. chunks[i].start <= b.start /\ chunks[i].end <= b.start
    BY <1>2 DEF NoneBeyond
  <2> QED
    BY <1>2, <2>2, <2>3
<1>7. \A x : Safe(x, chunks, piece) => Safe(x, chunks, p)
  BY <1>1 DEF Safe
<1>8. Size(b) >= MinChunk => Safe(b, chunks, p)
  BY <1>4, <1>5 DEF Safe
<1>9. piece' = p
  BY <1>1 DEF p
<1>10. cursor' = Missing
  BY <1>1, <1>2
<1>11. Missing # 0
  BY DEF ChunkAssumption
<1>12. Len(p.text) <= MaxChars
  BY <1>1, <1>4
<1> QED
  BY <1>1, <1>2, <1>4, <1>5, <1>6, <1>7, <1>8, <1>9, <1>10, <1>11, <1>12, MeetInv

(* No chunk is beyond what is further on.                                   *)
LEMMA NoneFurther ==
    ASSUME NEW cs, cs \in Seq(Pieces), NEW s \in Nat, NEW e \in Nat, NEW from \in Nat,
           NEW to \in Nat, s <= from, e <= to, NoneBeyond(cs, s, e)
    PROVE  NoneBeyond(cs, from, to)
<1> SUFFICES ASSUME NEW i \in DOMAIN cs
             PROVE  cs[i].start <= from /\ cs[i].end <= to
  BY DEF NoneBeyond
<1>1. cs[i] \in Pieces
  BY ElementOfSeq, LenProperties
<1>2. cs[i].start \in Nat /\ cs[i].end \in Nat
  BY <1>1 DEF Pieces
<1>3. cs[i].start <= s /\ cs[i].end <= e
  BY DEF NoneBeyond
<1> QED
  BY <1>2, <1>3

LEMMA GenuineTyped ==
    ASSUME ChunkAssumption, NEW bs, NEW p, Genuine(p, bs)
    PROVE  /\ p \in Pieces /\ p # Missing /\ p.start \in Nat /\ p.end \in Nat
           /\ Len(p.text) \in Nat /\ p.start + Len(p.text) \in Nat
           /\ p.start + Len(p.text) <= p.end
           /\ {MaxChars, Overlap, MinChunk} \subseteq Nat /\ LongestChunk \in Nat
           /\ MinChunk <= Overlap /\ Overlap < MaxChars
           /\ LongestChunk = MaxChars + Overlap + 2
<1>1. /\ p \in Pieces /\ p.start + Len(p.text) <= p.end
      /\ p.text \in Seq(Int) /\ p.start \in Nat /\ p.end \in Nat
  BY DEF Genuine, Pieces
<1>2. Len(p.text) \in Nat /\ p.start + Len(p.text) \in Nat
  BY <1>1, LenProperties
<1>3. /\ {MaxChars, Overlap, MinChunk} \subseteq Nat /\ p # Missing
      /\ MinChunk <= Overlap /\ Overlap < MaxChars
  BY <1>1 DEF ChunkAssumption
<1>4. LongestChunk = MaxChars + Overlap + 2 /\ LongestChunk \in Nat
  BY <1>3 DEF LongestChunk
<1> QED
  BY <1>1, <1>2, <1>3, <1>4

LEMMA JoinBlockInv ==
    ASSUME ChunkAssumption, ChunkInv, NEW b, b \in Upcoming, JoinBlock(b)
    PROVE  ChunkInv'
<1>1. /\ Meet(b) /\ piece # Missing /\ Fits(piece, b) /\ piece' = Joined(piece, b)
      /\ chunks' = chunks /\ cursor' = cursor
  BY DEF JoinBlock
<1>2. /\ b \in Blocks /\ b.start < b.end /\ blocks \in Seq(Blocks) /\ blocks # <<>>
      /\ GoodChunks(chunks, Append(blocks, b)) /\ chunks \in Seq(Pieces)
      /\ Genuine(piece, blocks) /\ cursor = Missing
      /\ piece.end = blocks[Len(blocks)].end /\ piece.end + 2 <= b.start
      /\ NoneBeyond(chunks, piece.start, piece.start + Len(piece.text))
  BY <1>1, MeetFacts
<1> DEFINE p == Joined(piece, b)
<1>3. /\ Genuine(p, Append(blocks, b))
      /\ p.start = piece.start /\ p.end = b.end
      /\ Len(p.text) = Len(piece.text) + 2 + Size(b)
      /\ CharsIn(piece) \subseteq CharsIn(p) /\ Positions(b) \subseteq CharsIn(p)
  BY <1>2, JoinedFacts
<1> HIDE DEF p
<1>4. /\ p \in Pieces /\ p # Missing /\ p.start + Len(p.text) \in Nat
      /\ piece.start \in Nat /\ Len(piece.text) \in Nat /\ Len(p.text) \in Nat
      /\ piece.start + Len(piece.text) \in Nat
      /\ MaxChars \in Nat /\ MinChunk \in Nat
  BY <1>2, <1>3, GenuineTyped
<1>5. Size(b) \in Nat
  <2>1. b \in Blocks /\ b.start < b.end
    BY <1>2
  <2>2. b.start \in Nat /\ b.end \in Nat
    BY <2>1 DEF Blocks
  <2>3. \A x, y \in Nat : x < y => y - x \in Nat
    OBVIOUS
  <2> QED
    BY <2>1, <2>2, <2>3 DEF Size
<1>6. Len(p.text) <= MaxChars
  BY <1>1, <1>3 DEF Fits
<1>7. piece.start + Len(piece.text) <= p.start + Len(p.text)
  <2>1. PICK from \in Nat, len \in Nat, size \in Nat :
            from = piece.start /\ len = Len(piece.text) /\ size = Size(b)
    BY <1>4, <1>5
  <2>2. p.start = from /\ Len(p.text) = len + 2 + size
    BY <1>3, <2>1
  <2>3. from + len <= from + (len + 2 + size)
    OBVIOUS
  <2> QED
    BY <2>1, <2>2, <2>3
<1>8. NoneBeyond(chunks, p.start, p.start + Len(p.text))
  BY <1>2, <1>3, <1>4, <1>7, NoneFurther
<1>9. ASSUME NEW x, Safe(x, chunks, piece)
      PROVE  Safe(x, chunks, p)
  <2>1. Len(piece.text) >= MinChunk => Len(p.text) >= MinChunk
    BY <1>3, <1>4, <1>5
  <2> QED
    BY <1>3, <1>4, <1>9, <2>1 DEF Safe
<1>10. Size(b) >= MinChunk => Safe(b, chunks, p)
  <2>1. Size(b) >= MinChunk => Len(p.text) >= MinChunk
    BY <1>3, <1>4, <1>5
  <2> QED
    BY <1>3, <1>4, <2>1 DEF Safe
<1>11. piece' = p /\ cursor' = Missing
  BY <1>1, <1>2 DEF p
<1>12. Missing # 0
  BY DEF ChunkAssumption
<1> QED
  BY <1>1, <1>2, <1>3, <1>4, <1>6, <1>8, <1>9, <1>10, <1>11, <1>12, MeetInv

(* What a flush pushes, of a piece that is short enough.                    *)
LEMMA FlushedFacts ==
    ASSUME ChunkAssumption, NEW bs, NEW cs, cs \in Seq(Pieces), GoodChunks(cs, bs),
           NEW p, Genuine(p, bs), Len(p.text) <= LongestChunk,
           NoneBeyond(cs, p.start, p.start + Len(p.text)),
           NEW all, all = cs \o Flushed(p)
    PROVE  /\ all \in Seq(Pieces) /\ GoodChunks(all, bs)
           /\ NoneBeyond(all, p.start, p.start + Len(p.text))
           /\ InChunks(cs) \subseteq InChunks(all)
           /\ Len(p.text) >= MinChunk => CharsIn(p) \subseteq InChunks(all)
<1>1. p # Missing
  BY GenuineTyped
<1>2. all = cs \o Pushed(p.text, p.start)
  BY <1>1 DEF Flushed
<1> QED
  BY <1>2, PushedFacts

LEMMA LongBlockInv ==
    ASSUME ChunkAssumption, ChunkInv, NEW b, b \in Upcoming, LongBlock(b)
    PROVE  ChunkInv'
<1>1. /\ Meet(b) /\ Size(b) > MaxChars /\ chunks' = chunks \o Flushed(piece)
      /\ piece' = Missing /\ cursor' = 0
  BY DEF LongBlock
<1>2. /\ b \in Blocks /\ b.start < b.end /\ blocks \in Seq(Blocks)
      /\ GoodChunks(chunks, Append(blocks, b)) /\ chunks \in Seq(Pieces)
      /\ piece # Missing =>
           /\ Genuine(piece, Append(blocks, b)) /\ piece.end + 2 <= b.start
           /\ Len(piece.text) <= MaxChars
           /\ NoneBeyond(chunks, piece.start, piece.start + Len(piece.text))
      /\ piece = Missing => NoneBeyond(chunks, b.start, b.start)
  BY <1>1, MeetFacts
<1>3. b.start \in Nat /\ b.end \in Nat /\ Missing # 0
  BY <1>2 DEF Blocks, ChunkAssumption
<1>4. PICK cs : cs = chunks \o Flushed(piece)
  OBVIOUS
<1>5. /\ cs \in Seq(Pieces) /\ GoodChunks(cs, Append(blocks, b))
      /\ NoneBeyond(cs, b.start, b.start)
      /\ \A x : Safe(x, chunks, piece) => Safe(x, cs, Missing)
  <2>1. CASE piece = Missing
    <3>1. cs = chunks
      BY <1>2, <1>4, <2>1, ConcatEmptySeq DEF Flushed
    <3> QED
      BY <1>2, <2>1, <3>1 DEF Safe
  <2>2. CASE piece # Missing
    <3>1. /\ piece.start \in Nat /\ piece.end \in Nat /\ Len(piece.text) \in Nat
          /\ piece.start + Len(piece.text) \in Nat /\ piece.start + Len(piece.text) <= piece.end
          /\ MaxChars \in Nat /\ Overlap \in Nat /\ LongestChunk = MaxChars + Overlap + 2
      BY <1>2, <2>2, GenuineTyped
    <3>2. Len(piece.text) <= LongestChunk
      BY <1>2, <2>2, <3>1
    <3>3. /\ cs \in Seq(Pieces) /\ GoodChunks(cs, Append(blocks, b))
          /\ NoneBeyond(cs, piece.start, piece.start + Len(piece.text))
          /\ InChunks(chunks) \subseteq InChunks(cs)
          /\ Len(piece.text) >= MinChunk => CharsIn(piece) \subseteq InChunks(cs)
      BY <1>2, <1>4, <2>2, <3>2, FlushedFacts
    <3>4. piece.start <= b.start /\ piece.start + Len(piece.text) <= b.start
      <4>1. piece.end + 2 <= b.start
        BY <1>2, <2>2
      <4> QED
        BY <4>1, <1>3, <3>1
    <3>5. NoneBeyond(cs, b.start, b.start)
      BY <1>3, <3>1, <3>3, <3>4, NoneFurther
    <3> QED
      BY <3>3, <3>5 DEF Safe
  <2> QED
    BY <2>1, <2>2
<1>6. NoneBeyond(cs, b.end, b.end)
  BY <1>2, <1>3, <1>5, NoneFurther
<1>7. PICK p : p = Missing
  OBVIOUS
<1>8. PICK c : c = 0
  OBVIOUS
<1>9. /\ chunks' = cs /\ piece' = p /\ cursor' = c
      /\ p \in {Missing} \cup Pieces /\ c \in {Missing, 0} /\ c # Missing
  BY <1>1, <1>3, <1>4, <1>7, <1>8
<1>10. \A x : Safe(x, chunks, piece) => Safe(x, cs, p)
  BY <1>5, <1>7
<1>11. c = 0 => Size(b) > MaxChars /\ NoneBeyond(cs, b.start, b.start)
  BY <1>1, <1>5
<1>12. p = Missing => NoneBeyond(cs, b.end, b.end)
  BY <1>6
<1>13. cs \in Seq(Pieces) /\ GoodChunks(cs, Append(blocks, b))
  BY <1>5
<1>14. Meet(b)
  BY <1>1
<1> QED
  BY <1>7, <1>9, <1>10, <1>11, <1>12, <1>13, <1>14, MeetInv

(* What follows when a piece is flushed: the tail of it, behind the chunks. *)
LEMMA KeptAfter ==
    ASSUME ChunkAssumption, NEW bs, NEW cs, cs \in Seq(Pieces), GoodChunks(cs, bs),
           NEW p, Genuine(p, bs), Len(p.text) <= LongestChunk,
           NoneBeyond(cs, p.start, p.start + Len(p.text)),
           NEW all, all = cs \o Flushed(p)
    PROVE  /\ Kept(p) # Missing =>
                /\ Genuine(Kept(p), bs) /\ Kept(p).end = p.end /\ Kept(p) \in Pieces
                /\ Len(Kept(p).text) <= MaxChars
                /\ NoneBeyond(all, Kept(p).start, Kept(p).start + Len(Kept(p).text))
           /\ NoneBeyond(all, p.end, p.end)
<1>1. /\ p.start \in Nat /\ p.end \in Nat /\ Len(p.text) \in Nat
      /\ p.start + Len(p.text) \in Nat /\ p.start + Len(p.text) <= p.end
      /\ MaxChars \in Nat /\ Overlap \in Nat /\ Overlap < MaxChars
  BY GenuineTyped
<1>2. all \in Seq(Pieces) /\ NoneBeyond(all, p.start, p.start + Len(p.text))
  BY FlushedFacts
<1>3. ASSUME Kept(p) # Missing
      PROVE  /\ Genuine(Kept(p), bs) /\ Kept(p).end = p.end /\ Kept(p) \in Pieces
             /\ Len(Kept(p).text) <= MaxChars
             /\ NoneBeyond(all, Kept(p).start, Kept(p).start + Len(Kept(p).text))
  <2>1. /\ Genuine(Kept(p), bs) /\ Kept(p).end = p.end /\ p.start <= Kept(p).start
        /\ Len(Kept(p).text) \in 1..Overlap
        /\ Kept(p).start + Len(Kept(p).text) = p.end
    BY <1>3, KeptFacts
  <2>2. Kept(p) \in Pieces /\ Kept(p).start \in Nat
    BY <2>1, GenuineTyped
  <2>3. NoneBeyond(all, Kept(p).start, p.end)
    BY <1>1, <1>2, <2>1, <2>2, NoneFurther
  <2> QED
    BY <1>1, <2>1, <2>2, <2>3
<1>4. NoneBeyond(all, p.end, p.end)
  <2>1. p.start <= p.end
    BY <1>1
  <2> QED
    BY <1>1, <1>2, <2>1, NoneFurther
<1> QED
  BY <1>3, <1>4

LEMMA SplitBeforeInv ==
    ASSUME ChunkAssumption, ChunkInv, NEW b, b \in Upcoming, SplitBefore(b)
    PROVE  ChunkInv'
<1> DEFINE kept == Kept(piece)
           new == IF kept = Missing THEN Whole(b) ELSE Joined(kept, b)
           more == Append(blocks, b)
<1>1. /\ Meet(b) /\ Size(b) <= MaxChars /\ piece # Missing /\ cursor' = cursor
      /\ \/ /\ Len(new.text) > MaxChars
            /\ chunks' = (chunks \o Flushed(piece)) \o Flushed(new) /\ piece' = Kept(new)
         \/ /\ ~(Len(new.text) > MaxChars)
            /\ chunks' = chunks \o Flushed(piece) /\ piece' = new
  BY DEF SplitBefore
<1>2. /\ b \in Blocks /\ b.start < b.end /\ blocks \in Seq(Blocks) /\ blocks # <<>>
      /\ GoodChunks(chunks, more) /\ chunks \in Seq(Pieces)
      /\ Genuine(piece, blocks) /\ Genuine(piece, more) /\ cursor = Missing
      /\ piece.end = blocks[Len(blocks)].end /\ piece.end + 2 <= b.start
      /\ Len(piece.text) <= MaxChars
      /\ NoneBeyond(chunks, piece.start, piece.start + Len(piece.text))
  BY <1>1, MeetFacts
<1>3. /\ piece.start \in Nat /\ piece.end \in Nat /\ Len(piece.text) \in Nat
      /\ piece.start + Len(piece.text) \in Nat /\ piece.start + Len(piece.text) <= piece.end
      /\ MaxChars \in Nat /\ Overlap \in Nat /\ MinChunk \in Nat
      /\ MinChunk <= Overlap /\ Overlap < MaxChars
      /\ LongestChunk = MaxChars + Overlap + 2
  BY <1>2, GenuineTyped
<1>4. /\ b.start \in Nat /\ b.end \in Nat /\ Size(b) \in Nat /\ Size(b) = b.end - b.start
      /\ b.start + Size(b) = b.end
  <2>1. b \in Blocks /\ b.start < b.end
    BY <1>2
  <2>2. b.start \in Nat /\ b.end \in Nat
    BY <2>1 DEF Blocks
  <2>3. \A x, y \in Nat : x < y => y - x \in Nat /\ x + (y - x) = y
    OBVIOUS
  <2> QED
    BY <2>1, <2>2, <2>3 DEF Size
<1>5. PICK cs : cs = chunks \o Flushed(piece)
  OBVIOUS
<1>6. Len(piece.text) <= LongestChunk
  BY <1>2, <1>3
<1>7. /\ cs \in Seq(Pieces) /\ GoodChunks(cs, more)
      /\ NoneBeyond(cs, piece.start, piece.start + Len(piece.text))
      /\ \A x, p : Safe(x, chunks, piece) => Safe(x, cs, p)
  <2>1. /\ cs \in Seq(Pieces) /\ GoodChunks(cs, more)
        /\ NoneBeyond(cs, piece.start, piece.start + Len(piece.text))
        /\ InChunks(chunks) \subseteq InChunks(cs)
        /\ Len(piece.text) >= MinChunk => CharsIn(piece) \subseteq InChunks(cs)
    BY <1>2, <1>5, <1>6, FlushedFacts
  <2> QED
    BY <2>1 DEF Safe
<1> HIDE DEF more
<1>8. /\ Genuine(new, more) /\ new.end = b.end
      /\ Len(new.text) <= LongestChunk /\ Size(b) <= Len(new.text)
      /\ NoneBeyond(cs, new.start, new.start + Len(new.text))
      /\ Positions(b) \subseteq CharsIn(new)
  <2>1. CASE kept = Missing
    <3>1. new = Whole(b)
      BY <2>1
    <3> HIDE DEF new
    <3>2. \E j \in DOMAIN more : more[j] = b
      <4>1. Len(blocks) + 1 \in 1..Len(blocks) + 1
        BY <1>2, AppendBlock
      <4> QED
        BY <1>2, <4>1, AppendBlock DEF more
    <3>3. /\ Genuine(new, more) /\ Len(new.text) = Size(b)
          /\ new.start = b.start /\ new.end = b.end /\ CharsIn(new) = Positions(b)
      BY <1>2, <3>1, <3>2, GenuineWhole
    <3>4. Len(new.text) <= LongestChunk /\ Size(b) <= Len(new.text)
      BY <1>1, <1>3, <1>4, <3>3
    <3>5. piece.start <= b.start /\ piece.start + Len(piece.text) <= b.end
      <4>1. piece.end + 2 <= b.start /\ b.start < b.end
        BY <1>2
      <4>2. PICK from \in Nat, len \in Nat, to \in Nat :
                from = piece.start /\ len = Len(piece.text) /\ to = piece.end
        BY <1>3
      <4>3. PICK start \in Nat, end \in Nat : start = b.start /\ end = b.end
        BY <1>4
      <4>4. from + len <= to /\ to + 2 <= start /\ start < end
        BY <4>1, <4>2, <4>3, <1>3
      <4>5. from <= start /\ from + len <= end
        BY <4>4
      <4> QED
        BY <4>2, <4>3, <4>5
    <3>6. NoneBeyond(cs, b.start, b.end)
      BY <1>3, <1>4, <1>7, <3>5, NoneFurther
    <3> QED
      BY <1>4, <3>3, <3>4, <3>6
  <2>2. CASE kept # Missing
    <3>1. new = Joined(kept, b)
      BY <2>2
    <3>2. /\ Genuine(kept, blocks) /\ kept.end = piece.end /\ piece.start <= kept.start
          /\ Len(kept.text) \in 1..Overlap
          /\ kept.start + Len(kept.text) = piece.end
      BY <1>2, <2>2, KeptFacts
    <3>3. kept.start \in Nat /\ Len(kept.text) \in Nat
      BY <3>2, GenuineTyped
    <3> HIDE DEF new, kept
    <3>4. /\ Genuine(new, more) /\ new.start = kept.start /\ new.end = b.end
          /\ Len(new.text) = Len(kept.text) + 2 + Size(b)
          /\ Positions(b) \subseteq CharsIn(new)
      BY <1>2, <3>1, <3>2, JoinedFacts DEF more
    <3>5. Len(new.text) <= LongestChunk /\ Size(b) <= Len(new.text)
      <4>1. PICK k \in Nat, size \in Nat : k = Len(kept.text) /\ size = Size(b)
        BY <1>4, <3>3
      <4>2. PICK max \in Nat, lap \in Nat : max = MaxChars /\ lap = Overlap
        BY <1>3
      <4>3. k <= lap /\ size <= max
        BY <1>1, <3>2, <4>1, <4>2
      <4>4. Len(new.text) = k + 2 + size /\ LongestChunk = max + lap + 2
        BY <1>3, <3>4, <4>1, <4>2
      <4>5. k + 2 + size <= max + lap + 2 /\ size <= k + 2 + size
        BY <4>3
      <4> QED
        BY <4>1, <4>4, <4>5
    <3>6. /\ piece.start + Len(piece.text) <= new.start + Len(new.text)
          /\ new.start + Len(new.text) \in Nat
      <4>1. new.start + Len(new.text) = kept.start + (Len(kept.text) + 2 + Size(b))
        BY <3>4
      <4>2. kept.start + (Len(kept.text) + 2 + Size(b)) = piece.end + 2 + Size(b)
        BY <1>4, <3>2, <3>3
      <4>3. PICK sum \in Nat : sum = piece.end + 2 + Size(b)
        BY <1>3, <1>4
      <4>4. piece.start + Len(piece.text) <= sum
        BY <4>3, <1>3, <1>4
      <4> QED
        BY <4>1, <4>2, <4>3, <4>4
    <3>7. NoneBeyond(cs, new.start, new.start + Len(new.text))
      BY <1>3, <1>7, <3>2, <3>3, <3>4, <3>6, NoneFurther
    <3> QED
      BY <3>4, <3>5, <3>7
  <2> QED
    BY <2>1, <2>2
<1> HIDE DEF new, kept
<1>9. /\ new \in Pieces /\ new # Missing /\ Len(new.text) \in Nat /\ Missing # 0
      /\ cursor' = Missing
  <2>1. new \in Pieces /\ new # Missing /\ Len(new.text) \in Nat
    BY <1>8, GenuineTyped
  <2> QED
    BY <2>1, <1>1, <1>2 DEF ChunkAssumption
<1>10. CASE Len(new.text) > MaxChars
  <2>1. PICK all : all = cs \o Flushed(new)
    OBVIOUS
  <2>2. PICK p : p = Kept(new)
    OBVIOUS
  <2>3. chunks' = all /\ piece' = p
    BY <1>1, <1>5, <1>10, <2>1, <2>2
  <2>4. /\ all \in Seq(Pieces) /\ GoodChunks(all, more)
        /\ InChunks(cs) \subseteq InChunks(all)
        /\ Len(new.text) >= MinChunk => CharsIn(new) \subseteq InChunks(all)
    BY <1>7, <1>8, <2>1, FlushedFacts
  <2>5. /\ p # Missing =>
             /\ Genuine(p, more) /\ p.end = new.end /\ p \in Pieces
             /\ Len(p.text) <= MaxChars
             /\ NoneBeyond(all, p.start, p.start + Len(p.text))
        /\ NoneBeyond(all, new.end, new.end)
    BY <1>7, <1>8, <2>1, <2>2, KeptAfter
  <2>6. Safe(b, all, p)
    <3>1. Len(new.text) >= MinChunk
      BY <1>3, <1>9, <1>10
    <3> QED
      BY <1>8, <2>4, <3>1 DEF Safe
  <2>7. ASSUME NEW x, Safe(x, chunks, piece)
        PROVE  Safe(x, all, p)
    <3>1. Safe(x, cs, Missing)
      BY <1>7, <2>7
    <3> QED
      BY <2>4, <3>1 DEF Safe
  <2>8. p \in {Missing} \cup Pieces
    BY <2>5
  <2>9. Meet(b)
    BY <1>1
  <2> QED
    BY <1>8, <1>9, <2>3, <2>4, <2>5, <2>6, <2>7, <2>8, <2>9, MeetInv DEF more
<1>11. CASE ~(Len(new.text) > MaxChars)
  <2>1. PICK p : p = new
    OBVIOUS
  <2>2. chunks' = cs /\ piece' = p
    BY <1>1, <1>5, <1>11, <2>1
  <2>3. Len(p.text) <= MaxChars
    BY <1>3, <1>9, <1>11, <2>1
  <2>4. Size(b) >= MinChunk => Safe(b, cs, p)
    <3>1. Size(b) >= MinChunk => Len(new.text) >= MinChunk
      BY <1>3, <1>4, <1>8, <1>9
    <3> QED
      BY <1>8, <1>9, <2>1, <3>1 DEF Safe
  <2>5. \A x : Safe(x, chunks, piece) => Safe(x, cs, p)
    BY <1>7
  <2>6. /\ p \in Pieces /\ p # Missing /\ Genuine(p, more) /\ p.end = b.end
        /\ NoneBeyond(cs, p.start, p.start + Len(p.text))
    BY <1>8, <1>9, <2>1
  <2>7. Meet(b)
    BY <1>1
  <2> QED
    BY <1>7, <1>9, <2>2, <2>3, <2>4, <2>5, <2>6, <2>7, MeetInv DEF more
<1> QED
  BY <1>10, <1>11

-----------------------------------------------------------------------------
(* A window of a long block reaches further than the one before.            *)
LEMMA PushWindowInv ==
    ASSUME ChunkAssumption, ChunkInv, PushWindow
    PROVE  ChunkInv'
<1>1. /\ cursor # Missing /\ blocks' = blocks /\ piece' = piece
      /\ ended' = ended /\ pageStarts' = pageStarts /\ extra' = extra
  BY DEF PushWindow, pageVars
<1>2. /\ blocks \in Seq(Blocks) /\ chunks \in Seq(Pieces) /\ BlocksApart(blocks)
      /\ GoodChunks(chunks, blocks) /\ piece = Missing /\ cursor \in Nat
      /\ ~ended /\ blocks # <<>> /\ Size(LastBlock) > MaxChars
      /\ cursor + Overlap < Size(LastBlock)
      /\ NoneBeyond(chunks, LastBlock.start + cursor, LastBlock.start + cursor + Overlap)
      /\ \A c \in LastBlock.start..LastBlock.start + cursor - 1 : c \in InChunks(chunks)
  BY <1>1 DEF ChunkInv, ChunkTypeOK, PieceInv, CursorInv, OrderInv, CoverInv
<1>3. PICK b \in Blocks : b = LastBlock
  BY <1>2, EmptySeq, ElementOfSeq DEF LastBlock
<1>4. \E j \in DOMAIN blocks : blocks[j] = b
  <2>1. Len(blocks) \in DOMAIN blocks
    BY <1>2, EmptySeq, LenProperties
  <2> QED
    BY <1>3, <2>1 DEF LastBlock
<1>5. /\ b.start \in Nat /\ b.end \in Nat /\ Size(b) = b.end - b.start
      /\ {MaxChars, Overlap, MinChunk} \subseteq Nat \ {0}
      /\ MinChunk <= Overlap /\ Overlap < MaxChars
      /\ LongestChunk = MaxChars + Overlap + 2
  BY DEF Blocks, Size, ChunkAssumption, LongestChunk
<1>6. PICK size \in Nat : size = Size(b)
  <2>1. PICK s \in Int : s = Size(b)
    BY <1>5
  <2>2. s > MaxChars /\ MaxChars \in Nat
    BY <1>2, <1>3, <1>5, <2>1
  <2>3. s \in Nat
    BY <2>2
  <2> QED
    BY <2>1, <2>3
<1>7. PICK start \in Nat : start = b.start
  BY <1>5
<1>8. PICK max \in Nat : max = MaxChars
  BY <1>5
<1>9. PICK lap \in Nat : lap = Overlap
  BY <1>5
<1>10. PICK from \in Nat : from = cursor
  BY <1>2
<1>11. from + lap < size /\ lap < max /\ MinChunk <= lap /\ start + size = b.end
  <2>1. from + lap < size
    BY <1>2, <1>3, <1>6, <1>9, <1>10
  <2>2. lap < max /\ MinChunk <= lap
    BY <1>5, <1>8, <1>9
  <2>3. PICK end \in Nat : end = b.end
    BY <1>5
  <2>4. size = end - start
    BY <1>5, <1>6, <1>7, <2>3
  <2>5. start + size = end
    BY <2>4
  <2> QED
    BY <2>1, <2>2, <2>3, <2>5
<1>12. PICK to \in Nat : to = Min({size, from + max})
  <2>1. from + max \in Nat
    OBVIOUS
  <2> QED
    BY <2>1, MinOfTwo
<1>13. /\ from < to /\ to <= size /\ from + lap <= to /\ to - from <= max
       /\ to - from > lap /\ (to # size => to = from + max /\ to < size)
  <2>1. to = IF size <= from + max THEN size ELSE from + max
    <3>1. PICK end \in Nat : end = from + max
      OBVIOUS
    <3> QED
      BY <1>12, <3>1, MinOfTwo
  <2> QED
    BY <1>11, <2>1
<1>14. PICK w : w = [text |-> Part(b, from, to), start |-> b.start + from,
                     end |-> b.start + to]
  OBVIOUS
<1>15. /\ Genuine(w, blocks) /\ Len(w.text) = to - from
       /\ CharsIn(w) = b.start + from..b.start + to - 1
  <2>1. from < to /\ to <= Size(b)
    BY <1>6, <1>13
  <2> QED
    BY <2>1, <1>4, <1>14, GenuinePart
<1>16. w.start = start + from /\ w.start + Len(w.text) = start + to
  <2>1. w.start = start + from
    BY <1>7, <1>14
  <2>2. start + from + (to - from) = start + to
    OBVIOUS
  <2> QED
    BY <1>15, <2>1, <2>2
<1>17. Len(w.text) <= LongestChunk /\ Len(w.text) >= MinChunk
  <2>1. to - from <= max + lap + 2 /\ to - from >= MinChunk
    BY <1>5, <1>11, <1>13
  <2> QED
    BY <1>5, <1>8, <1>9, <1>15, <2>1
<1>18. NoneBeyond(chunks, w.start, w.start + Len(w.text))
  <2>1. NoneBeyond(chunks, start + from, start + from + lap)
    BY <1>2, <1>3, <1>7, <1>9, <1>10
  <2>2. PICK s \in Nat : s = start + from
    OBVIOUS
  <2>3. PICK e \in Nat : e = start + from + lap
    OBVIOUS
  <2>4. PICK f \in Nat : f = start + to
    OBVIOUS
  <2>5. s <= s /\ e <= f
    BY <1>13, <2>2, <2>3, <2>4
  <2>6. NoneBeyond(chunks, s, e)
    BY <2>1, <2>2, <2>3
  <2>7. NoneBeyond(chunks, s, f)
    BY <1>2, <2>5, <2>6, NoneFurther
  <2> QED
    BY <1>16, <2>2, <2>4, <2>7
<1>19. PICK all : all = chunks \o Pushed(w.text, w.start)
  OBVIOUS
<1>20. /\ all \in Seq(Pieces) /\ GoodChunks(all, blocks)
       /\ NoneBeyond(all, w.start, w.start + Len(w.text))
       /\ InChunks(chunks) \subseteq InChunks(all) /\ CharsIn(w) \subseteq InChunks(all)
  <2>1. chunks \in Seq(Pieces) /\ GoodChunks(chunks, blocks) /\ Genuine(w, blocks)
    BY <1>2, <1>15
  <2>2. Len(w.text) <= LongestChunk
    BY <1>17
  <2>3. /\ all \in Seq(Pieces) /\ GoodChunks(all, blocks)
        /\ NoneBeyond(all, w.start, w.start + Len(w.text))
        /\ InChunks(chunks) \subseteq InChunks(all)
        /\ Len(w.text) >= MinChunk => CharsIn(w) \subseteq InChunks(all)
    <3>1. all = chunks \o Flushed(w)
      BY <2>1, <1>19, GenuineTyped DEF Flushed
    <3> QED
      BY <2>1, <2>2, <1>18, <3>1, FlushedFacts
  <2> QED
    BY <2>3, <1>17
<1>21. chunks' = all /\ cursor' = IF to = size THEN Missing ELSE to - lap
  BY <1>3, <1>6, <1>8, <1>9, <1>10, <1>12, <1>14, <1>19 DEF PushWindow
<1>22. cursor' \in {Missing} \cup Nat
  <2>1. to - lap \in Nat
    BY <1>13
  <2> QED
    BY <1>21, <2>1
<1>23. ChunkTypeOK'
  BY <1>1, <1>2, <1>20, <1>21, <1>22 DEF ChunkInv, ChunkTypeOK
<1>24. LastBlock' = LastBlock /\ LastPage' = LastPage
  BY <1>1 DEF LastBlock, LastPage
<1>25. /\ BlocksApart(blocks)' /\ PieceInv' /\ GoodChunks(chunks, blocks)'
  BY <1>1, <1>2, <1>20, <1>21 DEF PieceInv
<1>26. CursorInv'
  <2> SUFFICES ASSUME cursor' # Missing
               PROVE  cursor' + lap < size
    BY <1>1, <1>2, <1>3, <1>6, <1>9, <1>24 DEF CursorInv
  <2>1. cursor' = to - lap /\ to < size
    BY <1>13, <1>21
  <2>2. to - lap + lap = to
    OBVIOUS
  <2> QED
    BY <2>1, <2>2
<1>27. OrderInv'
  <2>1. NoneBeyond(all, start + from, start + to)
    BY <1>16, <1>20
  <2>2. ASSUME to # size
        PROVE  NoneBeyond(all, start + (to - lap), start + (to - lap) + lap)
    <3>1. PICK next \in Nat : next = start + (to - lap)
      BY <1>13
    <3>2. /\ start + from \in Nat /\ start + to \in Nat /\ next + lap \in Nat
          /\ start + from <= next /\ start + to <= next + lap
      BY <1>11, <1>13, <2>2, <3>1
    <3> QED
      BY <1>20, <2>1, <3>1, <3>2, NoneFurther
  <2>3. ASSUME to = size
        PROVE  NoneBeyond(all, b.end, b.end)
    <3>1. PICK end \in Nat : end = b.end
      BY <1>5
    <3>2. /\ start + from \in Nat /\ start + to \in Nat /\ start + from <= end
          /\ start + to <= end
      BY <1>11, <1>13, <2>3, <3>1
    <3> QED
      BY <1>20, <2>1, <3>1, <3>2, NoneFurther
  <2>4. piece' = Missing
    BY <1>1, <1>2
  <2>5. cursor' # Missing =>
          NoneBeyond(chunks', LastBlock'.start + cursor', LastBlock'.start + cursor' + Overlap)
    BY <1>3, <1>7, <1>9, <1>21, <1>24, <2>2
  <2>6. cursor' = Missing => to = size
    BY <1>13, <1>21 DEF ChunkAssumption
  <2>7. cursor' = Missing => blocks' # <<>> /\ NoneBeyond(chunks', LastBlock'.end, LastBlock'.end)
    BY <1>1, <1>2, <1>3, <1>21, <1>24, <2>3, <2>6
  <2> QED
    BY <2>4, <2>5, <2>7 DEF OrderInv
<1>28. CoverInv'
  <2>1. start + from..start + to - 1 \subseteq InChunks(all)
    BY <1>7, <1>15, <1>20
  <2>2. \A c \in start..start + from - 1 : c \in InChunks(all)
    BY <1>2, <1>3, <1>7, <1>10, <1>20
  <2>3. \A c \in start..start + to - 1 : c \in InChunks(all)
    <3> TAKE c \in start..start + to - 1
    <3>1. c \in start..start + from - 1 \/ c \in start + from..start + to - 1
      BY <1>13
    <3> QED
      BY <2>1, <2>2, <3>1
  <2>4. ASSUME NEW i \in DOMAIN blocks, Size(blocks[i]) >= MinChunk,
               cursor' = Missing \/ i < Len(blocks)
        PROVE  Safe(blocks[i], all, piece)
    <3>1. CASE i < Len(blocks)
      <4>1. Safe(blocks[i], chunks, piece)
        BY <2>4, <3>1 DEF ChunkInv, CoverInv
      <4> QED
        BY <4>1, <1>20 DEF Safe
    <3>2. CASE ~(i < Len(blocks))
      <4>1. i = Len(blocks)
        <5>1. i \in 1..Len(blocks) /\ Len(blocks) \in Nat
          BY <1>2, LenProperties
        <5> QED
          BY <3>2, <5>1
      <4>2. blocks[i] = b /\ to = size
        BY <1>3, <1>21, <1>22, <2>4, <3>2, <4>1, <1>13 DEF LastBlock, ChunkAssumption
      <4>3. Positions(b) \subseteq InChunks(all)
        BY <1>7, <1>11, <2>3, <4>2 DEF Positions
      <4> QED
        BY <4>2, <4>3 DEF Safe
    <3> QED
      BY <3>1, <3>2
  <2>5. ASSUME cursor' # Missing, NEW c \in start..start + cursor' - 1
        PROVE  c \in InChunks(all)
    <3>1. cursor' = to - lap
      BY <1>21, <2>5
    <3>2. c \in start..start + (to - lap) - 1
      BY <2>5, <3>1
    <3>3. c \in start..start + to - 1
      BY <3>2
    <3> QED
      BY <2>3, <3>3
  <2>6. \A i \in DOMAIN blocks' :
            Size(blocks'[i]) >= MinChunk /\ (cursor' = Missing \/ i < Len(blocks')) =>
                Safe(blocks'[i], chunks', piece')
    BY <1>1, <1>21, <2>4
  <2>7. cursor' # Missing =>
            \A c \in LastBlock'.start..LastBlock'.start + cursor' - 1 : c \in InChunks(chunks')
    BY <1>3, <1>7, <1>21, <1>24, <2>5
  <2> QED
    BY <2>6, <2>7 DEF CoverInv
<1>29. PagesInv'
  BY <1>1, <1>24 DEF PagesInv, ChunkInv
<1> QED
  BY <1>23, <1>25, <1>26, <1>27, <1>28, <1>29 DEF ChunkInv

LEMMA EndTextInv ==
    ASSUME ChunkAssumption, ChunkInv, EndText
    PROVE  ChunkInv'
<1>1. /\ ~ended /\ cursor = Missing /\ ended' = TRUE /\ blocks' = blocks
      /\ cursor' = cursor /\ pageStarts' = pageStarts /\ extra' = extra
      /\ chunks' = chunks \o Flushed(piece) /\ piece' = Kept(piece)
  BY DEF EndText, pageVars
<1>2. /\ blocks \in Seq(Blocks) /\ chunks \in Seq(Pieces) /\ BlocksApart(blocks)
      /\ GoodChunks(chunks, blocks) /\ piece \in {Missing} \cup Pieces
      /\ PieceInv /\ OrderInv /\ CoverInv /\ PagesInv /\ pageStarts \in Seq(Nat)
  BY DEF ChunkInv, ChunkTypeOK
<1>3. PICK cs : cs = chunks \o Flushed(piece)
  OBVIOUS
<1>4. PICK p : p = Kept(piece)
  OBVIOUS
<1>5. /\ cs \in Seq(Pieces) /\ GoodChunks(cs, blocks) /\ p \in {Missing} \cup Pieces
      /\ p # Missing =>
           /\ blocks # <<>> /\ p.end = LastBlock.end /\ Genuine(p, blocks)
           /\ Len(p.text) <= MaxChars
           /\ NoneBeyond(cs, p.start, p.start + Len(p.text))
      /\ p = Missing /\ cs # <<>> =>
           blocks # <<>> /\ NoneBeyond(cs, LastBlock.end, LastBlock.end)
      /\ \A x : Safe(x, chunks, piece) => Safe(x, cs, p)
  <2>1. CASE piece = Missing
    <3>1. cs = chunks /\ p = Missing
      BY <1>2, <1>3, <1>4, <2>1, ConcatEmptySeq DEF Flushed, Kept
    <3>2. chunks # <<>> => blocks # <<>> /\ NoneBeyond(chunks, LastBlock.end, LastBlock.end)
      BY <1>1, <1>2, <2>1 DEF OrderInv
    <3> QED
      BY <1>2, <2>1, <3>1, <3>2
  <2>2. CASE piece # Missing
    <3>1. /\ Genuine(piece, blocks) /\ Len(piece.text) <= MaxChars
          /\ blocks # <<>> /\ piece.end = LastBlock.end
          /\ NoneBeyond(chunks, piece.start, piece.start + Len(piece.text))
      BY <1>2, <2>2 DEF PieceInv, OrderInv
    <3>2. Len(piece.text) <= LongestChunk
      <4>1. /\ Len(piece.text) \in Nat /\ {MaxChars, Overlap, MinChunk} \subseteq Nat
            /\ LongestChunk = MaxChars + Overlap + 2
        BY <3>1, GenuineTyped
      <4> QED
        BY <3>1, <4>1
    <3>3. /\ cs \in Seq(Pieces) /\ GoodChunks(cs, blocks)
          /\ NoneBeyond(cs, piece.start, piece.start + Len(piece.text))
          /\ InChunks(chunks) \subseteq InChunks(cs)
          /\ Len(piece.text) >= MinChunk => CharsIn(piece) \subseteq InChunks(cs)
      BY <1>2, <1>3, <3>1, <3>2, FlushedFacts
    <3>4. /\ p # Missing =>
               /\ Genuine(p, blocks) /\ p.end = piece.end /\ p \in Pieces
               /\ Len(p.text) <= MaxChars
               /\ NoneBeyond(cs, p.start, p.start + Len(p.text))
          /\ NoneBeyond(cs, piece.end, piece.end)
      BY <1>2, <1>3, <1>4, <3>1, <3>2, KeptAfter
    <3>5. \A x : Safe(x, chunks, piece) => Safe(x, cs, p)
      BY <3>3 DEF Safe
    <3> QED
      BY <3>1, <3>3, <3>4, <3>5
  <2> QED
    BY <2>1, <2>2
<1>6. chunks' = cs /\ piece' = p
  BY <1>1, <1>3, <1>4
<1>7. LastBlock' = LastBlock /\ LastPage' = LastPage
  BY <1>1 DEF LastBlock, LastPage
<1>8. ChunkTypeOK'
  BY <1>1, <1>2, <1>5, <1>6 DEF ChunkInv, ChunkTypeOK
<1>9. BlocksApart(blocks)' /\ GoodChunks(chunks, blocks)'
  BY <1>1, <1>2, <1>5, <1>6
<1>10. PieceInv'
  BY <1>1, <1>5, <1>6, <1>7 DEF PieceInv
<1>11. CursorInv'
  BY <1>1 DEF CursorInv
<1>12. OrderInv'
  BY <1>1, <1>5, <1>6, <1>7 DEF OrderInv
<1>13. CoverInv'
  <2>1. \A i \in DOMAIN blocks' :
            Size(blocks'[i]) >= MinChunk /\ (cursor' = Missing \/ i < Len(blocks')) =>
                Safe(blocks'[i], chunks', piece')
    BY <1>1, <1>2, <1>5, <1>6 DEF CoverInv
  <2>2. cursor' = Missing
    BY <1>1
  <2> QED
    BY <2>1, <2>2 DEF CoverInv
<1>14. PagesInv'
  BY <1>1, <1>2, <1>7 DEF PagesInv
<1> QED
  BY <1>8, <1>9, <1>10, <1>11, <1>12, <1>13, <1>14 DEF ChunkInv

-----------------------------------------------------------------------------
(* Without blank pages and wide gaps, the first block of the next page is   *)
(* two characters behind the last one of a page.                            *)
FirstOn(i, p, bs) ==
    /\ i \in DOMAIN bs /\ bs[i].page = p
    /\ \A j \in DOMAIN bs : bs[j].page = p => i <= j

LEMMA NextPage ==
    ASSUME ChunkAssumption, blocks \in Seq(Blocks), BlocksApart(blocks), Regular(blocks),
           NEW n \in Nat, n # 0, n < LastPage, NEW i, FirstOn(i, n, blocks)
    PROVE  \E k : /\ FirstOn(k, n + 1, blocks)
                  /\ blocks[k].start = blocks[i].start + PageLength(n) + 2
<1> DEFINE on == {j \in DOMAIN blocks : blocks[j].page = n}
<1>1. PICK len \in Nat : len = Len(blocks) /\ DOMAIN blocks = 1..len
  BY LenProperties
<1>2. i \in on /\ on \subseteq 1..len /\ \A j \in on : i <= j
  BY <1>1 DEF FirstOn
<1>3. /\ \A j \in 1..len : blocks[j] \in Blocks
      /\ \A j \in 1..len : /\ blocks[j].start \in Nat /\ blocks[j].end \in Nat
                           /\ blocks[j].page \in Nat
  <2>1. \A j \in 1..len : blocks[j] \in Blocks
    BY <1>1, ElementOfSeq
  <2> QED
    BY <2>1 DEF Blocks
<1> HIDE DEF on
<1>4. Min(on) = i
  <2>1. Min(on) \in on /\ \A y \in on : Min(on) <= y
    BY <1>2, MinIsLowest
  <2>2. PICK low \in on : low = Min(on)
    BY <2>1
  <2>3. low \in 1..len /\ i \in 1..len
    BY <1>2
  <2>4. low <= i /\ i <= low
    BY <1>2, <2>1, <2>2
  <2>5. low = i
    BY <2>3, <2>4
  <2> QED
    BY <2>2, <2>5
<1>5. PICK m \in on : m = Max(on) /\ \A y \in on : y <= m
  BY <1>2, MaxIsHighest
<1>6. PageLength(n) = blocks[m].end - blocks[i].start
  BY <1>2, <1>4, <1>5 DEF PageLength, on
<1>7. m \in 1..len /\ blocks[m].page = n
  BY <1>2, <1>5, <1>1 DEF on
<1>8. m < len
  <2>1. SUFFICES ASSUME m = len PROVE FALSE
    BY <1>7
  <2>2. blocks # <<>>
    BY <1>1, <1>7, EmptySeq
  <2>3. LastPage = n
    BY <1>1, <1>7, <2>1, <2>2 DEF LastPage, LastBlock
  <2> QED
    BY <2>3
<1>9. PICK k \in 1..len : k = m + 1
  BY <1>7, <1>8
<1>10. m < k /\ m \in DOMAIN blocks /\ k \in DOMAIN blocks /\ k \in 2..Len(blocks) /\ k - 1 = m
  BY <1>1, <1>7, <1>9
<1>11. blocks[k].start - blocks[m].end = 2
  BY <1>10 DEF Regular
<1>12. blocks[k].page = n + 1
  <2>1. blocks[m].page <= blocks[k].page
    BY <1>10 DEF BlocksApart
  <2>2. blocks[k].page <= blocks[m].page + 1
    BY <1>10, <1>11 DEF BlocksApart
  <2>3. blocks[k].page # n
    <3>1. k \notin on
      BY <1>5, <1>9, <1>10, <1>7
    <3> QED
      BY <3>1, <1>10 DEF on
  <2>4. PICK here \in Nat : here = blocks[k].page
    BY <1>3
  <2>5. blocks[m].page = n
    BY <1>7
  <2>6. n <= here /\ here <= n + 1 /\ here # n
    BY <2>1, <2>2, <2>3, <2>4, <2>5
  <2>7. here = n + 1
    BY <2>6
  <2> QED
    BY <2>4, <2>7
<1>13. ASSUME NEW j \in DOMAIN blocks, blocks[j].page = n + 1
       PROVE  k <= j
  <2>1. SUFFICES ASSUME j < k PROVE FALSE
    BY <1>1, <1>9
  <2>2. j = m \/ j < m
    BY <1>1, <1>7, <1>9, <2>1
  <2>3. blocks[j].page <= blocks[m].page
    <3>1. CASE j = m
      BY <3>1, <1>3, <1>7
    <3>2. CASE j < m
      BY <3>2, <1>10 DEF BlocksApart
    <3> QED
      BY <2>2, <3>1, <3>2
  <2> QED
    BY <1>7, <1>13, <2>3
<1>14. blocks[k].start = blocks[i].start + PageLength(n) + 2
  <2>1. i \in 1..len
    BY <1>2
  <2>2. /\ blocks[k].start \in Nat /\ blocks[m].end \in Nat /\ blocks[i].start \in Nat
    BY <1>3, <1>7, <2>1
  <2>3. PICK next \in Nat, end \in Nat, from \in Nat :
            next = blocks[k].start /\ end = blocks[m].end /\ from = blocks[i].start
    BY <2>2
  <2>4. PageLength(n) = end - from /\ next - end = 2
    BY <1>6, <1>11, <2>3
  <2>5. next = from + (end - from) + 2
    BY <2>4
  <2> QED
    BY <2>3, <2>4, <2>5
<1> QED
  BY <1>10, <1>12, <1>13, <1>14 DEF FirstOn

LEMMA StorePageInv ==
    ASSUME ChunkAssumption, ChunkInv, StorePage
    PROVE  ChunkInv'
<1>1. /\ ended /\ Len(pageStarts) < LastPage
      /\ blocks' = blocks /\ piece' = piece /\ cursor' = cursor /\ chunks' = chunks
      /\ ended' = ended
  BY DEF StorePage
<1>2. /\ blocks \in Seq(Blocks) /\ BlocksApart(blocks) /\ pageStarts \in Seq(Nat)
      /\ PagesInv /\ ChunkTypeOK
  BY DEF ChunkInv, ChunkTypeOK
<1>3. PICK n \in Nat : n = Len(pageStarts)
  BY <1>2, LenProperties
<1>17. PICK d \in Nat :
        /\ pageStarts' = Append(pageStarts,
               IF n = 0 THEN 0 ELSE pageStarts[n] + PageLength(n) + d + 2)
        /\ extra' = extra + d
  BY <1>3 DEF StorePage, ChunkAssumption
<1>4. PICK new : new = IF n = 0 THEN 0 ELSE pageStarts[n] + PageLength(n) + d + 2
  OBVIOUS
<1>5. pageStarts' = Append(pageStarts, new)
  BY <1>17, <1>4
<1>15. extra' \in Nat /\ (extra' = 0 => extra = 0 /\ d = 0)
  BY <1>17, <1>2 DEF ChunkTypeOK
<1>6. blocks # <<>> /\ LastPage = LastBlock.page /\ LastPage \in Nat \ {0} /\ n < LastPage
  <2>1. n < LastPage
    BY <1>1, <1>3
  <2>2. blocks # <<>>
    BY <2>1 DEF LastPage
  <2>3. LastBlock \in Blocks
    BY <1>2, <2>2, EmptySeq, ElementOfSeq DEF LastBlock
  <2> QED
    BY <2>1, <2>2, <2>3 DEF LastPage, Blocks
<1>16. PageLength(n) \in Nat
  <2> DEFINE on == {j \in DOMAIN blocks : blocks[j].page = n}
  <2>1. PICK len \in Nat : len = Len(blocks) /\ DOMAIN blocks = 1..len
    BY <1>2, LenProperties
  <2>2. on \subseteq 1..len
    BY <2>1
  <2> HIDE DEF on
  <2>3. CASE on = {}
    BY <2>3 DEF PageLength, on
  <2>4. CASE on # {}
    <3>1. PICK low \in on : low = Min(on) /\ \A y \in on : low <= y
      BY <2>2, <2>4, MinIsLowest
    <3>2. PICK high \in on : high = Max(on) /\ \A y \in on : y <= high
      BY <2>2, <2>4, MaxIsHighest
    <3>3. PageLength(n) = blocks[high].end - blocks[low].start
      BY <2>4, <3>1, <3>2 DEF PageLength, on
    <3>4. low \in 1..len /\ high \in 1..len /\ low <= high
      BY <2>2, <3>1, <3>2
    <3>5. blocks[low] \in Blocks /\ blocks[high] \in Blocks
      BY <1>2, <2>1, <3>4, ElementOfSeq
    <3>6. /\ blocks[low].start \in Nat /\ blocks[high].end \in Nat
          /\ blocks[low].end \in Nat /\ blocks[high].start \in Nat
      BY <3>5 DEF Blocks
    <3>7. blocks[low].start < blocks[low].end /\ blocks[high].start < blocks[high].end
      BY <1>2, <2>1, <3>4 DEF BlocksApart
    <3>8. low < high => blocks[low].end + 2 <= blocks[high].start
      BY <1>2, <2>1, <3>4 DEF BlocksApart
    <3>9. low = high \/ low < high
      BY <3>4
    <3>10. blocks[low].start <= blocks[high].end
      BY <3>6, <3>7, <3>8, <3>9
    <3> QED
      BY <3>3, <3>6, <3>10
  <2> QED
    BY <2>3, <2>4
<1>7. new \in Nat
  <2>1. CASE n = 0
    BY <1>4, <2>1
  <2>2. CASE n # 0
    <3>1. pageStarts[n] \in Nat
      BY <1>2, <1>3, <2>2, ElementOfSeq
    <3> QED
      BY <1>17, <1>4, <1>16, <2>2, <3>1
  <2> QED
    BY <2>1, <2>2
<1>8. /\ Append(pageStarts, new) \in Seq(Nat) /\ Len(Append(pageStarts, new)) = n + 1
      /\ DOMAIN Append(pageStarts, new) = 1..n + 1
      /\ \A p \in 1..n : Append(pageStarts, new)[p] = pageStarts[p]
      /\ Append(pageStarts, new)[n + 1] = new
  <2>1. /\ Append(pageStarts, new) \in Seq(Nat)
        /\ Len(Append(pageStarts, new)) = Len(pageStarts) + 1
        /\ \A p \in 1..Len(pageStarts) : Append(pageStarts, new)[p] = pageStarts[p]
        /\ Append(pageStarts, new)[Len(pageStarts) + 1] = new
    BY <1>2, <1>7, AppendProperties
  <2> QED
    BY <2>1, <1>3, LenProperties
<1>9. PICK starts : starts = Append(pageStarts, new)
  OBVIOUS
<1>10. LastBlock' = LastBlock /\ LastPage' = LastPage
  BY <1>1 DEF LastBlock, LastPage
<1>11. ASSUME Regular(blocks), extra = 0, d = 0, NEW p \in 1..n + 1
       PROVE  \E i \in DOMAIN blocks :
                 /\ blocks[i].page = p /\ blocks[i].start = starts[p]
                 /\ \A j \in DOMAIN blocks : blocks[j].page = p => i <= j
  <2>1. CASE p \in 1..n
    <3>1. p \in DOMAIN pageStarts
      BY <1>2, <1>3, <2>1, LenProperties
    <3>2. starts[p] = pageStarts[p]
      BY <1>8, <1>9, <2>1
    <3> QED
      BY <1>2, <1>11, <3>1, <3>2 DEF PagesInv
  <2>2. CASE p = n + 1 /\ n = 0
    <3>1. /\ 1 \in DOMAIN blocks /\ \A j \in DOMAIN blocks : 1 <= j
      BY <1>2, <1>6, EmptySeq, LenProperties
    <3>2. blocks[1].page = 1 /\ blocks[1].start = 0
      BY <1>2, <1>6, <1>11 DEF Regular, BlocksApart
    <3>3. starts[p] = 0 /\ p = 1
      BY <1>4, <1>8, <1>9, <2>2
    <3> QED
      BY <3>1, <3>2, <3>3
  <2>3. CASE p = n + 1 /\ n # 0
    <3>1. n \in DOMAIN pageStarts
      BY <1>2, <1>3, <2>3, LenProperties
    <3>2. PICK i : FirstOn(i, n, blocks) /\ blocks[i].start = pageStarts[n]
      BY <1>2, <1>11, <3>1 DEF PagesInv, FirstOn
    <3>3. PICK k : /\ FirstOn(k, n + 1, blocks)
                   /\ blocks[k].start = blocks[i].start + PageLength(n) + 2
      BY <1>2, <1>6, <1>11, <2>3, <3>2, NextPage
    <3>4. starts[p] = blocks[k].start
      <4>1. starts[p] = pageStarts[n] + PageLength(n) + 0 + 2
        BY <1>4, <1>8, <1>9, <1>11, <2>3
      <4>2. pageStarts[n] \in Nat
        BY <1>2, <1>3, <2>3, ElementOfSeq
      <4> QED
        BY <1>16, <3>2, <3>3, <4>1, <4>2
    <3> QED
      BY <2>3, <3>3, <3>4 DEF FirstOn
  <2>4. p \in 1..n \/ p = n + 1
    OBVIOUS
  <2> QED
    BY <2>1, <2>2, <2>3, <2>4
<1>12. PagesInv'
  <2>1. Len(starts) <= LastPage
    BY <1>6, <1>8, <1>9
  <2>2. DOMAIN starts = 1..n + 1
    BY <1>8, <1>9
  <2> QED
    BY <1>1, <1>5, <1>9, <1>10, <1>11, <1>15, <2>1, <2>2 DEF PagesInv
<1>13. ChunkTypeOK'
  BY <1>1, <1>2, <1>5, <1>8, <1>15 DEF ChunkTypeOK
<1>14. /\ BlocksApart(blocks)' /\ PieceInv' /\ GoodChunks(chunks, blocks)'
       /\ CursorInv' /\ OrderInv' /\ CoverInv'
  BY <1>1, <1>10 DEF ChunkInv, PieceInv, CursorInv, OrderInv, CoverInv
<1> QED
  BY <1>12, <1>13, <1>14 DEF ChunkInv

-----------------------------------------------------------------------------
LEMMA ChunkInitInv ==
    ASSUME ChunkAssumption, ChunkInit
    PROVE  ChunkInv
<1>1. /\ blocks = <<>> /\ piece = Missing /\ cursor = Missing /\ chunks = <<>>
      /\ ended = FALSE /\ pageStarts = <<>> /\ extra = 0
  BY DEF ChunkInit
<1>2. DOMAIN blocks = {} /\ DOMAIN chunks = {} /\ Len(blocks) = 0 /\ Len(chunks) = 0
      /\ Len(pageStarts) = 0
  BY <1>1, EmptySeq
<1>3. ChunkTypeOK
  BY <1>1, EmptySeq DEF ChunkTypeOK
<1>4. BlocksApart(blocks)
  BY <1>1, <1>2 DEF BlocksApart
<1>5. PieceInv /\ CursorInv
  BY <1>1 DEF PieceInv, CursorInv
<1>6. GoodChunks(chunks, blocks)
  BY <1>2 DEF GoodChunks, Ordered
<1>7. OrderInv /\ CoverInv
  BY <1>1, <1>2 DEF OrderInv, CoverInv
<1>8. PagesInv
  <2>1. DOMAIN pageStarts = {}
    BY <1>1, EmptySeq
  <2>2. LastPage = 0
    BY <1>1 DEF LastPage
  <2> QED
    BY <1>1, <1>2, <2>1, <2>2 DEF PagesInv
<1> QED
  BY <1>3, <1>4, <1>5, <1>6, <1>7, <1>8 DEF ChunkInv

LEMMA ChunkStutter ==
    ASSUME ChunkInv, UNCHANGED chunkVars
    PROVE  ChunkInv'
<1>1. /\ blocks' = blocks /\ piece' = piece /\ cursor' = cursor /\ chunks' = chunks
      /\ ended' = ended /\ pageStarts' = pageStarts /\ extra' = extra
  BY DEF chunkVars, pageVars
<1>2. LastBlock' = LastBlock /\ LastPage' = LastPage
  BY <1>1 DEF LastBlock, LastPage
<1> QED
  BY <1>1, <1>2 DEF ChunkInv, ChunkTypeOK, PieceInv, CursorInv, OrderInv, CoverInv, PagesInv

(* Whatever blocks a text has, and however long its chunks may be, what is  *)
(* put together and pushed comes from them, in their order.                 *)
THEOREM ChunkInvariance == ChunkSpec => []ChunkInv
<1>1. ChunkInit => ChunkInv
  BY ChunkInitInv, ChunkAssumption
<1>2. ChunkInv /\ [ChunkNext]_chunkVars => ChunkInv'
  <2> SUFFICES ASSUME ChunkInv, [ChunkNext]_chunkVars
               PROVE  ChunkInv'
    OBVIOUS
  <2> USE ChunkAssumption
  <2>1. CASE \E b \in Upcoming : LongBlock(b) \/ FirstBlock(b) \/ JoinBlock(b) \/ SplitBefore(b)
    BY <2>1, LongBlockInv, FirstBlockInv, JoinBlockInv, SplitBeforeInv
  <2>2. CASE PushWindow
    BY <2>2, PushWindowInv
  <2>3. CASE EndText
    BY <2>3, EndTextInv
  <2>4. CASE StorePage
    BY <2>4, StorePageInv
  <2>5. CASE UNCHANGED chunkVars
    BY <2>5, ChunkStutter
  <2> QED
    BY <2>1, <2>2, <2>3, <2>4, <2>5 DEF ChunkNext
<1> QED
  BY <1>1, <1>2, PTL DEF ChunkSpec

LEMMA NothingIsLeftOut == ChunkInv => NothingLeftOut
<1> SUFFICES ASSUME ChunkInv, NEW i \in DOMAIN blocks, Size(blocks[i]) >= MinChunk,
                    cursor = Missing \/ i < Len(blocks)
             PROVE  Positions(blocks[i]) \subseteq Read
  BY DEF NothingLeftOut
<1>1. Safe(blocks[i], chunks, piece)
  BY DEF ChunkInv, CoverInv
<1> QED
  BY <1>1 DEF Safe, Read

LEMMA ChunksAreInOrder == ChunkInv => ChunksInOrder
  BY DEF ChunkInv, GoodChunks, ChunksInOrder

(* The page of a position that a block holds is the page of the block.      *)
LEMMA PageOfBlock ==
    ASSUME ChunkInv, Regular(blocks), ended, Len(pageStarts) = LastPage, extra = 0,
           NEW j \in DOMAIN blocks, NEW c \in Int, Holds(blocks[j], c)
    PROVE  PageOf(c) = blocks[j].page
<1>1. /\ blocks \in Seq(Blocks) /\ BlocksApart(blocks) /\ pageStarts \in Seq(Nat)
      /\ PagesInv
  BY DEF ChunkInv, ChunkTypeOK
<1>2. PICK len \in Nat : len = Len(blocks) /\ DOMAIN blocks = 1..len
  BY <1>1, LenProperties
<1>3. PICK n \in Nat : n = Len(pageStarts) /\ DOMAIN pageStarts = 1..n
  BY <1>1, LenProperties
<1>4. \A i \in 1..len : blocks[i] \in Blocks
  BY <1>1, <1>2, ElementOfSeq
<1>5. \A i \in 1..len : /\ blocks[i].start \in Nat /\ blocks[i].end \in Nat
                        /\ blocks[i].page \in Nat \ {0}
  BY <1>4 DEF Blocks
<1>6. PICK page \in Nat \ {0} : page = blocks[j].page
  BY <1>2, <1>5
<1>7. page \in 1..n
  <2>1. blocks # <<>>
    BY <1>2, EmptySeq
  <2>2. n = blocks[len].page /\ len \in 1..len
    BY <2>1, <1>2, <1>3 DEF LastPage, LastBlock
  <2>3. blocks[j].page <= blocks[len].page
    <3>1. CASE j = len
      BY <3>1, <1>5, <2>2
    <3>2. CASE j < len
      BY <3>2, <1>1, <1>2, <2>2 DEF BlocksApart
    <3>3. j = len \/ j < len
      BY <1>2
    <3> QED
      BY <3>1, <3>2, <3>3
  <2> QED
    BY <1>6, <2>2, <2>3
<1>8. \A p \in 1..n : \E i \in 1..len :
          /\ blocks[i].page = p /\ blocks[i].start = pageStarts[p]
          /\ \A k \in 1..len : blocks[k].page = p => i <= k
  BY <1>1, <1>2, <1>3 DEF PagesInv
<1>9. blocks[j].start <= c /\ c < blocks[j].end
  BY DEF Holds
<1> DEFINE before == {p \in DOMAIN pageStarts : pageStarts[p] <= c}
<1>10. page \in before
  <2>1. PICK i \in 1..len : /\ blocks[i].start = pageStarts[page]
                            /\ \A k \in 1..len : blocks[k].page = page => i <= k
    BY <1>7, <1>8
  <2>2. i <= j
    BY <1>2, <1>6, <2>1
  <2>3. blocks[i].start <= blocks[j].start
    <3>1. CASE i = j
      BY <3>1, <1>2, <1>5
    <3>2. CASE i < j
      <4>1. blocks[i].end + 2 <= blocks[j].start /\ blocks[i].start < blocks[i].end
        BY <3>2, <1>1, <1>2 DEF BlocksApart
      <4>2. /\ blocks[i].start \in Nat /\ blocks[i].end \in Nat /\ blocks[j].start \in Nat
        BY <1>2, <1>5
      <4> QED
        BY <4>1, <4>2
    <3>3. i = j \/ i < j
      BY <1>2, <2>2
    <3> QED
      BY <3>1, <3>2, <3>3
  <2>4. blocks[i].start \in Nat /\ blocks[j].start \in Nat
    BY <1>2, <1>5
  <2>5. pageStarts[page] <= c
    BY <1>9, <2>1, <2>3, <2>4
  <2> QED
    BY <1>3, <1>7, <2>5
<1>11. ASSUME NEW p \in before
       PROVE  p <= page
  <2>1. p \in 1..n /\ pageStarts[p] <= c
    BY <1>3
  <2>2. SUFFICES ASSUME page < p PROVE FALSE
    BY <2>1
  <2>3. PICK i \in 1..len : blocks[i].page = p /\ blocks[i].start = pageStarts[p]
    BY <1>8, <2>1
  <2>4. j < i
    <3>1. SUFFICES ASSUME i <= j PROVE FALSE
      BY <1>2
    <3>2. CASE i = j
      BY <3>2, <1>6, <2>2, <2>3, <2>1
    <3>3. CASE i < j
      <4>1. blocks[i].page <= blocks[j].page
        BY <3>3, <1>1, <1>2 DEF BlocksApart
      <4> QED
        BY <4>1, <1>6, <2>1, <2>2, <2>3
    <3>4. i = j \/ i < j
      BY <1>2, <3>1
    <3> QED
      BY <3>2, <3>3, <3>4
  <2>5. blocks[j].end + 2 <= blocks[i].start
    BY <1>1, <1>2, <2>4 DEF BlocksApart
  <2>6. blocks[j].end \in Nat /\ blocks[i].start \in Nat
    BY <1>2, <1>5
  <2> QED
    BY <1>9, <2>1, <2>3, <2>5, <2>6
<1>12. before \subseteq 1..n
  BY <1>3
<1>13. PageOf(c) = Max(before)
  BY DEF PageOf
<1> HIDE DEF before
<1>14. Max(before) \in before /\ \A y \in before : y <= Max(before)
  BY <1>10, <1>12, MaxIsHighest
<1>15. PICK top \in 1..n : top = Max(before)
  BY <1>12, <1>14
<1>16. page <= top /\ top <= page
  BY <1>10, <1>11, <1>14, <1>15
<1> QED
  BY <1>6, <1>13, <1>15, <1>16

LEMMA ChunksAreInPlace == ChunkInv => EvidenceIsInPlace
<1> SUFFICES ASSUME ChunkInv, Regular(blocks), NEW i \in DOMAIN chunks,
                    NEW c, c = chunks[i]
             PROVE  /\ CharsInPlace(c)
                    /\ ended /\ Len(pageStarts) = LastPage /\ extra = 0 =>
                         \E j, k \in DOMAIN blocks :
                            /\ Holds(blocks[j], c.text[1]) /\ PageOf(c.start) = blocks[j].page
                            /\ Holds(blocks[k], c.text[Len(c.text)])
                            /\ PageOf(c.end - 1) = blocks[k].page
  BY DEF EvidenceIsInPlace
<1>1. Genuine(c, blocks) /\ c.end = c.start + Len(c.text)
  BY DEF ChunkInv, GoodChunks
<1>2. /\ c \in Pieces /\ c.text # <<>> /\ c.text[1] # Sep /\ c.text[Len(c.text)] # Sep
      /\ \A k \in DOMAIN c.text :
           c.text[k] = Sep \/ \E j \in DOMAIN blocks : Holds(blocks[j], c.text[k])
      /\ CharsInPlace(c)
  BY <1>1 DEF Genuine
<1>3. c.text \in Seq(Int) /\ c.start \in Nat
  BY <1>2 DEF Pieces
<1>4. PICK n \in Nat \ {0} : n = Len(c.text) /\ DOMAIN c.text = 1..n
  BY <1>2, <1>3, EmptySeq, LenProperties
<1>5. 1 \in 1..n /\ n \in 1..n
  OBVIOUS
<1>6. c.text[1] = c.start + 1 - 1 /\ c.text[n] = c.start + n - 1
  BY <1>2, <1>4, <1>5 DEF CharsInPlace
<1>7. PICK j \in DOMAIN blocks : Holds(blocks[j], c.text[1])
  BY <1>2, <1>4, <1>5
<1>8. PICK k \in DOMAIN blocks : Holds(blocks[k], c.text[n])
  BY <1>2, <1>4, <1>5
<1>9. c.text[1] = c.start /\ c.text[n] = c.end - 1 /\ c.text[1] \in Int /\ c.text[n] \in Int
  BY <1>1, <1>3, <1>4, <1>6
<1>10. ASSUME ended, Len(pageStarts) = LastPage, extra = 0
       PROVE  PageOf(c.start) = blocks[j].page /\ PageOf(c.end - 1) = blocks[k].page
  <2>1. PageOf(c.text[1]) = blocks[j].page
    BY <1>7, <1>9, <1>10, PageOfBlock
  <2>2. PageOf(c.text[n]) = blocks[k].page
    BY <1>8, <1>9, <1>10, PageOfBlock
  <2> QED
    BY <1>9, <2>1, <2>2
<1> QED
  BY <1>2, <1>4, <1>7, <1>8, <1>10

-----------------------------------------------------------------------------
(* So nothing of a text is lost, whatever is cut, packed, split or joined,   *)
(* and what is said of it can be found there.                                *)
THEOREM TextsAreCovered == MapSpec /\ ChunkSpec => []TextIsCovered
<1>1. MapInv /\ ChunkInv => TextIsCovered
  BY MapIsComplete, NothingIsLeftOut, ChunksAreInOrder, ChunksAreInPlace
     DEF TextIsCovered
<1> QED
  BY <1>1, MapInvariance, ChunkInvariance, PTL
=============================================================================
