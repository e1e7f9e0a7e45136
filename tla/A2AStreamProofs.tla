---------------------------- MODULE A2AStreamProofs ----------------------------
(* What RunAgent makes of a stream is what A2AStream says of the whole stream,  *)
(* for any texts, payloads and streams.  The reference is recursive (FlattenSeq) *)
(* and takes maxima, so the first two parts are induction over the naturals, in  *)
(* terms of sets, and what FlattenSeq does with one more element.                *)
EXTENDS A2AStream, A2ARunnerProofs, WellFoundedInduction
--------------------------------------------------------------------------------
(* Sets of naturals. *)

(* A set of naturals that is not empty has a least element. *)
LEMMA LeastNatural ==
    ASSUME NEW S \in SUBSET Nat, S # {}
    PROVE  \E m \in S : \A n \in S : m <= n
<1> DEFINE R == {p \in Nat \X Nat : p[1] < p[2]}
<1>1. IsWellFoundedOn(R, Nat)
  BY NatLessThanWellFounded DEF OpToRel
<1>2. \E m \in S : \A n \in S : ~(<<n, m>> \in R)
  <2> HIDE DEF R
  <2> QED
    BY <1>1, WFMin
<1>3. PICK m \in S : \A n \in S : ~(<<n, m>> \in R)
  BY <1>2
<1>4. \A n \in S : ~(n < m)
  BY <1>3
<1> QED
  BY <1>3, <1>4

(* Induction over the naturals, for a set. *)
LEMMA SetInduction ==
    ASSUME NEW S \in SUBSET Nat, 0 \in S, \A n \in S : n + 1 \in S
    PROVE  S = Nat
<1> SUFFICES ASSUME S # Nat PROVE FALSE
  OBVIOUS
<1>1. Nat \ S \in SUBSET Nat /\ Nat \ S # {}
  OBVIOUS
<1>2. PICK m \in Nat \ S : \A n \in Nat \ S : m <= n
  BY <1>1, LeastNatural
<1>3. m # 0 /\ m \in Nat
  OBVIOUS
<1>4. m - 1 \in Nat /\ ~(m <= m - 1)
  BY <1>3
<1>5. m - 1 \in S
  BY <1>2, <1>4
<1> QED
  BY <1>3, <1>4, <1>5

(* A set of naturals with a bound has a greatest element, and that is its Max. *)
LEMMA GreatestNatural ==
    ASSUME NEW S \in SUBSET Nat, S # {}, NEW b \in Nat, \A n \in S : n <= b
    PROVE  Max(S) \in S /\ \A n \in S : n <= Max(S)
<1> DEFINE D == {d \in Nat : b - d \in S}
<1>1. \A n \in S : b - n \in Nat /\ b - (b - n) = n
  OBVIOUS
<1>2. \A n \in S : b - n \in D
  BY <1>1
<1>3. PICK d \in D : \A e \in D : d <= e
  <2>1. D \in SUBSET Nat /\ D # {}
    BY <1>2
  <2> HIDE DEF D
  <2> QED
    BY <2>1, LeastNatural
<1>4. PICK m \in S : m = b - d
  OBVIOUS
<1>5. ASSUME NEW n \in S PROVE m >= n
  <2>1. d <= b - n /\ d \in Nat /\ n \in Nat
    BY <1>2, <1>3
  <2> HIDE DEF D
  <2> QED
    BY <1>4, <2>1
<1>6. Max(S) \in S /\ \A n \in S : Max(S) >= n
  BY <1>5 DEF Max
<1>7. \A n \in S : n \in Nat
  OBVIOUS
<1> QED
  BY <1>6, <1>7

(* A known greatest element is the Max. *)
LEMMA MaxIs ==
    ASSUME NEW S \in SUBSET Nat, NEW m \in S, \A n \in S : n <= m
    PROVE  Max(S) = m
<1>1. Max(S) \in S /\ \A n \in S : Max(S) >= n
  BY DEF Max
<1>2. PICK x \in Nat : x = Max(S)
  BY <1>1
<1>3. x <= m /\ m <= x /\ m \in Nat
  BY <1>1, <1>2
<1>4. x = m
  BY <1>3
<1> QED
  BY <1>2, <1>4
--------------------------------------------------------------------------------
(* FlattenSeq. *)

(* The function g joins the first n elements of s one after the other. *)
Joins(g, s, n) ==
    \A i \in 1..n : g[i] = IF i = 1 THEN s[i] ELSE g[i - 1] \o s[i]

(* There is such a function. *)
LEMMA JoinExists ==
    ASSUME NEW T, NEW s \in Seq(Seq(T))
    PROVE  \E g \in [1..Len(s) -> Seq(T)] : Joins(g, s, Len(s))
<1> DEFINE S == {n \in Nat : n <= Len(s) => \E g \in [1..n -> Seq(T)] : Joins(g, s, n)}
<1>0. Len(s) \in Nat /\ \A i \in 1..Len(s) : s[i] \in Seq(T)
  BY LenProperties, ElementOfSeq
<1>1. 0 \in S
  <2>1. [i \in 1..0 |-> <<>>] \in [1..0 -> Seq(T)] /\ Joins([i \in 1..0 |-> <<>>], s, 0)
    BY DEF Joins
  <2> QED
    BY <2>1
<1>2. ASSUME NEW n \in S PROVE n + 1 \in S
  <2> SUFFICES ASSUME n + 1 <= Len(s)
               PROVE  \E g \in [1..(n + 1) -> Seq(T)] : Joins(g, s, n + 1)
    OBVIOUS
  <2>1. n \in Nat /\ n <= Len(s)
    BY <1>0
  <2>2. PICK g \in [1..n -> Seq(T)] : Joins(g, s, n)
    BY <2>1
  <2> DEFINE last == IF n = 0 THEN s[1] ELSE g[n] \o s[n + 1]
             h == [i \in 1..(n + 1) |-> IF i = n + 1 THEN last ELSE g[i]]
  <2>3. last \in Seq(T)
    <3>1. s[n + 1] \in Seq(T)
      BY <1>0, <2>1
    <3> QED
      BY <2>1, <2>2, <3>1, ConcatProperties
  <2>4. h \in [1..(n + 1) -> Seq(T)]
    BY <2>1, <2>3
  <2>5. ASSUME NEW i \in 1..(n + 1)
        PROVE  h[i] = IF i = 1 THEN s[i] ELSE h[i - 1] \o s[i]
    <3>1. CASE i = n + 1 /\ n = 0
      BY <2>1, <3>1
    <3>2. CASE i = n + 1 /\ n # 0
      <4>1. i - 1 \in 1..(n + 1) /\ i - 1 = n /\ i # 1 /\ n # n + 1
        BY <2>1, <3>2
      <4>2. h[i - 1] = g[n] /\ h[i] = g[n] \o s[n + 1]
        BY <3>2, <4>1
      <4> QED
        BY <3>2, <4>1, <4>2
    <3>3. CASE i # n + 1
      <4>1. i \in 1..n /\ h[i] = g[i]
        BY <2>1, <3>3
      <4>2. g[i] = IF i = 1 THEN s[i] ELSE g[i - 1] \o s[i]
        BY <2>2, <4>1 DEF Joins
      <4>3. i # 1 => i - 1 \in 1..(n + 1) /\ i - 1 # n + 1
        BY <2>1, <4>1
      <4>4. i # 1 => h[i - 1] = g[i - 1]
        BY <4>3
      <4> QED
        BY <4>1, <4>2, <4>4
    <3> QED
      BY <3>1, <3>2, <3>3
  <2> HIDE DEF h
  <2>6. Joins(h, s, n + 1)
    BY <2>5 DEF Joins
  <2> QED
    BY <2>4, <2>6
<1>3. S = Nat
  <2>1. S \in SUBSET Nat
    OBVIOUS
  <2> HIDE DEF S
  <2> QED
    BY <1>1, <1>2, <2>1, SetInduction
<1> QED
  BY <1>0, <1>3

(* There is only one. *)
LEMMA JoinUnique ==
    ASSUME NEW s, NEW n \in Nat, NEW g, NEW h, Joins(g, s, n), Joins(h, s, n)
    PROVE  \A i \in 1..n : g[i] = h[i]
<1> DEFINE S == {i \in 1..n : g[i] # h[i]}
<1> SUFFICES ASSUME S # {} PROVE FALSE
  OBVIOUS
<1>1. PICK i \in S : \A j \in S : i <= j
  <2>1. S \in SUBSET Nat
    OBVIOUS
  <2> HIDE DEF S
  <2> QED
    BY <2>1, LeastNatural
<1>2. i \in 1..n /\ g[i] # h[i]
  OBVIOUS
<1>3. i # 1
  BY <1>2 DEF Joins
<1>4. i - 1 \in 1..n /\ ~(i <= i - 1)
  BY <1>2, <1>3
<1>5. g[i - 1] = h[i - 1]
  BY <1>1, <1>4
<1> QED
  BY <1>2, <1>3, <1>5 DEF Joins

(* FlattenSeq joins all elements. *)
LEMMA FlattenJoins ==
    ASSUME NEW T, NEW s \in Seq(Seq(T)), Len(s) # 0
    PROVE  \E g \in [1..Len(s) -> Seq(T)] : Joins(g, s, Len(s)) /\ FlattenSeq(s) = g[Len(s)]
<1> DEFINE Def(g) == [i \in 1..Len(s) |-> IF i = 1 THEN s[i] ELSE g[i - 1] \o s[i]]
           f == CHOOSE g : g = Def(g)
<1>1. PICK g \in [1..Len(s) -> Seq(T)] : Joins(g, s, Len(s))
  BY JoinExists
<1>2. g = Def(g)
  BY <1>1 DEF Joins
<1>3. f = Def(f)
  <2> HIDE DEF Def
  <2> QED
    BY <1>2
<1>4. FlattenSeq(s) = f[Len(s)]
  BY DEF FlattenSeq
<1> HIDE DEF f
<1>5. Joins(f, s, Len(s))
  <2>1. \A i \in 1..Len(s) : f[i] = Def(f)[i]
    BY <1>3
  <2> QED
    BY <2>1 DEF Joins
<1>6. Len(s) \in Nat
  BY LenProperties
<1>7. Len(s) \in 1..Len(s)
  BY <1>6
<1>8. f[Len(s)] = g[Len(s)]
  BY <1>1, <1>5, <1>6, <1>7, JoinUnique
<1> QED
  BY <1>1, <1>4, <1>8

(* One more element is joined at the end. *)
LEMMA FlattenAppend ==
    ASSUME NEW T, NEW s \in Seq(Seq(T)), NEW x \in Seq(T)
    PROVE  FlattenSeq(Append(s, x)) = FlattenSeq(s) \o x
<1> DEFINE n == Len(s)
           t == Append(s, x)
<1>1. /\ n \in Nat /\ t \in Seq(Seq(T)) /\ Len(t) = n + 1 /\ Len(t) # 0
      /\ t[n + 1] = x /\ \A i \in 1..n : t[i] = s[i]
  BY LenProperties, AppendProperties
<1> HIDE DEF n, t
<1>2. PICK g \in [1..(n + 1) -> Seq(T)] : Joins(g, t, n + 1) /\ FlattenSeq(t) = g[n + 1]
  BY <1>1, FlattenJoins
<1>3. n + 1 \in 1..(n + 1) /\ \A i \in 1..n : i \in 1..(n + 1)
  BY <1>1
<1>4. CASE n = 0
  <2>1. s = <<>> /\ FlattenSeq(s) = <<>>
    BY <1>4, EmptySeq DEF FlattenSeq, n
  <2>2. FlattenSeq(t) = x
    BY <1>1, <1>2, <1>3, <1>4 DEF Joins
  <2>3. <<>> \o x = x
    OBVIOUS
  <2> QED
    BY <2>1, <2>2, <2>3 DEF t
<1>5. CASE n # 0
  <2>1. PICK h \in [1..n -> Seq(T)] : Joins(h, s, n) /\ FlattenSeq(s) = h[n]
    BY <1>5, FlattenJoins DEF n
  <2>2. Joins(g, s, n)
    BY <1>1, <1>2, <1>3 DEF Joins
  <2>3. n \in 1..n /\ n + 1 # 1 /\ (n + 1) - 1 = n
    BY <1>1, <1>5
  <2>4. g[n] = h[n]
    <3>1. \A f, e : Joins(f, s, n) /\ Joins(e, s, n) => f[n] = e[n]
      BY <1>1, <2>3, JoinUnique
    <3> QED
      BY <2>1, <2>2, <3>1
  <2>5. g[n + 1] = g[n] \o x
    BY <1>1, <1>2, <1>3, <2>3 DEF Joins
  <2> QED
    BY <1>2, <2>1, <2>4, <2>5 DEF t
<1> QED
  BY <1>4, <1>5

(* Joined sequences are a sequence. *)
LEMMA FlattenTyped ==
    ASSUME NEW T, NEW s \in Seq(Seq(T))
    PROVE  FlattenSeq(s) \in Seq(T)
<1>1. CASE Len(s) = 0
  <2>1. s = <<>> /\ FlattenSeq(s) = s
    BY <1>1, EmptySeq DEF FlattenSeq
  <2> QED
    BY <2>1, EmptySeq
<1>2. CASE Len(s) # 0
  <2>1. PICK g \in [1..Len(s) -> Seq(T)] : FlattenSeq(s) = g[Len(s)]
    BY <1>2, FlattenJoins
  <2>2. Len(s) \in 1..Len(s)
    BY <1>2, LenProperties
  <2> QED
    BY <2>1, <2>2
<1> QED
  BY <1>1, <1>2
--------------------------------------------------------------------------------
(* The events of a stream. *)

(* The two parts of EventData: the line where the event starts, and its data    *)
(* lines.                                                                        *)
Start(ls, b)  == Max({0} \cup {c \in Blanks(ls) : c < b})
Fields(ls, b) == {k \in (Start(ls, b) + 1)..(b - 1) : ls[k].field = "data"}

(* The data of the event that a blank line after ls would end. *)
OpenData(ls) == EventData(Append(ls, Blank), Len(ls) + 1)

(* EventData in terms of them. *)
LEMMA EventDataIs ==
    ASSUME NEW ls, NEW b
    PROVE  EventData(ls, b) =
              IF Fields(ls, b) = {} THEN NoPayload ELSE ls[Max(Fields(ls, b))].data
BY DEF EventData, Fields, Start

(* An event starts before it ends, and its last data line is one of its lines. *)
LEMMA EventBounds ==
    ASSUME NEW ls \in Seq(Lines), NEW b \in Nat \ {0}
    PROVE  /\ Start(ls, b) \in Nat /\ Start(ls, b) < b
           /\ Fields(ls, b) # {} => Max(Fields(ls, b)) \in Fields(ls, b)
           /\ Fields(ls, b) \subseteq 1..(b - 1)
<1> DEFINE S == {0} \cup {c \in Blanks(ls) : c < b}
<1>1. S \in SUBSET Nat /\ S # {} /\ \A c \in S : c <= b /\ c < b
  BY LenProperties DEF Blanks
<1>2. Max(S) \in S
  <2> HIDE DEF S
  <2> QED
    BY <1>1, GreatestNatural
<1>3. Start(ls, b) \in Nat /\ Start(ls, b) < b
  BY <1>1, <1>2 DEF Start
<1>4. Fields(ls, b) \subseteq 1..(b - 1)
  BY <1>3 DEF Fields
<1>5. Fields(ls, b) \in SUBSET Nat /\ \A k \in Fields(ls, b) : k <= b
  BY <1>4
<1>6. Fields(ls, b) # {} => Max(Fields(ls, b)) \in Fields(ls, b)
  BY <1>5, GreatestNatural
<1> QED
  BY <1>3, <1>4, <1>6

(* The data of an event is decided by the lines before its end. *)
LEMMA EventPrefix ==
    ASSUME NEW s \in Seq(Lines), NEW t \in Seq(Lines), NEW b \in Nat \ {0},
           b - 1 <= Len(s), b - 1 <= Len(t), \A k \in 1..(b - 1) : s[k] = t[k]
    PROVE  EventData(s, b) = EventData(t, b)
<1>1. Len(s) \in Nat /\ Len(t) \in Nat /\ DOMAIN s = 1..Len(s) /\ DOMAIN t = 1..Len(t)
  BY LenProperties
<1>2. \A c : (c \in Blanks(s) /\ c < b) <=> (c \in 1..(b - 1) /\ s[c] = Blank)
  BY <1>1 DEF Blanks
<1>3. \A c : (c \in Blanks(t) /\ c < b) <=> (c \in 1..(b - 1) /\ t[c] = Blank)
  BY <1>1 DEF Blanks
<1>4. {c \in Blanks(s) : c < b} = {c \in Blanks(t) : c < b}
  BY <1>2, <1>3
<1>5. Start(s, b) = Start(t, b)
  BY <1>4 DEF Start
<1>6. \A k \in (Start(s, b) + 1)..(b - 1) : k \in 1..(b - 1)
  BY EventBounds
<1>7. Fields(s, b) = Fields(t, b)
  BY <1>5, <1>6 DEF Fields
<1>8. Fields(s, b) # {} => s[Max(Fields(s, b))] = t[Max(Fields(s, b))]
  BY EventBounds
<1> QED
  BY <1>7, <1>8, EventDataIs

(* It is the data of a line, or nothing. *)
LEMMA EventTyped ==
    ASSUME NEW ls \in Seq(Lines), NEW b \in Nat \ {0}, b - 1 <= Len(ls)
    PROVE  EventData(ls, b) \in Payloads \cup {NoPayload}
<1>1. CASE Fields(ls, b) = {}
  BY <1>1, EventDataIs
<1>2. CASE Fields(ls, b) # {}
  <2>1. Max(Fields(ls, b)) \in 1..(b - 1)
    BY <1>2, EventBounds
  <2>2. Max(Fields(ls, b)) \in 1..Len(ls)
    BY <2>1, LenProperties
  <2>3. ls[Max(Fields(ls, b))] \in Lines
    BY <2>2, ElementOfSeq
  <2> QED
    BY <1>2, <2>3, LineData, EventDataIs
<1> QED
  BY <1>1, <1>2

(* What appending a line does to a stream. *)
LEMMA AppendLine ==
    ASSUME NEW ls \in Seq(Lines), NEW l \in Lines
    PROVE  /\ Append(ls, l) \in Seq(Lines) /\ Len(ls) \in Nat /\ Len(ls) + 1 \in Nat \ {0}
           /\ Len(Append(ls, l)) = Len(ls) + 1
           /\ DOMAIN ls = 1..Len(ls) /\ DOMAIN Append(ls, l) = 1..(Len(ls) + 1)
           /\ Append(ls, l)[Len(ls) + 1] = l
           /\ \A k \in 1..Len(ls) : Append(ls, l)[k] = ls[k]
BY LenProperties, AppendProperties

(* The events that ended before stay as they were. *)
LEMMA EventStays ==
    ASSUME NEW ls \in Seq(Lines), NEW l \in Lines, NEW b \in 1..Len(ls)
    PROVE  EventData(Append(ls, l), b) = EventData(ls, b)
<1>1. /\ Append(ls, l) \in Seq(Lines) /\ Len(ls) \in Nat
      /\ Len(Append(ls, l)) = Len(ls) + 1 /\ \A k \in 1..Len(ls) : Append(ls, l)[k] = ls[k]
  BY AppendLine
<1>2. b \in Nat \ {0} /\ b - 1 <= Len(ls) /\ b - 1 <= Len(ls) + 1 /\ 1..(b - 1) \subseteq 1..Len(ls)
  BY <1>1
<1> QED
  BY <1>1, <1>2, EventPrefix

(* The event that a new line ends is the open one. *)
LEMMA EventEnds ==
    ASSUME NEW ls \in Seq(Lines), NEW l \in Lines
    PROVE  /\ EventData(Append(ls, l), Len(ls) + 1) = OpenData(ls)
           /\ OpenData(ls) \in Payloads \cup {NoPayload}
<1>1. Blank \in Lines
  BY DEF Lines
<1>2. (Len(ls) + 1) - 1 = Len(ls) /\ Len(ls) <= Len(ls) + 1 /\ Len(ls) \in Nat
  BY LenProperties
<1>3. EventData(Append(ls, l), Len(ls) + 1) = EventData(Append(ls, Blank), Len(ls) + 1)
  <2> DEFINE s == Append(ls, l)
             t == Append(ls, Blank)
             b == Len(ls) + 1
  <2>1. s \in Seq(Lines) /\ Len(s) = b /\ \A k \in 1..Len(ls) : s[k] = ls[k]
    BY AppendLine
  <2>2. t \in Seq(Lines) /\ Len(t) = b /\ \A k \in 1..Len(ls) : t[k] = ls[k]
    BY <1>1, AppendLine
  <2>3. b \in Nat \ {0} /\ b - 1 = Len(ls) /\ b - 1 <= b
    BY <1>2
  <2> HIDE DEF s, t, b
  <2>4. b - 1 <= Len(s) /\ b - 1 <= Len(t) /\ \A k \in 1..(b - 1) : s[k] = t[k]
    BY <2>1, <2>2, <2>3
  <2>5. EventData(s, b) = EventData(t, b)
    BY <2>1, <2>2, <2>3, <2>4, EventPrefix
  <2> QED
    BY <2>5 DEF s, t, b
<1>4. OpenData(ls) \in Payloads \cup {NoPayload}
  BY <1>1, <1>2, AppendLine, EventTyped DEF OpenData
<1> QED
  BY <1>3, <1>4 DEF OpenData

(* Nothing is left of an event after the blank line that ends it. *)
LEMMA OpenAfterBlank ==
    ASSUME NEW ls \in Seq(Lines)
    PROVE  OpenData(Append(ls, Blank)) = NoPayload
<1> DEFINE n == Len(ls)
           s == Append(ls, Blank)
           t == Append(s, Blank)
<1>0. Blank \in Lines
  BY DEF Lines
<1>1. s \in Seq(Lines) /\ n \in Nat /\ Len(s) = n + 1 /\ s[n + 1] = Blank
  BY <1>0, AppendLine
<1>2. /\ t \in Seq(Lines) /\ Len(t) = n + 2 /\ DOMAIN t = 1..(n + 2)
      /\ t[n + 1] = Blank
  <2>1. Len(s) + 1 = n + 2 /\ n + 1 \in 1..Len(s)
    BY <1>1
  <2> HIDE DEF s
  <2> QED
    BY <1>0, <1>1, <2>1, AppendLine
<1>3. OpenData(s) = EventData(t, n + 2)
  BY <1>1, (n + 1) + 1 = n + 2 DEF OpenData
<1> HIDE DEF s, t, n
<1>4. Start(t, n + 2) = n + 1
  <2> DEFINE S == {0} \cup {c \in Blanks(t) : c < n + 2}
  <2>1. S \in SUBSET Nat /\ n + 1 \in S /\ \A c \in S : c <= n + 1
    BY <1>1, <1>2 DEF Blanks
  <2> HIDE DEF S
  <2>2. Max(S) = n + 1
    BY <2>1, MaxIs
  <2> QED
    BY <2>2 DEF S, Start
<1>5. Fields(t, n + 2) = {}
  BY <1>1, <1>4 DEF Fields
<1> QED
  BY <1>3, <1>5, EventDataIs DEF s

(* A data line replaces the data of the open event, any other leaves it. *)
LEMMA OpenAfterField ==
    ASSUME NEW ls \in Seq(Lines), NEW l \in Lines, l # Blank
    PROVE  OpenData(Append(ls, l)) = IF l.field = "data" THEN l.data ELSE OpenData(ls)
<1> DEFINE n == Len(ls)
           u == Append(ls, l)
           s == Append(ls, Blank)
           t == Append(u, Blank)
<1>0. Blank \in Lines
  BY DEF Lines
<1>1. /\ u \in Seq(Lines) /\ n \in Nat /\ Len(u) = n + 1 /\ u[n + 1] = l
      /\ \A k \in 1..n : u[k] = ls[k]
  BY AppendLine
<1>2. /\ s \in Seq(Lines) /\ DOMAIN s = 1..(n + 1) /\ \A k \in 1..n : s[k] = ls[k]
  BY <1>0, AppendLine
<1>3. /\ t \in Seq(Lines) /\ DOMAIN t = 1..(n + 2) /\ t[n + 1] = l
      /\ \A k \in 1..n : t[k] = s[k]
  <2>1. Len(u) + 1 = n + 2 /\ n + 1 \in 1..Len(u) /\ 1..n \subseteq 1..Len(u)
    BY <1>1
  <2> HIDE DEF u, s
  <2>2. /\ t \in Seq(Lines) /\ DOMAIN t = 1..(n + 2) /\ \A k \in 1..Len(u) : t[k] = u[k]
    BY <1>0, <1>1, <2>1, AppendLine
  <2> QED
    BY <1>1, <1>2, <2>1, <2>2
<1>4. OpenData(u) = EventData(t, n + 2) /\ OpenData(ls) = EventData(s, n + 1)
  BY <1>1, (n + 1) + 1 = n + 2 DEF OpenData
<1> HIDE DEF u, s, t, n
<1>5. Start(t, n + 2) = Start(s, n + 1)
  <2>1. \A c : (c \in Blanks(t) /\ c < n + 2) <=> (c \in 1..n /\ s[c] = Blank)
    BY <1>1, <1>3 DEF Blanks
  <2>2. \A c : (c \in Blanks(s) /\ c < n + 1) <=> (c \in 1..n /\ s[c] = Blank)
    BY <1>1, <1>2 DEF Blanks
  <2>3. {c \in Blanks(t) : c < n + 2} = {c \in Blanks(s) : c < n + 1}
    BY <2>1, <2>2
  <2> QED
    BY <2>3 DEF Start
<1>6. PICK a \in Nat : a = Start(s, n + 1) /\ a < n + 1
  <2>1. n + 1 \in Nat \ {0}
    BY <1>1
  <2> QED
    BY <1>2, <2>1, EventBounds
<1>7. /\ Fields(t, n + 2) = {k \in (a + 1)..(n + 1) : t[k].field = "data"}
      /\ Fields(s, n + 1) = {k \in (a + 1)..n : s[k].field = "data"}
  <2>1. (n + 2) - 1 = n + 1 /\ (n + 1) - 1 = n
    BY <1>1
  <2> QED
    BY <1>5, <1>6, <2>1 DEF Fields
<1>8. CASE l.field = "data"
  <2>1. /\ Fields(t, n + 2) \in SUBSET Nat /\ n + 1 \in Fields(t, n + 2)
        /\ \A k \in Fields(t, n + 2) : k <= n + 1
    BY <1>1, <1>3, <1>6, <1>7, <1>8
  <2>2. Max(Fields(t, n + 2)) = n + 1
    BY <2>1, MaxIs
  <2> QED
    BY <1>3, <1>4, <1>8, <2>1, <2>2, EventDataIs DEF u
<1>9. CASE l.field # "data"
  <2>1. Fields(t, n + 2) = Fields(s, n + 1)
    <3>1. \A k \in (a + 1)..(n + 1) : k # n + 1 => k \in (a + 1)..n /\ k \in 1..n
      BY <1>1, <1>6
    <3>2. \A k \in (a + 1)..n : k \in (a + 1)..(n + 1) /\ k \in 1..n
      BY <1>1, <1>6
    <3>3. Fields(t, n + 2) \subseteq Fields(s, n + 1)
      BY <1>3, <1>7, <1>9, <3>1
    <3>4. Fields(s, n + 1) \subseteq Fields(t, n + 2)
      BY <1>3, <1>7, <3>2
    <3> QED
      BY <3>3, <3>4
  <2>2. Fields(s, n + 1) # {} => Max(Fields(s, n + 1)) \in 1..n
    <3>1. n + 1 \in Nat \ {0} /\ (n + 1) - 1 = n
      BY <1>1
    <3> QED
      BY <1>2, <3>1, EventBounds
  <2>3. EventData(t, n + 2) = EventData(s, n + 1)
    BY <1>3, <2>1, <2>2, EventDataIs
  <2> QED
    BY <1>4, <1>9, <2>3 DEF u
<1> QED
  BY <1>8, <1>9

(* A line adds at most one terminal event, the open one. *)
LEMMA TerminalsAppend ==
    ASSUME NEW ls \in Seq(Lines), NEW l \in Lines
    PROVE  Terminals(Append(ls, l)) =
              Terminals(ls) \cup (IF l = Blank /\ Verdict(OpenData(ls)) # "none"
                                  THEN {Len(ls) + 1} ELSE {})
<1> DEFINE n == Len(ls)
           u == Append(ls, l)
<1>1. /\ n \in Nat /\ DOMAIN ls = 1..n /\ DOMAIN u = 1..(n + 1) /\ u[n + 1] = l
      /\ \A k \in 1..n : u[k] = ls[k]
  BY AppendLine
<1>2. \A k \in 1..n : EventData(u, k) = EventData(ls, k)
  BY EventStays
<1>3. EventData(u, n + 1) = OpenData(ls)
  BY EventEnds
<1> HIDE DEF n, u
<1>4. \A k : k \in 1..(n + 1) <=> k \in 1..n \/ k = n + 1
  BY <1>1
<1>5. \A k : k \in Terminals(u) <=>
              \/ k \in Terminals(ls)
              \/ k = n + 1 /\ l = Blank /\ Verdict(OpenData(ls)) # "none"
  <2>1. \A k : k \in Terminals(u) <=>
               k \in 1..(n + 1) /\ u[k] = Blank /\ Verdict(EventData(u, k)) # "none"
    BY <1>1 DEF Terminals, Blanks
  <2>2. \A k : k \in Terminals(ls) <=>
               k \in 1..n /\ ls[k] = Blank /\ Verdict(EventData(ls, k)) # "none"
    BY <1>1 DEF Terminals, Blanks
  <2> QED
    BY <1>1, <1>2, <1>3, <1>4, <2>1, <2>2
<1> QED
  BY <1>5 DEF n, u

(* The artifacts of each line of a stream. *)
LineArtifacts(ls, b) ==
    [k \in 1..b |-> IF k \in Blanks(ls) /\ EventData(ls, k).kind = "task"
                    THEN EventData(ls, k).artifact ELSE <<>>]

(* They are texts. *)
LEMMA ArtifactsTyped ==
    ASSUME NEW ls \in Seq(Lines)
    PROVE  LineArtifacts(ls, Len(ls)) \in Seq(Seq(Texts))
<1>1. ASSUME NEW k \in 1..Len(ls)
      PROVE  LineArtifacts(ls, Len(ls))[k] \in Seq(Texts)
  <2>1. k \in Nat \ {0} /\ k - 1 <= Len(ls)
    BY LenProperties
  <2>2. EventData(ls, k) \in Payloads \cup {NoPayload}
    BY <2>1, EventTyped
  <2>3. EventData(ls, k).artifact \in Seq(Texts)
    BY <2>2, PayloadTexts
  <2> QED
    BY <2>3, EmptySeq DEF LineArtifacts
<1>2. Len(ls) \in Nat /\ LineArtifacts(ls, Len(ls)) \in [1..Len(ls) -> Seq(Texts)]
  BY <1>1, LenProperties DEF LineArtifacts
<1> QED
  BY <1>2, SeqDef

(* A line adds at most the artifacts of the open event. *)
LEMMA ArtifactsAppend ==
    ASSUME NEW ls \in Seq(Lines), NEW l \in Lines
    PROVE  ArtifactTexts(Append(ls, l), Len(ls) + 1) =
              IF l = Blank /\ OpenData(ls).kind = "task"
              THEN ArtifactTexts(ls, Len(ls)) \o OpenData(ls).artifact
              ELSE ArtifactTexts(ls, Len(ls))
<1> DEFINE n == Len(ls)
           u == Append(ls, l)
           f == LineArtifacts(ls, n)
           x == IF l = Blank /\ OpenData(ls).kind = "task" THEN OpenData(ls).artifact ELSE <<>>
<1>1. /\ n \in Nat /\ DOMAIN ls = 1..n /\ DOMAIN u = 1..(n + 1) /\ u[n + 1] = l
      /\ \A k \in 1..n : u[k] = ls[k]
  BY AppendLine
<1>2. \A k \in 1..n : EventData(u, k) = EventData(ls, k)
  BY EventStays
<1>3. EventData(u, n + 1) = OpenData(ls)
  BY EventEnds
<1>4. f \in Seq(Seq(Texts)) /\ x \in Seq(Texts)
  BY ArtifactsTyped, EventEnds, PayloadTexts, EmptySeq
<1>5. /\ ArtifactTexts(ls, n) = FlattenSeq(f)
      /\ ArtifactTexts(u, n + 1) = FlattenSeq(LineArtifacts(u, n + 1))
  BY DEF ArtifactTexts, LineArtifacts
<1>6. LineArtifacts(u, n + 1) = Append(f, x)
  <2> HIDE DEF u
  <2>1. Len(f) = n /\ DOMAIN Append(f, x) = 1..(n + 1) /\ Append(f, x)[n + 1] = x
        /\ \A k \in 1..n : Append(f, x)[k] = f[k]
    <3>1. Len(f) = n
      BY <1>1, <1>4, LenProperties DEF LineArtifacts
    <3> HIDE DEF f, x
    <3> QED
      BY <1>1, <1>4, <3>1, AppendProperties, LenProperties
  <2>2. ASSUME NEW k \in 1..n PROVE LineArtifacts(u, n + 1)[k] = f[k]
    <3>1. k \in 1..(n + 1) /\ (k \in Blanks(u) <=> k \in Blanks(ls))
      BY <1>1 DEF Blanks
    <3> QED
      BY <1>2, <3>1 DEF LineArtifacts
  <2>3. LineArtifacts(u, n + 1)[n + 1] = x
    <3>1. n + 1 \in 1..(n + 1) /\ (n + 1 \in Blanks(u) <=> l = Blank)
      BY <1>1 DEF Blanks
    <3> QED
      BY <1>3, <3>1 DEF LineArtifacts
  <2>4. \A k \in 1..(n + 1) : k \in 1..n \/ k = n + 1
    BY <1>1
  <2>5. Append(f, x) = [k \in 1..(n + 1) |-> Append(f, x)[k]]
    BY <1>4, <2>1, AppendProperties
  <2>6. LineArtifacts(u, n + 1) = [k \in 1..(n + 1) |-> LineArtifacts(u, n + 1)[k]]
    BY DEF LineArtifacts
  <2>7. \A k \in 1..(n + 1) : LineArtifacts(u, n + 1)[k] = Append(f, x)[k]
    <3> HIDE DEF f, x, n
    <3> QED
      BY <2>1, <2>2, <2>3, <2>4
  <2> HIDE DEF f, x, n
  <2> QED
    BY <2>5, <2>6, <2>7
<1> HIDE DEF f, x, n, u
<1>7. ArtifactTexts(u, n + 1) = ArtifactTexts(ls, n) \o x /\ ArtifactTexts(ls, n) \in Seq(Texts)
  BY <1>4, <1>5, <1>6, FlattenAppend, FlattenTyped
<1>8. ArtifactTexts(ls, n) \o <<>> = ArtifactTexts(ls, n)
  BY <1>7
<1> QED
  BY <1>7, <1>8 DEF x, n, u
--------------------------------------------------------------------------------
(* The runner. *)

(* Until it returns, the runner has seen no terminal event, its event is the     *)
(* open one, and it has the artifacts of all events that have ended.             *)
Following ==
    pc # "returned" =>
        /\ Terminals(read) = {}
        /\ data = OpenData(read)
        /\ artifacts = ArtifactTexts(read, Len(read))

StreamInv == TypeOK /\ Following /\ ResultMatchesStream

(* Nothing is read yet. *)
LEMMA StreamInit == Init => StreamInv
<1> SUFFICES ASSUME Init PROVE StreamInv
  OBVIOUS
<1>1. TypeOK /\ read = <<>> /\ data = NoPayload /\ artifacts = <<>> /\ result.status = "none"
  BY InitTyped DEF Init, Pending
<1>2. Blanks(read) = {} /\ Len(read) = 0
  BY <1>1, EmptySeq DEF Blanks
<1>3. Terminals(read) = {}
  BY <1>2 DEF Terminals
<1>4. OpenData(read) = NoPayload
  <2>1. /\ read \in Seq(Lines) /\ Blank \in Lines
        /\ Append(read, Blank) \in Seq(Lines) /\ 1 \in Nat \ {0}
    BY <1>1, AppendLine DEF TypeOK, Lines
  <2>2. Fields(Append(read, Blank), 1) = {}
    <3>1. Fields(Append(read, Blank), 1) \subseteq 1..(1 - 1)
      BY <2>1, EventBounds
    <3> QED
      BY <3>1
  <2>3. Len(read) + 1 = 1
    BY <1>2
  <2> QED
    BY <2>2, <2>3, EventDataIs DEF OpenData
<1>5. ArtifactTexts(read, Len(read)) = <<>>
  <2>1. LineArtifacts(read, Len(read)) \in Seq(Seq(Texts))
    BY <1>1, ArtifactsTyped DEF TypeOK
  <2>2. Len(LineArtifacts(read, Len(read))) = 0
    BY <1>2, <2>1, LenProperties DEF LineArtifacts
  <2>3. LineArtifacts(read, Len(read)) = <<>>
    BY <2>1, <2>2, EmptySeq
  <2> QED
    BY <2>2, <2>3 DEF ArtifactTexts, LineArtifacts, FlattenSeq
<1> QED
  BY <1>1, <1>3, <1>4, <1>5 DEF StreamInv, Following, ResultMatchesStream

(* A return that no terminal event caused reports no completion. *)
LEMMA OtherReturns ==
    ASSUME StreamInv, pc # "returned", NEW r, r.status # "Completed", Return(r)
    PROVE  Following' /\ ResultMatchesStream'
<1>1. Terminals(read) = {} /\ read' = read /\ pc' = "returned" /\ result' = r
  BY DEF StreamInv, Following, Return
<1>2. Terminals(read') = {} /\ result'.status # "Completed"
  BY <1>1
<1> QED
  BY <1>1, <1>2 DEF Following, ResultMatchesStream

(* A line is parsed. *)
LEMMA ParseFollows ==
    ASSUME StreamInv, ParseLine
    PROVE  Following' /\ ResultMatchesStream'
<1>0. /\ TypeOK /\ read \in Seq(Lines) /\ line \in Lines /\ pc = "line"
      /\ data \in Payloads \cup {NoPayload} /\ artifacts \in Seq(Texts)
      /\ Terminals(read) = {} /\ data = OpenData(read)
      /\ artifacts = ArtifactTexts(read, Len(read)) /\ result.status # "Completed"
  BY DEF StreamInv, Following, ResultMatchesStream, TypeOK, ParseLine
<1>1. PICK n \in Nat : n = Len(read)
  BY <1>0, LenProperties
<1>2. read' = Append(read, line) /\ Len(read') = n + 1
  BY <1>0, <1>1, AppendLine DEF ParseLine
<1>3. Terminals(read') = IF line = Blank /\ Verdict(data) # "none" THEN {n + 1} ELSE {}
  BY <1>0, <1>1, <1>2, TerminalsAppend
<1>4. ArtifactTexts(read', n + 1) =
        IF line = Blank /\ data.kind = "task" THEN artifacts \o data.artifact ELSE artifacts
  BY <1>0, <1>1, <1>2, ArtifactsAppend
<1>5. CASE FieldLine
  <2>1. /\ line # Blank /\ pc' = "scan" /\ artifacts' = artifacts /\ result' = result
        /\ data' = IF line.field = "data" THEN line.data ELSE data
    BY <1>5 DEF FieldLine
  <2>2. OpenData(read') = data'
    BY <1>0, <1>2, <2>1, OpenAfterField
  <2> QED
    BY <1>0, <1>2, <1>3, <1>4, <2>1, <2>2 DEF Following, ResultMatchesStream
<1>6. CASE CloseEvent
  <2>1. line = Blank /\ data' = NoPayload /\ artifacts' = ArtifactTexts(read', n + 1)
    BY <1>4, <1>6 DEF CloseEvent
  <2>2. OpenData(read') = NoPayload
    BY <1>0, <1>2, <2>1, OpenAfterBlank
  <2>3. CASE Verdict(data) = "none"
    <3>1. pc' = "scan" /\ result' = result /\ Terminals(read') = {}
      BY <1>3, <1>6, <2>3 DEF CloseEvent
    <3> QED
      BY <1>0, <1>2, <2>1, <2>2, <3>1 DEF Following, ResultMatchesStream
  <2>4. CASE Verdict(data) # "none"
    <3>1. /\ pc' = "returned" /\ Terminals(read') = {n + 1}
          /\ result' = Result(Verdict(data), FinalOutput(data, ArtifactTexts(read', n + 1)))
      BY <1>3, <1>4, <1>6, <2>1, <2>4 DEF CloseEvent
    <3>2. Min(Terminals(read')) = n + 1
      <4>1. Min({n + 1}) \in {n + 1}
        BY DEF Min
      <4> QED
        BY <3>1, <4>1
    <3>3. EventData(read', n + 1) = data
      BY <1>0, <1>1, <1>2, EventEnds
    <3>4. /\ result'.status = Verdict(data)
          /\ result'.output = FinalOutput(data, ArtifactTexts(read', n + 1))
      BY <3>1 DEF Result
    <3>5. Sources(read', n + 1) =
            {ArtifactTexts(read', n + 1)}
               \cup (IF Verdict(data) = "Completed" THEN {data.message} ELSE {})
      BY <3>3 DEF Sources
    <3>6. /\ result'.output \in Sources(read', n + 1)
          /\ result'.output = <<>> => Sources(read', n + 1) = {<<>>}
      BY <3>4, <3>5 DEF FinalOutput
    <3>7. Terminals(read') # {} /\ n + 1 = Len(read')
      BY <1>2, <3>1
    <3> QED
      BY <3>1, <3>2, <3>3, <3>4, <3>6, <3>7 DEF Following, ResultMatchesStream
  <2> QED
    BY <2>3, <2>4
<1> QED
  BY <1>5, <1>6 DEF ParseLine

(* StreamInv is inductive. *)
LEMMA StreamStep == StreamInv /\ [Next]_vars => StreamInv'
<1> SUFFICES ASSUME StreamInv, [Next]_vars PROVE StreamInv'
  OBVIOUS
<1>1. TypeOK'
  BY NextTyped DEF StreamInv
<1>2. CASE Expire \/ Send \/ Hangup \/ Connected \/ Scan \/ UNCHANGED vars
  <2>1. /\ UNCHANGED <<data, artifacts, result, read>>
        /\ pc' = "returned" <=> pc = "returned"
    BY <1>2 DEF Expire, Send, Hangup, Connected, Scan, vars
  <2> QED
    BY <1>1, <2>1 DEF StreamInv, Following, ResultMatchesStream
<1>3. CASE ConnectFails \/ ScanFails \/ CancelledBetweenLines
  <2>1. pc # "returned" /\ ReturnError
    BY <1>3 DEF ConnectFails, ScanFails, CancelledBetweenLines
  <2>2. PICK r : Return(r) /\ r.status # "Completed"
    BY <2>1 DEF ReturnError, Result, Error
  <2> QED
    BY <1>1, <2>1, <2>2, OtherReturns DEF StreamInv
<1>4. CASE Refused \/ EndOfStream
  <2>1. pc # "returned" /\ Return(Result("Failed", <<>>))
    BY <1>4 DEF Refused, EndOfStream
  <2>2. Result("Failed", <<>>).status # "Completed"
    BY DEF Result
  <2> QED
    BY <1>1, <2>1, <2>2, OtherReturns DEF StreamInv
<1>5. CASE ParseLine
  BY <1>1, <1>5, ParseFollows DEF StreamInv
<1> QED
  BY <1>2, <1>3, <1>4, <1>5 DEF Next, Runner

(* parseSSEStream reads a stream of any length line by line, with a mutable      *)
(* event and a growing list of texts; what it returns is what the whole stream   *)
(* says: the verdict of its first terminal event, nothing read after it, and for *)
(* output that event's message or the texts of all events so far, in order, and  *)
(* nothing only if there are none.                                               *)
THEOREM RunnerResult == Spec => []ResultMatchesStream
<1>1. StreamInv => ResultMatchesStream
  BY DEF StreamInv
<1> QED
  BY <1>1, StreamInit, StreamStep, PTL DEF Spec
================================================================================
