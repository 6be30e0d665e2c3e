--------------------------- MODULE AssemblerProofs ---------------------------
(***************************************************************************)
(* Proofs about the pure part of the program: what the operations on a     *)
(* configuration keep (Store.tla), for any names and lists of any length,  *)
(* and what Assemble's document promises for every input, of any size: its *)
(* selector, its source groups, its dialers and its rules name nothing the *)
(* document lacks, and no two of its entries share a name (Assembler.tla   *)
(* and AssemblerRun.tla).                                                  *)
(***************************************************************************)
EXTENDS AssemblerRun, Integers, FiniteSetTheorems, SequenceTheorems, WellFoundedInduction, TLAPS

-----------------------------------------------------------------------------
(* Positions in lists.                                                     *)

\* A set of numbers that is not empty has a least one.
LEMMA LeastExists ==
    ASSUME NEW T, T \subseteq Nat, T # {}
    PROVE  \E x \in T : \A y \in T : x <= y
<1>1. PICK n \in T : n \in Nat
  OBVIOUS
<1> DEFINE S == 0 .. n
           upTo(x) == T \intersect 0 .. x
           F == {upTo(x) : x \in T \intersect S}
<1>2. IsFiniteSet(S)
  BY <1>1, FS_Interval
<1>3. IsWellFoundedOn(StrictSubsetOrdering(S), SUBSET S)
  BY <1>2, FS_StrictSubsetOrderingWellFounded, FS_FiniteSubsetsOfFinite
<1>4. F \subseteq SUBSET S /\ F # {}
  <2>1. upTo(n) \in F
    BY <1>1
  <2>2. \A x \in T \intersect S : upTo(x) \subseteq S
    BY <1>1
  <2> QED  BY <2>1, <2>2
<1>5. PICK A \in F : \A B \in F : ~(<<B, A>> \in StrictSubsetOrdering(S))
  <2> HIDE DEF F, S
  <2> QED  BY <1>3, <1>4, WFMin
<1>6. PICK x \in T \intersect S : A = upTo(x)
  BY <1>5
<1>7. \A y \in T : x <= y
  <2> SUFFICES ASSUME NEW y \in T, ~(x <= y) PROVE FALSE
    OBVIOUS
  <2>1. x \in Nat /\ y \in Nat /\ y < x /\ y \in S
    BY <1>1, <1>6
  <2>2. upTo(y) \in F /\ upTo(y) \subseteq A /\ x \in A /\ x \notin upTo(y)
    BY <1>6, <2>1
  <2>3. <<upTo(y), A>> \in StrictSubsetOrdering(S)
    <3> HIDE DEF F, upTo
    <3> QED  BY <1>4, <1>5, <2>2 DEF StrictSubsetOrdering
  <2> QED  BY <1>5, <2>2, <2>3
<1> QED  BY <1>6, <1>7

\* A set of numbers below a bound that is not empty has a greatest one.
LEMMA GreatestExists ==
    ASSUME NEW n \in Nat, NEW T, T \subseteq 0 .. n, T # {}
    PROVE  \E x \in T : \A y \in T : y <= x
<1> DEFINE D == {n - y : y \in T}
<1>0. \A y \in T : y \in Nat /\ n - y \in Nat /\ n - y \in D
  OBVIOUS
<1>1. D \subseteq Nat /\ D # {}
  BY <1>0
<1>2. PICK d \in D : \A e \in D : d <= e
  <2> HIDE DEF D
  <2> QED  BY <1>1, LeastExists
<1>3. PICK x \in T : d = n - x
  BY <1>2
<1>4. \A y \in T : y <= x
  <2> TAKE y \in T
  <2>1. n - x <= n - y
    BY <1>0, <1>2, <1>3
  <2> QED  BY <1>0, <2>1
<1> QED  BY <1>4

\* Taking one element out of a sequence leaves the others, in order.
LEMMA RemoveAtFacts ==
    ASSUME NEW S, NEW s \in Seq(S), NEW k \in 1 .. Len(s)
    PROVE  /\ RemoveAt(s, k) \in Seq(S)
           /\ Len(RemoveAt(s, k)) = Len(s) - 1
           /\ \A j \in 1 .. Len(s) - 1 : RemoveAt(s, k)[j] = IF j < k THEN s[j] ELSE s[j + 1]
<1> DEFINE a == SubSeq(s, 1, k - 1)
           b == SubSeq(s, k + 1, Len(s))
<1>1. a \in Seq(S) /\ Len(a) = k - 1 /\ \A j \in 1 .. k - 1 : a[j] = s[j]
  OBVIOUS
<1>2. b \in Seq(S) /\ Len(b) = Len(s) - k /\ \A j \in 1 .. Len(s) - k : b[j] = s[k + j]
  OBVIOUS
<1> HIDE DEF a, b
<1>3. /\ a \o b \in Seq(S) /\ Len(a \o b) = Len(s) - 1
      /\ \A j \in 1 .. Len(s) - 1 : (a \o b)[j] = IF j < k THEN s[j] ELSE s[j + 1]
  <2>1. a \o b \in Seq(S) /\ Len(a \o b) = Len(a) + Len(b)
    BY <1>1, <1>2, ConcatProperties
  <2>2. \A j \in 1 .. Len(s) - 1 : (a \o b)[j] = IF j <= Len(a) THEN a[j] ELSE b[j - Len(a)]
    BY <1>1, <1>2, ConcatProperties
  <2>3. ASSUME NEW j \in 1 .. Len(s) - 1 PROVE (a \o b)[j] = IF j < k THEN s[j] ELSE s[j + 1]
    <3>1. CASE j < k
      <4>1. j \in 1 .. k - 1 /\ j <= Len(a)
        BY <1>1, <3>1
      <4> QED  BY <1>1, <2>2, <3>1, <4>1
    <3>2. CASE ~(j < k)
      <4>1. ~(j <= Len(a)) /\ j - Len(a) \in 1 .. Len(s) - k /\ k + (j - Len(a)) = j + 1
        BY <1>1, <3>2
      <4>2. b[j - Len(a)] = s[j + 1]
        BY <1>2, <4>1
      <4> QED  BY <2>2, <3>2, <4>1, <4>2
    <3> QED  BY <3>1, <3>2
  <2>4. Len(a) + Len(b) = Len(s) - 1
    BY <1>1, <1>2
  <2> QED  BY <2>1, <2>3, <2>4
<1> QED
  BY <1>3 DEF RemoveAt, a, b

\* A finite set of positions can be put in order.
LEMMA OrderExists ==
    ASSUME NEW n \in Nat, NEW T, T \subseteq 1 .. n
    PROVE  /\ IsFiniteSet(T) /\ Cardinality(T) \in Nat
           /\ \E f \in [1 .. Cardinality(T) -> T] :
                \A i, j \in 1 .. Cardinality(T) : i < j => f[i] < f[j]
<1> DEFINE Ordered(S) == \E f \in [1 .. Cardinality(S) -> S] :
                            \A i, j \in 1 .. Cardinality(S) : i < j => f[i] < f[j]
           Bad == {m \in Nat : \E S \in SUBSET (1 .. m) : ~Ordered(S)}
<1>1. ASSUME NEW m \in Nat, NEW S \in SUBSET (1 .. m)
      PROVE  IsFiniteSet(S) /\ Cardinality(S) \in Nat
  <2>1. IsFiniteSet(1 .. m)
    BY FS_Interval
  <2>2. IsFiniteSet(S)
    BY <2>1, FS_Subset
  <2> QED  BY <2>2, FS_CardinalityType
<1>2. Bad = {}
  <2> SUFFICES ASSUME Bad # {} PROVE FALSE
    OBVIOUS
  <2>1. PICK m \in Bad : \A x \in Bad : m <= x
    <3> HIDE DEF Ordered
    <3>1. Bad \subseteq Nat
      OBVIOUS
    <3> HIDE DEF Bad
    <3> QED  BY <3>1, LeastExists
  <2>2. PICK S \in SUBSET (1 .. m) : ~Ordered(S)
    OBVIOUS
  <2> m \in Nat
    OBVIOUS
  <2>3. CASE m = 0
    <3>1. S = {}
      BY <2>3
    <3>2. Cardinality(S) = 0
      BY <3>1, FS_EmptySet
    <3>3. [i \in 1 .. 0 |-> 0] \in [1 .. Cardinality(S) -> S]
      BY <3>1, <3>2
    <3>4. \A i, j \in 1 .. Cardinality(S) : FALSE
      BY <3>2
    <3> QED  BY <2>2, <3>3, <3>4
  <2>4. CASE m # 0
    <3>1. m - 1 \in Nat /\ m - 1 \notin Bad
      <4> HIDE DEF Bad
      <4>1. m - 1 \in Nat /\ ~(m <= m - 1)
        BY <2>4
      <4> QED  BY <2>1, <4>1
    <3>2. \A R \in SUBSET (1 .. m - 1) : Ordered(R)
      <4> HIDE DEF Ordered
      <4> QED  BY <3>1
    <3>3. CASE m \notin S
      <4>1. S \in SUBSET (1 .. m - 1)
        BY <3>3, <2>4
      <4> HIDE DEF Ordered
      <4> QED  BY <2>2, <3>2, <4>1
    <3>4. CASE m \in S
      <4> DEFINE R == S \ {m}
                 c == Cardinality(R)
      <4>1. R \in SUBSET (1 .. m - 1)
        BY <2>4
      <4>2. Ordered(R)
        <5> HIDE DEF Ordered, R
        <5> QED  BY <3>2, <4>1
      <4>3. PICK f \in [1 .. c -> R] : \A i, j \in 1 .. c : i < j => f[i] < f[j]
        BY <4>2
      <4>4. c \in Nat /\ Cardinality(S) = c + 1
        <5>1. S = R \union {m} /\ m \notin R
          BY <3>4
        <5>2. IsFiniteSet(R)
          BY <3>1, <4>1, <1>1
        <5> HIDE DEF R
        <5> QED  BY <5>1, <5>2, FS_AddElement, FS_CardinalityType
      <4> HIDE DEF c
      <4> DEFINE g == [i \in 1 .. c + 1 |-> IF i = c + 1 THEN m ELSE f[i]]
      <4>5. \A i \in 1 .. c : f[i] \in S /\ f[i] \in Nat /\ f[i] < m
        <5>1. R \subseteq S /\ \A x \in R : x \in Nat /\ x < m
          BY <4>1
        <5> HIDE DEF R, Bad
        <5> QED  BY <4>3, <5>1
      <4>6. g \in [1 .. c + 1 -> S]
        BY <3>4, <4>4, <4>5
      <4>7. ASSUME NEW i \in 1 .. c + 1, NEW j \in 1 .. c + 1, i < j PROVE g[i] < g[j]
        <5>1. i \in 1 .. c /\ g[i] = f[i]
          BY <4>4, <4>7
        <5>2. CASE j = c + 1
          BY <4>5, <5>1, <5>2
        <5>3. CASE j # c + 1
          BY <4>3, <4>4, <4>7, <5>1, <5>3
        <5> QED  BY <5>2, <5>3
      <4> HIDE DEF g
      <4> QED  BY <2>2, <4>4, <4>6, <4>7
    <3> QED  BY <3>3, <3>4
  <2> QED  BY <2>3, <2>4
<1>3. Ordered(T)
  <2> HIDE DEF Ordered
  <2>1. n \notin Bad
    BY <1>2
  <2> QED  BY <2>1
<1> QED  BY <1>1, <1>3

-----------------------------------------------------------------------------
(* Lists of sources.                                                       *)

\* No name stands twice.
Once(list) == \A i, j \in DOMAIN list : list[i].name = list[j].name => i = j

\* IndexOf finds a name that is there.
LEMMA IndexFound ==
    ASSUME NEW S, NEW list \in Seq(S), NEW s \in NamesIn(list)
    PROVE  IndexOf(list, s) \in 1 .. Len(list) /\ list[IndexOf(list, s)].name = s
<1> DEFINE T == {i \in DOMAIN list : list[i].name = s}
<1>1. T \subseteq Nat /\ T # {} /\ DOMAIN list = 1 .. Len(list)
  BY DEF NamesIn
<1>2. PICK i \in T : \A j \in T : i <= j
  <2> HIDE DEF T
  <2> QED  BY <1>1, LeastExists
<1>3. \A j \in 1 .. i - 1 : list[j].name # s
  BY <1>1, <1>2
<1> QED  BY <1>1, <1>2, <1>3 DEF IndexOf

\* The first source that is on is one that is on.
LEMMA FirstOnFound ==
    ASSUME NEW list \in Seq(Source), OnIndices(list) # {}
    PROVE  FirstOn(list) \in EnabledIn(list)
<1>1. OnIndices(list) \subseteq Nat
  BY DEF OnIndices
<1>2. \E i \in OnIndices(list) : \A j \in OnIndices(list) : i <= j
  BY <1>1, LeastExists
<1> QED  BY <1>2 DEF FirstOn, EnabledIn

\* What adding a source does.
LEMMA Append1Facts ==
    ASSUME NEW list \in Seq(Source), NEW s \in Name, NEW on \in BOOLEAN
    PROVE  /\ Append1(list, s, on) \in Seq(Source)
           /\ NamesIn(Append1(list, s, on)) = NamesIn(list) \union {s}
           /\ EnabledIn(Append1(list, s, on)) = EnabledIn(list) \union (IF on THEN {s} ELSE {})
           /\ Once(list) /\ s \notin NamesIn(list) => Once(Append1(list, s, on))
<1> DEFINE e == [name |-> s, on |-> on]
           a == Append(list, e)
<1>1. e \in Source /\ e.name = s /\ e.on = on
  BY DEF Source
<1> HIDE DEF e
<1>2. /\ a \in Seq(Source) /\ DOMAIN a = DOMAIN list \union {Len(list) + 1}
      /\ \A i \in DOMAIN list : a[i] = list[i]
      /\ a[Len(list) + 1] = e
  BY <1>1
<1>3. Append1(list, s, on) = a
  BY DEF Append1, e
<1> HIDE DEF a
<1>4. NamesIn(a) = NamesIn(list) \union {s}
  BY <1>1, <1>2 DEF NamesIn
<1>5. EnabledIn(a) = EnabledIn(list) \union (IF on THEN {s} ELSE {})
  <2>1. OnIndices(a) = OnIndices(list) \union (IF on THEN {Len(list) + 1} ELSE {})
    BY <1>1, <1>2 DEF OnIndices
  <2> QED  BY <1>1, <1>2, <2>1 DEF EnabledIn, OnIndices
<1>6. Once(list) /\ s \notin NamesIn(list) => Once(a)
  BY <1>1, <1>2 DEF Once, NamesIn
<1> QED  BY <1>2, <1>3, <1>4, <1>5, <1>6

\* What removing one does: the first of that name goes, the others stay.
LEMMA DropFacts ==
    ASSUME NEW list \in Seq(Source), NEW s \in NamesIn(list)
    PROVE  /\ Drop(list, s) \in Seq(Source)
           /\ NamesIn(Drop(list, s)) \subseteq NamesIn(list)
           /\ NamesIn(list) \ {s} \subseteq NamesIn(Drop(list, s))
           /\ EnabledIn(list) \ {s} \subseteq EnabledIn(Drop(list, s))
           /\ Once(list) => Once(Drop(list, s))
<1> DEFINE k == IndexOf(list, s)
           d == RemoveAt(list, k)
<1>1. k \in 1 .. Len(list) /\ list[k].name = s
  BY IndexFound
<1>2. Drop(list, s) = d
  BY DEF Drop
<1> HIDE DEF k
<1>3. /\ d \in Seq(Source) /\ Len(d) = Len(list) - 1
      /\ \A j \in 1 .. Len(list) - 1 : d[j] = IF j < k THEN list[j] ELSE list[j + 1]
  BY <1>1, RemoveAtFacts
<1> HIDE DEF d
<1>4. \A j \in DOMAIN d : \E i \in DOMAIN list : d[j] = list[i]
  <2> TAKE j \in DOMAIN d
  <2>1. j \in 1 .. Len(list) - 1 /\ j \in DOMAIN list /\ j + 1 \in DOMAIN list
    BY <1>3
  <2> QED  BY <1>3, <2>1
<1>5. \A i \in DOMAIN list : i # k => \E j \in DOMAIN d : d[j] = list[i]
  <2> SUFFICES ASSUME NEW i \in DOMAIN list, i # k  PROVE \E j \in DOMAIN d : d[j] = list[i]
    OBVIOUS
  <2>1. CASE i < k
    <3>1. i \in DOMAIN d /\ i \in 1 .. Len(list) - 1
      BY <1>1, <1>3, <2>1
    <3> QED  BY <1>3, <2>1, <3>1
  <2>2. CASE i > k
    <3>1. i - 1 \in DOMAIN d /\ i - 1 \in 1 .. Len(list) - 1 /\ ~(i - 1 < k) /\ (i - 1) + 1 = i
      BY <1>1, <1>3, <2>2
    <3>2. d[i - 1] = list[(i - 1) + 1]
      BY <1>3, <3>1
    <3> QED  BY <3>1, <3>2
  <2> QED  BY <1>1, <2>1, <2>2
<1>6. NamesIn(d) \subseteq NamesIn(list)
  BY <1>4 DEF NamesIn
<1>7. NamesIn(list) \ {s} \subseteq NamesIn(d)
  <2> SUFFICES ASSUME NEW i \in DOMAIN list, list[i].name # s  PROVE list[i].name \in NamesIn(d)
    BY DEF NamesIn
  <2> QED  BY <1>1, <1>5 DEF NamesIn
<1>8. EnabledIn(list) \ {s} \subseteq EnabledIn(d)
  <2> SUFFICES ASSUME NEW i \in DOMAIN list, list[i].on, list[i].name # s
               PROVE  list[i].name \in EnabledIn(d)
    BY DEF EnabledIn, OnIndices
  <2>1. PICK j \in DOMAIN d : d[j] = list[i]
    BY <1>1, <1>5
  <2> QED  BY <2>1 DEF EnabledIn, OnIndices
<1>9. Once(list) => Once(d)
  <2> SUFFICES ASSUME Once(list), NEW i \in DOMAIN d, NEW j \in DOMAIN d, d[i].name = d[j].name
               PROVE  i = j
    BY DEF Once
  <2> DEFINE at(x) == IF x < k THEN x ELSE x + 1
  <2>1. \A x \in DOMAIN d : x \in 1 .. Len(list) - 1 /\ at(x) \in DOMAIN list /\ d[x] = list[at(x)]
    BY <1>1, <1>3
  <2>2. at(i) = at(j)
    <3> HIDE DEF at
    <3> QED  BY <2>1 DEF Once
  <2>3. i \in Int /\ j \in Int /\ k \in Int
    BY <1>1, <2>1
  <2> QED  BY <2>2, <2>3
<1> QED  BY <1>2, <1>3, <1>6, <1>7, <1>8, <1>9

\* What enabling or disabling one does.
LEMMA SetOnFacts ==
    ASSUME NEW list \in Seq(Source), NEW s \in NamesIn(list), NEW on \in BOOLEAN
    PROVE  /\ SetOn(list, s, on) \in Seq(Source)
           /\ NamesIn(SetOn(list, s, on)) = NamesIn(list)
           /\ EnabledIn(list) \ {s} \subseteq EnabledIn(SetOn(list, s, on))
           /\ on => s \in EnabledIn(SetOn(list, s, on))
           /\ Once(list) => Once(SetOn(list, s, on))
<1> DEFINE k == IndexOf(list, s)
           a == [list EXCEPT ![k].on = on]
<1>1. k \in 1 .. Len(list) /\ list[k].name = s
  BY IndexFound
<1>2. SetOn(list, s, on) = a
  BY DEF SetOn
<1> HIDE DEF k
<1>3. /\ a \in Seq(Source) /\ DOMAIN a = DOMAIN list
      /\ \A i \in DOMAIN list : a[i].name = list[i].name
      /\ \A i \in DOMAIN list : i # k => a[i] = list[i]
      /\ a[k].on = on
  <2>0. list[k] \in Source
    BY <1>1
  <2>1. [list[k] EXCEPT !.on = on] \in Source
    BY <2>0 DEF Source
  <2>2. a = [list EXCEPT ![k] = [list[k] EXCEPT !.on = on]]
    BY <1>1
  <2>3. [list[k] EXCEPT !.on = on].name = list[k].name /\ [list[k] EXCEPT !.on = on].on = on
    BY <2>0 DEF Source
  <2> QED  BY <1>1, <2>1, <2>2, <2>3, ExceptSeq
<1> HIDE DEF a
<1>4. NamesIn(a) = NamesIn(list)
  BY <1>3 DEF NamesIn
<1>5. EnabledIn(list) \ {s} \subseteq EnabledIn(a)
  <2> SUFFICES ASSUME NEW i \in DOMAIN list, list[i].on, list[i].name # s
               PROVE  list[i].name \in EnabledIn(a)
    BY DEF EnabledIn, OnIndices
  <2>1. i # k
    BY <1>1
  <2> QED  BY <1>3, <2>1 DEF EnabledIn, OnIndices
<1>6. on => s \in EnabledIn(a)
  <2>1. k \in DOMAIN a /\ a[k].name = s /\ a[k].on = on
    BY <1>1, <1>3
  <2> QED  BY <2>1 DEF EnabledIn, OnIndices
<1>7. Once(list) => Once(a)
  BY <1>3 DEF Once
<1> QED  BY <1>2, <1>3, <1>4, <1>5, <1>6, <1>7

\* What giving one another name does.
LEMMA RenameFacts ==
    ASSUME NEW list \in Seq(Source), NEW s \in NamesIn(list), NEW t \in Name
    PROVE  LET a == [list EXCEPT ![IndexOf(list, s)].name = t]
           IN  a \in Seq(Source) /\ NamesIn(a) \subseteq NamesIn(list) \union {t}
               /\ (NamesIn(list) \ {s}) \union {t} \subseteq NamesIn(a)
               /\ (Once(list) /\ t \notin NamesIn(list) => Once(a))
<1> DEFINE k == IndexOf(list, s)
           a == [list EXCEPT ![k].name = t]
<1>1. k \in 1 .. Len(list) /\ list[k].name = s
  BY IndexFound
<1> SUFFICES a \in Seq(Source) /\ NamesIn(a) \subseteq NamesIn(list) \union {t}
             /\ (NamesIn(list) \ {s}) \union {t} \subseteq NamesIn(a)
             /\ (Once(list) /\ t \notin NamesIn(list) => Once(a))
  OBVIOUS
<1> HIDE DEF k
<1>2. /\ a \in Seq(Source) /\ DOMAIN a = DOMAIN list
      /\ \A i \in DOMAIN list : i # k => a[i] = list[i]
      /\ a[k].name = t
  <2>0. list[k] \in Source
    BY <1>1
  <2>1. [list[k] EXCEPT !.name = t] \in Source /\ [list[k] EXCEPT !.name = t].name = t
    BY <2>0 DEF Source
  <2>2. a = [list EXCEPT ![k] = [list[k] EXCEPT !.name = t]]
    BY <1>1
  <2> QED  BY <1>1, <2>1, <2>2, ExceptSeq
<1> HIDE DEF a
<1>3. NamesIn(a) \subseteq NamesIn(list) \union {t} /\ (NamesIn(list) \ {s}) \union {t} \subseteq NamesIn(a)
  BY <1>1, <1>2 DEF NamesIn
<1>4. Once(list) /\ t \notin NamesIn(list) => Once(a)
  BY <1>1, <1>2 DEF Once, NamesIn
<1> QED  BY <1>2, <1>3, <1>4

-----------------------------------------------------------------------------
(* Configurations.                                                         *)

\* A configuration as far as sources are concerned; the nodes and the rules
\* may be anything.
Shaped(cfg) ==
    cfg \in [subs : Seq(Source), groups : Seq(Source), nodes : {cfg.nodes}, rules : {cfg.rules},
             active : Name \union {""}, target : Ref \union {""}, mode : {cfg.mode}]

\* The url-test group of a source is not itself the name of a source.
AutosApart == \A s \in Name : AutoOf(s) \notin Name

\* The active source is enabled, and a target that is a source's is one's that
\* is there.
Live(cfg)  == cfg.active # "" => cfg.active \in Enabled(cfg)
Aimed(cfg) == AutosApart =>
    \A s \in Name : cfg.target \in {s, AutoOf(s)} => s \in Sources(cfg)

\* No two subscriptions and no two groups share a name.
Unrepeated(cfg) == Once(cfg.subs) /\ Once(cfg.groups)

\* The same sources, active source and target.
Same(cfg, c) == /\ Shaped(c) /\ c.subs = cfg.subs /\ c.groups = cfg.groups
                /\ c.active = cfg.active /\ c.target = cfg.target

\* What is said of sources is said of them wherever they are the same.
LEMMA SameFacts ==
    ASSUME NEW cfg, NEW c, Same(cfg, c)
    PROVE  (Live(cfg) => Live(c)) /\ (Aimed(cfg) => Aimed(c))
BY DEF Same, Live, Aimed, Enabled, Sources

\* Names are not empty, and no policy of vpnkit's own.
LEMMA Names ==
    /\ "" \notin Name /\ \A s \in Name : AutoOf(s) \in Ref /\ AutoOf(s) # "" /\ s \in Ref
    /\ "DIRECT" \in Ref /\ "DIRECT" \notin Name /\ \A s \in Name : AutoOf(s) # "DIRECT"
<1>1. Name \subseteq Ref /\ \A s \in Name : AutoOf(s) \in Ref
  BY DEF Ref
<1>2. "DIRECT" \in Reserved /\ Reserved \subseteq Ref
  BY DEF Reserved, BuiltIn, Ref
<1>3. "" \notin Ref
  BY NamesAreTexts
<1>4. Name \intersect Reserved = {}
  BY NamesAreTexts
<1>5. \A s \in Name : AutoOf(s) \notin Reserved
  BY NamesAreTexts
<1>6. "" \notin Name /\ \A s \in Name : AutoOf(s) # "" /\ s \in Ref
  BY <1>1, <1>3
<1>7. "DIRECT" \notin Name /\ \A s \in Name : AutoOf(s) # "DIRECT"
  BY <1>2, <1>4, <1>5
<1> QED  BY <1>1, <1>2, <1>6, <1>7

\* Sources of different names have different url-test groups.
LEMMA AutosDiffer == \A s, t \in Name : AutoOf(s) = AutoOf(t) => s = t
BY NamesAreTexts

\* A node's qualified name is no source's.
LEMMA NodesQualified == \A s \in Name, n \in NodeName : NodeOf(s, n) \notin Name
BY NamesAreTexts

\* Sources have names.
LEMMA SourcesNamed ==
    ASSUME NEW list \in Seq(Source)
    PROVE  EnabledIn(list) \subseteq NamesIn(list) /\ NamesIn(list) \subseteq Name
<1>1. \A i \in DOMAIN list : list[i] \in Source
  OBVIOUS
<1>2. \A i \in DOMAIN list : list[i].name \in Name
  BY <1>1 DEF Source
<1> QED  BY <1>2 DEF EnabledIn, NamesIn, OnIndices

\* The first enabled source is an enabled source.
LEMMA FirstEnabledFound ==
    ASSUME NEW cfg, Shaped(cfg)
    PROVE  FirstEnabled(cfg) # "" =>
               FirstEnabled(cfg) \in Enabled(cfg) /\ FirstEnabled(cfg) \in Name
<1>1. cfg.subs \in Seq(Source) /\ cfg.groups \in Seq(Source)
  BY DEF Shaped
<1> QED  BY <1>1, FirstOnFound, SourcesNamed DEF FirstEnabled, Enabled

-----------------------------------------------------------------------------
(* The operations.                                                         *)

\* Load keeps the sources it reads, may add the default group, and leaves the
\* active source and the target among them.
LEMMA LoadFacts ==
    ASSUME NEW cfg, Shaped(cfg)
    PROVE  LET c == Load(cfg) IN
           /\ Shaped(c) /\ c.subs = cfg.subs
           /\ NamesIn(cfg.groups) \subseteq NamesIn(c.groups)
           /\ NamesIn(c.groups) \subseteq NamesIn(cfg.groups) \union {DefaultGroup}
           /\ Live(cfg) => Live(c)
           /\ Aimed(cfg) => Aimed(c)
           /\ Unrepeated(cfg) => Unrepeated(c)
           /\ (\E i \in DOMAIN cfg.nodes : cfg.nodes[i].group = "")
                => DefaultGroup \in NamesIn(c.groups)
<1> DEFINE a == ResetTarget(cfg)
           b == GroupOrphans(a)
           d == BumpTarget(b)
           e == DeriveActive(d)
<1>1. /\ Shaped(a) /\ a.subs = cfg.subs /\ a.groups = cfg.groups /\ a.active = cfg.active
      /\ a.target \in {cfg.target, "DIRECT"} /\ a.nodes = cfg.nodes
  BY Names DEF ResetTarget, Shaped
<1>2. /\ Shaped(b) /\ b.subs = a.subs /\ b.active = a.active /\ b.target = a.target
      /\ NamesIn(a.groups) \subseteq NamesIn(b.groups)
      /\ NamesIn(b.groups) \subseteq NamesIn(a.groups) \union {DefaultGroup}
      /\ EnabledIn(a.groups) \subseteq EnabledIn(b.groups)
      /\ Once(a.groups) => Once(b.groups)
      /\ (\E i \in DOMAIN a.nodes : a.nodes[i].group = "") => DefaultGroup \in NamesIn(b.groups)
  <2> DEFINE bare == {i \in DOMAIN a.nodes : a.nodes[i].group = ""}
             grouped == [i \in DOMAIN a.nodes |->
                           IF i \in bare THEN [a.nodes[i] EXCEPT !.group = DefaultGroup]
                                         ELSE a.nodes[i]]
             one == << [name |-> DefaultGroup, on |-> TRUE] >>
             created == IF bare = {} \/ DefaultGroup \in NamesIn(a.groups) THEN <<>> ELSE one
  <2>1. b = [a EXCEPT !.nodes = grouped, !.groups = @ \o created]
    BY DEF GroupOrphans
  <2>0. bare = {} => ~\E i \in DOMAIN a.nodes : a.nodes[i].group = ""
    OBVIOUS
  <2> HIDE DEF a, b, grouped, bare
  <2>2. [a EXCEPT !.nodes = grouped, !.groups = @ \o created]
          = [[a EXCEPT !.nodes = grouped] EXCEPT !.groups = a.groups \o created]
    BY <1>1 DEF Shaped
  <2>3. a.groups \in Seq(Source)
    BY <1>1 DEF Shaped
  <2>4. one \in Seq(Source) /\ a.groups \o one = Append1(a.groups, DefaultGroup, TRUE)
    <3>1. [name |-> DefaultGroup, on |-> TRUE] \in Source
      BY NamesAreTexts DEF Source
    <3> QED  BY <2>3, <3>1 DEF Append1
  <2>5. \/ a.groups \o created = a.groups /\ (bare = {} \/ DefaultGroup \in NamesIn(a.groups))
        \/ /\ a.groups \o created = Append1(a.groups, DefaultGroup, TRUE)
           /\ DefaultGroup \notin NamesIn(a.groups)
    <3>1. a.groups \o <<>> = a.groups
      BY <2>3, ConcatEmptySeq
    <3> HIDE DEF one
    <3>2. CASE bare = {} \/ DefaultGroup \in NamesIn(a.groups)
      <4>1. created = <<>>
        BY <3>2
      <4> QED  BY <3>1, <3>2, <4>1
    <3>3. CASE ~(bare = {} \/ DefaultGroup \in NamesIn(a.groups))
      <4>1. created = one
        BY <3>3
      <4> QED  BY <2>4, <3>3, <4>1
    <3> QED  BY <3>2, <3>3
  <2> HIDE DEF created
  <2>6. /\ a.groups \o created \in Seq(Source)
        /\ NamesIn(a.groups) \subseteq NamesIn(a.groups \o created)
        /\ NamesIn(a.groups \o created) \subseteq NamesIn(a.groups) \union {DefaultGroup}
        /\ EnabledIn(a.groups) \subseteq EnabledIn(a.groups \o created)
        /\ Once(a.groups) => Once(a.groups \o created)
        /\ bare # {} => DefaultGroup \in NamesIn(a.groups \o created)
    <3>1. DefaultGroup \in Name
      BY NamesAreTexts
    <3> DEFINE x == Append1(a.groups, DefaultGroup, TRUE)
    <3>2. /\ x \in Seq(Source) /\ NamesIn(x) = NamesIn(a.groups) \union {DefaultGroup}
          /\ EnabledIn(x) = EnabledIn(a.groups) \union {DefaultGroup}
          /\ (Once(a.groups) /\ DefaultGroup \notin NamesIn(a.groups) => Once(x))
      BY <2>3, <3>1, Append1Facts
    <3> HIDE DEF x
    <3>3. CASE a.groups \o created = a.groups /\ (bare = {} \/ DefaultGroup \in NamesIn(a.groups))
      BY <2>3, <3>3
    <3>4. CASE a.groups \o created = x /\ DefaultGroup \notin NamesIn(a.groups)
      BY <3>2, <3>4
    <3> QED  BY <2>5, <3>3, <3>4 DEF x
  <2> DEFINE m == [a EXCEPT !.nodes = grouped]
  <2>7. Same(a, m)
    BY <1>1 DEF Shaped, Same
  <2>8. b = [m EXCEPT !.groups = a.groups \o created]
    BY <2>1, <2>2
  <2> HIDE DEF m
  <2>9. Shaped(m) /\ m.subs = a.subs /\ m.active = a.active /\ m.target = a.target
    BY <2>7 DEF Same
  <2>10. /\ Shaped(b) /\ b.groups = a.groups \o created /\ b.subs = m.subs
         /\ b.active = m.active /\ b.target = m.target
    BY <2>6, <2>8, <2>9 DEF Shaped
  <2> QED  BY <2>0, <2>6, <2>9, <2>10
<1>3. /\ Shaped(d) /\ d.subs = b.subs /\ d.groups = b.groups /\ d.active = b.active
      /\ d.target = b.target \/ \E s \in Name : s \in Enabled(b) /\ d.target = AutoOf(s)
  <2> HIDE DEF b
  <2>1. CASE b.target = "DIRECT" /\ FirstEnabled(b) # ""
    <3>1. FirstEnabled(b) \in Enabled(b) /\ FirstEnabled(b) \in Name
      BY <1>2, <2>1, FirstEnabledFound
    <3>2. AutoOf(FirstEnabled(b)) \in Ref \union {""}
      BY <3>1, Names
    <3>3. d = [b EXCEPT !.target = AutoOf(FirstEnabled(b))]
      BY <2>1 DEF BumpTarget
    <3> HIDE DEF d
    <3> QED  BY <1>2, <3>1, <3>2, <3>3 DEF Shaped
  <2>2. CASE ~(b.target = "DIRECT" /\ FirstEnabled(b) # "")
    <3>1. d = b
      BY <2>2 DEF BumpTarget
    <3> QED  BY <1>2, <3>1
  <2> QED  BY <2>1, <2>2
<1>4. /\ Shaped(e) /\ e.subs = d.subs /\ e.groups = d.groups /\ e.target = d.target
      /\ e.active = d.active \/ e.active \in Enabled(d) \union {""}
  <2> HIDE DEF d
  <2>1. DerivedActive(d) # "" => DerivedActive(d) \in Enabled(d)
    BY DEF DerivedActive
  <2>2. Enabled(d) \subseteq Name
    BY <1>3, SourcesNamed DEF Enabled, Shaped
  <2>3. FirstEnabled(d) \in Enabled(d) \union {""}
    BY <1>3, FirstEnabledFound
  <2>4. e = d \/ \E x \in Enabled(d) \union {""} : e = [d EXCEPT !.active = x]
    BY <2>1, <2>3 DEF DeriveActive
  <2> HIDE DEF e
  <2>5. CASE e = d
    BY <1>3, <2>5
  <2>6. ASSUME NEW x \in Enabled(d) \union {""}, e = [d EXCEPT !.active = x]
        PROVE  /\ Shaped(e) /\ e.subs = d.subs /\ e.groups = d.groups /\ e.target = d.target
               /\ e.active = x
    <3>1. x \in Name \union {""} /\ Shaped(d)
      BY <1>3, <2>2
    <3> HIDE DEF e
    <3> QED  BY <2>6, <3>1 DEF Shaped
  <2> QED  BY <2>4, <2>5, <2>6
<1>5. Load(cfg) = e
  BY DEF Load
<1> HIDE DEF a, b, d, e
<1>6. Enabled(cfg) \subseteq Enabled(e) /\ Enabled(d) = Enabled(e) /\ Enabled(b) = Enabled(e)
      /\ Sources(cfg) \subseteq Sources(e)
  BY <1>1, <1>2, <1>3, <1>4 DEF Enabled, Sources
<1>7. Live(cfg) => Live(e)
  BY <1>1, <1>2, <1>3, <1>4, <1>6 DEF Live
<1>8. Aimed(cfg) => Aimed(e)
  <2> SUFFICES ASSUME Aimed(cfg), AutosApart, NEW s \in Name, e.target \in {s, AutoOf(s)}
               PROVE  s \in Sources(e)
    BY DEF Aimed
  <2>1. CASE e.target = cfg.target
    BY <1>6, <2>1 DEF Aimed
  <2>2. CASE e.target = "DIRECT"
    BY <2>2, Names
  <2>3. CASE \E t \in Name : t \in Enabled(b) /\ e.target = AutoOf(t)
    <3>1. Enabled(e) \subseteq Sources(e)
      BY <1>4, SourcesNamed DEF Enabled, Sources, Shaped
    <3>2. PICK t \in Name : t \in Enabled(b) /\ e.target = AutoOf(t)
      BY <2>3
    <3>3. s = t
      BY <3>2, AutosDiffer DEF AutosApart
    <3> QED  BY <1>6, <3>1, <3>2, <3>3
  <2> QED  BY <1>1, <1>2, <1>3, <1>4, <2>1, <2>2, <2>3
<1>9. Unrepeated(cfg) => Unrepeated(e)
  BY <1>1, <1>2, <1>3, <1>4 DEF Unrepeated
<1>10. (\E i \in DOMAIN cfg.nodes : cfg.nodes[i].group = "") => DefaultGroup \in NamesIn(e.groups)
  BY <1>1, <1>2, <1>3, <1>4
<1> QED  BY <1>1, <1>2, <1>3, <1>4, <1>5, <1>7, <1>8, <1>9, <1>10

\* The nudges of a source that has just been enabled.
LEMMA NudgeFacts ==
    ASSUME NEW cfg, Shaped(cfg), NEW s \in Name, s \in Enabled(cfg)
    PROVE  LET c == NudgeActive(NudgeTarget(cfg, s), s) IN
           /\ Shaped(c) /\ c.subs = cfg.subs /\ c.groups = cfg.groups
           /\ Live(cfg) => Live(c)
           /\ Aimed(cfg) => Aimed(c)
<1> DEFINE a == NudgeTarget(cfg, s)
           c == NudgeActive(a, s)
<1>1. /\ Shaped(a) /\ a.subs = cfg.subs /\ a.groups = cfg.groups /\ a.active = cfg.active
      /\ a.target \in {cfg.target, AutoOf(s)}
  <2>1. AutoOf(s) \in Ref \union {""}
    BY Names
  <2>2. a = cfg \/ a = [cfg EXCEPT !.target = AutoOf(s)]
    BY DEF NudgeTarget
  <2> HIDE DEF a
  <2> QED  BY <2>1, <2>2 DEF Shaped
<1> HIDE DEF a
<1>2. /\ Shaped(c) /\ c.subs = a.subs /\ c.groups = a.groups /\ c.target = a.target
      /\ c.active \in {a.active, s}
  <2>1. c = a \/ c = [a EXCEPT !.active = s]
    BY DEF NudgeActive
  <2> HIDE DEF c
  <2> QED  BY <1>1, <2>1 DEF Shaped
<1> HIDE DEF c
<1>3. Enabled(c) = Enabled(cfg) /\ Sources(c) = Sources(cfg)
  BY <1>1, <1>2 DEF Enabled, Sources
<1>4. s \in Sources(cfg)
  BY SourcesNamed DEF Shaped, Enabled, Sources
<1>5. Live(cfg) => Live(c)
  BY <1>1, <1>2, <1>3 DEF Live
<1>6. Aimed(cfg) => Aimed(c)
  <2> SUFFICES ASSUME Aimed(cfg), AutosApart, NEW t \in Name, c.target \in {t, AutoOf(t)}
               PROVE  t \in Sources(c)
    BY DEF Aimed
  <2>1. CASE c.target = cfg.target
    BY <1>3, <2>1 DEF Aimed
  <2>2. CASE c.target = AutoOf(s)
    <3>1. t = s
      BY <2>2, AutosDiffer DEF AutosApart
    <3> QED  BY <1>3, <1>4, <3>1
  <2> QED  BY <1>1, <1>2, <2>1, <2>2
<1> QED  BY <1>1, <1>2, <1>5, <1>6 DEF a, c

\* A subscription more, with the nudges or without.
LEMMA AddSubFacts ==
    ASSUME NEW cfg, Shaped(cfg), NEW s \in Name, NEW c,
           c \in {AddSubscription(cfg, s), RunSubsAdd(cfg, s)}
    PROVE  /\ Shaped(c) /\ c.groups = cfg.groups /\ NamesIn(c.subs) = NamesIn(cfg.subs) \union {s}
           /\ Live(cfg) => Live(c)
           /\ Aimed(cfg) => Aimed(c)
           /\ Unrepeated(cfg) /\ s \notin NamesIn(cfg.subs) => Unrepeated(c)
<1> DEFINE x == Append1(cfg.subs, s, TRUE)
           m == [cfg EXCEPT !.subs = x]
<1>1. c \in {m, NudgeActive(NudgeTarget(m, s), s)}
  BY DEF AddSubscription, RunSubsAdd
<1>2. cfg.subs \in Seq(Source) /\ cfg.groups \in Seq(Source)
  BY DEF Shaped
<1>3. /\ x \in Seq(Source) /\ NamesIn(x) = NamesIn(cfg.subs) \union {s}
      /\ EnabledIn(x) = EnabledIn(cfg.subs) \union {s}
      /\ (Once(cfg.subs) /\ s \notin NamesIn(cfg.subs) => Once(x))
  BY <1>2, Append1Facts
<1> HIDE DEF x
<1>4. /\ Shaped(m) /\ m.subs = x /\ m.groups = cfg.groups /\ m.active = cfg.active
      /\ m.target = cfg.target
  BY <1>3 DEF Shaped
<1> HIDE DEF m
<1>5. /\ s \in Enabled(m) /\ Enabled(cfg) \subseteq Enabled(m)
      /\ Sources(cfg) \subseteq Sources(m)
  BY <1>3, <1>4 DEF Enabled, Sources
<1>6. (Live(cfg) => Live(m)) /\ (Aimed(cfg) => Aimed(m))
  BY <1>4, <1>5 DEF Live, Aimed
<1>7. CASE c = m
  BY <1>3, <1>4, <1>6, <1>7 DEF Unrepeated
<1>8. CASE c = NudgeActive(NudgeTarget(m, s), s)
  BY <1>3, <1>4, <1>5, <1>6, <1>8, NudgeFacts DEF Unrepeated
<1> QED  BY <1>1, <1>7, <1>8

\* A group more, with the nudges or with the node that asked for it.
LEMMA AddGroupFacts ==
    ASSUME NEW cfg, Shaped(cfg), NEW s \in Name, NEW c,
           \/ c = AddLocalGroup(cfg, s)
           \/ \E x : c = [cfg EXCEPT !.nodes = x, !.groups = Append1(@, s, TRUE)]
    PROVE  /\ Shaped(c) /\ c.subs = cfg.subs /\ NamesIn(c.groups) = NamesIn(cfg.groups) \union {s}
           /\ Live(cfg) => Live(c)
           /\ Aimed(cfg) => Aimed(c)
           /\ Unrepeated(cfg) /\ s \notin NamesIn(cfg.groups) => Unrepeated(c)
<1> DEFINE x == Append1(cfg.groups, s, TRUE)
<1>2. cfg.subs \in Seq(Source) /\ cfg.groups \in Seq(Source)
  BY DEF Shaped
<1>3. /\ x \in Seq(Source) /\ NamesIn(x) = NamesIn(cfg.groups) \union {s}
      /\ EnabledIn(x) = EnabledIn(cfg.groups) \union {s}
      /\ (Once(cfg.groups) /\ s \notin NamesIn(cfg.groups) => Once(x))
  BY <1>2, Append1Facts
<1>4. ASSUME NEW k, Shaped(k), Same(cfg, k), NEW m, m = [k EXCEPT !.groups = x]
      PROVE  /\ Shaped(m) /\ NamesIn(m.groups) = NamesIn(cfg.groups) \union {s} /\ m.subs = cfg.subs
             /\ s \in Enabled(m) /\ (Live(cfg) => Live(m)) /\ (Aimed(cfg) => Aimed(m))
             /\ (Unrepeated(cfg) /\ s \notin NamesIn(cfg.groups) => Unrepeated(m))
  <2> HIDE DEF x
  <2>1. /\ Shaped(m) /\ m.groups = x /\ m.subs = cfg.subs /\ m.active = cfg.active
        /\ m.target = cfg.target
    BY <1>3, <1>4 DEF Same, Shaped
  <2>2. /\ s \in Enabled(m) /\ Enabled(cfg) \subseteq Enabled(m)
        /\ Sources(cfg) \subseteq Sources(m)
    BY <1>3, <2>1 DEF Enabled, Sources
  <2> QED  BY <1>3, <2>1, <2>2 DEF Live, Aimed, Unrepeated
<1>5. Same(cfg, cfg)
  BY DEF Same
<1>6. CASE c = AddLocalGroup(cfg, s)
  <2> DEFINE m == [cfg EXCEPT !.groups = x]
  <2>1. c = NudgeActive(NudgeTarget(m, s), s)
    BY <1>6 DEF AddLocalGroup
  <2>2. /\ Shaped(m) /\ NamesIn(m.groups) = NamesIn(cfg.groups) \union {s} /\ m.subs = cfg.subs
        /\ s \in Enabled(m) /\ (Live(cfg) => Live(m)) /\ (Aimed(cfg) => Aimed(m))
        /\ (Unrepeated(cfg) /\ s \notin NamesIn(cfg.groups) => Unrepeated(m))
    BY <1>4, <1>5
  <2> HIDE DEF m
  <2> QED  BY <2>1, <2>2, NudgeFacts DEF Unrepeated
<1>7. ASSUME NEW y, c = [cfg EXCEPT !.nodes = y, !.groups = Append1(@, s, TRUE)]
      PROVE  /\ Shaped(c) /\ c.subs = cfg.subs /\ NamesIn(c.groups) = NamesIn(cfg.groups) \union {s}
             /\ (Live(cfg) => Live(c)) /\ (Aimed(cfg) => Aimed(c))
             /\ (Unrepeated(cfg) /\ s \notin NamesIn(cfg.groups) => Unrepeated(c))
  <2> DEFINE k == [cfg EXCEPT !.nodes = y]
  <2>1. Same(cfg, k) /\ Shaped(k)
    BY DEF Same, Shaped
  <2>2. c = [k EXCEPT !.groups = x]
    BY <1>7 DEF Shaped
  <2> HIDE DEF k, x
  <2> QED  BY <1>4, <2>1, <2>2
<1> QED  BY <1>6, <1>7

\* A subscription less: nothing refers to it any more.
LEMMA DeleteSubFacts ==
    ASSUME NEW cfg, Shaped(cfg), NEW s \in NamesIn(cfg.subs)
    PROVE  LET c == DeleteSubscription(cfg, s) IN
           /\ Shaped(c) /\ c.groups = cfg.groups
           /\ NamesIn(c.subs) \subseteq NamesIn(cfg.subs)
           /\ NamesIn(cfg.subs) \ {s} \subseteq NamesIn(c.subs)
           /\ Live(cfg) => Live(c)
           /\ Aimed(cfg) => Aimed(c)
           /\ Unrepeated(cfg) => Unrepeated(c)
<1> DEFINE x == Drop(cfg.subs, s)
           m == [cfg EXCEPT !.subs = x]
           a == ClearActive(m, s)
           c == DeleteSubscription(cfg, s)
<1>1. /\ x \in Seq(Source) /\ NamesIn(x) \subseteq NamesIn(cfg.subs)
      /\ NamesIn(cfg.subs) \ {s} \subseteq NamesIn(x)
      /\ EnabledIn(cfg.subs) \ {s} \subseteq EnabledIn(x) /\ (Once(cfg.subs) => Once(x))
  BY DropFacts DEF Shaped
<1>2. c = IF a.target \in {s, AutoOf(s)} THEN [a EXCEPT !.target = ""] ELSE a
  BY DEF DeleteSubscription
<1> HIDE DEF x
<1>3. /\ Shaped(m) /\ m.subs = x /\ m.groups = cfg.groups /\ m.active = cfg.active
      /\ m.target = cfg.target
  BY <1>1 DEF Shaped
<1> HIDE DEF m
<1>4. /\ Shaped(a) /\ a.subs = x /\ a.groups = cfg.groups /\ a.target = cfg.target
      /\ a.active = IF cfg.active = s THEN "" ELSE cfg.active
  BY <1>3 DEF ClearActive, Shaped
<1> HIDE DEF a, c
<1>5. /\ Shaped(c) /\ c.subs = x /\ c.groups = cfg.groups /\ c.active = a.active
      /\ c.target = IF cfg.target \in {s, AutoOf(s)} THEN "" ELSE cfg.target
  BY <1>2, <1>4 DEF Shaped
<1>6. Enabled(cfg) \ {s} \subseteq Enabled(c) /\ Sources(cfg) \ {s} \subseteq Sources(c)
  BY <1>1, <1>5 DEF Enabled, Sources
<1>7. Live(cfg) => Live(c)
  BY <1>4, <1>5, <1>6 DEF Live
<1>8. Aimed(cfg) => Aimed(c)
  BY <1>5, <1>6, Names DEF Aimed
<1> QED  BY <1>1, <1>5, <1>7, <1>8 DEF c, Unrepeated

\* A group less, whatever becomes of its nodes: it is not active.
LEMMA DeleteGroupFacts ==
    ASSUME NEW cfg, Shaped(cfg), NEW g \in NamesIn(cfg.groups), NEW force
    PROVE  LET c == DeleteLocalGroup(cfg, g, force) IN
           /\ Shaped(c) /\ c.subs = cfg.subs /\ NamesIn(c.groups) \subseteq NamesIn(cfg.groups)
           /\ NamesIn(cfg.groups) \ {g} \subseteq NamesIn(c.groups)
           /\ Live(cfg) => Live(c)
           /\ Unrepeated(cfg) => Unrepeated(c)
<1> DEFINE x == Drop(cfg.groups, g)
           kept == IF force THEN Filtered(cfg.nodes, DOMAIN cfg.nodes \ NodesOf(cfg, g)) ELSE cfg.nodes
           c == DeleteLocalGroup(cfg, g, force)
<1>1. x \in Seq(Source) /\ NamesIn(x) \subseteq NamesIn(cfg.groups)
      /\ NamesIn(cfg.groups) \ {g} \subseteq NamesIn(x)
      /\ EnabledIn(cfg.groups) \ {g} \subseteq EnabledIn(x) /\ (Once(cfg.groups) => Once(x))
  BY DropFacts DEF Shaped
<1>2. c = ClearActive([cfg EXCEPT !.groups = Drop(@, g), !.nodes = kept], g)
  BY DEF DeleteLocalGroup
<1> HIDE DEF kept, c
<1> DEFINE k == [cfg EXCEPT !.nodes = kept]
           m == [k EXCEPT !.groups = x]
<1>3. Same(cfg, k)
  BY DEF Shaped, Same
<1>4. c = ClearActive(m, g)
  BY <1>2 DEF Shaped
<1> HIDE DEF x, k
<1>5. /\ Shaped(m) /\ m.groups = x /\ m.subs = cfg.subs /\ m.active = cfg.active
  BY <1>1, <1>3 DEF Same, Shaped
<1> HIDE DEF m
<1>6. /\ Shaped(c) /\ c.subs = cfg.subs /\ c.groups = x
      /\ c.active = IF cfg.active = g THEN "" ELSE cfg.active
  BY <1>4, <1>5 DEF ClearActive, Shaped
<1>7. Enabled(cfg) \ {g} \subseteq Enabled(c)
  BY <1>1, <1>6 DEF Enabled
<1>8. Live(cfg) => Live(c)
  BY <1>6, <1>7 DEF Live
<1> QED  BY <1>1, <1>6, <1>8 DEF c, Unrepeated

\* A source switched on or off is not active when it is off.
LEMMA SwitchSubFacts ==
    ASSUME NEW cfg, Shaped(cfg), NEW s \in NamesIn(cfg.subs), NEW on \in BOOLEAN
    PROVE  LET c == SetSubscriptionEnabled(cfg, s, on) IN
           /\ Shaped(c) /\ c.groups = cfg.groups /\ NamesIn(c.subs) = NamesIn(cfg.subs)
           /\ Live(cfg) => Live(c)
           /\ Aimed(cfg) => Aimed(c)
           /\ Unrepeated(cfg) => Unrepeated(c)
<1> DEFINE x == SetOn(cfg.subs, s, on)
           m == [cfg EXCEPT !.subs = x]
           c == SetSubscriptionEnabled(cfg, s, on)
<1>1. /\ x \in Seq(Source) /\ NamesIn(x) = NamesIn(cfg.subs)
      /\ EnabledIn(cfg.subs) \ {s} \subseteq EnabledIn(x) /\ (on => s \in EnabledIn(x))
      /\ (Once(cfg.subs) => Once(x))
  BY SetOnFacts DEF Shaped
<1>2. c = IF on THEN m ELSE ClearActive(m, s)
  BY DEF SetSubscriptionEnabled
<1> HIDE DEF x, c
<1>3. /\ Shaped(m) /\ m.subs = x /\ m.groups = cfg.groups /\ m.active = cfg.active
      /\ m.target = cfg.target
  BY <1>1 DEF Shaped
<1> HIDE DEF m
<1>4. /\ Shaped(c) /\ c.subs = x /\ c.groups = cfg.groups /\ c.target = cfg.target
      /\ c.active = IF ~on /\ cfg.active = s THEN "" ELSE cfg.active
  BY <1>2, <1>3 DEF ClearActive, Shaped
<1>5. /\ (Enabled(cfg) \ {s}) \union (IF on THEN {s} ELSE {}) \subseteq Enabled(c)
      /\ Sources(c) = Sources(cfg)
  BY <1>1, <1>4 DEF Enabled, Sources
<1> QED  BY <1>1, <1>4, <1>5 DEF Live, Aimed, Unrepeated, c

\* A group switched over: the same.
LEMMA SwitchGroupFacts ==
    ASSUME NEW cfg, Shaped(cfg), NEW g \in NamesIn(cfg.groups)
    PROVE  LET c == ToggleLocalGroupEnabled(cfg, g) IN
           /\ Shaped(c) /\ c.subs = cfg.subs /\ NamesIn(c.groups) = NamesIn(cfg.groups)
           /\ Live(cfg) => Live(c)
           /\ Aimed(cfg) => Aimed(c)
           /\ Unrepeated(cfg) => Unrepeated(c)
<1> DEFINE on == ~IsOn(cfg.groups, g)
           x == SetOn(cfg.groups, g, on)
           m == [cfg EXCEPT !.groups = x]
           c == ToggleLocalGroupEnabled(cfg, g)
<1>1. /\ x \in Seq(Source) /\ NamesIn(x) = NamesIn(cfg.groups)
      /\ EnabledIn(cfg.groups) \ {g} \subseteq EnabledIn(x)
      /\ IsOn(x, g) => g \in EnabledIn(x)
      /\ Once(cfg.groups) => Once(x)
  <2>1. cfg.groups \in Seq(Source) /\ on \in BOOLEAN
    BY DEF Shaped
  <2>2. /\ x \in Seq(Source) /\ NamesIn(x) = NamesIn(cfg.groups)
        /\ EnabledIn(cfg.groups) \ {g} \subseteq EnabledIn(x) /\ (Once(cfg.groups) => Once(x))
    <3> HIDE DEF on
    <3> QED  BY <2>1, SetOnFacts
  <2> HIDE DEF x
  <2>3. IndexOf(x, g) \in 1 .. Len(x) /\ x[IndexOf(x, g)].name = g
    BY <2>2, IndexFound
  <2> QED  BY <2>2, <2>3 DEF IsOn, EnabledIn, OnIndices
<1>2. c = IF IsOn(m.groups, g) THEN m ELSE ClearActive(m, g)
  BY DEF ToggleLocalGroupEnabled, Shaped
<1> HIDE DEF x, c
<1>3. /\ Shaped(m) /\ m.groups = x /\ m.subs = cfg.subs /\ m.active = cfg.active
      /\ m.target = cfg.target
  BY <1>1 DEF Shaped
<1> HIDE DEF m
<1>4. /\ Shaped(c) /\ c.groups = x /\ c.subs = cfg.subs /\ c.target = cfg.target
      /\ c.active = IF ~IsOn(x, g) /\ cfg.active = g THEN "" ELSE cfg.active
  BY <1>2, <1>3 DEF ClearActive, Shaped
<1>5. /\ Enabled(cfg) \ {g} \subseteq Enabled(c) /\ (IsOn(x, g) => g \in Enabled(c))
      /\ Sources(c) = Sources(cfg)
  BY <1>1, <1>4 DEF Enabled, Sources
<1> QED  BY <1>1, <1>4, <1>5 DEF Live, Aimed, Unrepeated, c

\* A group with another name.
LEMMA RenameGroupFacts ==
    ASSUME NEW cfg, Shaped(cfg), NEW g \in NamesIn(cfg.groups), NEW h \in Name
    PROVE  LET c == RenameLocalGroup(cfg, g, h) IN
           /\ Shaped(c) /\ c.subs = cfg.subs
           /\ NamesIn(c.groups) \subseteq NamesIn(cfg.groups) \union {h}
           /\ (NamesIn(cfg.groups) \ {g}) \union {h} \subseteq NamesIn(c.groups)
           /\ Unrepeated(cfg) /\ h \notin NamesIn(cfg.groups) => Unrepeated(c)
<1> DEFINE x == [cfg.groups EXCEPT ![IndexOf(cfg.groups, g)].name = h]
           c == RenameLocalGroup(cfg, g, h)
<1>1. /\ x \in Seq(Source) /\ NamesIn(x) \subseteq NamesIn(cfg.groups) \union {h}
      /\ (NamesIn(cfg.groups) \ {g}) \union {h} \subseteq NamesIn(x)
      /\ Once(cfg.groups) /\ h \notin NamesIn(cfg.groups) => Once(x)
  BY RenameFacts DEF Shaped
<1>2. \E y : c = [cfg EXCEPT !.groups = x, !.nodes = y]
  BY DEF RenameLocalGroup, Shaped
<1> HIDE DEF x, c
<1>3. Shaped(c) /\ c.subs = cfg.subs /\ c.groups = x
  BY <1>1, <1>2 DEF Shaped
<1> QED  BY <1>1, <1>3 DEF c, Unrepeated

\* Nodes, rules and mode are no matter of sources.
LEMMA OtherFacts ==
    ASSUME NEW cfg, Shaped(cfg), NEW c, NEW x,
           \/ c = [cfg EXCEPT !.nodes = x]
           \/ c = [cfg EXCEPT !.rules = x]
           \/ c = [cfg EXCEPT !.mode = x]
    PROVE  Same(cfg, c)
<1>1. CASE c = [cfg EXCEPT !.nodes = x]
  BY <1>1 DEF Shaped, Same
<1>2. CASE c = [cfg EXCEPT !.rules = x]
  BY <1>2 DEF Shaped, Same
<1>3. CASE c = [cfg EXCEPT !.mode = x]
  BY <1>3 DEF Shaped, Same
<1> QED  BY <1>1, <1>2, <1>3

\* An enabled source made the active one and the target.
LEMMA SetActiveFacts ==
    ASSUME NEW cfg, Shaped(cfg), NEW s \in Name, CanSetActiveSource(cfg, s)
    PROVE  LET c == SetActiveSource(cfg, s) IN
           /\ Shaped(c) /\ c.subs = cfg.subs /\ c.groups = cfg.groups
           /\ Live(c) /\ Aimed(c)
<1> DEFINE c == SetActiveSource(cfg, s)
<1>1. AutoOf(s) \in Ref \union {""}
  BY Names
<1>2. /\ Shaped(c) /\ c.subs = cfg.subs /\ c.groups = cfg.groups
      /\ c.active = s /\ c.target = AutoOf(s)
  BY <1>1 DEF SetActiveSource, Shaped
<1> HIDE DEF c
<1>3. s \in Enabled(c) /\ s \in Sources(c)
  BY <1>2, SourcesNamed DEF CanSetActiveSource, Enabled, Sources, Shaped
<1>4. Aimed(c)
  BY <1>2, <1>3, AutosDiffer DEF Aimed, AutosApart
<1> QED  BY <1>2, <1>3, <1>4 DEF Live, c

\* A target that passes validateTarget is aimed at a source that is there.
LEMMA SetTargetFacts ==
    ASSUME NEW cfg, Shaped(cfg), NEW t \in Ref, ValidTarget(cfg, t)
    PROVE  LET c == SetTarget(cfg, t) IN
           /\ Shaped(c) /\ c.subs = cfg.subs /\ c.groups = cfg.groups
           /\ Live(cfg) => Live(c)
           /\ Aimed(c)
<1> DEFINE c == SetTarget(cfg, t)
<1>1. /\ Shaped(c) /\ c.subs = cfg.subs /\ c.groups = cfg.groups
      /\ c.active = cfg.active /\ c.target = t
  BY DEF SetTarget, Shaped
<1> HIDE DEF c
<1>2. Sources(c) = Sources(cfg) /\ Enabled(c) = Enabled(cfg)
  BY <1>1 DEF Sources, Enabled
<1>3. ASSUME AutosApart, NEW s \in Name, t \in {s, AutoOf(s)}
      PROVE  s \in Sources(cfg)
  <2>1. t \notin BuiltIn
    BY <1>3, NamesAreTexts DEF Reserved
  <2>2. BaseOf(t) \in Sources(cfg)
    BY <2>1 DEF ValidTarget, Sources
  <2>3. CASE t = AutoOf(s)
    <3>1. BaseOf(t) = s
      BY <2>3, AutosDiffer DEF BaseOf
    <3> QED  BY <2>2, <3>1
  <2>4. CASE t = s
    <3>1. \A u \in Name : t # AutoOf(u)
      BY <1>3, <2>4 DEF AutosApart
    <3>2. \A u \in Name, n \in NodeName : t # NodeOf(u, n)
      BY <2>4, NodesQualified
    <3>3. BaseOf(t) = t
      BY <3>1, <3>2 DEF BaseOf
    <3> QED  BY <2>2, <2>4, <3>3
  <2> QED  BY <1>3, <2>3, <2>4
<1> QED  BY <1>1, <1>2, <1>3 DEF Live, Aimed, c

-----------------------------------------------------------------------------
(* Nodes and rules.                                                        *)

\* The places chosen from a list, in order and each once.
LEMMA FilteredFacts ==
    ASSUME NEW S, NEW list \in Seq(S), NEW places, places \subseteq DOMAIN list
    PROVE  LET a == Filtered(list, places) IN
           /\ a \in Seq(S)
           /\ \E f \in [DOMAIN a -> places] :
                /\ \A i, j \in DOMAIN a : f[i] = f[j] => i = j
                /\ \A i \in DOMAIN a : a[i] = list[f[i]]
<1> DEFINE c == Cardinality(places)
           f == InOrder(places)
           a == Filtered(list, places)
<1>1. DOMAIN list = 1 .. Len(list) /\ Len(list) \in Nat
  OBVIOUS
<1>2. c \in Nat /\ \E e \in [1 .. c -> places] : \A i, j \in 1 .. c : i < j => e[i] < e[j]
  BY <1>1, OrderExists
<1>3. f \in [1 .. c -> places] /\ \A i, j \in DOMAIN f : i < j => f[i] < f[j]
  <2>1. \E e \in [1 .. c -> places] : \A i, j \in DOMAIN e : i < j => e[i] < e[j]
    BY <1>2
  <2> QED  BY <2>1 DEF InOrder
<1>4. a = [k \in 1 .. c |-> list[f[k]]]
  BY DEF Filtered
<1> HIDE DEF c, f, a
<1>5. \A k \in 1 .. c : f[k] \in places /\ f[k] \in DOMAIN list /\ f[k] \in Nat
  BY <1>1, <1>3
<1>6. a \in [1 .. c -> S] /\ DOMAIN a = 1 .. c
  BY <1>1, <1>4, <1>5
<1>7. a \in Seq(S)
  BY <1>2, <1>6
<1>8. \A i, j \in 1 .. c : f[i] = f[j] => i = j
  <2> SUFFICES ASSUME NEW i \in 1 .. c, NEW j \in 1 .. c, f[i] = f[j], i < j PROVE FALSE
    BY <1>2
  <2> QED  BY <1>3, <1>5
<1> QED  BY <1>3, <1>4, <1>6, <1>7, <1>8 DEF a

\* The parts of a configuration that are not about sources.
Filled(cfg) == cfg.nodes \in Seq(Node) /\ cfg.rules \in Seq(Ref) /\ cfg.mode \in Modes
Framed(cfg, c) == c.nodes = cfg.nodes /\ c.rules = cfg.rules /\ c.mode = cfg.mode

\* What operations on sources leave alone.
LEMMA FrameFacts ==
    ASSUME NEW cfg, Shaped(cfg), NEW s, NEW on, NEW c,
           \/ c \in {AddSubscription(cfg, s), RunSubsAdd(cfg, s), DeleteSubscription(cfg, s)}
           \/ c \in {AddLocalGroup(cfg, s), ToggleLocalGroupEnabled(cfg, s)}
           \/ c = SetSubscriptionEnabled(cfg, s, on)
           \/ c \in {SetActiveSource(cfg, s), SetTarget(cfg, s)}
    PROVE  Framed(cfg, c)
<1>0. DOMAIN cfg = {"subs", "groups", "nodes", "rules", "active", "target", "mode"}
  BY DEF Shaped
<1> DEFINE Full(d) == DOMAIN d = DOMAIN cfg /\ Framed(cfg, d)
<1>1. \A d, x : Full(d) => /\ Full([d EXCEPT !.subs = x]) /\ Full([d EXCEPT !.groups = x])
                           /\ Full([d EXCEPT !.active = x]) /\ Full([d EXCEPT !.target = x])
  BY <1>0 DEF Framed
<1>2. Full(cfg)
  BY DEF Framed
<1> HIDE DEF Full
<1>3. \A d, t : Full(d) => /\ Full(NudgeTarget(d, t)) /\ Full(NudgeActive(d, t))
                           /\ Full(ClearActive(d, t))
  BY <1>1 DEF NudgeTarget, NudgeActive, ClearActive
<1>4. Full(AddSubscription(cfg, s)) /\ Full(RunSubsAdd(cfg, s))
  BY <1>1, <1>2, <1>3 DEF AddSubscription, RunSubsAdd
<1>5. Full(DeleteSubscription(cfg, s))
  BY <1>1, <1>2, <1>3 DEF DeleteSubscription
<1>6. Full(AddLocalGroup(cfg, s)) /\ Full(ToggleLocalGroupEnabled(cfg, s))
  BY <1>1, <1>2, <1>3 DEF AddLocalGroup, ToggleLocalGroupEnabled
<1>7. Full(SetSubscriptionEnabled(cfg, s, on))
  BY <1>1, <1>2, <1>3 DEF SetSubscriptionEnabled
<1>8. Full(SetTarget(cfg, s))
  BY <1>1, <1>2 DEF SetTarget
<1>9. Full(SetActiveSource(cfg, s))
  <2>1. Full([cfg EXCEPT !.active = s])
    BY <1>1, <1>2
  <2>2. Full([[cfg EXCEPT !.active = s] EXCEPT !.target = AutoOf(s)])
    BY <1>1, <2>1
  <2> QED  BY <1>0, <2>2 DEF SetActiveSource
<1>10. Full(c)
  BY <1>4, <1>5, <1>6, <1>7, <1>8, <1>9
<1> QED  BY <1>10 DEF Full

\* Every node has a group; every node's group is there, "" being for Load to
\* repair; and a node is known by its group and its name.
Home(node)    == IF node.group = "" THEN DefaultGroup ELSE node.group
AnyVia == Ref \union {""}
Placed(node)  == node.group # ""
Housed(cfg)   == \A i \in DOMAIN cfg.nodes : Placed(cfg.nodes[i])
Grouped(cfg)  == \A i \in DOMAIN cfg.nodes : cfg.nodes[i].group \in NamesIn(cfg.groups) \union {""}
Distinct(cfg) == \A i, j \in DOMAIN cfg.nodes :
    Home(cfg.nodes[i]) = Home(cfg.nodes[j]) /\ cfg.nodes[i].name = cfg.nodes[j].name => i = j
Tidy(cfg)     == Grouped(cfg) /\ Distinct(cfg)

\* What is said of nodes is said of them wherever they are the same.
LEMMA FramedFacts ==
    ASSUME NEW cfg, NEW c, Framed(cfg, c)
    PROVE  /\ (Filled(cfg) => Filled(c)) /\ (Housed(cfg) => Housed(c))
           /\ Tidy(cfg) /\ NamesIn(cfg.groups) \subseteq NamesIn(c.groups) => Tidy(c)
BY DEF Framed, Filled, Housed, Tidy, Grouped, Distinct

\* What is said of nodes is said of any of them.
LEMMA PickedFacts ==
    ASSUME NEW cfg, NEW c, NEW f \in [DOMAIN c.nodes -> DOMAIN cfg.nodes],
           \A i, j \in DOMAIN c.nodes : f[i] = f[j] => i = j,
           \A i \in DOMAIN c.nodes : c.nodes[i] = cfg.nodes[f[i]]
    PROVE  /\ Housed(cfg) => Housed(c)
           /\ Distinct(cfg) => Distinct(c)
           /\ Grouped(cfg) /\ NamesIn(cfg.groups) \subseteq NamesIn(c.groups) => Grouped(c)
<1>1. Housed(cfg) => Housed(c)
  BY DEF Housed
<1>2. Distinct(cfg) => Distinct(c)
  <2> SUFFICES ASSUME Distinct(cfg), NEW i \in DOMAIN c.nodes, NEW j \in DOMAIN c.nodes,
                      Home(c.nodes[i]) = Home(c.nodes[j]), c.nodes[i].name = c.nodes[j].name
               PROVE  i = j
    BY DEF Distinct
  <2>1. f[i] \in DOMAIN cfg.nodes /\ f[j] \in DOMAIN cfg.nodes
    OBVIOUS
  <2>2. f[i] = f[j]
    BY <2>1 DEF Distinct
  <2> QED  BY <2>2
<1>3. Grouped(cfg) /\ NamesIn(cfg.groups) \subseteq NamesIn(c.groups) => Grouped(c)
  BY DEF Grouped
<1> QED  BY <1>1, <1>2, <1>3

\* Load gives every node without a group the default one.
LEMMA LoadNodes ==
    ASSUME NEW cfg, Shaped(cfg), Filled(cfg)
    PROVE  Filled(Load(cfg)) /\ Housed(Load(cfg)) /\ (Tidy(cfg) => Tidy(Load(cfg)))
<1> DEFINE nodes == [i \in DOMAIN cfg.nodes |->
                       IF cfg.nodes[i].group = "" THEN [cfg.nodes[i] EXCEPT !.group = DefaultGroup]
                                                  ELSE cfg.nodes[i]]
           c == Load(cfg)
<1>0. DOMAIN cfg = {"subs", "groups", "nodes", "rules", "active", "target", "mode"}
  BY DEF Shaped
<1>1. c.nodes = nodes /\ c.rules = cfg.rules /\ c.mode = cfg.mode
  <2> DEFINE Full(d) == DOMAIN d = DOMAIN cfg /\ d.nodes = nodes /\ d.rules = cfg.rules
                        /\ d.mode = cfg.mode
             a == ResetTarget(cfg)
             b == GroupOrphans(a)
  <2>1. DOMAIN a = DOMAIN cfg /\ a.nodes = cfg.nodes /\ a.rules = cfg.rules /\ a.mode = cfg.mode
    BY <1>0 DEF ResetTarget
  <2>2. Full(b)
    <3> HIDE DEF a
    <3> DEFINE bare == {i \in DOMAIN a.nodes : a.nodes[i].group = ""}
               grouped == [i \in DOMAIN a.nodes |->
                             IF i \in bare THEN [a.nodes[i] EXCEPT !.group = DefaultGroup]
                                           ELSE a.nodes[i]]
    <3>1. grouped = nodes
      BY <2>1
    <3>2. \E x : b = [a EXCEPT !.nodes = grouped, !.groups = x]
      <4>1. b = [a EXCEPT !.nodes = grouped, !.groups = @ \o (
                   IF bare = {} \/ DefaultGroup \in NamesIn(a.groups) THEN <<>>
                   ELSE << [name |-> DefaultGroup, on |-> TRUE] >>)]
        BY DEF GroupOrphans
      <4> HIDE DEF b, grouped, bare
      <4> QED  BY <1>0, <2>1, <4>1
    <3> HIDE DEF b, grouped, nodes
    <3> QED  BY <1>0, <2>1, <3>1, <3>2
  <2>3. \A d, x : Full(d) => Full([d EXCEPT !.active = x]) /\ Full([d EXCEPT !.target = x])
    <3> HIDE DEF nodes
    <3> QED  BY <1>0
  <2> HIDE DEF Full, b
  <2>4. Full(BumpTarget(b))
    BY <2>2, <2>3 DEF BumpTarget
  <2>5. Full(DeriveActive(BumpTarget(b)))
    BY <2>3, <2>4 DEF DeriveActive
  <2>6. Full(c)
    BY <2>5 DEF Load, b
  <2> QED  BY <2>6 DEF Full
<1>2. /\ NamesIn(cfg.groups) \subseteq NamesIn(c.groups)
      /\ (\E i \in DOMAIN cfg.nodes : cfg.nodes[i].group = "") => DefaultGroup \in NamesIn(c.groups)
  BY LoadFacts
<1> HIDE DEF c
<1>3. ASSUME NEW i \in DOMAIN cfg.nodes
      PROVE  /\ nodes[i] \in Node /\ nodes[i].name = cfg.nodes[i].name
             /\ nodes[i].group = Home(cfg.nodes[i]) /\ Placed(nodes[i])
  <2>1. cfg.nodes[i] \in Node
    BY DEF Filled
  <2>2. DefaultGroup \in Name /\ DefaultGroup # ""
    BY Names, NamesAreTexts
  <2>3. CASE cfg.nodes[i].group = ""
    <3>1. nodes[i] = [cfg.nodes[i] EXCEPT !.group = DefaultGroup]
      BY <2>3
    <3> HIDE DEF nodes
    <3> QED  BY <2>1, <2>2, <2>3, <3>1 DEF Node, Home, Placed
  <2>4. CASE cfg.nodes[i].group # ""
    <3>1. nodes[i] = cfg.nodes[i]
      BY <2>4
    <3> HIDE DEF nodes
    <3> QED  BY <2>1, <2>4, <3>1 DEF Home, Placed
  <2> QED  BY <2>3, <2>4
<1>4. DOMAIN nodes = DOMAIN cfg.nodes
  OBVIOUS
<1>5. nodes \in Seq(Node)
  <2>1. cfg.nodes \in Seq(Node)
    BY DEF Filled
  <2>2. DOMAIN nodes = 1 .. Len(cfg.nodes) /\ Len(cfg.nodes) \in Nat
    BY <1>4, <2>1
  <2>3. nodes \in [1 .. Len(cfg.nodes) -> Node]
    BY <1>3, <1>4, <2>2
  <2> HIDE DEF nodes
  <2> QED  BY <2>2, <2>3
<1> HIDE DEF nodes
<1>6. Filled(c)
  BY <1>1, <1>5 DEF Filled
<1>7. Housed(c)
  BY <1>1, <1>3, <1>4 DEF Housed
<1>8. Grouped(cfg) => Grouped(c)
  BY <1>1, <1>2, <1>3, <1>4 DEF Grouped, Home
<1>9. Distinct(cfg) => Distinct(c)
  <2>1. \A i \in DOMAIN nodes : Home(nodes[i]) = Home(cfg.nodes[i])
    BY <1>3, <1>4 DEF Home, Placed
  <2> QED  BY <1>1, <1>3, <1>4, <2>1 DEF Distinct
<1> QED  BY <1>6, <1>7, <1>8, <1>9 DEF c, Tidy

\* A group that goes takes its nodes along, or has none.
LEMMA DeleteGroupNodes ==
    ASSUME NEW cfg, Shaped(cfg), Filled(cfg), NEW g, NEW force \in BOOLEAN,
           CanDeleteLocalGroup(cfg, g, force)
    PROVE  LET c == DeleteLocalGroup(cfg, g, force) IN
           /\ Filled(c) /\ (Housed(cfg) => Housed(c))
           /\ Tidy(cfg) => Tidy(c)
<1> DEFINE kept  == IF force THEN Filtered(cfg.nodes, DOMAIN cfg.nodes \ NodesOf(cfg, g)) ELSE cfg.nodes
           c == DeleteLocalGroup(cfg, g, force)
           left == DOMAIN cfg.nodes \ NodesOf(cfg, g)
<1>1. /\ c.nodes = kept /\ c.rules = cfg.rules /\ c.mode = cfg.mode
  <2>1. c = ClearActive([cfg EXCEPT !.groups = Drop(@, g), !.nodes = kept], g)
    BY DEF DeleteLocalGroup
  <2> HIDE DEF kept, c
  <2>2. \E x, y : c = [cfg EXCEPT !.groups = x, !.nodes = kept]
               \/ c = [cfg EXCEPT !.groups = x, !.nodes = kept, !.active = y]
    <3> DEFINE d == [cfg EXCEPT !.groups = Drop(cfg.groups, g), !.nodes = kept]
    <3>1. c = ClearActive(d, g)
      BY <2>1 DEF Shaped
    <3>2. c = d \/ c = [d EXCEPT !.active = ""]
      BY <3>1 DEF ClearActive
    <3>3. [d EXCEPT !.active = ""]
            = [cfg EXCEPT !.groups = Drop(cfg.groups, g), !.nodes = kept, !.active = ""]
      BY DEF Shaped
    <3> QED  BY <3>2, <3>3
  <2> QED  BY <2>2 DEF Shaped
<1>2. /\ g \in NamesIn(cfg.groups) /\ NamesIn(cfg.groups) \ {g} \subseteq NamesIn(c.groups)
  BY DeleteGroupFacts DEF CanDeleteLocalGroup
<1>3. /\ kept \in Seq(Node)
      /\ \E f \in [DOMAIN kept -> left] :
           /\ \A i, j \in DOMAIN kept : f[i] = f[j] => i = j
           /\ \A i \in DOMAIN kept : kept[i] = cfg.nodes[f[i]]
  <2>1. cfg.nodes \in Seq(Node) /\ left \subseteq DOMAIN cfg.nodes
    BY DEF Filled
  <2>2. CASE force
    <3>1. kept = Filtered(cfg.nodes, left)
      BY <2>2
    <3> HIDE DEF kept, left
    <3> QED  BY <2>1, <3>1, FilteredFacts
  <2>3. CASE ~force
    <3>1. kept = cfg.nodes /\ left = DOMAIN kept
      BY <2>3 DEF CanDeleteLocalGroup
    <3> HIDE DEF kept, left
    <3>2. [i \in DOMAIN kept |-> i] \in [DOMAIN kept -> left]
      BY <3>1
    <3> QED  BY <2>1, <3>1, <3>2
  <2> QED  BY <2>2, <2>3
<1> HIDE DEF kept, c
<1>4. PICK f \in [DOMAIN kept -> left] :
           /\ \A i, j \in DOMAIN kept : f[i] = f[j] => i = j
           /\ \A i \in DOMAIN kept : kept[i] = cfg.nodes[f[i]]
  BY <1>3
<1>5. f \in [DOMAIN c.nodes -> DOMAIN cfg.nodes]
  BY <1>1, <1>4
<1>6. (Housed(cfg) => Housed(c)) /\ (Distinct(cfg) => Distinct(c))
  BY <1>1, <1>4, <1>5, PickedFacts
<1>7. Grouped(cfg) => Grouped(c)
  <2> SUFFICES ASSUME Grouped(cfg), NEW i \in DOMAIN kept
               PROVE  kept[i].group \in NamesIn(c.groups) \union {""}
    BY <1>1 DEF Grouped
  <2>1. f[i] \in DOMAIN cfg.nodes /\ cfg.nodes[f[i]].group # g /\ kept[i] = cfg.nodes[f[i]]
    BY <1>4 DEF NodesOf
  <2> QED  BY <1>2, <2>1 DEF Grouped
<1> QED  BY <1>1, <1>3, <1>6, <1>7 DEF c, Tidy, Filled

\* A group of a new name: its nodes come along, and meet no others.
LEMMA RenameGroupNodes ==
    ASSUME NEW cfg, Shaped(cfg), Filled(cfg), NEW g \in NamesIn(cfg.groups), NEW h \in Name,
           h \notin NamesIn(cfg.groups)
    PROVE  LET c == RenameLocalGroup(cfg, g, h) IN
           /\ Filled(c) /\ (Housed(cfg) => Housed(c))
           /\ Housed(cfg) /\ Tidy(cfg) => Tidy(c)
<1> DEFINE nodes == [i \in DOMAIN cfg.nodes |->
                       IF i \in NodesOf(cfg, g) THEN [cfg.nodes[i] EXCEPT !.group = h]
                                                ELSE cfg.nodes[i]]
           c == RenameLocalGroup(cfg, g, h)
<1>1. c.nodes = nodes /\ c.rules = cfg.rules /\ c.mode = cfg.mode
  <2>1. \E x : c = [cfg EXCEPT !.groups = x, !.nodes = nodes]
    BY DEF RenameLocalGroup, Shaped
  <2> HIDE DEF nodes, c
  <2> QED  BY <2>1 DEF Shaped
<1>2. (NamesIn(cfg.groups) \ {g}) \union {h} \subseteq NamesIn(c.groups)
  BY RenameGroupFacts
<1>3. h # ""
  BY Names
<1>4. ASSUME NEW i \in DOMAIN cfg.nodes
      PROVE  /\ nodes[i] \in Node /\ nodes[i].name = cfg.nodes[i].name
             /\ nodes[i].group = IF cfg.nodes[i].group = g THEN h ELSE cfg.nodes[i].group
  <2>1. cfg.nodes[i] \in Node
    BY DEF Filled
  <2>2. CASE cfg.nodes[i].group = g
    <3>1. nodes[i] = [cfg.nodes[i] EXCEPT !.group = h]
      BY <2>2 DEF NodesOf
    <3> HIDE DEF nodes
    <3> QED  BY <2>1, <2>2, <3>1 DEF Node
  <2>3. CASE cfg.nodes[i].group # g
    <3>1. nodes[i] = cfg.nodes[i]
      BY <2>3 DEF NodesOf
    <3> HIDE DEF nodes
    <3> QED  BY <2>1, <2>3, <3>1
  <2> QED  BY <2>2, <2>3
<1>5. DOMAIN nodes = DOMAIN cfg.nodes
  OBVIOUS
<1>6. nodes \in Seq(Node)
  <2>1. cfg.nodes \in Seq(Node)
    BY DEF Filled
  <2>2. DOMAIN nodes = 1 .. Len(cfg.nodes) /\ Len(cfg.nodes) \in Nat
    BY <1>5, <2>1
  <2>3. nodes \in [1 .. Len(cfg.nodes) -> Node]
    BY <1>4, <1>5, <2>2
  <2> HIDE DEF nodes
  <2> QED  BY <2>2, <2>3
<1> HIDE DEF nodes, c
<1>7. Filled(c)
  BY <1>1, <1>6 DEF Filled
<1>8. Housed(cfg) => Housed(c)
  BY <1>1, <1>3, <1>4, <1>5 DEF Housed, Placed
<1>9. Grouped(cfg) => Grouped(c)
  BY <1>1, <1>2, <1>4, <1>5 DEF Grouped
<1>10. Housed(cfg) /\ Grouped(cfg) /\ Distinct(cfg) => Distinct(c)
  <2> SUFFICES ASSUME Housed(cfg), Grouped(cfg), Distinct(cfg), NEW i \in DOMAIN nodes,
                      NEW j \in DOMAIN nodes, Home(nodes[i]) = Home(nodes[j]),
                      nodes[i].name = nodes[j].name
               PROVE  i = j
    BY <1>1 DEF Distinct
  <2>1. i \in DOMAIN cfg.nodes /\ j \in DOMAIN cfg.nodes
    BY <1>5
  <2>2. /\ nodes[i].group = nodes[j].group
        /\ Home(cfg.nodes[i]) = cfg.nodes[i].group /\ Home(cfg.nodes[j]) = cfg.nodes[j].group
    BY <1>1, <1>8, <2>1 DEF Housed, Home, Placed
  <2>3. cfg.nodes[i].group # h /\ cfg.nodes[j].group # h
    <3>1. \A k \in DOMAIN cfg.nodes : cfg.nodes[k].group \in NamesIn(cfg.groups)
      BY DEF Grouped, Housed, Placed
    <3> QED  BY <2>1, <3>1
  <2>4. cfg.nodes[i].group = cfg.nodes[j].group
    BY <1>4, <2>1, <2>2, <2>3
  <2> QED  BY <1>4, <2>1, <2>2, <2>4 DEF Distinct
<1> QED  BY <1>7, <1>8, <1>9, <1>10 DEF c, Tidy

\* A node more, in a group that is there or is made for it.
LEMMA AddNodeFacts ==
    ASSUME NEW cfg, Filled(cfg), NEW n \in NodeName, NEW g \in Name, NEW via \in AnyVia,
           NEW c, c.nodes = Append(cfg.nodes, NewNode(n, g, via)), c.rules = cfg.rules,
           c.mode = cfg.mode
    PROVE  /\ Filled(c) /\ (Housed(cfg) => Housed(c))
           /\ Housed(cfg) /\ Tidy(cfg) /\ ~HasNode(cfg, g, n)
                /\ NamesIn(cfg.groups) \union {g} \subseteq NamesIn(c.groups) => Tidy(c)
<1> DEFINE e == NewNode(n, g, via)
<1>0. Placed(e)
  BY Names DEF NewNode, Placed
<1>1. e \in Node /\ e.name = n /\ e.group = g
  BY DEF NewNode, Node, AnyVia
<1> HIDE DEF e
<1>2. cfg.nodes \in Seq(Node)
  BY DEF Filled
<1>3. /\ c.nodes \in Seq(Node) /\ DOMAIN c.nodes = DOMAIN cfg.nodes \union {Len(cfg.nodes) + 1}
      /\ \A i \in DOMAIN cfg.nodes : c.nodes[i] = cfg.nodes[i]
      /\ c.nodes[Len(cfg.nodes) + 1] = e
  <2>1. \A x \in Seq(Node) : LET y == Append(x, e) IN
           /\ y \in Seq(Node) /\ DOMAIN y = DOMAIN x \union {Len(x) + 1}
           /\ \A i \in DOMAIN x : y[i] = x[i]
           /\ y[Len(x) + 1] = e
    BY <1>1
  <2> QED  BY <1>2, <2>1 DEF e
<1>4. Filled(c)
  BY <1>3 DEF Filled
<1>5. Housed(cfg) => Housed(c)
  BY <1>0, <1>3 DEF Housed
<1>6. Housed(cfg) /\ Tidy(cfg) /\ ~HasNode(cfg, g, n)
        /\ NamesIn(cfg.groups) \union {g} \subseteq NamesIn(c.groups) => Tidy(c)
  <2> SUFFICES ASSUME Housed(cfg), Tidy(cfg), ~HasNode(cfg, g, n),
                      NamesIn(cfg.groups) \union {g} \subseteq NamesIn(c.groups)
               PROVE  Tidy(c)
    OBVIOUS
  <2>1. Grouped(c)
    BY <1>1, <1>3 DEF Tidy, Grouped
  <2>2. \A i \in DOMAIN cfg.nodes : ~(Home(c.nodes[i]) = g /\ c.nodes[i].name = n)
    BY <1>3 DEF HasNode, NodesOf, Housed, Home, Placed
  <2>3. Home(e) = g
    BY <1>0, <1>1 DEF Home, Placed
  <2>4. Distinct(c)
    BY <1>1, <1>3, <2>2, <2>3 DEF Tidy, Distinct
  <2> QED  BY <2>1, <2>4 DEF Tidy
<1> QED  BY <1>4, <1>5, <1>6

\* Nodes fewer, by group and name.
LEMMA RemoveNodeFacts ==
    ASSUME NEW cfg, Shaped(cfg), Filled(cfg), NEW g, NEW n
    PROVE  LET c == CliRemoveNode(cfg, g, n) IN
           /\ Filled(c) /\ (Housed(cfg) => Housed(c))
           /\ Tidy(cfg) => Tidy(c)
<1> DEFINE kept == {i \in DOMAIN cfg.nodes : cfg.nodes[i].group # g \/ cfg.nodes[i].name # n}
           x == Filtered(cfg.nodes, kept)
           c == CliRemoveNode(cfg, g, n)
<1>1. c = [cfg EXCEPT !.nodes = x]
  BY DEF CliRemoveNode, Shaped
<1>2. /\ x \in Seq(Node)
      /\ \E f \in [DOMAIN x -> kept] :
           /\ \A i, j \in DOMAIN x : f[i] = f[j] => i = j
           /\ \A i \in DOMAIN x : x[i] = cfg.nodes[f[i]]
  <2>1. cfg.nodes \in Seq(Node) /\ kept \subseteq DOMAIN cfg.nodes
    BY DEF Filled
  <2> HIDE DEF kept
  <2> QED  BY <2>1, FilteredFacts
<1> HIDE DEF x, c
<1>3. /\ c.nodes = x /\ c.rules = cfg.rules /\ c.mode = cfg.mode /\ c.groups = cfg.groups
  BY <1>1 DEF Shaped
<1>4. PICK f \in [DOMAIN x -> kept] :
           /\ \A i, j \in DOMAIN x : f[i] = f[j] => i = j
           /\ \A i \in DOMAIN x : x[i] = cfg.nodes[f[i]]
  BY <1>2
<1>5. f \in [DOMAIN c.nodes -> DOMAIN cfg.nodes]
  BY <1>3, <1>4
<1>6. /\ (Housed(cfg) => Housed(c)) /\ (Distinct(cfg) => Distinct(c))
      /\ (Grouped(cfg) => Grouped(c))
  BY <1>3, <1>4, <1>5, PickedFacts
<1> QED  BY <1>2, <1>3, <1>6 DEF c, Filled, Tidy

\* A node that is there is found.
LEMMA FirstNodeFound ==
    ASSUME NEW cfg, Filled(cfg), NEW g, NEW n, HasNode(cfg, g, n)
    PROVE  LET k == FirstNode(cfg, g, n) IN
           k \in DOMAIN cfg.nodes /\ cfg.nodes[k].group = g /\ cfg.nodes[k].name = n
<1> DEFINE T == {i \in NodesOf(cfg, g) : cfg.nodes[i].name = n}
<1>1. T \subseteq Nat /\ T # {}
  BY DEF HasNode, NodesOf, Filled
<1>2. \E i \in T : \A j \in T : i <= j
  <2> HIDE DEF T
  <2> QED  BY <1>1, LeastExists
<1>3. \E i \in NodesOf(cfg, g) : cfg.nodes[i].name = n
          /\ \A j \in NodesOf(cfg, g) : cfg.nodes[j].name = n => i <= j
  BY <1>2
<1> QED  BY <1>3 DEF FirstNode, NodesOf

\* A node replaced by another: no two of one name in one group, if there is no
\* other of the new one's.
LEMMA ReplaceNodeFacts ==
    ASSUME NEW cfg, Filled(cfg), NEW k \in DOMAIN cfg.nodes, NEW e \in Node, Placed(e),
           NEW c, c.nodes = [cfg.nodes EXCEPT ![k] = e], c.rules = cfg.rules, c.mode = cfg.mode,
           c.groups = cfg.groups
    PROVE  /\ Filled(c) /\ (Housed(cfg) => Housed(c))
           /\ Housed(cfg) /\ Tidy(cfg) /\ e.group \in NamesIn(cfg.groups)
                /\ (\A i \in DOMAIN cfg.nodes :
                      cfg.nodes[i].group = e.group /\ cfg.nodes[i].name = e.name => i = k)
              => Tidy(c)
<1>1. cfg.nodes \in Seq(Node)
  BY DEF Filled
<1>2. /\ c.nodes \in Seq(Node) /\ DOMAIN c.nodes = DOMAIN cfg.nodes /\ c.nodes[k] = e
      /\ \A i \in DOMAIN cfg.nodes : i # k => c.nodes[i] = cfg.nodes[i]
  <2>1. \A x \in Seq(Node) : \A l \in DOMAIN x : LET y == [x EXCEPT ![l] = e] IN
           /\ y \in Seq(Node) /\ DOMAIN y = DOMAIN x /\ y[l] = e
           /\ \A i \in DOMAIN x : i # l => y[i] = x[i]
    OBVIOUS
  <2> QED  BY <1>1, <2>1
<1>3. Filled(c) /\ (Housed(cfg) => Housed(c))
  BY <1>2 DEF Filled, Housed
<1>4. Housed(cfg) /\ Tidy(cfg) /\ e.group \in NamesIn(cfg.groups)
        /\ (\A i \in DOMAIN cfg.nodes :
              cfg.nodes[i].group = e.group /\ cfg.nodes[i].name = e.name => i = k) => Tidy(c)
  <2> SUFFICES ASSUME Housed(cfg), Tidy(cfg), e.group \in NamesIn(cfg.groups),
                      \A i \in DOMAIN cfg.nodes :
                        cfg.nodes[i].group = e.group /\ cfg.nodes[i].name = e.name => i = k
               PROVE  Tidy(c)
    OBVIOUS
  <2>1. Grouped(c)
    BY <1>2 DEF Tidy, Grouped
  <2>2. \A i \in DOMAIN c.nodes : Home(c.nodes[i]) = c.nodes[i].group
    BY <1>2 DEF Housed, Home, Placed
  <2>3. \A i \in DOMAIN cfg.nodes : Home(cfg.nodes[i]) = cfg.nodes[i].group
    BY DEF Housed, Home, Placed
  <2>4. \A i \in DOMAIN cfg.nodes : c.nodes[i] = IF i = k THEN e ELSE cfg.nodes[i]
    BY <1>2
  <2>5. \A i, j \in DOMAIN cfg.nodes :
           c.nodes[i].group = c.nodes[j].group /\ c.nodes[i].name = c.nodes[j].name => i = j
    BY <2>3, <2>4 DEF Tidy, Distinct
  <2>6. Distinct(c)
    BY <1>2, <2>2, <2>5 DEF Distinct
  <2> QED  BY <2>1, <2>6 DEF Tidy
<1> QED  BY <1>3, <1>4

\* A node moved or edited.
LEMMA EditNodeFacts ==
    ASSUME NEW cfg, Shaped(cfg), Filled(cfg), NEW g, NEW n \in NodeName, HasNode(cfg, g, n),
           NEW h \in Name, NEW m \in NodeName, NEW via \in AnyVia
    PROVE  /\ LET c == MoveNode(cfg, g, n, h) IN Filled(c) /\ (Housed(cfg) => Housed(c))
           /\ LET c == EditNode(cfg, g, n, h, m, via) IN
              /\ Filled(c) /\ (Housed(cfg) => Housed(c))
              /\ Housed(cfg) /\ Tidy(cfg) /\ CanEditNode(cfg, g, n, h, m) => Tidy(c)
<1> DEFINE k == FirstNode(cfg, g, n)
           move == MoveNode(cfg, g, n, h)
           edit == EditNode(cfg, g, n, h, m, via)
           moved == [cfg.nodes[k] EXCEPT !.group = h]
           edited == NewNode(m, h, via)
<1>1. k \in DOMAIN cfg.nodes /\ cfg.nodes[k].group = g /\ cfg.nodes[k].name = n
      /\ cfg.nodes[k] \in Node
  <2>1. k \in DOMAIN cfg.nodes /\ cfg.nodes[k].group = g /\ cfg.nodes[k].name = n
    BY FirstNodeFound
  <2>2. cfg.nodes \in Seq(Node)
    BY DEF Filled
  <2> HIDE DEF k
  <2>3. \A x \in Seq(Node) : \A l \in DOMAIN x : x[l] \in Node
    OBVIOUS
  <2> QED  BY <2>1, <2>2, <2>3
<1>2. /\ move = [cfg EXCEPT !.nodes = [cfg.nodes EXCEPT ![k] = moved]]
  <2>1. move = [cfg EXCEPT !.nodes = [cfg.nodes EXCEPT ![k].group = h]]
    BY DEF MoveNode, Shaped
  <2> HIDE DEF move, k
  <2> QED  BY <1>1, <2>1
<1>3. edit = [cfg EXCEPT !.nodes = [cfg.nodes EXCEPT ![k] = edited]]
  BY DEF EditNode, Shaped
<1> HIDE DEF move, edit, k
<1>4. moved \in Node /\ Placed(moved)
  BY <1>1, Names DEF Node, Placed
<1>5. edited \in Node /\ edited.group = h /\ edited.name = m /\ Placed(edited)
  BY Names DEF NewNode, Node, Placed, AnyVia
<1> HIDE DEF moved, edited
<1>6. /\ move.nodes = [cfg.nodes EXCEPT ![k] = moved] /\ move.rules = cfg.rules
      /\ move.mode = cfg.mode /\ move.groups = cfg.groups
  BY <1>2 DEF Shaped
<1>7. /\ edit.nodes = [cfg.nodes EXCEPT ![k] = edited] /\ edit.rules = cfg.rules
      /\ edit.mode = cfg.mode /\ edit.groups = cfg.groups
  BY <1>3 DEF Shaped
<1>8. Filled(move) /\ (Housed(cfg) => Housed(move))
  BY <1>1, <1>4, <1>6, ReplaceNodeFacts
<1>9. Filled(edit) /\ (Housed(cfg) => Housed(edit))
  BY <1>1, <1>5, <1>7, ReplaceNodeFacts
<1>10. Housed(cfg) /\ Tidy(cfg) /\ CanEditNode(cfg, g, n, h, m) => Tidy(edit)
  <2> SUFFICES ASSUME Housed(cfg), Tidy(cfg), CanEditNode(cfg, g, n, h, m)
               PROVE  Tidy(edit)
    OBVIOUS
  <2>1. h \in NamesIn(cfg.groups)
    BY <1>1 DEF CanEditNode, Tidy, Grouped, Housed, Placed
  <2>2. ASSUME NEW i \in DOMAIN cfg.nodes, cfg.nodes[i].group = h, cfg.nodes[i].name = m
        PROVE  i = k
    <3>1. HasNode(cfg, h, m)
      BY <2>2 DEF HasNode, NodesOf
    <3>2. h = g /\ m = n
      BY <3>1 DEF CanEditNode
    <3>3. Home(cfg.nodes[i]) = Home(cfg.nodes[k])
      BY <1>1, <2>2, <3>2 DEF Home
    <3> QED  BY <1>1, <2>2, <3>2, <3>3 DEF Tidy, Distinct
  <2>3. \A i \in DOMAIN cfg.nodes :
           cfg.nodes[i].group = edited.group /\ cfg.nodes[i].name = edited.name => i = k
    BY <1>5, <2>2
  <2>4. edited.group \in NamesIn(cfg.groups)
    BY <1>5, <2>1
  <2>5. Housed(cfg) /\ Tidy(cfg) /\ edited.group \in NamesIn(cfg.groups)
          /\ (\A i \in DOMAIN cfg.nodes :
                cfg.nodes[i].group = edited.group /\ cfg.nodes[i].name = edited.name => i = k)
        => Tidy(edit)
    BY <1>1, <1>5, <1>7, ReplaceNodeFacts
  <2> QED  BY <2>3, <2>4, <2>5
<1> QED  BY <1>8, <1>9, <1>10 DEF move, edit

-----------------------------------------------------------------------------
(* Assemble.                                                               *)

\* An input of the right types, its sources' nodes at any positions.
AnyTable == UNION {[S -> [name : NodeName, via : Ref \union {""}]] : S \in SUBSET Nat}
AnyGroup == [name : Name, nodes : AnyTable, rules : Seq(Ref)]
Well(in) == /\ in.subs \in Seq(AnyGroup) /\ in.locals \in Seq(AnyGroup) /\ in.rules \in Seq(Ref)
            /\ in.active \in Name \union {""} /\ in.target \in Ref \union {""}

\* Tables of slots are such tables.
LEMMA TablesWell == NodeTable \subseteq AnyTable
<1>1. SUBSET Slot \subseteq SUBSET Nat
  BY SlotsArePositions
<1> QED  BY <1>1 DEF NodeTable, AnyTable

\* Inputs are such inputs.
LEMMA InputsWell == ASSUME NEW in \in Input PROVE Well(in)
<1>1. Group \subseteq AnyGroup
  BY TablesWell DEF Group, AnyGroup
<1>2. in.subs \in Seq(Group) /\ in.locals \in Seq(Group)
  BY DEF Input
<1>3. in.subs \in Seq(AnyGroup) /\ in.locals \in Seq(AnyGroup)
  BY <1>1, <1>2, SeqMonotonic
<1> QED  BY <1>3 DEF Input, Well

\* Assemble is given a list of sources, and well-formed ones.
LEMMA AllTyped == ASSUME NEW in, Well(in) PROVE All(in) \in Seq(AnyGroup)
<1>1. in.subs \in Seq(AnyGroup) /\ in.locals \in Seq(AnyGroup)
  BY DEF Well
<1> QED
  BY <1>1 DEF All

\* Each has a name and nodes with names.
LEMMA SourcesTyped ==
    ASSUME NEW in, Well(in), NEW i \in DOMAIN All(in)
    PROVE  /\ All(in)[i] \in AnyGroup /\ All(in)[i].name \in Name
           /\ \A k \in DOMAIN All(in)[i].nodes : All(in)[i].nodes[k].name \in NodeName
<1>1. All(in) \in Seq(AnyGroup)
  BY AllTyped
<1>2. All(in)[i] \in AnyGroup
  BY <1>1
<1>3. All(in)[i].nodes \in AnyTable
  BY <1>2 DEF AnyGroup
<1> QED
  BY <1>2, <1>3 DEF AnyGroup, AnyTable

\* emitPair and emitProxies cover everything a populated source can be called.
LEMMA PopulatedIsDefined ==
    ASSUME NEW in, Well(in), NEW i \in Populated(in)
    PROVE  {All(in)[i].name, AutoOf(All(in)[i].name)} \union NodeRefs(All(in)[i])
             \subseteq Policies(Assemble(in)) \ {Proxy}
<1> DEFINE g == All(in)[i]
<1>1. i \in DOMAIN All(in) /\ g.name \in Name
      /\ \A k \in DOMAIN g.nodes : g.nodes[k].name \in NodeName
  BY SourcesTyped DEF Populated
<1>2. EmitPair(i, g) \subseteq Assemble(in).groups
  BY DEF Assemble, EmitGroups
<1>3. {g.name, AutoOf(g.name)} \subseteq Policies(Assemble(in))
  <2>1. \E h \in EmitPair(i, g) : h.name = g.name
    BY DEF EmitPair
  <2>2. \E h \in EmitPair(i, g) : h.name = AutoOf(g.name)
    BY DEF EmitPair
  <2> QED
    BY <1>2, <2>1, <2>2 DEF Policies
<1>4. ASSUME NEW k \in DOMAIN g.nodes
      PROVE  NodeOf(g.name, g.nodes[k].name) \in Policies(Assemble(in))
  <2>1. \E p \in Assemble(in).proxies : p.name = NodeOf(g.name, g.nodes[k].name)
    <3> DEFINE q == [owner |-> i, slot |-> k, name |-> ProxyName(g, k),
                     dialer |-> Dialer(in, g.nodes[k].via)]
           ofSource(j) == {[owner |-> j, slot |-> l,
                            name   |-> ProxyName(All(in)[j], l),
                            dialer |-> Dialer(in, All(in)[j].nodes[l].via)]
                              : l \in DOMAIN All(in)[j].nodes}
    <3>1. q \in ofSource(i)
      OBVIOUS
    <3>2. EmitProxies(in) = UNION {ofSource(j) : j \in DOMAIN All(in)}
      BY Zenon DEF EmitProxies
    <3>3. q.name = NodeOf(g.name, g.nodes[k].name)
      BY DEF ProxyName
    <3> HIDE DEF q, ofSource
    <3>4. q \in EmitProxies(in)
      BY <1>1, <3>1, <3>2
    <3> QED
      BY <3>3, <3>4 DEF Assemble
  <2> QED
    BY <2>1 DEF Policies
<1>5. Proxy \notin {g.name, AutoOf(g.name)} \union NodeRefs(g)
  BY <1>1, NamesAreTexts DEF NamesAreTexts, NodeRefs, Reserved, Helper
<1> QED
  BY <1>3, <1>4, <1>5 DEF NodeRefs

\* Every document has the policies of vpnkit and mihomo themselves.
LEMMA ReservedIsDefined ==
    ASSUME NEW in, Well(in) PROVE Reserved \subseteq Policies(Assemble(in))
BY DEF Policies

\* The default members: the active source's, if it is populated, and DIRECT.
LEMMA DefaultMembers ==
    ASSUME NEW in, Well(in)
    PROVE  LET list == TopProxyMembersFor(in) IN
           /\ \/ \E x, y, z : list = <<x, y, z>>
              \/ \E x : list = <<x>>
           /\ Elements(list) \subseteq Policies(Assemble(in)) \ {Proxy}
<1>1. "DIRECT" \in Policies(Assemble(in)) \ {Proxy}
  BY ReservedIsDefined DEF Reserved, BuiltIn, Proxy
<1>2. CASE \E i \in Populated(in) : All(in)[i].name = ActiveOf(in)
  <2>1. {ActiveOf(in), AutoOf(ActiveOf(in))} \subseteq Policies(Assemble(in)) \ {Proxy}
    BY <1>2, PopulatedIsDefined
  <2>2. TopProxyMembersFor(in) = << AutoOf(ActiveOf(in)), ActiveOf(in), "DIRECT" >>
    BY <1>2 DEF TopProxyMembersFor
  <2> QED
    BY <1>1, <2>1, <2>2 DEF Elements
<1>3. CASE ~\E i \in Populated(in) : All(in)[i].name = ActiveOf(in)
  <2>1. TopProxyMembersFor(in) = << "DIRECT" >>
    BY <1>3 DEF TopProxyMembersFor
  <2> QED
    BY <1>1, <2>1 DEF Elements
<1> QED
  BY <1>2, <1>3

\* Moving a target to the front neither adds anything else nor empties the list.
LEMMA TargetFirstMembers ==
    ASSUME NEW list, NEW t, \/ \E x, y, z : list = <<x, y, z>>
                            \/ \E x : list = <<x>>
    PROVE  /\ WithTargetFirst(list, t) # <<>>
           /\ Elements(WithTargetFirst(list, t)) \subseteq
                IF t = Proxy THEN Elements(list) ELSE Elements(list) \union {t}
<1>1. CASE t = Proxy
  <2>1. list # <<>>
    OBVIOUS
  <2> QED
    BY <1>1, <2>1 DEF WithTargetFirst
<1>2. CASE t # Proxy /\ t \notin {list[i] : i \in DOMAIN list}
  <2>1. WithTargetFirst(list, t) = <<t>> \o list
    BY <1>2 DEF WithTargetFirst
  <2> QED
    BY <1>2, <2>1 DEF Elements
<1>3. CASE t # Proxy /\ t \in {list[i] : i \in DOMAIN list}
  <2> DEFINE first(i) == list[i] = t /\ \A j \in 1 .. i - 1 : list[j] # t
             k == CHOOSE i \in DOMAIN list : first(i)
  <2>1. \E i \in DOMAIN list : first(i)
    BY <1>3
  <2>2. k \in DOMAIN list
    BY <2>1
  <2>3. WithTargetFirst(list, t) = <<t>> \o RemoveAt(list, k)
    BY <1>3 DEF WithTargetFirst
  <2> HIDE DEF k
  <2>4. \A i \in DOMAIN RemoveAt(list, k) : RemoveAt(list, k)[i] \in Elements(list)
    <3> HIDE DEF first
    <3>1. CASE \E x, y, z : list = <<x, y, z>>
      <4>1. PICK x, y, z : list = <<x, y, z>>
        BY <3>1
      <4>2. CASE k = 1
        BY <4>1, <4>2 DEF RemoveAt, Elements
      <4>3. CASE k = 2
        BY <4>1, <4>3 DEF RemoveAt, Elements
      <4>4. CASE k = 3
        BY <4>1, <4>4 DEF RemoveAt, Elements
      <4> QED
        BY <2>2, <4>1, <4>2, <4>3, <4>4
    <3>2. CASE \E x : list = <<x>>
      BY <2>2, <3>2 DEF RemoveAt, Elements
    <3> QED
      BY <3>1, <3>2
  <2> QED
    BY <1>3, <2>3, <2>4 DEF Elements
<1> QED
  BY <1>1, <1>2, <1>3

\* Of the default members and a target of the active source, nothing else.
LEMMA OwnMembers ==
    ASSUME NEW in, Well(in),
           \/ EffectiveTarget(in) \in {Proxy, ActiveOf(in), "DIRECT"}
           \/ EffectiveTarget(in) = AutoOf(ActiveOf(in))
    PROVE  Elements(TopMembers(in)) \subseteq {AutoOf(ActiveOf(in)), ActiveOf(in), "DIRECT"}
<1> DEFINE list == TopProxyMembersFor(in)
           t    == EffectiveTarget(in)
           own  == {AutoOf(ActiveOf(in)), ActiveOf(in), "DIRECT"}
<1>1. Elements(list) \subseteq own
  BY DEF TopProxyMembersFor, Elements
<1>2. \/ \E x, y, z : list = <<x, y, z>>
      \/ \E x : list = <<x>>
  BY DefaultMembers
<1>3. t = Proxy \/ t \in own
  OBVIOUS
<1>4. TopMembers(in) = list \/ TopMembers(in) = WithTargetFirst(list, t)
  BY DEF TopMembers
<1> HIDE DEF list, t, own
<1>5. Elements(WithTargetFirst(list, t)) \subseteq
        IF t = Proxy THEN Elements(list) ELSE Elements(list) \union {t}
  BY <1>2, TargetFirstMembers
<1> QED
  BY <1>1, <1>3, <1>4, <1>5 DEF own

-----------------------------------------------------------------------------
(* Dialers, names and rules.                                               *)

\* A text some given source has as a node's name is qualified by the last one's.
LEMMA QualifiedIsDefined ==
    ASSUME NEW in, Well(in), NEW n, Holders(in, n) # {}
    PROVE  Qualified(in, n) \in Policies(Assemble(in)) /\ n \in NodeName
<1> DEFINE H == Holders(in, n)
<1>1. DOMAIN All(in) = 1 .. Len(All(in)) /\ Len(All(in)) \in Nat
  BY AllTyped
<1>2. H \subseteq 1 .. Len(All(in))
  BY <1>1 DEF Holders
<1>3. \E i \in H : \A j \in H : j <= i
  <2> HIDE DEF H
  <2> QED  BY <1>1, <1>2, GreatestExists DEF H
<1> DEFINE last == CHOOSE i \in H : \A j \in H : j <= i
<1>4. last \in H
  <2> HIDE DEF H
  <2> QED  BY <1>3
<1>5. Qualified(in, n) = NodeOf(All(in)[last].name, n)
  BY DEF Qualified
<1> HIDE DEF last
<1>6. PICK k \in DOMAIN All(in)[last].nodes : All(in)[last].nodes[k].name = n
  BY <1>4 DEF Holders, NamesOfNodes
<1>7. last \in Populated(in) /\ last \in DOMAIN All(in)
  BY <1>4, <1>6 DEF Holders, Populated
<1>8. NodeOf(All(in)[last].name, n) \in NodeRefs(All(in)[last])
  BY <1>6 DEF NodeRefs
<1> QED
  BY <1>5, <1>6, <1>7, <1>8, PopulatedIsDefined, SourcesTyped

\* Every dialer that can resolve does (the two passes of emitProxies).
LEMMA DialersOfAssemble ==
    ASSUME NEW in, Well(in), NEW via,
           \/ via \in Reserved
           \/ \E i \in Populated(in) : via \in {All(in)[i].name, AutoOf(All(in)[i].name)}
           \/ via \notin GroupNames(in) /\ Holders(in, via) # {}
    PROVE  Dialer(in, via) \in Policies(Assemble(in))
<1>1. CASE via \in Reserved
  <2>1. Dialer(in, via) = via
    BY <1>1 DEF Dialer, GroupNames
  <2> QED  BY <1>1, <2>1, ReservedIsDefined
<1>2. CASE \E i \in Populated(in) : via \in {All(in)[i].name, AutoOf(All(in)[i].name)}
  <2>1. Dialer(in, via) = via
    BY <1>2 DEF Dialer, GroupNames, Populated
  <2> QED  BY <1>2, <2>1, PopulatedIsDefined
<1>3. CASE via \notin GroupNames(in) /\ Holders(in, via) # {}
  <2>1. Qualified(in, via) \in Policies(Assemble(in)) /\ via \in NodeName
    BY <1>3, QualifiedIsDefined
  <2>2. via # ""
    <3>1. NodeName \subseteq Ref
      BY DEF Ref
    <3>2. "" \notin Ref
      BY NamesAreTexts
    <3> QED  BY <2>1, <3>1, <3>2
  <2> QED  BY <1>3, <2>1, <2>2 DEF Dialer
<1> QED  BY <1>1, <1>2, <1>3

\* What a subscription's rule is rewritten to is in the document, if the
\* subscriptions have nodes (rewriteTarget).
LEMMA RewrittenIsDefined ==
    ASSUME NEW in, Well(in), NEW i \in DOMAIN in.subs, NEW t,
           \A j \in DOMAIN in.subs : j \in Populated(in)
    PROVE  RewriteTarget(t, in.subs[i], {in.subs[j].name : j \in DOMAIN in.subs})
             \in Policies(Assemble(in))
<1> DEFINE g == in.subs[i]
           siblings == {in.subs[j].name : j \in DOMAIN in.subs}
<1>1. \A j \in DOMAIN in.subs : All(in)[j] = in.subs[j]
  <2>1. in.subs \in Seq(AnyGroup) /\ in.locals \in Seq(AnyGroup)
    BY DEF Well
  <2>2. \A a, b \in Seq(AnyGroup) : \A j \in DOMAIN a : (a \o b)[j] = a[j]
    OBVIOUS
  <2> QED  BY <2>1, <2>2 DEF All
<1>2. siblings \subseteq Policies(Assemble(in))
  BY <1>1, PopulatedIsDefined
<1>3. g.name \in Policies(Assemble(in)) /\ NodeRefs(g) \subseteq Policies(Assemble(in))
  BY <1>1, PopulatedIsDefined
<1>4. t \in NamesOfNodes(g) => NodeOf(g.name, t) \in NodeRefs(g)
  BY DEF NamesOfNodes, NodeRefs
<1> HIDE DEF g, siblings
<1>5. RewriteTarget(t, g, siblings) \in Policies(Assemble(in))
  BY <1>2, <1>3, <1>4, ReservedIsDefined DEF RewriteTarget
<1> QED  BY <1>5 DEF g, siblings

\* The rules' targets are taken from those of the local rules, of the active
\* subscription, rewritten, and of vpnkit's own policies.
LEMMA RulesTakenFrom ==
    ASSUME NEW in, Well(in), NEW P, Reserved \subseteq P, in.rules \in Seq(P),
           \A i \in DOMAIN in.subs : \A l \in DOMAIN in.subs[i].rules :
             RewriteTarget(in.subs[i].rules[l], in.subs[i], {in.subs[j].name : j \in DOMAIN in.subs})
               \in P
    PROVE  /\ EmitRules(in) \in Seq(P)
           /\ in.mode = "rule" => \E x \in Seq(P) : EmitRules(in) = in.rules \o x
<1>1. Template \in Seq(P) /\ << Proxy >> \in Seq(P) /\ << Direct >> \in Seq(P)
  <2>1. Helper \subseteq P /\ Proxy \in P /\ Direct \in P
    BY DEF Reserved, Helper
  <2> QED  BY <2>1, TemplateTargets
<1>2. PickActiveSubRules(in) \in Seq(P)
  <2> DEFINE named == {i \in DOMAIN in.subs : in.subs[i].name = ActiveOf(in)}
             k == CHOOSE i \in named : \A j \in named : i <= j
             g == in.subs[k]
             siblings == {in.subs[i].name : i \in DOMAIN in.subs}
  <2>1. PickActiveSubRules(in) = IF ActiveOf(in) = "" \/ named = {} THEN <<>>
          ELSE [l \in DOMAIN g.rules |-> RewriteTarget(g.rules[l], g, siblings)]
    BY DEF PickActiveSubRules
  <2>2. in.subs \in Seq(AnyGroup)
    BY DEF Well
  <2>3. named # {} => k \in DOMAIN in.subs
    <3>1. named \subseteq Nat /\ named \subseteq DOMAIN in.subs
      BY <2>2
    <3> HIDE DEF named
    <3> QED  BY <3>1, LeastExists
  <2> HIDE DEF named, k
  <2>4. CASE ActiveOf(in) = "" \/ named = {}
    <3>1. PickActiveSubRules(in) = <<>>
      BY <2>1, <2>4
    <3>2. <<>> \in Seq(P)
      OBVIOUS
    <3> QED  BY <3>1, <3>2
  <2>5. CASE ~(ActiveOf(in) = "" \/ named = {})
    <3>1. \A l \in DOMAIN g.rules : RewriteTarget(g.rules[l], g, siblings) \in P
      <4>1. k \in DOMAIN in.subs
        BY <2>3, <2>5
      <4>2. \A l \in DOMAIN in.subs[k].rules :
               RewriteTarget(in.subs[k].rules[l], in.subs[k], siblings) \in P
        BY <4>1
      <4> QED  BY <4>2
    <3>2. g.rules \in Seq(Ref)
      <4>1. \A i \in DOMAIN in.subs : in.subs[i] \in AnyGroup
        BY <2>2
      <4>2. g \in AnyGroup
        BY <2>3, <2>5, <4>1
      <4> HIDE DEF g
      <4> QED  BY <4>2 DEF AnyGroup
    <3>3. PickActiveSubRules(in)
            = [l \in DOMAIN g.rules |-> RewriteTarget(g.rules[l], g, siblings)]
      BY <2>1, <2>5
    <3> HIDE DEF g, siblings
    <3>4. DOMAIN g.rules = 1 .. Len(g.rules) /\ Len(g.rules) \in Nat
      BY <3>2
    <3>5. [l \in 1 .. Len(g.rules) |-> RewriteTarget(g.rules[l], g, siblings)]
            \in [1 .. Len(g.rules) -> P]
      BY <3>1, <3>4
    <3> QED  BY <3>3, <3>4, <3>5
  <2> QED  BY <2>4, <2>5
<1>3. /\ EmitRules(in) \in Seq(P)
      /\ in.mode = "rule" => \E x \in Seq(P) : EmitRules(in) = in.rules \o x
  <2> DEFINE own == IF PickActiveSubRules(in) # <<>> THEN PickActiveSubRules(in) ELSE Template
  <2>1. own \in Seq(P)
    BY <1>1, <1>2
  <2>2. /\ EmitRules(in) \in {<< Proxy >>, << Direct >>, in.rules \o own \o << Proxy >>}
        /\ in.mode = "rule" => EmitRules(in) = in.rules \o own \o << Proxy >>
    BY DEF EmitRules
  <2> HIDE DEF own
  <2>3. /\ in.rules \o own \o << Proxy >> \in Seq(P) /\ own \o << Proxy >> \in Seq(P)
        /\ in.rules \o own \o << Proxy >> = in.rules \o (own \o << Proxy >>)
    <3>1. in.rules \o own \in Seq(P) /\ own \o << Proxy >> \in Seq(P)
      BY <1>1, <2>1
    <3>2. in.rules \o own \o << Proxy >> \in Seq(P)
      BY <1>1, <3>1
    <3> DEFINE last == << Proxy >>
    <3>3. last \in Seq(P)
      BY <1>1
    <3> HIDE DEF last
    <3>4. (in.rules \o own) \o last = in.rules \o (own \o last)
      <4>1. \A x, y, z \in Seq(P) : (x \o y) \o z = x \o (y \o z)
        BY ConcatAssociative
      <4> QED  BY <2>1, <3>3, <4>1
    <3> QED  BY <3>1, <3>2, <3>4 DEF last
  <2> QED  BY <1>1, <2>2, <2>3
<1> QED  BY <1>3

\* Every rule's target is in the document, if the local ones' are and the
\* subscriptions have nodes.
LEMMA RulesOfAssemble ==
    ASSUME NEW in, Well(in), Elements(in.rules) \subseteq Policies(Assemble(in)),
           \A j \in DOMAIN in.subs : j \in Populated(in)
    PROVE  RulesClosed(Assemble(in))
<1> DEFINE P == Policies(Assemble(in))
<1>1. in.rules \in Seq(P)
  <2>1. in.rules \in Seq(Ref)
    BY DEF Well
  <2> HIDE DEF P
  <2> QED  BY <2>1 DEF Elements, P
<1>2. Reserved \subseteq P
  BY ReservedIsDefined
<1>3. ASSUME NEW i \in DOMAIN in.subs, NEW l \in DOMAIN in.subs[i].rules
      PROVE  RewriteTarget(in.subs[i].rules[l], in.subs[i], {in.subs[j].name : j \in DOMAIN in.subs})
               \in P
  BY RewrittenIsDefined
<1>4. Assemble(in).rules = EmitRules(in)
  BY DEF Assemble
<1> HIDE DEF P
<1>5. EmitRules(in) \in Seq(P)
  BY <1>1, <1>2, <1>3, RulesTakenFrom
<1>6. Elements(Assemble(in).rules) \subseteq P
  BY <1>4, <1>5 DEF Elements
<1> QED  BY <1>6 DEF RulesClosed, P

\* The document's selector and rules are texts that can name a policy; in rule
\* mode the local rules come first.
LEMMA DocTyped ==
    ASSUME NEW in, Well(in)
    PROVE  /\ Assemble(in).top \in Seq(Ref) /\ Assemble(in).rules \in Seq(Ref)
           /\ in.mode = "rule" => IsPrefix(in.rules, Assemble(in).rules)
<1>0. Reserved \subseteq Ref /\ Name \subseteq Ref /\ "DIRECT" \in Ref /\ Proxy \in Ref
      /\ \A s \in Name : AutoOf(s) \in Ref
  BY DEF Ref, Reserved, BuiltIn, Helper
<1>1. ASSUME NEW i \in DOMAIN in.subs, NEW l \in DOMAIN in.subs[i].rules
      PROVE  RewriteTarget(in.subs[i].rules[l], in.subs[i], {in.subs[j].name : j \in DOMAIN in.subs})
               \in Ref
  <2>1. in.subs \in Seq(AnyGroup)
    BY DEF Well
  <2>2. \A j \in DOMAIN in.subs : in.subs[j] \in AnyGroup /\ in.subs[j].name \in Name
    <3>1. \A j \in DOMAIN in.subs : in.subs[j] \in AnyGroup
      BY <2>1
    <3> QED  BY <3>1 DEF AnyGroup
  <2> DEFINE g == in.subs[i]
             t == g.rules[l]
             siblings == {in.subs[j].name : j \in DOMAIN in.subs}
  <2>3. g.name \in Name /\ siblings \subseteq Name
    BY <2>2
  <2>4. t \in NamesOfNodes(g) => t \in NodeName
    <3>1. g.nodes \in AnyTable
      BY <2>2 DEF AnyGroup
    <3> HIDE DEF g, t
    <3>2. \A k \in DOMAIN g.nodes : g.nodes[k].name \in NodeName
      BY <3>1 DEF AnyTable
    <3> QED  BY <3>2 DEF NamesOfNodes
  <2>5. \A s \in Name, n \in NodeName : NodeOf(s, n) \in Ref
    BY DEF Ref
  <2> HIDE DEF g, t, siblings
  <2>6. RewriteTarget(t, g, siblings) \in Ref
    BY <1>0, <2>3, <2>4, <2>5 DEF RewriteTarget
  <2> QED  BY <2>6 DEF g, t, siblings
<1>2. /\ Assemble(in).rules \in Seq(Ref)
      /\ in.mode = "rule" => IsPrefix(in.rules, Assemble(in).rules)
  <2>1. in.rules \in Seq(Ref)
    BY DEF Well
  <2>2. /\ EmitRules(in) \in Seq(Ref)
        /\ in.mode = "rule" => \E x \in Seq(Ref) : EmitRules(in) = in.rules \o x
    BY <1>0, <1>1, <2>1, RulesTakenFrom
  <2>3. \A x \in Seq(Ref) : IsPrefix(in.rules, in.rules \o x)
    BY <2>1 DEF IsPrefix
  <2>4. Assemble(in).rules = EmitRules(in)
    BY DEF Assemble
  <2> QED  BY <2>2, <2>3, <2>4
<1> DEFINE list == TopProxyMembersFor(in)
           t    == EffectiveTarget(in)
<1>3. list \in Seq(Ref)
  <2>1. CASE \E i \in Populated(in) : All(in)[i].name = ActiveOf(in)
    <3>1. ActiveOf(in) \in Name
      BY <2>1, SourcesTyped DEF Populated
    <3>2. list = << AutoOf(ActiveOf(in)), ActiveOf(in), "DIRECT" >>
      BY <2>1 DEF TopProxyMembersFor
    <3>3. AutoOf(ActiveOf(in)) \in Ref /\ ActiveOf(in) \in Ref /\ "DIRECT" \in Ref
      BY <1>0, <3>1
    <3> HIDE DEF list
    <3> QED  BY <3>2, <3>3
  <2>2. CASE ~\E i \in Populated(in) : All(in)[i].name = ActiveOf(in)
    <3>1. list = << "DIRECT" >>
      BY <2>2 DEF TopProxyMembersFor
    <3> HIDE DEF list
    <3> QED  BY <1>0, <3>1
  <2> QED  BY <2>1, <2>2
<1>4. t \in Ref
  BY <1>0 DEF EffectiveTarget, Well
<1> HIDE DEF list, t
<1>5. WithTargetFirst(list, t) \in Seq(Ref)
  <2>1. CASE t = Proxy
    BY <1>3, <2>1 DEF WithTargetFirst
  <2>2. CASE t # Proxy /\ t \notin {list[i] : i \in DOMAIN list}
    BY <1>3, <1>4, <2>2 DEF WithTargetFirst
  <2>3. CASE t # Proxy /\ t \in {list[i] : i \in DOMAIN list}
    <3> DEFINE T == {i \in DOMAIN list : list[i] = t}
               k == CHOOSE i \in DOMAIN list : list[i] = t /\ \A j \in 1 .. i - 1 : list[j] # t
    <3>1. T \subseteq Nat /\ T # {} /\ DOMAIN list = 1 .. Len(list)
      BY <1>3, <2>3
    <3>2. PICK i \in T : \A j \in T : i <= j
      <4> HIDE DEF T
      <4> QED  BY <3>1, LeastExists
    <3>3. list[i] = t /\ \A j \in 1 .. i - 1 : list[j] # t
      BY <3>1, <3>2
    <3>4. k \in 1 .. Len(list)
      BY <3>1, <3>3
    <3>5. WithTargetFirst(list, t) = <<t>> \o RemoveAt(list, k)
      BY <2>3 DEF WithTargetFirst
    <3> HIDE DEF k
    <3>6. RemoveAt(list, k) \in Seq(Ref)
      BY <1>3, <3>4, RemoveAtFacts
    <3> QED  BY <1>4, <3>5, <3>6
  <2> QED  BY <2>1, <2>2, <2>3
<1>6. TopMembers(in) \in Seq(Ref)
  BY <1>3, <1>5 DEF TopMembers, list, t
<1> QED  BY <1>2, <1>6 DEF Assemble

\* What a proxy of the document is called, after whom.
LEMMA ProxiesNamed ==
    ASSUME NEW in, Well(in), NEW p \in EmitProxies(in)
    PROVE  LET g == All(in)[p.owner] IN
           /\ p.owner \in DOMAIN All(in) /\ p.slot \in DOMAIN g.nodes
           /\ g.name \in Name /\ g.nodes[p.slot].name \in NodeName
           /\ p = [owner |-> p.owner, slot |-> p.slot,
                   name   |-> NodeOf(g.name, g.nodes[p.slot].name),
                   dialer |-> Dialer(in, g.nodes[p.slot].via)]
<1> DEFINE entry(i, k) == [owner |-> i, slot |-> k,
                           name   |-> ProxyName(All(in)[i], k),
                           dialer |-> Dialer(in, All(in)[i].nodes[k].via)]
<1>1. EmitProxies(in) = UNION {{entry(i, k) : k \in DOMAIN All(in)[i].nodes} : i \in DOMAIN All(in)}
  BY Zenon DEF EmitProxies
<1>2. PICK i \in DOMAIN All(in) : \E k \in DOMAIN All(in)[i].nodes : p = entry(i, k)
  <2> HIDE DEF entry
  <2> QED  BY <1>1
<1>3. PICK k \in DOMAIN All(in)[i].nodes : p = entry(i, k)
  BY <1>2
<1>4. p.owner = i /\ p.slot = k
  BY <1>3
<1> QED  BY <1>2, <1>3, <1>4, SourcesTyped DEF ProxyName

\* What a group of the document is called, after whom.
LEMMA GroupsNamed ==
    ASSUME NEW in, Well(in), NEW h \in EmitGroups(in)
    PROVE  \E i \in DOMAIN All(in) :
             /\ All(in)[i].name \in Name /\ h \in EmitPair(i, All(in)[i])
             /\ h.name \in {All(in)[i].name, AutoOf(All(in)[i].name)}
<1>1. PICK i \in Populated(in) : h \in EmitPair(i, All(in)[i])
  BY DEF EmitGroups
<1>2. h.name \in {All(in)[i].name, AutoOf(All(in)[i].name)}
  BY <1>1 DEF EmitPair
<1>3. i \in DOMAIN All(in)
  BY DEF Populated
<1> QED  BY <1>1, <1>2, <1>3, SourcesTyped

\* Of one source, two groups of one name are the same.
LEMMA PairDiffers ==
    ASSUME NEW i, NEW g, g.name # AutoOf(g.name),
           NEW h \in EmitPair(i, g), NEW f \in EmitPair(i, g), h.name = f.name
    PROVE  h = f
BY DEF EmitPair

\* No two entries share a name, if no two sources do, none is called like
\* another's url-test group and none has two nodes of one name.
LEMMA NamesOfAssemble ==
    ASSUME NEW in, Well(in),
           \A i, j \in DOMAIN All(in) :
             /\ All(in)[i].name = All(in)[j].name => i = j
             /\ All(in)[i].name # AutoOf(All(in)[j].name),
           \A i \in DOMAIN All(in) : \A k, l \in DOMAIN All(in)[i].nodes :
             All(in)[i].nodes[k].name = All(in)[i].nodes[l].name => k = l
    PROVE  NamesUnique(Assemble(in))
<1>0. Assemble(in).proxies = EmitProxies(in) /\ Assemble(in).groups = EmitGroups(in)
  BY DEF Assemble
<1>1. ASSUME NEW p \in EmitProxies(in), NEW q \in EmitProxies(in), p.name = q.name
      PROVE  p = q
  <2>1. /\ p.name = NodeOf(All(in)[p.owner].name, All(in)[p.owner].nodes[p.slot].name)
        /\ q.name = NodeOf(All(in)[q.owner].name, All(in)[q.owner].nodes[q.slot].name)
    BY ProxiesNamed
  <2>2. /\ All(in)[p.owner].name = All(in)[q.owner].name
        /\ All(in)[p.owner].nodes[p.slot].name = All(in)[q.owner].nodes[q.slot].name
    <3>1. \A s, t \in Name, n, m \in NodeName : NodeOf(s, n) = NodeOf(t, m) => s = t /\ n = m
      BY NamesAreTexts
    <3>2. /\ All(in)[p.owner].name \in Name /\ All(in)[p.owner].nodes[p.slot].name \in NodeName
          /\ All(in)[q.owner].name \in Name /\ All(in)[q.owner].nodes[q.slot].name \in NodeName
      BY ProxiesNamed
    <3> DEFINE s == All(in)[p.owner].name
               t == All(in)[q.owner].name
               n == All(in)[p.owner].nodes[p.slot].name
               m == All(in)[q.owner].nodes[q.slot].name
    <3>3. NodeOf(s, n) = NodeOf(t, m)
      BY <1>1, <2>1
    <3> HIDE DEF s, t, n, m
    <3>4. s = t /\ n = m
      BY <3>1, <3>2, <3>3 DEF s, t, n, m
    <3> QED  BY <3>4 DEF s, t, n, m
  <2>3. p.owner = q.owner
    BY <2>2, ProxiesNamed
  <2>4. p.slot = q.slot
    BY <2>2, <2>3, ProxiesNamed
  <2> QED  BY <2>3, <2>4, ProxiesNamed
<1>2. ASSUME NEW h \in EmitGroups(in), NEW f \in EmitGroups(in), h.name = f.name
      PROVE  h = f
  <2>1. PICK i \in DOMAIN All(in) :
             /\ All(in)[i].name \in Name /\ h \in EmitPair(i, All(in)[i])
             /\ h.name \in {All(in)[i].name, AutoOf(All(in)[i].name)}
    BY GroupsNamed
  <2>2. PICK j \in DOMAIN All(in) :
             /\ All(in)[j].name \in Name /\ f \in EmitPair(j, All(in)[j])
             /\ f.name \in {All(in)[j].name, AutoOf(All(in)[j].name)}
    BY GroupsNamed
  <2>3. All(in)[i].name = All(in)[j].name
    <3>1. \A s, t \in Name : AutoOf(s) = AutoOf(t) => s = t
      BY NamesAreTexts
    <3> QED  BY <1>2, <2>1, <2>2, <3>1
  <2>4. i = j
    BY <2>3
  <2> QED  BY <1>2, <2>1, <2>2, <2>4, PairDiffers
<1>3. ASSUME NEW p \in EmitProxies(in), NEW h \in EmitGroups(in)
      PROVE  p.name # h.name
  <2>1. \E s \in Name, n \in NodeName : p.name = NodeOf(s, n)
    BY ProxiesNamed
  <2>2. \E s \in Name : h.name \in {s, AutoOf(s)}
    BY GroupsNamed
  <2>3. /\ \A s \in Name, n \in NodeName : NodeOf(s, n) \notin Name
        /\ \A s, t \in Name, n \in NodeName : NodeOf(s, n) # AutoOf(t)
    BY NamesAreTexts
  <2> QED  BY <2>1, <2>2, <2>3
<1> QED  BY <1>0, <1>1, <1>2, <1>3 DEF NamesUnique

-----------------------------------------------------------------------------
\* The selector of Assemble's document.
LEMMA TopOfAssemble ==
    ASSUME NEW in, Well(in)
    PROVE  Assemble(in).top # <<>> /\ TopClosed(Assemble(in))
<1> DEFINE list == TopProxyMembersFor(in)
           t    == EffectiveTarget(in)
           ok   == Policies(Assemble(in)) \ {Proxy}
<1>1. Assemble(in).top = TopMembers(in)
  BY DEF Assemble
<1>2. /\ \/ \E x, y, z : list = <<x, y, z>>
         \/ \E x : list = <<x>>
      /\ Elements(list) \subseteq ok
  BY DefaultMembers
<1>3. GlobalTargetExists(in, t) => t = Proxy \/ t \in ok
  BY ReservedIsDefined, PopulatedIsDefined DEF GlobalTargetExists
<1> HIDE DEF list, t, ok
<1>4. /\ WithTargetFirst(list, t) # <<>>
      /\ Elements(WithTargetFirst(list, t)) \subseteq
            IF t = Proxy THEN Elements(list) ELSE Elements(list) \union {t}
  BY <1>2, TargetFirstMembers
<1>5. CASE GlobalTargetExists(in, t)
  <2>1. TopMembers(in) = WithTargetFirst(list, t)
    BY <1>5 DEF TopMembers, list, t
  <2>2. Elements(WithTargetFirst(list, t)) \subseteq ok
    BY <1>2, <1>3, <1>4, <1>5
  <2> QED
    BY <1>1, <1>4, <2>1, <2>2 DEF TopClosed, ok
<1>6. CASE ~GlobalTargetExists(in, t)
  <2>1. TopMembers(in) = list
    BY <1>6 DEF TopMembers, list, t
  <2>2. list # <<>>
    BY <1>2
  <2> QED
    BY <1>1, <1>2, <2>1, <2>2 DEF TopClosed, ok
<1> QED
  BY <1>5, <1>6

\* The source groups of Assemble's document.
LEMMA GroupsOfAssemble ==
    ASSUME NEW in, Well(in)
    PROVE  GroupsClosed(Assemble(in))
<1> SUFFICES ASSUME NEW h \in Assemble(in).groups
             PROVE  h.members # {} /\ h.members \subseteq Policies(Assemble(in))
  BY DEF GroupsClosed
<1>1. PICK i \in Populated(in) : h \in EmitPair(i, All(in)[i])
  BY DEF Assemble, EmitGroups
<1>2. /\ h.members \subseteq {AutoOf(All(in)[i].name)} \union NodeRefs(All(in)[i])
      /\ NodeRefs(All(in)[i]) \subseteq h.members
  BY <1>1 DEF EmitPair
<1>3. NodeRefs(All(in)[i]) # {}
  BY DEF Populated, NodeRefs
<1> QED
  BY <1>2, <1>3, PopulatedIsDefined

-----------------------------------------------------------------------------
(* The call.                                                               *)

\* What is returned is Assemble's document of a well-formed input.
Assembled == Well(input) /\ (Returned => output = Assemble(input))

\* It is so throughout.
LEMMA AlwaysAssembled == CallSpec => []Assembled
<1>1. CallInit => Assembled
  BY InputsTyped, InputsWell DEF CallInit, Returned, Assembled
<1>2. Assembled /\ [Call]_callVars => Assembled'
  BY DEF Call, callVars, Returned, Assembled
<1> QED
  BY <1>1, <1>2, PTL DEF CallSpec

\* In every document Assemble returns, whatever its input, the selector every
\* unmatched connection goes through is non-empty, loop-free and defined
\* (topProxyMembersFor, globalTargetExists, withTargetFirst).
THEOREM TopAlwaysLoads == CallSpec => []TopIsClosed
<1>1. Assembled => TopIsClosed
  BY TopOfAssemble DEF TopIsClosed, Assembled
<1> QED
  BY <1>1, AlwaysAssembled, PTL

\* Every member of every source's group is emitted in the same document
\* (emitPair skips a source without nodes).
THEOREM GroupsAlwaysLoad == CallSpec => []GroupsAreClosed
<1>1. Assembled => GroupsAreClosed
  BY GroupsOfAssemble DEF GroupsAreClosed, Assembled
<1> QED
  BY <1>1, AlwaysAssembled, PTL

\* A selector whose default is left alone, or is the active source's own,
\* offers that source and DIRECT and nothing else (topProxyMembersFor).
THEOREM TopStaysActive == CallSpec => []TopIsActive
<1>1. Assembled => TopIsActive
  <2> SUFFICES ASSUME Assembled, Returned, OwnTarget
               PROVE  Elements(output.top) \subseteq
                        {AutoOf(ActiveOf(input)), ActiveOf(input), "DIRECT"}
    BY DEF TopIsActive
  <2>1. output.top = TopMembers(input) /\ Well(input)
    BY DEF Assembled, Assemble
  <2> QED  BY <2>1, OwnMembers DEF OwnTarget
<1> QED
  BY <1>1, AlwaysAssembled, PTL

\* Every dialer and every rule's target that can resolve does (emitProxies,
\* rewriteTarget, pickActiveSubRules, emitRules).
THEOREM ReferencesAlwaysResolve == CallSpec => []ReferencesResolve
<1>1. Assembled => DialersResolve
  <2> SUFFICES ASSUME Assembled, Returned, NEW p \in output.proxies,
                      Resolvable(All(input)[p.owner].nodes[p.slot].via)
               PROVE  p.dialer \in Policies(output)
    BY DEF DialersResolve
  <2>1. output = Assemble(input) /\ Well(input) /\ output.proxies = EmitProxies(input)
    BY DEF Assembled, Assemble
  <2>2. p.dialer = Dialer(input, All(input)[p.owner].nodes[p.slot].via)
    BY <2>1, ProxiesNamed
  <2> QED  BY <2>1, <2>2, DialersOfAssemble DEF Resolvable
<1>2. Assembled => RulesResolve
  BY RulesOfAssemble DEF Assembled, RulesResolve
<1> QED
  BY <1>1, <1>2, AlwaysAssembled, PTL DEF ReferencesResolve

\* Namespacing keeps the nodes of different sources apart, from each other and
\* from the groups (emitProxies, emitPair).
THEOREM NamesStayUnique == CallSpec => []NamesAreUnique
<1>1. Assembled => NamesAreUnique
  BY NamesOfAssemble DEF Assembled, NamesAreUnique, SourcesDistinct
<1> QED
  BY <1>1, AlwaysAssembled, PTL
=============================================================================
