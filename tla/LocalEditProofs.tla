--------------------------- MODULE LocalEditProofs ---------------------------
(***************************************************************************)
(* Theorems of LocalEdit, for any names, groups, workers and lists.        *)
(***************************************************************************)
EXTENDS LocalEdit, Integers, SequenceTheorems, TLAPS

-----------------------------------------------------------------------------
(* Lists of nodes: what removing and appending a node does to them.        *)

\* The first node of a name that is there is one of that name.
LEMMA FirstFound ==
    ASSUME NEW S, NEW s \in Seq(S), NEW n, HasName(s, n), Unique(s)
    PROVE  /\ FirstOf(s, n) \in 1 .. Len(s) /\ s[FirstOf(s, n)].name = n
           /\ \A i \in 1 .. Len(s) : s[i].name = n => i = FirstOf(s, n)
<1>1. PICK i \in DOMAIN s : s[i].name = n
  BY DEF HasName
<1>2. \A j \in 1 .. i - 1 : s[j].name # n
  BY <1>1 DEF Unique
<1>3. FirstOf(s, n) \in DOMAIN s /\ s[FirstOf(s, n)].name = n
  BY <1>1, <1>2 DEF FirstOf
<1> QED
  BY <1>3 DEF Unique

\* Taking one element out of a sequence leaves the others, in order.
LEMMA RemoveAtFacts ==
    ASSUME NEW S, NEW s \in Seq(S), NEW k \in 1 .. Len(s)
    PROVE  /\ RemoveAt(s, k) \in Seq(S)
           /\ Len(RemoveAt(s, k)) = Len(s) - 1
           /\ \A j \in 1 .. Len(s) - 1 : RemoveAt(s, k)[j] = IF j < k THEN s[j] ELSE s[j + 1]
<1> DEFINE a == SubSeq(s, 1, k - 1)
           b == SubSeq(s, k + 1, Len(s))
<1>1. a \in Seq(S) /\ Len(a) = k - 1 /\ \A j \in 1 .. k - 1 : a[j] = s[j]
  OBVIOUS
<1>2. b \in Seq(S) /\ Len(b) = Len(s) - k /\ \A j \in 1 .. Len(s) - k : b[j] = s[k + j]
  OBVIOUS
<1> HIDE DEF a, b
<1>3. /\ a \o b \in Seq(S) /\ Len(a \o b) = Len(s) - 1
      /\ \A j \in 1 .. Len(s) - 1 : (a \o b)[j] = IF j < k THEN s[j] ELSE s[j + 1]
  <2>1. a \o b \in Seq(S) /\ Len(a \o b) = Len(a) + Len(b)
    BY <1>1, <1>2, ConcatProperties
  <2>2. \A j \in 1 .. Len(s) - 1 : (a \o b)[j] = IF j <= Len(a) THEN a[j] ELSE b[j - Len(a)]
    BY <1>1, <1>2, ConcatProperties
  <2>3. ASSUME NEW j \in 1 .. Len(s) - 1 PROVE (a \o b)[j] = IF j < k THEN s[j] ELSE s[j + 1]
    <3>1. CASE j < k
      <4>1. j \in 1 .. k - 1 /\ j <= Len(a)
        BY <1>1, <3>1
      <4> QED  BY <1>1, <2>2, <3>1, <4>1
    <3>2. CASE ~(j < k)
      <4>1. ~(j <= Len(a)) /\ j - Len(a) \in 1 .. Len(s) - k /\ k + (j - Len(a)) = j + 1
        BY <1>1, <3>2
      <4>2. b[j - Len(a)] = s[j + 1]
        BY <1>2, <4>1
      <4> QED  BY <2>2, <3>2, <4>1, <4>2
    <3> QED  BY <3>1, <3>2
  <2>4. Len(a) + Len(b) = Len(s) - 1
    BY <1>1, <1>2
  <2> QED  BY <2>1, <2>3, <2>4
<1> QED
  BY <1>3 DEF RemoveAt, a, b

\* Manager.Remove takes the named node out and leaves the others.
LEMMA Dropped ==
    ASSUME NEW S, NEW s \in Seq(S), NEW n, HasName(s, n), Unique(s)
    PROVE  /\ DropName(s, n) \in Seq(S) /\ Unique(DropName(s, n))
           /\ ToSet(DropName(s, n)) = {x \in ToSet(s) : x.name # n}
           /\ ~HasName(DropName(s, n), n)
<1> DEFINE k == FirstOf(s, n)
           d == RemoveAt(s, k)
<1>1. /\ k \in 1 .. Len(s) /\ s[k].name = n
      /\ \A i \in 1 .. Len(s) : s[i].name = n => i = k
  BY FirstFound
<1> HIDE DEF k
<1>2. /\ d \in Seq(S) /\ Len(d) = Len(s) - 1
      /\ \A j \in 1 .. Len(s) - 1 : d[j] = IF j < k THEN s[j] ELSE s[j + 1]
  BY <1>1, RemoveAtFacts
<1>3. \A i \in 1 .. Len(s) : i # k => \E j \in 1 .. Len(d) : d[j] = s[i]
  <2> SUFFICES ASSUME NEW i \in 1 .. Len(s), i # k PROVE \E j \in 1 .. Len(d) : d[j] = s[i]
    OBVIOUS
  <2>1. CASE i < k
    <3>1. i \in 1 .. Len(d) /\ d[i] = s[i]
      BY <1>1, <1>2, <2>1
    <3> QED
      BY <3>1
  <2>2. CASE i > k
    <3>1. i - 1 \in 1 .. Len(s) - 1 /\ ~(i - 1 < k) /\ (i - 1) + 1 = i
      BY <1>1, <2>2
    <3>2. d[i - 1] = s[(i - 1) + 1]
      BY <1>2, <3>1
    <3> QED
      BY <1>2, <3>1, <3>2
  <2> QED
    BY <1>1, <2>1, <2>2
<1>4. \A j \in 1 .. Len(d) : \E i \in 1 .. Len(s) : i # k /\ d[j] = s[i]
  <2> SUFFICES ASSUME NEW j \in 1 .. Len(d)
               PROVE  \E i \in 1 .. Len(s) : i # k /\ d[j] = s[i]
    OBVIOUS
  <2>1. CASE j < k
    BY <1>1, <1>2, <2>1
  <2>2. CASE ~(j < k)
    <3>1. j + 1 \in 1 .. Len(s) /\ j + 1 # k /\ d[j] = s[j + 1]
      BY <1>1, <1>2, <2>2
    <3> QED
      BY <3>1
  <2> QED
    BY <2>1, <2>2
<1> HIDE DEF d
<1>5. Unique(d)
  <2> SUFFICES ASSUME NEW i \in 1 .. Len(d), NEW j \in 1 .. Len(d), d[i].name = d[j].name
               PROVE  i = j
    BY <1>2 DEF Unique
  <2> DEFINE old(x) == IF x < k THEN x ELSE x + 1
  <2>1. old(i) \in 1 .. Len(s) /\ old(j) \in 1 .. Len(s) /\ d[i] = s[old(i)] /\ d[j] = s[old(j)]
    BY <1>1, <1>2
  <2>2. old(i) = old(j)
    <3> HIDE DEF old
    <3> QED
      BY <2>1 DEF Unique
  <2> QED
    BY <1>1, <2>2
<1>6. ToSet(d) = {x \in ToSet(s) : x.name # n}
  <2>1. \A x : x \in ToSet(d) => x \in ToSet(s) /\ x.name # n
    <3> SUFFICES ASSUME NEW x \in ToSet(d) PROVE x \in ToSet(s) /\ x.name # n
      OBVIOUS
    <3>1. PICK j \in 1 .. Len(d) : x = d[j]
      BY <1>2 DEF ToSet
    <3>2. PICK i \in 1 .. Len(s) : i # k /\ d[j] = s[i]
      BY <1>4
    <3> QED
      BY <1>1, <3>1, <3>2 DEF ToSet
  <2>2. \A x : x \in ToSet(s) /\ x.name # n => x \in ToSet(d)
    <3> SUFFICES ASSUME NEW x \in ToSet(s), x.name # n PROVE x \in ToSet(d)
      OBVIOUS
    <3>1. PICK i \in 1 .. Len(s) : x = s[i]
      BY DEF ToSet
    <3>2. PICK j \in 1 .. Len(d) : d[j] = s[i]
      BY <1>1, <1>3, <3>1
    <3> QED
      BY <1>2, <3>1, <3>2 DEF ToSet
  <2> QED
    BY <2>1, <2>2
<1>7. ~HasName(d, n)
  BY <1>1, <1>2, <1>4 DEF HasName
<1> QED
  BY <1>2, <1>5, <1>6, <1>7 DEF DropName, k, d

\* Manager.Add of a name it has not.
LEMMA Appended ==
    ASSUME NEW S, NEW s \in Seq(S), NEW x \in S, Unique(s), ~HasName(s, x.name)
    PROVE  /\ Append(s, x) \in Seq(S) /\ Unique(Append(s, x))
           /\ ToSet(Append(s, x)) = ToSet(s) \union {x}
<1>1. /\ Append(s, x) \in Seq(S) /\ Len(Append(s, x)) = Len(s) + 1
      /\ \A i \in 1 .. Len(s) : Append(s, x)[i] = s[i]
      /\ Append(s, x)[Len(s) + 1] = x
  OBVIOUS
<1> DEFINE a == Append(s, x)
<1> HIDE DEF a
<1>2. Unique(a)
  BY <1>1 DEF Unique, HasName, a
<1>3. ToSet(a) = ToSet(s) \union {x}
  <2>1. ToSet(s) \subseteq ToSet(a) /\ x \in ToSet(a)
    BY <1>1 DEF ToSet, a
  <2>2. ToSet(a) \subseteq ToSet(s) \union {x}
    BY <1>1 DEF ToSet, a
  <2> QED
    BY <2>1, <2>2
<1> QED
  BY <1>1, <1>2, <1>3 DEF a

\* A list has a name that one of its elements has.
LEMMA Named ==
    ASSUME NEW s, NEW n PROVE HasName(s, n) <=> \E x \in ToSet(s) : x.name = n
BY DEF HasName, ToSet

-----------------------------------------------------------------------------
(* Types, and the names of the nodes.                                      *)

\* An edit under way has the node it changes and the node it makes of it.
Editing == ui.pc \in {"found", "removed", "collided"} => ui.old \in Node /\ ui.new \in Node

Typed == TypeOK /\ NamesStayDistinct /\ Editing

\* No step changes what the instance allows.
LEMMA ScopeFixed ==
    ASSUME scope' = scope
    PROVE  /\ Groups' = Groups /\ Group' = Group /\ Node' = Node /\ MaxEdits' = MaxEdits
           /\ Patient' = Patient /\ SaveMayFail' = SaveMayFail
           /\ Doc' = Doc /\ Ui' = Ui
BY DEF Groups, Group, Node, MaxEdits, Patient, SaveMayFail, Doc, Ui

\* What an instance allows has its type.
LEMMA ScopeFacts ==
    ASSUME scope \in Scopes
    PROVE  /\ Groups \in Seq(STRING) /\ Len(Groups) \in Nat \ {0} /\ Active \in Group
           /\ Group = {Groups[i] : i \in 1 .. Len(Groups)}
           /\ MaxEdits \in Nat /\ Patient \in BOOLEAN
           /\ \A list \in scope.starts : list \in Seq(Node) /\ Unique(list)
<1>1. Groups \in Seq(STRING) /\ Active \in Group /\ MaxEdits \in Nat /\ Patient \in BOOLEAN
  BY EditsOK DEF Groups, Group, MaxEdits, Patient
<1>2. \A list \in scope.starts : list \in Seq(Node) /\ Unique(list)
  BY EditsOK DEF Node, Group, Groups
<1> QED
  BY <1>1, <1>2 DEF Group

\* What a worker reads of a group are nodes, and a pair its entry in the document.
LEMMA MembersTyped ==
    ASSUME NEW list \in Seq(Node), NEW g
    PROVE  /\ MembersIn(list, g) \in SUBSET Node
           /\ g \in Group => PairOf(list, g) \in SUBSET (Group \X SUBSET Node)
<1>1. MembersIn(list, g) \in SUBSET Node
  BY DEF MembersIn
<1> QED
  BY <1>1 DEF PairOf

\* The selector's members are groups.
LEMMA TopTyped == Active \in Group => \A list : TopOf(list) \in SUBSET Group
BY DEF TopOf

\* A worker's document has its type.
LEMMA DocTyped ==
    ASSUME scope \in Scopes, NEW list \in Seq(Node)
    PROVE  DocOf(list) \in Doc /\ EmptyDoc \in Doc
<1>1. UNION {MembersIn(list, g) : g \in Group} \in SUBSET Node
  BY MembersTyped
<1>2. UNION {PairOf(list, g) : g \in Group} \in SUBSET (Group \X SUBSET Node)
  BY MembersTyped
<1>3. TopOf(list) \in SUBSET Group
  BY ScopeFacts, TopTyped
<1> QED
  BY <1>1, <1>2, <1>3 DEF DocOf, EmptyDoc, Doc

Job == [pc : RunPCs, at : 1 .. Len(Groups), out : Doc]

\* A worker at rest and an empty document have their types.
LEMMA RestingTyped ==
    ASSUME scope \in Scopes PROVE Resting \in Job /\ EmptyDoc \in Doc
BY ScopeFacts DEF Resting, EmptyDoc, Job, RunPCs, Doc

\* What a worker goes on to has its type.
LEMMA AfterTyped ==
    ASSUME scope \in Scopes, NEW r \in Job, NEW next \in RunPCs
    PROVE  After(r, next) \in Job
<1>1. Len(Groups) \in Nat \ {0} /\ r.at \in 1 .. Len(Groups)
  BY ScopeFacts DEF Job
<1>2. ASSUME r.at < Len(Groups) PROVE [r EXCEPT !.at = r.at + 1] \in Job
  <2>1. r.at + 1 \in 1 .. Len(Groups)
    BY <1>1, <1>2
  <2> QED
    BY <2>1 DEF Job
<1>3. [r EXCEPT !.at = 1, !.pc = next] \in Job
  <2>1. 1 \in 1 .. Len(Groups)
    BY <1>1
  <2> QED
    BY <2>1 DEF Job
<1> QED
  BY <1>2, <1>3 DEF After

\* At first.
LEMMA InitTyped == Init => Typed
<1> SUFFICES ASSUME Init PROVE Typed
  OBVIOUS
<1>1. scope \in Scopes /\ cfg \in Seq(Node) /\ Unique(cfg) /\ mgr = cfg /\ disk = cfg
  BY ScopeFacts DEF Init
<1>2. doc \in Doc
  BY <1>1, DocTyped DEF Init
<1>3. ui \in Ui
  BY <1>1 DEF Init, Ui, UiPCs
<1>4. run \in [Workers -> Job]
  BY <1>1, RestingTyped DEF Init
<1>5. edits \in 0 .. MaxEdits
  BY <1>1, ScopeFacts DEF Init
<1> QED
  BY <1>1, <1>2, <1>3, <1>4, <1>5 DEF Init, Typed, TypeOK, NamesStayDistinct, Editing, Job

\* What a step of the user or of a worker does to the variables others write.
LEMMA BeginTyped ==
    ASSUME Typed, scope' = scope, NEW op \in {"add", "delete", "edit"},
           NEW old \in Node \union {NoNode}, NEW new \in Node \union {NoNode},
           NEW next \in UiPCs, Begin(op, old, new, next),
           next \in {"found", "changed"}, next = "found" => old \in Node /\ new \in Node,
           mgr' \in Seq(Node), Unique(mgr')
    PROVE  Typed'
<1>1. ui' \in Ui
  BY DEF Begin, Ui, Typed, TypeOK
<1>2. edits' \in 0 .. MaxEdits
  BY ScopeFacts DEF Begin, Typed, TypeOK
<1>3. Editing'
  BY ScopeFixed DEF Begin, Editing
<1> QED
  BY <1>1, <1>2, <1>3, ScopeFixed DEF Begin, Typed, TypeOK, NamesStayDistinct, Unique

\* What the user begins.
LEMMA UserTyped ==
    ASSUME Typed, scope' = scope, UserStep PROVE Typed'
<1> USE DEF UiPCs
<1>0. mgr \in Seq(Node) /\ Unique(mgr)
  BY DEF Typed, TypeOK, NamesStayDistinct
<1>1. ASSUME NEW n \in Node, AddNode(n) PROVE Typed'
  <2>1. mgr' \in Seq(Node) /\ Unique(mgr')
    BY <1>0, <1>1, Appended DEF AddNode, Unique
  <2> QED
    BY <1>1, <2>1, BeginTyped DEF AddNode
<1>2. ASSUME NEW n \in NodeName, DeleteNode(n) PROVE Typed'
  <2>1. mgr' \in Seq(Node) /\ Unique(mgr')
    BY <1>0, <1>2, Dropped DEF DeleteNode, Unique
  <2>2. mgr[FirstOf(mgr, n)] \in Node
    BY <1>0, <1>2, FirstFound DEF DeleteNode
  <2> QED
    BY <1>2, <2>1, <2>2, BeginTyped DEF DeleteNode
<1>3. ASSUME NEW n \in NodeName, NEW new \in Node, EditGet(n, new) PROVE Typed'
  <2>1. mgr[FirstOf(mgr, n)] \in Node
    BY <1>0, <1>3, FirstFound DEF EditGet
  <2>2. mgr' \in Seq(Node) /\ Unique(mgr')
    BY <1>0, <1>3 DEF EditGet, Unique
  <2> QED
    BY <1>3, <2>1, <2>2, BeginTyped DEF EditGet
<1> QED
  BY <1>1, <1>2, <1>3 DEF UserStep

\* What the UI goroutine does.
LEMMA UiTyped ==
    ASSUME Typed, scope' = scope, UiStep PROVE Typed'
<1>0. /\ scope \in Scopes /\ mgr \in Seq(Node) /\ Unique(mgr) /\ cfg \in Seq(Node) /\ Unique(cfg)
      /\ disk \in Seq(Node) /\ doc \in Doc /\ ui \in Ui /\ run \in [Workers -> Job]
      /\ edits \in 0 .. MaxEdits /\ Editing
  BY DEF Typed, TypeOK, NamesStayDistinct, Job
<1> SUFFICES /\ mgr' \in Seq(Node) /\ Unique(mgr') /\ cfg' \in Seq(Node) /\ Unique(cfg')
             /\ disk' \in Seq(Node) /\ ui' \in Ui /\ run' \in [Workers -> Job]
             /\ doc' = doc /\ edits' = edits
             /\ ui'.pc \in {"found", "removed", "collided"} => ui'.old \in Node /\ ui'.new \in Node
  BY <1>0, ScopeFixed DEF Typed, TypeOK, NamesStayDistinct, Editing, Job, Unique
<1>1. \A to \in UiPCs : /\ [ui EXCEPT !.pc = to] \in Ui
                       /\ [ui EXCEPT !.pc = to].pc = to
                       /\ [ui EXCEPT !.pc = to].old = ui.old /\ [ui EXCEPT !.pc = to].new = ui.new
  BY <1>0 DEF Ui
<1> USE DEF UiPCs
<1>2. CASE EditRemove
  <2>1. mgr' \in Seq(Node) /\ Unique(mgr')
    BY <1>0, <1>2, Dropped DEF EditRemove, Unique
  <2>2. ui.pc = "found" /\ \E to \in {"idle", "removed"} : ui' = [ui EXCEPT !.pc = to]
    BY <1>2 DEF EditRemove, Goes
  <2>3. ui' \in Ui /\ ui'.old = ui.old /\ ui'.new = ui.new
    BY <1>1, <2>2
  <2>4. ui.old \in Node /\ ui.new \in Node
    BY <1>0, <2>2 DEF Editing
  <2>5. UNCHANGED <<cfg, disk, doc, run, edits>>
    BY <1>2 DEF EditRemove
  <2> QED
    BY <1>0, <2>1, <2>3, <2>4, <2>5 DEF Unique
<1>3. CASE EditAdd
  <2>1. ui.pc = "removed" /\ \E to \in {"collided", "changed"} : ui' = [ui EXCEPT !.pc = to]
    BY <1>3 DEF EditAdd, Goes
  <2>2. mgr' \in Seq(Node) /\ Unique(mgr')
    <3>1. CASE HasName(mgr, ui.new.name)
      BY <1>0, <1>3, <3>1 DEF EditAdd, Goes, Unique
    <3>2. CASE ~HasName(mgr, ui.new.name)
      <4>1. ui.new \in Node /\ mgr' = Append(mgr, ui.new)
        BY <1>0, <1>3, <2>1, <3>2 DEF EditAdd, Editing
      <4> QED
        BY <1>0, <3>2, <4>1, Appended DEF Unique
    <3> QED
      BY <3>1, <3>2
  <2>3. ui' \in Ui /\ ui'.old = ui.old /\ ui'.new = ui.new
    BY <1>1, <2>1
  <2>4. ui.old \in Node /\ ui.new \in Node
    BY <1>0, <2>1 DEF Editing
  <2>5. UNCHANGED <<cfg, disk, doc, run, edits>>
    BY <1>3 DEF EditAdd
  <2> QED
    BY <1>0, <2>2, <2>3, <2>4, <2>5 DEF Unique
<1>4. CASE Rollback
  <2>1. ui.pc = "collided" /\ ui' = [ui EXCEPT !.pc = "refused"]
    BY <1>4 DEF Rollback, Goes
  <2>2. mgr' \in Seq(Node) /\ Unique(mgr')
    BY <1>0, <1>4, <2>1, Appended DEF Rollback, Editing, Unique
  <2> QED
    BY <1>0, <1>1, <1>4, <2>1, <2>2 DEF Rollback
<1>5. CASE SaveLocal
  BY <1>0, <1>1, <1>5 DEF SaveLocal, Goes, Unique
<1>6. CASE Save
  <2>1. \A w \in Workers : [run EXCEPT ![w].pc = "sync"] \in [Workers -> Job]
    BY <1>0 DEF Job, RunPCs
  <2> QED
    BY <1>0, <1>1, <1>6, <2>1 DEF Save, Goes, Unique
<1> QED
  BY <1>2, <1>3, <1>4, <1>5, <1>6 DEF UiStep

Topped(w) == [run[w] EXCEPT !.out.top = TopOf(mgr), !.pc = "publish"]

\* What a worker reads of one group.
LEMMA ReadingTyped ==
    ASSUME Typed, NEW w \in Workers
    PROVE  WithNodes(w) \in Job /\ WithPair(w) \in Job /\ Topped(w) \in Job
<1>1. run[w] \in Job /\ mgr \in Seq(Node) /\ scope \in Scopes
  BY DEF Typed, TypeOK, Job
<1>2. Groups[run[w].at] \in Group
  BY <1>1, ScopeFacts DEF Job
<1>3. /\ MembersIn(mgr, Groups[run[w].at]) \in SUBSET Node
      /\ PairOf(mgr, Groups[run[w].at]) \in SUBSET (Group \X SUBSET Node)
      /\ TopOf(mgr) \in SUBSET Group
  BY <1>1, <1>2, MembersTyped, ScopeFacts, TopTyped
<1> DEFINE o == run[w].out
<1>4. o \in Doc
  BY <1>1 DEF Job
<1>5. /\ [o EXCEPT !.proxies = @ \union MembersIn(mgr, Groups[run[w].at])] \in Doc
      /\ [o EXCEPT !.pairs = @ \union PairOf(mgr, Groups[run[w].at])] \in Doc
      /\ [o EXCEPT !.top = TopOf(mgr)] \in Doc
  <2> HIDE DEF o
  <2> QED
    BY <1>3, <1>4 DEF Doc
<1> QED
  BY <1>1, <1>5 DEF WithNodes, WithPair, Topped, Job, RunPCs

\* What a worker does.
LEMMA WorkerTyped ==
    ASSUME Typed, scope' = scope, NEW w \in Workers, Assembly(w) PROVE Typed'
<1>0. /\ scope \in Scopes /\ mgr \in Seq(Node) /\ Unique(mgr) /\ cfg \in Seq(Node) /\ Unique(cfg)
      /\ disk \in Seq(Node) /\ doc \in Doc /\ ui \in Ui /\ run \in [Workers -> Job]
      /\ edits \in 0 .. MaxEdits /\ Editing
  BY DEF Typed, TypeOK, NamesStayDistinct, Job
<1> SUFFICES /\ mgr' \in {mgr, cfg} /\ run' \in [Workers -> Job] /\ doc' \in Doc
             /\ UNCHANGED <<cfg, disk, ui, edits>>
  BY <1>0, ScopeFixed DEF Typed, TypeOK, NamesStayDistinct, Editing, Job, Unique
<1>1. CASE Sync(w)
  <2>1. [pc |-> "proxies", at |-> 1, out |-> EmptyDoc] \in Job
    BY <1>0, ScopeFacts, RestingTyped DEF Job, RunPCs
  <2> QED
    BY <1>0, <1>1, <2>1 DEF Sync
<1>2. CASE ReadProxies(w)
  <2>1. run' = [run EXCEPT ![w] = After(WithNodes(w), "pairs")]
    BY <1>2 DEF ReadProxies
  <2>2. After(WithNodes(w), "pairs") \in Job
    BY <1>0, ReadingTyped, AfterTyped DEF RunPCs
  <2> QED
    BY <1>0, <1>2, <2>1, <2>2 DEF ReadProxies
<1>3. CASE ReadPair(w)
  <2>1. run' = [run EXCEPT ![w] = After(WithPair(w), "top")]
    BY <1>3 DEF ReadPair
  <2>2. After(WithPair(w), "top") \in Job
    BY <1>0, ReadingTyped, AfterTyped DEF RunPCs
  <2> QED
    BY <1>0, <1>3, <2>1, <2>2 DEF ReadPair
<1>4. CASE ReadTop(w)
  <2>1. run' = [run EXCEPT ![w] = Topped(w)]
    BY <1>0, <1>4 DEF ReadTop, Topped
  <2> QED
    BY <1>0, <1>4, <2>1, ReadingTyped DEF ReadTop
<1>5. CASE Publish(w)
  <2>1. run[w].out \in Doc
    BY <1>0 DEF Job
  <2> QED
    BY <1>0, <1>5, <2>1, RestingTyped DEF Publish
<1> QED
  BY <1>1, <1>2, <1>3, <1>4, <1>5 DEF Assembly

\* Every step.
LEMMA TypedStep == Typed /\ [Next]_vars => Typed'
<1> SUFFICES ASSUME Typed, [Next]_vars PROVE Typed'
  OBVIOUS
<1>1. CASE UNCHANGED vars
  <2>1. scope' = scope
    BY <1>1 DEF vars
  <2> QED
    BY <1>1, <2>1, ScopeFixed DEF vars, Typed, TypeOK, NamesStayDistinct, Editing, Unique
<1>2. CASE (UserStep \/ UiStep \/ \E w \in Workers : Assembly(w)) /\ UNCHANGED scope
  BY <1>2, UserTyped, UiTyped, WorkerTyped
<1> QED
  BY <1>1, <1>2 DEF Next

\* Types and distinct names hold throughout, whatever the interleaving.
THEOREM AlwaysTyped == Spec => []Typed
BY InitTyped, TypedStep, PTL DEF Spec

(* Every variable keeps its type, whatever lists config.toml starts with.  *)
THEOREM TypeCorrect == Spec => []TypeOK
BY AlwaysTyped, PTL DEF Typed

(* However edits, rollbacks, saves and resyncs interleave, no two nodes of *)
(* the manager or of the store have one name.                              *)
THEOREM NamesAreDistinct == Spec => []NamesStayDistinct
BY AlwaysTyped, PTL DEF Typed

-----------------------------------------------------------------------------
(* What a user who waits can rely on.  Two things hold all along: whenever *)
(* a worker reads the manager, the user is idle and the manager is the     *)
(* store's list; and at every point of a change, the manager holds the     *)
(* store's nodes with exactly the part of the change made so far.          *)

Without(list, n) == {x \in ToSet(list) : x.name # n}

\* Nothing is read while nodes change.
Undisturbed ==
    /\ ui.pc \notin {"idle", "refused"} => AllResting
    /\ ~AllResting => ui.pc = "idle" /\ mgr = cfg

\* The change so far.
Changing ==
    /\ ui.pc \in {"idle", "refused", "found"} => ToSet(mgr) = ToSet(cfg)
    /\ ui.pc \in {"found", "removed", "collided", "refused", "changed"} => ToSet(ui.was) = ToSet(cfg)
    /\ ui.pc \in {"found", "removed", "collided"} => ui.op = "edit" /\ ui.old \in ToSet(cfg)
    /\ ui.pc \in {"removed", "collided"} => ToSet(mgr) = Without(cfg, ui.old.name)
    /\ ui.pc = "write" => mgr = cfg

\* The change, made and not saved.
Made ==
    ui.pc = "changed" =>
        \/ ui.op = "add" /\ ui.new \in Node /\ ToSet(mgr) = ToSet(cfg) \union {ui.new}
        \/ ui.op = "delete" /\ ui.old \in ToSet(cfg) /\ ToSet(mgr) = Without(cfg, ui.old.name)
        \/ /\ ui.op = "edit" /\ ui.old \in ToSet(cfg) /\ ui.new \in Node
           /\ ToSet(mgr) = Without(cfg, ui.old.name) \union {ui.new}

Tracked == Patient => Undisturbed /\ Changing /\ Made

\* A document that loads.
Closed(d) == /\ \A p \in d.pairs : p[2] \subseteq d.proxies
             /\ d.top \subseteq {p[1] : p \in d.pairs}

\* What a worker has read agrees with the manager.
Building(r) ==
    /\ r.pc = "proxies" => /\ r.out.pairs = {} /\ r.out.top = {}
                           /\ \A j \in 1 .. r.at - 1 : MembersIn(mgr, Groups[j]) \subseteq r.out.proxies
    /\ r.pc = "pairs" => /\ \A g \in Group : MembersIn(mgr, g) \subseteq r.out.proxies
                         /\ \A j \in 1 .. r.at - 1 : PairOf(mgr, Groups[j]) \subseteq r.out.pairs
    /\ r.pc = "top" => \A g \in Group : PairOf(mgr, g) \subseteq r.out.pairs
    /\ r.pc \in {"pairs", "top"} => \A p \in r.out.pairs : p[2] \subseteq r.out.proxies
    /\ r.pc = "publish" => Closed(r.out)

Assembled == Patient => Closed(doc) /\ \A w \in Workers : Building(run[w])

\* An appended list has one element more.
LEMMA AppendSet ==
    ASSUME NEW S, NEW s \in Seq(S), NEW x \in S
    PROVE  ToSet(Append(s, x)) = ToSet(s) \union {x}
<1>1. /\ Len(Append(s, x)) = Len(s) + 1 /\ Append(s, x) \in Seq(S)
      /\ \A i \in 1 .. Len(s) : Append(s, x)[i] = s[i]
      /\ Append(s, x)[Len(s) + 1] = x
  OBVIOUS
<1> DEFINE a == Append(s, x)
<1> HIDE DEF a
<1>2. ToSet(s) \subseteq ToSet(a) /\ x \in ToSet(a)
  BY <1>1 DEF ToSet, a
<1>3. ToSet(a) \subseteq ToSet(s) \union {x}
  BY <1>1 DEF ToSet, a
<1> QED
  BY <1>2, <1>3 DEF a

\* Nodes of one name are one node.
LEMMA OneOfAName ==
    ASSUME NEW s, Unique(s), NEW x \in ToSet(s), NEW y \in ToSet(s), x.name = y.name PROVE x = y
BY DEF Unique, ToSet

\* At first nothing is under way.
LEMMA InitTracked == Init => Tracked
BY DEF Init, Tracked, Undisturbed, Changing, Made, AllResting, Resting

\* What beginning a change leaves alone.
LEMMA BeginFacts ==
    ASSUME Typed, Tracked, Patient, NEW op, NEW old, NEW new, NEW next, Begin(op, old, new, next)
    PROVE  /\ AllResting /\ AllResting' /\ ToSet(mgr) = ToSet(cfg)
           /\ ui' = [pc |-> next, op |-> op, old |-> old, new |-> new, was |-> mgr]
           /\ UNCHANGED <<cfg, run>>
BY DEF Begin, Tracked, Undisturbed, Changing, AllResting

\* The user's steps keep track of the change.
LEMMA UserTracked ==
    ASSUME Typed, Tracked, Patient, scope' = scope, UserStep PROVE Tracked'
<1>0. mgr \in Seq(Node) /\ Unique(mgr)
  BY DEF Typed, TypeOK, NamesStayDistinct
<1>1. ASSUME NEW n \in Node, AddNode(n) PROVE Tracked'
  <2>1. ToSet(mgr') = ToSet(mgr) \union {n}
    BY <1>0, <1>1, AppendSet DEF AddNode
  <2> QED
    BY <1>1, <2>1, BeginFacts, ScopeFixed DEF AddNode, Tracked, Undisturbed, Changing, Made
<1>2. ASSUME NEW n \in NodeName, DeleteNode(n) PROVE Tracked'
  <2> DEFINE old == mgr[FirstOf(mgr, n)]
  <2>1. ToSet(mgr') = Without(mgr, n) /\ old \in ToSet(mgr) /\ old.name = n
    BY <1>0, <1>2, Dropped, FirstFound DEF DeleteNode, ToSet, Without
  <2>2. Begin("delete", old, NoNode, "changed")
    BY <1>2 DEF DeleteNode
  <2> HIDE DEF old
  <2> QED
    BY <2>1, <2>2, BeginFacts, ScopeFixed DEF Tracked, Undisturbed, Changing, Made, Without
<1>3. ASSUME NEW n \in NodeName, NEW new \in Node, EditGet(n, new) PROVE Tracked'
  <2> DEFINE old == mgr[FirstOf(mgr, n)]
  <2>1. old \in ToSet(mgr) /\ mgr' = mgr
    BY <1>0, <1>3, FirstFound DEF EditGet, ToSet
  <2>2. Begin("edit", old, new, "found")
    BY <1>3 DEF EditGet
  <2> HIDE DEF old
  <2> QED
    BY <2>1, <2>2, BeginFacts, ScopeFixed DEF Tracked, Undisturbed, Changing, Made
<1> QED
  BY <1>1, <1>2, <1>3 DEF UserStep

\* Every step of a change makes its part.
LEMMA UiTracked ==
    ASSUME Typed, Tracked, Patient, scope' = scope, UiStep PROVE Tracked'
<1>0. /\ mgr \in Seq(Node) /\ Unique(mgr) /\ cfg \in Seq(Node) /\ Unique(cfg) /\ ui \in Ui
      /\ run \in [Workers -> Job] /\ Undisturbed /\ Changing /\ Made /\ Editing
  BY DEF Typed, TypeOK, NamesStayDistinct, Job, Tracked
<1> SUFFICES (Undisturbed /\ Changing /\ Made)'
  BY DEF Tracked
<1>1. ASSUME NEW from \in {"found", "removed", "collided", "changed"}, NEW to \in UiPCs, Goes(from, to),
             run' = run
      PROVE  /\ AllResting /\ AllResting' /\ ui.pc = from /\ ui'.pc = to
             /\ ui'.op = ui.op /\ ui'.old = ui.old /\ ui'.new = ui.new /\ ui'.was = ui.was
  <2>1. ui.pc = from /\ AllResting
    BY <1>0, <1>1 DEF Goes, Undisturbed
  <2> QED
    BY <1>0, <1>1, <2>1 DEF Goes, Ui, AllResting
<1>2. CASE EditRemove
  <2>1. ui.pc = "found" /\ run' = run /\ cfg' = cfg
    BY <1>2 DEF EditRemove, Goes
  <2>2. ToSet(mgr) = ToSet(cfg) /\ ui.old \in ToSet(cfg) /\ ui.op = "edit" /\ ToSet(ui.was) = ToSet(cfg)
    BY <1>0, <2>1 DEF Changing
  <2>3. HasName(mgr, ui.old.name)
    BY <2>2, Named
  <2>4. Goes("found", "removed") /\ mgr' = DropName(mgr, ui.old.name)
    BY <1>2, <2>3 DEF EditRemove
  <2>5. ToSet(mgr') = Without(cfg, ui.old.name)
    BY <1>0, <2>2, <2>3, <2>4, Dropped DEF Without
  <2> QED
    BY <1>1, <2>1, <2>2, <2>4, <2>5 DEF UiPCs, Undisturbed, Changing, Made, Without
<1>3. CASE EditAdd
  <2>1. ui.pc = "removed" /\ run' = run /\ cfg' = cfg
    BY <1>3 DEF EditAdd, Goes
  <2>2. /\ ToSet(mgr) = Without(cfg, ui.old.name) /\ ui.old \in ToSet(cfg) /\ ui.op = "edit"
        /\ ToSet(ui.was) = ToSet(cfg) /\ ui.new \in Node
    BY <1>0, <2>1 DEF Changing, Editing
  <2>3. CASE HasName(mgr, ui.new.name)
    <3>1. Goes("removed", "collided") /\ mgr' = mgr
      BY <1>3, <2>3 DEF EditAdd
    <3> QED
      BY <1>1, <2>1, <2>2, <3>1 DEF UiPCs, Undisturbed, Changing, Made, Without
  <2>4. CASE ~HasName(mgr, ui.new.name)
    <3>1. Goes("removed", "changed") /\ mgr' = Append(mgr, ui.new)
      BY <1>3, <2>4 DEF EditAdd
    <3>2. ToSet(mgr') = Without(cfg, ui.old.name) \union {ui.new}
      BY <1>0, <2>2, <3>1, AppendSet
    <3> QED
      BY <1>1, <2>1, <2>2, <3>1, <3>2, ScopeFixed DEF UiPCs, Undisturbed, Changing, Made, Without
  <2> QED
    BY <2>3, <2>4
<1>4. CASE Rollback
  <2>1. Goes("collided", "refused") /\ ui.pc = "collided" /\ run' = run /\ cfg' = cfg
    BY <1>4 DEF Rollback, Goes
  <2>2. /\ ToSet(mgr) = Without(cfg, ui.old.name) /\ ui.old \in ToSet(cfg)
        /\ ToSet(ui.was) = ToSet(cfg) /\ ui.old \in Node
    BY <1>0, <2>1 DEF Changing, Editing
  <2>3. ~HasName(mgr, ui.old.name)
    BY <2>2, Named DEF Without
  <2>4. ToSet(mgr') = Without(cfg, ui.old.name) \union {ui.old}
    BY <1>0, <1>4, <2>2, <2>3, AppendSet DEF Rollback
  <2>5. Without(cfg, ui.old.name) \union {ui.old} = ToSet(cfg)
    BY <1>0, <2>2, OneOfAName DEF Without
  <2> QED
    BY <1>1, <2>1, <2>2, <2>4, <2>5 DEF UiPCs, Undisturbed, Changing, Made
<1>5. CASE SaveLocal
  <2>1. Goes("changed", "write") /\ cfg' = mgr /\ mgr' = mgr /\ run' = run
    BY <1>5 DEF SaveLocal
  <2> QED
    BY <1>1, <2>1 DEF UiPCs, Undisturbed, Changing, Made
<1>6. CASE Save
  <2>1. ui.pc = "write" /\ ui'.pc = "idle" /\ mgr' = mgr /\ cfg' = cfg
    BY <1>0, <1>6 DEF Save, Goes, Ui
  <2>2. mgr = cfg
    BY <1>0, <2>1 DEF Changing
  <2> QED
    BY <2>1, <2>2 DEF Undisturbed, Changing, Made
<1> QED
  BY <1>2, <1>3, <1>4, <1>5, <1>6 DEF UiStep

\* A worker finds the manager as the store, and leaves it so.
LEMMA WorkerTracked ==
    ASSUME Typed, Tracked, Patient, scope' = scope, NEW w \in Workers, Assembly(w)
    PROVE  Tracked' /\ mgr' = mgr /\ run[w].pc # "idle"
<1>1. run[w].pc # "idle" /\ UNCHANGED <<cfg, ui>> /\ mgr' \in {mgr, cfg}
  BY DEF Assembly, Sync, ReadProxies, ReadPair, ReadTop, Publish
<1>2. ui.pc = "idle" /\ mgr = cfg
  BY <1>1 DEF Tracked, Undisturbed, AllResting
<1> QED
  BY <1>1, <1>2 DEF Tracked, Undisturbed, Changing, Made

\* A document read off one list of nodes closes.
LEMMA DocCloses ==
    ASSUME scope \in Scopes, NEW list PROVE Closed(DocOf(list))
<1> DEFINE d == DocOf(list)
<1>1. \A g \in Group : \A p \in PairOf(list, g) : p[2] = MembersIn(list, g)
  BY DEF PairOf
<1>2. \A p \in d.pairs : p[2] \subseteq d.proxies
  BY <1>1 DEF DocOf
<1>3. ASSUME NEW g \in d.top, Active \in Group PROVE \E p \in d.pairs : p[1] = g
  <2>0. g \in Group /\ MembersIn(list, g) # {}
    BY <1>3 DEF DocOf, TopOf
  <2>1. <<g, MembersIn(list, g)>> \in PairOf(list, g)
    BY <2>0 DEF PairOf
  <2>2. <<g, MembersIn(list, g)>> \in d.pairs
    BY <2>0, <2>1 DEF DocOf
  <2> QED
    BY <2>2
<1>4. d.top \subseteq {p[1] : p \in d.pairs}
  BY <1>3, ScopeFacts
<1> QED
  BY <1>2, <1>4 DEF Closed

\* At first nothing is assembled.
LEMMA InitAssembled == Init => Assembled
BY DocCloses DEF Init, Assembled, Building, Resting

\* Where a worker goes next.
LEMMA AfterFacts ==
    ASSUME scope \in Scopes, NEW r \in Job, NEW next \in RunPCs
    PROVE  /\ After(r, next).out = r.out
           /\ r.at < Len(Groups) => After(r, next).pc = r.pc /\ After(r, next).at = r.at + 1
           /\ ~(r.at < Len(Groups)) => After(r, next).pc = next /\ After(r, next).at = 1 /\ r.at = Len(Groups)
BY ScopeFacts DEF After, Job

\* A group, and the groups before it, are all the groups read when it is the last.
LEMMA Covered ==
    ASSUME scope \in Scopes, NEW k \in 1 .. Len(Groups)
    PROVE  /\ Groups[k] \in Group
           /\ \A j \in 1 .. (k + 1) - 1 : j \in 1 .. k - 1 \/ j = k
           /\ k = Len(Groups) => \A g \in Group : \E j \in 1 .. k : Groups[j] = g /\ (j \in 1 .. k - 1 \/ j = k)
BY ScopeFacts

\* Reading a group agrees with the manager.
LEMMA ReadingBuilds ==
    ASSUME Typed, NEW w \in Workers, Building(run[w]), ReadProxies(w)
    PROVE  Building(After(WithNodes(w), "pairs"))
<1> DEFINE k == run[w].at
           r == WithNodes(w)
           s == After(r, "pairs")
           new == run[w].out.proxies \union MembersIn(mgr, Groups[k])
<1>1. run[w] \in Job /\ scope \in Scopes /\ run[w].pc = "proxies" /\ k \in 1 .. Len(Groups)
  BY DEF Typed, TypeOK, Job, ReadProxies
<1>2. /\ r \in Job /\ r.pc = "proxies" /\ r.at = k
      /\ r.out.proxies = new /\ r.out.pairs = {} /\ r.out.top = {}
  BY <1>1, ReadingTyped DEF WithNodes, Building, Job, Doc
<1>3. \A j \in 1 .. k - 1 : MembersIn(mgr, Groups[j]) \subseteq new
  BY <1>1 DEF Building
<1>4. MembersIn(mgr, Groups[k]) \subseteq new
  OBVIOUS
<1> SUFFICES Building(s)
  OBVIOUS
<1> HIDE DEF r, s, new
<1>5. s.out = r.out
  BY <1>1, <1>2, AfterFacts DEF RunPCs, s
<1>6. CASE k < Len(Groups)
  <2>1. s.pc = "proxies" /\ s.at = k + 1
    BY <1>1, <1>2, <1>6, AfterFacts DEF RunPCs, s
  <2> QED
    BY <1>1, <1>2, <1>3, <1>4, <1>5, <2>1, Covered DEF Building
<1>7. CASE ~(k < Len(Groups))
  <2>1. s.pc = "pairs" /\ s.at = 1 /\ k = Len(Groups)
    BY <1>1, <1>2, <1>7, AfterFacts DEF RunPCs, s
  <2>2. \A g \in Group : MembersIn(mgr, g) \subseteq new
    BY <1>1, <1>3, <1>4, <2>1, Covered
  <2> QED
    BY <1>2, <1>5, <2>1, <2>2 DEF Building
<1> QED
  BY <1>6, <1>7

\* So does emitting its pair.
LEMMA PairingBuilds ==
    ASSUME Typed, NEW w \in Workers, Building(run[w]), ReadPair(w)
    PROVE  Building(After(WithPair(w), "top"))
<1> DEFINE k == run[w].at
           r == WithPair(w)
           s == After(r, "top")
           new == run[w].out.pairs \union PairOf(mgr, Groups[k])
<1>1. run[w] \in Job /\ scope \in Scopes /\ run[w].pc = "pairs" /\ k \in 1 .. Len(Groups)
  BY DEF Typed, TypeOK, Job, ReadPair
<1>2. /\ r \in Job /\ r.pc = "pairs" /\ r.at = k
      /\ r.out.proxies = run[w].out.proxies /\ r.out.pairs = new
  BY <1>1, ReadingTyped DEF WithPair, Job, Doc
<1>3. \A j \in 1 .. k - 1 : PairOf(mgr, Groups[j]) \subseteq new
  BY <1>1 DEF Building
<1>4. PairOf(mgr, Groups[k]) \subseteq new
  OBVIOUS
<1>5. \A g \in Group : MembersIn(mgr, g) \subseteq r.out.proxies
  BY <1>1, <1>2 DEF Building
<1>6. \A p \in new : p[2] \subseteq r.out.proxies
  <2>1. \A p \in PairOf(mgr, Groups[k]) : p[2] \subseteq r.out.proxies
    BY <1>1, <1>5, Covered DEF PairOf
  <2>2. \A p \in run[w].out.pairs : p[2] \subseteq r.out.proxies
    BY <1>1, <1>2 DEF Building
  <2> QED
    BY <2>1, <2>2
<1> SUFFICES Building(s)
  OBVIOUS
<1> HIDE DEF r, s, new
<1>7. s.out = r.out
  BY <1>1, <1>2, AfterFacts DEF RunPCs, s
<1>8. CASE k < Len(Groups)
  <2>1. s.pc = "pairs" /\ s.at = k + 1
    BY <1>1, <1>2, <1>8, AfterFacts DEF RunPCs, s
  <2> QED
    BY <1>1, <1>2, <1>3, <1>4, <1>5, <1>6, <1>7, <2>1, Covered DEF Building
<1>9. CASE ~(k < Len(Groups))
  <2>1. s.pc = "top" /\ s.at = 1 /\ k = Len(Groups)
    BY <1>1, <1>2, <1>9, AfterFacts DEF RunPCs, s
  <2>2. \A g \in Group : PairOf(mgr, g) \subseteq new
    BY <1>1, <1>3, <1>4, <2>1, Covered
  <2> QED
    BY <1>2, <1>6, <1>7, <2>1, <2>2 DEF Building
<1> QED
  BY <1>8, <1>9

\* And the selector.
LEMMA ToppingBuilds ==
    ASSUME Typed, NEW w \in Workers, Building(run[w]), ReadTop(w) PROVE Building(Topped(w))
<1>1. run[w] \in Job /\ scope \in Scopes /\ run[w].pc = "top"
  BY DEF Typed, TypeOK, Job, ReadTop
<1>2. /\ Topped(w).pc = "publish" /\ Topped(w).out.top = TopOf(mgr)
      /\ Topped(w).out.pairs = run[w].out.pairs /\ Topped(w).out.proxies = run[w].out.proxies
  BY <1>1 DEF Topped, Job, Doc
<1>3. \A g \in TopOf(mgr) : <<g, MembersIn(mgr, g)>> \in run[w].out.pairs
  <2>1. \A g \in TopOf(mgr) : g \in Group /\ <<g, MembersIn(mgr, g)>> \in PairOf(mgr, g)
    BY <1>1, ScopeFacts DEF TopOf, PairOf
  <2> QED
    BY <1>1, <2>1 DEF Building
<1>4. TopOf(mgr) \subseteq {p[1] : p \in run[w].out.pairs}
  <2>1. \A g \in TopOf(mgr) : \E p \in run[w].out.pairs : p[1] = g
    BY <1>3
  <2> QED
    BY <2>1
<1>5. \A p \in run[w].out.pairs : p[2] \subseteq run[w].out.proxies
  BY <1>1 DEF Building
<1> QED
  BY <1>2, <1>4, <1>5 DEF Building, Closed

\* The user's steps leave what is being built alone.
LEMMA UserAssembled ==
    ASSUME Typed, Tracked, Assembled, Patient, scope' = scope, UserStep PROVE Assembled'
<1>1. AllResting /\ run' = run /\ doc' = doc
  BY DEF UserStep, AddNode, DeleteNode, EditGet, Begin
<1>2. \A w \in Workers : run'[w].pc = "idle"
  BY <1>1 DEF AllResting
<1> QED
  BY <1>1, <1>2 DEF Assembled, Building, Closed

\* So do the UI goroutine's, nobody being at work.
LEMMA UiAssembled ==
    ASSUME Typed, Tracked, Assembled, Patient, scope' = scope, UiStep PROVE Assembled'
<1>1. ui.pc \notin {"idle", "refused"} /\ doc' = doc
  BY DEF UiStep, EditRemove, EditAdd, Rollback, SaveLocal, Save, Goes
<1>2. AllResting
  BY <1>1 DEF Tracked, Undisturbed
<1>3. run' = run \/ \E w \in Workers : run' = [run EXCEPT ![w].pc = "sync"]
  BY DEF UiStep, EditRemove, EditAdd, Rollback, SaveLocal, Save
<1>4. \A w \in Workers : run'[w].pc \in {"idle", "sync"}
  BY <1>2, <1>3 DEF AllResting, Typed, TypeOK
<1> QED
  BY <1>1, <1>4 DEF Assembled, Building, Closed

\* A worker's steps build on.
LEMMA WorkerAssembled ==
    ASSUME Typed, Tracked, Assembled, Patient, scope' = scope, NEW w \in Workers, Assembly(w)
    PROVE  Assembled'
<1>0. run \in [Workers -> Job] /\ mgr' = mgr /\ Groups' = Groups /\ Group' = Group
  BY WorkerTracked, ScopeFixed DEF Typed, TypeOK, Job
<1>1. \A v \in Workers : Building(run[v])
  BY DEF Assembled
<1> SUFFICES Closed(doc') /\ \A v \in Workers : run'[v] = run[v] \/ Building(run'[v])
  BY <1>0, <1>1 DEF Assembled, Building, PairOf, MembersIn, Closed
<1>2. CASE Sync(w)
  <2>1. Building([pc |-> "proxies", at |-> 1, out |-> EmptyDoc])
    BY DEF Building, EmptyDoc
  <2> QED
    BY <1>0, <1>2, <2>1 DEF Sync, Assembled
<1>3. CASE ReadProxies(w)
  BY <1>0, <1>1, <1>3, ReadingBuilds DEF ReadProxies, Assembled
<1>4. CASE ReadPair(w)
  BY <1>0, <1>1, <1>4, PairingBuilds DEF ReadPair, Assembled
<1>5. CASE ReadTop(w)
  BY <1>0, <1>1, <1>5, ToppingBuilds DEF ReadTop, Topped, Assembled
<1>6. CASE Publish(w)
  <2>1. Closed(run[w].out)
    BY <1>1, <1>6 DEF Publish, Building
  <2>2. Building(Resting)
    BY DEF Building, Resting
  <2> QED
    BY <1>0, <1>6, <2>1, <2>2 DEF Publish, Assembled
<1> QED
  BY <1>2, <1>3, <1>4, <1>5, <1>6 DEF Assembly

Inductive == Typed /\ Tracked /\ Assembled

\* Every step keeps all of it.
LEMMA InductiveStep == Inductive /\ [Next]_vars => Inductive'
<1> SUFFICES ASSUME Inductive, [Next]_vars PROVE Inductive'
  OBVIOUS
<1>1. Typed'
  BY TypedStep DEF Inductive
<1>2. CASE UNCHANGED vars
  <2>1. scope' = scope
    BY <1>2 DEF vars
  <2>2. Tracked' = Tracked
    BY <1>2, <2>1, ScopeFixed DEF vars, Tracked, Undisturbed, Changing, Made, AllResting
  <2>3. Assembled' = Assembled
    BY <1>2, <2>1, ScopeFixed DEF vars, Assembled, Building, PairOf, MembersIn, Closed
  <2> QED
    BY <1>1, <2>2, <2>3 DEF Inductive
<1>3. CASE (UserStep \/ UiStep \/ \E w \in Workers : Assembly(w)) /\ UNCHANGED scope
  <2>1. CASE ~Patient
    BY <1>1, <1>3, <2>1, ScopeFixed DEF Inductive, Tracked, Assembled
  <2>2. CASE Patient
    BY <1>1, <1>3, <2>2, UserTracked, UiTracked, WorkerTracked, UserAssembled, UiAssembled,
       WorkerAssembled DEF Inductive
  <2> QED
    BY <2>1, <2>2
<1> QED
  BY <1>2, <1>3 DEF Next

\* It all holds throughout, of a user who waits.
THEOREM AlwaysInductive == Spec => []Inductive
<1>1. Init => Inductive
  BY InitTyped, InitTracked, InitAssembled DEF Inductive
<1> QED
  BY <1>1, InductiveStep, PTL DEF Spec

(* A refused edit leaves a waiting user's manager with the nodes it had,   *)
(* and config.yaml holds together: for any groups, names and lists, and    *)
(* whatever writes fail.                                                   *)
THEOREM EditsAreSound == Spec => []EditsSound
<1>1. Inductive => EditsSound
  <2>1. Inductive /\ Patient /\ ui.pc = "refused" => ToSet(mgr) = ToSet(ui.was)
    BY DEF Inductive, Tracked, Changing
  <2> QED
    BY <2>1 DEF Inductive, Assembled, Closed, EditsSound, RefusedEditRestores, DocLoads
<1> QED
  BY <1>1, AlwaysInductive, PTL

(* What a waiting user's change stores is the store's nodes with that      *)
(* change, and nothing else.                                               *)
THEOREM ChangesAreSaved == Spec => SavedAsIntended
<1>1. Inductive /\ Patient /\ SaveLocal => ToSet(cfg') = ToSet(Intended(cfg))
  <2> SUFFICES ASSUME Inductive, Patient, SaveLocal PROVE ToSet(mgr) = ToSet(Intended(cfg))
    BY DEF SaveLocal
  <2>1. ui.pc = "changed" /\ cfg \in Seq(Node) /\ Unique(cfg) /\ Made
    BY DEF SaveLocal, Goes, Inductive, Typed, TypeOK, NamesStayDistinct, Tracked
  <2>2. CASE ui.op = "add"
    <3>1. ui.new \in Node /\ ToSet(mgr) = ToSet(cfg) \union {ui.new}
      BY <2>1, <2>2 DEF Made
    <3>2. ToSet(Append(cfg, ui.new)) = ToSet(cfg) \union {ui.new}
      BY <2>1, <3>1, AppendSet
    <3> QED
      BY <2>2, <3>1, <3>2 DEF Intended
  <2>3. ASSUME ui.op \in {"delete", "edit"}
        PROVE  /\ DropName(cfg, ui.old.name) \in Seq(Node)
               /\ ToSet(DropName(cfg, ui.old.name)) = Without(cfg, ui.old.name)
    <3>1. HasName(cfg, ui.old.name)
      BY <2>1, <2>3, Named DEF Made
    <3> QED
      BY <2>1, <3>1, Dropped DEF Without
  <2>4. CASE ui.op = "delete"
    BY <2>1, <2>3, <2>4 DEF Made, Intended
  <2>5. CASE ui.op = "edit"
    <3> DEFINE rest == DropName(cfg, ui.old.name)
    <3>1. ui.new \in Node /\ ToSet(mgr) = ToSet(rest) \union {ui.new} /\ rest \in Seq(Node)
      BY <2>1, <2>3, <2>5 DEF Made
    <3>2. ToSet(Append(rest, ui.new)) = ToSet(rest) \union {ui.new}
      BY <3>1, AppendSet
    <3> QED
      BY <2>5, <3>1, <3>2 DEF Intended
  <2> QED
    BY <2>1, <2>2, <2>4, <2>5 DEF Made
<1> QED
  BY <1>1, AlwaysInductive, PTL DEF SavedAsIntended
=============================================================================
