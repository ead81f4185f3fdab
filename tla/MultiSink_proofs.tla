-------------------------- MODULE MultiSink_proofs --------------------------
(***************************************************************************)
(* Proofs about MultiSink: a handle removes the sink it was returned for,  *)
(* and the fan-out misses nothing and repeats nothing, for any number of   *)
(* sinks, whatever runs beside whatever.                                   *)
(***************************************************************************)
EXTENDS MultiSink, SequenceTheorems, TLAPS

Entry == [id : Nat, sink : Sinks]

(***************************************************************************)
(* Sequences.                                                              *)
(***************************************************************************)
LEMMA TailProperties ==
  ASSUME NEW S, NEW s \in Seq(S), s # <<>>
  PROVE  /\ Tail(s) \in Seq(S)
         /\ Len(s) \in Nat \ {0}
         /\ Len(Tail(s)) = Len(s) - 1
         /\ Head(s) = s[1]
         /\ Head(s) \in S
         /\ \A i \in 1..(Len(s) - 1) : Tail(s)[i] = s[i + 1]
  OBVIOUS

LEMMA AppendOne ==
  ASSUME NEW S, NEW s \in Seq(S), NEW e \in S
  PROVE  /\ Append(s, e) \in Seq(S)
         /\ Len(s) \in Nat
         /\ Len(Append(s, e)) = Len(s) + 1
         /\ \A i \in 1..Len(s) : Append(s, e)[i] = s[i]
         /\ Append(s, e)[Len(s) + 1] = e
  OBVIOUS

\* A snapshot is as long as the registry and keeps its order.
LEMMA PointersProperties ==
  ASSUME sinks \in Seq(Entry)
  PROVE  /\ Pointers \in Seq(Sinks)
         /\ Len(Pointers) = Len(sinks)
         /\ \A i \in 1..Len(sinks) : Pointers[i] = sinks[i].sink
<1>1. \A i \in 1..Len(sinks) : sinks[i].sink \in Sinks
  <2>1. \A e \in Entry : e.sink \in Sinks
    BY DEF Entry
  <2>2. \A i \in 1..Len(sinks) : sinks[i] \in Entry
    OBVIOUS
  <2> QED
    BY <2>1, <2>2
<1>2. Len(sinks) \in Nat
  OBVIOUS
<1> QED
  BY <1>1, <1>2 DEF Pointers

\* Removing the i-th element closes the gap.
LEMMA GapProperties ==
  ASSUME NEW S, NEW s \in Seq(S), NEW i \in 1..Len(s),
         NEW r, r = SubSeq(s, 1, i - 1) \o SubSeq(s, i + 1, Len(s))
  PROVE  /\ r \in Seq(S)
         /\ Len(r) = Len(s) - 1
         /\ Len(s) \in Nat
         /\ \A j \in 1..(Len(s) - 1) : r[j] = IF j < i THEN s[j] ELSE s[j + 1]
<1> DEFINE a == SubSeq(s, 1, i - 1)
           b == SubSeq(s, i + 1, Len(s))
<1>1. Len(s) \in Nat /\ i \in Int /\ \A j \in 1..Len(s) : s[j] \in S
  OBVIOUS
<1>2. /\ a \in Seq(S)
      /\ Len(a) = i - 1
      /\ \A j \in 1..(i - 1) : a[j] = s[j]
  <2>1. \A j \in 1..(i - 1) : s[j] \in S
    BY <1>1
  <2>2. /\ a \in Seq(S)
        /\ Len(a) = IF 1 <= i - 1 THEN (i - 1) - 1 + 1 ELSE 0
        /\ \A j \in 1..((i - 1) - 1 + 1) : a[j] = s[1 + j - 1]
    BY <1>1, <2>1, SubSeqProperties
  <2> HIDE DEF a
  <2> QED
    BY <1>1, <2>2
<1>3. /\ b \in Seq(S)
      /\ Len(b) = Len(s) - i
      /\ \A j \in 1..(Len(s) - i) : b[j] = s[i + j]
  <2>1. \A j \in (i + 1)..Len(s) : s[j] \in S
    BY <1>1
  <2>2. /\ b \in Seq(S)
        /\ Len(b) = IF i + 1 <= Len(s) THEN Len(s) - (i + 1) + 1 ELSE 0
        /\ \A j \in 1..(Len(s) - (i + 1) + 1) : b[j] = s[(i + 1) + j - 1]
    BY <1>1, <2>1, SubSeqProperties
  <2> HIDE DEF b
  <2>3. i + 1 <= Len(s) \/ i = Len(s)
    BY <1>1
  <2>4. Len(b) = Len(s) - i
    BY <1>1, <2>2, <2>3
  <2>5. ASSUME NEW j \in 1..(Len(s) - i) PROVE b[j] = s[i + j]
    <3>1. j \in 1..(Len(s) - (i + 1) + 1) /\ (i + 1) + j - 1 = i + j
      BY <1>1, <2>5
    <3> QED
      BY <2>2, <3>1
  <2> QED
    BY <2>2, <2>4, <2>5
<1>4. r = a \o b
  OBVIOUS
<1> HIDE DEF a, b
<1>5. /\ a \o b \in Seq(S)
      /\ Len(a \o b) = Len(a) + Len(b)
      /\ \A j \in 1..(Len(a) + Len(b)) :
           (a \o b)[j] = IF j <= Len(a) THEN a[j] ELSE b[j - Len(a)]
  BY <1>2, <1>3, ConcatProperties
<1>6. Len(r) = Len(s) - 1
  <2>1. Len(a) + Len(b) = Len(s) - 1
    BY <1>1, <1>2, <1>3
  <2> QED
    BY <1>4, <1>5, <2>1, Zenon
<1>7. ASSUME NEW j \in 1..(Len(s) - 1)
      PROVE  r[j] = IF j < i THEN s[j] ELSE s[j + 1]
  <2>1. CASE j < i
    <3>1. j \in 1..(i - 1) /\ j \in 1..(Len(a) + Len(b)) /\ j <= Len(a)
      BY <1>1, <1>2, <1>3, <2>1
    <3>2. r[j] = a[j]
      BY <1>4, <1>5, <3>1
    <3> QED
      BY <1>2, <2>1, <3>1, <3>2
  <2>2. CASE ~(j < i)
    <3>1. j - Len(a) \in 1..(Len(s) - i) /\ j \in 1..(Len(a) + Len(b)) /\ ~(j <= Len(a))
      BY <1>1, <1>2, <1>3, <2>2
    <3>2. r[j] = b[j - Len(a)]
      BY <1>4, <1>5, <3>1
    <3>3. b[j - Len(a)] = s[i + (j - Len(a))] /\ i + (j - Len(a)) = j + 1
      BY <1>1, <1>2, <1>3, <3>1
    <3> QED
      BY <2>2, <3>2, <3>3
  <2> QED
    BY <2>1, <2>2
<1> QED
  BY <1>1, <1>4, <1>5, <1>6, <1>7

\* Erase(id) closes the gap at an entry that has the id, if only one has it.
LEMMA EraseOfId ==
  ASSUME sinks \in Seq(Entry), NEW id, \E i \in 1..Len(sinks) : HasId(id, i),
         \A i, j \in 1..Len(sinks) : HasId(id, i) /\ HasId(id, j) => i = j
  PROVE  \E i \in 1..Len(sinks) :
           /\ HasId(id, i)
           /\ Erase(id) = SubSeq(sinks, 1, i - 1) \o SubSeq(sinks, i + 1, Len(sinks))
<1> DEFINE P(i) == HasId(id, i) /\ \A j \in 1..(i - 1) : ~HasId(id, j)
<1>1. PICK k \in 1..Len(sinks) : HasId(id, k)
  OBVIOUS
<1>2. Len(sinks) \in Nat
  OBVIOUS
<1>3. P(k)
  <2> SUFFICES ASSUME NEW j \in 1..(k - 1), HasId(id, j) PROVE FALSE
    BY <1>1
  <2>1. j \in 1..Len(sinks) /\ j # k
    BY <1>1, <1>2
  <2> QED
    BY <1>1, <2>1
<1>4. (CHOOSE i \in 1..Len(sinks) : P(i)) \in 1..Len(sinks) /\ P(CHOOSE i \in 1..Len(sinks) : P(i))
  BY <1>1, <1>3
<1> QED
  BY <1>4 DEF Erase

(***************************************************************************)
(* Types.                                                                  *)
(***************************************************************************)
LEMMA Zeros ==
  /\ 0 \in Nat
  /\ 0 \in 0..MaxOpens
  /\ 0 \in 0..MaxFrames
  BY MultiSinkAssumption

LEMMA TypeInit == Init => TypeOK
<1> SUFFICES ASSUME Init PROVE TypeOK
  OBVIOUS
<1>1. /\ opened \in BOOLEAN
      /\ tracks \in 0..MaxOpens
      /\ nextId \in Nat
      /\ sent \in 0..MaxFrames
  BY Zeros DEF Init
<1>2. /\ saw \in [Sinks -> 0..MaxOpens]
      /\ sinkOpen \in [Sinks -> 0..MaxOpens]
      /\ from \in [Sinks -> 0..MaxFrames]
      /\ upto \in [Sinks -> 0..MaxFrames]
  BY Zeros DEF Init
<1>3. handle \in [Sinks -> Int]
  BY DEF Init
<1>4. /\ sinks \in Seq([id : Nat, sink : Sinks])
      /\ todo \in Seq(Sinks)
      /\ snapshot \in Seq(Sinks)
      /\ received \in [Sinks -> Seq(Nat)]
  BY DEF Init
<1> QED
  BY <1>1, <1>2, <1>3, <1>4 DEF Init, TypeOK

LEMMA TypePipeline == TypeOK /\ Pipeline => TypeOK'
<1> SUFFICES ASSUME TypeOK, Pipeline PROVE TypeOK'
  OBVIOUS
<1> USE MultiSinkAssumption
<1>0. Pointers \in Seq(Sinks)
  BY PointersProperties DEF TypeOK, Entry
<1>1. CASE OpenBegin
  <2>1. tracks' \in 0..MaxOpens /\ crossed' \subseteq Sinks
    BY <1>1 DEF TypeOK, OpenBegin, Crossed
  <2> QED
    BY <1>0, <1>1, <2>1 DEF TypeOK, OpenBegin, frameVars
<1>2. CASE OpenNext
  <2>1. Head(todo) \in Sinks /\ Tail(todo) \in Seq(Sinks)
    BY <1>2 DEF TypeOK, OpenNext
  <2> QED
    BY <1>2, <2>1 DEF TypeOK, OpenNext, frameVars, managerVars
<1>3. CASE OpenFails
  <2>1. todo' \in Seq(Sinks)
    BY <1>3 DEF OpenFails, GiveUpOpening
  <2> QED
    BY <1>3, <2>1 DEF TypeOK, OpenFails, GiveUpOpening, registry, frameVars, managerVars
<1>4. CASE OpenEnd
  BY <1>4 DEF TypeOK, OpenEnd, registry, frameVars, managerVars
<1>5. CASE CloseBegin
  BY <1>0, <1>5 DEF TypeOK, CloseBegin, SinksToClose, Crossed, frameVars
<1>6. CASE CloseNext
  <2>1. Tail(todo) \in Seq(Sinks)
    BY <1>6 DEF TypeOK, CloseNext
  <2>2. sinkOpen' \in [Sinks -> 0..MaxOpens]
    BY <1>6, Zeros DEF TypeOK, CloseNext
  <2> QED
    BY <1>6, <2>1, <2>2 DEF TypeOK, CloseNext, registry, frameVars, managerVars
<1>7. CASE CloseEnd
  BY <1>7 DEF TypeOK, CloseEnd, registry, frameVars, managerVars
<1> QED
  BY <1>1, <1>2, <1>3, <1>4, <1>5, <1>6, <1>7 DEF Pipeline

LEMMA TypeSource == TypeOK /\ Source => TypeOK'
<1> SUFFICES ASSUME TypeOK, Source PROVE TypeOK'
  OBVIOUS
<1> USE MultiSinkAssumption
<1>0. Pointers \in Seq(Sinks)
  BY PointersProperties DEF TypeOK, Entry
<1>1. CASE SendBegin
  BY <1>0, <1>1 DEF TypeOK, SendBegin, SinksToSend, registry, pipelineVars, managerVars
<1>2. CASE SendNext
  <2>1. Head(snapshot) \in Sinks /\ Tail(snapshot) \in Seq(Sinks)
    BY <1>2 DEF TypeOK, SendNext
  <2>2. received' \in [Sinks -> Seq(Nat)]
    <3>1. Append(received[Head(snapshot)], sent) \in Seq(Nat)
      BY <2>1 DEF TypeOK
    <3> QED
      BY <1>2, <2>1, <3>1 DEF TypeOK, SendNext
  <2> QED
    BY <1>2, <2>1, <2>2 DEF TypeOK, SendNext, registry, pipelineVars, managerVars
<1> QED
  BY <1>1, <1>2 DEF Source

LEMMA EntriesTyped ==
  ASSUME TypeOK
  PROVE  /\ sinks \in Seq(Entry)
         /\ \A i \in 1..Len(sinks) : /\ sinks[i] \in Entry
                                    /\ sinks[i].sink \in Sinks
                                    /\ sinks[i].id \in Nat
<1>1. sinks \in Seq(Entry)
  BY DEF TypeOK, Entry
<1>2. \A i \in 1..Len(sinks) : sinks[i] \in Entry
  BY <1>1
<1>3. \A x \in Entry : x.sink \in Sinks /\ x.id \in Nat
  BY DEF Entry
<1> QED
  BY <1>1, <1>2, <1>3

\* Ids are unique, so that erasing an id erases the entry that has it.
LEMMA EraseProperties ==
  ASSUME TypeOK, HandlesAreGood, NEW i \in 1..Len(sinks)
  PROVE  LET r == Erase(sinks[i].id)
         IN  /\ r \in Seq(Entry)
             /\ Len(sinks) \in Nat
             /\ Len(r) = Len(sinks) - 1
             /\ \A j \in 1..(Len(sinks) - 1) : r[j] = IF j < i THEN sinks[j] ELSE sinks[j + 1]
<1>0. sinks \in Seq(Entry) /\ Len(sinks) \in Nat
  BY DEF TypeOK, Entry
<1>1. \A j \in 1..Len(sinks) : sinks[j].id \in Nat
  <2>1. \A e \in Entry : e.id \in Nat
    BY DEF Entry
  <2>2. \A j \in 1..Len(sinks) : sinks[j] \in Entry
    BY <1>0
  <2> QED
    BY <2>1, <2>2
<1>2. ASSUME NEW j \in 1..Len(sinks), NEW k \in 1..Len(sinks), j < k
      PROVE  sinks[j].id < sinks[k].id
  <2>1. j \in 1..(k - 1)
    BY <1>0, <1>2
  <2> QED
    BY <2>1 DEF HandlesAreGood
<1>3. ASSUME NEW j \in 1..Len(sinks), NEW k \in 1..Len(sinks), sinks[j].id = sinks[k].id
      PROVE  j = k
  <2>1. ~(j < k)
    BY <1>1, <1>2, <1>3
  <2>2. ~(k < j)
    BY <1>1, <1>2, <1>3
  <2> QED
    BY <1>0, <2>1, <2>2
<1>4. PICK k \in 1..Len(sinks) :
        /\ HasId(sinks[i].id, k)
        /\ Erase(sinks[i].id) = SubSeq(sinks, 1, k - 1) \o SubSeq(sinks, k + 1, Len(sinks))
  <2>1. HasId(sinks[i].id, i)
    BY DEF HasId
  <2>2. \A j, k \in 1..Len(sinks) : HasId(sinks[i].id, j) /\ HasId(sinks[i].id, k) => j = k
    BY <1>3 DEF HasId
  <2> QED
    BY <1>0, <2>1, <2>2, EraseOfId
<1>5. k = i
  BY <1>3, <1>4 DEF HasId
<1> DEFINE r == SubSeq(sinks, 1, i - 1) \o SubSeq(sinks, i + 1, Len(sinks))
<1>6. Erase(sinks[i].id) = r
  BY <1>4, <1>5
<1>7. /\ r \in Seq(Entry)
      /\ Len(r) = Len(sinks) - 1
      /\ \A j \in 1..(Len(sinks) - 1) : r[j] = IF j < i THEN sinks[j] ELSE sinks[j + 1]
  BY <1>0, GapProperties
<1> HIDE DEF r
<1> QED
  BY <1>0, <1>6, <1>7, Zenon

LEMMA TypeManager ==
  ASSUME TypeOK, HandlesAreGood, NEW s \in Sinks, Manager(s)
  PROVE  TypeOK'
<1> USE MultiSinkAssumption
<1>1. CASE AddCheck(s)
  <2>1. TracksIfOpen \in 0..MaxOpens
    BY Zeros DEF TypeOK, TracksIfOpen
  <2>2. saw' \in [Sinks -> 0..MaxOpens]
    BY <1>1, <2>1 DEF TypeOK, AddCheck
  <2> QED
    BY <1>1, <2>2 DEF TypeOK, AddCheck, registry, pipelineVars, frameVars
<1>2. CASE AddOpen(s)
  <2>1. sinkOpen' \in [Sinks -> 0..MaxOpens]
    BY <1>2 DEF TypeOK, AddOpen
  <2> QED
    BY <1>2, <2>1 DEF TypeOK, AddOpen, registry, pipelineVars, frameVars
<1>3. CASE AddFails(s)
  BY <1>3 DEF TypeOK, AddFails, registry, pipelineVars, frameVars
<1>4. CASE AddPush(s)
  <2>1. sinks' \in Seq([id : Nat, sink : Sinks])
    <3>1. [id |-> FreshId, sink |-> s] \in [id : Nat, sink : Sinks]
      BY DEF TypeOK, FreshId
    <3> QED
      BY <1>4, <3>1, AppendOne DEF TypeOK, AddPush
  <2>2. handle' \in [Sinks -> Int]
    BY <1>4 DEF TypeOK, AddPush, FreshId
  <2>3. from' \in [Sinks -> 0..MaxFrames]
    BY <1>4 DEF TypeOK, AddPush
  <2>4. nextId' \in Nat
    BY <1>4 DEF TypeOK, AddPush
  <2> QED
    BY <1>4, <2>1, <2>2, <2>3, <2>4 DEF TypeOK, AddPush, pipelineVars, frameVars
<1>5. CASE RemoveErase(s)
  <2>1. sinks' \in Seq([id : Nat, sink : Sinks])
    <3>1. PICK i \in 1..Len(sinks) : sinks[i].id = handle[s]
      BY <1>5 DEF RemoveErase, HasId
    <3> QED
      BY <1>5, <3>1, EraseProperties DEF RemoveErase, Entry
  <2>2. upto' \in [Sinks -> 0..MaxFrames]
    BY <1>5 DEF TypeOK, RemoveErase
  <2> QED
    BY <1>5, <2>1, <2>2 DEF TypeOK, RemoveErase, CrossedByOpen, pipelineVars, frameVars
<1>6. CASE RemoveClose(s)
  <2>1. sinkOpen' \in [Sinks -> 0..MaxOpens]
    BY <1>6, Zeros DEF TypeOK, RemoveClose, Closed
  <2> QED
    BY <1>6, <2>1 DEF TypeOK, RemoveClose, registry, pipelineVars, frameVars
<1>7. CASE LetGo(s)
  BY <1>7 DEF TypeOK, LetGo, registry, pipelineVars, frameVars, managerVars
<1> QED
  BY <1>1, <1>2, <1>3, <1>4, <1>5, <1>6, <1>7 DEF Manager

(***************************************************************************)
(* Handles.  HandlesAreGood is inductive once the types are known.         *)
(***************************************************************************)
LEMMA HandlesKept ==
  ASSUME HandlesAreGood, UNCHANGED <<sinks, nextId, handle>>,
         \A s \in Sinks : manager'[s] = "added" <=> manager[s] = "added", TypeOK
  PROVE  HandlesAreGood'
<1>1. \A i \in 1..Len(sinks) : sinks[i].sink \in Sinks
  BY EntriesTyped
<1> QED
  BY <1>1 DEF HandlesAreGood, Registered

LEMMA HandlesPush ==
  ASSUME TypeOK, HandlesAreGood, NEW s \in Sinks, AddPush(s)
  PROVE  HandlesAreGood'
<1> DEFINE e == [id |-> nextId, sink |-> s]
           n == Len(sinks)
<1>1. /\ sinks' = Append(sinks, e)
      /\ handle' = [handle EXCEPT ![s] = nextId]
      /\ nextId' = nextId + 1
      /\ manager' = [manager EXCEPT ![s] = "added"]
      /\ manager[s] # "added"
  BY DEF AddPush, FreshId
<1>2. n \in Nat /\ nextId \in Nat /\ e.id = nextId /\ e.sink = s
  BY DEF TypeOK
<1>3. /\ Len(sinks') = n + 1
      /\ \A i \in 1..n : sinks'[i] = sinks[i]
      /\ sinks'[n + 1] = e
  <2>1. sinks \in Seq(Entry) /\ e \in Entry
    BY DEF TypeOK, Entry
  <2> HIDE DEF e
  <2> QED
    BY <1>1, <2>1, AppendOne
<1>4. \A i \in 1..n : sinks[i].sink \in Sinks /\ sinks[i].sink # s /\ sinks[i].id \in Nat
  <2>1. \A i \in 1..n : manager[sinks[i].sink] = "added"
    BY DEF HandlesAreGood
  <2> QED
    BY <1>1, <2>1, EntriesTyped
<1> HIDE DEF e
<1>5. ASSUME NEW i \in 1..Len(sinks')
      PROVE  /\ sinks'[i].id < nextId'
             /\ sinks'[i].id = handle'[sinks'[i].sink]
             /\ manager'[sinks'[i].sink] = "added"
             /\ \A j \in 1..(i - 1) : sinks'[j].id < sinks'[i].id
  <2>1. CASE i \in 1..n
    <3>1. /\ sinks[i].id < nextId
          /\ sinks[i].id = handle[sinks[i].sink]
          /\ manager[sinks[i].sink] = "added"
          /\ \A j \in 1..(i - 1) : sinks[j].id < sinks[i].id
      BY <2>1 DEF HandlesAreGood
    <3>2. sinks'[i] = sinks[i] /\ \A j \in 1..(i - 1) : sinks'[j] = sinks[j]
      BY <1>2, <1>3, <2>1
    <3>3. sinks'[i].id < nextId'
      BY <1>1, <1>2, <1>4, <2>1, <3>1, <3>2
    <3>4. handle'[sinks[i].sink] = handle[sinks[i].sink] /\ manager'[sinks[i].sink] = "added"
      BY <1>1, <1>4, <2>1, <3>1 DEF TypeOK
    <3> QED
      BY <3>1, <3>2, <3>3, <3>4
  <2>2. CASE i = n + 1
    <3>1. sinks'[i] = e
      BY <1>3, <2>2
    <3>2. handle'[s] = nextId /\ manager'[s] = "added"
      BY <1>1 DEF TypeOK
    <3>3. \A j \in 1..(i - 1) : sinks'[j].id < nextId
      BY <1>2, <1>3, <2>2 DEF HandlesAreGood
    <3>4. nextId < nextId'
      BY <1>1, <1>2
    <3> QED
      BY <1>2, <3>1, <3>2, <3>3, <3>4
  <2> QED
    BY <1>2, <1>3, <2>1, <2>2
<1>6. ASSUME NEW t \in Sinks, manager'[t] = "added"
      PROVE  t \in Registered'
  <2>1. CASE t = s
    <3>1. sinks'[n + 1].sink = t /\ n + 1 \in 1..Len(sinks')
      BY <1>2, <1>3, <2>1
    <3> QED
      BY <3>1 DEF Registered
  <2>2. CASE t # s
    <3>1. manager[t] = "added"
      BY <1>1, <1>6, <2>2 DEF TypeOK
    <3>2. PICK i \in 1..n : sinks[i].sink = t
      BY <3>1 DEF HandlesAreGood, Registered
    <3>3. sinks'[i].sink = t /\ i \in 1..Len(sinks')
      BY <1>2, <1>3, <3>2
    <3> QED
      BY <3>3 DEF Registered
  <2> QED
    BY <2>1, <2>2
<1> QED
  BY <1>5, <1>6 DEF HandlesAreGood

LEMMA HandlesErase ==
  ASSUME TypeOK, HandlesAreGood, NEW s \in Sinks, RemoveErase(s)
  PROVE  HandlesAreGood'
<1> DEFINE n == Len(sinks)
<1>1. PICK i \in 1..n : sinks[i].sink = s
  BY DEF RemoveErase, HandlesAreGood, Registered
<1>2. sinks[i].id = handle[s]
  BY <1>1 DEF HandlesAreGood
<1>3. /\ n \in Nat
      /\ Len(sinks') = n - 1
      /\ \A j \in 1..(n - 1) : sinks'[j] = IF j < i THEN sinks[j] ELSE sinks[j + 1]
  BY <1>2, EraseProperties DEF RemoveErase
<1>4. /\ nextId' = nextId
      /\ handle' = handle
      /\ manager' = [manager EXCEPT ![s] = "removing"]
  BY DEF RemoveErase
<1>5. \A j \in 1..n : sinks[j].sink \in Sinks /\ sinks[j].id \in Nat
  BY EntriesTyped
<1>6. \A j, k \in 1..n : j < k => sinks[j].id < sinks[k].id
  <2> SUFFICES ASSUME NEW j \in 1..n, NEW k \in 1..n, j < k PROVE sinks[j].id < sinks[k].id
    OBVIOUS
  <2>1. j \in 1..(k - 1)
    BY <1>3
  <2> QED
    BY <2>1 DEF HandlesAreGood
<1>7. \A j \in 1..n : j # i => sinks[j].sink # s
  <2> SUFFICES ASSUME NEW j \in 1..n, j # i, sinks[j].sink = s PROVE FALSE
    OBVIOUS
  <2>1. sinks[j].id = sinks[i].id
    BY <1>1, <1>2 DEF HandlesAreGood
  <2>2. j < i \/ i < j
    BY <1>3
  <2> QED
    BY <1>5, <1>6, <2>1, <2>2
<1> DEFINE old(j) == IF j < i THEN j ELSE j + 1
<1>8. ASSUME NEW j \in 1..Len(sinks')
      PROVE  old(j) \in 1..n /\ old(j) # i /\ sinks'[j] = sinks[old(j)]
  BY <1>3, <1>8
<1>9. ASSUME NEW j \in 1..Len(sinks'), NEW k \in 1..(j - 1)
      PROVE  k \in 1..Len(sinks') /\ old(k) < old(j)
  BY <1>3, <1>9
<1> HIDE DEF old
<1>10. ASSUME NEW j \in 1..Len(sinks')
       PROVE  /\ sinks'[j].id < nextId'
              /\ sinks'[j].id = handle'[sinks'[j].sink]
              /\ manager'[sinks'[j].sink] = "added"
              /\ \A k \in 1..(j - 1) : sinks'[k].id < sinks'[j].id
  <2>1. /\ sinks'[j].id < nextId'
        /\ sinks'[j].id = handle'[sinks'[j].sink]
    BY <1>4, <1>8 DEF HandlesAreGood
  <2>2. manager'[sinks'[j].sink] = "added"
    <3>1. manager[sinks[old(j)].sink] = "added" /\ sinks[old(j)].sink # s
      BY <1>7, <1>8 DEF HandlesAreGood
    <3> QED
      BY <1>4, <1>5, <1>8, <3>1 DEF TypeOK
  <2>3. \A k \in 1..(j - 1) : sinks'[k].id < sinks'[j].id
    BY <1>6, <1>8, <1>9
  <2> QED
    BY <2>1, <2>2, <2>3
<1>11. ASSUME NEW t \in Sinks, manager'[t] = "added"
       PROVE  t \in Registered'
  <2>1. t # s /\ manager[t] = "added"
    BY <1>4, <1>11 DEF TypeOK
  <2>2. PICK k \in 1..n : sinks[k].sink = t
    BY <2>1 DEF HandlesAreGood, Registered
  <2>3. k # i
    BY <1>1, <2>1, <2>2
  <2>4. CASE k < i
    <3>1. k \in 1..Len(sinks') /\ sinks'[k] = sinks[k]
      BY <1>3, <2>4
    <3> QED
      BY <2>2, <3>1 DEF Registered
  <2>5. CASE i < k
    <3>1. k - 1 \in 1..Len(sinks') /\ ~(k - 1 < i) /\ (k - 1) + 1 = k
      BY <1>3, <2>5
    <3>2. sinks'[k - 1] = sinks[k]
      BY <1>3, <3>1
    <3> QED
      BY <2>2, <3>1, <3>2 DEF Registered
  <2> QED
    BY <1>3, <2>3, <2>4, <2>5
<1> QED
  BY <1>10, <1>11 DEF HandlesAreGood

LEMMA HandlesNext == TypeOK /\ HandlesAreGood /\ [Next]_vars => HandlesAreGood'
<1> SUFFICES ASSUME TypeOK, HandlesAreGood, [Next]_vars PROVE HandlesAreGood'
  OBVIOUS
<1>1. CASE Pipeline
  <2>1. UNCHANGED <<sinks, nextId, handle, manager>>
    BY <1>1 DEF Pipeline, OpenBegin, OpenNext, OpenFails, OpenEnd, CloseBegin, CloseNext,
                CloseEnd, registry, managerVars
  <2> QED
    BY <2>1, HandlesKept
<1>2. CASE Source
  <2>1. UNCHANGED <<sinks, nextId, handle, manager>>
    BY <1>2 DEF Source, SendBegin, SendNext, registry, managerVars
  <2> QED
    BY <2>1, HandlesKept
<1>3. ASSUME NEW s \in Sinks, Manager(s)
      PROVE  HandlesAreGood'
  <2>1. CASE AddPush(s)
    BY <2>1, HandlesPush
  <2>2. CASE RemoveErase(s)
    BY <2>2, HandlesErase
  <2>3. CASE AddCheck(s) \/ AddOpen(s) \/ AddFails(s) \/ RemoveClose(s) \/ LetGo(s)
    <3>1. UNCHANGED <<sinks, nextId, handle>>
      BY <2>3 DEF AddCheck, AddOpen, AddFails, RemoveClose, LetGo, registry, managerVars
    <3>2. \A t \in Sinks : manager'[t] = "added" <=> manager[t] = "added"
      BY <2>3 DEF AddCheck, AddOpen, AddFails, RemoveClose, LetGo, managerVars, TypeOK
    <3> QED
      BY <3>1, <3>2, HandlesKept
  <2> QED
    BY <1>3, <2>1, <2>2, <2>3 DEF Manager
<1>4. CASE UNCHANGED vars
  BY <1>4, HandlesKept DEF vars, registry, managerVars
<1> QED
  BY <1>1, <1>2, <1>3, <1>4 DEF Next

LEMMA TypeNext == TypeOK /\ HandlesAreGood /\ [Next]_vars => TypeOK'
<1> SUFFICES ASSUME TypeOK, HandlesAreGood, [Next]_vars PROVE TypeOK'
  OBVIOUS
<1>1. CASE UNCHANGED vars
  BY <1>1 DEF vars, registry, pipelineVars, frameVars, managerVars, TypeOK
<1> QED
  BY <1>1, TypePipeline, TypeSource, TypeManager DEF Next

LEMMA HandlesInit == Init => HandlesAreGood
  BY DEF Init, HandlesAreGood

(***************************************************************************)
(* Whatever is added, removed, opened and closed beside it, the handle     *)
(* that add_sink() returned names the sink it was called with until        *)
(* remove_sink() is called with it (multi_sink.cpp:127, 139-143).          *)
(***************************************************************************)
THEOREM HandlesCorrect == Spec => [](TypeOK /\ HandlesAreGood)
<1>1. Init => TypeOK /\ HandlesAreGood
  BY TypeInit, HandlesInit
<1>2. TypeOK /\ HandlesAreGood /\ [Next]_vars => (TypeOK /\ HandlesAreGood)'
  BY TypeNext, HandlesNext
<1> QED
  BY <1>1, <1>2, PTL DEF Spec

(***************************************************************************)
(* The fan-out.  FanOutComplete says what a sink has received; that it is  *)
(* kept needs that the pointers of a snapshot are distinct and that each   *)
(* still waits for the frame under way.                                    *)
(***************************************************************************)
SnapshotFresh ==
  /\ \A s \in Sinks : InSnapshot(s) =>
       /\ manager[s] \in {"added", "removing", "removed"}
       /\ Due(s) = sent
       /\ from[s] < sent
  /\ \A i, j \in 1..Len(snapshot) : snapshot[i] = snapshot[j] => i = j

Bounds == \A s \in Sinks : from[s] <= Due(s) /\ Due(s) <= sent

FanInv == FanOutComplete /\ SnapshotFresh /\ Bounds

LEMMA DueValue ==
  ASSUME TypeOK, NEW s \in Sinks
  PROVE  /\ manager[s] = "added" => Due(s) = sent
         /\ manager[s] \in {"removing", "removed"} => Due(s) = upto[s]
         /\ manager[s] \in {"new", "adding", "opened", "rejected"} => Due(s) = from[s]
         /\ Due(s) \in Nat
         /\ from[s] \in Nat
         /\ upto[s] \in Nat
         /\ sent \in Nat
<1>1. from[s] \in Nat /\ upto[s] \in Nat /\ sent \in Nat
  BY MultiSinkAssumption DEF TypeOK
<1>2. manager[s] \in {"new", "adding", "opened", "added", "rejected", "removing", "removed"}
  BY DEF TypeOK
<1> QED
  BY <1>1, <1>2 DEF Due

\* A step that changes neither a snapshot nor what is due keeps FanInv.
LEMMA FanKept ==
  ASSUME FanInv, TypeOK, UNCHANGED <<snapshot, sent, received, from>>,
         \A s \in Sinks :
           /\ Due(s)' = Due(s)
           /\ manager[s] \in {"added", "removing", "removed"}
                => manager'[s] \in {"added", "removing", "removed"}
  PROVE  FanInv'
<1>1. \A s \in Sinks : InSnapshot(s)' <=> InSnapshot(s)
  BY DEF InSnapshot
<1>2. Bounds'
  BY DEF FanInv, Bounds
<1>3. SnapshotFresh'
  BY <1>1 DEF FanInv, SnapshotFresh
<1>4. FanOutComplete'
  BY DEF FanInv, FanOutComplete, InSnapshot
<1> QED
  BY <1>2, <1>3, <1>4 DEF FanInv

LEMMA FanInit == Init => FanInv
<1> SUFFICES ASSUME Init PROVE FanInv
  OBVIOUS
<1>1. Len(snapshot) = 0 /\ sent = 0 /\ Len(<<>>) = 0
  BY DEF Init
<1>2. \A s \in Sinks : /\ Due(s) = 0
                       /\ from[s] = 0
                       /\ received[s] = <<>>
                       /\ ~InSnapshot(s)
  BY <1>1 DEF Init, Due, InSnapshot
<1> QED
  BY <1>1, <1>2 DEF FanInv, FanOutComplete, SnapshotFresh, Bounds

LEMMA FanBegin ==
  ASSUME TypeOK, HandlesAreGood, FanInv, SendBegin
  PROVE  FanInv'
<1>1. /\ snapshot = <<>>
      /\ sent' = sent + 1
      /\ snapshot' = Pointers
      /\ received' = received
      /\ UNCHANGED <<manager, from, upto>>
  BY DEF SendBegin, SinksToSend, managerVars
<1>2. /\ Len(snapshot') = Len(sinks)
      /\ \A i \in 1..Len(sinks) : snapshot'[i] = sinks[i].sink
  BY <1>1, EntriesTyped, PointersProperties
<1>3. \A i \in 1..Len(sinks) : sinks[i].sink \in Sinks /\ manager[sinks[i].sink] = "added"
  BY EntriesTyped DEF HandlesAreGood
<1>4. \A s \in Sinks : ~InSnapshot(s)
  <2>1. Len(snapshot) = 0
    BY <1>1
  <2> QED
    BY <2>1 DEF InSnapshot
<1>5. \A s \in Sinks : InSnapshot(s)' <=> manager[s] = "added"
  <2>1. ASSUME NEW s \in Sinks, InSnapshot(s)'
        PROVE  manager[s] = "added"
    BY <1>2, <1>3, <2>1 DEF InSnapshot
  <2>2. ASSUME NEW s \in Sinks, manager[s] = "added"
        PROVE  InSnapshot(s)'
    <3>1. PICK i \in 1..Len(sinks) : sinks[i].sink = s
      BY <2>2 DEF HandlesAreGood, Registered
    <3> QED
      BY <1>2, <3>1 DEF InSnapshot
  <2> QED
    BY <2>1, <2>2
<1>6. \A s \in Sinks : /\ manager[s] = "added" => Due(s) = sent /\ Due(s)' = sent + 1
                       /\ manager[s] # "added" => Due(s)' = Due(s)
                       /\ Due(s) \in Nat
                       /\ from[s] \in Nat
                       /\ sent \in Nat
  <2> SUFFICES ASSUME NEW s \in Sinks
               PROVE  /\ manager[s] = "added" => Due(s) = sent /\ Due(s)' = sent + 1
                      /\ manager[s] # "added" => Due(s)' = Due(s)
                      /\ Due(s) \in Nat
                      /\ from[s] \in Nat
                      /\ sent \in Nat
    OBVIOUS
  <2>1. Due(s)' = CASE manager[s] = "added" -> sent'
                    [] manager[s] \in {"removing", "removed"} -> upto[s]
                    [] OTHER -> from[s]
    BY <1>1 DEF Due
  <2>2. manager[s] \in {"new", "adding", "opened", "added", "rejected", "removing", "removed"}
    BY DEF TypeOK
  <2> QED
    BY <1>1, <2>1, <2>2, DueValue
<1>7. Bounds'
  <2> SUFFICES ASSUME NEW s \in Sinks PROVE from[s]' <= Due(s)' /\ Due(s)' <= sent'
    BY DEF Bounds
  <2>1. from[s] <= Due(s) /\ Due(s) <= sent
    BY DEF FanInv, Bounds
  <2> QED
    BY <1>1, <1>6, <2>1
<1>8. SnapshotFresh'
  <2>1. ASSUME NEW s \in Sinks, InSnapshot(s)'
        PROVE  /\ manager'[s] \in {"added", "removing", "removed"}
               /\ Due(s)' = sent'
               /\ from'[s] < sent'
    <3>1. manager[s] = "added"
      BY <1>5, <2>1
    <3>2. from[s] <= Due(s)
      BY DEF FanInv, Bounds
    <3> QED
      BY <1>1, <1>6, <3>1, <3>2
  <2>2. ASSUME NEW i \in 1..Len(snapshot'), NEW j \in 1..Len(snapshot'),
               snapshot'[i] = snapshot'[j]
        PROVE  i = j
    <3>1. sinks[i].id = sinks[j].id
      BY <1>2, <2>2 DEF HandlesAreGood
    <3>2. \A k, l \in 1..Len(sinks) : k < l => sinks[k].id < sinks[l].id
      <4> SUFFICES ASSUME NEW k \in 1..Len(sinks), NEW l \in 1..Len(sinks), k < l
                   PROVE  sinks[k].id < sinks[l].id
        OBVIOUS
      <4>1. Len(sinks) \in Nat
        BY EntriesTyped
      <4>2. k \in 1..(l - 1)
        BY <4>1
      <4> QED
        BY <4>2 DEF HandlesAreGood
    <3>3. i \in 1..Len(sinks) /\ j \in 1..Len(sinks)
      BY <1>2, <2>2
    <3>4. sinks[i].id \in Nat /\ sinks[j].id \in Nat
      BY <3>3, EntriesTyped
    <3>5. ~(i < j) /\ ~(j < i)
      BY <3>1, <3>2, <3>3, <3>4
    <3>6. Len(sinks) \in Nat
      BY EntriesTyped
    <3> QED
      BY <3>3, <3>5, <3>6
  <2> QED
    BY <2>1, <2>2 DEF SnapshotFresh
<1>9. FanOutComplete'
  <2> SUFFICES ASSUME NEW s \in Sinks
               PROVE  /\ Len(received'[s]) = (IF InSnapshot(s)' THEN Due(s)' - 1 ELSE Due(s)')
                                               - from'[s]
                      /\ \A i \in 1..Len(received'[s]) : received'[s][i] = from'[s] + i
    BY DEF FanOutComplete
  <2>1. /\ Len(received[s]) = Due(s) - from[s]
        /\ \A i \in 1..Len(received[s]) : received[s][i] = from[s] + i
    BY <1>4 DEF FanInv, FanOutComplete
  <2>2. (IF InSnapshot(s)' THEN Due(s)' - 1 ELSE Due(s)') = Due(s)
    BY <1>5, <1>6
  <2> QED
    BY <1>1, <2>1, <2>2
<1> QED
  BY <1>7, <1>8, <1>9 DEF FanInv

LEMMA FanSend ==
  ASSUME TypeOK, FanInv, SendNext
  PROVE  FanInv'
<1>0. PICK h \in Sinks : h = Head(snapshot)
  BY TailProperties DEF SendNext, TypeOK
<1>1. /\ snapshot # <<>>
      /\ received' = [received EXCEPT ![h] = Append(received[h], sent)]
      /\ snapshot' = Tail(snapshot)
      /\ UNCHANGED <<sent, manager, from, upto>>
  BY <1>0 DEF SendNext, managerVars
<1>2. /\ snapshot' \in Seq(Sinks)
      /\ Len(snapshot) \in Nat \ {0}
      /\ Len(snapshot') = Len(snapshot) - 1
      /\ h = snapshot[1]
      /\ h \in Sinks
      /\ \A i \in 1..(Len(snapshot) - 1) : snapshot'[i] = snapshot[i + 1]
  BY <1>0, <1>1, TailProperties DEF TypeOK
<1>3. \A s \in Sinks : Due(s)' = Due(s)
  BY <1>1 DEF Due
<1>4. ~InSnapshot(h)'
  <2> SUFFICES ASSUME NEW i \in 1..Len(snapshot'), snapshot'[i] = h PROVE FALSE
    BY DEF InSnapshot
  <2>1. i + 1 \in 1..Len(snapshot) /\ 1 \in 1..Len(snapshot) /\ snapshot[i + 1] = snapshot[1]
    BY <1>2
  <2>2. i + 1 = 1
    BY <2>1 DEF FanInv, SnapshotFresh
  <2> QED
    BY <1>2, <2>2
<1>5. \A s \in Sinks : s # h => (InSnapshot(s)' <=> InSnapshot(s))
  <2> SUFFICES ASSUME NEW s \in Sinks, s # h PROVE InSnapshot(s)' <=> InSnapshot(s)
    OBVIOUS
  <2>1. ASSUME InSnapshot(s)' PROVE InSnapshot(s)
    <3>1. PICK i \in 1..Len(snapshot') : snapshot'[i] = s
      BY <2>1 DEF InSnapshot
    <3>2. i + 1 \in 1..Len(snapshot) /\ snapshot[i + 1] = s
      BY <1>2, <3>1
    <3> QED
      BY <3>2 DEF InSnapshot
  <2>2. ASSUME InSnapshot(s) PROVE InSnapshot(s)'
    <3>1. PICK i \in 1..Len(snapshot) : snapshot[i] = s
      BY <2>2 DEF InSnapshot
    <3>2. i # 1
      BY <1>2, <3>1
    <3>3. i - 1 \in 1..Len(snapshot') /\ snapshot'[i - 1] = snapshot[(i - 1) + 1] /\ (i - 1) + 1 = i
      BY <1>2, <3>2
    <3> QED
      BY <3>1, <3>3 DEF InSnapshot
  <2> QED
    BY <2>1, <2>2
<1>6. InSnapshot(h) /\ Due(h) = sent /\ from[h] < sent
  <2>1. 1 \in 1..Len(snapshot)
    BY <1>2
  <2>2. InSnapshot(h)
    BY <1>2, <2>1 DEF InSnapshot
  <2> QED
    BY <1>2, <2>2 DEF FanInv, SnapshotFresh
<1>7. Bounds'
  BY <1>1, <1>3 DEF FanInv, Bounds
<1>8. SnapshotFresh'
  <2>1. \A i \in 1..Len(snapshot') : i + 1 \in 1..Len(snapshot) /\ snapshot'[i] = snapshot[i + 1]
    BY <1>2
  <2>2. ASSUME NEW s \in Sinks, InSnapshot(s)'
        PROVE  /\ manager'[s] \in {"added", "removing", "removed"}
               /\ Due(s)' = sent'
               /\ from'[s] < sent'
    <3>1. s # h
      BY <1>4, <2>2
    <3>2. InSnapshot(s)
      BY <1>5, <2>2, <3>1
    <3> QED
      BY <1>1, <1>3, <3>2 DEF FanInv, SnapshotFresh
  <2>4. \A i, j \in 1..Len(snapshot') : snapshot'[i] = snapshot'[j] => i = j
    <3> SUFFICES ASSUME NEW i \in 1..Len(snapshot'), NEW j \in 1..Len(snapshot'),
                        snapshot'[i] = snapshot'[j]
                 PROVE  i = j
      OBVIOUS
    <3>1. i + 1 = j + 1
      BY <2>1 DEF FanInv, SnapshotFresh
    <3> QED
      BY <1>2, <3>1
  <2> QED
    BY <2>2, <2>4 DEF SnapshotFresh
<1>9. FanOutComplete'
  <2> SUFFICES ASSUME NEW s \in Sinks
               PROVE  /\ Len(received'[s]) = (IF InSnapshot(s)' THEN Due(s)' - 1 ELSE Due(s)')
                                               - from'[s]
                      /\ \A i \in 1..Len(received'[s]) : received'[s][i] = from'[s] + i
    BY DEF FanOutComplete
  <2>1. CASE s = h
    <3>1. /\ Len(received[h]) = (sent - 1) - from[h]
          /\ \A i \in 1..Len(received[h]) : received[h][i] = from[h] + i
      BY <1>2, <1>6 DEF FanInv, FanOutComplete
    <3>2. received[h] \in Seq(Nat) /\ sent \in Nat /\ from[h] \in Nat
      BY <1>2, DueValue DEF TypeOK
    <3>3. received'[h] = Append(received[h], sent)
      BY <1>1, <1>2 DEF TypeOK
    <3>4. /\ Len(received'[h]) = Len(received[h]) + 1
          /\ \A i \in 1..Len(received[h]) : received'[h][i] = received[h][i]
          /\ received'[h][Len(received[h]) + 1] = sent
          /\ Len(received[h]) \in Nat
      BY <3>2, <3>3, AppendOne
    <3>5. Len(received'[h]) = sent - from[h]
      BY <3>1, <3>2, <3>4
    <3>6. \A i \in 1..Len(received'[h]) : received'[h][i] = from[h] + i
      <4> SUFFICES ASSUME NEW i \in 1..Len(received'[h]) PROVE received'[h][i] = from[h] + i
        OBVIOUS
      <4>1. CASE i \in 1..Len(received[h])
        BY <3>1, <3>4, <4>1
      <4>2. CASE i = Len(received[h]) + 1
        <5>1. received'[h][i] = sent
          BY <3>4, <4>2
        <5>2. Len(received[h]) \in Int /\ sent \in Int /\ from[h] \in Int
          BY <3>2, <3>4
        <5>3. Len(received[h]) = (sent - 1) - from[h]
          BY <3>1
        <5>4. \A l, m, n \in Int : l = (m - 1) - n => n + (l + 1) = m
          OBVIOUS
        <5>5. from[h] + (Len(received[h]) + 1) = sent
          BY <5>2, <5>3, <5>4
        <5> QED
          BY <4>2, <5>1, <5>5
      <4> QED
        BY <3>4, <4>1, <4>2
    <3>7. /\ Len(received'[h]) = (IF InSnapshot(h)' THEN Due(h)' - 1 ELSE Due(h)')
                                     - from'[h]
          /\ \A i \in 1..Len(received'[h]) : received'[h][i] = from'[h] + i
      <4>1. Due(h)' = sent
        BY <1>1, <1>6 DEF Due
      <4> QED
        BY <1>1, <1>4, <3>5, <3>6, <4>1
    <3> QED
      BY <2>1, <3>7
  <2>2. CASE s # h
    <3>1. received'[s] = received[s]
      BY <1>1, <1>2, <2>2 DEF TypeOK
    <3>2. /\ Len(received[s]) = (IF InSnapshot(s) THEN Due(s) - 1 ELSE Due(s)) - from[s]
          /\ \A i \in 1..Len(received[s]) : received[s][i] = from[s] + i
      BY DEF FanInv, FanOutComplete
    <3>3. (IF InSnapshot(s)' THEN Due(s)' - 1 ELSE Due(s)')
            = (IF InSnapshot(s) THEN Due(s) - 1 ELSE Due(s))
      BY <1>3, <1>5, <2>2
    <3> QED
      BY <1>1, <3>1, <3>2, <3>3
  <2> QED
    BY <2>1, <2>2
<1> QED
  BY <1>7, <1>8, <1>9 DEF FanInv

\* A sink starts with nothing received and everything due to others.
LEMMA FanPush ==
  ASSUME TypeOK, FanInv, NEW s \in Sinks, AddPush(s)
  PROVE  FanInv'
<1>1. /\ manager[s] \in {"adding", "opened"}
      /\ manager' = [manager EXCEPT ![s] = "added"]
      /\ from' = [from EXCEPT ![s] = sent]
      /\ UNCHANGED <<snapshot, sent, received, upto>>
  BY DEF AddPush, frameVars
<1>2. manager'[s] = "added" /\ from'[s] = sent /\ Due(s) = from[s]
  BY <1>1, DueValue DEF TypeOK
<1>3. \A t \in Sinks \ {s} : manager'[t] = manager[t] /\ from'[t] = from[t]
  BY <1>1 DEF TypeOK
<1>4. \A t \in Sinks \ {s} : Due(t)' = Due(t)
  BY <1>1, <1>3 DEF Due
<1>5. Due(s)' = sent
  BY <1>1, <1>2 DEF Due
<1>6. /\ ~InSnapshot(s)
      /\ \A t \in Sinks : InSnapshot(t)' <=> InSnapshot(t)
  <2>1. ~InSnapshot(s)
    BY <1>1 DEF FanInv, SnapshotFresh
  <2> QED
    BY <1>1, <2>1 DEF InSnapshot
<1>7. Bounds'
  <2>1. sent \in Nat
    BY DueValue
  <2>2. \A t \in Sinks \ {s} : from'[t] <= Due(t)' /\ Due(t)' <= sent'
    BY <1>1, <1>3, <1>4 DEF FanInv, Bounds
  <2>3. from'[s] <= Due(s)' /\ Due(s)' <= sent'
    BY <1>1, <1>2, <1>5, <2>1
  <2> QED
    BY <2>2, <2>3 DEF Bounds
<1>8. SnapshotFresh'
  <2>1. ASSUME NEW t \in Sinks, InSnapshot(t)'
        PROVE  /\ manager'[t] \in {"added", "removing", "removed"}
               /\ Due(t)' = sent'
               /\ from'[t] < sent'
    <3>1. t \in Sinks \ {s} /\ InSnapshot(t)
      BY <1>6, <2>1
    <3> QED
      BY <1>1, <1>3, <1>4, <3>1 DEF FanInv, SnapshotFresh
  <2>3. \A i, j \in 1..Len(snapshot') : snapshot'[i] = snapshot'[j] => i = j
    BY <1>1 DEF FanInv, SnapshotFresh
  <2> QED
    BY <2>1, <2>3 DEF SnapshotFresh
<1>9. FanOutComplete'
  <2>1. \A t \in Sinks : InSnapshot(t)' <=> InSnapshot(t)
    BY <1>6
  <2>2. ~InSnapshot(s)
    BY <1>6
  <2>3. Len(received[s]) = 0
    <3>1. Len(received[s]) = Due(s) - from[s]
      BY <2>2 DEF FanInv, FanOutComplete
    <3> QED
      BY <1>2, <3>1, DueValue
  <2>4. sent \in Nat
    BY DueValue
  <2>5. ASSUME NEW t \in Sinks \ {s}
        PROVE  /\ Len(received'[t]) = (IF InSnapshot(t)' THEN Due(t)' - 1 ELSE Due(t)')
                                        - from'[t]
               /\ \A i \in 1..Len(received'[t]) : received'[t][i] = from'[t] + i
    <3>1. /\ Len(received[t]) = (IF InSnapshot(t) THEN Due(t) - 1 ELSE Due(t)) - from[t]
          /\ \A i \in 1..Len(received[t]) : received[t][i] = from[t] + i
      BY DEF FanInv, FanOutComplete
    <3> QED
      BY <1>1, <1>3, <1>4, <2>1, <3>1
  <2>6. /\ Len(received'[s]) = (IF InSnapshot(s)' THEN Due(s)' - 1 ELSE Due(s)') - from'[s]
        /\ \A i \in 1..Len(received'[s]) : received'[s][i] = from'[s] + i
    BY <1>1, <1>2, <1>5, <2>1, <2>2, <2>3, <2>4
  <2> QED
    BY <2>5, <2>6 DEF FanOutComplete
<1> QED
  BY <1>7, <1>8, <1>9 DEF FanInv

LEMMA FanErase ==
  ASSUME TypeOK, FanInv, NEW s \in Sinks, RemoveErase(s)
  PROVE  FanInv'
<1>1. /\ manager[s] = "added"
      /\ manager' = [manager EXCEPT ![s] = "removing"]
      /\ upto' = [upto EXCEPT ![s] = sent]
      /\ UNCHANGED <<snapshot, sent, received, from>>
  BY DEF RemoveErase, frameVars
<1>2. manager'[s] = "removing" /\ upto'[s] = sent /\ Due(s) = sent
  BY <1>1, DueValue DEF TypeOK
<1>3. \A t \in Sinks \ {s} : manager'[t] = manager[t] /\ upto'[t] = upto[t]
  BY <1>1 DEF TypeOK
<1>4. Due(s)' = Due(s)
  BY <1>1, <1>2 DEF Due
<1>5. \A t \in Sinks \ {s} : Due(t)' = Due(t)
  BY <1>1, <1>3 DEF Due
<1>6. \A t \in Sinks : /\ Due(t)' = Due(t)
                       /\ manager[t] \in {"added", "removing", "removed"}
                            => manager'[t] \in {"added", "removing", "removed"}
  BY <1>2, <1>3, <1>4, <1>5
<1> QED
  BY <1>1, <1>6, FanKept

LEMMA FanQuiet ==
  ASSUME TypeOK, FanInv, NEW s \in Sinks,
         AddCheck(s) \/ AddOpen(s) \/ AddFails(s) \/ RemoveClose(s) \/ LetGo(s)
  PROVE  FanInv'
<1>1. UNCHANGED <<snapshot, sent, received, from, upto>>
  BY DEF AddCheck, AddOpen, AddFails, RemoveClose, LetGo, frameVars, managerVars
<1>2. \A t \in Sinks \ {s} : manager'[t] = manager[t]
  BY DEF AddCheck, AddOpen, AddFails, RemoveClose, LetGo, managerVars, TypeOK
<1>3. \/ manager'[s] = manager[s]
      \/ /\ manager[s] \in {"new", "adding", "opened"}
         /\ manager'[s] \in {"adding", "opened", "rejected"}
      \/ manager[s] = "removing" /\ manager'[s] = "removed"
  BY DEF AddCheck, AddOpen, AddFails, RemoveClose, LetGo, managerVars, TypeOK
<1>4. \A t \in Sinks \ {s} : Due(t)' = Due(t)
  BY <1>1, <1>2 DEF Due
<1>5. Due(s)' = Due(s)
  BY <1>1, <1>3 DEF Due
<1>6. \A t \in Sinks : /\ Due(t)' = Due(t)
                       /\ manager[t] \in {"added", "removing", "removed"}
                            => manager'[t] \in {"added", "removing", "removed"}
  BY <1>2, <1>3, <1>4, <1>5
<1> QED
  BY <1>1, <1>6, FanKept

LEMMA FanNext == TypeOK /\ HandlesAreGood /\ FanInv /\ [Next]_vars => FanInv'
<1> SUFFICES ASSUME TypeOK, HandlesAreGood, FanInv, [Next]_vars PROVE FanInv'
  OBVIOUS
<1>1. CASE UNCHANGED <<frameVars, manager, from, upto>>
  <2>1. UNCHANGED <<snapshot, sent, received, from, upto, manager>>
    BY <1>1 DEF frameVars
  <2>2. \A t \in Sinks : Due(t)' = Due(t)
    BY <2>1 DEF Due
  <2> QED
    BY <2>1, <2>2, FanKept
<1>2. CASE Pipeline
  BY <1>1, <1>2 DEF Pipeline, OpenBegin, OpenNext, OpenFails, OpenEnd, CloseBegin, CloseNext,
                    CloseEnd, managerVars
<1>3. CASE Source
  BY <1>3, FanBegin, FanSend DEF Source
<1>4. ASSUME NEW s \in Sinks, Manager(s)
      PROVE  FanInv'
  BY <1>4, FanPush, FanErase, FanQuiet DEF Manager
<1>5. CASE UNCHANGED vars
  BY <1>1, <1>5 DEF vars, managerVars
<1> QED
  BY <1>2, <1>3, <1>4, <1>5 DEF Next

(***************************************************************************)
(* A sink is given exactly the frames whose send_frame() began between its *)
(* registration and its removal, once each and in order, although          *)
(* send_frame() visits the sinks outside the lock (multi_sink.cpp:49-60).  *)
(***************************************************************************)
THEOREM FanOutCorrect == Spec => []FanOutComplete
<1>1. Init => FanInv
  BY FanInit
<1>2. TypeOK /\ HandlesAreGood /\ FanInv /\ [Next]_vars => FanInv'
  BY FanNext
<1>3. FanInv => FanOutComplete
  BY DEF FanInv
<1> QED
  BY <1>1, <1>2, <1>3, HandlesCorrect, PTL DEF Spec
-----------------------------------------------------------------------------
(***************************************************************************)
(* The sinks follow the MultiSink.                                         *)
(***************************************************************************)
AtRest == pipeline \in {"idle", "ready", "failed"}

\* open() and close() visit sinks that are or were registered, and an open()
\* only registered ones unless it crosses a removal.
VisitInv ==
    /\ AtRest => todo = <<>>
    /\ \A s \in Sinks : InTodo(s) => manager[s] \in {"added", "removing", "removed"}
    /\ \A s \in Sinks \ crossed : pipeline = "opening" /\ InTodo(s) => manager[s] = "added"

\* What a sink that nothing crossed is, at any point of open() and close().
Follows(s) ==
    /\ manager[s] = "removed" => sinkOpen[s] = 0
    /\ ~opened => manager[s] # "opened" /\ (manager[s] = "adding" => saw[s] = 0)
    /\ pipeline \in {"opening", "ready"} /\ manager[s] = "adding" => saw[s] = tracks
    /\ pipeline \in {"opening", "ready"} /\ manager[s] = "opened" => sinkOpen[s] = tracks
    /\ pipeline = "opening" /\ manager[s] = "added" => sinkOpen[s] = tracks \/ InTodo(s)
    /\ pipeline = "ready" /\ manager[s] = "added" => sinkOpen[s] = tracks
    /\ pipeline = "closing" => sinkOpen[s] = 0 \/ manager[s] = "removing" \/ InTodo(s)
    /\ pipeline = "idle" => sinkOpen[s] = 0 \/ manager[s] = "removing"

FollowInv ==
    /\ opened <=> pipeline \in {"opening", "ready", "failed"}
    /\ opened => tracks # 0
    /\ \A s \in Sinks : manager[s] \in {"new", "adding", "rejected"} => sinkOpen[s] = 0
    /\ \A s \in Sinks \ crossed : Follows(s)

LEMMA ManagerValues ==
  ASSUME TypeOK, NEW s \in Sinks
  PROVE  manager[s] \in {"new", "adding", "opened", "added", "rejected", "removing", "removed"}
  BY DEF TypeOK

\* What a snapshot of the registry visits is registered, and all of it is.
LEMMA PointersRegistered ==
  ASSUME TypeOK, HandlesAreGood, NEW s \in Sinks
  PROVE  (\E i \in 1..Len(Pointers) : Pointers[i] = s) <=> manager[s] = "added"
<1>1. /\ Len(Pointers) = Len(sinks)
      /\ \A i \in 1..Len(sinks) : Pointers[i] = sinks[i].sink
  BY PointersProperties, EntriesTyped
<1>2. \A i \in 1..Len(sinks) : manager[sinks[i].sink] = "added"
  BY DEF HandlesAreGood
<1>3. manager[s] = "added" => \E i \in 1..Len(sinks) : sinks[i].sink = s
  BY DEF HandlesAreGood, Registered
<1> QED
  BY <1>1, <1>2, <1>3

\* Of a sequence, the tail holds what the head is not, and nothing else.
LEMMA TailMembers ==
  ASSUME NEW q \in Seq(Sinks), q # <<>>, NEW s \in Sinks
  PROVE  /\ (\E i \in 1..Len(Tail(q)) : Tail(q)[i] = s) => \E i \in 1..Len(q) : q[i] = s
         /\ (\E i \in 1..Len(q) : q[i] = s) /\ s # Head(q)
              => \E i \in 1..Len(Tail(q)) : Tail(q)[i] = s
         /\ \E i \in 1..Len(q) : q[i] = Head(q)
<1>1. /\ Len(q) \in Nat \ {0}
      /\ Len(Tail(q)) = Len(q) - 1
      /\ Head(q) = q[1]
      /\ \A i \in 1..(Len(q) - 1) : Tail(q)[i] = q[i + 1]
  BY TailProperties
<1>2. ASSUME NEW i \in 1..Len(Tail(q)), Tail(q)[i] = s
      PROVE  \E j \in 1..Len(q) : q[j] = s
  <2>1. i + 1 \in 1..Len(q) /\ q[i + 1] = s
    BY <1>1, <1>2
  <2> QED
    BY <2>1
<1>3. ASSUME NEW i \in 1..Len(q), q[i] = s, s # Head(q)
      PROVE  \E j \in 1..Len(Tail(q)) : Tail(q)[j] = s
  <2>1. i # 1
    BY <1>1, <1>3
  <2>2. i - 1 \in 1..Len(Tail(q)) /\ Tail(q)[i - 1] = q[(i - 1) + 1] /\ (i - 1) + 1 = i
    BY <1>1, <2>1
  <2> QED
    BY <1>3, <2>2
<1>4. 1 \in 1..Len(q)
  BY <1>1
<1> QED
  BY <1>1, <1>2, <1>3, <1>4

\* A sink is registered exactly while its manager has added it.
LEMMA AddedIsRegistered ==
  ASSUME HandlesAreGood, NEW s \in Sinks
  PROVE  s \in Registered <=> manager[s] = "added"
  BY DEF HandlesAreGood, Registered

(***************************************************************************)
(* open() or close() begins: it will visit what is registered, and crosses *)
(* every add_sink() that is between its two locks.                         *)
(***************************************************************************)
LEMMA FollowBegin ==
  ASSUME TypeOK, HandlesAreGood, VisitInv, FollowInv, OpenBegin \/ CloseBegin
  PROVE  VisitInv' /\ FollowInv'
<1>1. /\ todo' = Pointers /\ crossed' = Crossed
      /\ UNCHANGED <<manager, saw, sinkOpen>>
      /\ \/ pipeline' = "opening" /\ opened' /\ tracks' # 0
         \/ pipeline' = "closing" /\ ~opened'
  BY DEF OpenBegin, CloseBegin, SinksToClose, TypeOK
<1>2. \A s \in Sinks : (InTodo(s)') <=> manager[s] = "added"
  BY <1>1, PointersRegistered DEF InTodo
<1>3. VisitInv'
  BY <1>1, <1>2 DEF VisitInv, AtRest
<1>4. ASSUME NEW s \in Sinks, s \notin crossed' PROVE Follows(s)'
  <2>1. manager[s] \notin {"adding", "opened"} /\ (s \notin crossed \/ manager[s] = "added")
    BY <1>1, <1>4, AddedIsRegistered DEF Crossed, Between
  <2>2. manager[s] \in {"new", "rejected", "added", "removing", "removed"}
    BY <2>1, ManagerValues
  <2>3. manager[s] \in {"new", "rejected", "removed"} => sinkOpen[s] = 0
    BY <2>1 DEF FollowInv, Follows
  <2> QED
    BY <1>1, <1>2, <2>2, <2>3 DEF Follows
<1>5. FollowInv'
  <2>1. \A s \in Sinks : manager'[s] \in {"new", "adding", "rejected"} => sinkOpen'[s] = 0
    BY <1>1 DEF FollowInv
  <2> QED
    BY <1>1, <1>4, <2>1 DEF FollowInv
<1> QED
  BY <1>3, <1>5

(***************************************************************************)
(* open() or close() visits a sink.                                        *)
(***************************************************************************)
LEMMA FollowVisit ==
  ASSUME TypeOK, VisitInv, FollowInv, OpenNext \/ CloseNext
  PROVE  VisitInv' /\ FollowInv'
<1>1. /\ todo # <<>> /\ todo' = Tail(todo)
      /\ pipeline \in {"opening", "closing"}
      /\ UNCHANGED <<pipeline, opened, tracks, manager, saw, crossed>>
  BY DEF OpenNext, CloseNext, registry, managerVars
<1>2. PICK h \in Sinks : h = Head(todo)
  BY <1>1, TailProperties DEF TypeOK
<1>3. /\ \A s \in Sinks \ {h} : sinkOpen'[s] = sinkOpen[s]
      /\ pipeline = "opening" => sinkOpen'[h] = tracks
      /\ pipeline = "closing" => sinkOpen'[h] = 0
  BY <1>2 DEF OpenNext, CloseNext, TypeOK
<1>4. /\ \A s \in Sinks : (InTodo(s)') => InTodo(s)
      /\ \A s \in Sinks : InTodo(s) /\ s # h => (InTodo(s)')
      /\ InTodo(h)
  BY <1>1, <1>2, TailMembers DEF InTodo, TypeOK
<1>5. VisitInv'
  BY <1>1, <1>4 DEF VisitInv, AtRest
<1>6. manager[h] \in {"added", "removing", "removed"}
  BY <1>4 DEF VisitInv
<1>7. \A s \in Sinks : manager'[s] \in {"new", "adding", "rejected"} => sinkOpen'[s] = 0
  BY <1>1, <1>3, <1>6 DEF FollowInv
<1>8. ASSUME NEW s \in Sinks, s \notin crossed' PROVE Follows(s)'
  <2>1. Follows(s)
    BY <1>1, <1>8 DEF FollowInv
  <2>2. CASE s # h
    BY <1>1, <1>3, <1>4, <2>1, <2>2 DEF Follows
  <2>3. CASE s = h /\ pipeline = "opening"
    <3>1. manager[h] = "added"
      BY <1>1, <1>4, <1>8, <2>3 DEF VisitInv
    <3> QED
      BY <1>1, <1>3, <2>1, <2>3, <3>1 DEF Follows
  <2>4. CASE s = h /\ pipeline = "closing"
    BY <1>1, <1>3, <2>1, <2>4, <1>6 DEF Follows
  <2> QED
    BY <1>1, <2>2, <2>3, <2>4
<1>9. FollowInv'
  BY <1>1, <1>7, <1>8 DEF FollowInv
<1> QED
  BY <1>5, <1>9

(***************************************************************************)
(* open() or close() ends, with every sink visited or with an error.       *)
(***************************************************************************)
LEMMA FollowEnd ==
  ASSUME TypeOK, VisitInv, FollowInv, OpenFails \/ OpenEnd \/ CloseEnd
  PROVE  VisitInv' /\ FollowInv'
<1>1. /\ todo' = <<>>
      /\ UNCHANGED <<opened, tracks, manager, saw, sinkOpen, crossed>>
      /\ \/ pipeline = "opening" /\ pipeline' = "failed"
         \/ pipeline = "opening" /\ todo = <<>> /\ pipeline' = "ready"
         \/ pipeline = "closing" /\ todo = <<>> /\ pipeline' = "idle"
  BY DEF OpenFails, OpenEnd, CloseEnd, GiveUpOpening, registry, managerVars
<1>2. \A s \in Sinks : ~InTodo(s)'
  BY <1>1 DEF InTodo
<1>3. VisitInv'
  BY <1>1, <1>2 DEF VisitInv, AtRest
<1>4. ASSUME NEW s \in Sinks, s \notin crossed' PROVE Follows(s)'
  <2>1. Follows(s)
    BY <1>1, <1>4 DEF FollowInv
  <2>2. todo = <<>> => ~InTodo(s)
    BY DEF InTodo
  <2> QED
    BY <1>1, <2>1, <2>2 DEF Follows
<1>5. FollowInv'
  <2>1. \A s \in Sinks : manager'[s] \in {"new", "adding", "rejected"} => sinkOpen'[s] = 0
    BY <1>1 DEF FollowInv
  <2>2. opened' <=> pipeline' \in {"opening", "ready", "failed"}
    BY <1>1 DEF FollowInv
  <2> QED
    BY <1>1, <1>4, <2>1, <2>2 DEF FollowInv
<1> QED
  BY <1>3, <1>5

(***************************************************************************)
(* A manager works on its sink, beside anything the pipeline does.         *)
(***************************************************************************)
LEMMA FollowManager ==
  ASSUME TypeOK, HandlesAreGood, VisitInv, FollowInv, NEW t \in Sinks, Manager(t)
  PROVE  VisitInv' /\ FollowInv'
<1>1. UNCHANGED <<pipeline, todo, opened, tracks>>
  BY DEF Manager, AddCheck, AddOpen, AddFails, AddPush, RemoveErase, RemoveClose, LetGo,
         pipelineVars, registry
<1>2. \A s \in Sinks : InTodo(s)' <=> InTodo(s)
  BY <1>1 DEF InTodo
<1>3. \A s \in Sinks \ {t} : /\ manager'[s] = manager[s]
                             /\ saw'[s] = saw[s]
                             /\ sinkOpen'[s] = sinkOpen[s]
                             /\ (s \in crossed') <=> (s \in crossed)
  BY DEF Manager, AddCheck, AddOpen, AddFails, AddPush, RemoveErase, RemoveClose, LetGo,
         Closed, CrossedByOpen, managerVars, TypeOK
<1>4. crossed \subseteq crossed'
  BY DEF Manager, AddCheck, AddOpen, AddFails, AddPush, RemoveErase, RemoveClose, LetGo,
         managerVars
<1> DEFINE Of(s) == /\ InTodo(s) => manager[s] \in {"added", "removing", "removed"}
                    /\ s \notin crossed /\ pipeline = "opening" /\ InTodo(s)
                         => manager[s] = "added"
                    /\ manager[s] \in {"new", "adding", "rejected"} => sinkOpen[s] = 0
                    /\ s \notin crossed => Follows(s)
<1>5. \A s \in Sinks : Of(s)
  BY DEF VisitInv, FollowInv
<1>6. ASSUME NEW s \in Sinks \ {t} PROVE Of(s)'
  BY <1>1, <1>2, <1>3, <1>5 DEF Follows
<1>7. Of(t)'
  <2>0. Of(t) /\ (InTodo(t)' <=> InTodo(t)) /\ ((t \notin crossed') => t \notin crossed)
    BY <1>2, <1>4, <1>5
  <2>1. CASE AddCheck(t)
    <3>1. /\ manager[t] = "new" /\ manager'[t] = "adding" /\ sinkOpen' = sinkOpen
          /\ saw'[t] = TracksIfOpen
      BY <2>1 DEF AddCheck, TypeOK
    <3>2. /\ ~opened => saw'[t] = 0
          /\ pipeline \in {"opening", "ready"} => saw'[t] = tracks
      BY <3>1 DEF FollowInv, TracksIfOpen
    <3>3. ~InTodo(t) /\ sinkOpen'[t] = 0
      BY <2>0, <3>1
    <3> QED
      BY <1>1, <2>0, <3>1, <3>2, <3>3 DEF Follows
  <2>2. CASE AddOpen(t)
    <3>1. /\ manager[t] = "adding" /\ saw[t] # 0 /\ manager'[t] = "opened"
          /\ sinkOpen'[t] = saw[t] /\ saw' = saw
      BY <2>2 DEF AddOpen, TypeOK
    <3>2. ~InTodo(t)
      BY <2>0, <3>1
    <3>3. t \notin crossed => opened /\ (pipeline \in {"opening", "ready"} => saw[t] = tracks)
      BY <2>0, <3>1 DEF Follows
    <3>4. opened => pipeline \in {"opening", "ready", "failed"}
      BY DEF FollowInv
    <3> QED
      BY <1>1, <2>0, <3>1, <3>2, <3>3, <3>4 DEF Follows
  <2>3. CASE AddFails(t)
    <3>1. /\ manager[t] = "adding" /\ manager'[t] = "rejected" /\ sinkOpen' = sinkOpen
      BY <2>3 DEF AddFails, TypeOK
    <3>2. ~InTodo(t) /\ sinkOpen'[t] = 0
      BY <2>0, <3>1
    <3> QED
      BY <1>1, <2>0, <3>1, <3>2 DEF Follows
  <2>4. CASE AddPush(t)
    <3>1. /\ manager[t] = "opened" \/ (manager[t] = "adding" /\ saw[t] = 0)
          /\ manager'[t] = "added" /\ sinkOpen' = sinkOpen
      BY <2>4 DEF AddPush, TypeOK
    <3>2. /\ opened => tracks # 0
          /\ opened <=> pipeline \in {"opening", "ready", "failed"}
      BY DEF FollowInv
    <3>3. t \notin crossed /\ pipeline \in {"opening", "ready"} => sinkOpen[t] = tracks
      BY <2>0, <3>1, <3>2 DEF Follows
    <3>4. t \notin crossed /\ pipeline \in {"idle", "closing"} => sinkOpen[t] = 0
      BY <2>0, <3>1, <3>2 DEF Follows
    <3> QED
      BY <1>1, <2>0, <3>1, <3>2, <3>3, <3>4 DEF Follows
  <2>5. CASE RemoveErase(t)
    <3>1. /\ manager[t] = "added" /\ manager'[t] = "removing" /\ sinkOpen' = sinkOpen
          /\ crossed' = crossed \cup CrossedByOpen(t)
      BY <2>5 DEF RemoveErase, TypeOK
    <3>2. pipeline = "opening" /\ InTodo(t) => t \in crossed'
      BY <3>1 DEF CrossedByOpen
    <3> QED
      BY <1>1, <2>0, <3>1, <3>2 DEF Follows
  <2>6. CASE RemoveClose(t)
    <3>1. /\ manager[t] = "removing" /\ manager'[t] = "removed" /\ sinkOpen'[t] = 0
      BY <2>6 DEF RemoveClose, Closed, TypeOK
    <3> QED
      BY <1>1, <2>0, <3>1 DEF Follows
  <2>7. CASE LetGo(t)
    <3>1. UNCHANGED <<manager, saw, sinkOpen, crossed>>
      BY <2>7 DEF LetGo, managerVars
    <3> QED
      BY <1>1, <2>0, <3>1 DEF Follows
  <2> QED
    BY <2>1, <2>2, <2>3, <2>4, <2>5, <2>6, <2>7 DEF Manager
<1>8. \A s \in Sinks : Of(s)'
  BY <1>6, <1>7
<1>9. /\ (AtRest') => todo' = <<>>
      /\ opened' <=> pipeline' \in {"opening", "ready", "failed"}
      /\ opened' => tracks' # 0
  BY <1>1 DEF VisitInv, FollowInv, AtRest
<1> QED
  BY <1>8, <1>9 DEF VisitInv, FollowInv

LEMMA FollowNext ==
  ASSUME TypeOK, HandlesAreGood, VisitInv, FollowInv, [Next]_vars
  PROVE  VisitInv' /\ FollowInv'
<1>1. CASE Source \/ UNCHANGED vars
  <2>1. UNCHANGED <<opened, tracks, pipeline, todo, manager, saw, crossed, sinkOpen>>
    BY <1>1 DEF Source, SendBegin, SendNext, vars, registry, pipelineVars, managerVars
  <2> QED
    BY <2>1 DEF VisitInv, FollowInv, Follows, InTodo, AtRest
<1>2. CASE Pipeline
  BY <1>2, FollowBegin, FollowVisit, FollowEnd DEF Pipeline
<1> QED
  BY <1>1, <1>2, FollowManager DEF Next

(***************************************************************************)
(* With any overlap of the calls, failing sinks and any number of sinks:   *)
(* a sink whose add_sink() and remove_sink() no open() or close() crossed  *)
(* (multi_sink.cpp:111, 126) is open while it is registered and the        *)
(* MultiSink is open, and is left open neither by close(), which goes      *)
(* through a snapshot outside the lock (multi_sink.cpp:66-77), nor by its  *)
(* removal.                                                                *)
(***************************************************************************)
THEOREM SinksStayInStep == Spec => []SinksFollow
<1>1. Init => VisitInv /\ FollowInv
  BY DEF Init, VisitInv, FollowInv, Follows, AtRest, InTodo
<1>2. TypeOK /\ HandlesAreGood /\ VisitInv /\ FollowInv /\ [Next]_vars
        => VisitInv' /\ FollowInv'
  BY FollowNext
<1>3. HandlesAreGood /\ FollowInv => SinksFollow
  BY AddedIsRegistered DEF FollowInv, Follows, SinksFollow, Managing
<1> QED
  BY <1>1, <1>2, <1>3, HandlesCorrect, PTL DEF Spec
=============================================================================
