-------------------------- MODULE RtspClient_proofs ---------------------------
(***************************************************************************)
(* Proofs about RtspClient: calls and receive loop share a socket and a     *)
(* buffer, and each call is given its own answer, until one has been given  *)
(* up too early, and the receivers the frames, whole and in their order,    *)
(* until a read is lost or overtaken, for any servers and any number of     *)
(* connections, calls and faults.                                           *)
(*                                                                         *)
(* The facts about sequences are those of RtpReceiver_proofs.               *)
(***************************************************************************)
EXTENDS RtspClient, RtpReceiver_proofs

LEMMA BehindSequence ==
  ASSUME NEW s, NEW n \in Nat, IsSequence(s)
  PROVE  /\ IsSequence(Behind(s, n))
         /\ n <= Len(s) => Len(Behind(s, n)) = Len(s) - n
         /\ n > Len(s) => Len(Behind(s, n)) = 0
         /\ \A i \in 1 .. Len(Behind(s, n)) : /\ n + i \in 1 .. Len(s)
                                              /\ Behind(s, n)[i] = s[n + i]
<1>1. PICK S : s \in Seq(S)
  BY DEF IsSequence
<1>2. Len(s) \in Nat
  BY <1>1
<1>3. CASE n <= Len(s)
  <2>1. /\ IsSequence(Behind(s, n)) /\ Len(Behind(s, n)) = Len(s) - n
        /\ \A i \in 1 .. Len(s) - n : Behind(s, n)[i] = s[n + i]
    BY <1>2, <1>3, PieceOfSequence DEF Behind
  <2> QED BY <1>2, <1>3, <2>1
<1>4. CASE n > Len(s)
  <2>1. Behind(s, n) = <<>>
    BY <1>1, <1>2, <1>4 DEF Behind
  <2> QED BY <1>2, <1>4, <2>1, EmptySequence
<1> QED BY <1>2, <1>3, <1>4

-----------------------------------------------------------------------------
(* RtspClient: the reads on the socket. *)

\* rs are the reads begun and rd those completed: each is of somebody else, and
\* one that fails brings nothing.
Entries(rs, rd) ==
  /\ IsSequence(rs) /\ IsSequence(rd)
  /\ \A i, j \in 1 .. Len(rs) : rs[i] = rs[j] => i = j
  /\ \A i, j \in 1 .. Len(rd) : rd[i].who = rd[j].who => i = j
  /\ \A i \in 1 .. Len(rs) : \A j \in 1 .. Len(rd) : rs[i] # rd[j].who
  /\ \A i \in 1 .. Len(rd) : /\ IsSequence(rd[i].data)
                             /\ rd[i].how # "data" => rd[i].data = <<>>

\* The coroutines that wait for one.
Waiting(rs, rd) == {rs[i] : i \in 1 .. Len(rs)} \union {rd[i].who : i \in 1 .. Len(rd)}

LEMMA NothingRead == Entries(<<>>, <<>>) /\ Waiting(<<>>, <<>>) = {}
BY EmptySequence DEF Entries, Waiting

LEMMA ReadBegun ==
  ASSUME NEW rs, NEW rd, Entries(rs, rd), NEW w, w \notin Waiting(rs, rd)
  PROVE  /\ Entries(Append(rs, w), rd)
         /\ Waiting(Append(rs, w), rd) = Waiting(rs, rd) \union {w}
<1> DEFINE all == Append(rs, w)
<1>1. /\ IsSequence(all) /\ Len(all) = Len(rs) + 1 /\ Len(rs) \in Nat
      /\ \A i \in 1 .. Len(rs) : all[i] = rs[i]
      /\ all[Len(rs) + 1] = w
  BY AppendedSequence, SequenceLength DEF Entries
<1> HIDE DEF all
<1>2. \A i \in 1 .. Len(all) : i \in 1 .. Len(rs) \/ i = Len(rs) + 1
  BY <1>1
<1>3. \A i \in 1 .. Len(rs) : rs[i] # w
  BY DEF Waiting
<1>4. \A i, j \in 1 .. Len(all) : all[i] = all[j] => i = j
  BY <1>1, <1>2, <1>3 DEF Entries
<1>5. \A i \in 1 .. Len(all) : \A j \in 1 .. Len(rd) : all[i] # rd[j].who
  BY <1>1, <1>2 DEF Entries, Waiting
<1>6. {all[i] : i \in 1 .. Len(all)} = {rs[i] : i \in 1 .. Len(rs)} \union {w}
  <2>1. Len(rs) + 1 \in 1 .. Len(all) /\ \A i \in 1 .. Len(rs) : i \in 1 .. Len(all)
    BY <1>1
  <2> QED BY <1>1, <1>2, <2>1
<1>7. Entries(all, rd)
  BY <1>1, <1>4, <1>5 DEF Entries
<1>8. Waiting(all, rd) = Waiting(rs, rd) \union {w}
  BY <1>6 DEF Waiting
<1> QED BY <1>7, <1>8 DEF all

LEMMA EntryAppended ==
  ASSUME NEW rs, NEW rd, Entries(rs, rd), NEW e, e.who \notin Waiting(rs, rd),
         IsSequence(e.data), e.how # "data" => e.data = <<>>
  PROVE  /\ Entries(rs, Append(rd, e))
         /\ Waiting(rs, Append(rd, e)) = Waiting(rs, rd) \union {e.who}
<1> DEFINE all == Append(rd, e)
<1>1. /\ IsSequence(all) /\ Len(all) = Len(rd) + 1 /\ Len(rd) \in Nat
      /\ \A i \in 1 .. Len(rd) : all[i] = rd[i]
      /\ all[Len(rd) + 1] = e
  BY AppendedSequence, SequenceLength DEF Entries
<1> HIDE DEF all
<1>2. \A i \in 1 .. Len(all) : i \in 1 .. Len(rd) \/ i = Len(rd) + 1
  BY <1>1
<1>3. /\ \A i \in 1 .. Len(rd) : rd[i].who # e.who
      /\ \A i \in 1 .. Len(rs) : rs[i] # e.who
  BY DEF Waiting
<1>4. \A i, j \in 1 .. Len(all) : all[i].who = all[j].who => i = j
  BY <1>1, <1>2, <1>3 DEF Entries
<1>5. \A i \in 1 .. Len(rs) : \A j \in 1 .. Len(all) : rs[i] # all[j].who
  BY <1>1, <1>2, <1>3 DEF Entries
<1>6. \A i \in 1 .. Len(all) : /\ IsSequence(all[i].data)
                               /\ all[i].how # "data" => all[i].data = <<>>
  BY <1>1, <1>2 DEF Entries
<1>7. {all[i].who : i \in 1 .. Len(all)} = {rd[i].who : i \in 1 .. Len(rd)} \union {e.who}
  <2>1. Len(rd) + 1 \in 1 .. Len(all) /\ \A i \in 1 .. Len(rd) : i \in 1 .. Len(all)
    BY <1>1
  <2> QED BY <1>1, <1>2, <2>1
<1>8. Entries(rs, all)
  BY <1>1, <1>4, <1>5, <1>6 DEF Entries
<1>9. Waiting(rs, all) = Waiting(rs, rd) \union {e.who}
  BY <1>7 DEF Waiting
<1> QED BY <1>8, <1>9 DEF all

LEMMA ReadCompleted ==
  ASSUME NEW rs, NEW rd, Entries(rs, rd), rs # <<>>,
         NEW how, NEW data, IsSequence(data), how # "data" => data = <<>>
  PROVE  LET all == Append(rd, [who |-> rs[1], how |-> how, data |-> data])
         IN  Entries(Tail(rs), all) /\ Waiting(Tail(rs), all) = Waiting(rs, rd)
<1> DEFINE e == [who |-> rs[1], how |-> how, data |-> data]
           all == Append(rd, e)
           rest == Tail(rs)
<1>1. /\ IsSequence(all) /\ Len(all) = Len(rd) + 1 /\ Len(rd) \in Nat
      /\ \A i \in 1 .. Len(rd) : all[i] = rd[i]
      /\ all[Len(rd) + 1] = e
  BY AppendedSequence, SequenceLength DEF Entries
<1>2. /\ IsSequence(rest) /\ Len(rest) = Len(rs) - 1 /\ Len(rs) \in Nat /\ Len(rs) > 0
      /\ \A i \in 1 .. Len(rest) : i + 1 \in 1 .. Len(rs) /\ rest[i] = rs[i + 1]
  BY TailOfSequence, SequenceLength DEF Entries
<1>3. e.who = rs[1] /\ e.how = how /\ e.data = data
  OBVIOUS
<1> HIDE DEF all, e, rest
<1>4. \A i \in 1 .. Len(all) : i \in 1 .. Len(rd) \/ i = Len(rd) + 1
  BY <1>1
<1>5. 1 \in 1 .. Len(rs) /\ \A i \in 1 .. Len(rs) : i = 1 \/ (i - 1 \in 1 .. Len(rest) /\ i - 1 + 1 = i)
  BY <1>2
<1>6. \A i, j \in 1 .. Len(rest) : rest[i] = rest[j] => i = j
  <2> SUFFICES ASSUME NEW i \in 1 .. Len(rest), NEW j \in 1 .. Len(rest), rest[i] = rest[j]
               PROVE  i = j
    OBVIOUS
  <2>1. i + 1 \in 1 .. Len(rs) /\ j + 1 \in 1 .. Len(rs) /\ rs[i + 1] = rs[j + 1]
    BY <1>2
  <2>2. i + 1 = j + 1
    BY <2>1 DEF Entries
  <2> QED BY <1>2, <2>2
<1>7. \A i, j \in 1 .. Len(all) : all[i].who = all[j].who => i = j
  <2> SUFFICES ASSUME NEW i \in 1 .. Len(all), NEW j \in 1 .. Len(all), all[i].who = all[j].who
               PROVE  i = j
    OBVIOUS
  <2>1. CASE i \in 1 .. Len(rd) /\ j \in 1 .. Len(rd)
    BY <1>1, <2>1 DEF Entries
  <2>2. \A k \in 1 .. Len(rd) : rd[k].who # e.who
    BY <1>3, <1>5 DEF Entries
  <2> QED BY <1>1, <1>4, <2>1, <2>2
<1>8. \A i \in 1 .. Len(rest) : \A j \in 1 .. Len(all) : rest[i] # all[j].who
  <2> TAKE i \in 1 .. Len(rest)
  <2> TAKE j \in 1 .. Len(all)
  <2>1. i + 1 \in 1 .. Len(rs) /\ rest[i] = rs[i + 1] /\ i + 1 # 1
    BY <1>2
  <2>2. CASE j \in 1 .. Len(rd)
    BY <1>1, <2>1, <2>2 DEF Entries
  <2>3. CASE j = Len(rd) + 1
    <3>1. all[j].who = rs[1]
      BY <1>1, <1>3, <2>3
    <3> QED BY <1>5, <2>1, <3>1 DEF Entries
  <2> QED BY <1>4, <2>2, <2>3
<1>9. \A i \in 1 .. Len(all) : /\ IsSequence(all[i].data)
                               /\ all[i].how # "data" => all[i].data = <<>>
  BY <1>1, <1>3, <1>4 DEF Entries
<1>10. Entries(rest, all)
  BY <1>1, <1>2, <1>6, <1>7, <1>8, <1>9 DEF Entries
<1>11. Waiting(rest, all) \subseteq Waiting(rs, rd)
  <2>1. \A i \in 1 .. Len(rest) : rest[i] \in Waiting(rs, rd)
    BY <1>2 DEF Waiting
  <2>2. \A i \in 1 .. Len(all) : all[i].who \in Waiting(rs, rd)
    BY <1>1, <1>3, <1>4, <1>5 DEF Waiting
  <2> QED BY <2>1, <2>2 DEF Waiting
<1>12. Waiting(rs, rd) \subseteq Waiting(rest, all)
  <2>1. Len(rd) + 1 \in 1 .. Len(all) /\ \A i \in 1 .. Len(rd) : i \in 1 .. Len(all)
    BY <1>1
  <2>2. \A i \in 1 .. Len(rd) : rd[i].who \in Waiting(rest, all)
    BY <1>1, <2>1 DEF Waiting
  <2>3. rs[1] \in Waiting(rest, all)
    BY <1>1, <1>3, <2>1 DEF Waiting
  <2>4. ASSUME NEW i \in 1 .. Len(rs), i # 1 PROVE rs[i] \in Waiting(rest, all)
    <3>1. i - 1 \in 1 .. Len(rest) /\ i - 1 + 1 = i
      BY <1>5, <2>4
    <3>2. rest[i - 1] = rs[i]
      BY <1>2, <3>1
    <3> QED BY <3>1, <3>2 DEF Waiting
  <2> QED BY <2>2, <2>3, <2>4 DEF Waiting
<1> QED BY <1>10, <1>11, <1>12 DEF all, e, rest

LEMMA AbortedAre ==
  ASSUME NEW rs, IsSequence(rs)
  PROVE  /\ IsSequence(Aborted(rs)) /\ Len(Aborted(rs)) = Len(rs)
         /\ \A i \in 1 .. Len(rs) : /\ Aborted(rs)[i].who = rs[i]
                                    /\ Aborted(rs)[i].how = "aborted"
                                    /\ Aborted(rs)[i].data = <<>>
<1>1. Len(rs) \in Nat /\ DOMAIN rs = 1 .. Len(rs)
  BY SequenceLength
<1> DEFINE e(i) == AbortedRead(rs[i])
           S == {e(i) : i \in 1 .. Len(rs)}
<1>2. Aborted(rs) = [i \in 1 .. Len(rs) |-> e(i)]
  BY <1>1 DEF Aborted
<1>3. Aborted(rs) \in Seq(S) /\ Len(Aborted(rs)) = Len(rs)
  BY <1>1, <1>2
<1>4. \A i \in 1 .. Len(rs) : Aborted(rs)[i] = e(i)
  BY <1>2
<1>5. \A i \in 1 .. Len(rs) : e(i).who = rs[i] /\ e(i).how = "aborted" /\ e(i).data = <<>>
  BY DEF AbortedRead
<1> HIDE DEF e
<1>6. IsSequence(Aborted(rs))
  BY <1>3 DEF IsSequence
<1> QED BY <1>3, <1>4, <1>5, <1>6

LEMMA ReadsCancelled ==
  ASSUME NEW rs, NEW rd, Entries(rs, rd)
  PROVE  /\ Entries(<<>>, rd \o Aborted(rs))
         /\ Waiting(<<>>, rd \o Aborted(rs)) = Waiting(rs, rd)
<1> DEFINE t == Aborted(rs)
           all == rd \o t
<1>1. /\ IsSequence(t) /\ Len(t) = Len(rs)
      /\ \A i \in 1 .. Len(rs) : t[i].who = rs[i] /\ t[i].how = "aborted" /\ t[i].data = <<>>
  BY AbortedAre DEF Entries
<1>2. IsSequence(rs) /\ IsSequence(rd) /\ Len(rs) \in Nat /\ Len(rd) \in Nat
  BY SequenceLength DEF Entries
<1> HIDE DEF t
<1>3. /\ IsSequence(all) /\ Len(all) = Len(rd) + Len(t)
      /\ \A i \in 1 .. Len(rd) : all[i] = rd[i]
      /\ \A i \in 1 .. Len(t) : all[Len(rd) + i] = t[i]
      /\ \A i \in 1 .. Len(all) :
           i \in 1 .. Len(rd) \/ \E j \in 1 .. Len(t) : i = Len(rd) + j
  <2>1. IsSequence(rd) /\ IsSequence(t)
    BY <1>1, <1>2
  <2>2. IsSequence(all) /\ Len(all) = Len(rd) + Len(t)
    BY <2>1, JoinedSequence
  <2>3. \A i \in 1 .. Len(rd) : all[i] = rd[i]
    BY <2>1, JoinedSequence
  <2>4. \A i \in 1 .. Len(t) : all[Len(rd) + i] = t[i]
    BY <2>1, JoinedSequence
  <2>5. \A i \in 1 .. Len(all) : i \in 1 .. Len(rd) \/ \E j \in 1 .. Len(t) : i = Len(rd) + j
    BY <2>1, JoinedSequence
  <2> QED BY <2>2, <2>3, <2>4, <2>5
<1> HIDE DEF all
<1>4. ASSUME NEW j \in 1 .. Len(rs)
      PROVE  all[Len(rd) + j].who = rs[j] /\ all[Len(rd) + j].data = <<>>
  <2>1. all[Len(rd) + j] = t[j]
    BY <1>1, <1>3
  <2> QED BY <1>1, <2>1
<1>5. ASSUME NEW i \in 1 .. Len(all), i \notin 1 .. Len(rd)
      PROVE  \E j \in 1 .. Len(rs) : i = Len(rd) + j
  BY <1>1, <1>3, <1>5
<1>6. \A i, j \in 1 .. Len(all) : all[i].who = all[j].who => i = j
  <2> SUFFICES ASSUME NEW i \in 1 .. Len(all), NEW j \in 1 .. Len(all), all[i].who = all[j].who
               PROVE  i = j
    OBVIOUS
  <2>1. CASE i \in 1 .. Len(rd) /\ j \in 1 .. Len(rd)
    BY <1>3, <2>1 DEF Entries
  <2>2. CASE i \notin 1 .. Len(rd) /\ j \notin 1 .. Len(rd)
    <3>1. PICK k \in 1 .. Len(rs) : i = Len(rd) + k
      BY <1>5, <2>2
    <3>2. PICK m \in 1 .. Len(rs) : j = Len(rd) + m
      BY <1>5, <2>2
    <3>3. rs[k] = rs[m]
      BY <1>4, <3>1, <3>2
    <3> QED BY <3>1, <3>2, <3>3 DEF Entries
  <2>3. CASE i \in 1 .. Len(rd) /\ j \notin 1 .. Len(rd)
    <3>1. PICK m \in 1 .. Len(rs) : j = Len(rd) + m
      BY <1>5, <2>3
    <3>2. rd[i].who = rs[m]
      BY <1>3, <1>4, <2>3, <3>1
    <3> QED BY <2>3, <3>2 DEF Entries
  <2>4. CASE i \notin 1 .. Len(rd) /\ j \in 1 .. Len(rd)
    <3>1. PICK m \in 1 .. Len(rs) : i = Len(rd) + m
      BY <1>5, <2>4
    <3>2. rd[j].who = rs[m]
      BY <1>3, <1>4, <2>4, <3>1
    <3> QED BY <2>4, <3>2 DEF Entries
  <2> QED BY <2>1, <2>2, <2>3, <2>4
<1>7. ASSUME NEW i \in 1 .. Len(all)
      PROVE  /\ IsSequence(all[i].data) /\ (all[i].how # "data" => all[i].data = <<>>)
             /\ all[i].who \in Waiting(rs, rd)
  <2>1. CASE i \in 1 .. Len(rd)
    BY <1>3, <2>1 DEF Entries, Waiting
  <2>2. CASE i \notin 1 .. Len(rd)
    <3>1. PICK m \in 1 .. Len(rs) : i = Len(rd) + m
      BY <1>5, <2>2
    <3>2. all[i].data = <<>> /\ all[i].who = rs[m]
      BY <1>4, <3>1
    <3> QED BY <3>2, EmptySequence DEF Waiting
  <2> QED BY <2>1, <2>2
<1>8. Entries(<<>>, all)
  BY <1>3, <1>6, <1>7, EmptySequence DEF Entries
<1>9. Waiting(<<>>, all) = {all[i].who : i \in 1 .. Len(all)}
  BY EmptySequence DEF Waiting
<1>10. \A i \in 1 .. Len(rd) : i \in 1 .. Len(all) /\ rd[i].who = all[i].who
  BY <1>1, <1>2, <1>3
<1>11. \A i \in 1 .. Len(rs) : Len(rd) + i \in 1 .. Len(all) /\ rs[i] = all[Len(rd) + i].who
  BY <1>1, <1>2, <1>3, <1>4
<1>12. Waiting(rs, rd) \subseteq Waiting(<<>>, all)
  <2>1. \A i \in 1 .. Len(rd) : rd[i].who \in Waiting(<<>>, all)
    BY <1>9, <1>10
  <2>2. \A i \in 1 .. Len(rs) : rs[i] \in Waiting(<<>>, all)
    BY <1>9, <1>11
  <2> QED BY <2>1, <2>2 DEF Waiting
<1>13. Waiting(<<>>, all) \subseteq Waiting(rs, rd)
  BY <1>7, <1>9
<1> QED BY <1>8, <1>12, <1>13 DEF all, t

LEMMA ReadTaken ==
  ASSUME NEW rs, NEW rd, Entries(rs, rd), rd # <<>>
  PROVE  /\ Entries(rs, Tail(rd))
         /\ Head(rd).who \in Waiting(rs, rd)
         /\ Waiting(rs, Tail(rd)) = Waiting(rs, rd) \ {Head(rd).who}
         /\ IsSequence(Head(rd).data)
         /\ Head(rd).how # "data" => Head(rd).data = <<>>
<1> DEFINE rest == Tail(rd)
<1>1. /\ IsSequence(rest) /\ Len(rest) = Len(rd) - 1 /\ Len(rd) \in Nat /\ Len(rd) > 0
      /\ Head(rd) = rd[1]
      /\ \A i \in 1 .. Len(rest) : i + 1 \in 1 .. Len(rd) /\ rest[i] = rd[i + 1]
  BY TailOfSequence, SequenceLength DEF Entries
<1> HIDE DEF rest
<1>2. 1 \in 1 .. Len(rd) /\ \A i \in 1 .. Len(rd) : i = 1 \/ (i - 1 \in 1 .. Len(rest) /\ i - 1 + 1 = i)
  BY <1>1
<1>3. \A i, j \in 1 .. Len(rest) : rest[i].who = rest[j].who => i = j
  <2> SUFFICES ASSUME NEW i \in 1 .. Len(rest), NEW j \in 1 .. Len(rest), rest[i].who = rest[j].who
               PROVE  i = j
    OBVIOUS
  <2>1. i + 1 \in 1 .. Len(rd) /\ j + 1 \in 1 .. Len(rd) /\ rd[i + 1].who = rd[j + 1].who
    BY <1>1
  <2>2. i + 1 = j + 1
    BY <2>1 DEF Entries
  <2> QED BY <1>1, <2>2
<1>4. Entries(rs, rest)
  <2>1. \A i \in 1 .. Len(rs) : \A j \in 1 .. Len(rest) : rs[i] # rest[j].who
    BY <1>1 DEF Entries
  <2>2. \A i \in 1 .. Len(rest) : /\ IsSequence(rest[i].data)
                                  /\ rest[i].how # "data" => rest[i].data = <<>>
    BY <1>1 DEF Entries
  <2> QED BY <1>1, <1>3, <2>1, <2>2 DEF Entries
<1>5. \A i \in 1 .. Len(rest) : i + 1 # 1
  BY <1>1
<1>6. \A i \in 1 .. Len(rest) : rest[i].who # rd[1].who
  BY <1>1, <1>2, <1>5 DEF Entries
<1>7. Waiting(rs, rest) \subseteq Waiting(rs, rd) \ {rd[1].who}
  <2>1. \A i \in 1 .. Len(rs) : rs[i] \in Waiting(rs, rd) /\ rs[i] # rd[1].who
    BY <1>2 DEF Entries, Waiting
  <2>2. \A i \in 1 .. Len(rest) : rest[i].who \in Waiting(rs, rd) /\ rest[i].who # rd[1].who
    BY <1>1, <1>6 DEF Waiting
  <2> QED BY <2>1, <2>2 DEF Waiting
<1>8. Waiting(rs, rd) \ {rd[1].who} \subseteq Waiting(rs, rest)
  <2>1. ASSUME NEW i \in 1 .. Len(rd), i # 1 PROVE rd[i].who \in Waiting(rs, rest)
    <3>1. i - 1 \in 1 .. Len(rest) /\ i - 1 + 1 = i
      BY <1>2, <2>1
    <3>2. rest[i - 1] = rd[i]
      BY <1>1, <3>1
    <3> QED BY <3>1, <3>2 DEF Waiting
  <2>2. \A i \in 1 .. Len(rs) : rs[i] \in Waiting(rs, rest)
    BY DEF Waiting
  <2> QED BY <2>1, <2>2 DEF Waiting
<1>9. rd[1].who \in Waiting(rs, rd)
  BY <1>2 DEF Waiting
<1>10. IsSequence(rd[1].data) /\ (rd[1].how # "data" => rd[1].data = <<>>)
  BY <1>2 DEF Entries
<1> QED BY <1>1, <1>4, <1>7, <1>8, <1>9, <1>10 DEF rest

\* t has the elements of s but those at mine, each once.
Without(s, mine, t) ==
  /\ IsSequence(t)
  /\ \E f \in [1 .. Len(t) -> 1 .. Len(s)] :
       /\ \A j \in DOMAIN f : f[j] \notin mine /\ t[j] = s[f[j]]
       /\ \A j, k \in DOMAIN f : f[j] = f[k] => j = k
       /\ \A i \in 1 .. Len(s) : i \notin mine => \E j \in DOMAIN f : f[j] = i

LEMMA GivenUpOne ==
  ASSUME NEW s, IsSequence(s), NEW mine, mine \subseteq 1 .. Len(s),
         \A i, j \in mine : i = j
  PROVE  Without(s, mine, GivenUp(s, mine))
<1>1. Len(s) \in Nat
  BY SequenceLength
<1>2. CASE mine = {}
  <2>1. GivenUp(s, mine) = s
    BY <1>2 DEF GivenUp
  <2> DEFINE f == [j \in 1 .. Len(s) |-> j]
  <2>2. /\ f \in [1 .. Len(s) -> 1 .. Len(s)]
        /\ \A j \in 1 .. Len(s) : f[j] = j
    OBVIOUS
  <2>3. DOMAIN f = 1 .. Len(s)
    OBVIOUS
  <2> HIDE DEF f
  <2>4. Without(s, {}, s)
    BY <2>2, <2>3 DEF Without
  <2> QED BY <1>2, <2>1, <2>4
<1>3. CASE mine # {}
  <2> DEFINE i0 == CHOOSE i \in mine : TRUE
             t == GivenUp(s, mine)
             f == [j \in 1 .. Len(s) - 1 |-> IF j < i0 THEN j ELSE j + 1]
  <2>1. i0 \in mine /\ mine = {i0} /\ i0 \in 1 .. Len(s)
    BY <1>3
  <2>2. t = RemoveAt(s, i0)
    BY <1>3 DEF GivenUp
  <2> HIDE DEF i0, t
  <2>3. /\ IsSequence(t) /\ Len(t) = Len(s) - 1
        /\ \A j \in 1 .. Len(s) - 1 : t[j] = IF j < i0 THEN s[j] ELSE s[j + 1]
    BY <2>1, <2>2, RemovedFromSequence
  <2>4. /\ DOMAIN f = 1 .. Len(s) - 1
        /\ \A j \in 1 .. Len(s) - 1 : f[j] = IF j < i0 THEN j ELSE j + 1
    OBVIOUS
  <2> HIDE DEF f
  <2>5. \A j \in 1 .. Len(s) - 1 : f[j] \in 1 .. Len(s) /\ f[j] # i0 /\ t[j] = s[f[j]]
    BY <1>1, <2>1, <2>3, <2>4
  <2>6. f \in [1 .. Len(s) - 1 -> 1 .. Len(s)]
    <3>1. f = [j \in 1 .. Len(s) - 1 |-> f[j]]
      BY <2>4 DEF f
    <3> QED BY <2>5, <3>1
  <2>7. \A j, k \in 1 .. Len(s) - 1 : f[j] = f[k] => j = k
    BY <1>1, <2>1, <2>4
  <2>8. ASSUME NEW i \in 1 .. Len(s), i # i0 PROVE \E j \in 1 .. Len(s) - 1 : f[j] = i
    <3>1. CASE i < i0
      <4>1. i \in 1 .. Len(s) - 1 /\ f[i] = i
        BY <1>1, <2>1, <2>4, <3>1
      <4> QED BY <4>1
    <3>2. CASE ~(i < i0)
      <4>1. i - 1 \in 1 .. Len(s) - 1 /\ f[i - 1] = i
        BY <1>1, <2>1, <2>4, <2>8, <3>2
      <4> QED BY <4>1
    <3> QED BY <3>1, <3>2
  <2>9. \E g \in [1 .. Len(t) -> 1 .. Len(s)] :
              /\ \A j \in DOMAIN g : g[j] \notin mine /\ t[j] = s[g[j]]
              /\ \A j, k \in DOMAIN g : g[j] = g[k] => j = k
              /\ \A i \in 1 .. Len(s) : i \notin mine => \E j \in DOMAIN g : g[j] = i
    <3>1. f \in [1 .. Len(t) -> 1 .. Len(s)] /\ DOMAIN f = 1 .. Len(s) - 1
      BY <2>3, <2>4, <2>6
    <3>2. \A j \in DOMAIN f : f[j] \notin mine /\ t[j] = s[f[j]]
      BY <2>1, <2>5, <3>1
    <3>3. \A j, k \in DOMAIN f : f[j] = f[k] => j = k
      BY <2>7, <3>1
    <3>4. \A i \in 1 .. Len(s) : i \notin mine => \E j \in DOMAIN f : f[j] = i
      BY <2>1, <2>8, <3>1
    <3> QED BY <3>1, <3>2, <3>3, <3>4, Zenon
  <2> QED BY <2>3, <2>9 DEF t, Without
<1> QED BY <1>2, <1>3

\* Where somebody has a read.
BegunBy(w, rs)     == {i \in 1 .. Len(rs) : rs[i] = w}
CompletedBy(w, rd) == {i \in 1 .. Len(rd) : rd[i].who = w}

LEMMA ReadGivenUp ==
  ASSUME NEW rs, NEW rd, Entries(rs, rd), NEW w
  PROVE  LET rs2 == GivenUp(rs, BegunBy(w, rs))
             rd2 == GivenUp(rd, CompletedBy(w, rd))
         IN  Entries(rs2, rd2) /\ Waiting(rs2, rd2) = Waiting(rs, rd) \ {w}
<1> DEFINE ms == BegunBy(w, rs)
           md == CompletedBy(w, rd)
           rs2 == GivenUp(rs, ms)
           rd2 == GivenUp(rd, md)
<1>1. /\ DOMAIN rs = 1 .. Len(rs) /\ DOMAIN rd = 1 .. Len(rd)
      /\ IsSequence(rs) /\ IsSequence(rd)
  BY SequenceLength DEF Entries
<1>2. ms \subseteq 1 .. Len(rs) /\ \A i, j \in ms : i = j
  BY DEF Entries, BegunBy
<1>3. md \subseteq 1 .. Len(rd) /\ \A i, j \in md : i = j
  BY DEF Entries, CompletedBy
<1>4. \A i \in 1 .. Len(rs) : i \in ms <=> rs[i] = w
  BY DEF BegunBy
<1>5. \A i \in 1 .. Len(rd) : i \in md <=> rd[i].who = w
  BY DEF CompletedBy
<1> HIDE DEF ms, md
<1>6. Without(rs, ms, rs2)
  BY <1>1, <1>2, GivenUpOne
<1>7. Without(rd, md, rd2)
  BY <1>1, <1>3, GivenUpOne
<1> HIDE DEF rs2, rd2
<1>8. PICK f \in [1 .. Len(rs2) -> 1 .. Len(rs)] :
              /\ \A j \in DOMAIN f : f[j] \notin ms /\ rs2[j] = rs[f[j]]
              /\ \A j, k \in DOMAIN f : f[j] = f[k] => j = k
              /\ \A i \in 1 .. Len(rs) : i \notin ms => \E j \in DOMAIN f : f[j] = i
  BY <1>6 DEF Without
<1>9. PICK g \in [1 .. Len(rd2) -> 1 .. Len(rd)] :
              /\ \A j \in DOMAIN g : g[j] \notin md /\ rd2[j] = rd[g[j]]
              /\ \A j, k \in DOMAIN g : g[j] = g[k] => j = k
              /\ \A i \in 1 .. Len(rd) : i \notin md => \E j \in DOMAIN g : g[j] = i
  BY <1>7 DEF Without
<1>10. \A i \in 1 .. Len(rs2) : f[i] \in 1 .. Len(rs) /\ rs2[i] = rs[f[i]] /\ rs2[i] # w
  BY <1>4, <1>8
<1>11. \A i \in 1 .. Len(rd2) : g[i] \in 1 .. Len(rd) /\ rd2[i] = rd[g[i]] /\ rd2[i].who # w
  BY <1>5, <1>9
<1>12. \A i, j \in 1 .. Len(rs2) : rs2[i] = rs2[j] => i = j
  BY <1>8, <1>10 DEF Entries
<1>13. \A i, j \in 1 .. Len(rd2) : rd2[i].who = rd2[j].who => i = j
  BY <1>9, <1>11 DEF Entries
<1>14. \A i \in 1 .. Len(rs2) : \A j \in 1 .. Len(rd2) : rs2[i] # rd2[j].who
  BY <1>10, <1>11 DEF Entries
<1>15. \A i \in 1 .. Len(rd2) : /\ IsSequence(rd2[i].data)
                                /\ rd2[i].how # "data" => rd2[i].data = <<>>
  BY <1>11 DEF Entries
<1>16. Entries(rs2, rd2)
  BY <1>6, <1>7, <1>12, <1>13, <1>14, <1>15 DEF Entries, Without
<1>17. \A i \in 1 .. Len(rs2) : rs2[i] \in Waiting(rs, rd) \ {w}
  BY <1>10 DEF Waiting
<1>18. \A i \in 1 .. Len(rd2) : rd2[i].who \in Waiting(rs, rd) \ {w}
  BY <1>11 DEF Waiting
<1>19. ASSUME NEW i \in 1 .. Len(rs), rs[i] # w PROVE rs[i] \in Waiting(rs2, rd2)
  <2>1. PICK j \in 1 .. Len(rs2) : f[j] = i
    BY <1>4, <1>8, <1>19
  <2> QED BY <1>10, <2>1 DEF Waiting
<1>20. ASSUME NEW i \in 1 .. Len(rd), rd[i].who # w PROVE rd[i].who \in Waiting(rs2, rd2)
  <2>1. PICK j \in 1 .. Len(rd2) : g[j] = i
    BY <1>5, <1>9, <1>20
  <2> QED BY <1>11, <2>1 DEF Waiting
<1>21. Waiting(rs2, rd2) = Waiting(rs, rd) \ {w}
  BY <1>17, <1>18, <1>19, <1>20 DEF Waiting
<1> QED BY <1>16, <1>21 DEF rs2, rd2, ms, md

-----------------------------------------------------------------------------
(* RtspClient: whose turn it is. *)

\* No PLAY follows a PAUSE, nor a DESCRIBE a TEARDOWN.
PlaysOnce == "play_again" \notin Habits

LEMMA Actors ==
  Caller \notin Loops /\ Nobody \notin Loops /\ Caller # Nobody /\ Loops \subseteq Nat
BY ClientAssumption DEF Caller, Nobody, Loops

Running == {"top", "scan", "exit", "astray"}
OnItsWay(l) == loop[l] \in Running \union {"reading"}

\* A call that has sent its request is at one of these until it has an answer or
\* fails.
Expecting == {"scan", "reading", "joined", "late"}

CallShape ==
  /\ DOMAIN call = {"op", "at", "pc", "retried", "answer"}
  /\ call.op \in {"none", "describe", "setup", "play", "pause", "teardown", "close"}
  /\ call.pc \in {"none", "wait", "send", "answer", "failed"} \union Expecting
  /\ call.op = "none" <=> call.pc = "none"
  /\ call.pc = "wait" => call.op \in {"teardown", "close"}

LoopShape ==
  /\ loop \in [Loops -> {"none", "reading", "ended"} \union Running]
  /\ plays \in Nat /\ \A l \in Loops : l > plays => loop[l] = "none"
  /\ session \in 0 .. 5

\* A coroutine that is at work has the thread.
Turns ==
  /\ thread = Caller <=> call.pc \in {"send", "scan", "answer", "failed"}
  /\ thread \in {Caller, Nobody} \union Loops
  /\ thread \in Loops => loop[thread] \in Running
  /\ \A l \in Loops : loop[l] \in Running => thread = l

\* There is one receive loop at most, which m_receive_loop_active tells, and only
\* behind a PLAY.
OneLoop ==
  /\ active <=> \E l \in Loops : OnItsWay(l)
  /\ \A l, m \in Loops : OnItsWay(l) /\ OnItsWay(m) => l = m
  /\ active => session \in {kPlaying, kPaused}
  /\ session = kPlaying /\ active /\ call.op \in {"none", "pause"} => receiving

\* Which calls can meet a loop: PAUSE does, TEARDOWN and close() wait for its end.
CallFits ==
  /\ call.op \in {"describe", "setup", "play"} => session \in {kConnected, kDescribed, kReady}
  /\ call.op = "play" => plays < MaxPlays
  /\ call.op = "pause" => session = kPlaying
  /\ call.op = "teardown" /\ call.pc # "wait" => ~active
  /\ call.op = "close" => call.pc = "wait"

\* Who has a read on the socket waits for it; that of a call which its timer has
\* overtaken is cancelled.
Waits(w) == \/ w = Caller /\ call.pc \in {"reading", "joined", "late"}
            \/ w \in Loops /\ loop[w] = "reading"
ReadsFit ==
  /\ Entries(reads, ready) /\ \A w \in Waiting(reads, ready) : Waits(w)
  /\ call.pc = "late" => \A i \in 1 .. Len(reads) : reads[i] # Caller

\* While a call waits for its answer a loop stays on the connection, unless it is ending.
StaysOn ==
  call.pc \in Expecting =>
    \A l \in Loops : loop[l] \in {"top", "scan", "reading"} => IsConnected

ControlInv == CallShape /\ LoopShape /\ Turns /\ OneLoop /\ CallFits /\ ReadsFit /\ StaysOn

controlVars == <<session, receiving, active, connected, open, call, loop, thread, reads, ready, plays>>

LEMMA CallAtPc ==
  ASSUME CallShape, NEW v
  PROVE  LET c == [call EXCEPT !.pc = v]
         IN  /\ DOMAIN c = {"op", "at", "pc", "retried", "answer"}
             /\ c.op = call.op /\ c.pc = v /\ c.at = call.at
             /\ c.retried = call.retried /\ c.answer = call.answer
BY DEF CallShape, Expecting

LEMMA CallMade ==
  ASSUME NEW op, NEW pc
  PROVE  LET c == CallOf(op, pc)
         IN  /\ DOMAIN c = {"op", "at", "pc", "retried", "answer"}
             /\ c.op = op /\ c.pc = pc /\ c.at = 1
BY DEF CallOf, NoCall

LEMMA NoCallIs ==
  /\ DOMAIN NoCall = {"op", "at", "pc", "retried", "answer"}
  /\ NoCall.op = "none" /\ NoCall.pc = "none"
BY DEF NoCall

LEMMA NextRequestIs ==
  ASSUME NextRequest
  PROVE  /\ DOMAIN call' = {"op", "at", "pc", "retried", "answer"}
         /\ call'.op = call.op /\ call'.pc = "send"
<1> DEFINE c == CallOf(call.op, "send")
<1>1. DOMAIN c = {"op", "at", "pc", "retried", "answer"} /\ c.op = call.op /\ c.pc = "send"
  BY CallMade
<1>2. call' = [c EXCEPT !.at = call.at + 1]
  BY DEF NextRequest
<1> HIDE DEF c
<1> QED BY <1>1, <1>2

LEMMA ControlInit == ClientInit => ControlInv
<1> SUFFICES ASSUME ClientInit PROVE ControlInv
  OBVIOUS
<1>1. /\ session = 0 /\ receiving = FALSE /\ active = FALSE /\ call = NoCall
      /\ loop = [l \in Loops |-> "none"] /\ thread = Nobody
      /\ reads = <<>> /\ ready = <<>> /\ plays = 0
  BY DEF ClientInit, kDisconnected
<1>2. CallShape
  BY <1>1, NoCallIs DEF CallShape, Expecting
<1>3. LoopShape
  BY <1>1 DEF LoopShape
<1>4. Turns
  BY <1>1, NoCallIs, Actors DEF Turns, Running
<1>5. OneLoop
  BY <1>1 DEF OneLoop, OnItsWay, Running, kPlaying
<1>6. CallFits
  BY <1>1, NoCallIs DEF CallFits
<1>7. ReadsFit
  BY <1>1, NothingRead DEF ReadsFit
<1>8. StaysOn
  BY <1>1, NoCallIs DEF StaysOn, Expecting
<1> QED BY <1>2, <1>3, <1>4, <1>5, <1>6, <1>7, <1>8 DEF ControlInv

LEMMA ControlStays ==
  ASSUME ControlInv, UNCHANGED controlVars
  PROVE  ControlInv'
BY DEF ControlInv, controlVars, CallShape, LoopShape, Turns, OneLoop, OnItsWay, CallFits,
       ReadsFit, Waits, StaysOn, IsConnected, Expecting

\* What is completed changes hands, and nothing else.
LEMMA ReadsMove ==
  ASSUME ControlInv, UNCHANGED <<session, receiving, active, connected, open, call, loop,
                                 thread, plays>>,
         Entries(reads', ready'), Waiting(reads', ready') \subseteq Waiting(reads, ready),
         \A i \in 1 .. Len(reads') : \E j \in 1 .. Len(reads) : reads'[i] = reads[j]
  PROVE  ControlInv'
<1>1. CallShape' /\ LoopShape' /\ Turns' /\ CallFits'
  BY DEF ControlInv, CallShape, LoopShape, Turns, CallFits, Expecting
<1>2. OneLoop' /\ StaysOn'
  BY DEF ControlInv, OneLoop, OnItsWay, StaysOn, IsConnected, Expecting
<1>3. ReadsFit'
  BY DEF ControlInv, ReadsFit, Waits
<1> QED BY <1>1, <1>2, <1>3 DEF ControlInv

LEMMA ConnectControl == ASSUME ControlInv, Connect PROVE ControlInv'
<1>1. /\ call = NoCall /\ session = 0 /\ session' \in {0, 1} /\ thread = Nobody
      /\ UNCHANGED <<receiving, active, call, loop, thread, reads, ready, plays>>
  BY DEF Connect, Idle, kDisconnected, kConnected
<1>2. CallShape' /\ LoopShape' /\ Turns'
  BY <1>1 DEF ControlInv, CallShape, LoopShape, Turns, Expecting
<1>3. OneLoop'
  BY <1>1 DEF ControlInv, OneLoop, OnItsWay, kPlaying, kPaused
<1>4. CallFits'
  BY <1>1, NoCallIs DEF ControlInv, CallFits
<1>5. ReadsFit'
  BY <1>1 DEF ControlInv, ReadsFit, Waits
<1>6. StaysOn'
  BY <1>1, NoCallIs DEF StaysOn, Expecting
<1> QED BY <1>2, <1>3, <1>4, <1>5, <1>6 DEF ControlInv

LEMMA RequestControl ==
  ASSUME ControlInv, PlaysOnce, NEW op \in {"describe", "setup", "play", "pause"}, Request(op)
  PROVE  ControlInv'
<1>1. /\ call = NoCall /\ thread = Nobody /\ call' = CallOf(op, "send") /\ thread' = Caller
      /\ UNCHANGED <<session, receiving, active, connected, open, loop, reads, ready, plays>>
      /\ Allowed(op) /\ Orderly(op) /\ (op = "play" => plays < MaxPlays)
  BY DEF Request, Called, Idle, memberVars, connVars, ioVars
<1>2. /\ DOMAIN call' = {"op", "at", "pc", "retried", "answer"}
      /\ call'.op = op /\ call'.pc = "send"
  BY <1>1, CallMade
<1>3. CallShape' /\ LoopShape'
  BY <1>1, <1>2 DEF ControlInv, CallShape, LoopShape, Expecting
<1>4. Turns'
  BY <1>1, <1>2, Actors DEF ControlInv, Turns
<1>5. op = "describe" => session = 1
  BY <1>1 DEF Orderly, PlaysOnce, kConnected
<1>6. op = "setup" => session = 2
  BY <1>1 DEF Orderly, kDescribed
<1>7. op = "play" => session = 3
  BY <1>1 DEF Orderly, PlaysOnce, kReady
<1>8. op = "pause" => session = 4
  BY <1>1 DEF Allowed, kPlaying
<1>9. CallFits'
  BY <1>1, <1>2, <1>5, <1>6, <1>7, <1>8
  DEF CallFits, kConnected, kDescribed, kReady, kPlaying
<1>10. OneLoop'
  BY <1>1, <1>2, <1>5, <1>6, <1>7, NoCallIs DEF ControlInv, OneLoop, OnItsWay, kPlaying, kPaused
<1>11. ReadsFit'
  BY <1>1, <1>2, NoCallIs DEF ControlInv, ReadsFit, Waits
<1>12. StaysOn'
  BY <1>2 DEF StaysOn, Expecting
<1> QED BY <1>3, <1>4, <1>9, <1>10, <1>11, <1>12 DEF ControlInv

\* Reads that are cancelled change hands.
LEMMA CancelMoves ==
  ASSUME ControlInv, CancelReads \/ UNCHANGED <<reads, ready>>
  PROVE  Entries(reads', ready') /\ Waiting(reads', ready') = Waiting(reads, ready)
<1>1. Entries(reads, ready)
  BY DEF ControlInv, ReadsFit
<1>2. CASE CancelReads
  <2>1. reads' = <<>> /\ ready' = ready \o Aborted(reads)
    BY <1>2 DEF CancelReads
  <2> QED BY <1>1, <2>1, ReadsCancelled
<1>3. CASE UNCHANGED <<reads, ready>>
  BY <1>1, <1>3
<1> QED BY <1>2, <1>3

LEMMA EndingControl == ASSUME ControlInv, Teardown \/ Close PROVE ControlInv'
<1>1. PICK op \in {"teardown", "close"} : call' = CallOf(op, "wait")
  BY DEF Teardown, Close
<1>2. /\ call = NoCall /\ thread = Nobody /\ receiving' = FALSE
      /\ UNCHANGED <<session, active, connected, open, loop, thread, plays>>
      /\ CancelReads \/ UNCHANGED <<reads, ready>>
  BY DEF Teardown, Close, Called, Idle, connVars
<1>3. /\ DOMAIN call' = {"op", "at", "pc", "retried", "answer"}
      /\ call'.op = op /\ call'.pc = "wait"
  BY <1>1, CallMade
<1>4. CallShape' /\ LoopShape'
  BY <1>2, <1>3 DEF ControlInv, CallShape, LoopShape, Expecting
<1>5. Turns'
  BY <1>2, <1>3, Actors DEF ControlInv, Turns
<1>6. OneLoop'
  BY <1>2, <1>3, <1>1, NoCallIs DEF ControlInv, OneLoop, OnItsWay
<1>7. CallFits'
  BY <1>1, <1>2, <1>3 DEF CallFits
<1>8. Entries(reads', ready') /\ Waiting(reads', ready') = Waiting(reads, ready)
  BY <1>2, CancelMoves
<1>9. ReadsFit'
  BY <1>2, <1>3, <1>8, NoCallIs DEF ControlInv, ReadsFit, Waits
<1>10. StaysOn'
  BY <1>3 DEF StaysOn, Expecting
<1> QED BY <1>4, <1>5, <1>6, <1>7, <1>9, <1>10 DEF ControlInv

LEMMA TeardownGoesOnControl == ASSUME ControlInv, TeardownGoesOn PROVE ControlInv'
<1>1. /\ call.op = "teardown" /\ call.pc = "wait" /\ thread = Nobody /\ ~active
      /\ call' = [call EXCEPT !.pc = "send"] /\ thread' = Caller
      /\ UNCHANGED <<session, receiving, active, connected, open, loop, reads, ready, plays>>
  BY DEF TeardownGoesOn, Idle, LoopIsOver, memberVars, connVars, ioVars, bounds
<1>2. /\ DOMAIN call' = {"op", "at", "pc", "retried", "answer"}
      /\ call'.op = "teardown" /\ call'.pc = "send"
  BY <1>1, CallAtPc DEF ControlInv
<1>3. CallShape' /\ LoopShape'
  BY <1>1, <1>2 DEF ControlInv, CallShape, LoopShape, Expecting
<1>4. Turns'
  BY <1>1, <1>2, Actors DEF ControlInv, Turns
<1>5. OneLoop' /\ CallFits'
  BY <1>1, <1>2 DEF ControlInv, OneLoop, OnItsWay, CallFits
<1>6. ReadsFit'
  BY <1>1, <1>2 DEF ControlInv, ReadsFit, Waits
<1>7. StaysOn'
  BY <1>2 DEF StaysOn, Expecting
<1> QED BY <1>3, <1>4, <1>5, <1>6, <1>7 DEF ControlInv

\* Nobody reads any more when close() goes on.
LEMMA NobodyReads ==
  ASSUME ControlInv, ~active, call.pc \notin {"reading", "joined", "late"}
  PROVE  Waiting(reads, ready) = {} /\ reads = <<>> /\ ready = <<>>
<1>1. \A w : ~Waits(w)
  BY DEF ControlInv, OneLoop, OnItsWay, Waits
<1>2. Waiting(reads, ready) = {}
  BY <1>1 DEF ControlInv, ReadsFit
<1>3. IsSequence(reads) /\ IsSequence(ready)
  BY DEF ControlInv, ReadsFit, Entries
<1>4. Len(reads) \in Nat /\ Len(ready) \in Nat
  BY <1>3, SequenceLength
<1>5. ~(1 \in 1 .. Len(reads)) /\ ~(1 \in 1 .. Len(ready))
  BY <1>2 DEF Waiting
<1>6. Len(reads) = 0 /\ Len(ready) = 0
  BY <1>4, <1>5
<1> QED BY <1>2, <1>3, <1>6, SequenceEmpty

LEMMA CloseGoesOnControl == ASSUME ControlInv, CloseGoesOn PROVE ControlInv'
<1>1. /\ call.op = "close" /\ call.pc = "wait" /\ thread = Nobody /\ ~active
      /\ call' = NoCall /\ session' = 0 /\ CancelReads
      /\ UNCHANGED <<receiving, active, loop, thread, plays>>
  BY DEF CloseGoesOn, Idle, LoopIsOver, bounds, kDisconnected
<1>2. CallShape' /\ LoopShape'
  BY <1>1, NoCallIs DEF ControlInv, CallShape, LoopShape, Expecting
<1>3. Turns'
  BY <1>1, NoCallIs, Actors DEF ControlInv, Turns
<1>4. OneLoop'
  BY <1>1, NoCallIs DEF ControlInv, OneLoop, OnItsWay, kPlaying
<1>5. CallFits'
  BY <1>1, NoCallIs DEF CallFits
<1>6. Entries(reads', ready') /\ Waiting(reads', ready') = {}
  BY <1>1, CancelMoves, NobodyReads
<1>7. ReadsFit'
  BY <1>1, <1>6, NoCallIs DEF ReadsFit
<1>8. StaysOn'
  BY <1>1, NoCallIs DEF StaysOn, Expecting
<1> QED BY <1>2, <1>3, <1>4, <1>5, <1>7, <1>8 DEF ControlInv

LEMMA SendControl == ASSUME ControlInv, Send PROVE ControlInv'
<1>1. /\ thread = Caller /\ call.pc = "send"
      /\ UNCHANGED <<session, receiving, active, open, loop, thread, reads, ready, plays>>
      /\ \/ IsConnected /\ call' = [call EXCEPT !.pc = "scan"] /\ connected' = connected
         \/ call' = [call EXCEPT !.pc = "failed"]
  BY DEF Send, ioVars, bounds
<1>2. PICK pc \in {"scan", "failed"} :
        /\ call' = [call EXCEPT !.pc = pc]
        /\ pc = "scan" => IsConnected /\ connected' = connected
  BY <1>1
<1>3. /\ DOMAIN call' = {"op", "at", "pc", "retried", "answer"}
      /\ call'.op = call.op /\ call'.pc = pc
  BY <1>2, CallAtPc DEF ControlInv
<1>4. CallShape' /\ LoopShape'
  BY <1>1, <1>3 DEF ControlInv, CallShape, LoopShape, Expecting
<1>5. Turns'
  BY <1>1, <1>3 DEF ControlInv, Turns
<1>6. OneLoop' /\ CallFits'
  BY <1>1, <1>3 DEF ControlInv, OneLoop, OnItsWay, CallFits
<1>7. ReadsFit'
  BY <1>1, <1>3 DEF ControlInv, ReadsFit, Waits
<1>8. StaysOn'
  BY <1>1, <1>2, <1>3 DEF StaysOn, IsConnected, Expecting
<1> QED BY <1>4, <1>5, <1>6, <1>7, <1>8 DEF ControlInv

\* The steps of a call from one place to another, while nothing else happens.
LEMMA CallMovesControl ==
  ASSUME ControlInv, thread = Caller, call.pc \in {"scan", "answer", "failed"},
         DOMAIN call' = {"op", "at", "pc", "retried", "answer"}, call'.op = call.op,
         call'.pc \in {"send", "answer", "failed"},
         UNCHANGED <<session, receiving, active, connected, open, loop, thread, reads,
                     ready, plays>>
  PROVE  ControlInv'
<1>1. CallShape' /\ LoopShape'
  BY DEF ControlInv, CallShape, LoopShape, Expecting
<1>2. Turns'
  BY DEF ControlInv, Turns
<1>3. OneLoop' /\ CallFits'
  BY DEF ControlInv, OneLoop, OnItsWay, CallFits
<1>4. ReadsFit'
  BY DEF ControlInv, ReadsFit, Waits
<1>5. StaysOn'
  BY DEF StaysOn, Expecting
<1> QED BY <1>1, <1>2, <1>3, <1>4, <1>5 DEF ControlInv

LEMMA AnsweredControl ==
  ASSUME ControlInv, TakeAnswer \/ RetryWithAuth \/ OptionsDone
  PROVE  ControlInv'
<1>1. CASE TakeAnswer
  <2>1. \E pc \in {"answer", "failed"} : \E a :
          call' = IF pc = "answer" THEN [call EXCEPT !.pc = "answer", !.answer = a]
                                   ELSE [call EXCEPT !.pc = "failed"]
    BY <1>1 DEF TakeAnswer
  <2>2. PICK pc \in {"answer", "failed"} : \E a :
          call' = IF pc = "answer" THEN [call EXCEPT !.pc = "answer", !.answer = a]
                                   ELSE [call EXCEPT !.pc = "failed"]
    BY <2>1
  <2>3. /\ DOMAIN call' = {"op", "at", "pc", "retried", "answer"}
        /\ call'.op = call.op /\ call'.pc = pc
    BY <2>2 DEF ControlInv, CallShape, Expecting
  <2> QED BY <1>1, <2>3, CallMovesControl
          DEF TakeAnswer, memberVars, ioVars, bounds
<1>2. CASE RetryWithAuth
  <2>1. /\ DOMAIN call' = {"op", "at", "pc", "retried", "answer"}
        /\ call'.op = call.op /\ call'.pc = "send"
    BY <1>2 DEF RetryWithAuth, ControlInv, CallShape, Expecting
  <2> QED BY <1>2, <2>1, CallMovesControl
          DEF RetryWithAuth, connVars, ioVars, bounds
<1>3. CASE OptionsDone
  <2>1. /\ DOMAIN call' = {"op", "at", "pc", "retried", "answer"}
        /\ call'.op = call.op /\ call'.pc = "send"
    BY <1>3, NextRequestIs DEF OptionsDone
  <2> QED BY <1>3, <2>1, CallMovesControl
          DEF OptionsDone, Succeeded, Failed, memberVars, connVars, ioVars, bounds
<1> QED BY <1>1, <1>2, <1>3

LEMMA AwaitAnswerControl == ASSUME ControlInv, AwaitAnswer PROVE ControlInv'
<1>1. /\ thread = Caller /\ call.pc = "scan" /\ thread' = Nobody
      /\ call' = [call EXCEPT !.pc = "reading"] /\ reads' = Append(reads, Caller)
      /\ UNCHANGED <<session, receiving, active, connected, open, loop, ready, plays>>
  BY DEF AwaitAnswer, memberVars, connVars, bounds
<1>2. /\ DOMAIN call' = {"op", "at", "pc", "retried", "answer"}
      /\ call'.op = call.op /\ call'.pc = "reading"
  BY <1>1, CallAtPc DEF ControlInv
<1>3. CallShape' /\ LoopShape'
  BY <1>1, <1>2 DEF ControlInv, CallShape, LoopShape, Expecting
<1>4. Turns'
  BY <1>1, <1>2, Actors DEF ControlInv, Turns
<1>5. OneLoop' /\ CallFits'
  BY <1>1, <1>2 DEF ControlInv, OneLoop, OnItsWay, CallFits
<1>6. Caller \notin Waiting(reads, ready)
  BY <1>1, Actors DEF ControlInv, ReadsFit, Waits
<1>7. /\ Entries(reads', ready')
      /\ Waiting(reads', ready') = Waiting(reads, ready) \union {Caller}
  BY <1>1, <1>6, ReadBegun DEF ControlInv, ReadsFit
<1>8. ReadsFit'
  BY <1>1, <1>2, <1>7 DEF ControlInv, ReadsFit, Waits
<1>9. StaysOn'
  BY <1>1 DEF ControlInv, StaysOn, IsConnected, Expecting
<1> QED BY <1>3, <1>4, <1>5, <1>8, <1>9 DEF ControlInv

\* The read of a call that its timer has overtaken is cancelled, or had completed.
LEMMA TimeoutReads ==
  ASSUME ControlInv, Timeout
  PROVE  /\ Entries(reads', ready') /\ Waiting(reads', ready') = Waiting(reads, ready)
         /\ \A i \in 1 .. Len(reads') : reads'[i] # Caller
<1> DEFINE mine == BegunBy(Caller, reads)
           e == AbortedRead(Caller)
<1>1. Entries(reads, ready)
  BY DEF ControlInv, ReadsFit
<1>2. DOMAIN reads = 1 .. Len(reads) /\ DOMAIN ready = 1 .. Len(ready)
  BY <1>1, SequenceLength DEF Entries
<1>3. mine = {i \in DOMAIN reads : reads[i] = Caller}
  BY <1>2 DEF BegunBy
<1>4. /\ reads' = GivenUp(reads, mine)
      /\ ready' = IF mine = {} THEN ready ELSE Append(ready, e)
  BY <1>3 DEF Timeout
<1>5. CASE mine = {}
  <2>1. reads' = reads /\ ready' = ready
    BY <1>4, <1>5 DEF GivenUp
  <2>2. \A i \in 1 .. Len(reads) : reads[i] # Caller
    BY <1>5 DEF BegunBy
  <2> QED BY <1>1, <2>1, <2>2
<1>6. CASE mine # {}
  <2>1. PICK i \in 1 .. Len(reads) : reads[i] = Caller
    BY <1>6 DEF BegunBy
  <2>2. CompletedBy(Caller, ready) = {}
    BY <1>1, <2>1 DEF Entries, CompletedBy
  <2>3. GivenUp(ready, CompletedBy(Caller, ready)) = ready
    BY <2>2 DEF GivenUp
  <2>4. /\ Entries(reads', ready)
        /\ Waiting(reads', ready) = Waiting(reads, ready) \ {Caller}
    BY <1>1, <1>4, <2>3, ReadGivenUp
  <2>5. Caller \in Waiting(reads, ready)
    BY <2>1 DEF Waiting
  <2>6. e.who = Caller /\ e.how = "aborted" /\ e.data = <<>>
    BY DEF AbortedRead
  <2> HIDE DEF e
  <2>7. /\ Entries(reads', Append(ready, e))
        /\ Waiting(reads', Append(ready, e)) = Waiting(reads', ready) \union {Caller}
    BY <2>4, <2>6, EntryAppended, EmptySequence
  <2>8. \A j \in 1 .. Len(reads') : reads'[j] # Caller
    BY <2>4 DEF Waiting
  <2> QED BY <1>4, <1>6, <2>4, <2>5, <2>7, <2>8
<1> QED BY <1>5, <1>6

LEMMA TimeoutControl == ASSUME ControlInv, Timeout PROVE ControlInv'
<1>1. /\ thread = Nobody /\ call.pc = "reading"
      /\ call' = [call EXCEPT !.pc = "late"]
      /\ UNCHANGED <<session, receiving, active, connected, open, loop, thread, plays>>
  BY DEF Timeout, Idle, memberVars, connVars, bounds
<1>2. /\ DOMAIN call' = {"op", "at", "pc", "retried", "answer"}
      /\ call'.op = call.op /\ call'.pc = "late"
  BY <1>1, CallAtPc DEF ControlInv
<1>3. CallShape' /\ LoopShape'
  BY <1>1, <1>2 DEF ControlInv, CallShape, LoopShape, Expecting
<1>4. Turns'
  BY <1>1, <1>2, Actors DEF ControlInv, Turns
<1>5. OneLoop' /\ CallFits'
  BY <1>1, <1>2 DEF ControlInv, OneLoop, OnItsWay, CallFits
<1>6. /\ Entries(reads', ready') /\ Waiting(reads', ready') = Waiting(reads, ready)
      /\ \A i \in 1 .. Len(reads') : reads'[i] # Caller
  BY TimeoutReads
<1>7. ReadsFit'
  BY <1>1, <1>2, <1>6 DEF ControlInv, ReadsFit, Waits
<1>8. StaysOn'
  BY <1>1, <1>2 DEF ControlInv, StaysOn, IsConnected, Expecting
<1> QED BY <1>3, <1>4, <1>5, <1>7, <1>8 DEF ControlInv

\* A call that gives up leaves no read behind, and ends those of the loops.
LEMMA GiveUpIs ==
  ASSUME ControlInv, GiveUp
  PROVE  LET rd == GivenUp(ready, CompletedBy(Caller, ready))
         IN  /\ Entries(reads, rd) /\ Waiting(reads, rd) = Waiting(reads, ready) \ {Caller}
             /\ reads' = <<>> /\ ready' = rd \o Aborted(reads)
<1> DEFINE rd == GivenUp(ready, CompletedBy(Caller, ready))
<1>1. Entries(reads, ready) /\ \A i \in 1 .. Len(reads) : reads[i] # Caller
  BY DEF GiveUp, ControlInv, ReadsFit
<1>2. DOMAIN ready = 1 .. Len(ready)
  BY <1>1, SequenceLength DEF Entries
<1>3. CompletedBy(Caller, ready) = {i \in DOMAIN ready : ready[i].who = Caller}
  BY <1>2 DEF CompletedBy
<1>4. reads' = <<>> /\ ready' = rd \o Aborted(reads)
  BY <1>3 DEF GiveUp
<1>5. BegunBy(Caller, reads) = {}
  BY <1>1 DEF BegunBy
<1>6. GivenUp(reads, BegunBy(Caller, reads)) = reads
  BY <1>5 DEF GivenUp
<1>7. Entries(reads, rd) /\ Waiting(reads, rd) = Waiting(reads, ready) \ {Caller}
  BY <1>1, <1>6, ReadGivenUp
<1> QED BY <1>4, <1>7

LEMMA GiveUpReads ==
  ASSUME ControlInv, GiveUp
  PROVE  Entries(reads', ready') /\ Waiting(reads', ready') = Waiting(reads, ready) \ {Caller}
<1> DEFINE rd == GivenUp(ready, CompletedBy(Caller, ready))
<1>1. /\ Entries(reads, rd) /\ Waiting(reads, rd) = Waiting(reads, ready) \ {Caller}
      /\ reads' = <<>> /\ ready' = rd \o Aborted(reads)
  BY GiveUpIs
<1> HIDE DEF rd
<1> QED BY <1>1, ReadsCancelled

LEMMA GiveUpControl == ASSUME ControlInv, GiveUp PROVE ControlInv'
<1>1. /\ thread = Nobody /\ call.pc = "late" /\ thread' = Caller
      /\ call' = [call EXCEPT !.pc = "failed"]
      /\ UNCHANGED <<session, receiving, active, connected, open, loop, plays>>
  BY DEF GiveUp, Idle, memberVars, connVars, bounds
<1>2. /\ DOMAIN call' = {"op", "at", "pc", "retried", "answer"}
      /\ call'.op = call.op /\ call'.pc = "failed"
  BY <1>1, CallAtPc DEF ControlInv
<1>3. CallShape' /\ LoopShape'
  BY <1>1, <1>2 DEF ControlInv, CallShape, LoopShape, Expecting
<1>4. Turns'
  BY <1>1, <1>2, Actors DEF ControlInv, Turns
<1>5. OneLoop' /\ CallFits'
  BY <1>1, <1>2 DEF ControlInv, OneLoop, OnItsWay, CallFits
<1>6. Entries(reads', ready') /\ Waiting(reads', ready') = Waiting(reads, ready) \ {Caller}
  BY GiveUpReads
<1>7. ReadsFit'
  BY <1>1, <1>2, <1>6 DEF ControlInv, ReadsFit, Waits
<1>8. StaysOn'
  BY <1>2 DEF StaysOn, Expecting
<1> QED BY <1>3, <1>4, <1>5, <1>7, <1>8 DEF ControlInv

\* The read of a call goes behind what else is completed, or is forgotten.
LEMMA CallHasReadReads ==
  ASSUME ControlInv, CallHasRead
  PROVE  Entries(reads', ready') /\ Waiting(reads', ready') \subseteq Waiting(reads, ready)
<1> DEFINE e == Head(ready)
<1>1. Entries(reads, ready) /\ ready # <<>>
  BY DEF CallHasRead, ControlInv, ReadsFit
<1>2. /\ Entries(reads, Tail(ready))
      /\ e.who \in Waiting(reads, ready)
      /\ Waiting(reads, Tail(ready)) = Waiting(reads, ready) \ {e.who}
      /\ IsSequence(e.data) /\ (e.how # "data" => e.data = <<>>)
  BY <1>1, ReadTaken
<1>3. reads' = reads /\ ready' \in {Append(Tail(ready), e), Tail(ready)}
  BY DEF CallHasRead
<1> HIDE DEF e
<1>4. /\ Entries(reads, Append(Tail(ready), e))
      /\ Waiting(reads, Append(Tail(ready), e)) = Waiting(reads, Tail(ready)) \union {e.who}
  BY <1>2, EntryAppended
<1> QED BY <1>2, <1>3, <1>4

LEMMA CallHasReadControl == ASSUME ControlInv, CallHasRead PROVE ControlInv'
<1>1. /\ thread = Nobody /\ call.pc = "reading"
      /\ UNCHANGED <<session, receiving, active, connected, open, loop, thread, plays, reads>>
  BY DEF CallHasRead, Idle, memberVars, connVars, bounds
<1>2. /\ DOMAIN call' = {"op", "at", "pc", "retried", "answer"}
      /\ call'.op = call.op /\ call'.pc \in {"reading", "joined"}
  BY <1>1, CallAtPc DEF CallHasRead, ControlInv, CallShape, Expecting
<1>3. CallShape' /\ LoopShape'
  BY <1>1, <1>2 DEF ControlInv, CallShape, LoopShape, Expecting
<1>4. Turns'
  BY <1>1, <1>2, Actors DEF ControlInv, Turns
<1>5. OneLoop' /\ CallFits'
  BY <1>1, <1>2 DEF ControlInv, OneLoop, OnItsWay, CallFits
<1>6. Entries(reads', ready') /\ Waiting(reads', ready') \subseteq Waiting(reads, ready)
  BY CallHasReadReads
<1>7. ReadsFit'
  BY <1>1, <1>2, <1>6 DEF ControlInv, ReadsFit, Waits
<1>8. StaysOn'
  BY <1>1, <1>2 DEF ControlInv, StaysOn, IsConnected, Expecting
<1> QED BY <1>3, <1>4, <1>5, <1>7, <1>8 DEF ControlInv

LEMMA CallResumesControl == ASSUME ControlInv, CallResumes PROVE ControlInv'
<1>1. /\ thread = Nobody /\ call.pc = "joined" /\ thread' = Caller
      /\ ready # <<>> /\ Head(ready).who = Caller
      /\ call' = [call EXCEPT !.pc = "scan"] /\ ready' = Tail(ready)
      /\ UNCHANGED <<session, receiving, active, connected, open, loop, plays, reads>>
  BY DEF CallResumes, Idle, memberVars, bounds
<1>2. /\ DOMAIN call' = {"op", "at", "pc", "retried", "answer"}
      /\ call'.op = call.op /\ call'.pc = "scan"
  BY <1>1, CallAtPc DEF ControlInv
<1>3. CallShape' /\ LoopShape'
  BY <1>1, <1>2 DEF ControlInv, CallShape, LoopShape, Expecting
<1>4. Turns'
  BY <1>1, <1>2, Actors DEF ControlInv, Turns
<1>5. OneLoop' /\ CallFits'
  BY <1>1, <1>2 DEF ControlInv, OneLoop, OnItsWay, CallFits
<1>6. /\ Entries(reads', ready')
      /\ Waiting(reads', ready') = Waiting(reads, ready) \ {Caller}
  BY <1>1, ReadTaken DEF ControlInv, ReadsFit
<1>7. ReadsFit'
  BY <1>1, <1>2, <1>6 DEF ControlInv, ReadsFit, Waits
<1>8. StaysOn'
  BY <1>1, <1>2 DEF ControlInv, StaysOn, IsConnected, Expecting
<1> QED BY <1>3, <1>4, <1>5, <1>7, <1>8 DEF ControlInv

\* The calls that return; only play() leaves a loop behind.
LEMMA ReturnControl ==
  ASSUME ControlInv, thread = Caller, call.pc \in {"answer", "failed"}, Returns,
         session' \in 0 .. 5,
         active => session' = session \/ (session' = kPaused),
         session' = kPlaying => session = kPlaying /\ receiving' = receiving,
         UNCHANGED <<active, connected, open, loop, reads, ready, plays>>
  PROVE  ControlInv'
<1>1. call' = NoCall /\ thread' = Nobody
  BY DEF Returns
<1>2. CallShape' /\ LoopShape'
  BY <1>1, NoCallIs DEF ControlInv, CallShape, LoopShape, Expecting
<1>3. Turns'
  BY <1>1, NoCallIs, Actors DEF ControlInv, Turns
<1>4. active => call.op = "pause"
  BY DEF ControlInv, CallShape, OneLoop, CallFits, kPlaying, kPaused, kConnected, kDescribed, kReady, Expecting
<1>5. OneLoop'
  BY <1>1, <1>4, NoCallIs DEF ControlInv, OneLoop, OnItsWay
<1>6. CallFits'
  BY <1>1, NoCallIs DEF CallFits
<1>7. ReadsFit'
  BY <1>1, Actors, NoCallIs DEF ControlInv, ReadsFit, Waits
<1>8. StaysOn'
  BY <1>1, NoCallIs DEF StaysOn, Expecting
<1> QED BY <1>2, <1>3, <1>5, <1>6, <1>7, <1>8 DEF ControlInv

LEMMA DescribeDoneControl == ASSUME ControlInv, DescribeDone PROVE ControlInv'
<1>1. /\ thread = Caller /\ call.pc = "answer" /\ call.op = "describe" /\ Returns
      /\ session' \in {kDescribed, session}
      /\ UNCHANGED <<receiving, active, connected, open, loop, reads, ready, plays>>
  BY DEF DescribeDone, Succeeded, connVars, ioVars, bounds
<1>2. ~active /\ session \in {1, 2, 3} /\ session' \in {2, session}
  BY <1>1 DEF ControlInv, OneLoop, CallFits, kConnected, kDescribed, kReady, kPlaying, kPaused
<1>3. session' \in 0 .. 5 /\ session' # 4
  BY <1>2
<1> QED BY <1>1, <1>2, <1>3, ReturnControl DEF kPlaying

LEMMA SetupDoneControl == ASSUME ControlInv, SetupDone PROVE ControlInv'
<1>1. /\ thread = Caller /\ call.pc = "answer" /\ call.op = "setup"
      /\ UNCHANGED <<receiving, active, connected, open, loop, reads, ready, plays>>
  BY DEF SetupDone, Succeeded, connVars, ioVars, bounds
<1>2. ~active
  BY <1>1 DEF ControlInv, OneLoop, CallFits, kConnected, kDescribed, kReady, kPlaying, kPaused
<1>3. CASE call.at < Len(sdp)
  <2>1. NextRequest /\ UNCHANGED <<session, thread>>
    BY <1>3 DEF SetupDone
  <2>2. /\ DOMAIN call' = {"op", "at", "pc", "retried", "answer"}
        /\ call'.op = call.op /\ call'.pc = "send"
    BY <2>1, NextRequestIs
  <2> QED BY <1>1, <2>1, <2>2, CallMovesControl
<1>4. CASE ~(call.at < Len(sdp))
  <2>1. session' = kReady /\ Returns
    BY <1>4 DEF SetupDone
  <2>2. session' \in 0 .. 5 /\ session' # kPlaying
    BY <2>1 DEF kReady, kPlaying
  <2> QED BY <1>1, <1>2, <2>1, <2>2, ReturnControl
<1> QED BY <1>3, <1>4

LEMMA PauseDoneControl == ASSUME ControlInv, PauseDone PROVE ControlInv'
<1>1. /\ thread = Caller /\ call.pc = "answer" /\ Returns /\ session' = kPaused
      /\ UNCHANGED <<active, connected, open, loop, reads, ready, plays>>
  BY DEF PauseDone, Succeeded, connVars, ioVars, bounds
<1>2. session' \in 0 .. 5 /\ session' # kPlaying
  BY <1>1 DEF kPaused, kPlaying
<1> QED BY <1>1, <1>2, ReturnControl

LEMMA TeardownDoneControl == ASSUME ControlInv, TeardownDone PROVE ControlInv'
<1>1. /\ thread = Caller /\ call.pc \in {"answer", "failed"} /\ Returns
      /\ session' = kConnected /\ call.op = "teardown"
      /\ UNCHANGED <<active, connected, open, loop, reads, ready, plays>>
  BY DEF TeardownDone, Succeeded, Failed, connVars, ioVars, bounds
<1>2. session' \in 0 .. 5 /\ session' # kPlaying /\ ~active
  BY <1>1 DEF kConnected, kPlaying, ControlInv, CallFits
<1> QED BY <1>1, <1>2, ReturnControl

LEMMA CallFailsControl == ASSUME ControlInv, CallFails PROVE ControlInv'
<1>1. /\ thread = Caller /\ call.pc \in {"answer", "failed"} /\ Returns
      /\ UNCHANGED <<session, receiving, active, connected, open, loop, reads, ready, plays>>
  BY DEF CallFails, Failed, memberVars, connVars, ioVars, bounds
<1>2. session' \in 0 .. 5
  BY <1>1 DEF ControlInv, LoopShape
<1> QED BY <1>1, <1>2, ReturnControl

LEMMA PlayDoneControl == ASSUME ControlInv, PlayDone PROVE ControlInv'
<1> DEFINE new == plays + 1
<1>1. /\ thread = Caller /\ call.pc = "answer" /\ call.op = "play" /\ plays' = new
      /\ session' = kPlaying /\ receiving' = TRUE /\ active' = TRUE
      /\ loop' = [loop EXCEPT ![new] = "top"] /\ call' = NoCall /\ thread' = new
      /\ UNCHANGED <<connected, open, reads, ready>>
  BY DEF PlayDone, Succeeded, connVars, ioVars
<1>2. /\ new \in Loops /\ plays' \in Nat /\ loop[new] = "none"
      /\ \A l \in Loops : l > new => l > plays
  BY <1>1, ClientAssumption DEF ControlInv, CallFits, LoopShape, Loops
<1>3. ~active
  BY <1>1 DEF ControlInv, OneLoop, CallFits, kConnected, kDescribed, kReady, kPlaying, kPaused
<1>4. \A l \in Loops : ~OnItsWay(l)
  BY <1>3 DEF ControlInv, OneLoop
<1> HIDE DEF new
<1>5. /\ loop' \in [Loops -> {"none", "reading", "ended"} \union Running]
      /\ loop'[new] = "top" /\ \A l \in Loops : l # new => loop'[l] = loop[l]
  BY <1>1, <1>2 DEF ControlInv, LoopShape, Running
<1>6. CallShape'
  BY <1>1, NoCallIs DEF CallShape, Expecting
<1>7. LoopShape'
  <2>1. \A l \in Loops : l > new => l # new
    BY <1>2, Actors
  <2>2. \A l \in Loops : l > new => loop'[l] = "none"
    BY <1>2, <1>5, <2>1 DEF ControlInv, LoopShape
  <2> QED BY <1>1, <1>2, <1>5, <2>2 DEF LoopShape, kPlaying
<1>8. Turns'
  BY <1>1, <1>2, <1>4, <1>5, NoCallIs, Actors DEF Turns, Running, OnItsWay
<1>9. OneLoop'
  BY <1>1, <1>2, <1>4, <1>5, NoCallIs DEF OneLoop, OnItsWay, Running
<1>10. CallFits'
  BY <1>1, NoCallIs DEF CallFits
<1>11. ReadsFit'
  BY <1>1, <1>2, <1>5, Actors, NoCallIs DEF ControlInv, ReadsFit, Waits
<1>12. StaysOn'
  BY <1>1, NoCallIs DEF StaysOn, Expecting
<1> QED BY <1>6, <1>7, <1>8, <1>9, <1>10, <1>11, <1>12 DEF ControlInv

\* The steps of a loop that goes on: it keeps the thread, or leaves it to read.
LEMMA LoopMovesControl ==
  ASSUME ControlInv, NEW l \in Loops, OnItsWay(l), NEW place \in Running,
         thread \in {l, Nobody}, thread' = l,
         loop' = [loop EXCEPT ![l] = place],
         call.pc \in Expecting /\ place \in {"top", "scan"} =>
           loop[l] \in {"top", "scan", "reading"},
         (connected => connected') \/ place = "exit",
         Entries(reads', ready'), Waiting(reads', ready') \subseteq Waiting(reads, ready) \ {l},
         UNCHANGED <<session, receiving, active, open, call, plays, reads>>
  PROVE  ControlInv'
<1>1. /\ loop' \in [Loops -> {"none", "reading", "ended"} \union Running]
      /\ loop'[l] = place /\ \A m \in Loops : m # l => loop'[m] = loop[m]
      /\ loop[l] # "none"
  BY DEF ControlInv, LoopShape, OnItsWay, Running
<1>2. \A m \in Loops : m # l => ~OnItsWay(m)
  BY DEF ControlInv, OneLoop
<1>3. \A m \in Loops : OnItsWay(m)' <=> OnItsWay(m)
  BY <1>1, <1>2 DEF OnItsWay
<1>4. CallShape' /\ CallFits'
  BY DEF ControlInv, CallShape, CallFits, Expecting
<1>5. LoopShape'
  BY <1>1 DEF ControlInv, LoopShape
<1>6. Turns'
  BY <1>1, <1>2, Actors DEF ControlInv, Turns, OnItsWay
<1>7. OneLoop'
  BY <1>3 DEF ControlInv, OneLoop
<1>8. ReadsFit'
  BY <1>1 DEF ControlInv, ReadsFit, Waits
<1>9. StaysOn'
  <2> SUFFICES ASSUME call.pc \in Expecting, NEW m \in Loops,
                      loop'[m] \in {"top", "scan", "reading"}
               PROVE  IsConnected'
    BY DEF StaysOn, Expecting
  <2>1. m = l
    BY <1>1, <1>2 DEF OnItsWay, Running
  <2>2. place \in {"top", "scan"} /\ (connected => connected')
    BY <1>1, <2>1 DEF Running
  <2>3. IsConnected
    BY <2>2 DEF ControlInv, StaysOn, Expecting
  <2> QED BY <2>2, <2>3 DEF IsConnected
<1> QED BY <1>4, <1>5, <1>6, <1>7, <1>8, <1>9 DEF ControlInv

LEMMA LoopTopControl == ASSUME ControlInv, NEW l \in Loops, LoopTop(l) PROVE ControlInv'
<1>1. /\ thread = l /\ loop[l] = "top" /\ thread' = l
      /\ UNCHANGED <<session, receiving, active, connected, open, call, plays, reads, ready>>
  BY DEF LoopTop, memberVars, ioVars, bounds
<1>2. PICK place \in {"scan", "astray", "exit"} : loop' = [loop EXCEPT ![l] = place]
  BY DEF LoopTop
<1>3. l \notin Waiting(reads, ready)
  BY <1>1, Actors DEF ControlInv, ReadsFit, Waits
<1>4. Entries(reads', ready') /\ Waiting(reads', ready') \subseteq Waiting(reads, ready) \ {l}
  BY <1>1, <1>3 DEF ControlInv, ReadsFit
<1>5. OnItsWay(l) /\ place \in Running
  BY <1>1 DEF OnItsWay, Running
<1> QED BY <1>1, <1>2, <1>4, <1>5, LoopMovesControl

LEMMA LoopFrameControl == ASSUME ControlInv, NEW l \in Loops, LoopFrame(l) PROVE ControlInv'
<1>1. /\ thread = l /\ loop[l] = "scan" /\ thread' = l
      /\ loop' = [loop EXCEPT ![l] = "top"]
      /\ UNCHANGED <<session, receiving, active, connected, open, call, plays, reads, ready>>
  BY DEF LoopFrame, memberVars, ioVars, bounds
<1>2. l \notin Waiting(reads, ready)
  BY <1>1, Actors DEF ControlInv, ReadsFit, Waits
<1>3. Entries(reads', ready') /\ Waiting(reads', ready') \subseteq Waiting(reads, ready) \ {l}
  BY <1>1, <1>2 DEF ControlInv, ReadsFit
<1>4. OnItsWay(l) /\ "top" \in Running
  BY <1>1 DEF OnItsWay, Running
<1> QED BY <1>1, <1>3, <1>4, LoopMovesControl

LEMMA LoopReadsControl == ASSUME ControlInv, NEW l \in Loops, LoopReads(l) PROVE ControlInv'
<1>1. /\ thread = l /\ loop[l] = "scan" /\ thread' = Nobody
      /\ loop' = [loop EXCEPT ![l] = "reading"] /\ reads' = Append(reads, l)
      /\ UNCHANGED <<session, receiving, active, connected, open, call, plays, ready>>
  BY DEF LoopReads, memberVars, connVars, bounds
<1>2. /\ loop' \in [Loops -> {"none", "reading", "ended"} \union Running]
      /\ loop'[l] = "reading" /\ \A m \in Loops : m # l => loop'[m] = loop[m]
  BY <1>1 DEF ControlInv, LoopShape
<1>3. OnItsWay(l) /\ \A m \in Loops : m # l => ~OnItsWay(m)
  BY <1>1 DEF ControlInv, OneLoop, OnItsWay, Running
<1>4. \A m \in Loops : OnItsWay(m)' <=> OnItsWay(m)
  BY <1>2, <1>3 DEF OnItsWay
<1>5. CallShape' /\ CallFits'
  BY <1>1 DEF ControlInv, CallShape, CallFits, Expecting
<1>6. LoopShape'
  BY <1>1, <1>2 DEF ControlInv, LoopShape
<1>7. Turns'
  BY <1>1, <1>2, <1>3, Actors DEF ControlInv, Turns, OnItsWay, Running
<1>8. OneLoop'
  BY <1>1, <1>4 DEF ControlInv, OneLoop
<1>9. ReadsFit'
  <2>1. l \notin Waiting(reads, ready)
    BY <1>1, Actors DEF ControlInv, ReadsFit, Waits
  <2>2. Entries(reads, ready)
    BY DEF ControlInv, ReadsFit
  <2>3. Entries(reads', ready') /\ Waiting(reads', ready') = Waiting(reads, ready) \union {l}
    BY <1>1, <2>1, <2>2, ReadBegun
  <2>4. \A w \in Waiting(reads', ready') : Waits(w)'
    BY <1>1, <1>2, <2>3 DEF ControlInv, ReadsFit, Waits
  <2>5. ASSUME call.pc = "late", NEW i \in 1 .. Len(reads') PROVE reads'[i] # Caller
    <3>1. reads'[i] = l \/ \E j \in 1 .. Len(reads) : reads'[i] = reads[j]
      BY <1>1, <2>2, AppendedSequence, SequenceLength DEF Entries
    <3> QED BY <2>5, <3>1, Actors DEF ControlInv, ReadsFit
  <2> QED BY <1>1, <2>3, <2>4, <2>5 DEF ReadsFit
<1>10. StaysOn'
  BY <1>1, <1>2 DEF ControlInv, StaysOn, IsConnected, Expecting
<1> QED BY <1>5, <1>6, <1>7, <1>8, <1>9, <1>10 DEF ControlInv

LEMMA LoopExitControl == ASSUME ControlInv, NEW l \in Loops, LoopExit(l) PROVE ControlInv'
<1>1. /\ thread = l /\ loop[l] = "exit" /\ thread' = Nobody /\ active' = FALSE
      /\ loop' = [loop EXCEPT ![l] = "ended"]
      /\ UNCHANGED <<session, receiving, connected, open, call, plays, reads, ready>>
  BY DEF LoopExit, media, connVars, ioVars, bounds
<1>2. /\ loop' \in [Loops -> {"none", "reading", "ended"} \union Running]
      /\ loop'[l] = "ended" /\ \A m \in Loops : m # l => loop'[m] = loop[m]
  BY <1>1 DEF ControlInv, LoopShape
<1>3. OnItsWay(l) /\ \A m \in Loops : m # l => ~OnItsWay(m)
  BY <1>1 DEF ControlInv, OneLoop, OnItsWay, Running
<1>4. \A m \in Loops : ~OnItsWay(m)'
  BY <1>2, <1>3 DEF OnItsWay, Running
<1>5. CallShape' /\ CallFits'
  BY <1>1 DEF ControlInv, CallShape, CallFits, Expecting
<1>6. LoopShape'
  BY <1>1, <1>2 DEF ControlInv, LoopShape, Running
<1>7. Turns'
  BY <1>1, <1>2, <1>3, Actors DEF ControlInv, Turns, OnItsWay, Running
<1>8. OneLoop'
  BY <1>1, <1>4 DEF ControlInv, OneLoop
<1>9. ReadsFit'
  BY <1>1, <1>2 DEF ControlInv, ReadsFit, Waits
<1>10. StaysOn'
  BY <1>1, <1>2 DEF ControlInv, StaysOn, IsConnected, Expecting
<1> QED BY <1>5, <1>6, <1>7, <1>8, <1>9, <1>10 DEF ControlInv

-----------------------------------------------------------------------------
(* RtspClient: what is on its way between server and client. *)

IsAnswer(u) == u.part = "answer"

LEMMA AnswerAtIs ==
  ASSUME NEW s, IsSequence(s)
  PROVE  /\ AnswerAt(s) \in 0 .. Len(s)
         /\ AnswerAt(s) = 0 => \A i \in 1 .. Len(s) : ~IsAnswer(s[i])
         /\ AnswerAt(s) > 0 => /\ AnswerAt(s) \in 1 .. Len(s) /\ IsAnswer(s[AnswerAt(s)])
                               /\ \A i \in 1 .. Len(s) : IsAnswer(s[i]) => AnswerAt(s) <= i
<1> DEFINE at == {i \in DOMAIN s : s[i].part = "answer"}
<1>1. Len(s) \in Nat /\ DOMAIN s = 1 .. Len(s)
  BY SequenceLength
<1>2. at \subseteq Nat /\ at \subseteq 1 .. Len(s) /\ \A i \in 1 .. Len(s) : i \in at <=> IsAnswer(s[i])
  BY <1>1 DEF IsAnswer
<1>3. AnswerAt(s) = IF at = {} THEN 0 ELSE CHOOSE i \in at : \A j \in at : i <= j
  BY DEF AnswerAt
<1> HIDE DEF at
<1>4. CASE at = {}
  BY <1>1, <1>2, <1>3, <1>4
<1>5. CASE at # {}
  <2>1. \E b \in at : \A c \in at : b <= c
    BY <1>2, <1>5, LeastNumber
  <2>2. PICK k \in at : AnswerAt(s) = k /\ \A c \in at : k <= c
    BY <1>3, <1>5, <2>1
  <2>3. k \in 1 .. Len(s) /\ IsAnswer(s[k]) /\ \A i \in 1 .. Len(s) : IsAnswer(s[i]) => k <= i
    BY <1>2, <2>2
  <2>4. k \in 0 .. Len(s) /\ k > 0
    BY <1>1, <2>3
  <2> QED BY <2>2, <2>3, <2>4
<1> QED BY <1>4, <1>5

PeerFields == {"up", "asked", "serving", "served", "chans", "sid", "nonce", "nc"}

QueuesInv ==
  /\ IsSequence(unread) /\ IsSequence(wire) /\ IsSequence(got) /\ pending \in {0, 2}
  /\ DOMAIN peer = PeerFields /\ IsSequence(peer.asked)

LEMMA PeerAsked ==
  ASSUME DOMAIN peer = PeerFields, NEW asked
  PROVE  LET p == [peer EXCEPT !.asked = asked]
         IN  /\ DOMAIN p = PeerFields /\ p.asked = asked /\ p.up = peer.up
             /\ p.serving = peer.serving /\ p.served = peer.served
BY DEF PeerFields

\* What the server makes of a request leaves the requests behind it alone.
LEMMA ServedIs ==
  ASSUME NEW p, NEW r, DOMAIN p = PeerFields
  PROVE  /\ DOMAIN Served(p, r) = PeerFields
         /\ Served(p, r).asked = p.asked /\ Served(p, r).up = p.up
         /\ p.served => Served(p, r).served
         /\ Served(p, r).serving => Served(p, r).served \/ p.serving
<1>1. CASE r.method = "SETUP"
  BY <1>1 DEF Served, PeerFields
<1>2. CASE r.method = "PLAY"
  BY <1>2 DEF Served, PeerFields
<1>3. CASE r.method = "PAUSE"
  BY <1>3 DEF Served, PeerFields
<1>4. CASE r.method = "TEARDOWN"
  BY <1>4 DEF Served, PeerFields
<1>5. CASE r.method \notin {"SETUP", "PLAY", "PAUSE", "TEARDOWN"}
  <2>1. Served(p, r) = p
    BY <1>5 DEF Served
  <2> QED BY <2>1
<1> QED BY <1>1, <1>2, <1>3, <1>4, <1>5

\* An answer of the server, to the first of the requests.
LEMMA AnswerIs ==
  ASSUME QueuesInv, ServerAnswers
  PROVE  \E a : /\ a.part = "answer" /\ a.n = Head(peer.asked).n
                /\ wire' = Append(wire, a)
                /\ DOMAIN peer' = PeerFields /\ peer'.asked = Tail(peer.asked)
                /\ peer'.up = peer.up
                /\ peer.served => peer'.served
                /\ peer'.serving => peer'.served \/ peer.serving
<1> DEFINE r == Head(peer.asked)
           o == [peer EXCEPT !.asked = Tail(@)]
           P(odd) == IF odd = "renewed" THEN [o EXCEPT !.nonce = @ + 1, !.nc = 0] ELSE o
           St(odd) == IF odd = "error" THEN 500 ELSE StatusOf(P(odd), r)
           Q(odd) == IF Accepts(P(odd), r) THEN [P(odd) EXCEPT !.nc = r.auth.nc] ELSE P(odd)
<1>0. PICK odd \in {"no", "error", "garbled", "renewed"} :
        /\ peer' = IF St(odd) = 200 THEN Served(Q(odd), r) ELSE Q(odd)
        /\ wire' = Append(wire, AnswerTo(r, St(odd), P(odd).nonce, odd = "garbled"))
  BY DEF ServerAnswers
<1> HIDE DEF St, Q, P, o, r
<1> DEFINE a == AnswerTo(r, St(odd), P(odd).nonce, odd = "garbled")
<1>2. a.part = "answer" /\ a.n = r.n
  BY DEF Answer, AnswerTo
<1>3. /\ DOMAIN o = PeerFields /\ o.asked = Tail(peer.asked) /\ o.up = peer.up
      /\ o.serving = peer.serving /\ o.served = peer.served
  BY DEF QueuesInv, PeerFields, o
<1>4. /\ DOMAIN P(odd) = PeerFields /\ P(odd).asked = o.asked /\ P(odd).up = o.up
      /\ P(odd).serving = o.serving /\ P(odd).served = o.served
  BY <1>3 DEF PeerFields, P
<1>5. /\ DOMAIN Q(odd) = PeerFields /\ Q(odd).asked = o.asked /\ Q(odd).up = o.up
      /\ Q(odd).serving = o.serving /\ Q(odd).served = o.served
  BY <1>4 DEF PeerFields, Q
<1> HIDE DEF a
<1>6. /\ DOMAIN peer' = PeerFields /\ peer'.asked = Tail(peer.asked) /\ peer'.up = peer.up
      /\ peer.served => peer'.served
      /\ peer'.serving => peer'.served \/ peer.serving
  <2>1. CASE St(odd) = 200
    <3>1. peer' = Served(Q(odd), r)
      BY <1>0, <2>1
    <3>2. /\ DOMAIN peer' = PeerFields
          /\ peer'.asked = Q(odd).asked /\ peer'.up = Q(odd).up
          /\ Q(odd).served => peer'.served
          /\ peer'.serving => peer'.served \/ Q(odd).serving
      BY <1>5, <3>1, ServedIs
    <3> QED BY <1>3, <1>5, <3>2
  <2>2. CASE St(odd) # 200
    <3>1. peer' = Q(odd)
      BY <1>0, <2>2
    <3> QED BY <1>3, <1>5, <3>1
  <2> QED BY <2>1, <2>2
<1>7. wire' = Append(wire, a)
  BY <1>0 DEF a
<1> QED BY <1>2, <1>6, <1>7 DEF r

BaseInv == ControlInv /\ QueuesInv

LEMMA ArriveReads ==
  ASSUME BaseInv, Arrive
  PROVE  /\ Entries(reads', ready') /\ Waiting(reads', ready') = Waiting(reads, ready)
         /\ IsSequence(wire')
<1>1. PICK k \in 1 .. Len(wire) :
        /\ ready' = Append(ready, [who |-> reads[1], how |-> "data", data |-> SubSeq(wire, 1, k)])
        /\ wire' = Behind(wire, k)
  BY DEF Arrive
<1>2. reads # <<>> /\ reads' = Tail(reads)
  BY DEF Arrive
<1>3. k \in Nat /\ 0 \in Nat /\ 0 <= k /\ k <= Len(wire) /\ IsSequence(wire) /\ 0 + 1 = 1
  BY SequenceLength DEF BaseInv, QueuesInv
<1> DEFINE data == SubSeq(wire, 1, k)
<1>4. IsSequence(SubSeq(wire, 0 + 1, k)) /\ IsSequence(wire')
  BY <1>1, <1>3, PieceOfSequence, BehindSequence
<1>5. IsSequence(data)
  BY <1>3, <1>4
<1> HIDE DEF data
<1>6. Entries(reads, ready)
  BY DEF BaseInv, ControlInv, ReadsFit
<1>7. ready' = Append(ready, [who |-> reads[1], how |-> "data", data |-> data])
  BY <1>1 DEF data
<1>8. Entries(reads', ready') /\ Waiting(reads', ready') = Waiting(reads, ready)
  BY <1>2, <1>5, <1>6, <1>7, ReadCompleted
<1> QED BY <1>4, <1>8

LEMMA EndOfStreamReads ==
  ASSUME ControlInv, EndOfStream
  PROVE  Entries(reads', ready') /\ Waiting(reads', ready') = Waiting(reads, ready)
<1>1. /\ ready' = Append(ready, [who |-> reads[1], how |-> "eof", data |-> <<>>])
      /\ reads # <<>> /\ reads' = Tail(reads)
  BY DEF EndOfStream
<1>2. Entries(reads, ready)
  BY DEF ControlInv, ReadsFit
<1> QED BY <1>1, <1>2, EmptySequence, ReadCompleted

\* The coroutine that goes on is the only one, and had waited for this.
LEMMA ResumeReads ==
  ASSUME ControlInv, Resume
  PROVE  LET r == Head(ready)
         IN  /\ IsSequence(ready) /\ ready # <<>> /\ ready' = Tail(ready)
             /\ Entries(reads', ready')
             /\ Waiting(reads', ready') = Waiting(reads, ready) \ {r.who}
             /\ Waits(r.who) /\ IsSequence(r.data) /\ (r.how # "data" => r.data = <<>>)
             /\ thread = Nobody
<1>1. ready # <<>> /\ ready' = Tail(ready) /\ reads' = reads /\ thread = Nobody
  BY DEF Resume, Idle
<1>2. Entries(reads, ready) /\ \A w \in Waiting(reads, ready) : Waits(w)
  BY DEF ControlInv, ReadsFit
<1>3. IsSequence(ready)
  BY <1>2 DEF Entries
<1> QED BY <1>1, <1>2, <1>3, ReadTaken

LEMMA ResumeControl == ASSUME ControlInv, Resume PROVE ControlInv'
<1> DEFINE r == Head(ready)
<1>1. /\ Entries(reads', ready') /\ Waiting(reads', ready') = Waiting(reads, ready) \ {r.who}
      /\ Waits(r.who) /\ thread = Nobody
  BY ResumeReads
<1>2. UNCHANGED <<session, receiving, active, open, plays>>
  BY DEF Resume, memberVars, bounds
<1>3. r.who # Caller /\ UNCHANGED <<call, reads>>
  BY DEF Resume
<1> DEFINE place == IF r.how = "data" THEN "scan" ELSE "exit"
<1>4. /\ thread' = r.who /\ connected' = (connected /\ r.how # "eof")
      /\ loop' = [loop EXCEPT ![r.who] = place]
  BY DEF Resume
<1>5. r.who \in Loops /\ loop[r.who] = "reading"
  BY <1>1, <1>3 DEF Waits
<1>6. /\ OnItsWay(r.who) /\ place \in Running
      /\ (connected => connected') \/ place = "exit"
  <2>1. CASE r.how = "data"
    <3>1. connected => connected'
      BY <1>4, <2>1
    <3>2. place = "scan"
      BY <2>1
    <3> QED BY <1>5, <3>1, <3>2 DEF OnItsWay, Running
  <2>2. CASE r.how # "data"
    <3>1. place = "exit"
      BY <2>2
    <3> QED BY <1>5, <3>1 DEF OnItsWay, Running
  <2> QED BY <2>1, <2>2
<1> HIDE DEF place, r
<1> QED BY <1>1, <1>2, <1>3, <1>4, <1>5, <1>6, LoopMovesControl

\* What a read brings to the buffer.
LEMMA BroughtReads ==
  ASSUME ControlInv, Resume \/ CallResumes
  PROVE  LET r == Head(ready)
         IN  /\ IsSequence(ready) /\ ready # <<>> /\ ready' = Tail(ready)
             /\ IsSequence(r.data) /\ (r.how # "data" => r.data = <<>>)
             /\ unread' = unread \o r.data
             /\ UNCHANGED <<pending, peer, got, wire, streamed>>
<1>1. ready # <<>> /\ ready' = Tail(ready)
  BY DEF Resume, CallResumes
<1>2. Entries(reads, ready)
  BY DEF ControlInv, ReadsFit
<1>3. /\ unread' = unread \o Head(ready).data
      /\ UNCHANGED <<pending, peer, got, wire, streamed>>
  BY DEF Resume, CallResumes, Appended
<1>4. IsSequence(ready)
  BY <1>2 DEF Entries
<1> QED BY <1>1, <1>2, <1>3, <1>4, ReadTaken

LEMMA QueuesInit == ClientInit => QueuesInv
<1> SUFFICES ASSUME ClientInit PROVE QueuesInv
  OBVIOUS
<1>1. /\ unread = <<>> /\ pending = 0 /\ wire = <<>> /\ got = <<>>
      /\ peer = [NewPeer EXCEPT !.up = FALSE]
  BY DEF ClientInit
<1>2. DOMAIN peer = PeerFields /\ peer.asked = <<>>
  BY <1>1 DEF NewPeer, PeerFields
<1> QED BY <1>1, <1>2, EmptySequence DEF QueuesInv

\* The steps of the socket and of the server, and those that begin or end a connection.
LEMMA StreamQueues ==
  ASSUME BaseInv,
         Connect \/ CloseGoesOn \/ Send \/ Arrive \/ Resume \/ CallResumes \/ Server
  PROVE  QueuesInv'
<1>0. QueuesInv
  BY DEF BaseInv
<1>1. CASE Connect
  <2>1. PICK ok \in BOOLEAN : peer' = [NewPeer EXCEPT !.up = ok, !.nonce = peer.nonce + 1]
    BY <1>1 DEF Connect
  <2>2. DOMAIN peer' = PeerFields /\ peer'.asked = <<>>
    BY <2>1 DEF NewPeer, PeerFields
  <2> QED BY <1>1, <2>2, EmptySequence DEF Connect, QueuesInv
<1>2. CASE CloseGoesOn
  <2>1. peer' = [NewPeer EXCEPT !.up = FALSE, !.nonce = peer.nonce]
    BY <1>2 DEF CloseGoesOn
  <2>2. DOMAIN peer' = PeerFields /\ peer'.asked = <<>>
    BY <2>1 DEF NewPeer, PeerFields
  <2> QED BY <1>0, <1>2, <2>2, EmptySequence DEF CloseGoesOn, QueuesInv
<1>3. CASE Send
  <2>1. UNCHANGED <<unread, pending, wire, got>>
    BY <1>3 DEF Send, ioVars
  <2>2. peer' = peer \/ \E r : peer' = [peer EXCEPT !.asked = Append(peer.asked, r)]
    BY <1>3 DEF Send
  <2>3. ASSUME NEW r, peer' = [peer EXCEPT !.asked = Append(peer.asked, r)]
        PROVE  DOMAIN peer' = PeerFields /\ IsSequence(peer'.asked)
    <3>1. DOMAIN peer' = PeerFields /\ peer'.asked = Append(peer.asked, r)
      BY <1>0, <2>3, PeerAsked DEF QueuesInv
    <3> QED BY <1>0, <3>1, AppendedSequence DEF QueuesInv
  <2> QED BY <1>0, <2>1, <2>2, <2>3 DEF QueuesInv
<1>4. CASE Arrive
  <2>1. UNCHANGED <<unread, pending, peer, got>>
    BY <1>4 DEF Arrive, connVars
  <2> QED BY <1>0, <1>4, <2>1, ArriveReads DEF QueuesInv
<1>5. CASE Resume \/ CallResumes
  <2>1. UNCHANGED <<pending, peer, got, wire>> /\ unread' = unread \o Head(ready).data
    BY <1>5, BroughtReads DEF BaseInv
  <2>2. IsSequence(Head(ready).data)
    BY <1>5, BroughtReads DEF BaseInv
  <2>3. IsSequence(unread')
    BY <1>0, <2>1, <2>2, JoinedSequence DEF QueuesInv
  <2> QED BY <1>0, <2>1, <2>3 DEF QueuesInv
<1>6. CASE ServerAnswers
  <2>1. UNCHANGED <<unread, pending, got>> /\ peer.asked # <<>>
    BY <1>6 DEF ServerAnswers, connVars
  <2>2. PICK a : /\ wire' = Append(wire, a) /\ DOMAIN peer' = PeerFields
                 /\ peer'.asked = Tail(peer.asked)
    BY <1>0, <1>6, AnswerIs
  <2>3. IsSequence(wire') /\ IsSequence(peer'.asked)
    BY <1>0, <2>1, <2>2, AppendedSequence, TailOfSequence DEF QueuesInv
  <2> QED BY <1>0, <2>1, <2>2, <2>3 DEF QueuesInv
<1>7. CASE ServerIgnores
  <2>1. /\ UNCHANGED <<unread, pending, got, wire>> /\ peer.asked # <<>>
        /\ peer' = [peer EXCEPT !.asked = Tail(peer.asked)]
    BY <1>7 DEF ServerIgnores, connVars, ioVars
  <2>2. DOMAIN peer' = PeerFields /\ peer'.asked = Tail(peer.asked)
    BY <1>0, <2>1, PeerAsked DEF QueuesInv
  <2>3. IsSequence(peer'.asked)
    BY <1>0, <2>1, <2>2, TailOfSequence DEF QueuesInv
  <2> QED BY <1>0, <2>1, <2>2, <2>3 DEF QueuesInv
<1>8. CASE ServerSends
  <2>1. UNCHANGED <<unread, pending, got, peer>>
    BY <1>8 DEF ServerSends, connVars
  <2>2. PICK c : wire' = wire \o <<FrameHead(streamed + 1, c), FrameTail(streamed + 1, c)>>
    BY <1>8 DEF ServerSends
  <2> DEFINE both == <<FrameHead(streamed + 1, c), FrameTail(streamed + 1, c)>>
  <2>3. both \in Seq({FrameHead(streamed + 1, c), FrameTail(streamed + 1, c)})
    OBVIOUS
  <2> HIDE DEF both
  <2>4. IsSequence(both)
    BY <2>3 DEF IsSequence
  <2>5. IsSequence(wire')
    BY <1>0, <2>2, <2>4, JoinedSequence DEF QueuesInv, both
  <2> QED BY <1>0, <2>1, <2>5 DEF QueuesInv
<1>9. CASE ServerLeaves
  <2>1. UNCHANGED <<unread, pending, got, wire>>
    BY <1>9 DEF ServerLeaves, connVars, ioVars
  <2>2. DOMAIN peer' = PeerFields /\ peer'.asked = <<>>
    BY <1>0, <1>9 DEF ServerLeaves, QueuesInv, PeerFields
  <2> QED BY <1>0, <2>1, <2>2, EmptySequence DEF QueuesInv
<1> QED BY <1>1, <1>2, <1>3, <1>4, <1>5, <1>6, <1>7, <1>8, <1>9 DEF Server

\* Those that take something out of the buffer.
LEMMA BufferQueues ==
  ASSUME BaseInv,
         SkipFrame \/ TakeAnswer
           \/ \E l \in Loops : LoopTop(l) \/ LoopSkips(l) \/ LoopFrame(l)
  PROVE  QueuesInv'
<1>0. QueuesInv
  BY DEF BaseInv
<1>1. UNCHANGED <<wire, peer>>
  BY DEF SkipFrame, TakeAnswer, LoopTop, LoopSkips, LoopFrame, ioVars
<1>2. ASSUME \E n \in Nat : unread' = Behind(unread, n)
      PROVE  IsSequence(unread')
  BY <1>0, <1>2, BehindSequence DEF QueuesInv
<1>3. AnswerAt(unread) \in Nat
  <2>1. AnswerAt(unread) \in 0 .. Len(unread) /\ Len(unread) \in Nat
    BY <1>0, AnswerAtIs, SequenceLength DEF QueuesInv
  <2> QED BY <2>1
<1>4. CASE SkipFrame
  <2>1. unread' = Behind(unread, 2) /\ UNCHANGED <<pending, got>>
    BY <1>4 DEF SkipFrame
  <2> QED BY <1>0, <1>1, <1>2, <2>1 DEF QueuesInv
<1>5. CASE TakeAnswer
  <2>1. unread' = Behind(unread, AnswerAt(unread)) /\ UNCHANGED <<pending, got>>
    BY <1>5 DEF TakeAnswer, TakenUpTo
  <2> QED BY <1>0, <1>1, <1>2, <1>3, <2>1 DEF QueuesInv
<1>6. ASSUME NEW l \in Loops, LoopTop(l) PROVE QueuesInv'
  <2>1. UNCHANGED got
    BY <1>6 DEF LoopTop
  <2>2. CASE receiving /\ IsConnected
    <3>1. unread' = Behind(unread, pending) /\ pending' = 0 /\ pending \in Nat
      BY <1>0, <1>6, <2>2 DEF LoopTop, QueuesInv
    <3> QED BY <1>0, <1>1, <1>2, <2>1, <3>1 DEF QueuesInv
  <2>3. CASE ~(receiving /\ IsConnected)
    <3>1. UNCHANGED <<unread, pending>>
      BY <1>6, <2>3 DEF LoopTop
    <3> QED BY <1>0, <1>1, <2>1, <3>1 DEF QueuesInv
  <2> QED BY <2>2, <2>3
<1>7. ASSUME NEW l \in Loops, LoopSkips(l) PROVE QueuesInv'
  <2>1. unread' = Behind(unread, AnswerAt(unread)) /\ UNCHANGED <<pending, got>>
    BY <1>7 DEF LoopSkips
  <2> QED BY <1>0, <1>1, <1>2, <1>3, <2>1 DEF QueuesInv
<1>8. ASSUME NEW l \in Loops, LoopFrame(l) PROVE QueuesInv'
  <2>1. /\ UNCHANGED unread /\ pending' = 2
        /\ got' = got \/ got' = Append(got, <<unread[1], unread[2]>>)
    BY <1>8 DEF LoopFrame
  <2>2. IsSequence(got')
    <3>1. IsSequence(got)
      BY <1>0 DEF QueuesInv
    <3>2. IsSequence(Append(got, <<unread[1], unread[2]>>))
      BY <3>1, AppendedSequence
    <3> QED BY <2>1, <3>1, <3>2
  <2> QED BY <1>0, <1>1, <2>1, <2>2 DEF QueuesInv
<1> QED BY <1>4, <1>5, <1>6, <1>7, <1>8

LEMMA QueuesStay ==
  ASSUME QueuesInv, UNCHANGED <<unread, wire, got, pending, peer>>
  PROVE  QueuesInv'
BY DEF QueuesInv

\* The rest of the calls: they leave the connection and the server alone.
LEMMA AppQueues ==
  ASSUME BaseInv,
         \/ SetCredentials \/ SetAuthProvider
         \/ \E op \in {"describe", "setup", "play", "pause"} : Request(op)
         \/ Teardown \/ Close \/ TeardownGoesOn
         \/ AwaitAnswer \/ RetryWithAuth \/ OptionsDone \/ DescribeDone
         \/ SetupDone \/ PlayDone \/ PauseDone \/ TeardownDone \/ CallFails
         \/ Timeout \/ GiveUp \/ CallHasRead \/ EndOfStream
         \/ \E l \in Loops : LoopReads(l) \/ LoopExit(l)
  PROVE  UNCHANGED <<unread, wire, got, pending, peer>>
<1>1. CASE SetCredentials \/ SetAuthProvider
  BY <1>1 DEF SetCredentials, SetAuthProvider, connVars, ioVars
<1>2. CASE \E op \in {"describe", "setup", "play", "pause"} : Request(op)
  BY <1>2 DEF Request, connVars, ioVars
<1>3. CASE Teardown \/ Close
  BY <1>3 DEF Teardown, Close, connVars
<1>4. CASE TeardownGoesOn \/ AwaitAnswer \/ RetryWithAuth \/ OptionsDone
  BY <1>4 DEF TeardownGoesOn, AwaitAnswer, RetryWithAuth, OptionsDone, connVars, ioVars
<1>5. CASE DescribeDone \/ SetupDone \/ PlayDone
  BY <1>5 DEF DescribeDone, SetupDone, PlayDone, connVars, ioVars
<1>6. CASE PauseDone \/ TeardownDone \/ CallFails
  BY <1>6 DEF PauseDone, TeardownDone, CallFails, connVars, ioVars
<1>7. CASE Timeout \/ GiveUp \/ CallHasRead \/ EndOfStream
  BY <1>7 DEF Timeout, GiveUp, CallHasRead, EndOfStream, connVars
<1>8. CASE \E l \in Loops : LoopReads(l) \/ LoopExit(l)
  BY <1>8 DEF LoopReads, LoopExit, connVars, ioVars
<1> QED BY <1>1, <1>2, <1>3, <1>4, <1>5, <1>6, <1>7, <1>8

\* What neither runs a coroutine nor reads.
LEMMA OthersControl ==
  ASSUME BaseInv,
         \/ SetCredentials \/ SetAuthProvider \/ SkipFrame \/ Server
         \/ \E l \in Loops : LoopSkips(l)
  PROVE  ControlInv'
<1>1. ControlInv
  BY DEF BaseInv
<1>2. UNCHANGED controlVars
  <2>1. CASE SetCredentials \/ SetAuthProvider
    BY <2>1 DEF SetCredentials, SetAuthProvider, controlVars, connVars, ioVars, bounds
  <2>2. CASE SkipFrame \/ \E l \in Loops : LoopSkips(l)
    BY <2>2 DEF SkipFrame, LoopSkips, controlVars, memberVars, ioVars, bounds
  <2>3. CASE Server
    BY <2>3 DEF Server, ServerAnswers, ServerIgnores, ServerSends, ServerLeaves,
                controlVars, memberVars, connVars, ioVars, bounds
  <2> QED BY <2>1, <2>2, <2>3
<1> QED BY <1>1, <1>2, ControlStays

LEMMA FrontReadGone ==
  ASSUME ControlInv, reads # <<>>, reads' = Tail(reads)
  PROVE  \A i \in 1 .. Len(reads') : \E j \in 1 .. Len(reads) : reads'[i] = reads[j]
<1>1. IsSequence(reads)
  BY DEF ControlInv, ReadsFit, Entries
<1>2. /\ Len(reads') = Len(reads) - 1 /\ Len(reads) \in Nat
      /\ \A i \in 1 .. Len(reads') : i + 1 \in 1 .. Len(reads) /\ reads'[i] = reads[i + 1]
  BY <1>1, TailOfSequence, SequenceLength
<1> QED BY <1>2

LEMMA BaseNext ==
  ASSUME PlaysOnce, BaseInv, [ClientNext]_clientVars
  PROVE  BaseInv'
<1>0. ControlInv /\ QueuesInv
  BY DEF BaseInv
<1>1. CASE Connect
  BY <1>0, <1>1, ConnectControl, StreamQueues DEF BaseInv
<1>2. CASE SetCredentials \/ SetAuthProvider
  BY <1>0, <1>2, OthersControl, AppQueues, QueuesStay DEF BaseInv
<1>3. ASSUME NEW op \in {"describe", "setup", "play", "pause"}, Request(op) PROVE BaseInv'
  BY <1>0, <1>3, RequestControl, AppQueues, QueuesStay DEF BaseInv
<1>4. CASE Teardown \/ Close
  BY <1>0, <1>4, EndingControl, AppQueues, QueuesStay DEF BaseInv
<1>5. CASE TeardownGoesOn
  BY <1>0, <1>5, TeardownGoesOnControl, AppQueues, QueuesStay DEF BaseInv
<1>6. CASE CloseGoesOn
  BY <1>0, <1>6, CloseGoesOnControl, StreamQueues DEF BaseInv
<1>7. CASE Send
  BY <1>0, <1>7, SendControl, StreamQueues DEF BaseInv
<1>8. CASE SkipFrame
  BY <1>0, <1>8, OthersControl, BufferQueues DEF BaseInv
<1>9. CASE TakeAnswer
  BY <1>0, <1>9, AnsweredControl, BufferQueues DEF BaseInv
<1>10. CASE AwaitAnswer
  BY <1>0, <1>10, AwaitAnswerControl, AppQueues, QueuesStay DEF BaseInv
<1>11. CASE RetryWithAuth \/ OptionsDone
  BY <1>0, <1>11, AnsweredControl, AppQueues, QueuesStay DEF BaseInv
<1>12. CASE DescribeDone
  BY <1>0, <1>12, DescribeDoneControl, AppQueues, QueuesStay DEF BaseInv
<1>13. CASE SetupDone
  BY <1>0, <1>13, SetupDoneControl, AppQueues, QueuesStay DEF BaseInv
<1>14. CASE PlayDone
  BY <1>0, <1>14, PlayDoneControl, AppQueues, QueuesStay DEF BaseInv
<1>15. CASE PauseDone
  BY <1>0, <1>15, PauseDoneControl, AppQueues, QueuesStay DEF BaseInv
<1>16. CASE TeardownDone
  BY <1>0, <1>16, TeardownDoneControl, AppQueues, QueuesStay DEF BaseInv
<1>17. CASE CallFails
  BY <1>0, <1>17, CallFailsControl, AppQueues, QueuesStay DEF BaseInv
<1>18. CASE Timeout
  BY <1>0, <1>18, TimeoutControl, AppQueues, QueuesStay DEF BaseInv
<1>29. CASE GiveUp
  BY <1>0, <1>29, GiveUpControl, AppQueues, QueuesStay DEF BaseInv
<1>30. CASE CallHasRead
  BY <1>0, <1>30, CallHasReadControl, AppQueues, QueuesStay DEF BaseInv
<1>31. CASE CallResumes
  BY <1>0, <1>31, CallResumesControl, StreamQueues DEF BaseInv
<1>19. ASSUME NEW l \in Loops, LoopTop(l) PROVE BaseInv'
  BY <1>0, <1>19, LoopTopControl, BufferQueues DEF BaseInv
<1>20. ASSUME NEW l \in Loops, LoopSkips(l) PROVE BaseInv'
  BY <1>0, <1>20, OthersControl, BufferQueues DEF BaseInv
<1>21. ASSUME NEW l \in Loops, LoopFrame(l) PROVE BaseInv'
  BY <1>0, <1>21, LoopFrameControl, BufferQueues DEF BaseInv
<1>22. ASSUME NEW l \in Loops, LoopReads(l) PROVE BaseInv'
  BY <1>0, <1>22, LoopReadsControl, AppQueues, QueuesStay DEF BaseInv
<1>23. ASSUME NEW l \in Loops, LoopExit(l) PROVE BaseInv'
  BY <1>0, <1>23, LoopExitControl, AppQueues, QueuesStay DEF BaseInv
<1>24. CASE Arrive
  <2>1. UNCHANGED <<session, receiving, active, connected, open, call, loop, thread, plays>>
    BY <1>24 DEF Arrive, memberVars, connVars, bounds
  <2>2. Entries(reads', ready') /\ Waiting(reads', ready') \subseteq Waiting(reads, ready)
    BY <1>24, ArriveReads
  <2>3. reads # <<>> /\ reads' = Tail(reads)
    BY <1>24 DEF Arrive
  <2>4. ControlInv'
    BY <1>0, <2>1, <2>2, <2>3, FrontReadGone, ReadsMove
  <2> QED BY <1>24, <2>4, StreamQueues DEF BaseInv
<1>25. CASE EndOfStream
  <2>1. UNCHANGED <<session, receiving, active, connected, open, call, loop, thread, plays>>
    BY <1>25 DEF EndOfStream, memberVars, connVars, bounds
  <2>2. Entries(reads', ready') /\ Waiting(reads', ready') \subseteq Waiting(reads, ready)
    BY <1>0, <1>25, EndOfStreamReads
  <2>3. reads # <<>> /\ reads' = Tail(reads)
    BY <1>25 DEF EndOfStream
  <2>4. ControlInv'
    BY <1>0, <2>1, <2>2, <2>3, FrontReadGone, ReadsMove
  <2> QED BY <1>0, <1>25, <2>4, AppQueues, QueuesStay DEF BaseInv
<1>26. CASE Resume
  BY <1>0, <1>26, ResumeControl, StreamQueues DEF BaseInv
<1>27. CASE Server
  BY <1>0, <1>27, OthersControl, StreamQueues DEF BaseInv
<1>28. CASE UNCHANGED clientVars
  <2>1. UNCHANGED controlVars /\ UNCHANGED <<unread, wire, got, pending, peer>>
    BY <1>28 DEF clientVars, controlVars, memberVars, connVars, ioVars, bounds
  <2> QED BY <1>0, <2>1, ControlStays, QueuesStay DEF BaseInv
<1> QED
  BY <1>1, <1>2, <1>3, <1>4, <1>5, <1>6, <1>7, <1>8, <1>9, <1>10, <1>11, <1>12, <1>13,
     <1>14, <1>15, <1>16, <1>17, <1>18, <1>19, <1>20, <1>21, <1>22, <1>23, <1>24, <1>25,
     <1>26, <1>27, <1>28, <1>29, <1>30, <1>31, Zenon
  DEF ClientNext, App, CallStep, LoopStep, Socket, Resumes

-----------------------------------------------------------------------------
(* RtspClient: the answers among what is on its way. *)

NoneIn(s)   == \A i \in 1 .. Len(s) : ~IsAnswer(s[i])
OneOf(s, c) == \A i, j \in 1 .. Len(s) :
                 IsAnswer(s[i]) /\ IsAnswer(s[j]) => i = j /\ s[i].n = c

LEMMA NoneIsOne ==
  ASSUME NEW s, NoneIn(s), NEW c
  PROVE  OneOf(s, c)
BY DEF NoneIn, OneOf

LEMMA NoneInNothing == NoneIn(<<>>)
BY EmptySequence DEF NoneIn

LEMMA BehindAnswers ==
  ASSUME NEW s, IsSequence(s), NEW n \in Nat, NEW c
  PROVE  /\ NoneIn(s) => NoneIn(Behind(s, n))
         /\ OneOf(s, c) => OneOf(Behind(s, n), c)
<1> DEFINE t == Behind(s, n)
<1>1. /\ Len(t) \in Nat
      /\ \A i \in 1 .. Len(t) : n + i \in 1 .. Len(s) /\ t[i] = s[n + i]
  BY BehindSequence, SequenceLength
<1> HIDE DEF t
<1>2. NoneIn(s) => NoneIn(t)
  BY <1>1 DEF NoneIn
<1>3. ASSUME OneOf(s, c) PROVE OneOf(t, c)
  <2> SUFFICES ASSUME NEW i \in 1 .. Len(t), NEW j \in 1 .. Len(t),
                      IsAnswer(t[i]), IsAnswer(t[j])
               PROVE  i = j /\ t[i].n = c
    BY DEF OneOf
  <2>1. n + i \in 1 .. Len(s) /\ n + j \in 1 .. Len(s) /\ t[i] = s[n + i] /\ t[j] = s[n + j]
    BY <1>1
  <2>2. n + i = n + j /\ s[n + i].n = c
    BY <1>3, <2>1 DEF OneOf
  <2> QED BY <1>1, <2>1, <2>2
<1> QED BY <1>2, <1>3 DEF t

LEMMA JoinedAnswers ==
  ASSUME NEW s, NEW t, IsSequence(s), IsSequence(t), NEW c
  PROVE  /\ NoneIn(s) /\ NoneIn(t) => NoneIn(s \o t)
         /\ OneOf(s, c) /\ NoneIn(t) => OneOf(s \o t, c)
         /\ NoneIn(s) /\ OneOf(t, c) => OneOf(s \o t, c)
<1> DEFINE all == s \o t
<1>1. /\ Len(s) \in Nat /\ Len(t) \in Nat /\ Len(all) = Len(s) + Len(t)
      /\ \A i \in 1 .. Len(s) : all[i] = s[i]
      /\ \A i \in 1 .. Len(t) : all[Len(s) + i] = t[i]
      /\ \A i \in 1 .. Len(all) :
           i \in 1 .. Len(s) \/ \E j \in 1 .. Len(t) : i = Len(s) + j
  <2>1. Len(s) \in Nat /\ Len(t) \in Nat
    BY SequenceLength
  <2> QED BY <2>1, JoinedSequence
<1> HIDE DEF all
<1>2. NoneIn(s) /\ NoneIn(t) => NoneIn(all)
  <2> SUFFICES ASSUME NoneIn(s), NoneIn(t), NEW i \in 1 .. Len(all)
               PROVE  ~IsAnswer(all[i])
    BY DEF NoneIn
  <2>1. CASE i \in 1 .. Len(s)
    BY <1>1, <2>1 DEF NoneIn
  <2>2. CASE i \notin 1 .. Len(s)
    <3>1. PICK j \in 1 .. Len(t) : i = Len(s) + j
      BY <1>1, <2>2
    <3>2. all[i] = t[j] /\ ~IsAnswer(t[j])
      BY <1>1, <3>1 DEF NoneIn
    <3> QED BY <3>2
  <2> QED BY <2>1, <2>2
<1>3. ASSUME OneOf(s, c), NoneIn(t) PROVE OneOf(all, c)
  <2>1. \A i \in 1 .. Len(all) : IsAnswer(all[i]) => i \in 1 .. Len(s)
    BY <1>1, <1>3 DEF NoneIn
  <2> QED BY <1>1, <1>3, <2>1 DEF OneOf
<1>4. ASSUME NoneIn(s), OneOf(t, c) PROVE OneOf(all, c)
  <2>1. \A i \in 1 .. Len(all) : IsAnswer(all[i]) => \E j \in 1 .. Len(t) : i = Len(s) + j
    BY <1>1, <1>4 DEF NoneIn
  <2> SUFFICES ASSUME NEW i \in 1 .. Len(all), NEW j \in 1 .. Len(all),
                      IsAnswer(all[i]), IsAnswer(all[j])
               PROVE  i = j /\ all[i].n = c
    BY DEF OneOf
  <2>2. PICK k \in 1 .. Len(t) : i = Len(s) + k
    BY <2>1
  <2>3. PICK m \in 1 .. Len(t) : j = Len(s) + m
    BY <2>1
  <2>4. all[i] = t[k] /\ all[j] = t[m]
    BY <1>1, <2>2, <2>3
  <2>5. k = m /\ t[k].n = c
    BY <1>4, <2>4 DEF OneOf
  <2> QED BY <2>2, <2>3, <2>4, <2>5
<1> QED BY <1>2, <1>3, <1>4 DEF all

LEMMA AppendedAnswer ==
  ASSUME NEW s, IsSequence(s), NoneIn(s), NEW a, NEW c, a.n = c
  PROVE  OneOf(Append(s, a), c)
<1> DEFINE all == Append(s, a)
<1>1. /\ Len(s) \in Nat /\ Len(all) = Len(s) + 1
      /\ \A i \in 1 .. Len(s) : all[i] = s[i]
      /\ all[Len(s) + 1] = a
  BY AppendedSequence, SequenceLength
<1> HIDE DEF all
<1>2. \A i \in 1 .. Len(all) : i \in 1 .. Len(s) \/ i = Len(s) + 1
  BY <1>1
<1>3. \A i \in 1 .. Len(all) : IsAnswer(all[i]) => i = Len(s) + 1
  BY <1>1, <1>2 DEF NoneIn
<1>4. OneOf(all, c)
  BY <1>1, <1>3 DEF OneOf
<1> QED BY <1>4 DEF all

LEMMA SplitAnswers ==
  ASSUME NEW s, IsSequence(s), NEW k \in Nat, k <= Len(s), NEW c
  PROVE  LET p == SubSeq(s, 1, k)
             r == Behind(s, k)
         IN  /\ IsSequence(p) /\ IsSequence(r)
             /\ NoneIn(s) => NoneIn(p) /\ NoneIn(r)
             /\ OneOf(s, c) => /\ OneOf(p, c) /\ OneOf(r, c)
                               /\ NoneIn(p) \/ NoneIn(r)
<1> DEFINE p == SubSeq(s, 1, k)
           r == Behind(s, k)
<1>1. /\ IsSequence(r) /\ Len(r) \in Nat
      /\ \A i \in 1 .. Len(r) : k + i \in 1 .. Len(s) /\ r[i] = s[k + i]
  BY BehindSequence, SequenceLength
<1>2. /\ IsSequence(p) /\ Len(p) = k
      /\ \A i \in 1 .. k : p[i] = s[i]
  <2>1. 0 \in Nat /\ 0 <= k /\ p = SubSeq(s, 0 + 1, k)
    OBVIOUS
  <2> HIDE DEF p
  <2>2. /\ IsSequence(p) /\ Len(p) = k - 0 /\ \A i \in 1 .. k - 0 : p[i] = s[0 + i]
    BY <2>1, PieceOfSequence
  <2> QED BY <2>2
<1> HIDE DEF p, r
<1>3. \A i \in 1 .. Len(p) : i \in 1 .. Len(s)
  BY <1>2, SequenceLength
<1>4. NoneIn(s) => NoneIn(p) /\ NoneIn(r)
  BY <1>1, <1>2, <1>3 DEF NoneIn
<1>5. ASSUME OneOf(s, c) PROVE OneOf(p, c)
  BY <1>2, <1>3, <1>5 DEF OneOf
<1>6. OneOf(s, c) => OneOf(r, c)
  BY BehindAnswers DEF r
<1>7. ASSUME OneOf(s, c), ~NoneIn(p) PROVE NoneIn(r)
  <2>1. PICK i \in 1 .. Len(p) : IsAnswer(s[i]) /\ i \in 1 .. Len(s) /\ i <= k
    BY <1>2, <1>3, <1>7 DEF NoneIn
  <2>2. ASSUME NEW j \in 1 .. Len(r), IsAnswer(r[j]) PROVE FALSE
    <3>1. k + j \in 1 .. Len(s) /\ IsAnswer(s[k + j])
      BY <1>1, <2>2
    <3>2. k + j = i
      BY <1>7, <2>1, <3>1 DEF OneOf
    <3> QED BY <2>1, <3>2
  <2> QED BY <2>2 DEF NoneIn
<1> QED BY <1>1, <1>2, <1>4, <1>5, <1>6, <1>7 DEF p, r

LEMMA TakenAnswer ==
  ASSUME NEW s, IsSequence(s), NEW c, OneOf(s, c), AnswerAt(s) > 0
  PROVE  /\ NoneIn(Behind(s, AnswerAt(s)))
         /\ AnswerAt(s) \in 1 .. Len(s) /\ s[AnswerAt(s)].n = c
<1> DEFINE k == AnswerAt(s)
           t == Behind(s, k)
<1>1. k \in 1 .. Len(s) /\ IsAnswer(s[k])
  BY AnswerAtIs
<1>2. k \in Nat /\ Len(s) \in Nat
  BY <1>1, SequenceLength
<1> HIDE DEF k
<1>3. /\ Len(t) \in Nat
      /\ \A i \in 1 .. Len(t) : k + i \in 1 .. Len(s) /\ t[i] = s[k + i]
  BY <1>2, BehindSequence, SequenceLength
<1> HIDE DEF t
<1>4. ASSUME NEW i \in 1 .. Len(t), IsAnswer(t[i]) PROVE FALSE
  <2>1. k + i \in 1 .. Len(s) /\ IsAnswer(s[k + i])
    BY <1>3, <1>4
  <2>2. k + i = k
    BY <1>1, <2>1 DEF OneOf
  <2> QED BY <1>2, <2>2
<1>5. NoneIn(t)
  BY <1>4 DEF NoneIn
<1>6. s[k].n = c
  BY <1>1 DEF OneOf
<1> QED BY <1>1, <1>5, <1>6 DEF k, t

LEMMA NothingToTake ==
  ASSUME NEW s, IsSequence(s), ~CanTake(s)
  PROVE  NoneIn(s)
<1>1. Len(s) \in Nat
  BY SequenceLength
<1>2. CASE s = <<>>
  BY <1>2, NoneInNothing
<1>3. CASE s # <<>> /\ s[1].part = "head"
  <2>1. Len(s) < 2
    BY <1>1, <1>3 DEF CanTake, WholeFrame
  <2>2. \A i \in 1 .. Len(s) : i = 1
    BY <1>1, <2>1
  <2> QED BY <1>3, <2>2 DEF NoneIn, IsAnswer
<1>4. CASE s # <<>> /\ s[1].part # "head"
  <2>1. AnswerAt(s) = 0
    <3>1. ~(AnswerAt(s) > 0)
      BY <1>4 DEF CanTake
    <3>2. AnswerAt(s) \in 0 .. Len(s)
      BY AnswerAtIs
    <3> QED BY <1>1, <3>1, <3>2
  <2> QED BY <2>1, AnswerAtIs DEF NoneIn
<1> QED BY <1>2, <1>3, <1>4

-----------------------------------------------------------------------------
(* The answers in the completed reads. *)

AllFree(rd)      == \A i \in 1 .. Len(rd) : NoneIn(rd[i].data)
OneFilled(rd, c) ==
  /\ \A i \in 1 .. Len(rd) : OneOf(rd[i].data, c)
  /\ \A i, j \in 1 .. Len(rd) : ~NoneIn(rd[i].data) /\ ~NoneIn(rd[j].data) => i = j

LEMMA FreeIsFilled ==
  ASSUME NEW rd, AllFree(rd), NEW c
  PROVE  OneFilled(rd, c)
BY NoneIsOne DEF AllFree, OneFilled

LEMMA FilledAppended ==
  ASSUME NEW rd, IsSequence(rd), NEW e, NEW c, OneOf(e.data, c)
  PROVE  /\ AllFree(rd) => OneFilled(Append(rd, e), c)
         /\ AllFree(rd) /\ NoneIn(e.data) => AllFree(Append(rd, e))
         /\ OneFilled(rd, c) /\ NoneIn(e.data) => OneFilled(Append(rd, e), c)
<1> DEFINE all == Append(rd, e)
<1>1. /\ Len(rd) \in Nat /\ Len(all) = Len(rd) + 1
      /\ \A i \in 1 .. Len(rd) : all[i] = rd[i]
      /\ all[Len(rd) + 1] = e
  BY AppendedSequence, SequenceLength
<1> HIDE DEF all
<1>2. \A i \in 1 .. Len(all) : i \in 1 .. Len(rd) \/ i = Len(rd) + 1
  BY <1>1
<1>3. AllFree(rd) /\ NoneIn(e.data) => AllFree(all)
  BY <1>1, <1>2 DEF AllFree
<1>4. ASSUME AllFree(rd) PROVE OneFilled(all, c)
  <2>1. \A i \in 1 .. Len(all) : OneOf(all[i].data, c)
    BY <1>1, <1>2, <1>4, NoneIsOne DEF AllFree
  <2>2. \A i \in 1 .. Len(all) : ~NoneIn(all[i].data) => i = Len(rd) + 1
    BY <1>1, <1>2, <1>4 DEF AllFree
  <2> QED BY <2>1, <2>2 DEF OneFilled
<1>5. ASSUME OneFilled(rd, c), NoneIn(e.data) PROVE OneFilled(all, c)
  <2>1. \A i \in 1 .. Len(all) : OneOf(all[i].data, c)
    BY <1>1, <1>2, <1>5 DEF OneFilled
  <2>2. \A i \in 1 .. Len(all) : ~NoneIn(all[i].data) => i \in 1 .. Len(rd)
    BY <1>1, <1>2, <1>5
  <2>3. \A i, j \in 1 .. Len(all) : ~NoneIn(all[i].data) /\ ~NoneIn(all[j].data) => i = j
    BY <1>1, <1>5, <2>2 DEF OneFilled
  <2> QED BY <2>1, <2>3 DEF OneFilled
<1> QED BY <1>3, <1>4, <1>5 DEF all

LEMMA FilledTail ==
  ASSUME NEW rd, IsSequence(rd), rd # <<>>, NEW c
  PROVE  /\ AllFree(rd) => AllFree(Tail(rd)) /\ NoneIn(Head(rd).data)
         /\ OneFilled(rd, c) => /\ OneFilled(Tail(rd), c) /\ OneOf(Head(rd).data, c)
                                /\ NoneIn(Head(rd).data) \/ AllFree(Tail(rd))
<1> DEFINE rest == Tail(rd)
<1>1. /\ Len(rest) = Len(rd) - 1 /\ Len(rd) > 0 /\ Len(rd) \in Nat /\ Head(rd) = rd[1]
      /\ \A i \in 1 .. Len(rest) : i + 1 \in 1 .. Len(rd) /\ rest[i] = rd[i + 1]
  BY TailOfSequence, SequenceLength
<1> HIDE DEF rest
<1>2. 1 \in 1 .. Len(rd) /\ \A i \in 1 .. Len(rest) : i + 1 # 1
  BY <1>1
<1>3. AllFree(rd) => AllFree(rest) /\ NoneIn(Head(rd).data)
  BY <1>1, <1>2 DEF AllFree
<1>4. ASSUME OneFilled(rd, c)
      PROVE  /\ OneFilled(rest, c) /\ OneOf(Head(rd).data, c)
             /\ NoneIn(Head(rd).data) \/ AllFree(rest)
  <2>1. \A i \in 1 .. Len(rest) : OneOf(rest[i].data, c)
    BY <1>1, <1>4 DEF OneFilled
  <2>2. ASSUME NEW i \in 1 .. Len(rest), NEW j \in 1 .. Len(rest),
               ~NoneIn(rest[i].data), ~NoneIn(rest[j].data)
        PROVE  i = j
    <3>1. i + 1 = j + 1
      BY <1>1, <1>4, <2>2 DEF OneFilled
    <3> QED BY <3>1
  <2>3. OneOf(Head(rd).data, c)
    BY <1>1, <1>2, <1>4 DEF OneFilled
  <2>4. ASSUME ~NoneIn(Head(rd).data), NEW i \in 1 .. Len(rest), ~NoneIn(rest[i].data)
        PROVE  FALSE
    <3>1. i + 1 = 1
      BY <1>1, <1>2, <1>4, <2>4 DEF OneFilled
    <3> QED BY <1>2, <3>1
  <2> QED BY <2>1, <2>2, <2>3, <2>4 DEF OneFilled, AllFree
<1> QED BY <1>3, <1>4 DEF rest

LEMMA FreeCancelled ==
  ASSUME NEW rd, NEW rs, IsSequence(rd), IsSequence(rs), AllFree(rd)
  PROVE  AllFree(rd \o Aborted(rs))
<1> DEFINE t == Aborted(rs)
           all == rd \o t
<1>1. IsSequence(t) /\ Len(t) = Len(rs) /\ \A i \in 1 .. Len(rs) : t[i].data = <<>>
  BY AbortedAre
<1> HIDE DEF t
<1>2. /\ \A i \in 1 .. Len(rd) : all[i] = rd[i]
      /\ \A i \in 1 .. Len(t) : all[Len(rd) + i] = t[i]
      /\ \A i \in 1 .. Len(all) :
           i \in 1 .. Len(rd) \/ \E j \in 1 .. Len(t) : i = Len(rd) + j
  <2>1. IsSequence(rd) /\ IsSequence(t)
    BY <1>1
  <2> QED BY <2>1, JoinedSequence
<1> HIDE DEF all
<1>3. ASSUME NEW i \in 1 .. Len(all) PROVE NoneIn(all[i].data)
  <2>1. CASE i \in 1 .. Len(rd)
    BY <1>2, <2>1 DEF AllFree
  <2>2. CASE i \notin 1 .. Len(rd)
    <3>1. PICK j \in 1 .. Len(t) : i = Len(rd) + j
      BY <1>2, <2>2
    <3>2. all[i] = t[j] /\ t[j].data = <<>>
      BY <1>1, <1>2, <3>1
    <3> QED BY <3>2, NoneInNothing
  <2> QED BY <2>1, <2>2
<1> QED BY <1>3 DEF AllFree, all, t

LEMMA FreeGivenUp ==
  ASSUME NEW rd, NEW w, IsSequence(rd), \A i, j \in 1 .. Len(rd) : rd[i].who = rd[j].who => i = j,
         AllFree(rd)
  PROVE  LET t == GivenUp(rd, CompletedBy(w, rd)) IN IsSequence(t) /\ AllFree(t)
<1> DEFINE mine == CompletedBy(w, rd)
           t == GivenUp(rd, mine)
<1>1. mine \subseteq 1 .. Len(rd) /\ \A i, j \in mine : i = j
  BY DEF CompletedBy
<1> HIDE DEF mine
<1>2. Without(rd, mine, t)
  BY <1>1, GivenUpOne
<1> HIDE DEF t
<1>3. PICK f \in [1 .. Len(t) -> 1 .. Len(rd)] : \A j \in DOMAIN f : t[j] = rd[f[j]]
  BY <1>2 DEF Without
<1>4. \A j \in 1 .. Len(t) : f[j] \in 1 .. Len(rd) /\ t[j] = rd[f[j]]
  BY <1>3
<1> QED BY <1>2, <1>4 DEF AllFree, Without, t, mine

-----------------------------------------------------------------------------
(* RtspClient: a call is given the answer to its own request. *)

\* No request and no answer is under way.
Quiet == peer.asked = <<>> /\ NoneIn(wire) /\ AllFree(ready) /\ NoneIn(unread)

\* At most one is, for the request of the moment, in one place.
OneUnderWay ==
  /\ Len(peer.asked) <= 1 /\ (peer.asked # <<>> => peer.asked[1].n = cseq)
  /\ OneOf(wire, cseq) /\ OneFilled(ready, cseq) /\ OneOf(unread, cseq)
  /\ peer.asked # <<>> => NoneIn(wire) /\ AllFree(ready) /\ NoneIn(unread)
  /\ ~NoneIn(wire) => AllFree(ready) /\ NoneIn(unread)
  /\ ~AllFree(ready) => NoneIn(unread)

\* A call that has an answer has the one to its own request.
OwnNow == call.pc = "answer" => call.answer.cseq = cseq

AnswerInv ==
  /\ call.pc \notin Expecting => Quiet
  /\ OneUnderWay
  /\ OwnNow

LEMMA QuietIsOne ==
  ASSUME Quiet, NEW c
  PROVE  /\ OneOf(wire, c) /\ OneFilled(ready, c) /\ OneOf(unread, c)
         /\ Len(peer.asked) = 0
BY NoneIsOne, FreeIsFilled, EmptySequence DEF Quiet

\* Where nothing is under way nothing can go wrong.
LEMMA QuietAnswers ==
  ASSUME Quiet', call'.pc # "answer" \/ call'.answer.cseq = cseq'
  PROVE  AnswerInv'
<1>1. Quiet' => OneUnderWay'
  <2> SUFFICES ASSUME Quiet' PROVE OneUnderWay'
    OBVIOUS
  <2>1. /\ OneOf(wire', cseq') /\ OneFilled(ready', cseq') /\ OneOf(unread', cseq')
        /\ peer'.asked = <<>> /\ AllFree(ready') /\ NoneIn(unread')
    BY NoneIsOne, FreeIsFilled DEF Quiet
  <2>2. Len(peer'.asked) = 0
    BY <2>1, EmptySequence
  <2> QED BY <2>1, <2>2 DEF OneUnderWay
<1>2. OwnNow'
  BY DEF OwnNow
<1> QED BY <1>1, <1>2 DEF AnswerInv

LEMMA AnswerInit == ASSUME ClientInit PROVE AnswerInv
<1>1. /\ unread = <<>> /\ wire = <<>> /\ ready = <<>> /\ call = NoCall
      /\ peer = [NewPeer EXCEPT !.up = FALSE]
  BY DEF ClientInit
<1>2. peer.asked = <<>>
  BY <1>1 DEF NewPeer
<1>3. AllFree(ready)
  BY <1>1, EmptySequence DEF AllFree
<1>4. Quiet
  BY <1>1, <1>2, <1>3, NoneInNothing DEF Quiet
<1>5. call.pc = "none"
  BY <1>1, NoCallIs
<1>6. OneUnderWay
  BY <1>4, QuietIsOne DEF OneUnderWay, Quiet
<1> QED BY <1>4, <1>5, <1>6 DEF AnswerInv, OwnNow, Quiet, Expecting

\* Steps outside of the wait for an answer.
LEMMA OutsideAnswers ==
  ASSUME BaseInv, AnswerInv, call.pc \notin Expecting, call'.pc # "answer",
         peer'.asked \in {peer.asked, <<>>}, wire' \in {wire, <<>>}, unread' \in {unread, <<>>},
         UNCHANGED ready \/ CancelReads
  PROVE  AnswerInv'
<1>1. Quiet
  BY DEF AnswerInv
<1>2. IsSequence(reads) /\ IsSequence(ready)
  BY DEF BaseInv, ControlInv, ReadsFit, Entries
<1>3. AllFree(ready')
  <2>1. AllFree(ready)
    BY <1>1 DEF Quiet
  <2>2. CASE UNCHANGED ready
    BY <2>1, <2>2
  <2>3. CASE CancelReads
    <3>1. ready' = ready \o Aborted(reads)
      BY <2>3 DEF CancelReads
    <3> QED BY <1>2, <2>1, <3>1, FreeCancelled
  <2> QED BY <2>2, <2>3
<1>4. Quiet'
  BY <1>1, <1>3, NoneInNothing DEF Quiet
<1> QED BY <1>4, QuietAnswers

\* Steps that only take from the buffer.
LEMMA FewerAnswers ==
  ASSUME BaseInv, AnswerInv, NEW n \in Nat, unread' = Behind(unread, n),
         UNCHANGED <<peer, wire, ready, call, cseq>>
  PROVE  AnswerInv'
<1>1. IsSequence(unread)
  BY DEF BaseInv, QueuesInv
<1>2. NoneIn(unread) => NoneIn(unread')
  BY <1>1, BehindAnswers
<1>3. OneOf(unread, cseq) => OneOf(unread', cseq)
  BY <1>1, BehindAnswers
<1>4. OneUnderWay'
  BY <1>2, <1>3 DEF AnswerInv, OneUnderWay
<1>5. call'.pc \notin Expecting => Quiet'
  BY <1>2 DEF AnswerInv, Quiet
<1>6. OwnNow'
  BY DEF AnswerInv, OwnNow
<1> QED BY <1>4, <1>5, <1>6 DEF AnswerInv

\* Steps of the loops and of the server that leave all answers where they are.
LEMMA AnswersStay ==
  ASSUME BaseInv, AnswerInv, UNCHANGED <<unread, wire, ready, call, cseq>>, peer'.asked = peer.asked
  PROVE  AnswerInv'
<1>1. OneUnderWay'
  BY DEF AnswerInv, OneUnderWay
<1>2. call'.pc \notin Expecting => Quiet'
  BY DEF AnswerInv, Quiet
<1>3. OwnNow'
  BY DEF AnswerInv, OwnNow
<1> QED BY <1>1, <1>2, <1>3 DEF AnswerInv

LEMMA CallsAnswers ==
  ASSUME BaseInv, AnswerInv,
         \/ Connect \/ SetCredentials \/ SetAuthProvider
         \/ \E op \in {"describe", "setup", "play", "pause"} : Request(op)
         \/ Teardown \/ Close
  PROVE  AnswerInv'
<1>1. call = NoCall
  BY DEF Connect, SetCredentials, SetAuthProvider, Request, Teardown, Close, Called
<1>2. call.pc = "none" /\ call.pc \notin Expecting
  BY <1>1, NoCallIs DEF Expecting
<1>3. call' = call \/ \E op, pc : pc \in {"send", "wait"} /\ call' = CallOf(op, pc)
  BY DEF Connect, SetCredentials, SetAuthProvider, Request, Teardown, Close
<1>4. call'.pc # "answer"
  BY <1>2, <1>3, CallMade
<1>5. UNCHANGED ready \/ CancelReads
  BY DEF Connect, SetCredentials, SetAuthProvider, Request, Teardown, Close, ioVars
<1>6. unread' \in {unread, <<>>} /\ wire' \in {wire, <<>>}
  BY DEF Connect, SetCredentials, SetAuthProvider, Request, Teardown, Close, ioVars, connVars
<1>7. peer'.asked \in {peer.asked, <<>>}
  <2>1. CASE Connect
    <3>1. PICK ok \in BOOLEAN : peer' = [NewPeer EXCEPT !.up = ok, !.nonce = peer.nonce + 1]
      BY <2>1 DEF Connect
    <3> QED BY <3>1 DEF NewPeer
  <2>2. CASE ~Connect
    BY <2>2 DEF SetCredentials, SetAuthProvider, Request, Teardown, Close
  <2> QED BY <2>1, <2>2
<1> QED BY <1>2, <1>4, <1>5, <1>6, <1>7, OutsideAnswers

LEMMA DoneAnswers ==
  ASSUME BaseInv, AnswerInv,
         \/ TeardownGoesOn \/ RetryWithAuth \/ OptionsDone \/ DescribeDone \/ SetupDone
         \/ PlayDone \/ PauseDone \/ TeardownDone \/ CallFails
  PROVE  AnswerInv'
<1>1. call.pc \notin Expecting
  BY DEF TeardownGoesOn, RetryWithAuth, OptionsDone, DescribeDone, SetupDone, PlayDone,
         PauseDone, TeardownDone, CallFails, Succeeded, Failed, Expecting
<1>2. UNCHANGED <<peer, unread, wire, ready>>
  BY DEF TeardownGoesOn, RetryWithAuth, OptionsDone, DescribeDone, SetupDone, PlayDone,
         PauseDone, TeardownDone, CallFails, ioVars, connVars
<1>3. \/ call' = NoCall \/ NextRequest \/ call' = [call EXCEPT !.pc = "send"]
      \/ call' = [call EXCEPT !.pc = "send", !.retried = TRUE, !.answer = NoAnswer]
  BY DEF TeardownGoesOn, RetryWithAuth, OptionsDone, DescribeDone, SetupDone, PlayDone,
         PauseDone, TeardownDone, CallFails, Returns
<1>4. call'.pc # "answer"
  <2>1. CASE call' = NoCall
    BY <2>1, NoCallIs
  <2>2. CASE NextRequest
    BY <2>2, NextRequestIs
  <2>3. CASE call' = [call EXCEPT !.pc = "send"]
             \/ call' = [call EXCEPT !.pc = "send", !.retried = TRUE, !.answer = NoAnswer]
    BY <2>3 DEF BaseInv, ControlInv, CallShape
  <2> QED BY <1>3, <2>1, <2>2, <2>3
<1> QED BY <1>1, <1>2, <1>4, OutsideAnswers

\* close() leaves nothing behind, whatever has been under way.
LEMMA CloseAnswers == ASSUME BaseInv, CloseGoesOn PROVE AnswerInv'
<1>1. /\ call.pc = "wait" /\ ~active /\ call' = NoCall /\ unread' = <<>> /\ wire' = <<>>
      /\ ready' = ready \o Aborted(reads)
      /\ peer' = [NewPeer EXCEPT !.up = FALSE, !.nonce = peer.nonce]
  BY DEF CloseGoesOn, CancelReads, LoopIsOver
<1>2. peer'.asked = <<>>
  BY <1>1 DEF NewPeer
<1>3. call'.pc # "answer"
  BY <1>1, NoCallIs
<1>4. reads = <<>> /\ ready = <<>>
  BY <1>1, NobodyReads DEF BaseInv
<1>5. AllFree(ready')
  BY <1>1, <1>4, FreeCancelled, EmptySequence DEF AllFree
<1>6. Quiet'
  BY <1>1, <1>2, <1>5, NoneInNothing DEF Quiet
<1> QED BY <1>3, <1>6, QuietAnswers

\* Only now there is a request, and only if there is a server.
LEMMA SendAnswers == ASSUME BaseInv, AnswerInv, Send PROVE AnswerInv'
<1>1. /\ UNCHANGED <<unread, wire, ready>> /\ cseq' = cseq + 1 /\ call.pc = "send"
      /\ call' = [call EXCEPT !.pc = "scan"] \/ call' = [call EXCEPT !.pc = "failed"]
  BY DEF Send, ioVars
<1>2. call'.pc \in {"scan", "failed"}
  BY <1>1 DEF BaseInv, ControlInv, CallShape
<1>3. Quiet
  BY <1>1 DEF AnswerInv, Expecting
<1>4. CASE peer' = peer
  <2>1. Quiet'
    BY <1>1, <1>3, <1>4 DEF Quiet
  <2> QED BY <1>2, <2>1, QuietAnswers
<1>5. CASE peer' # peer
  <2> DEFINE r == RequestText(NoHeader)
             q == [r EXCEPT !.auth = Credentials(auth', r.method, r.uri)]
  <2>1. peer' = [peer EXCEPT !.asked = Append(peer.asked, q)] /\ call' = [call EXCEPT !.pc = "scan"]
    BY <1>5 DEF Send
  <2>2. q.n = cseq'
    BY <1>1 DEF RequestText
  <2> HIDE DEF q
  <2>3. peer'.asked = Append(peer.asked, q)
    BY <2>1, PeerAsked DEF BaseInv, QueuesInv
  <2>4. peer'.asked = <<q>>
    BY <1>3, <2>3 DEF Quiet
  <2>5. Len(peer'.asked) = 1 /\ peer'.asked[1].n = cseq'
    BY <2>2, <2>4
  <2>6. NoneIn(wire') /\ AllFree(ready') /\ NoneIn(unread')
    BY <1>1, <1>3 DEF Quiet
  <2>7. OneOf(wire', cseq') /\ OneFilled(ready', cseq') /\ OneOf(unread', cseq')
    BY <2>6, NoneIsOne, FreeIsFilled
  <2>8. OneUnderWay'
    BY <2>5, <2>6, <2>7 DEF OneUnderWay
  <2>9. call'.pc = "scan"
    BY <2>1 DEF BaseInv, ControlInv, CallShape
  <2> QED BY <2>8, <2>9 DEF AnswerInv, OwnNow, Expecting
<1> QED BY <1>4, <1>5

LEMMA SkipAnswers == ASSUME BaseInv, AnswerInv, SkipFrame PROVE AnswerInv'
<1>1. /\ UNCHANGED <<peer, wire, ready, call, cseq>>
      /\ 2 \in Nat /\ unread' = Behind(unread, 2)
  BY DEF SkipFrame, ioVars
<1> QED BY <1>1, FewerAnswers

\* What is taken is the one there is.
LEMMA TakeAnswers == ASSUME BaseInv, AnswerInv, TakeAnswer PROVE AnswerInv'
<1>1. /\ UNCHANGED <<peer, wire, ready, cseq>> /\ AnswerAt(unread) > 0
      /\ unread' = Behind(unread, AnswerAt(unread))
  BY DEF TakeAnswer, TakenUpTo, ioVars
<1>2. /\ IsSequence(unread) /\ OneOf(unread, cseq)
  BY DEF BaseInv, QueuesInv, AnswerInv, OneUnderWay
<1>3. /\ NoneIn(unread') /\ unread[AnswerAt(unread)].n = cseq
      /\ AnswerAt(unread) \in 1 .. Len(unread) /\ IsAnswer(unread[AnswerAt(unread)])
  BY <1>1, <1>2, TakenAnswer, AnswerAtIs
<1>4. ~NoneIn(unread)
  BY <1>3 DEF NoneIn
<1>5. Quiet'
  BY <1>1, <1>3, <1>4 DEF AnswerInv, OneUnderWay, Quiet
<1>6. call'.pc # "answer" \/ call'.answer.cseq = cseq'
  <2>1. CASE AnswerAt(unread) = 1
    <3>1. call' = [call EXCEPT !.pc = "answer", !.answer = ParseResponse(unread[1])]
      BY <2>1 DEF TakeAnswer
    <3>2. call'.answer = ParseResponse(unread[1])
      BY <3>1 DEF BaseInv, ControlInv, CallShape
    <3> QED BY <1>1, <1>3, <2>1, <3>2 DEF ParseResponse
  <2>2. CASE AnswerAt(unread) # 1
    <3>1. call' = [call EXCEPT !.pc = "failed"]
      BY <2>2 DEF TakeAnswer
    <3> QED BY <3>1 DEF BaseInv, ControlInv, CallShape
  <2> QED BY <2>1, <2>2
<1> QED BY <1>5, <1>6, QuietAnswers

LEMMA AwaitAnswers == ASSUME BaseInv, AnswerInv, AwaitAnswer PROVE AnswerInv'
<1>1. /\ UNCHANGED <<peer, unread, wire, ready, cseq>>
      /\ call' = [call EXCEPT !.pc = "reading"]
  BY DEF AwaitAnswer, connVars
<1>2. call'.pc = "reading"
  BY <1>1 DEF BaseInv, ControlInv, CallShape
<1>3. OneUnderWay'
  BY <1>1 DEF AnswerInv, OneUnderWay
<1> QED BY <1>1, <1>2, <1>3 DEF AnswerInv, OwnNow, Expecting

\* Completed reads that hold no more answers than before.
LEMMA ReadsAnswers ==
  ASSUME BaseInv, AnswerInv, UNCHANGED <<peer, unread, wire, cseq>>,
         call.pc \in Expecting, call'.pc \in Expecting,
         AllFree(ready) => AllFree(ready'),
         OneFilled(ready, cseq) => OneFilled(ready', cseq)
  PROVE  AnswerInv'
<1>1. OneUnderWay'
  BY DEF AnswerInv, OneUnderWay
<1>2. call'.pc # "answer"
  BY DEF Expecting
<1> QED BY <1>1, <1>2 DEF AnswerInv, OwnNow

LEMMA TimeoutAnswers == ASSUME BaseInv, AnswerInv, Timeout PROVE AnswerInv'
<1>1. /\ UNCHANGED <<peer, unread, wire, cseq>> /\ call.pc = "reading"
      /\ call' = [call EXCEPT !.pc = "late"]
      /\ ready' \in {ready, Append(ready, AbortedRead(Caller))}
  BY DEF Timeout, connVars
<1>2. call'.pc = "late"
  BY <1>1 DEF BaseInv, ControlInv, CallShape
<1> DEFINE e == AbortedRead(Caller)
<1>3. NoneIn(e.data)
  BY NoneInNothing DEF AbortedRead
<1> HIDE DEF e
<1>4. IsSequence(ready)
  BY DEF BaseInv, ControlInv, ReadsFit, Entries
<1>5. OneOf(e.data, cseq)
  BY <1>3, NoneIsOne
<1>6. /\ AllFree(ready) => AllFree(Append(ready, e))
      /\ OneFilled(ready, cseq) => OneFilled(Append(ready, e), cseq)
  BY <1>3, <1>4, <1>5, FilledAppended
<1>7. /\ AllFree(ready) => AllFree(ready')
      /\ OneFilled(ready, cseq) => OneFilled(ready', cseq)
  BY <1>1, <1>6 DEF e
<1> QED BY <1>1, <1>2, <1>7, ReadsAnswers DEF Expecting

LEMMA CallHasReadAnswers == ASSUME BaseInv, AnswerInv, CallHasRead PROVE AnswerInv'
<1> DEFINE e == Head(ready)
           rest == Tail(ready)
<1>1. /\ UNCHANGED <<peer, unread, wire, cseq>> /\ call.pc = "reading"
      /\ call' \in {call, [call EXCEPT !.pc = "joined"]}
      /\ ready # <<>> /\ ready' \in {rest, Append(rest, e)}
  BY DEF CallHasRead, connVars
<1>2. call'.pc \in {"reading", "joined"}
  BY <1>1 DEF BaseInv, ControlInv, CallShape
<1>3. IsSequence(ready) /\ IsSequence(rest)
  BY <1>1, TailOfSequence DEF BaseInv, ControlInv, ReadsFit, Entries
<1>4. /\ AllFree(ready) => AllFree(rest) /\ NoneIn(e.data)
      /\ OneFilled(ready, cseq) => /\ OneFilled(rest, cseq) /\ OneOf(e.data, cseq)
                                   /\ NoneIn(e.data) \/ AllFree(rest)
  BY <1>1, <1>3, FilledTail
<1> HIDE DEF e, rest
<1>5. /\ AllFree(ready) => AllFree(Append(rest, e))
      /\ OneFilled(ready, cseq) => OneFilled(Append(rest, e), cseq)
  BY <1>3, <1>4, NoneIsOne, FilledAppended
<1> QED BY <1>1, <1>2, <1>4, <1>5, ReadsAnswers DEF Expecting

LEMMA ComesInPlace ==
  ASSUME NEW s, IsSequence(s), NEW n
  PROVE  HoldsAnswer(s, n) <=> \E i \in 1 .. Len(s) : IsAnswer(s[i]) /\ s[i].n = n
<1>1. DOMAIN s = 1 .. Len(s)
  BY SequenceLength
<1> QED BY <1>1 DEF HoldsAnswer, IsAnswer

\* A request that is given up with no answer to come leaves nothing behind.
LEMMA GiveUpAnswers == ASSUME BaseInv, AnswerInv, GiveUp, ~AnswerToCome PROVE AnswerInv'
<1>1. /\ UNCHANGED <<peer, unread, wire, cseq>> /\ call.pc = "late"
      /\ call' = [call EXCEPT !.pc = "failed"]
  BY DEF GiveUp, connVars
<1>2. OneUnderWay
  BY DEF AnswerInv
<1>3. /\ IsSequence(wire) /\ IsSequence(unread) /\ IsSequence(peer.asked)
      /\ Entries(reads, ready) /\ IsSequence(reads) /\ IsSequence(ready)
  BY DEF BaseInv, QueuesInv, ControlInv, ReadsFit, Entries
<1>4. NoneIn(unread)
  BY <1>2, <1>3, ComesInPlace DEF AnswerToCome, NoneIn, OneUnderWay, OneOf
<1>5. NoneIn(wire)
  BY <1>2, <1>3, ComesInPlace DEF AnswerToCome, NoneIn, OneUnderWay, OneOf
<1>6. peer.asked = <<>>
  <2>1. DOMAIN peer.asked = 1 .. Len(peer.asked) /\ Len(peer.asked) \in Nat
        /\ (peer.asked = <<>> <=> Len(peer.asked) = 0)
    BY <1>3, SequenceLength, SequenceEmpty
  <2>2. ASSUME peer.asked # <<>> PROVE FALSE
    <3>1. 1 \in DOMAIN peer.asked /\ peer.asked[1].n = cseq
      BY <1>2, <2>1, <2>2 DEF OneUnderWay
    <3> QED BY <3>1 DEF AnswerToCome
  <2> QED BY <2>2
<1>7. AllFree(ready)
  <2> SUFFICES ASSUME NEW i \in 1 .. Len(ready), NEW j \in 1 .. Len(ready[i].data),
                      IsAnswer(ready[i].data[j])
               PROVE  FALSE
    BY DEF AllFree, NoneIn
  <2>1. ready[i].data[j].n = cseq
    BY <1>2 DEF OneUnderWay, OneFilled, OneOf
  <2>2. DOMAIN ready = 1 .. Len(ready)
    BY <1>3, SequenceLength
  <2>3. HoldsAnswer(ready[i].data, cseq)
    BY <1>3, <2>1, ComesInPlace DEF Entries
  <2> QED BY <2>2, <2>3 DEF AnswerToCome
<1>8. AllFree(ready')
  <2> DEFINE rd == GivenUp(ready, CompletedBy(Caller, ready))
  <2>1. ready' = rd \o Aborted(reads)
    BY GiveUpIs DEF BaseInv
  <2>2. \A i, j \in 1 .. Len(ready) : ready[i].who = ready[j].who => i = j
    BY <1>3 DEF Entries
  <2>3. IsSequence(rd) /\ AllFree(rd)
    BY <1>3, <1>7, <2>2, FreeGivenUp
  <2> HIDE DEF rd
  <2> QED BY <1>3, <2>1, <2>3, FreeCancelled
<1>9. Quiet'
  BY <1>1, <1>4, <1>5, <1>6, <1>8 DEF Quiet
<1>10. call'.pc # "answer"
  BY <1>1 DEF BaseInv, ControlInv, CallShape
<1> QED BY <1>9, <1>10, QuietAnswers

LEMMA LoopTopAnswers == ASSUME BaseInv, AnswerInv, NEW l \in Loops, LoopTop(l) PROVE AnswerInv'
<1>1. UNCHANGED <<peer, wire, ready, call, cseq>>
  BY DEF LoopTop, ioVars
<1>2. pending \in Nat
  BY DEF BaseInv, QueuesInv
<1>3. CASE receiving /\ IsConnected
  <2>1. unread' = Behind(unread, pending)
    BY <1>3 DEF LoopTop
  <2> QED BY <1>1, <1>2, <2>1, FewerAnswers
<1>4. CASE ~(receiving /\ IsConnected)
  <2>1. UNCHANGED unread
    BY <1>4 DEF LoopTop
  <2> QED BY <1>1, <2>1, AnswersStay
<1> QED BY <1>3, <1>4

LEMMA LoopSkipsAnswers == ASSUME BaseInv, AnswerInv, NEW l \in Loops, LoopSkips(l) PROVE AnswerInv'
<1>1. /\ UNCHANGED <<peer, wire, ready, call, cseq>>
      /\ unread' = Behind(unread, AnswerAt(unread)) /\ IsSequence(unread)
  BY DEF LoopSkips, ioVars, BaseInv, QueuesInv
<1>2. AnswerAt(unread) \in Nat
  <2>1. AnswerAt(unread) \in 0 .. Len(unread) /\ Len(unread) \in Nat
    BY <1>1, AnswerAtIs, SequenceLength
  <2> QED BY <2>1
<1> QED BY <1>1, <1>2, FewerAnswers

LEMMA LoopKeepsAnswers ==
  ASSUME BaseInv, AnswerInv, NEW l \in Loops, LoopFrame(l) \/ LoopReads(l) \/ LoopExit(l)
  PROVE  AnswerInv'
<1>1. UNCHANGED <<peer, unread, wire, ready, call, cseq>>
  BY DEF LoopFrame, LoopReads, LoopExit, ioVars, connVars
<1> QED BY <1>1, AnswersStay

LEMMA ArriveAnswers == ASSUME BaseInv, AnswerInv, Arrive PROVE AnswerInv'
<1>1. UNCHANGED <<peer, unread, call, cseq>>
  BY DEF Arrive, connVars
<1>2. PICK k \in 1 .. Len(wire) :
        /\ ready' = Append(ready, [who |-> reads[1], how |-> "data", data |-> SubSeq(wire, 1, k)])
        /\ wire' = Behind(wire, k)
  BY DEF Arrive
<1> DEFINE e == [who |-> reads[1], how |-> "data", data |-> SubSeq(wire, 1, k)]
<1>3. IsSequence(wire) /\ IsSequence(ready) /\ k \in Nat /\ k <= Len(wire)
  BY SequenceLength DEF BaseInv, QueuesInv, ControlInv, ReadsFit, Entries
<1>4. OneOf(wire, cseq) /\ OneFilled(ready, cseq)
  BY DEF AnswerInv, OneUnderWay
<1>5. e.data = SubSeq(wire, 1, k) /\ ready' = Append(ready, e)
  BY <1>2
<1> HIDE DEF e
<1>6. /\ NoneIn(wire) => NoneIn(e.data) /\ NoneIn(wire')
      /\ OneOf(e.data, cseq) /\ OneOf(wire', cseq)
      /\ NoneIn(e.data) \/ NoneIn(wire')
  BY <1>2, <1>3, <1>4, <1>5, SplitAnswers
<1>7. /\ AllFree(ready) => OneFilled(ready', cseq)
      /\ AllFree(ready) /\ NoneIn(e.data) => AllFree(ready')
      /\ OneFilled(ready, cseq) /\ NoneIn(e.data) => OneFilled(ready', cseq)
  BY <1>3, <1>5, <1>6, FilledAppended
<1>8. OneUnderWay'
  BY <1>1, <1>4, <1>6, <1>7 DEF AnswerInv, OneUnderWay
<1>9. call'.pc \notin Expecting => Quiet'
  BY <1>1, <1>6, <1>7 DEF AnswerInv, Quiet
<1>10. OwnNow'
  BY <1>1 DEF AnswerInv, OwnNow
<1> QED BY <1>8, <1>9, <1>10 DEF AnswerInv

LEMMA EndOfStreamAnswers == ASSUME BaseInv, AnswerInv, EndOfStream PROVE AnswerInv'
<1>1. UNCHANGED <<peer, unread, wire, call, cseq>>
  BY DEF EndOfStream, memberVars, connVars
<1> DEFINE e == [who |-> reads[1], how |-> "eof", data |-> <<>>]
<1>2. ready' = Append(ready, e) /\ NoneIn(e.data)
  BY NoneInNothing DEF EndOfStream
<1> HIDE DEF e
<1>3. IsSequence(ready)
  BY DEF BaseInv, ControlInv, ReadsFit, Entries
<1>4. OneOf(e.data, cseq)
  BY <1>2, NoneIsOne
<1>5. /\ AllFree(ready) => AllFree(ready')
      /\ OneFilled(ready, cseq) => OneFilled(ready', cseq)
  BY <1>2, <1>3, <1>4, FilledAppended
<1>6. OneUnderWay'
  BY <1>1, <1>5 DEF AnswerInv, OneUnderWay
<1>7. call'.pc \notin Expecting => Quiet'
  BY <1>1, <1>5 DEF AnswerInv, Quiet
<1>8. OwnNow'
  BY <1>1 DEF AnswerInv, OwnNow
<1> QED BY <1>6, <1>7, <1>8 DEF AnswerInv

LEMMA ResumeAnswers == ASSUME BaseInv, AnswerInv, Resume \/ CallResumes PROVE AnswerInv'
<1> DEFINE r == Head(ready)
<1>1. /\ UNCHANGED <<peer, wire, cseq>> /\ unread' = unread \o r.data
      /\ IsSequence(ready) /\ ready # <<>> /\ ready' = Tail(ready) /\ IsSequence(r.data)
  BY BroughtReads DEF BaseInv, Resume, CallResumes
<1>2. IsSequence(unread) /\ IsSequence(r.data)
  BY <1>1 DEF BaseInv, QueuesInv
<1>3. OneUnderWay
  BY DEF AnswerInv
<1>4. /\ AllFree(ready) => AllFree(ready') /\ NoneIn(r.data)
      /\ OneFilled(ready', cseq) /\ OneOf(r.data, cseq)
      /\ NoneIn(r.data) \/ AllFree(ready')
  BY <1>1, <1>3, FilledTail DEF OneUnderWay
<1>5. /\ NoneIn(unread) /\ NoneIn(r.data) => NoneIn(unread')
      /\ OneOf(unread, cseq) /\ NoneIn(r.data) => OneOf(unread', cseq)
      /\ NoneIn(unread) /\ OneOf(r.data, cseq) => OneOf(unread', cseq)
  BY <1>1, <1>2, JoinedAnswers
<1>6. OneUnderWay'
  BY <1>1, <1>3, <1>4, <1>5 DEF OneUnderWay
<1>7. CASE CallResumes
  <2>1. call' = [call EXCEPT !.pc = "scan"]
    BY <1>7 DEF CallResumes
  <2>2. call'.pc = "scan"
    BY <2>1 DEF BaseInv, ControlInv, CallShape
  <2> QED BY <1>6, <2>2 DEF AnswerInv, OwnNow, Expecting
<1>8. CASE Resume
  <2>1. call' = call
    BY <1>8 DEF Resume
  <2>2. call'.pc \notin Expecting => Quiet'
    BY <1>1, <1>4, <1>5, <2>1 DEF AnswerInv, Quiet
  <2>3. OwnNow'
    BY <1>1, <2>1 DEF AnswerInv, OwnNow
  <2> QED BY <1>6, <2>2, <2>3 DEF AnswerInv
<1> QED BY <1>7, <1>8

LEMMA OneRequestLeft ==
  ASSUME NEW s, IsSequence(s), s # <<>>, Len(s) <= 1
  PROVE  Head(s) = s[1] /\ Tail(s) = <<>>
<1>1. /\ IsSequence(Tail(s)) /\ Len(Tail(s)) = Len(s) - 1 /\ Len(s) > 0 /\ Head(s) = s[1]
      /\ Len(s) \in Nat
  BY TailOfSequence, SequenceLength
<1>2. Len(Tail(s)) = 0
  BY <1>1
<1> QED BY <1>1, <1>2, SequenceEmpty

LEMMA ServerAnswersOne == ASSUME BaseInv, AnswerInv, ServerAnswers PROVE AnswerInv'
<1>1. /\ UNCHANGED <<unread, ready, call, cseq>>
      /\ peer.asked # <<>>
  BY DEF ServerAnswers, memberVars, connVars
<1>2. PICK a : /\ a.n = Head(peer.asked).n /\ wire' = Append(wire, a)
               /\ peer'.asked = Tail(peer.asked)
  BY AnswerIs DEF BaseInv
<1>3. IsSequence(peer.asked) /\ IsSequence(wire) /\ OneUnderWay
  BY DEF BaseInv, QueuesInv, AnswerInv
<1>4. /\ NoneIn(wire) /\ AllFree(ready) /\ NoneIn(unread)
      /\ Len(peer.asked) <= 1 /\ peer.asked[1].n = cseq
  BY <1>1, <1>3 DEF OneUnderWay
<1>5. Head(peer.asked) = peer.asked[1] /\ peer'.asked = <<>>
  BY <1>1, <1>2, <1>3, <1>4, OneRequestLeft
<1>6. Len(peer'.asked) = 0
  BY <1>5, EmptySequence
<1>7. a.n = cseq
  BY <1>2, <1>4, <1>5
<1>8. OneOf(wire', cseq)
  BY <1>2, <1>3, <1>4, <1>7, AppendedAnswer
<1>9. OneUnderWay'
  BY <1>1, <1>3, <1>4, <1>5, <1>6, <1>8 DEF OneUnderWay
<1>10. call.pc \in Expecting
  BY <1>1 DEF AnswerInv, Quiet
<1>11. OwnNow'
  BY <1>1 DEF AnswerInv, OwnNow
<1> QED BY <1>1, <1>9, <1>10, <1>11 DEF AnswerInv

LEMMA ServerSendsAnswers == ASSUME BaseInv, AnswerInv, ServerSends PROVE AnswerInv'
<1>1. UNCHANGED <<unread, ready, peer, call, cseq>>
  BY DEF ServerSends, memberVars, connVars
<1>2. PICK c : wire' = wire \o <<FrameHead(streamed + 1, c), FrameTail(streamed + 1, c)>>
  BY DEF ServerSends
<1> DEFINE h == FrameHead(streamed + 1, c)
           t == FrameTail(streamed + 1, c)
<1>3. h.part = "head" /\ t.part = "tail" /\ wire' = wire \o <<h, t>>
  BY <1>2 DEF FrameHead, FrameTail
<1> HIDE DEF h, t
<1>4. IsSequence(<<h, t>>)
  <2>1. <<h, t>> \in Seq({h, t})
    OBVIOUS
  <2> QED BY <2>1 DEF IsSequence
<1>5. NoneIn(<<h, t>>)
  BY <1>3 DEF NoneIn, IsAnswer
<1>6. IsSequence(wire) /\ IsSequence(<<h, t>>)
  BY <1>4 DEF BaseInv, QueuesInv
<1>7. /\ NoneIn(wire) => NoneIn(wire')
      /\ OneOf(wire, cseq) => OneOf(wire', cseq)
  BY <1>3, <1>5, <1>6, JoinedAnswers
<1>8. OneUnderWay'
  BY <1>1, <1>7 DEF AnswerInv, OneUnderWay
<1>9. call'.pc \notin Expecting => Quiet'
  BY <1>1, <1>7 DEF AnswerInv, Quiet
<1>10. OwnNow'
  BY <1>1 DEF AnswerInv, OwnNow
<1> QED BY <1>8, <1>9, <1>10 DEF AnswerInv

LEMMA ServerDropsAnswers ==
  ASSUME BaseInv, AnswerInv, ServerIgnores \/ ServerLeaves
  PROVE  AnswerInv'
<1>1. UNCHANGED <<unread, ready, wire, call, cseq>>
  BY DEF ServerIgnores, ServerLeaves, memberVars, connVars, ioVars
<1>2. IsSequence(peer.asked) /\ DOMAIN peer = PeerFields /\ OneUnderWay
  BY DEF BaseInv, QueuesInv, AnswerInv
<1>3. peer'.asked = <<>>
  <2>1. CASE ServerLeaves
    BY <1>2, <2>1 DEF ServerLeaves, PeerFields
  <2>2. CASE ServerIgnores
    <3>1. peer.asked # <<>> /\ peer' = [peer EXCEPT !.asked = Tail(peer.asked)]
      BY <2>2 DEF ServerIgnores
    <3>2. peer'.asked = Tail(peer.asked)
      BY <1>2, <3>1, PeerAsked
    <3>3. IsSequence(peer.asked) /\ peer.asked # <<>> /\ Len(peer.asked) <= 1
      BY <1>2, <3>1 DEF OneUnderWay
    <3> QED BY <3>2, <3>3, OneRequestLeft
  <2> QED BY <2>1, <2>2
<1>4. Len(peer'.asked) = 0
  BY <1>3, EmptySequence
<1>5. OneUnderWay'
  BY <1>1, <1>2, <1>3, <1>4 DEF OneUnderWay
<1>6. call'.pc \notin Expecting => Quiet'
  BY <1>1, <1>3 DEF AnswerInv, Quiet
<1>7. OwnNow'
  BY <1>1 DEF AnswerInv, OwnNow
<1> QED BY <1>5, <1>6, <1>7 DEF AnswerInv

LEMMA AnswerNext ==
  ASSUME BaseInv, AnswerInv, [ClientNext]_clientVars, GiveUp => ~AnswerToCome
  PROVE  AnswerInv'
<1>1. CASE App
  BY <1>1, CallsAnswers DEF App
<1>2. CASE CallStep
  BY <1>2, DoneAnswers, CloseAnswers, SendAnswers, SkipAnswers, TakeAnswers, AwaitAnswers
  DEF CallStep
<1>3. CASE Timeout
  BY <1>3, TimeoutAnswers
<1>4. ASSUME NEW l \in Loops, LoopStep(l) PROVE AnswerInv'
  BY <1>4, LoopTopAnswers, LoopSkipsAnswers, LoopKeepsAnswers DEF LoopStep
<1>5. CASE Socket
  BY <1>5, ArriveAnswers, EndOfStreamAnswers, ResumeAnswers, CallHasReadAnswers,
     GiveUpAnswers DEF Socket, Resumes
<1>6. CASE Server
  BY <1>6, ServerAnswersOne, ServerSendsAnswers, ServerDropsAnswers DEF Server
<1>7. CASE UNCHANGED clientVars
  <2>1. UNCHANGED <<unread, wire, ready, peer, call, cseq>>
    BY <1>7 DEF clientVars, memberVars, connVars, ioVars
  <2> QED BY <2>1, AnswersStay
<1> QED BY <1>1, <1>2, <1>3, <1>4, <1>5, <1>6, <1>7 DEF ClientNext

\* As long as no request of the connection has been given up too early.
NoneOverdue == overdue = {} => AnswerInv

\* Only close() forgets one that has been.
LEMMA OverdueStays ==
  ASSUME [ClientNext]_clientVars, ~CloseGoesOn
  PROVE  /\ overdue \subseteq overdue'
         /\ GiveUp /\ AnswerToCome => cseq \in overdue'
         /\ overdue' # overdue => GiveUp /\ AnswerToCome
<1>1. CASE GiveUp
  BY <1>1 DEF GiveUp
<1>2. ASSUME Connect \/ SetCredentials \/ SetAuthProvider
             \/ \E op \in {"describe", "setup", "play", "pause"} : Request(op)
      PROVE  overdue' = overdue
  BY <1>2 DEF Connect, SetCredentials, SetAuthProvider, Request, history
<1>3. ASSUME Teardown \/ Close
      PROVE  overdue' = overdue
  BY <1>3 DEF Teardown, Close, history
<1>4. ASSUME TeardownGoesOn \/ Send \/ SkipFrame \/ TakeAnswer
      PROVE  overdue' = overdue
  BY <1>4 DEF TeardownGoesOn, Send, SkipFrame, TakeAnswer, history
<1>5. ASSUME AwaitAnswer \/ RetryWithAuth \/ OptionsDone \/ DescribeDone
      PROVE  overdue' = overdue
  BY <1>5 DEF AwaitAnswer, RetryWithAuth, OptionsDone, DescribeDone, history
<1>6. ASSUME SetupDone \/ PlayDone \/ PauseDone
      PROVE  overdue' = overdue
  BY <1>6 DEF SetupDone, PlayDone, PauseDone, history
<1>7. ASSUME TeardownDone \/ CallFails
      PROVE  overdue' = overdue
  BY <1>7 DEF TeardownDone, CallFails, history
<1>8. ASSUME Timeout
      PROVE  overdue' = overdue
  BY <1>8 DEF Timeout, history
<1>9. ASSUME NEW l \in Loops, LoopTop(l) \/ LoopSkips(l) \/ LoopFrame(l) PROVE overdue' = overdue
  BY <1>9 DEF LoopTop, LoopSkips, LoopFrame, history
<1>10. ASSUME NEW l \in Loops, LoopReads(l) \/ LoopExit(l) PROVE overdue' = overdue
  BY <1>10 DEF LoopReads, LoopExit, history
<1>11. ASSUME Arrive \/ EndOfStream \/ Resume
      PROVE  overdue' = overdue
  BY <1>11 DEF Arrive, EndOfStream, Resume, history
<1>12. ASSUME CallHasRead \/ CallResumes
      PROVE  overdue' = overdue
  BY <1>12 DEF CallHasRead, CallResumes, history
<1>13. ASSUME Server
      PROVE  overdue' = overdue
  BY <1>13 DEF Server, ServerAnswers, ServerIgnores, ServerSends, ServerLeaves, history
<1>14. ASSUME UNCHANGED clientVars
      PROVE  overdue' = overdue
  BY <1>14 DEF clientVars, history
<1>15. ~GiveUp => overdue' = overdue
  BY <1>2, <1>3, <1>4, <1>5, <1>6, <1>7, <1>8, <1>9, <1>10, <1>11, <1>12, <1>13, <1>14, Zenon
  DEF ClientNext, App, CallStep, LoopStep, Socket, Resumes
<1> QED BY <1>1, <1>15

LEMMA NoneOverdueNext ==
  ASSUME BaseInv, NoneOverdue, [ClientNext]_clientVars
  PROVE  NoneOverdue'
<1>1. CASE CloseGoesOn
  BY <1>1, CloseAnswers DEF NoneOverdue
<1>2. CASE ~CloseGoesOn
  <2>1. overdue' = {} => overdue = {} /\ (GiveUp => ~AnswerToCome)
    BY <1>2, OverdueStays
  <2> QED BY <2>1, AnswerNext DEF NoneOverdue
<1> QED BY <1>1, <1>2

-----------------------------------------------------------------------------
(* RtspClient: the pieces of the stream. *)

\* s is what U holds behind the place a, up to the place b.
Stretch(s, U, a, b) ==
  /\ IsSequence(s) /\ a \in Nat /\ b = a + Len(s) /\ b <= Len(U)
  /\ \A i \in 1 .. Len(s) : s[i] = U[a + i]

LEMMA StretchEnds ==
  ASSUME NEW s, NEW U, NEW a, NEW b, Stretch(s, U, a, b)
  PROVE  a \in Nat /\ b \in Nat /\ Len(s) \in Nat /\ b = a + Len(s)
BY SequenceLength DEF Stretch

LEMMA NoStretch ==
  ASSUME NEW U, IsSequence(U), NEW a \in Nat, a <= Len(U)
  PROVE  Stretch(<<>>, U, a, a)
<1>1. IsSequence(<<>>) /\ Len(<<>>) = 0
  BY EmptySequence
<1>2. a = a + 0
  OBVIOUS
<1> QED BY <1>1, <1>2 DEF Stretch

LEMMA NoStretchEnds ==
  ASSUME NEW U, NEW a, NEW b, Stretch(<<>>, U, a, b)
  PROVE  a = b
<1>1. Len(<<>>) = 0 /\ a \in Nat /\ b = a + Len(<<>>)
  BY EmptySequence DEF Stretch
<1> QED BY <1>1

LEMMA StretchesJoined ==
  ASSUME NEW s, NEW t, NEW U, NEW a, NEW b, NEW c, Stretch(s, U, a, b), Stretch(t, U, b, c)
  PROVE  Stretch(s \o t, U, a, c)
<1> DEFINE all == s \o t
<1>1. IsSequence(s) /\ IsSequence(t) /\ Len(s) \in Nat /\ Len(t) \in Nat
  BY SequenceLength DEF Stretch
<1>2. /\ IsSequence(all) /\ Len(all) = Len(s) + Len(t)
      /\ \A i \in 1 .. Len(s) : all[i] = s[i]
      /\ \A i \in 1 .. Len(t) : all[Len(s) + i] = t[i]
      /\ \A i \in 1 .. Len(all) :
           i \in 1 .. Len(s) \/ \E j \in 1 .. Len(t) : i = Len(s) + j
  <2>1. IsSequence(s) /\ IsSequence(t)
    BY <1>1
  <2>2. IsSequence(all) /\ Len(all) = Len(s) + Len(t)
    BY <2>1, JoinedSequence
  <2>3. \A i \in 1 .. Len(s) : all[i] = s[i]
    BY <2>1, JoinedSequence
  <2>4. \A i \in 1 .. Len(t) : all[Len(s) + i] = t[i]
    BY <2>1, JoinedSequence
  <2>5. \A i \in 1 .. Len(all) :
          i \in 1 .. Len(s) \/ \E j \in 1 .. Len(t) : i = Len(s) + j
    BY <2>1, JoinedSequence
  <2> HIDE DEF all
  <2> QED BY <2>2, <2>3, <2>4, <2>5
<1> HIDE DEF all
<1>3. a \in Nat /\ b = a + Len(s) /\ c = b + Len(t) /\ c <= Len(U)
  BY DEF Stretch
<1>4. c = a + Len(all)
  BY <1>1, <1>2, <1>3
<1>5. ASSUME NEW i \in 1 .. Len(all) PROVE all[i] = U[a + i]
  <2>1. CASE i \in 1 .. Len(s)
    BY <1>2, <2>1 DEF Stretch
  <2>2. CASE i \notin 1 .. Len(s)
    <3>1. PICK j \in 1 .. Len(t) : i = Len(s) + j
      BY <1>2, <2>2
    <3>2. all[i] = t[j] /\ t[j] = U[b + j]
      BY <1>2, <3>1 DEF Stretch
    <3>3. b + j = a + i
      BY <1>1, <1>3, <3>1
    <3> QED BY <3>2, <3>3
  <2> QED BY <2>1, <2>2
<1> QED BY <1>2, <1>3, <1>4, <1>5 DEF Stretch, all

LEMMA StretchBehind ==
  ASSUME NEW s, NEW U, NEW a, NEW b, Stretch(s, U, a, b), NEW n \in Nat, n <= Len(s)
  PROVE  Stretch(Behind(s, n), U, a + n, b)
<1> DEFINE t == Behind(s, n)
<1>1. IsSequence(s) /\ Len(s) \in Nat /\ a \in Nat /\ b = a + Len(s) /\ b <= Len(U)
  BY SequenceLength DEF Stretch
<1>2. /\ IsSequence(t) /\ Len(t) = Len(s) - n
      /\ \A i \in 1 .. Len(t) : n + i \in 1 .. Len(s) /\ t[i] = s[n + i]
  BY <1>1, BehindSequence
<1> HIDE DEF t
<1>3. ASSUME NEW i \in 1 .. Len(t) PROVE t[i] = U[a + n + i]
  <2>1. t[i] = s[n + i] /\ s[n + i] = U[a + (n + i)]
    BY <1>2 DEF Stretch
  <2>2. a + (n + i) = a + n + i
    BY <1>1
  <2> QED BY <2>1, <2>2
<1>4. a + n \in Nat /\ b = a + n + Len(t)
  BY <1>1, <1>2
<1> QED BY <1>1, <1>2, <1>3, <1>4 DEF Stretch, t

LEMMA StretchInFront ==
  ASSUME NEW s, NEW U, NEW a, NEW b, Stretch(s, U, a, b), NEW k \in Nat, k <= Len(s)
  PROVE  Stretch(SubSeq(s, 1, k), U, a, a + k)
<1> DEFINE p == SubSeq(s, 1, k)
<1>1. IsSequence(s) /\ Len(s) \in Nat /\ a \in Nat /\ b = a + Len(s) /\ b <= Len(U)
  BY SequenceLength DEF Stretch
<1>2. /\ IsSequence(p) /\ Len(p) = k
      /\ \A i \in 1 .. k : p[i] = s[i]
  <2>1. 0 \in Nat /\ 0 <= k /\ p = SubSeq(s, 0 + 1, k)
    OBVIOUS
  <2> HIDE DEF p
  <2>2. /\ IsSequence(p) /\ Len(p) = k - 0 /\ \A i \in 1 .. k - 0 : p[i] = s[0 + i]
    BY <1>1, <2>1, PieceOfSequence
  <2> QED BY <2>2
<1> HIDE DEF p
<1>3. \A i \in 1 .. Len(p) : p[i] = U[a + i]
  <2>1. \A i \in 1 .. Len(s) : s[i] = U[a + i]
    BY DEF Stretch
  <2>2. \A i \in 1 .. k : i \in 1 .. Len(s)
    BY <1>1
  <2> QED BY <1>2, <2>1, <2>2
<1>4. IsSequence(p) /\ a + k = a + Len(p)
  BY <1>2
<1>5. a + k <= Len(U)
  <2>1. Len(U) >= a + Len(s)
    BY <1>1
  <2> QED BY <1>1, <2>1 DEF Stretch
<1> QED BY <1>1, <1>3, <1>4, <1>5 DEF Stretch, p

LEMMA StretchOfMore ==
  ASSUME NEW s, NEW U, NEW t, NEW a, NEW b, IsSequence(U), IsSequence(t), Stretch(s, U, a, b)
  PROVE  Stretch(s, U \o t, a, b)
<1> DEFINE all == U \o t
<1>1. /\ Len(all) = Len(U) + Len(t) /\ \A i \in 1 .. Len(U) : all[i] = U[i]
  BY JoinedSequence
<1>2. /\ Len(U) \in Nat /\ Len(t) \in Nat /\ Len(s) \in Nat
      /\ IsSequence(s) /\ a \in Nat /\ b = a + Len(s) /\ b <= Len(U)
  BY SequenceLength DEF Stretch
<1> HIDE DEF all
<1>3. \A i \in 1 .. Len(s) : a + i \in 1 .. Len(U)
  BY <1>2
<1>4. \A i \in 1 .. Len(s) : s[i] = all[a + i]
  BY <1>1, <1>3 DEF Stretch
<1>5. b <= Len(all)
  BY <1>1, <1>2
<1> QED BY <1>2, <1>4, <1>5 DEF Stretch, all

\* What is sent comes behind all the rest.
LEMMA LastStretchGrows ==
  ASSUME NEW s, NEW U, NEW t, NEW a, IsSequence(U), IsSequence(t), Stretch(s, U, a, Len(U))
  PROVE  Stretch(s \o t, U \o t, a, Len(U \o t))
<1> DEFINE all == U \o t
<1>1. /\ IsSequence(all) /\ Len(all) = Len(U) + Len(t)
      /\ \A i \in 1 .. Len(t) : all[Len(U) + i] = t[i]
  BY JoinedSequence
<1>2. Len(U) \in Nat /\ Len(t) \in Nat /\ Len(all) \in Nat
  BY <1>1, SequenceLength
<1>3. Stretch(s, all, a, Len(U))
  BY StretchOfMore
<1> HIDE DEF all
<1>4. Stretch(t, all, Len(U), Len(all))
  BY <1>1, <1>2 DEF Stretch
<1>5. Stretch(s \o t, all, a, Len(all))
  BY <1>3, <1>4, StretchesJoined
<1> QED BY <1>5 DEF all

-----------------------------------------------------------------------------
(* What the completed reads hold. *)

\* The data of rd, one after the other, from the place a on to the place c.
Cuts(rd, U, a, c, cut) ==
  /\ cut \in [0 .. Len(rd) -> Nat] /\ cut[0] = a /\ cut[Len(rd)] = c
  /\ \A i \in 1 .. Len(rd) : Stretch(rd[i].data, U, cut[i - 1], cut[i])
Stretches(rd, U, a, c) == IsSequence(rd) /\ \E cut : Cuts(rd, U, a, c, cut)

LEMMA StretchesEnds ==
  ASSUME NEW rd, NEW U, NEW a, NEW c, Stretches(rd, U, a, c)
  PROVE  a \in Nat /\ c \in Nat
<1>1. Len(rd) \in Nat
  BY SequenceLength DEF Stretches
<1>2. PICK cut : Cuts(rd, U, a, c, cut)
  BY DEF Stretches
<1>3. 0 \in 0 .. Len(rd) /\ Len(rd) \in 0 .. Len(rd)
  BY <1>1
<1> QED BY <1>2, <1>3 DEF Cuts

LEMMA NoStretches ==
  ASSUME NEW U, NEW a \in Nat
  PROVE  Stretches(<<>>, U, a, a)
<1>1. IsSequence(<<>>) /\ Len(<<>>) = 0
  BY EmptySequence
<1> DEFINE cut == [i \in 0 .. Len(<<>>) |-> a]
<1>2. cut \in [0 .. Len(<<>>) -> Nat] /\ cut[0] = a /\ cut[Len(<<>>)] = a
  BY <1>1
<1> HIDE DEF cut
<1>3. Cuts(<<>>, U, a, a, cut)
  BY <1>1, <1>2 DEF Cuts
<1> QED BY <1>1, <1>3 DEF Stretches

LEMMA StretchesAppended ==
  ASSUME NEW rd, NEW U, NEW a, NEW b, NEW c, NEW e,
         Stretches(rd, U, a, b), Stretch(e.data, U, b, c)
  PROVE  Stretches(Append(rd, e), U, a, c)
<1> DEFINE all == Append(rd, e)
<1>1. /\ IsSequence(all) /\ Len(all) = Len(rd) + 1 /\ Len(rd) \in Nat
      /\ \A i \in 1 .. Len(rd) : all[i] = rd[i]
      /\ all[Len(rd) + 1] = e
  BY AppendedSequence, SequenceLength DEF Stretches
<1>2. PICK cut : Cuts(rd, U, a, b, cut)
  BY DEF Stretches
<1>3. c \in Nat
  BY StretchEnds
<1> DEFINE more == [i \in 0 .. Len(all) |-> IF i = Len(all) THEN c ELSE cut[i]]
<1> HIDE DEF all
<1>4. /\ more \in [0 .. Len(all) -> Nat] /\ more[Len(all)] = c
      /\ \A i \in 0 .. Len(rd) : more[i] = cut[i]
  BY <1>1, <1>2, <1>3 DEF Cuts
<1> HIDE DEF more
<1>5. more[0] = a
  BY <1>1, <1>2, <1>4 DEF Cuts
<1>6. ASSUME NEW i \in 1 .. Len(all) PROVE Stretch(all[i].data, U, more[i - 1], more[i])
  <2>1. CASE i \in 1 .. Len(rd)
    <3>1. i - 1 \in 0 .. Len(rd) /\ i \in 0 .. Len(rd)
      BY <1>1, <2>1
    <3>2. more[i - 1] = cut[i - 1] /\ more[i] = cut[i] /\ all[i] = rd[i]
      BY <1>1, <1>4, <2>1, <3>1
    <3> QED BY <1>2, <2>1, <3>2 DEF Cuts
  <2>2. CASE i \notin 1 .. Len(rd)
    <3>1. i = Len(rd) + 1 /\ i = Len(all) /\ i - 1 = Len(rd) /\ Len(rd) \in 0 .. Len(rd)
      BY <1>1, <2>2
    <3>2. more[i - 1] = b /\ more[i] = c /\ all[i] = e
      BY <1>1, <1>2, <1>4, <3>1 DEF Cuts
    <3> QED BY <3>2
  <2> QED BY <2>1, <2>2
<1>7. Cuts(all, U, a, c, more)
  BY <1>4, <1>5, <1>6 DEF Cuts
<1> QED BY <1>1, <1>7 DEF Stretches, all

LEMMA StretchesTail ==
  ASSUME NEW rd, NEW U, NEW a, NEW c, Stretches(rd, U, a, c), rd # <<>>
  PROVE  \E b : Stretch(Head(rd).data, U, a, b) /\ Stretches(Tail(rd), U, b, c)
<1> DEFINE rest == Tail(rd)
<1>1. IsSequence(rd)
  BY DEF Stretches
<1>2. /\ IsSequence(rest) /\ Len(rest) = Len(rd) - 1 /\ Len(rd) > 0 /\ Len(rd) \in Nat
      /\ Head(rd) = rd[1]
      /\ \A i \in 1 .. Len(rest) : i + 1 \in 1 .. Len(rd) /\ rest[i] = rd[i + 1]
  BY <1>1, TailOfSequence, SequenceLength
<1>3. PICK cut : Cuts(rd, U, a, c, cut)
  BY DEF Stretches
<1> DEFINE left == [i \in 0 .. Len(rest) |-> cut[i + 1]]
<1> HIDE DEF rest
<1>4. /\ left \in [0 .. Len(rest) -> Nat]
      /\ \A i \in 0 .. Len(rest) : left[i] = cut[i + 1]
  <2>1. \A i \in 0 .. Len(rest) : i + 1 \in 0 .. Len(rd)
    BY <1>2
  <2> QED BY <1>3, <2>1 DEF Cuts
<1> HIDE DEF left
<1>5. left[0] = cut[1] /\ left[Len(rest)] = c
  <2>1. 0 \in 0 .. Len(rest) /\ Len(rest) \in 0 .. Len(rest) /\ Len(rest) + 1 = Len(rd) /\ 0 + 1 = 1
    BY <1>2
  <2> QED BY <1>3, <1>4, <2>1 DEF Cuts
<1>6. ASSUME NEW i \in 1 .. Len(rest) PROVE Stretch(rest[i].data, U, left[i - 1], left[i])
  <2>1. /\ i - 1 \in 0 .. Len(rest) /\ i \in 0 .. Len(rest)
        /\ (i - 1) + 1 = i /\ (i + 1) - 1 = i /\ i + 1 \in 1 .. Len(rd)
    BY <1>2
  <2>2. left[i - 1] = cut[i] /\ left[i] = cut[i + 1] /\ rest[i] = rd[i + 1]
    BY <1>2, <1>4, <2>1
  <2>3. Stretch(rd[i + 1].data, U, cut[(i + 1) - 1], cut[i + 1])
    BY <1>3, <2>1 DEF Cuts
  <2> QED BY <2>1, <2>2, <2>3
<1>7. Cuts(rest, U, cut[1], c, left)
  BY <1>4, <1>5, <1>6 DEF Cuts
<1>8. Stretch(rd[1].data, U, a, cut[1])
  <2>1. 1 \in 1 .. Len(rd) /\ 1 - 1 = 0
    BY <1>2
  <2>2. Stretch(rd[1].data, U, cut[1 - 1], cut[1])
    BY <1>3, <2>1 DEF Cuts
  <2> QED BY <1>3, <2>1, <2>2 DEF Cuts
<1> QED BY <1>2, <1>7, <1>8 DEF Stretches, rest

LEMMA StretchesOfMore ==
  ASSUME NEW rd, NEW U, NEW t, NEW a, NEW c, IsSequence(U), IsSequence(t), Stretches(rd, U, a, c)
  PROVE  Stretches(rd, U \o t, a, c)
<1>1. PICK cut : Cuts(rd, U, a, c, cut)
  BY DEF Stretches
<1>2. ASSUME NEW i \in 1 .. Len(rd) PROVE Stretch(rd[i].data, U \o t, cut[i - 1], cut[i])
  <2>1. Stretch(rd[i].data, U, cut[i - 1], cut[i])
    BY <1>1 DEF Cuts
  <2> QED BY <2>1, StretchOfMore
<1>3. Cuts(rd, U \o t, a, c, cut)
  BY <1>1, <1>2 DEF Cuts
<1> QED BY <1>3 DEF Stretches

\* Reads that end without data take nothing out of the stream.
LEMMA StretchesCancelled ==
  ASSUME NEW rd, NEW rs, NEW U, NEW a, NEW c, IsSequence(U), IsSequence(rs),
         Stretches(rd, U, a, c), c <= Len(U)
  PROVE  Stretches(rd \o Aborted(rs), U, a, c)
<1> DEFINE t == Aborted(rs)
           all == rd \o t
<1>1. IsSequence(t) /\ Len(t) = Len(rs) /\ \A i \in 1 .. Len(rs) : t[i].data = <<>>
  BY AbortedAre
<1> HIDE DEF t
<1>2. IsSequence(rd) /\ IsSequence(t) /\ Len(rd) \in Nat /\ Len(t) \in Nat
  BY <1>1, SequenceLength DEF Stretches
<1>3. /\ IsSequence(all) /\ Len(all) = Len(rd) + Len(t)
      /\ \A i \in 1 .. Len(rd) : all[i] = rd[i]
      /\ \A i \in 1 .. Len(t) : all[Len(rd) + i] = t[i]
      /\ \A i \in 1 .. Len(all) :
           i \in 1 .. Len(rd) \/ \E j \in 1 .. Len(t) : i = Len(rd) + j
  <2>1. IsSequence(rd) /\ IsSequence(t)
    BY <1>2
  <2>2. IsSequence(all) /\ Len(all) = Len(rd) + Len(t)
    BY <2>1, JoinedSequence
  <2>3. \A i \in 1 .. Len(rd) : all[i] = rd[i]
    BY <2>1, JoinedSequence
  <2>4. \A i \in 1 .. Len(t) : all[Len(rd) + i] = t[i]
    BY <2>1, JoinedSequence
  <2>5. \A i \in 1 .. Len(all) :
          i \in 1 .. Len(rd) \/ \E j \in 1 .. Len(t) : i = Len(rd) + j
    BY <2>1, JoinedSequence
  <2> HIDE DEF all
  <2> QED BY <2>2, <2>3, <2>4, <2>5
<1> HIDE DEF all
<1>4. PICK cut : Cuts(rd, U, a, c, cut)
  BY DEF Stretches
<1>5. a \in Nat /\ c \in Nat
  BY StretchesEnds
<1> DEFINE more == [i \in 0 .. Len(all) |-> IF i <= Len(rd) THEN cut[i] ELSE c]
<1>6. \A i \in 0 .. Len(all) : i <= Len(rd) => cut[i] \in Nat
  <2>1. cut \in [0 .. Len(rd) -> Nat]
    BY <1>4 DEF Cuts
  <2>2. \A i \in 0 .. Len(all) : i <= Len(rd) => i \in 0 .. Len(rd)
    BY <1>2, <1>3
  <2> QED BY <2>1, <2>2
<1>7. /\ more \in [0 .. Len(all) -> Nat]
      /\ \A i \in 0 .. Len(all) : more[i] = IF i <= Len(rd) THEN cut[i] ELSE c
  BY <1>5, <1>6
<1> HIDE DEF more
<1>8. \A i \in 0 .. Len(rd) : more[i] = cut[i]
  BY <1>2, <1>3, <1>7
<1>9. \A i \in 0 .. Len(all) : i >= Len(rd) => more[i] = c
  BY <1>2, <1>3, <1>4, <1>7 DEF Cuts
<1>10. more[0] = a /\ more[Len(all)] = c
  <2>1. 0 \in 0 .. Len(rd) /\ Len(all) \in 0 .. Len(all) /\ Len(all) >= Len(rd)
    BY <1>2, <1>3
  <2> QED BY <1>4, <1>8, <1>9, <2>1 DEF Cuts
<1>11. ASSUME NEW i \in 1 .. Len(all) PROVE Stretch(all[i].data, U, more[i - 1], more[i])
  <2>1. CASE i \in 1 .. Len(rd)
    <3>1. i - 1 \in 0 .. Len(rd) /\ i \in 0 .. Len(rd)
      BY <1>2, <2>1
    <3>2. more[i - 1] = cut[i - 1] /\ more[i] = cut[i] /\ all[i] = rd[i]
      BY <1>3, <1>8, <2>1, <3>1
    <3> QED BY <1>4, <2>1, <3>2 DEF Cuts
  <2>2. CASE i \notin 1 .. Len(rd)
    <3>1. PICK j \in 1 .. Len(t) : i = Len(rd) + j
      BY <1>3, <2>2
    <3>2. all[i].data = <<>>
      BY <1>1, <1>3, <3>1
    <3>3. i - 1 \in 0 .. Len(all) /\ i \in 0 .. Len(all) /\ i - 1 >= Len(rd) /\ i >= Len(rd)
      BY <1>2, <1>3, <3>1
    <3>4. more[i - 1] = c /\ more[i] = c
      BY <1>9, <3>3
    <3> QED BY <1>5, <3>2, <3>4, NoStretch
  <2> QED BY <2>1, <2>2
<1>12. Cuts(all, U, a, c, more)
  BY <1>7, <1>10, <1>11 DEF Cuts
<1> QED BY <1>3, <1>12 DEF Stretches, all, t

LEMMA StretchesGivenUp ==
  ASSUME NEW rd, NEW U, NEW a, NEW c, NEW mine, Stretches(rd, U, a, c),
         mine \subseteq 1 .. Len(rd), \A i \in mine : rd[i].data = <<>>
  PROVE  Stretches(GivenUp(rd, mine), U, a, c)
<1>1. CASE mine = {}
  BY <1>1 DEF GivenUp
<1>2. CASE mine # {}
  <2> DEFINE i0 == CHOOSE i \in mine : TRUE
             t == RemoveAt(rd, i0)
  <2>1. i0 \in mine /\ i0 \in 1 .. Len(rd) /\ rd[i0].data = <<>>
    BY <1>2
  <2>2. GivenUp(rd, mine) = t
    BY <1>2 DEF GivenUp
  <2> HIDE DEF i0
  <2>3. IsSequence(rd) /\ Len(rd) \in Nat
    BY SequenceLength DEF Stretches
  <2>4. /\ IsSequence(t) /\ Len(t) = Len(rd) - 1
        /\ \A j \in 1 .. Len(rd) - 1 : t[j] = IF j < i0 THEN rd[j] ELSE rd[j + 1]
    BY <2>1, <2>3, RemovedFromSequence
  <2> HIDE DEF t
  <2>5. PICK cut : Cuts(rd, U, a, c, cut)
    BY DEF Stretches
  <2>6. cut[i0 - 1] = cut[i0]
    <3>1. Stretch(<<>>, U, cut[i0 - 1], cut[i0])
      BY <2>1, <2>5 DEF Cuts
    <3> QED BY <3>1, NoStretchEnds
  <2> DEFINE left == [j \in 0 .. Len(t) |-> IF j < i0 THEN cut[j] ELSE cut[j + 1]]
  <2>7. \A j \in 0 .. Len(t) : cut[j] \in Nat /\ cut[j + 1] \in Nat
    BY <2>3, <2>4, <2>5 DEF Cuts
  <2>8. /\ left \in [0 .. Len(t) -> Nat]
        /\ \A j \in 0 .. Len(t) : left[j] = IF j < i0 THEN cut[j] ELSE cut[j + 1]
    BY <2>7
  <2> HIDE DEF left
  <2>9. left[0] = a
    BY <2>1, <2>3, <2>4, <2>5, <2>8 DEF Cuts
  <2>10. left[Len(t)] = c
    <3>1. Len(t) \in 0 .. Len(t) /\ Len(t) + 1 = Len(rd)
      BY <2>1, <2>3, <2>4
    <3>2. CASE Len(t) < i0
      <4>1. i0 = Len(rd) /\ Len(t) = i0 - 1
        BY <2>1, <2>3, <2>4, <3>2
      <4>2. left[Len(t)] = cut[i0 - 1]
        BY <2>8, <3>1, <3>2, <4>1
      <4> QED BY <2>5, <2>6, <4>1, <4>2 DEF Cuts
    <3>3. CASE ~(Len(t) < i0)
      BY <2>5, <2>8, <3>1, <3>3 DEF Cuts
    <3> QED BY <3>2, <3>3
  <2>11. ASSUME NEW j \in 1 .. Len(t) PROVE Stretch(t[j].data, U, left[j - 1], left[j])
    <3>1. /\ j - 1 \in 0 .. Len(t) /\ j \in 0 .. Len(t) /\ (j - 1) + 1 = j /\ (j + 1) - 1 = j
          /\ j \in 1 .. Len(rd) /\ j + 1 \in 1 .. Len(rd) /\ j \in 1 .. Len(rd) - 1
      BY <2>1, <2>3, <2>4
    <3>2. CASE j < i0
      <4>1. left[j - 1] = cut[j - 1] /\ left[j] = cut[j] /\ t[j] = rd[j]
        BY <2>1, <2>4, <2>8, <3>1, <3>2
      <4> QED BY <2>5, <3>1, <4>1 DEF Cuts
    <3>3. CASE ~(j < i0)
      <4>1. left[j] = cut[j + 1] /\ t[j] = rd[j + 1]
        BY <2>4, <2>8, <3>1, <3>3
      <4>2. left[j - 1] = cut[j]
        <5>1. CASE j = i0
          <6>1. left[j - 1] = cut[j - 1]
            BY <2>1, <2>8, <3>1, <5>1
          <6> QED BY <2>6, <5>1, <6>1
        <5>2. CASE j # i0
          <6>1. ~(j - 1 < i0)
            BY <2>1, <3>3, <5>2
          <6> QED BY <2>8, <3>1, <6>1
        <5> QED BY <5>1, <5>2
      <4>3. Stretch(rd[j + 1].data, U, cut[(j + 1) - 1], cut[j + 1])
        BY <2>5, <3>1 DEF Cuts
      <4> QED BY <3>1, <4>1, <4>2, <4>3
    <3> QED BY <3>2, <3>3
  <2>12. Cuts(t, U, a, c, left)
    BY <2>8, <2>9, <2>10, <2>11 DEF Cuts
  <2> QED BY <2>2, <2>4, <2>12 DEF Stretches
<1> QED BY <1>1, <1>2

\* Reads without data may be passed by one that has some.
LEMMA StretchesOfNothing ==
  ASSUME NEW rd, NEW U, NEW a, NEW c, Stretches(rd, U, a, c),
         \A i \in 1 .. Len(rd) : rd[i].data = <<>>
  PROVE  a = c
<1>1. Len(rd) \in Nat
  BY SequenceLength DEF Stretches
<1>2. PICK cut : Cuts(rd, U, a, c, cut)
  BY DEF Stretches
<1> DEFINE S == {i \in 0 .. Len(rd) : cut[i] # a}
<1>3. CASE S = {}
  <2>1. Len(rd) \in 0 .. Len(rd)
    BY <1>1
  <2> QED BY <1>2, <1>3, <2>1 DEF Cuts
<1>4. CASE S # {}
  <2>1. S \subseteq Nat
    OBVIOUS
  <2>2. PICK i \in S : \A j \in S : i <= j
    BY <1>4, <2>1, LeastNumber
  <2>3. i # 0 /\ i \in 0 .. Len(rd)
    BY <1>2, <2>2 DEF Cuts
  <2>4. i \in 1 .. Len(rd) /\ i - 1 \in 0 .. Len(rd) /\ ~(i <= i - 1)
    BY <1>1, <2>3
  <2>5. cut[i - 1] = a
    BY <2>2, <2>4
  <2>6. Stretch(<<>>, U, cut[i - 1], cut[i])
    BY <1>2, <2>4 DEF Cuts
  <2>7. cut[i] = a
    BY <2>5, <2>6, NoStretchEnds
  <2> QED BY <2>2, <2>7
<1> QED BY <1>3, <1>4

LEMMA StretchesTurned ==
  ASSUME NEW rd, NEW U, NEW a, NEW c, Stretches(rd, U, a, c), rd # <<>>,
         \A i \in 1 .. Len(Tail(rd)) : Tail(rd)[i].data = <<>>
  PROVE  Stretches(Append(Tail(rd), Head(rd)), U, a, c)
<1> DEFINE e == Head(rd)
           rest == Tail(rd)
<1>1. PICK b : Stretch(e.data, U, a, b) /\ Stretches(rest, U, b, c)
  BY StretchesTail
<1>2. \A i \in 1 .. Len(rest) : rest[i].data = <<>>
  OBVIOUS
<1>3. a \in Nat /\ IsSequence(rest)
  BY <1>1, StretchEnds DEF Stretches
<1> HIDE DEF e, rest
<1>4. b = c
  BY <1>1, <1>2, StretchesOfNothing
<1>5. a <= Len(U)
  <2>1. IsSequence(e.data) /\ Len(e.data) \in Nat /\ b = a + Len(e.data) /\ b <= Len(U)
    BY <1>1, SequenceLength DEF Stretch
  <2>2. Len(U) >= a + Len(e.data)
    BY <2>1
  <2> QED BY <1>3, <2>1, <2>2
<1>6. Stretches(rest, U, a, a)
  <2> DEFINE cut == [i \in 0 .. Len(rest) |-> a]
  <2>1. Len(rest) \in Nat
    BY <1>3, SequenceLength
  <2>2. cut \in [0 .. Len(rest) -> Nat] /\ cut[0] = a /\ cut[Len(rest)] = a
    BY <1>3, <2>1
  <2>3. ASSUME NEW i \in 1 .. Len(rest) PROVE Stretch(rest[i].data, U, cut[i - 1], cut[i])
    <3>1. i - 1 \in 0 .. Len(rest) /\ i \in 0 .. Len(rest)
      BY <2>1
    <3>2. cut[i - 1] = a /\ cut[i] = a
      BY <3>1
    <3> HIDE DEF cut
    <3>3. Stretch(<<>>, U, a, a)
      <4>1. IsSequence(<<>>) /\ Len(<<>>) = 0 /\ a = a + 0
        BY <1>3, EmptySequence
      <4> QED BY <1>3, <1>5, <4>1 DEF Stretch
    <3> QED BY <1>2, <3>2, <3>3
  <2> HIDE DEF cut
  <2>4. Cuts(rest, U, a, a, cut)
    BY <2>2, <2>3 DEF Cuts
  <2> QED BY <1>3, <2>4 DEF Stretches
<1>7. Stretches(Append(rest, e), U, a, c)
  BY <1>1, <1>4, <1>6, StretchesAppended
<1> QED BY <1>7 DEF e, rest

-----------------------------------------------------------------------------
(* RtspClient: the frames come whole and in their order. *)

IsHead(u) == u.part = "head"
IsTail(u) == u.part = "tail"

\* The stream of a connection from its beginning: the two parts of a frame are
\* side by side, and the frames count upwards.
Framed(U) ==
  /\ IsSequence(U)
  /\ \A p \in 1 .. Len(U) : U[p].part \in {"answer", "head", "tail"}
  /\ \A p \in 1 .. Len(U) :
       IsHead(U[p]) => p + 1 \in 1 .. Len(U) /\ U[p + 1] = FrameTail(U[p].n, U[p].chan)
  /\ \A p \in 1 .. Len(U) : IsTail(U[p]) => p - 1 \in 1 .. Len(U) /\ IsHead(U[p - 1])
  /\ \A p, q \in 1 .. Len(U) : p < q /\ IsHead(U[p]) /\ IsHead(U[q]) => U[p].n < U[q].n

\* The buffer begins with a unit of its own.
Between(U, b) == b + 1 \in 1 .. Len(U) => ~IsTail(U[b + 1])

\* It lies in the buffer from the place b on, in the completed reads, and on the wire.
Laid(U, b) ==
  \E a, c : Stretch(unread, U, b, a) /\ Stretches(ready, U, a, c) /\ Stretch(wire, U, c, Len(U))

NumbersSent(U) == \A p \in 1 .. Len(U) : IsHead(U[p]) => U[p].n \in 1 .. streamed /\ peer.served

\* The frames given out are those before what is left.
Later(U, b) ==
  \A i \in 1 .. Len(got) : \A p \in 1 .. Len(U) :
    p > b + pending /\ IsHead(U[p]) => got[i][1].n < U[p].n

Stream(U, b) == Laid(U, b) /\ Framed(U) /\ Between(U, b) /\ NumbersSent(U) /\ Later(U, b)

GotWhole ==
  /\ \A i \in 1 .. Len(got) : /\ got[i][2] = FrameTail(got[i][1].n, got[i][1].chan)
                              /\ got[i][1].n \in 1 .. streamed
  /\ \A i, j \in 1 .. Len(got) : i < j => got[i][1].n < got[j][1].n

\* What a loop has given out is at the front of the buffer until it comes back.
Cursor ==
  /\ \A l \in Loops : loop[l] # "astray"
  /\ \A l \in Loops : loop[l] = "top" =>
       pending <= Len(unread) /\ (pending = 2 => IsHead(unread[1]))
  /\ \A l \in Loops : loop[l] \in {"scan", "reading"} => pending = 0
  /\ session \in {kDescribed, kReady} \/ call.op \in {"describe", "setup", "play"} => pending = 0

\* No frame is sent before the first PLAY.
Play ==
  /\ streamed \in Nat
  /\ peer.serving => peer.served
  /\ pending # 0 => peer.served

StreamInv == Cursor /\ Play /\ GotWhole /\ \E U, b : Stream(U, b)

LEMMA LaidIs ==
  ASSUME NEW U, NEW b, Laid(U, b)
  PROVE  /\ b \in Nat /\ Len(unread) \in Nat /\ b + Len(unread) <= Len(U)
         /\ IsSequence(unread)
         /\ \A i \in 1 .. Len(unread) : unread[i] = U[b + i]
<1>1. PICK a, c : Stretch(unread, U, b, a) /\ Stretches(ready, U, a, c) /\ Stretch(wire, U, c, Len(U))
  BY DEF Laid
<1>2. b \in Nat /\ a \in Nat /\ Len(unread) \in Nat /\ a = b + Len(unread)
  BY <1>1, StretchEnds
<1> QED BY <1>1, <1>2 DEF Stretch

LEMMA FirstUnread ==
  ASSUME NEW U, NEW b, Laid(U, b), Framed(U), Between(U, b), unread # <<>>
  PROVE  /\ b + 1 \in 1 .. Len(U) /\ unread[1] = U[b + 1] /\ Len(unread) > 0
         /\ unread[1].part # "head" =>
              IsAnswer(U[b + 1]) /\ (AnswerAt(unread) > 0 => AnswerAt(unread) = 1)
<1>1. /\ b \in Nat /\ Len(unread) \in Nat /\ b + Len(unread) <= Len(U)
      /\ IsSequence(unread)
      /\ \A i \in 1 .. Len(unread) : unread[i] = U[b + i]
  BY LaidIs
<1>2. Len(unread) > 0 /\ 1 \in 1 .. Len(unread)
  BY <1>1, SequenceEmpty
<1>3. Len(U) \in Nat
  BY SequenceLength DEF Framed
<1>4. b + 1 \in 1 .. Len(U) /\ unread[1] = U[b + 1]
  BY <1>1, <1>2, <1>3
<1>5. ASSUME unread[1].part # "head"
      PROVE  IsAnswer(U[b + 1]) /\ (AnswerAt(unread) > 0 => AnswerAt(unread) = 1)
  <2>1. U[b + 1].part \in {"answer", "head", "tail"} /\ ~IsTail(U[b + 1])
    BY <1>4 DEF Framed, Between
  <2>2. IsAnswer(U[b + 1]) /\ IsAnswer(unread[1])
    BY <1>4, <1>5, <2>1 DEF IsAnswer, IsTail
  <2>3. AnswerAt(unread) > 0 => AnswerAt(unread) \in 1 .. Len(unread) /\ AnswerAt(unread) <= 1
    BY <1>1, <1>2, <2>2, AnswerAtIs
  <2> QED BY <1>1, <2>2, <2>3
<1> QED BY <1>2, <1>4, <1>5

LEMMA BetweenUnits ==
  ASSUME NEW U, Framed(U), NEW b \in Nat, b + 1 \in 1 .. Len(U)
  PROVE  /\ IsAnswer(U[b + 1]) => Between(U, b + 1)
         /\ IsHead(U[b + 1]) => /\ Between(U, b + 2) /\ b + 2 \in 1 .. Len(U)
                                /\ U[b + 2] = FrameTail(U[b + 1].n, U[b + 1].chan)
<1>1. b + 1 + 1 = b + 2 /\ b + 2 + 1 = b + 3 /\ b + 2 - 1 = b + 1 /\ b + 3 - 1 = b + 2
  OBVIOUS
<1>2. ASSUME IsAnswer(U[b + 1]) PROVE Between(U, b + 1)
  <2>1. ASSUME b + 2 \in 1 .. Len(U), IsTail(U[b + 2]) PROVE FALSE
    <3>1. IsHead(U[b + 2 - 1])
      BY <2>1 DEF Framed
    <3>2. IsHead(U[b + 1])
      BY <1>1, <3>1
    <3> QED BY <1>2, <3>2 DEF IsHead, IsAnswer
  <2> QED BY <1>1, <2>1 DEF Between
<1>3. ASSUME IsHead(U[b + 1])
      PROVE  /\ Between(U, b + 2) /\ b + 2 \in 1 .. Len(U)
             /\ U[b + 2] = FrameTail(U[b + 1].n, U[b + 1].chan)
  <2>1. b + 1 + 1 \in 1 .. Len(U) /\ U[b + 1 + 1] = FrameTail(U[b + 1].n, U[b + 1].chan)
    BY <1>3 DEF Framed
  <2>2. b + 2 \in 1 .. Len(U) /\ U[b + 2] = FrameTail(U[b + 1].n, U[b + 1].chan)
    BY <1>1, <2>1
  <2>3. ASSUME b + 3 \in 1 .. Len(U), IsTail(U[b + 3]) PROVE FALSE
    <3>1. IsHead(U[b + 3 - 1])
      BY <2>3 DEF Framed
    <3>2. IsHead(U[b + 2])
      BY <1>1, <3>1
    <3> QED BY <2>2, <3>2 DEF IsHead, FrameTail
  <2> QED BY <1>1, <2>2, <2>3 DEF Between
<1> QED BY <1>2, <1>3

\* A whole frame at the front of the buffer.
LEMMA WholeIs ==
  ASSUME NEW U, NEW b, Laid(U, b), Framed(U), Between(U, b), WholeFrame(unread)
  PROVE  /\ b \in Nat /\ b + 1 \in 1 .. Len(U) /\ Between(U, b + 2)
         /\ IsHead(unread[1]) /\ unread[1] = U[b + 1] /\ 2 <= Len(unread)
         /\ unread[2] = FrameTail(unread[1].n, unread[1].chan)
<1>1. /\ b \in Nat /\ Len(unread) \in Nat
      /\ IsSequence(unread)
      /\ \A i \in 1 .. Len(unread) : unread[i] = U[b + i]
  BY LaidIs
<1>2. 2 <= Len(unread) /\ unread[1].part = "head"
  BY <1>1 DEF WholeFrame
<1>3. unread # <<>>
  BY <1>1, <1>2, SequenceEmpty
<1>4. b + 1 \in 1 .. Len(U) /\ unread[1] = U[b + 1]
  BY <1>3, FirstUnread
<1>5. IsHead(U[b + 1])
  BY <1>2, <1>4 DEF IsHead
<1>6. Between(U, b + 2) /\ U[b + 2] = FrameTail(U[b + 1].n, U[b + 1].chan)
  BY <1>1, <1>4, <1>5, BetweenUnits
<1>7. unread[2] = U[b + 2]
  BY <1>1, <1>2
<1> QED BY <1>1, <1>2, <1>4, <1>5, <1>6, <1>7

-----------------------------------------------------------------------------
(* What becomes of the stream. *)

\* The counters of it stay, or move on.
LEMMA StreamAgain ==
  ASSUME NEW U, NEW b, Stream(U, b), NEW d, Laid(U, d)', Between(U, d),
         UNCHANGED <<got, streamed>>, peer.served => peer'.served,
         b + pending <= d + pending', pending \in Nat, pending' \in Nat
  PROVE  Stream(U, d)'
<1>1. b \in Nat
  BY LaidIs DEF Stream
<1>2. d \in Nat
  BY StretchEnds DEF Laid
<1>3. NumbersSent(U)'
  BY DEF Stream, NumbersSent
<1>4. Later(U, d)'
  <2> SUFFICES ASSUME NEW i \in 1 .. Len(got), NEW p \in 1 .. Len(U), p > d + pending', IsHead(U[p])
               PROVE  got[i][1].n < U[p].n
    BY DEF Later
  <2>1. PICK n \in Nat : n = pending'
    OBVIOUS
  <2>2. PICK m \in Nat : m = pending
    OBVIOUS
  <2>3. p > d + n /\ b + m <= d + n
    BY <2>1, <2>2
  <2>4. p > b + pending
    BY <1>1, <1>2, <2>2, <2>3
  <2> QED BY <2>4 DEF Stream, Later
<1> QED BY <1>3, <1>4 DEF Stream

LEMMA StreamTaken ==
  ASSUME NEW U, NEW b, Stream(U, b), NEW n \in Nat, n <= Len(unread),
         unread' = Behind(unread, n), Between(U, b + n),
         UNCHANGED <<ready, wire, got, streamed, peer>>,
         pending \in Nat, pending' \in Nat, pending' = pending \/ (pending = n /\ pending' = 0)
  PROVE  Stream(U, b + n)'
<1>1. b \in Nat
  BY LaidIs DEF Stream
<1>2. PICK a, c : Stretch(unread, U, b, a) /\ Stretches(ready, U, a, c) /\ Stretch(wire, U, c, Len(U))
  BY DEF Stream, Laid
<1>3. Stretch(unread', U, b + n, a)
  BY <1>2, StretchBehind
<1>4. Laid(U, b + n)'
  BY <1>2, <1>3 DEF Laid
<1>5. b + pending <= b + n + pending'
  <2>1. PICK m \in Nat : m = pending'
    OBVIOUS
  <2>2. PICK k \in Nat : k = pending
    OBVIOUS
  <2>3. m = k \/ (k = n /\ m = 0)
    BY <2>1, <2>2
  <2>4. b + k <= b + n + m
    BY <1>1, <2>3
  <2> QED BY <2>1, <2>2, <2>4
<1> QED BY <1>4, <1>5, StreamAgain

\* Reads come and go, and what they have taken stays the same.
DataKept ==
  \A U, a, c : IsSequence(U) /\ Stretches(ready, U, a, c) /\ c <= Len(U) => Stretches(ready', U, a, c)

LEMMA StreamStays ==
  ASSUME NEW U, NEW b, Stream(U, b), UNCHANGED <<unread, wire, got, streamed, pending>>,
         peer.served => peer'.served, pending \in Nat, DataKept
  PROVE  Stream(U, b)'
<1>1. b \in Nat
  BY LaidIs DEF Stream
<1>2. PICK a, c : Stretch(unread, U, b, a) /\ Stretches(ready, U, a, c) /\ Stretch(wire, U, c, Len(U))
  BY DEF Stream, Laid
<1>3. c <= Len(U)
  <2>1. c \in Nat /\ Len(wire) \in Nat /\ Len(U) = c + Len(wire)
    BY <1>2, StretchEnds
  <2> QED BY <2>1
<1>4. Laid(U, b)'
  <2>1. Stretches(ready', U, a, c)
    BY <1>2, <1>3 DEF DataKept, Stream, Framed
  <2> QED BY <1>2, <2>1 DEF Laid
<1>5. Between(U, b)
  BY DEF Stream
<1>6. b + pending <= b + pending'
  BY <1>1
<1> QED BY <1>4, <1>5, <1>6, StreamAgain

LEMMA ReadsKeepData ==
  ASSUME BaseInv, \/ UNCHANGED ready \/ CancelReads \/ EndOfStream \/ Timeout
                  \/ ~torn' /\ (GiveUp \/ CallHasRead)
  PROVE  DataKept
<1> SUFFICES ASSUME NEW U, NEW a, NEW c, IsSequence(U), Stretches(ready, U, a, c), c <= Len(U)
             PROVE  Stretches(ready', U, a, c)
  BY DEF DataKept
<1>0. Entries(reads, ready) /\ IsSequence(reads) /\ IsSequence(ready)
  BY DEF BaseInv, ControlInv, ReadsFit, Entries
<1>1. CASE UNCHANGED ready
  BY <1>1
<1>2. CASE CancelReads
  <2>1. ready' = ready \o Aborted(reads)
    BY <1>2 DEF CancelReads
  <2> QED BY <1>0, <2>1, StretchesCancelled
<1>3. ASSUME NEW e, e.data = <<>>, ready' = Append(ready, e)
      PROVE  Stretches(ready', U, a, c)
  <2>1. c \in Nat
    BY StretchesEnds
  <2>2. Stretch(e.data, U, c, c)
    BY <1>3, <2>1, NoStretch
  <2> QED BY <1>3, <2>2, StretchesAppended
<1>4. CASE EndOfStream
  <2> DEFINE e == [who |-> reads[1], how |-> "eof", data |-> <<>>]
  <2>1. ready' = Append(ready, e) /\ e.data = <<>>
    BY <1>4 DEF EndOfStream
  <2> HIDE DEF e
  <2> QED BY <1>3, <2>1
<1>5. CASE Timeout
  <2> DEFINE e == AbortedRead(Caller)
  <2>1. ready' = ready \/ ready' = Append(ready, e)
    BY <1>5 DEF Timeout
  <2>2. e.data = <<>>
    BY DEF AbortedRead
  <2> HIDE DEF e
  <2> QED BY <1>3, <2>1, <2>2
<1>6. CASE ~torn' /\ GiveUp
  <2> DEFINE mine == CompletedBy(Caller, ready)
             rd == GivenUp(ready, mine)
  <2>1. DOMAIN ready = 1 .. Len(ready)
    BY <1>0, SequenceLength
  <2>2. ready' = rd \o Aborted(reads)
    BY <1>6, GiveUpIs DEF BaseInv
  <2>3. mine \subseteq 1 .. Len(ready) /\ \A i \in mine : ready[i].data = <<>>
    BY <1>6, <2>1 DEF GiveUp, CompletedBy
  <2> HIDE DEF mine
  <2>4. Stretches(rd, U, a, c)
    BY <2>3, StretchesGivenUp
  <2> HIDE DEF rd
  <2> QED BY <1>0, <2>2, <2>4, StretchesCancelled
<1>7. CASE ~torn' /\ CallHasRead
  <2>1. ready # <<>>
    BY <1>7 DEF CallHasRead
  <2>2. CASE Head(ready).how = "data"
    <3>1. /\ ready' = Append(Tail(ready), Head(ready))
          /\ \A i \in DOMAIN Tail(ready) : Tail(ready)[i].data = <<>>
      BY <1>7, <2>2 DEF CallHasRead
    <3>2. DOMAIN Tail(ready) = 1 .. Len(Tail(ready))
      BY <1>0, <2>1, TailOfSequence, SequenceLength
    <3> QED BY <2>1, <3>1, <3>2, StretchesTurned
  <2>3. CASE Head(ready).how # "data"
    <3>1. ready' = Tail(ready)
      BY <1>7, <2>3 DEF CallHasRead
    <3>2. Head(ready).data = <<>>
      BY <1>0, <2>1, <2>3, ReadTaken
    <3>3. PICK b : Stretch(<<>>, U, a, b) /\ Stretches(Tail(ready), U, b, c)
      BY <2>1, <3>2, StretchesTail
    <3>4. a = b
      BY <3>3, NoStretchEnds
    <3> QED BY <3>1, <3>3, <3>4
  <2> QED BY <2>2, <2>3
<1> QED BY <1>1, <1>2, <1>4, <1>5, <1>6, <1>7

LEMMA CursorStays ==
  ASSUME Cursor, UNCHANGED <<unread, pending, loop>>,
         session' \in {kDescribed, kReady} \/ call'.op \in {"describe", "setup", "play"} => pending = 0
  PROVE  Cursor'
BY DEF Cursor

\* Steps that leave the stream and the buffer alone.
LEMMA PlainStream ==
  ASSUME BaseInv, StreamInv, UNCHANGED <<unread, wire, got, streamed, pending>>,
         peer.served => peer'.served, peer'.serving => peer'.served \/ peer.serving,
         DataKept, Cursor'
  PROVE  StreamInv'
<1>1. Play' /\ GotWhole'
  BY DEF StreamInv, Play, GotWhole
<1>2. PICK U, b : Stream(U, b)
  BY DEF StreamInv
<1>3. pending \in Nat
  BY DEF BaseInv, QueuesInv
<1>4. Stream(U, b)'
  BY <1>2, <1>3, StreamStays
<1> QED BY <1>1, <1>4 DEF StreamInv

\* Between the calls.
LEMMA AppStream ==
  ASSUME BaseInv, StreamInv, PlaysOnce,
         \/ SetCredentials \/ SetAuthProvider
         \/ \E op \in {"describe", "setup", "play", "pause"} : Request(op)
         \/ Teardown \/ Close
  PROVE  StreamInv'
<1>1. Cursor /\ Play
  BY DEF StreamInv
<1>2. UNCHANGED <<unread, wire, got, pending, peer>>
  BY AppQueues
<1>3. UNCHANGED <<streamed, loop, session>>
  BY DEF SetCredentials, SetAuthProvider, Request, Teardown, Close, memberVars
<1>4. DataKept
  <2>1. UNCHANGED ready \/ CancelReads
    BY DEF SetCredentials, SetAuthProvider, Request, Teardown, Close, ioVars
  <2> QED BY <2>1, ReadsKeepData
<1>5. call'.op \in {"describe", "setup", "play"} => pending = 0
  <2>1. CASE SetCredentials \/ SetAuthProvider
    <3>1. call' = call
      BY <2>1 DEF SetCredentials, SetAuthProvider
    <3> QED BY <1>1, <3>1 DEF Cursor
  <2>2. ASSUME NEW op \in {"describe", "setup", "play", "pause"}, Request(op)
        PROVE  call'.op \in {"describe", "setup", "play"} => pending = 0
    <3>1. call' = CallOf(op, "send") /\ Orderly(op)
      BY <2>2 DEF Request, Called
    <3>2. call'.op = op
      BY <3>1, CallMade
    <3>3. CASE op = "describe"
      BY <1>1, <3>1, <3>3 DEF Orderly, PlaysOnce, Play
    <3>4. CASE op = "setup"
      BY <1>1, <3>1, <3>4 DEF Orderly, Cursor
    <3>5. CASE op = "play"
      BY <1>1, <3>1, <3>5 DEF Orderly, PlaysOnce, Cursor
    <3> QED BY <3>2, <3>3, <3>4, <3>5
  <2>3. CASE Teardown \/ Close
    <3>1. call' = CallOf("teardown", "wait") \/ call' = CallOf("close", "wait")
      BY <2>3 DEF Teardown, Close
    <3> QED BY <3>1, CallMade
  <2> QED BY <2>1, <2>2, <2>3
<1>6. Cursor'
  BY <1>1, <1>2, <1>3, <1>5, CursorStays DEF Cursor
<1> QED BY <1>2, <1>3, <1>4, <1>6, PlainStream

\* During a call.
LEMMA CallStream ==
  ASSUME BaseInv, StreamInv,
         \/ TeardownGoesOn \/ AwaitAnswer \/ RetryWithAuth \/ OptionsDone \/ DescribeDone
         \/ SetupDone \/ PauseDone \/ TeardownDone \/ CallFails
         \/ Timeout \/ (~torn' /\ (GiveUp \/ CallHasRead))
  PROVE  StreamInv'
<1>1. Cursor
  BY DEF StreamInv
<1>2. UNCHANGED <<unread, wire, got, pending, peer>>
  BY AppQueues
<1>3. UNCHANGED <<streamed, loop>>
  BY DEF TeardownGoesOn, AwaitAnswer, RetryWithAuth, OptionsDone, DescribeDone, SetupDone,
         PauseDone, TeardownDone, CallFails, Timeout, GiveUp, CallHasRead, memberVars
<1>4. DataKept
  <2>1. CASE \/ TeardownGoesOn \/ AwaitAnswer \/ RetryWithAuth \/ OptionsDone \/ DescribeDone
             \/ SetupDone \/ PauseDone \/ TeardownDone \/ CallFails
    <3>1. UNCHANGED ready
      BY <2>1 DEF TeardownGoesOn, AwaitAnswer, RetryWithAuth, OptionsDone, DescribeDone,
                  SetupDone, PauseDone, TeardownDone, CallFails, ioVars
    <3> QED BY <3>1, ReadsKeepData
  <2>2. CASE Timeout \/ (~torn' /\ (GiveUp \/ CallHasRead))
    BY <2>2, ReadsKeepData
  <2> QED BY <2>1, <2>2
<1>5. call'.op \in {call.op, "none"}
  <2>1. \/ call' = NoCall \/ NextRequest \/ call' = call
        \/ \E pc : call' = [call EXCEPT !.pc = pc]
        \/ call' = [call EXCEPT !.pc = "send", !.retried = TRUE, !.answer = NoAnswer]
    BY DEF TeardownGoesOn, AwaitAnswer, RetryWithAuth, OptionsDone, DescribeDone, SetupDone,
           PauseDone, TeardownDone, CallFails, Timeout, GiveUp, CallHasRead, Returns
  <2>2. CASE call' = NoCall
    BY <2>2, NoCallIs
  <2>3. CASE NextRequest
    BY <2>3, NextRequestIs
  <2>4. CASE (\E pc : call' = [call EXCEPT !.pc = pc])
             \/ call' = [call EXCEPT !.pc = "send", !.retried = TRUE, !.answer = NoAnswer]
    BY <2>4 DEF BaseInv, ControlInv, CallShape
  <2> QED BY <2>1, <2>2, <2>3, <2>4
<1>6. \/ session' = session \/ call.op \in {"describe", "setup"}
      \/ session' \in {kPaused, kConnected}
  BY DEF TeardownGoesOn, AwaitAnswer, RetryWithAuth, OptionsDone, DescribeDone, SetupDone,
         PauseDone, TeardownDone, CallFails, Timeout, GiveUp, CallHasRead, memberVars
<1>7. session' \in {kDescribed, kReady} \/ call'.op \in {"describe", "setup", "play"} => pending = 0
  BY <1>1, <1>5, <1>6 DEF Cursor, kPaused, kConnected, kDescribed, kReady
<1>8. Cursor'
  BY <1>1, <1>2, <1>3, <1>7, CursorStays
<1> QED BY <1>2, <1>3, <1>4, <1>8, PlainStream

\* A loop begins with nothing given out.
LEMMA PlayStream == ASSUME BaseInv, StreamInv, PlayDone PROVE StreamInv'
<1>1. Cursor
  BY DEF StreamInv
<1>2. UNCHANGED <<unread, wire, got, pending, peer>>
  BY AppQueues
<1> DEFINE new == plays + 1
<1>3. /\ UNCHANGED <<streamed, ready>> /\ call.op = "play" /\ call' = NoCall
      /\ session' = kPlaying /\ loop' = [loop EXCEPT ![new] = "top"]
  BY DEF PlayDone, ioVars
<1> HIDE DEF new
<1>4. pending = 0
  BY <1>1, <1>3 DEF Cursor
<1>5. Len(unread) \in Nat
  BY SequenceLength DEF BaseInv, QueuesInv
<1>6. \A l \in Loops : loop'[l] = "top" \/ loop'[l] = loop[l]
  BY <1>3 DEF BaseInv, ControlInv, LoopShape
<1>7. call'.op = "none"
  BY <1>3, NoCallIs
<1>8. Cursor'
  BY <1>1, <1>2, <1>3, <1>4, <1>5, <1>6, <1>7 DEF Cursor, kPlaying, kDescribed, kReady
<1>9. DataKept
  BY <1>3, ReadsKeepData
<1> QED BY <1>2, <1>3, <1>8, <1>9, PlainStream

\* A new connection, and the end of one: nothing is under way.
LEMMA EmptyStream ==
  /\ Framed(<<>>) /\ Between(<<>>, 0) /\ Stretch(<<>>, <<>>, 0, 0) /\ Stretches(<<>>, <<>>, 0, 0)
<1>1. IsSequence(<<>>) /\ Len(<<>>) = 0
  BY EmptySequence
<1>2. Stretch(<<>>, <<>>, 0, 0) /\ Stretches(<<>>, <<>>, 0, 0)
  BY <1>1, NoStretch, NoStretches
<1>3. Framed(<<>>) /\ Between(<<>>, 0)
  BY <1>1 DEF Framed, Between
<1> QED BY <1>2, <1>3

LEMMA EmptyAgain ==
  ASSUME unread' = <<>>, ready' = <<>>, wire' = <<>>
  PROVE  Stream(<<>>, 0)'
<1>1. Len(<<>>) = 0
  BY EmptySequence
<1>2. Laid(<<>>, 0)'
  BY <1>1, EmptyStream DEF Laid
<1>3. NumbersSent(<<>>)' /\ Later(<<>>, 0)'
  BY <1>1 DEF NumbersSent, Later
<1> QED BY <1>2, <1>3, EmptyStream DEF Stream

LEMMA ConnectStream == ASSUME BaseInv, Connect PROVE StreamInv'
<1>1. /\ unread' = <<>> /\ wire' = <<>> /\ got' = <<>> /\ pending' = 0 /\ streamed' = 0
      /\ UNCHANGED <<ready, loop, call>> /\ session = kDisconnected
      /\ call = NoCall /\ session' \in {kConnected, session}
  BY DEF Connect
<1>2. call.pc = "none" /\ call.op = "none"
  BY <1>1, NoCallIs
<1>3. ~active
  BY <1>1 DEF BaseInv, ControlInv, OneLoop, kDisconnected, kPlaying, kPaused
<1>4. ready' = <<>>
  BY <1>1, <1>2, <1>3, NobodyReads DEF BaseInv
<1>5. Stream(<<>>, 0)'
  BY <1>1, <1>4, EmptyAgain
<1>6. Cursor'
  <2>1. \A l \in Loops : loop'[l] \notin {"top", "scan", "reading", "astray"}
    BY <1>1, <1>3 DEF BaseInv, ControlInv, OneLoop, OnItsWay, Running
  <2> QED BY <1>1, <2>1 DEF Cursor
<1>7. Play'
  <2>1. PICK ok \in BOOLEAN : peer' = [NewPeer EXCEPT !.up = ok, !.nonce = peer.nonce + 1]
    BY DEF Connect
  <2>2. ~peer'.serving
    BY <2>1 DEF NewPeer
  <2> QED BY <1>1, <2>2 DEF Play
<1>8. GotWhole'
  BY <1>1, EmptySequence DEF GotWhole
<1> QED BY <1>5, <1>6, <1>7, <1>8 DEF StreamInv

LEMMA CloseStream == ASSUME BaseInv, StreamInv, CloseGoesOn PROVE StreamInv'
<1>1. /\ unread' = <<>> /\ wire' = <<>> /\ pending' = 0
      /\ UNCHANGED <<got, streamed, loop>> /\ ~active /\ call.pc = "wait" /\ CancelReads
      /\ peer' = [NewPeer EXCEPT !.up = FALSE, !.nonce = peer.nonce]
  BY DEF CloseGoesOn, LoopIsOver
<1>2. reads = <<>> /\ ready = <<>>
  BY <1>1, NobodyReads DEF BaseInv
<1>3. ready' = <<>>
  <2>1. ready' = <<>> \o Aborted(<<>>)
    BY <1>1, <1>2 DEF CancelReads
  <2>2. IsSequence(Aborted(<<>>)) /\ Len(Aborted(<<>>)) = 0
    BY EmptySequence, AbortedAre
  <2>3. Aborted(<<>>) = <<>>
    BY <2>2, SequenceEmpty
  <2> QED BY <2>1, <2>3
<1>4. Stream(<<>>, 0)'
  BY <1>1, <1>3, EmptyAgain
<1>5. Cursor'
  <2>1. \A l \in Loops : loop'[l] \notin {"top", "scan", "reading", "astray"}
    BY <1>1 DEF BaseInv, ControlInv, OneLoop, OnItsWay, Running
  <2> QED BY <1>1, <2>1 DEF Cursor
<1>6. Play'
  <2>1. ~peer'.serving
    BY <1>1 DEF NewPeer
  <2> QED BY <1>1, <2>1 DEF StreamInv, Play
<1>7. GotWhole'
  BY <1>1 DEF StreamInv, GotWhole
<1> QED BY <1>4, <1>5, <1>6, <1>7 DEF StreamInv

LEMMA SendStream == ASSUME BaseInv, StreamInv, Send PROVE StreamInv'
<1>1. UNCHANGED <<unread, wire, ready, got, streamed, pending, loop, session>>
  BY DEF Send, ioVars
<1>2. peer'.served = peer.served /\ peer'.serving = peer.serving
  <2>1. peer' = peer \/ \E r : peer' = [peer EXCEPT !.asked = Append(peer.asked, r)]
    BY DEF Send
  <2> QED BY <2>1, PeerAsked DEF BaseInv, QueuesInv
<1>3. call'.op = call.op
  BY DEF Send, BaseInv, ControlInv, CallShape
<1>4. DataKept
  BY <1>1, ReadsKeepData
<1>5. Cursor'
  BY <1>1, <1>3, CursorStays DEF StreamInv, Cursor
<1> QED BY <1>1, <1>2, <1>4, <1>5, PlainStream

\* The server answers, or is silent: an answer is a unit of its own.
LEMMA OthersSilent ==
  ASSUME BaseInv, StreamInv, EndOfStream \/ ServerIgnores \/ ServerLeaves
  PROVE  StreamInv'
<1>1. UNCHANGED <<unread, wire, got, streamed, pending, loop, session, call>>
  BY DEF EndOfStream, ServerIgnores, ServerLeaves, memberVars, connVars, ioVars
<1>2. peer'.served = peer.served /\ (peer'.serving => peer.serving)
  <2>1. CASE EndOfStream
    BY <2>1 DEF EndOfStream
  <2>2. CASE ServerIgnores
    <3>1. peer' = [peer EXCEPT !.asked = Tail(peer.asked)]
      BY <2>2 DEF ServerIgnores
    <3> QED BY <3>1, PeerAsked DEF BaseInv, QueuesInv
  <2>3. CASE ServerLeaves
    BY <2>3 DEF ServerLeaves, BaseInv, QueuesInv, PeerFields
  <2> QED BY <2>1, <2>2, <2>3
<1>3. DataKept
  <2>1. UNCHANGED ready \/ EndOfStream
    BY DEF ServerIgnores, ServerLeaves, ioVars
  <2> QED BY <2>1, ReadsKeepData
<1>4. Cursor'
  BY <1>1 DEF StreamInv, Cursor
<1> QED BY <1>1, <1>2, <1>3, <1>4, PlainStream

LEMMA FramedAnswer ==
  ASSUME NEW U, Framed(U), NEW a, a.part = "answer"
  PROVE  LET all == Append(U, a)
         IN  /\ Framed(all) /\ Len(all) = Len(U) + 1 /\ Len(U) \in Nat
             /\ \A p \in 1 .. Len(U) : all[p] = U[p]
             /\ \A p \in 1 .. Len(all) : IsHead(all[p]) => p \in 1 .. Len(U)
<1> DEFINE all == Append(U, a)
<1>1. IsSequence(U)
  BY DEF Framed
<1>2. /\ IsSequence(all) /\ Len(all) = Len(U) + 1 /\ Len(U) \in Nat
      /\ \A p \in 1 .. Len(U) : all[p] = U[p]
      /\ all[Len(U) + 1] = a
  BY <1>1, AppendedSequence, SequenceLength
<1> HIDE DEF all
<1>3. \A p \in 1 .. Len(all) : p \in 1 .. Len(U) \/ p = Len(U) + 1
  BY <1>2
<1>4. ~IsHead(a) /\ ~IsTail(a)
  BY DEF IsHead, IsTail
<1>5. \A p \in 1 .. Len(all) : IsHead(all[p]) \/ IsTail(all[p]) => p \in 1 .. Len(U) /\ all[p] = U[p]
  BY <1>2, <1>3, <1>4
<1>6. \A p \in 1 .. Len(all) : all[p].part \in {"answer", "head", "tail"}
  BY <1>2, <1>3 DEF Framed
<1>7. ASSUME NEW p \in 1 .. Len(all), IsHead(all[p])
      PROVE  p + 1 \in 1 .. Len(all) /\ all[p + 1] = FrameTail(all[p].n, all[p].chan)
  <2>1. p \in 1 .. Len(U) /\ all[p] = U[p] /\ IsHead(U[p])
    BY <1>5, <1>7
  <2>2. p + 1 \in 1 .. Len(U) /\ U[p + 1] = FrameTail(U[p].n, U[p].chan)
    BY <2>1 DEF Framed
  <2>3. p + 1 \in 1 .. Len(all) /\ all[p + 1] = U[p + 1]
    BY <1>2, <2>2
  <2> QED BY <2>1, <2>2, <2>3
<1>8. ASSUME NEW p \in 1 .. Len(all), IsTail(all[p])
      PROVE  p - 1 \in 1 .. Len(all) /\ IsHead(all[p - 1])
  <2>1. p \in 1 .. Len(U) /\ IsTail(U[p])
    BY <1>5, <1>8
  <2>2. p - 1 \in 1 .. Len(U) /\ IsHead(U[p - 1])
    BY <2>1 DEF Framed
  <2>3. p - 1 \in 1 .. Len(all) /\ all[p - 1] = U[p - 1]
    BY <1>2, <2>2
  <2> QED BY <2>2, <2>3
<1>9. ASSUME NEW p \in 1 .. Len(all), NEW q \in 1 .. Len(all), p < q, IsHead(all[p]), IsHead(all[q])
      PROVE  all[p].n < all[q].n
  <2>1. p \in 1 .. Len(U) /\ q \in 1 .. Len(U) /\ all[p] = U[p] /\ all[q] = U[q]
    BY <1>5, <1>9
  <2> QED BY <1>9, <2>1 DEF Framed
<1>10. Framed(all)
  BY <1>2, <1>6, <1>7, <1>8, <1>9 DEF Framed
<1> QED BY <1>2, <1>5, <1>10 DEF all

LEMMA FramedFrame ==
  ASSUME NEW U, Framed(U), NEW n \in Nat, \A p \in 1 .. Len(U) : IsHead(U[p]) => U[p].n < n, NEW c
  PROVE  LET t == <<FrameHead(n, c), FrameTail(n, c)>>
             all == U \o t
         IN  /\ IsSequence(t) /\ Framed(all) /\ Len(all) = Len(U) + 2 /\ Len(U) \in Nat
             /\ \A p \in 1 .. Len(U) : all[p] = U[p]
             /\ \A p \in 1 .. Len(all) : IsHead(all[p]) => p \in 1 .. Len(U) \/ all[p].n = n
             /\ ~IsTail(all[Len(U) + 1])
<1> DEFINE h == FrameHead(n, c)
           e == FrameTail(n, c)
           t == <<h, e>>
           all == U \o t
<1>1. /\ h.part = "head" /\ h.n = n /\ h.chan = c /\ e.part = "tail"
  BY DEF FrameHead, FrameTail
<1>2. e = FrameTail(h.n, h.chan)
  BY <1>1
<1> HIDE DEF h, e
<1>3. IsSequence(t) /\ Len(t) = 2 /\ t[1] = h /\ t[2] = e
  <2>1. t \in Seq({h, e})
    OBVIOUS
  <2> QED BY <2>1 DEF IsSequence
<1> HIDE DEF t
<1>4. IsSequence(U) /\ IsSequence(t)
  BY <1>3 DEF Framed
<1>5. /\ IsSequence(all) /\ Len(all) = Len(U) + Len(t)
      /\ \A i \in 1 .. Len(U) : all[i] = U[i]
      /\ \A i \in 1 .. Len(t) : all[Len(U) + i] = t[i]
  BY <1>4, JoinedSequence
<1>6. Len(U) \in Nat
  BY <1>4, SequenceLength
<1> HIDE DEF all
<1>7. Len(all) = Len(U) + 2 /\ all[Len(U) + 1] = h /\ all[Len(U) + 2] = e
  BY <1>3, <1>5, <1>6
<1>8. \A p \in 1 .. Len(all) : p \in 1 .. Len(U) \/ p = Len(U) + 1 \/ p = Len(U) + 2
  BY <1>6, <1>7
<1>9. IsHead(h) /\ ~IsTail(h) /\ IsTail(e) /\ ~IsHead(e)
  BY <1>1 DEF IsHead, IsTail
<1>10. \A p \in 1 .. Len(all) : IsHead(all[p]) =>
         (p \in 1 .. Len(U) /\ all[p] = U[p]) \/ (p = Len(U) + 1 /\ all[p] = h)
  BY <1>5, <1>7, <1>8, <1>9
<1>11. \A p \in 1 .. Len(all) : IsTail(all[p]) =>
         (p \in 1 .. Len(U) /\ all[p] = U[p]) \/ p = Len(U) + 2
  BY <1>5, <1>7, <1>8, <1>9
<1>12. \A p \in 1 .. Len(all) : all[p].part \in {"answer", "head", "tail"}
  BY <1>1, <1>5, <1>7, <1>8 DEF Framed
<1>13. ASSUME NEW p \in 1 .. Len(all), IsHead(all[p])
       PROVE  p + 1 \in 1 .. Len(all) /\ all[p + 1] = FrameTail(all[p].n, all[p].chan)
  <2>1. CASE p \in 1 .. Len(U)
    <3>1. all[p] = U[p] /\ IsHead(U[p])
      BY <1>5, <1>13, <2>1
    <3>2. p + 1 \in 1 .. Len(U) /\ U[p + 1] = FrameTail(U[p].n, U[p].chan)
      BY <2>1, <3>1 DEF Framed
    <3>3. p + 1 \in 1 .. Len(all) /\ all[p + 1] = U[p + 1]
      BY <1>5, <1>6, <1>7, <3>2
    <3> QED BY <3>1, <3>2, <3>3
  <2>2. CASE p \notin 1 .. Len(U)
    <3>1. p = Len(U) + 1 /\ all[p] = h
      BY <1>10, <1>13, <2>2
    <3>2. p + 1 = Len(U) + 2 /\ p + 1 \in 1 .. Len(all)
      BY <1>6, <1>7, <3>1
    <3> QED BY <1>2, <1>7, <3>1, <3>2
  <2> QED BY <2>1, <2>2
<1>14. ASSUME NEW p \in 1 .. Len(all), IsTail(all[p])
       PROVE  p - 1 \in 1 .. Len(all) /\ IsHead(all[p - 1])
  <2>1. CASE p \in 1 .. Len(U)
    <3>1. all[p] = U[p] /\ IsTail(U[p])
      BY <1>5, <1>14, <2>1
    <3>2. p - 1 \in 1 .. Len(U) /\ IsHead(U[p - 1])
      BY <2>1, <3>1 DEF Framed
    <3>3. p - 1 \in 1 .. Len(all) /\ all[p - 1] = U[p - 1]
      BY <1>5, <1>6, <1>7, <3>2
    <3> QED BY <3>2, <3>3
  <2>2. CASE p \notin 1 .. Len(U)
    <3>1. p = Len(U) + 2
      BY <1>11, <1>14, <2>2
    <3>2. p - 1 = Len(U) + 1 /\ p - 1 \in 1 .. Len(all)
      BY <1>6, <1>7, <3>1
    <3> QED BY <1>7, <1>9, <3>2
  <2> QED BY <2>1, <2>2
<1>15. ASSUME NEW p \in 1 .. Len(all), NEW q \in 1 .. Len(all), p < q, IsHead(all[p]), IsHead(all[q])
       PROVE  all[p].n < all[q].n
  <2>1. CASE q \in 1 .. Len(U)
    <3>1. p \in 1 .. Len(U)
      BY <1>6, <1>15, <2>1
    <3>2. all[p] = U[p] /\ all[q] = U[q]
      BY <1>5, <2>1, <3>1
    <3> QED BY <1>15, <2>1, <3>1, <3>2 DEF Framed
  <2>2. CASE q \notin 1 .. Len(U)
    <3>1. q = Len(U) + 1 /\ all[q] = h
      BY <1>10, <1>15, <2>2
    <3>2. p \in 1 .. Len(U) /\ all[p] = U[p]
      <4>1. p # Len(U) + 1
        BY <1>6, <1>15, <3>1
      <4> QED BY <1>10, <1>15, <4>1
    <3>3. U[p].n < n
      BY <1>15, <3>2
    <3> QED BY <1>1, <3>1, <3>2, <3>3
  <2> QED BY <2>1, <2>2
<1>16. Framed(all)
  BY <1>5, <1>12, <1>13, <1>14, <1>15 DEF Framed
<1>17. \A p \in 1 .. Len(all) : IsHead(all[p]) => p \in 1 .. Len(U) \/ all[p].n = n
  BY <1>1, <1>10
<1>18. ~IsTail(all[Len(U) + 1])
  BY <1>7, <1>9
<1> QED BY <1>3, <1>5, <1>6, <1>7, <1>16, <1>17, <1>18 DEF all, t, h, e

\* What the server sends is laid behind all that lies there.
LEMMA LaidFurther ==
  ASSUME NEW U, NEW b, NEW t, Laid(U, b), IsSequence(U), IsSequence(t),
         UNCHANGED <<unread, ready>>, wire' = wire \o t
  PROVE  Laid(U \o t, b)'
<1>1. PICK a, c : Stretch(unread, U, b, a) /\ Stretches(ready, U, a, c) /\ Stretch(wire, U, c, Len(U))
  BY DEF Laid
<1>2. Stretch(unread', U \o t, b, a)
  BY <1>1, StretchOfMore
<1>3. Stretches(ready', U \o t, a, c)
  BY <1>1, StretchesOfMore
<1>4. Stretch(wire', U \o t, c, Len(U \o t))
  BY <1>1, LastStretchGrows
<1> QED BY <1>2, <1>3, <1>4 DEF Laid

LEMMA AppendIsJoin ==
  ASSUME NEW s, IsSequence(s), NEW x
  PROVE  Append(s, x) = s \o <<x>> /\ IsSequence(<<x>>)
<1>1. PICK S : s \in Seq(S)
  BY DEF IsSequence
<1> DEFINE U == S \union {x}
<1>2. s \in Seq(U) /\ x \in U /\ <<x>> \in Seq(U)
  BY <1>1
<1> HIDE DEF U
<1>3. Append(s, x) \in Seq(U) /\ s \o <<x>> \in Seq(U)
  BY <1>2
<1>4. Len(Append(s, x)) = Len(s) + 1 /\ Len(s \o <<x>>) = Len(s) + 1 /\ Len(s) \in Nat
  BY <1>2
<1>5. \A i \in 1 .. Len(s) + 1 : Append(s, x)[i] = (s \o <<x>>)[i]
  BY <1>2
<1>6. Append(s, x) = s \o <<x>>
  BY <1>3, <1>4, <1>5
<1> QED BY <1>2, <1>6 DEF IsSequence

\* all is U with something behind it: frames with the number n only.
Further(U, all, n) ==
  /\ Framed(all) /\ Len(U) <= Len(all) /\ Len(U) \in Nat
  /\ \A p \in 1 .. Len(U) : all[p] = U[p]
  /\ \A p \in 1 .. Len(all) : IsHead(all[p]) => p \in 1 .. Len(U) \/ all[p].n = n
  /\ ~IsTail(all[Len(U) + 1])

LEMMA StreamGrown ==
  ASSUME NEW U, NEW b, Stream(U, b), NEW all, Laid(all, b)', Further(U, all, streamed'),
         GotWhole, streamed \in Nat, streamed' = streamed + 1, peer'.served,
         UNCHANGED <<got, pending>>
  PROVE  Stream(all, b)'
<1>1. b \in Nat /\ b <= Len(U)
  <2>1. b \in Nat /\ Len(unread) \in Nat /\ b + Len(unread) <= Len(U)
    BY LaidIs DEF Stream
  <2> QED BY <2>1 DEF Further
<1>2. Between(all, b)
  <2>1. ASSUME b + 1 \in 1 .. Len(all) PROVE ~IsTail(all[b + 1])
    <3>1. CASE b + 1 \in 1 .. Len(U)
      BY <3>1 DEF Stream, Between, Further
    <3>2. CASE b + 1 \notin 1 .. Len(U)
      <4>1. b + 1 = Len(U) + 1
        BY <1>1, <3>2 DEF Further
      <4> QED BY <4>1 DEF Further
    <3> QED BY <3>1, <3>2
  <2> QED BY <2>1 DEF Between
<1>3. \A p \in 1 .. Len(U) : IsHead(U[p]) => U[p].n \in 1 .. streamed
  BY DEF Stream, NumbersSent
<1>4. PICK n \in Nat : n = streamed' /\ n = streamed + 1
  OBVIOUS
<1>5. \A p \in 1 .. Len(all) : IsHead(all[p]) => all[p].n \in 1 .. n
  BY <1>3, <1>4 DEF Further
<1>6. NumbersSent(all)'
  BY <1>4, <1>5 DEF NumbersSent
<1>7. Later(all, b)'
  <2> SUFFICES ASSUME NEW i \in 1 .. Len(got), NEW p \in 1 .. Len(all), p > b + pending,
                      IsHead(all[p])
               PROVE  got[i][1].n < all[p].n
    BY DEF Later
  <2>1. CASE p \in 1 .. Len(U)
    <3>1. all[p] = U[p]
      BY <2>1 DEF Further
    <3> QED BY <2>1, <3>1 DEF Stream, Later
  <2>2. CASE p \notin 1 .. Len(U)
    <3>1. all[p].n = n
      BY <1>4, <2>2 DEF Further
    <3>2. got[i][1].n \in 1 .. streamed
      BY DEF GotWhole
    <3> QED BY <1>4, <3>1, <3>2
  <2> QED BY <2>1, <2>2
<1>8. Framed(all)
  BY DEF Further
<1> QED BY <1>2, <1>6, <1>7, <1>8 DEF Stream

LEMMA ServerSendsStream == ASSUME BaseInv, StreamInv, ServerSends PROVE StreamInv'
<1>1. /\ UNCHANGED <<unread, ready, peer, got, pending, loop, session, call>>
      /\ streamed' = streamed + 1 /\ (peer.serving \/ peer.served)
  BY DEF ServerSends, memberVars, connVars
<1>2. Play /\ GotWhole /\ Cursor
  BY DEF StreamInv
<1>3. peer.served /\ streamed \in Nat /\ streamed' \in Nat
  BY <1>1, <1>2 DEF Play
<1>4. PICK U, b : Stream(U, b)
  BY DEF StreamInv
<1>5. PICK n \in Nat : n = streamed' /\ n = streamed + 1
  BY <1>1, <1>3
<1>6. PICK c : wire' = wire \o <<FrameHead(n, c), FrameTail(n, c)>>
  BY <1>5 DEF ServerSends
<1> DEFINE t == <<FrameHead(n, c), FrameTail(n, c)>>
           all == U \o t
<1>7. Framed(U) /\ IsSequence(U)
  BY <1>4 DEF Stream, Framed
<1>8. \A p \in 1 .. Len(U) : IsHead(U[p]) => U[p].n < n
  BY <1>3, <1>4, <1>5 DEF Stream, NumbersSent
<1>9. /\ IsSequence(t) /\ Framed(all) /\ Len(all) = Len(U) + 2 /\ Len(U) \in Nat
      /\ \A p \in 1 .. Len(U) : all[p] = U[p]
      /\ \A p \in 1 .. Len(all) : IsHead(all[p]) => p \in 1 .. Len(U) \/ all[p].n = n
      /\ ~IsTail(all[Len(U) + 1])
  BY <1>7, <1>8, FramedFrame
<1>10. wire' = wire \o t
  BY <1>6
<1> HIDE DEF t
<1>11. Laid(all, b)'
  <2>1. Laid(U, b)
    BY <1>4 DEF Stream
  <2> QED BY <1>1, <1>7, <1>9, <1>10, <2>1, LaidFurther
<1> HIDE DEF all
<1>12. Further(U, all, streamed')
  BY <1>5, <1>9 DEF Further
<1>13. Stream(all, b)'
  BY <1>1, <1>2, <1>3, <1>4, <1>11, <1>12, StreamGrown
<1>14. Cursor'
  BY <1>1, <1>2 DEF Cursor
<1>15. Play'
  BY <1>1, <1>2, <1>3 DEF Play
<1>16. GotWhole'
  <2>1. PICK m \in Nat : m = streamed' /\ m = streamed + 1
    BY <1>1, <1>3
  <2>2. \A i \in 1 .. Len(got) : got[i][1].n \in 1 .. m
    BY <1>2, <1>3, <2>1 DEF GotWhole
  <2> QED BY <1>1, <1>2, <2>1, <2>2 DEF GotWhole
<1> QED BY <1>13, <1>14, <1>15, <1>16 DEF StreamInv

LEMMA ServerAnswersStream == ASSUME BaseInv, StreamInv, ServerAnswers PROVE StreamInv'
<1>1. UNCHANGED <<unread, ready, got, pending, streamed, loop, session, call>>
  BY DEF ServerAnswers, memberVars, connVars
<1>2. PICK a : /\ a.part = "answer" /\ wire' = Append(wire, a)
               /\ peer.served => peer'.served
               /\ peer'.serving => peer'.served \/ peer.serving
  BY AnswerIs DEF BaseInv
<1>3. PICK U, b : Stream(U, b)
  BY DEF StreamInv
<1> DEFINE all == Append(U, a)
<1>4. /\ Framed(all) /\ Len(all) = Len(U) + 1 /\ Len(U) \in Nat
      /\ \A p \in 1 .. Len(U) : all[p] = U[p]
      /\ \A p \in 1 .. Len(all) : IsHead(all[p]) => p \in 1 .. Len(U)
  BY <1>2, <1>3, FramedAnswer DEF Stream
<1>5. IsSequence(U) /\ IsSequence(wire)
  BY <1>3 DEF Stream, Framed, BaseInv, QueuesInv
<1>6. all = U \o <<a>> /\ wire' = wire \o <<a>> /\ IsSequence(<<a>>)
  BY <1>2, <1>5, AppendIsJoin
<1>7. all[Len(U) + 1] = a
  BY <1>5, AppendedSequence
<1> HIDE DEF all
<1>8. Laid(all, b)'
  <2>1. Laid(U, b)
    BY <1>3 DEF Stream
  <2> QED BY <1>1, <1>5, <1>6, <2>1, LaidFurther
<1>9. b \in Nat /\ b <= Len(U)
  <2>1. b \in Nat /\ Len(unread) \in Nat /\ b + Len(unread) <= Len(U)
    BY <1>3, LaidIs DEF Stream
  <2> QED BY <1>4, <2>1
<1>10. Between(all, b)
  <2>1. ASSUME b + 1 \in 1 .. Len(all) PROVE ~IsTail(all[b + 1])
    <3>1. CASE b + 1 \in 1 .. Len(U)
      BY <1>3, <1>4, <3>1 DEF Stream, Between
    <3>2. CASE b + 1 \notin 1 .. Len(U)
      <4>1. b + 1 = Len(U) + 1
        BY <1>4, <1>9, <3>2
      <4> QED BY <1>2, <1>7, <4>1 DEF IsTail
    <3> QED BY <3>1, <3>2
  <2> QED BY <2>1 DEF Between
<1>11. NumbersSent(all)' /\ Later(all, b)'
  BY <1>1, <1>2, <1>3, <1>4 DEF Stream, NumbersSent, Later
<1>12. Stream(all, b)'
  BY <1>4, <1>8, <1>10, <1>11 DEF Stream
<1>13. Cursor' /\ Play' /\ GotWhole'
  BY <1>1, <1>2 DEF StreamInv, Cursor, Play, GotWhole
<1> QED BY <1>12, <1>13 DEF StreamInv

\* Calls and loops take what is whole out of the buffer, from the front.
LEMMA TakenStream ==
  ASSUME BaseInv, StreamInv, SkipFrame \/ TakeAnswer \/ \E l \in Loops : LoopSkips(l)
  PROVE  StreamInv'
<1>1. UNCHANGED <<ready, wire, got, streamed, pending, peer, loop, session>>
  BY DEF SkipFrame, TakeAnswer, LoopSkips, ioVars, memberVars
<1>2. pending \in Nat
  BY DEF BaseInv, QueuesInv
<1>3. PICK U, b : Stream(U, b)
  BY DEF StreamInv
<1>4. Laid(U, b) /\ Framed(U) /\ Between(U, b)
  BY <1>3 DEF Stream
<1>5. b \in Nat /\ Len(unread) \in Nat
  BY <1>4, LaidIs
<1>6. \E d : Stream(U, d)'
  <2>1. CASE SkipFrame
    <3>1. WholeFrame(unread) /\ unread' = Behind(unread, 2)
      BY <2>1 DEF SkipFrame
    <3>2. 2 <= Len(unread) /\ Between(U, b + 2)
      BY <1>4, <3>1, WholeIs
    <3> QED BY <1>1, <1>2, <1>3, <3>1, <3>2, StreamTaken
  <2>2. CASE TakeAnswer \/ \E l \in Loops : LoopSkips(l)
    <3>1. /\ unread # <<>> /\ unread[1].part # "head" /\ AnswerAt(unread) > 0
          /\ unread' = Behind(unread, AnswerAt(unread))
      BY <2>2 DEF TakeAnswer, TakenUpTo, LoopSkips
    <3>2. /\ b + 1 \in 1 .. Len(U) /\ Len(unread) > 0
          /\ IsAnswer(U[b + 1]) /\ AnswerAt(unread) = 1
      BY <1>4, <3>1, FirstUnread
    <3>3. Between(U, b + 1)
      BY <1>4, <1>5, <3>2, BetweenUnits
    <3>4. unread' = Behind(unread, 1) /\ 1 <= Len(unread)
      BY <1>5, <3>1, <3>2
    <3> QED BY <1>1, <1>2, <1>3, <3>3, <3>4, StreamTaken
  <2> QED BY <2>1, <2>2
<1>7. call'.op = call.op
  BY DEF SkipFrame, TakeAnswer, LoopSkips, BaseInv, ControlInv, CallShape
<1>8. Cursor'
  <2>1. \A l \in Loops : loop[l] # "top"
    <3>1. (SkipFrame \/ TakeAnswer) => thread = Caller
      BY DEF SkipFrame, TakeAnswer
    <3>2. ASSUME NEW m \in Loops, LoopSkips(m) PROVE thread = m /\ loop[m] = "scan"
      BY <3>2 DEF LoopSkips
    <3> QED BY <3>1, <3>2, Actors DEF BaseInv, ControlInv, Turns, Running
  <2> QED BY <1>1, <1>7, <2>1 DEF StreamInv, Cursor
<1>9. Play' /\ GotWhole'
  BY <1>1 DEF StreamInv, Play, GotWhole
<1> QED BY <1>6, <1>8, <1>9 DEF StreamInv

\* Of the loops the one whose turn it is alone is at work, and nobody sets up.
LEMMA LoopAlone ==
  ASSUME BaseInv, NEW l \in Loops, loop[l] \in {"top", "scan", "exit"}
  PROVE  /\ thread = l
         /\ \A m \in Loops : m # l => loop[m] \notin {"top", "scan", "reading", "astray"}
         /\ session \in {kPlaying, kPaused}
         /\ call.op \notin {"describe", "setup", "play"}
<1>1. OnItsWay(l) /\ thread = l
  BY DEF BaseInv, ControlInv, Turns, OnItsWay, Running
<1>2. \A m \in Loops : m # l => loop[m] \notin {"top", "scan", "reading", "astray"}
  BY <1>1 DEF BaseInv, ControlInv, OneLoop, OnItsWay, Running
<1>3. session \in {kPlaying, kPaused}
  BY <1>1 DEF BaseInv, ControlInv, OneLoop
<1>4. call.op \notin {"describe", "setup", "play"}
  BY <1>3 DEF BaseInv, ControlInv, CallFits, kConnected, kDescribed, kReady, kPlaying, kPaused
<1> QED BY <1>1, <1>2, <1>3, <1>4

\* What Cursor says of the one loop is all there is to say.
LEMMA CursorOfOne ==
  ASSUME BaseInv, NEW l \in Loops, loop[l] \in {"top", "scan", "exit"},
         UNCHANGED <<session, call>>, NEW v, loop' = [loop EXCEPT ![l] = v], v # "astray",
         v = "top" => pending' <= Len(unread') /\ (pending' = 2 => IsHead(unread'[1])),
         v \in {"scan", "reading"} => pending' = 0
  PROVE  Cursor'
<1>1. /\ \A m \in Loops : m # l => loop[m] \notin {"top", "scan", "reading", "astray"}
      /\ session \in {kPlaying, kPaused}
      /\ call.op \notin {"describe", "setup", "play"}
  BY LoopAlone
<1>2. \A m \in Loops : IF m = l THEN loop'[m] = v ELSE loop'[m] = loop[m]
  BY DEF BaseInv, ControlInv, LoopShape
<1>3. \A m \in Loops : loop'[m] # "astray"
  BY <1>1, <1>2
<1>4. \A m \in Loops : loop'[m] = "top" =>
        pending' <= Len(unread') /\ (pending' = 2 => IsHead(unread'[1]))
  BY <1>1, <1>2
<1>5. \A m \in Loops : loop'[m] \in {"scan", "reading"} => pending' = 0
  BY <1>1, <1>2
<1>6. session' \notin {kDescribed, kReady} /\ call'.op \notin {"describe", "setup", "play"}
  BY <1>1 DEF kPlaying, kPaused, kDescribed, kReady
<1> QED BY <1>3, <1>4, <1>5, <1>6 DEF Cursor

\* The loop comes back and lets go of the frame it has given out.
LEMMA LoopTopStream ==
  ASSUME BaseInv, StreamInv, NEW l \in Loops, LoopTop(l)
  PROVE  StreamInv'
<1>1. /\ loop[l] = "top" /\ UNCHANGED <<ready, wire, got, streamed, peer, session, call>>
  BY DEF LoopTop, ioVars, memberVars
<1>2. /\ pending <= Len(unread) /\ (pending = 2 => IsHead(unread[1]))
      /\ pending \in {0, 2} /\ IsSequence(unread)
  BY <1>1 DEF BaseInv, QueuesInv, StreamInv, Cursor
<1>3. CASE receiving /\ IsConnected
  <2>1. unread' = Behind(unread, pending) /\ pending' = 0
    BY <1>3 DEF LoopTop
  <2>2. loop' = [loop EXCEPT ![l] = "scan"]
    BY <1>2, <1>3 DEF LoopTop
  <2>3. PICK U, b : Stream(U, b)
    BY DEF StreamInv
  <2>4. Laid(U, b) /\ Framed(U) /\ Between(U, b)
    BY <2>3 DEF Stream
  <2>5. b \in Nat /\ Len(unread) \in Nat
    BY <2>4, LaidIs
  <2>6. PICK n \in {0, 2} : n = pending
    BY <1>2
  <2>7. Between(U, b + n)
    <3>1. CASE n = 0
      BY <2>4, <2>5, <3>1
    <3>2. CASE n = 2
      <4>1. unread # <<>>
        BY <1>2, <2>5, <2>6, <3>2, SequenceEmpty
      <4>2. b + 1 \in 1 .. Len(U) /\ unread[1] = U[b + 1]
        BY <2>4, <4>1, FirstUnread
      <4>3. IsHead(U[b + 1])
        BY <1>2, <2>6, <3>2, <4>2
      <4> QED BY <2>4, <2>5, <3>2, <4>2, <4>3, BetweenUnits
    <3> QED BY <2>6, <3>1, <3>2
  <2>8. Stream(U, b + n)'
    <3>1. /\ n \in Nat /\ n <= Len(unread) /\ unread' = Behind(unread, n)
          /\ pending \in Nat /\ pending' \in Nat /\ pending = n /\ pending' = 0
      BY <1>2, <2>1, <2>6
    <3> QED BY <1>1, <2>3, <2>7, <3>1, StreamTaken
  <2>9. Cursor'
    BY <1>1, <2>1, <2>2, CursorOfOne
  <2>10. Play' /\ GotWhole'
    BY <1>1, <2>1 DEF StreamInv, Play, GotWhole
  <2> QED BY <2>8, <2>9, <2>10 DEF StreamInv
<1>4. CASE ~(receiving /\ IsConnected)
  <2>1. UNCHANGED <<unread, pending>> /\ loop' = [loop EXCEPT ![l] = "exit"]
    BY <1>4 DEF LoopTop
  <2>2. Cursor'
    BY <1>1, <2>1, CursorOfOne
  <2>3. DataKept
    BY <1>1, ReadsKeepData
  <2> QED BY <1>1, <2>1, <2>2, <2>3, PlainStream
<1> QED BY <1>3, <1>4

\* It reads on, or ends.
LEMMA LoopWaitsStream ==
  ASSUME BaseInv, StreamInv, NEW l \in Loops, LoopReads(l) \/ LoopExit(l)
  PROVE  StreamInv'
<1>1. UNCHANGED <<unread, wire, got, pending, peer>>
  BY AppQueues
<1>2. UNCHANGED <<ready, streamed, session, call>>
  BY DEF LoopReads, LoopExit, ioVars, memberVars
<1>3. DataKept
  BY <1>2, ReadsKeepData
<1>4. Cursor'
  <2>1. CASE LoopReads(l)
    <3>1. loop[l] = "scan" /\ loop' = [loop EXCEPT ![l] = "reading"]
      BY <2>1 DEF LoopReads
    <3>2. pending' = 0
      BY <1>1, <3>1 DEF StreamInv, Cursor
    <3> QED BY <1>2, <3>1, <3>2, CursorOfOne
  <2>2. CASE LoopExit(l)
    <3>1. loop[l] = "exit" /\ loop' = [loop EXCEPT ![l] = "ended"]
      BY <2>2 DEF LoopExit
    <3> QED BY <1>2, <3>1, CursorOfOne
  <2> QED BY <2>1, <2>2
<1> QED BY <1>1, <1>2, <1>3, <1>4, PlainStream

\* The frame at the front of the buffer is behind all that were given out.
LEMMA FrameGiven ==
  ASSUME NEW U, NEW b, Stream(U, b), GotWhole, WholeFrame(unread), pending = 0,
         NEW frame, frame = <<unread[1], unread[2]>>, IsSequence(got), got' = Append(got, frame),
         pending' = 2, UNCHANGED streamed
  PROVE  GotWhole' /\ Later(U, b)'
<1>1. /\ b \in Nat /\ b + 1 \in 1 .. Len(U) /\ IsHead(unread[1]) /\ unread[1] = U[b + 1]
      /\ unread[2] = FrameTail(unread[1].n, unread[1].chan)
  BY WholeIs DEF Stream
<1>2. PICK k \in Nat : k = Len(got)
  BY SequenceLength
<1>3. /\ Len(got') = k + 1
      /\ \A i \in 1 .. k : got'[i] = got[i]
      /\ got'[k + 1] = frame
  BY <1>2, AppendedSequence
<1>4. frame[1] = U[b + 1] /\ frame[2] = FrameTail(frame[1].n, frame[1].chan)
  BY <1>1
<1>5. frame[1].n \in 1 .. streamed
  BY <1>1, <1>4 DEF Stream, NumbersSent
<1>6. \A i \in 1 .. k : got[i][1].n < frame[1].n
  <2>1. b + 1 > b + pending
    BY <1>1
  <2> QED BY <1>1, <1>2, <1>4, <2>1 DEF Stream, Later
<1>7. \A i \in 1 .. k + 1 : i \in 1 .. k \/ i = k + 1
  BY <1>2
<1>8. \A i \in 1 .. Len(got') : /\ got'[i][2] = FrameTail(got'[i][1].n, got'[i][1].chan)
                                /\ got'[i][1].n \in 1 .. streamed
  BY <1>2, <1>3, <1>4, <1>5, <1>7 DEF GotWhole
<1>9. ASSUME NEW i \in 1 .. Len(got'), NEW j \in 1 .. Len(got'), i < j
      PROVE  got'[i][1].n < got'[j][1].n
  <2>1. i \in 1 .. k
    BY <1>2, <1>3, <1>9
  <2>2. CASE j \in 1 .. k
    BY <1>2, <1>3, <1>9, <2>1, <2>2 DEF GotWhole
  <2>3. CASE j = k + 1
    BY <1>3, <1>6, <2>1, <2>3
  <2> QED BY <1>3, <1>7, <2>2, <2>3
<1>10. Later(U, b)'
  <2> SUFFICES ASSUME NEW i \in 1 .. Len(got'), NEW p \in 1 .. Len(U), p > b + 2, IsHead(U[p])
               PROVE  got'[i][1].n < U[p].n
    BY DEF Later
  <2>1. CASE i \in 1 .. k
    <3>1. p > b + pending
      BY <1>1
    <3> QED BY <1>2, <1>3, <2>1, <3>1 DEF Stream, Later
  <2>2. CASE i = k + 1
    <3>1. b + 1 < p /\ IsHead(U[b + 1])
      BY <1>1
    <3>2. U[b + 1].n < U[p].n
      BY <1>1, <3>1 DEF Stream, Framed
    <3> QED BY <1>3, <1>4, <2>2, <3>2
  <2> QED BY <1>3, <1>7, <2>1, <2>2
<1> QED BY <1>8, <1>9, <1>10 DEF GotWhole

\* A frame without a track for its channel is passed over.
LEMMA FramePassed ==
  ASSUME NEW U, NEW b, Stream(U, b), GotWhole, b \in Nat, pending = 0, pending' = 2,
         UNCHANGED <<got, streamed>>
  PROVE  GotWhole' /\ Later(U, b)'
<1>1. GotWhole'
  BY DEF GotWhole
<1>2. ASSUME NEW i \in 1 .. Len(got), NEW p \in 1 .. Len(U), p > b + 2, IsHead(U[p])
      PROVE  got[i][1].n < U[p].n
  <2>1. p > b + pending
    BY <1>2
  <2> QED BY <1>2, <2>1 DEF Stream, Later
<1> QED BY <1>1, <1>2 DEF Later

LEMMA LoopFrameStream ==
  ASSUME BaseInv, StreamInv, NEW l \in Loops, LoopFrame(l)
  PROVE  StreamInv'
<1>1. /\ loop[l] = "scan" /\ WholeFrame(unread) /\ pending' = 2
      /\ loop' = [loop EXCEPT ![l] = "top"]
      /\ UNCHANGED <<unread, ready, wire, streamed, peer, session, call>>
  BY DEF LoopFrame, ioVars, memberVars
<1>2. pending = 0
  BY <1>1 DEF StreamInv, Cursor
<1>3. PICK U, b : Stream(U, b)
  BY DEF StreamInv
<1>4. Laid(U, b) /\ Framed(U) /\ Between(U, b)
  BY <1>3 DEF Stream
<1>5. /\ b \in Nat /\ b + 1 \in 1 .. Len(U) /\ IsHead(unread[1]) /\ unread[1] = U[b + 1]
      /\ 2 <= Len(unread)
  BY <1>1, <1>4, WholeIs
<1>6. GotWhole' /\ Later(U, b)'
  <2> DEFINE frame == <<unread[1], unread[2]>>
  <2>1. GotWhole /\ IsSequence(got)
    BY DEF StreamInv, BaseInv, QueuesInv
  <2>2. CASE got' = Append(got, frame)
    BY <1>1, <1>2, <1>3, <2>1, <2>2, FrameGiven
  <2>3. CASE got' = got
    BY <1>1, <1>2, <1>3, <1>5, <2>1, <2>3, FramePassed
  <2>4. got' = Append(got, frame) \/ got' = got
    BY DEF LoopFrame
  <2> QED BY <2>2, <2>3, <2>4
<1>7. Laid(U, b)' /\ NumbersSent(U)'
  BY <1>1, <1>3, <1>4 DEF Laid, Stream, NumbersSent
<1>8. Stream(U, b)'
  BY <1>4, <1>6, <1>7 DEF Stream
<1>9. Cursor'
  BY <1>1, <1>5, CursorOfOne
<1>10. Play'
  <2>1. peer.served
    BY <1>3, <1>5 DEF Stream, NumbersSent
  <2> QED BY <1>1, <2>1 DEF StreamInv, Play
<1> QED BY <1>6, <1>8, <1>9, <1>10 DEF StreamInv

\* A read takes what is first on the wire, and when its coroutine goes on that
\* comes behind what is in the buffer.
LEMMA ArriveStream == ASSUME BaseInv, StreamInv, Arrive PROVE StreamInv'
<1>1. UNCHANGED <<unread, got, streamed, pending, peer, loop, session, call>>
  BY DEF Arrive, memberVars, connVars
<1>2. PICK k \in 1 .. Len(wire) :
        /\ ready' = Append(ready, [who |-> reads[1], how |-> "data", data |-> SubSeq(wire, 1, k)])
        /\ wire' = Behind(wire, k)
  BY DEF Arrive
<1> DEFINE e == [who |-> reads[1], how |-> "data", data |-> SubSeq(wire, 1, k)]
<1>3. ready' = Append(ready, e) /\ e.data = SubSeq(wire, 1, k)
  BY <1>2
<1> HIDE DEF e
<1>4. PICK U, b : Stream(U, b)
  BY DEF StreamInv
<1>5. PICK a, c : Stretch(unread, U, b, a) /\ Stretches(ready, U, a, c) /\ Stretch(wire, U, c, Len(U))
  BY <1>4 DEF Stream, Laid
<1>6. k \in Nat /\ k <= Len(wire)
  <2>1. Len(wire) \in Nat
    BY <1>5, StretchEnds
  <2> QED BY <2>1
<1>7. Stretch(e.data, U, c, c + k)
  BY <1>3, <1>5, <1>6, StretchInFront
<1>8. Stretch(wire', U, c + k, Len(U))
  BY <1>2, <1>5, <1>6, StretchBehind
<1>9. Stretches(ready', U, a, c + k)
  BY <1>3, <1>5, <1>7, StretchesAppended
<1>10. Laid(U, b)'
  BY <1>1, <1>5, <1>8, <1>9 DEF Laid
<1>11. Stream(U, b)'
  <2>1. Between(U, b) /\ b \in Nat /\ pending \in Nat
    BY <1>4, LaidIs DEF Stream, BaseInv, QueuesInv
  <2>2. b + pending <= b + pending'
    BY <1>1, <2>1
  <2> QED BY <1>1, <1>4, <1>10, <2>1, <2>2, StreamAgain
<1>12. Cursor' /\ Play' /\ GotWhole'
  BY <1>1 DEF StreamInv, Cursor, Play, GotWhole
<1> QED BY <1>11, <1>12 DEF StreamInv

LEMMA ResumeStream == ASSUME BaseInv, StreamInv, Resume \/ CallResumes PROVE StreamInv'
<1> DEFINE r == Head(ready)
<1>1. /\ ready # <<>> /\ ready' = Tail(ready) /\ unread' = unread \o r.data
      /\ UNCHANGED <<wire, got, streamed, pending, peer, session>>
  <2>1. session' = session
    BY DEF Resume, CallResumes, memberVars
  <2> QED BY <2>1, BroughtReads DEF BaseInv
<1>2. thread = Nobody
  BY DEF Resume, CallResumes, Idle
<1>3. call'.op = call.op
  BY DEF Resume, CallResumes, BaseInv, ControlInv, CallShape
<1>4. \/ loop' = loop
      \/ /\ r.who \in Loops /\ loop[r.who] = "reading"
         /\ \E v \in {"scan", "exit"} : loop' = [loop EXCEPT ![r.who] = v]
  <2>1. CASE CallResumes
    BY <2>1 DEF CallResumes
  <2>2. CASE Resume
    <3>1. Waits(r.who) /\ r.who # Caller
      BY <2>2, ResumeReads DEF BaseInv, ControlInv, Resume
    <3>2. \E v \in {"scan", "exit"} : loop' = [loop EXCEPT ![r.who] = v]
      BY <2>2 DEF Resume
    <3> QED BY <3>1, <3>2 DEF Waits
  <2> QED BY <2>1, <2>2
<1> HIDE DEF r
<1>5. PICK U, b : Stream(U, b)
  BY DEF StreamInv
<1>6. PICK a, c : Stretch(unread, U, b, a) /\ Stretches(ready, U, a, c) /\ Stretch(wire, U, c, Len(U))
  BY <1>5 DEF Stream, Laid
<1>7. PICK d : Stretch(r.data, U, a, d) /\ Stretches(ready', U, d, c)
  BY <1>1, <1>6, StretchesTail DEF r
<1>8. Stretch(unread', U, b, d)
  BY <1>1, <1>6, <1>7, StretchesJoined
<1>9. Laid(U, b)'
  BY <1>1, <1>6, <1>7, <1>8 DEF Laid
<1>10. Stream(U, b)'
  <2>1. Between(U, b) /\ b \in Nat /\ pending \in Nat
    BY <1>5, LaidIs DEF Stream, BaseInv, QueuesInv
  <2>2. b + pending <= b + pending'
    BY <1>1, <2>1
  <2> QED BY <1>1, <1>5, <1>9, <2>1, <2>2, StreamAgain
<1>11. Cursor'
  <2>1. \A l \in Loops : loop[l] # "top"
    BY <1>2, Actors DEF BaseInv, ControlInv, Turns, Running
  <2>2. \A l \in Loops : loop'[l] = loop[l] \/ (loop[l] = "reading" /\ loop'[l] \in {"scan", "exit"})
    <3>1. CASE loop' = loop
      BY <3>1
    <3>2. ASSUME r.who \in Loops, loop[r.who] = "reading", NEW v \in {"scan", "exit"},
                 loop' = [loop EXCEPT ![r.who] = v]
          PROVE  \A l \in Loops :
                   loop'[l] = loop[l] \/ (loop[l] = "reading" /\ loop'[l] \in {"scan", "exit"})
      <4>2. \A l \in Loops : IF l = r.who THEN loop'[l] = v ELSE loop'[l] = loop[l]
        BY <3>2 DEF BaseInv, ControlInv, LoopShape
      <4> QED BY <3>2, <4>2
    <3> QED BY <1>4, <3>1, <3>2
  <2> QED BY <1>1, <1>3, <2>1, <2>2 DEF StreamInv, Cursor
<1>12. Play' /\ GotWhole'
  BY <1>1 DEF StreamInv, Play, GotWhole
<1> QED BY <1>10, <1>11, <1>12 DEF StreamInv

LEMMA StreamInit == ClientInit => StreamInv
<1> SUFFICES ASSUME ClientInit PROVE StreamInv
  OBVIOUS
<1>1. /\ unread = <<>> /\ ready = <<>> /\ wire = <<>> /\ got = <<>> /\ pending = 0
      /\ streamed = 0 /\ loop = [l \in Loops |-> "none"]
      /\ peer = [NewPeer EXCEPT !.up = FALSE]
  BY DEF ClientInit
<1>2. Len(<<>>) = 0
  BY EmptySequence
<1>3. Laid(<<>>, 0)
  BY <1>1, <1>2, EmptyStream DEF Laid
<1>4. NumbersSent(<<>>) /\ Later(<<>>, 0)
  BY <1>2 DEF NumbersSent, Later
<1>5. Stream(<<>>, 0)
  BY <1>3, <1>4, EmptyStream DEF Stream
<1>6. Cursor /\ GotWhole
  BY <1>1, <1>2 DEF Cursor, GotWhole
<1>7. ~peer.serving
  BY <1>1 DEF NewPeer
<1> QED BY <1>1, <1>5, <1>6, <1>7 DEF StreamInv, Play

\* What is torn stays so until there is a new connection.
LEMMA TornStays == ASSUME [ClientNext]_clientVars, ~Connect, torn PROVE torn'
<1>1. CASE SetCredentials \/ SetAuthProvider \/ Teardown \/ Close
  BY <1>1 DEF SetCredentials, SetAuthProvider, Teardown, Close, history
<1>2. CASE \E op \in {"describe", "setup", "play", "pause"} : Request(op)
  BY <1>2 DEF Request, history
<1>3. CASE TeardownGoesOn \/ CloseGoesOn \/ Send \/ SkipFrame \/ TakeAnswer \/ AwaitAnswer
  BY <1>3 DEF TeardownGoesOn, CloseGoesOn, Send, SkipFrame, TakeAnswer, AwaitAnswer, history
<1>4. CASE RetryWithAuth \/ OptionsDone \/ DescribeDone \/ SetupDone
  BY <1>4 DEF RetryWithAuth, OptionsDone, DescribeDone, SetupDone, history
<1>5. CASE PlayDone \/ PauseDone \/ TeardownDone \/ CallFails
  BY <1>5 DEF PlayDone, PauseDone, TeardownDone, CallFails, history
<1>6. CASE Timeout \/ Arrive \/ EndOfStream
  BY <1>6 DEF Timeout, Arrive, EndOfStream, history
<1>7. CASE Resumes
  BY <1>7 DEF Resumes, Resume, CallHasRead, CallResumes, GiveUp, history
<1>8. ASSUME NEW l \in Loops, LoopStep(l) PROVE torn'
  BY <1>8 DEF LoopStep, LoopTop, LoopSkips, LoopFrame, LoopReads, LoopExit, history
<1>9. CASE Server
  BY <1>9 DEF Server, ServerAnswers, ServerIgnores, ServerSends, ServerLeaves, history
<1>10. CASE UNCHANGED clientVars
  BY <1>10 DEF clientVars, history
<1>11. CASE App
  BY <1>1, <1>2, <1>11 DEF App
<1>12. CASE CallStep
  BY <1>3, <1>4, <1>5, <1>12 DEF CallStep
<1>13. CASE Socket
  BY <1>6, <1>7, <1>13 DEF Socket
<1> QED BY <1>6, <1>8, <1>9, <1>10, <1>11, <1>12, <1>13 DEF ClientNext

StreamUntorn == ~torn => StreamInv

LEMMA StreamNext ==
  ASSUME BaseInv, StreamInv, ~torn', ~Connect, [ClientNext]_clientVars, PlaysOnce
  PROVE  StreamInv'
<1>1. CASE App
  BY <1>1, AppStream DEF App
<1>2. CASE CallStep
  BY <1>2, CallStream, CloseStream, SendStream, TakenStream, PlayStream DEF CallStep
<1>3. CASE Timeout
  BY <1>3, CallStream
<1>4. ASSUME NEW l \in Loops, LoopStep(l) PROVE StreamInv'
  BY <1>4, LoopTopStream, TakenStream, LoopFrameStream, LoopWaitsStream DEF LoopStep
<1>5. CASE Socket
  BY <1>5, ArriveStream, OthersSilent, CallStream, ResumeStream DEF Socket, Resumes
<1>6. CASE Server
  BY <1>6, ServerAnswersStream, OthersSilent, ServerSendsStream DEF Server
<1>7. CASE UNCHANGED clientVars
  <2>1. UNCHANGED <<unread, ready, wire, got, streamed, pending, peer, loop, session, call>>
    BY <1>7 DEF clientVars, memberVars, connVars, ioVars
  <2>2. DataKept
    BY <2>1, ReadsKeepData
  <2>3. Cursor'
    BY <2>1 DEF StreamInv, Cursor
  <2>4. peer'.served = peer.served /\ peer'.serving = peer.serving
    BY <2>1
  <2> QED BY <2>1, <2>2, <2>3, <2>4, PlainStream
<1> QED BY <1>1, <1>2, <1>3, <1>4, <1>5, <1>6, <1>7 DEF ClientNext

\* What goes to the receivers of an RtspClient are the frames the server sent,
\* whole, each once and in their order, and the loop never reads past the end of
\* the buffer, as long as no loop is begun beside another: up to the moment when
\* the bytes of a call's read come behind those of a later read of the loop, or
\* the timer drops them.
THEOREM ClientStreamInStep ==
  ASSUME PlaysOnce
  PROVE  ClientSpec => []StreamInStep
<1>1. ClientInit => BaseInv /\ StreamUntorn
  BY ControlInit, QueuesInit, StreamInit DEF BaseInv, StreamUntorn
<1>2. (BaseInv /\ StreamUntorn) /\ [ClientNext]_clientVars => (BaseInv /\ StreamUntorn)'
  <2> SUFFICES ASSUME BaseInv, StreamUntorn, [ClientNext]_clientVars
               PROVE  BaseInv' /\ StreamUntorn'
    OBVIOUS
  <2>1. BaseInv'
    BY BaseNext
  <2>2. CASE Connect
    BY <2>1, <2>2, ConnectStream DEF StreamUntorn
  <2>3. ASSUME ~Connect, ~torn' PROVE StreamInv'
    <3>1. ~torn
      BY <2>3, TornStays
    <3> QED BY <2>3, <3>1, StreamNext DEF StreamUntorn
  <2> QED BY <2>1, <2>2, <2>3 DEF StreamUntorn
<1>3. BaseInv /\ StreamUntorn => StreamInStep
  <2> SUFFICES ASSUME BaseInv, StreamInv PROVE InStep
    BY DEF StreamInStep, StreamUntorn
  <2>1. DOMAIN got = 1 .. Len(got) /\ Len(got) \in Nat
    BY SequenceLength DEF BaseInv, QueuesInv
  <2>2. ASSUME NEW i \in 1 .. Len(got), i > 1 PROVE got[i][1].n > got[i - 1][1].n
    <3>1. i - 1 \in 1 .. Len(got) /\ i - 1 < i
      BY <2>1, <2>2
    <3>2. got[i - 1][1].n < got[i][1].n
      BY <3>1 DEF StreamInv, GotWhole
    <3>3. got[i - 1][1].n \in 1 .. streamed /\ got[i][1].n \in 1 .. streamed /\ streamed \in Nat
      BY <3>1 DEF StreamInv, GotWhole, Play
    <3> QED BY <3>2, <3>3
  <2> QED BY <2>1, <2>2 DEF InStep, StreamInv, Cursor, GotWhole
<1> QED BY <1>1, <1>2, <1>3, PTL DEF ClientSpec

-----------------------------------------------------------------------------
(* RtspClient: what an answer says while it is on its way. *)

Holds(s, u)  == \E i \in 1 .. Len(s) : s[i] = u
Filled(rd, u) == \E i \in 1 .. Len(rd) : Holds(rd[i].data, u)
Carried(u)   == Holds(wire, u) \/ Filled(ready, u) \/ Holds(unread, u)

LEMMA NothingHeld == \A u : ~Holds(<<>>, u)
BY EmptySequence DEF Holds

LEMMA HeldBehind ==
  ASSUME NEW s, IsSequence(s), NEW n \in Nat, NEW u, Holds(Behind(s, n), u)
  PROVE  Holds(s, u)
<1> DEFINE t == Behind(s, n)
<1>1. \A i \in 1 .. Len(t) : n + i \in 1 .. Len(s) /\ t[i] = s[n + i]
  BY BehindSequence
<1> HIDE DEF t
<1>2. Holds(t, u)
  BY DEF t
<1>3. PICK i \in 1 .. Len(t) : t[i] = u
  BY <1>2 DEF Holds
<1>4. n + i \in 1 .. Len(s) /\ s[n + i] = u
  BY <1>1, <1>3
<1> QED BY <1>4 DEF Holds

LEMMA HeldJoined ==
  ASSUME NEW s, NEW t, IsSequence(s), IsSequence(t), NEW u, Holds(s \o t, u)
  PROVE  Holds(s, u) \/ Holds(t, u)
<1> DEFINE all == s \o t
<1>1. /\ \A i \in 1 .. Len(s) : all[i] = s[i]
      /\ \A i \in 1 .. Len(t) : all[Len(s) + i] = t[i]
      /\ \A i \in 1 .. Len(all) : i \in 1 .. Len(s) \/ \E j \in 1 .. Len(t) : i = Len(s) + j
  BY JoinedSequence
<1>2. Holds(all, u)
  OBVIOUS
<1> HIDE DEF all
<1>3. PICK i \in 1 .. Len(all) : all[i] = u
  BY <1>2 DEF Holds
<1>4. CASE i \in 1 .. Len(s)
  <2>1. s[i] = u
    BY <1>1, <1>3, <1>4
  <2> QED BY <1>4, <2>1 DEF Holds
<1>5. CASE i \notin 1 .. Len(s)
  <2>1. PICK j \in 1 .. Len(t) : i = Len(s) + j
    BY <1>1, <1>5
  <2>2. t[j] = u
    BY <1>1, <1>3, <2>1
  <2> QED BY <2>2 DEF Holds
<1> QED BY <1>4, <1>5

LEMMA HeldAppended ==
  ASSUME NEW s, NEW x, IsSequence(s), NEW u, Holds(Append(s, x), u)
  PROVE  Holds(s, u) \/ u = x
<1> DEFINE all == Append(s, x)
<1>1. /\ Len(s) \in Nat /\ Len(all) = Len(s) + 1
      /\ \A i \in 1 .. Len(s) : all[i] = s[i]
      /\ all[Len(s) + 1] = x
  BY AppendedSequence, SequenceLength
<1>2. Holds(all, u)
  OBVIOUS
<1> HIDE DEF all
<1>3. PICK i \in 1 .. Len(all) : all[i] = u
  BY <1>2 DEF Holds
<1>4. i \in 1 .. Len(s) \/ i = Len(s) + 1
  BY <1>1
<1> QED BY <1>1, <1>3, <1>4 DEF Holds

LEMMA HeldPiece ==
  ASSUME NEW s, IsSequence(s), NEW k \in Nat, k <= Len(s), NEW u, Holds(SubSeq(s, 1, k), u)
  PROVE  Holds(s, u)
<1> DEFINE p == SubSeq(s, 1, k)
<1>1. Len(s) \in Nat /\ 0 \in Nat /\ 0 <= k /\ p = SubSeq(s, 0 + 1, k)
  BY SequenceLength
<1>2. Holds(p, u)
  OBVIOUS
<1> HIDE DEF p
<1>3. Len(p) = k - 0 /\ \A i \in 1 .. k - 0 : p[i] = s[0 + i]
  BY <1>1, PieceOfSequence
<1>4. PICK i \in 1 .. Len(p) : p[i] = u
  BY <1>2 DEF Holds
<1>5. i \in 1 .. Len(s) /\ s[i] = u
  BY <1>1, <1>3, <1>4
<1> QED BY <1>5 DEF Holds

LEMMA FilledAfter ==
  ASSUME NEW rd, IsSequence(rd), NEW e, NEW u, Filled(Append(rd, e), u)
  PROVE  Filled(rd, u) \/ Holds(e.data, u)
<1> DEFINE all == Append(rd, e)
<1>1. /\ Len(rd) \in Nat /\ Len(all) = Len(rd) + 1
      /\ \A i \in 1 .. Len(rd) : all[i] = rd[i]
      /\ all[Len(rd) + 1] = e
  BY AppendedSequence, SequenceLength
<1>2. Filled(all, u)
  OBVIOUS
<1> HIDE DEF all
<1>3. PICK i \in 1 .. Len(all) : Holds(all[i].data, u)
  BY <1>2 DEF Filled
<1>4. i \in 1 .. Len(rd) \/ i = Len(rd) + 1
  BY <1>1
<1> QED BY <1>1, <1>3, <1>4 DEF Filled

LEMMA FilledBefore ==
  ASSUME NEW rd, IsSequence(rd), rd # <<>>, NEW u
  PROVE  /\ Filled(Tail(rd), u) => Filled(rd, u)
         /\ Holds(Head(rd).data, u) => Filled(rd, u)
<1> DEFINE rest == Tail(rd)
<1>1. /\ Len(rd) > 0 /\ Len(rd) \in Nat /\ Head(rd) = rd[1]
      /\ \A i \in 1 .. Len(rest) : i + 1 \in 1 .. Len(rd) /\ rest[i] = rd[i + 1]
  BY TailOfSequence, SequenceLength
<1> HIDE DEF rest
<1>2. 1 \in 1 .. Len(rd)
  BY <1>1
<1>3. Holds(Head(rd).data, u) => Filled(rd, u)
  BY <1>1, <1>2 DEF Filled
<1>4. Filled(rest, u) => Filled(rd, u)
  BY <1>1 DEF Filled
<1> QED BY <1>3, <1>4 DEF rest

LEMMA FilledCancelled ==
  ASSUME NEW rd, NEW rs, IsSequence(rd), IsSequence(rs), NEW u, Filled(rd \o Aborted(rs), u)
  PROVE  Filled(rd, u)
<1> DEFINE t == Aborted(rs)
<1>1. IsSequence(t) /\ Len(t) = Len(rs) /\ \A i \in 1 .. Len(rs) : t[i].data = <<>>
  BY AbortedAre
<1>2. Filled(rd \o t, u)
  OBVIOUS
<1> HIDE DEF t
<1> DEFINE all == rd \o t
<1> HIDE DEF all
<1>3. /\ \A i \in 1 .. Len(rd) : all[i] = rd[i]
      /\ \A i \in 1 .. Len(t) : all[Len(rd) + i] = t[i]
      /\ \A i \in 1 .. Len(all) : i \in 1 .. Len(rd) \/ \E j \in 1 .. Len(t) : i = Len(rd) + j
  <2>1. IsSequence(rd) /\ IsSequence(t)
    BY <1>1
  <2>2. \A i \in 1 .. Len(rd) : all[i] = rd[i]
    BY <2>1, JoinedSequence DEF all
  <2>3. \A i \in 1 .. Len(t) : all[Len(rd) + i] = t[i]
    BY <2>1, JoinedSequence DEF all
  <2>4. \A i \in 1 .. Len(all) : i \in 1 .. Len(rd) \/ \E j \in 1 .. Len(t) : i = Len(rd) + j
    BY <2>1, JoinedSequence DEF all
  <2> QED BY <2>2, <2>3, <2>4
<1>4. PICK i \in 1 .. Len(all) : Holds(all[i].data, u)
  BY <1>2 DEF Filled, all
<1>5. CASE i \in 1 .. Len(rd)
  BY <1>3, <1>4, <1>5 DEF Filled
<1>6. CASE i \notin 1 .. Len(rd)
  <2>1. PICK j \in 1 .. Len(t) : i = Len(rd) + j
    BY <1>3, <1>6
  <2>2. all[i] = t[j] /\ t[j].data = <<>>
    BY <1>1, <1>3, <2>1
  <2> QED BY <1>4, <2>2, NothingHeld
<1> QED BY <1>5, <1>6

LEMMA FilledGivenUp ==
  ASSUME NEW rd, NEW w, IsSequence(rd), \A i, j \in 1 .. Len(rd) : rd[i].who = rd[j].who => i = j,
         NEW u, Filled(GivenUp(rd, CompletedBy(w, rd)), u)
  PROVE  Filled(rd, u)
<1> DEFINE mine == CompletedBy(w, rd)
           t == GivenUp(rd, mine)
<1>1. mine \subseteq 1 .. Len(rd) /\ \A i, j \in mine : i = j
  BY DEF CompletedBy
<1>2. Filled(t, u)
  OBVIOUS
<1> HIDE DEF mine
<1>3. Without(rd, mine, t)
  BY <1>1, GivenUpOne
<1> HIDE DEF t
<1>4. PICK f \in [1 .. Len(t) -> 1 .. Len(rd)] : \A j \in DOMAIN f : t[j] = rd[f[j]]
  BY <1>3 DEF Without
<1>5. PICK j \in 1 .. Len(t) : Holds(t[j].data, u)
  BY <1>2 DEF Filled
<1>6. f[j] \in 1 .. Len(rd) /\ t[j] = rd[f[j]]
  BY <1>4
<1> QED BY <1>5, <1>6 DEF Filled

\* No step but an answer of the server adds to the answers on their way.
OnTheirWay == \A u : IsAnswer(u) /\ Carried(u)' => Carried(u)

LEMMA WayCancelled ==
  ASSUME BaseInv, UNCHANGED ready \/ CancelReads,
         unread' \in {unread, <<>>}, wire' \in {wire, <<>>}
  PROVE  OnTheirWay
<1> SUFFICES ASSUME NEW u, Carried(u)' PROVE Carried(u)
  BY DEF OnTheirWay
<1>1. IsSequence(reads) /\ IsSequence(ready)
  BY DEF BaseInv, ControlInv, ReadsFit, Entries
<1>2. Filled(ready', u) => Filled(ready, u)
  BY <1>1, FilledCancelled DEF CancelReads
<1>3. Holds(wire', u) => Holds(wire, u)
  BY NothingHeld
<1>4. Holds(unread', u) => Holds(unread, u)
  BY NothingHeld
<1> QED BY <1>2, <1>3, <1>4 DEF Carried

LEMMA WayTaken ==
  ASSUME BaseInv, UNCHANGED <<wire, ready>>, NEW n \in Nat, unread' = Behind(unread, n)
  PROVE  OnTheirWay
<1> SUFFICES ASSUME NEW u, Carried(u)' PROVE Carried(u)
  BY DEF OnTheirWay
<1>1. IsSequence(unread)
  BY DEF BaseInv, QueuesInv
<1>2. Holds(unread', u) => Holds(unread, u)
  BY <1>1, HeldBehind
<1> QED BY <1>2 DEF Carried

LEMMA WayOfTimeout == ASSUME BaseInv, Timeout PROVE OnTheirWay
<1> SUFFICES ASSUME NEW u, Carried(u)' PROVE Carried(u)
  BY DEF OnTheirWay
<1> DEFINE e == AbortedRead(Caller)
<1>1. UNCHANGED <<unread, wire>> /\ ready' \in {ready, Append(ready, e)}
  BY DEF Timeout, connVars
<1>2. ~Holds(e.data, u)
  BY NothingHeld DEF AbortedRead
<1> HIDE DEF e
<1>3. IsSequence(ready)
  BY DEF BaseInv, ControlInv, ReadsFit, Entries
<1>4. Filled(ready', u) => Filled(ready, u)
  BY <1>1, <1>2, <1>3, FilledAfter
<1> QED BY <1>1, <1>4 DEF Carried

LEMMA WayOfGiveUp == ASSUME BaseInv, GiveUp PROVE OnTheirWay
<1> SUFFICES ASSUME NEW u, Carried(u)' PROVE Carried(u)
  BY DEF OnTheirWay
<1>1. UNCHANGED <<unread, wire>>
  BY DEF GiveUp, connVars
<1>2. Entries(reads, ready) /\ IsSequence(reads) /\ IsSequence(ready)
  BY DEF BaseInv, ControlInv, ReadsFit, Entries
<1> DEFINE rd == GivenUp(ready, CompletedBy(Caller, ready))
<1>3. ready' = rd \o Aborted(reads) /\ IsSequence(rd)
  BY GiveUpIs DEF BaseInv, Entries
<1>4. Filled(rd, u) => Filled(ready, u)
  BY <1>2, FilledGivenUp DEF Entries
<1> HIDE DEF rd
<1>5. Filled(ready', u) => Filled(rd, u)
  BY <1>2, <1>3, FilledCancelled
<1> QED BY <1>1, <1>4, <1>5 DEF Carried

\* The read of a call that goes on a trip later.
LEMMA WayOfCall == ASSUME BaseInv, CallHasRead PROVE OnTheirWay
<1> SUFFICES ASSUME NEW u, Carried(u)' PROVE Carried(u)
  BY DEF OnTheirWay
<1> DEFINE e == Head(ready)
           rest == Tail(ready)
<1>1. UNCHANGED <<unread, wire>> /\ ready # <<>> /\ ready' \in {rest, Append(rest, e)}
  BY DEF CallHasRead, connVars
<1>2. IsSequence(ready)
  BY DEF BaseInv, ControlInv, ReadsFit, Entries
<1>3. IsSequence(rest)
  BY <1>1, <1>2, TailOfSequence
<1>4. /\ Filled(rest, u) => Filled(ready, u)
      /\ Holds(e.data, u) => Filled(ready, u)
  BY <1>1, <1>2, FilledBefore
<1> HIDE DEF e, rest
<1>5. Filled(ready', u) => Filled(ready, u)
  BY <1>1, <1>3, <1>4, FilledAfter
<1> QED BY <1>1, <1>5 DEF Carried

LEMMA WayOfArrive == ASSUME BaseInv, Arrive PROVE OnTheirWay
<1> SUFFICES ASSUME NEW u, Carried(u)' PROVE Carried(u)
  BY DEF OnTheirWay
<1>1. UNCHANGED unread
  BY DEF Arrive, connVars
<1>2. PICK k \in 1 .. Len(wire) :
        /\ ready' = Append(ready, [who |-> reads[1], how |-> "data", data |-> SubSeq(wire, 1, k)])
        /\ wire' = Behind(wire, k)
  BY DEF Arrive
<1> DEFINE e == [who |-> reads[1], how |-> "data", data |-> SubSeq(wire, 1, k)]
<1>3. IsSequence(wire) /\ IsSequence(ready) /\ k \in Nat /\ k <= Len(wire)
  BY SequenceLength DEF BaseInv, QueuesInv, ControlInv, ReadsFit, Entries
<1>4. e.data = SubSeq(wire, 1, k) /\ ready' = Append(ready, e)
  BY <1>2
<1> HIDE DEF e
<1>5. Holds(wire', u) => Holds(wire, u)
  BY <1>2, <1>3, HeldBehind
<1>6. Holds(e.data, u) => Holds(wire, u)
  BY <1>3, <1>4, HeldPiece
<1>7. Filled(ready', u) => Filled(ready, u) \/ Holds(e.data, u)
  BY <1>3, <1>4, FilledAfter
<1> QED BY <1>1, <1>5, <1>6, <1>7 DEF Carried

LEMMA WayOfEnd == ASSUME BaseInv, EndOfStream PROVE OnTheirWay
<1> SUFFICES ASSUME NEW u, Carried(u)' PROVE Carried(u)
  BY DEF OnTheirWay
<1>1. UNCHANGED <<unread, wire>>
  BY DEF EndOfStream, connVars
<1> DEFINE e == [who |-> reads[1], how |-> "eof", data |-> <<>>]
<1>2. ready' = Append(ready, e) /\ ~Holds(e.data, u)
  BY NothingHeld DEF EndOfStream
<1> HIDE DEF e
<1>3. IsSequence(ready)
  BY DEF BaseInv, ControlInv, ReadsFit, Entries
<1>4. Filled(ready', u) => Filled(ready, u)
  BY <1>2, <1>3, FilledAfter
<1> QED BY <1>1, <1>4 DEF Carried

LEMMA WayOfResume == ASSUME BaseInv, Resume \/ CallResumes PROVE OnTheirWay
<1> SUFFICES ASSUME NEW u, Carried(u)' PROVE Carried(u)
  BY DEF OnTheirWay
<1> DEFINE r == Head(ready)
<1>1. UNCHANGED wire /\ unread' = unread \o r.data
  BY BroughtReads DEF BaseInv
<1>2. IsSequence(ready) /\ ready # <<>> /\ ready' = Tail(ready) /\ IsSequence(r.data)
  BY BroughtReads DEF BaseInv
<1>3. IsSequence(unread) /\ IsSequence(r.data)
  BY <1>2 DEF BaseInv, QueuesInv
<1>4. /\ Filled(ready', u) => Filled(ready, u)
      /\ Holds(r.data, u) => Filled(ready, u)
  BY <1>2, FilledBefore
<1> HIDE DEF r
<1>5. Holds(unread', u) => Holds(unread, u) \/ Holds(r.data, u)
  BY <1>1, <1>3, HeldJoined
<1> QED BY <1>1, <1>4, <1>5 DEF Carried

LEMMA WayOfFrames == ASSUME BaseInv, ServerSends PROVE OnTheirWay
<1> SUFFICES ASSUME NEW u, IsAnswer(u), Carried(u)' PROVE Carried(u)
  BY DEF OnTheirWay
<1>1. UNCHANGED <<unread, ready>>
  BY DEF ServerSends, connVars
<1>2. PICK c : wire' = wire \o <<FrameHead(streamed + 1, c), FrameTail(streamed + 1, c)>>
  BY DEF ServerSends
<1> DEFINE h == FrameHead(streamed + 1, c)
           t == FrameTail(streamed + 1, c)
<1>3. h.part = "head" /\ t.part = "tail" /\ wire' = wire \o <<h, t>>
  BY <1>2 DEF FrameHead, FrameTail
<1> HIDE DEF h, t
<1>4. IsSequence(<<h, t>>)
  <2>1. <<h, t>> \in Seq({h, t})
    OBVIOUS
  <2> QED BY <2>1 DEF IsSequence
<1>5. ~Holds(<<h, t>>, u)
  BY <1>3 DEF Holds, IsAnswer
<1>6. IsSequence(wire)
  BY DEF BaseInv, QueuesInv
<1>7. Holds(wire', u) => Holds(wire, u)
  BY <1>3, <1>4, <1>5, <1>6, HeldJoined
<1> QED BY <1>1, <1>7 DEF Carried

\* What ServerAnswers adds is its answer.
LEMMA WayOfAnswer ==
  ASSUME BaseInv, UNCHANGED <<unread, ready>>, NEW a, wire' = Append(wire, a),
         NEW u, Carried(u)'
  PROVE  Carried(u) \/ u = a
<1>1. IsSequence(wire)
  BY DEF BaseInv, QueuesInv
<1>2. Holds(wire', u) => Holds(wire, u) \/ u = a
  BY <1>1, HeldAppended
<1> QED BY <1>2 DEF Carried

\* Where no answer is under way none is carried.
LEMMA QuietCarries ==
  ASSUME Quiet, NEW u, IsAnswer(u)
  PROVE  ~Carried(u)
BY DEF Quiet, Carried, Holds, Filled, NoneIn, AllFree

\* Steps aside of requests and what becomes of them: those of the loops, the
\* reads and the server on its own, and of a call that waits.
Aside ==
  \/ SkipFrame \/ AwaitAnswer \/ Timeout \/ (\E l \in Loops : LoopStep(l))
  \/ Socket \/ ServerIgnores \/ ServerSends \/ ServerLeaves

\* A request with this CSeq is at the server.
Asked(n) == \E i \in 1 .. Len(peer.asked) : peer.asked[i].n = n

Unmoved ==
  /\ UNCHANGED <<session, sid, sdp, tracks, auth, connects, cseq>>
  /\ peer'.nonce = peer.nonce /\ peer'.nc = peer.nc /\ peer'.chans = peer.chans
  /\ (peer'.up => peer.up) /\ \A n : Asked(n)' => Asked(n)
  /\ call'.op = call.op /\ call'.at = call.at
  /\ call'.pc \in {"answer", "send"} => call' = call
  /\ OnTheirWay

LEMMA SameIsUnmoved ==
  ASSUME UNCHANGED <<session, sid, sdp, tracks, auth, connects, cseq, peer, call>>, OnTheirWay
  PROVE  Unmoved
BY DEF Unmoved, Asked

LEMMA PcIsUnmoved ==
  ASSUME BaseInv, UNCHANGED <<session, sid, sdp, tracks, auth, connects, cseq, peer>>, OnTheirWay,
         NEW pc \in Expecting \cup {"failed"}, call' = [call EXCEPT !.pc = pc]
  PROVE  Unmoved
<1>1. call'.op = call.op /\ call'.at = call.at /\ call'.pc = pc
  BY DEF BaseInv, ControlInv, CallShape
<1>2. call'.pc \notin {"answer", "send"}
  BY <1>1 DEF Expecting
<1> QED BY <1>1, <1>2 DEF Unmoved, Asked

LEMMA CallAside ==
  ASSUME BaseInv, SkipFrame \/ AwaitAnswer \/ Timeout
  PROVE  Unmoved
<1>1. CASE SkipFrame
  <2>1. /\ UNCHANGED <<session, sid, sdp, tracks, auth, connects, cseq, peer, call, wire, ready>>
        /\ 2 \in Nat /\ unread' = Behind(unread, 2)
    BY <1>1 DEF SkipFrame, memberVars, media, ioVars, bounds
  <2>2. OnTheirWay
    BY <2>1, WayTaken
  <2> QED BY <2>1, <2>2, SameIsUnmoved
<1>2. CASE AwaitAnswer
  <2>1. /\ UNCHANGED <<session, sid, sdp, tracks, auth, connects, cseq, peer, wire, ready, unread>>
        /\ call' = [call EXCEPT !.pc = "reading"]
    BY <1>2 DEF AwaitAnswer, memberVars, media, connVars, bounds
  <2>2. OnTheirWay
    BY <2>1 DEF OnTheirWay, Carried
  <2> QED BY <2>1, <2>2, PcIsUnmoved DEF Expecting
<1>3. CASE Timeout
  <2>1. /\ UNCHANGED <<session, sid, sdp, tracks, auth, connects, cseq, peer>>
        /\ call' = [call EXCEPT !.pc = "late"]
    BY <1>3 DEF Timeout, memberVars, media, bounds
  <2>2. OnTheirWay
    BY <1>3, WayOfTimeout
  <2> QED BY <2>1, <2>2, PcIsUnmoved DEF Expecting
<1> QED BY <1>1, <1>2, <1>3

LEMMA LoopAside ==
  ASSUME BaseInv, NEW l \in Loops, LoopStep(l)
  PROVE  Unmoved
<1>1. UNCHANGED <<session, sid, sdp, tracks, auth, connects, cseq, peer, call, wire, ready>>
  BY DEF LoopStep, LoopTop, LoopSkips, LoopFrame, LoopReads, LoopExit, memberVars, media, ioVars,
         bounds
<1>2. IsSequence(unread) /\ pending \in Nat
  BY DEF BaseInv, QueuesInv
<1>3. CASE UNCHANGED unread
  <2>1. OnTheirWay
    BY <1>1, <1>3 DEF OnTheirWay, Carried
  <2> QED BY <1>1, <2>1, SameIsUnmoved
<1>4. CASE unread' # unread
  <2>1. LoopTop(l) \/ LoopSkips(l)
    BY <1>4 DEF LoopStep, LoopFrame, LoopReads, LoopExit, connVars
  <2>2. CASE LoopTop(l)
    <3>1. unread' = Behind(unread, pending)
      BY <1>4, <2>2 DEF LoopTop
    <3>2. OnTheirWay
      BY <1>1, <1>2, <3>1, WayTaken
    <3> QED BY <1>1, <3>2, SameIsUnmoved
  <2>3. CASE LoopSkips(l)
    <3>1. unread' = Behind(unread, AnswerAt(unread))
      BY <2>3 DEF LoopSkips
    <3>2. AnswerAt(unread) \in Nat
      BY <1>2, AnswerAtIs, SequenceLength
    <3>3. OnTheirWay
      BY <1>1, <3>1, <3>2, WayTaken
    <3> QED BY <1>1, <3>3, SameIsUnmoved
  <2> QED BY <2>1, <2>2, <2>3
<1> QED BY <1>3, <1>4

LEMMA SocketAside == ASSUME BaseInv, Socket PROVE Unmoved
<1>1. UNCHANGED <<session, sid, sdp, tracks, auth, connects, cseq, peer>>
  BY DEF Socket, Resumes, Arrive, EndOfStream, Resume, CallHasRead, CallResumes, GiveUp,
         memberVars, media, bounds
<1>2. OnTheirWay
  BY WayOfArrive, WayOfEnd, WayOfResume, WayOfCall, WayOfGiveUp DEF Socket, Resumes
<1>3. call' = call \/ \E pc \in Expecting \cup {"failed"} : call' = [call EXCEPT !.pc = pc]
  BY DEF Socket, Resumes, Arrive, EndOfStream, Resume, CallHasRead, CallResumes, GiveUp, Expecting
<1> QED BY <1>1, <1>2, <1>3, SameIsUnmoved, PcIsUnmoved

\* The first request is answered, or ignored.
LEMMA AskedBehind ==
  ASSUME BaseInv, peer.asked # <<>>, peer'.asked = Tail(peer.asked), NEW n, Asked(n)'
  PROVE  Asked(n)
<1> DEFINE s == peer.asked
           rest == Tail(s)
<1>1. IsSequence(s)
  BY DEF BaseInv, QueuesInv
<1>2. \A i \in 1 .. Len(rest) : i + 1 \in 1 .. Len(s) /\ rest[i] = s[i + 1]
  BY <1>1, TailOfSequence
<1>3. \E i \in 1 .. Len(rest) : rest[i].n = n
  BY DEF Asked
<1> QED BY <1>2, <1>3 DEF Asked

LEMMA ServerAside ==
  ASSUME BaseInv, ServerIgnores \/ ServerSends \/ ServerLeaves
  PROVE  Unmoved
<1>1. UNCHANGED <<session, sid, sdp, tracks, auth, connects, cseq, call, unread, ready>>
  BY DEF ServerIgnores, ServerSends, ServerLeaves, memberVars, media, connVars, ioVars, bounds
<1>2. DOMAIN peer = PeerFields
  BY DEF BaseInv, QueuesInv
<1>3. CASE ServerSends
  <2>1. UNCHANGED peer
    BY <1>3 DEF ServerSends
  <2>2. OnTheirWay
    BY <1>3, WayOfFrames
  <2> QED BY <1>1, <2>1, <2>2, SameIsUnmoved
<1>4. CASE ServerIgnores \/ ServerLeaves
  <2>1. UNCHANGED wire
    BY <1>4 DEF ServerIgnores, ServerLeaves, ioVars
  <2>2. OnTheirWay
    BY <1>1, <2>1 DEF OnTheirWay, Carried
  <2>3. /\ peer'.nonce = peer.nonce /\ peer'.nc = peer.nc /\ peer'.chans = peer.chans
        /\ (peer'.up => peer.up) /\ \A n : Asked(n)' => Asked(n)
    <3>1. CASE ServerLeaves
      <4>1. peer' = [peer EXCEPT !.up = FALSE, !.asked = <<>>, !.serving = FALSE]
        BY <3>1 DEF ServerLeaves
      <4>2. /\ peer'.nonce = peer.nonce /\ peer'.nc = peer.nc /\ peer'.chans = peer.chans
            /\ ~peer'.up /\ peer'.asked = <<>>
        BY <1>2, <4>1 DEF PeerFields
      <4>3. Len(peer'.asked) = 0
        BY <4>2, EmptySequence
      <4> QED BY <4>2, <4>3 DEF Asked
    <3>2. CASE ServerIgnores
      <4>1. peer.asked # <<>> /\ peer' = [peer EXCEPT !.asked = Tail(peer.asked)]
        BY <3>2 DEF ServerIgnores
      <4>2. /\ peer'.nonce = peer.nonce /\ peer'.nc = peer.nc /\ peer'.chans = peer.chans
            /\ peer'.up = peer.up /\ peer'.asked = Tail(peer.asked)
        BY <1>2, <4>1 DEF PeerFields
      <4> QED BY <4>1, <4>2, AskedBehind
    <3> QED BY <1>4, <3>1, <3>2
  <2> QED BY <1>1, <2>2, <2>3 DEF Unmoved
<1> QED BY <1>3, <1>4

LEMMA AsideUnmoved == ASSUME BaseInv, Aside PROVE Unmoved
BY CallAside, LoopAside, SocketAside, ServerAside DEF Aside

\* Of one request there is no other left when it is ignored.
LEMMA AsideAsked ==
  ASSUME BaseInv, AnswerInv, Aside \/ UNCHANGED clientVars
  PROVE  peer'.asked \in {peer.asked, <<>>}
<1>1. DOMAIN peer = PeerFields /\ IsSequence(peer.asked) /\ Len(peer.asked) <= 1
  BY DEF BaseInv, QueuesInv, AnswerInv, OneUnderWay
<1>2. CASE ServerLeaves
  <2>1. peer' = [peer EXCEPT !.up = FALSE, !.asked = <<>>, !.serving = FALSE]
    BY <1>2 DEF ServerLeaves
  <2> QED BY <1>1, <2>1 DEF PeerFields
<1>3. CASE ServerIgnores
  <2>1. peer.asked # <<>> /\ peer' = [peer EXCEPT !.asked = Tail(peer.asked)]
    BY <1>3 DEF ServerIgnores
  <2>2. Tail(peer.asked) = <<>>
    BY <1>1, <2>1, OneRequestLeft
  <2> QED BY <1>1, <2>1, <2>2 DEF PeerFields
<1>4. ASSUME SkipFrame \/ AwaitAnswer \/ Timeout \/ ServerSends \/ UNCHANGED clientVars
      PROVE  peer' = peer
  BY <1>4 DEF SkipFrame, AwaitAnswer, Timeout, ServerSends, clientVars
<1>5. ASSUME NEW l \in Loops, LoopStep(l)
      PROVE  peer' = peer
  BY <1>5 DEF LoopStep, LoopTop, LoopSkips, LoopFrame, LoopReads, LoopExit
<1>6. ASSUME Socket
      PROVE  peer' = peer
  BY <1>6 DEF Socket, Resumes, Arrive, EndOfStream, Resume, CallHasRead, CallResumes, GiveUp
<1> QED BY <1>2, <1>3, <1>4, <1>5, <1>6 DEF Aside

LEMMA StutterUnmoved == ASSUME UNCHANGED clientVars PROVE Unmoved
<1>1. UNCHANGED <<session, sid, sdp, tracks, auth, connects, cseq, peer, call, wire, ready, unread>>
  BY DEF clientVars, memberVars, media, connVars, ioVars, bounds
<1>2. OnTheirWay
  BY <1>1 DEF OnTheirWay, Carried
<1> QED BY <1>1, <1>2, SameIsUnmoved

-----------------------------------------------------------------------------
(* RtspClient: what a server makes of a request. *)

\* The server with the nonce it has by now.
Renewed(p) ==
  \/ p.nonce = peer.nonce /\ p.nc = peer.nc
  \/ p.nonce = peer.nonce + 1 /\ p.nc = 0 /\ This.wants.scheme = "digest"

Answered(p, status, garbled) ==
  LET r == Head(peer.asked) IN
  /\ Renewed(p) /\ p.chans = peer.chans
  /\ status = 500 \/ status = StatusOf(p, r)
  /\ wire' = Append(wire, AnswerTo(r, status, p.nonce, garbled))
  /\ peer'.nonce = p.nonce
  /\ peer'.nc = IF Accepts(p, r) THEN r.auth.nc ELSE p.nc
  /\ peer'.asked = Tail(peer.asked)
  /\ peer'.chans = CASE status = 200 /\ r.method = "SETUP"    -> SetUpOn(p, r)
                     [] status = 200 /\ r.method = "TEARDOWN" -> {}
                     [] OTHER                                 -> p.chans

LEMMA ServedWhat ==
  ASSUME NEW p, NEW r, DOMAIN p = PeerFields
  PROVE  /\ Served(p, r).nonce = p.nonce /\ Served(p, r).nc = p.nc
         /\ Served(p, r).asked = p.asked
         /\ Served(p, r).chans = CASE r.method = "SETUP"    -> SetUpOn(p, r)
                                   [] r.method = "TEARDOWN" -> {}
                                   [] OTHER                 -> p.chans
<1>1. CASE r.method = "SETUP"
  BY <1>1 DEF Served, PeerFields
<1>2. CASE r.method = "PLAY"
  BY <1>2 DEF Served, PeerFields
<1>3. CASE r.method = "PAUSE"
  BY <1>3 DEF Served, PeerFields
<1>4. CASE r.method = "TEARDOWN"
  BY <1>4 DEF Served, PeerFields
<1>5. CASE r.method \notin {"SETUP", "PLAY", "PAUSE", "TEARDOWN"}
  <2>1. Served(p, r) = p
    BY <1>5 DEF Served
  <2> QED BY <1>5, <2>1
<1> QED BY <1>1, <1>2, <1>3, <1>4, <1>5

LEMMA AnsweredIs ==
  ASSUME BaseInv, ServerAnswers
  PROVE  \E p, status, garbled : Answered(p, status, garbled)
<1> DEFINE r == Head(peer.asked)
           o == [peer EXCEPT !.asked = Tail(@)]
           P(odd) == IF odd = "renewed" THEN [o EXCEPT !.nonce = @ + 1, !.nc = 0] ELSE o
           St(odd) == IF odd = "error" THEN 500 ELSE StatusOf(P(odd), r)
           Q(odd) == IF Accepts(P(odd), r) THEN [P(odd) EXCEPT !.nc = r.auth.nc] ELSE P(odd)
<1>0. PICK odd \in {"no", "error", "garbled", "renewed"} :
        /\ odd = "renewed" => This.wants.scheme = "digest"
        /\ peer' = IF St(odd) = 200 THEN Served(Q(odd), r) ELSE Q(odd)
        /\ wire' = Append(wire, AnswerTo(r, St(odd), P(odd).nonce, odd = "garbled"))
  BY DEF ServerAnswers
<1> HIDE DEF St, Q, P, o
<1>1. /\ DOMAIN o = PeerFields /\ o.asked = Tail(peer.asked)
      /\ o.nonce = peer.nonce /\ o.nc = peer.nc /\ o.chans = peer.chans
  BY DEF BaseInv, QueuesInv, PeerFields, o
<1>2. /\ DOMAIN P(odd) = PeerFields /\ P(odd).asked = o.asked /\ P(odd).chans = o.chans
      /\ Renewed(P(odd))
  <2>1. CASE odd = "renewed"
    BY <1>0, <1>1, <2>1 DEF PeerFields, P, Renewed
  <2>2. CASE odd # "renewed"
    BY <1>1, <2>2 DEF P, Renewed
  <2> QED BY <2>1, <2>2
<1>3. /\ DOMAIN Q(odd) = PeerFields /\ Q(odd).asked = o.asked /\ Q(odd).chans = o.chans
      /\ Q(odd).nonce = P(odd).nonce
      /\ Q(odd).nc = IF Accepts(P(odd), r) THEN r.auth.nc ELSE P(odd).nc
  BY <1>2 DEF PeerFields, Q
<1>4. SetUpOn(Q(odd), r) = SetUpOn(P(odd), r)
  BY <1>2, <1>3 DEF SetUpOn
<1>5. /\ peer'.nonce = P(odd).nonce
      /\ peer'.nc = IF Accepts(P(odd), r) THEN r.auth.nc ELSE P(odd).nc
      /\ peer'.asked = Tail(peer.asked)
      /\ peer'.chans = CASE St(odd) = 200 /\ r.method = "SETUP"    -> SetUpOn(P(odd), r)
                         [] St(odd) = 200 /\ r.method = "TEARDOWN" -> {}
                         [] OTHER                                  -> P(odd).chans
  <2>1. CASE St(odd) = 200
    <3>1. peer' = Served(Q(odd), r)
      BY <1>0, <2>1
    <3>2. /\ peer'.nonce = Q(odd).nonce /\ peer'.nc = Q(odd).nc /\ peer'.asked = Q(odd).asked
          /\ peer'.chans = CASE r.method = "SETUP"    -> SetUpOn(Q(odd), r)
                             [] r.method = "TEARDOWN" -> {}
                             [] OTHER                 -> Q(odd).chans
      BY <1>3, <3>1, ServedWhat
    <3> QED BY <1>1, <1>2, <1>3, <1>4, <2>1, <3>2
  <2>2. CASE St(odd) # 200
    <3>1. peer' = Q(odd)
      BY <1>0, <2>2
    <3> QED BY <1>1, <1>2, <1>3, <2>2, <3>1
  <2> QED BY <2>1, <2>2
<1>6. St(odd) = 500 \/ St(odd) = StatusOf(P(odd), r)
  BY DEF St
<1>7. P(odd).chans = peer.chans
  BY <1>1, <1>2
<1>8. Answered(P(odd), St(odd), odd = "garbled")
  BY <1>0, <1>2, <1>5, <1>6, <1>7 DEF Answered
<1> QED BY <1>8

\* The request under way is the one the call has sent, with the credentials of
\* the provider as it is.
AskedIsCalled ==
  peer.asked # <<>> =>
    LET r == peer.asked[1] IN
    /\ r.method = Requests(call.op)[call.at]
    /\ call.op = "setup" => /\ r.uri = BuildControlUrl(sdp[call.at].control)
                            /\ r.chan = RtpChannel(call.at)
    /\ r.auth = IF MakesHeader(auth) THEN Header(auth, User, cseq, r.method, r.uri)
                                     ELSE NoHeader

\* A server that is there is one of those it may be.
ThisIsThere == connects \in 0 .. MaxConnects /\ (peer.up => connects \in DOMAIN Servers)

LEMMA UnmovedIsCalled ==
  ASSUME AskedIsCalled, Unmoved, peer'.asked \in {peer.asked, <<>>}
  PROVE  AskedIsCalled'
BY DEF AskedIsCalled, Unmoved, Requests

LEMMA QuietIsCalled ==
  ASSUME AnswerInv', call'.pc \notin Expecting
  PROVE  AskedIsCalled'
BY DEF AnswerInv, Quiet, AskedIsCalled

\* The steps of the calls between two waits.
CallTurn ==
  \/ Connect \/ SetCredentials \/ SetAuthProvider
  \/ (\E op \in {"describe", "setup", "play", "pause"} : Request(op))
  \/ Teardown \/ Close \/ TeardownGoesOn \/ CloseGoesOn \/ TakeAnswer \/ RetryWithAuth
  \/ OptionsDone \/ DescribeDone \/ SetupDone \/ PlayDone \/ PauseDone \/ TeardownDone
  \/ CallFails

LEMMA CallTurnIs == ASSUME BaseInv, CallTurn PROVE call'.pc \notin Expecting
<1>1. CASE Connect \/ SetCredentials \/ SetAuthProvider
  <2>1. call = NoCall /\ call' = call
    BY <1>1 DEF Connect, SetCredentials, SetAuthProvider
  <2> QED BY <2>1, NoCallIs DEF Expecting
<1>2. CASE (\E op \in {"describe", "setup", "play", "pause"} : Request(op)) \/ Teardown \/ Close
  <2>1. \E op, pc : pc \in {"send", "wait"} /\ call' = CallOf(op, pc)
    BY <1>2 DEF Request, Teardown, Close
  <2> QED BY <2>1, CallMade DEF Expecting
<1>3. CASE \/ TeardownGoesOn \/ CloseGoesOn \/ RetryWithAuth \/ OptionsDone \/ DescribeDone
           \/ SetupDone \/ PlayDone \/ PauseDone \/ TeardownDone \/ CallFails
  <2>1. \/ call' = NoCall \/ NextRequest \/ call' = [call EXCEPT !.pc = "send"]
        \/ call' = [call EXCEPT !.pc = "send", !.retried = TRUE, !.answer = NoAnswer]
    BY <1>3 DEF TeardownGoesOn, CloseGoesOn, RetryWithAuth, OptionsDone, DescribeDone, SetupDone,
                PlayDone, PauseDone, TeardownDone, CallFails, Returns
  <2>2. CASE call' = NoCall
    BY <2>2, NoCallIs DEF Expecting
  <2>3. CASE NextRequest
    BY <2>3, NextRequestIs DEF Expecting
  <2>4. CASE call' = [call EXCEPT !.pc = "send"]
             \/ call' = [call EXCEPT !.pc = "send", !.retried = TRUE, !.answer = NoAnswer]
    BY <2>4 DEF BaseInv, ControlInv, CallShape, Expecting
  <2> QED BY <2>1, <2>2, <2>3, <2>4
<1>4. CASE TakeAnswer
  <2>1. \/ call' = [call EXCEPT !.pc = "answer", !.answer = ParseResponse(unread[1])]
        \/ call' = [call EXCEPT !.pc = "failed"]
    BY <1>4 DEF TakeAnswer
  <2> QED BY <2>1 DEF BaseInv, ControlInv, CallShape, Expecting
<1> QED BY <1>1, <1>2, <1>3, <1>4 DEF CallTurn

\* What send() does, in a word.
Sent(q) ==
  /\ peer' = [peer EXCEPT !.asked = Append(peer.asked, q)]
  /\ q.n = cseq + 1 /\ q.method = Requests(call.op)[call.at]
  /\ call.op = "setup" => /\ q.uri = BuildControlUrl(sdp[call.at].control)
                          /\ q.chan = RtpChannel(call.at)
  /\ q.auth = Credentials(auth', q.method, q.uri)

LEMMA SendSends == ASSUME Send PROVE peer' = peer \/ \E q : Sent(q)
<1> DEFINE r == RequestText(NoHeader)
           q == [r EXCEPT !.auth = Credentials(auth', r.method, r.uri)]
<1>1. peer' = peer \/ peer' = [peer EXCEPT !.asked = Append(peer.asked, q)]
  BY DEF Send
<1>2. /\ DOMAIN r = {"n", "method", "uri", "chan", "sid", "auth"}
      /\ r.n = cseq + 1 /\ r.method = Requests(call.op)[call.at]
      /\ call.op = "setup" => /\ r.uri = BuildControlUrl(sdp[call.at].control)
                              /\ r.chan = RtpChannel(call.at)
  BY DEF RequestText
<1> HIDE DEF r
<1>3. q.n = r.n /\ q.method = r.method /\ q.uri = r.uri /\ q.chan = r.chan
      /\ q.auth = Credentials(auth', r.method, r.uri)
  BY <1>2
<1> HIDE DEF q
<1> QED BY <1>1, <1>2, <1>3 DEF Sent

LEMMA SendMoves ==
  ASSUME BaseInv, Send
  PROVE  /\ UNCHANGED <<connects, unread, wire, ready>> /\ cseq' = cseq + 1 /\ peer'.up = peer.up
         /\ peer'.nonce = peer.nonce /\ call'.pc \in {"scan", "failed"}
         /\ \A n : Asked(n)' => Asked(n) \/ n = cseq + 1
<1>1. /\ UNCHANGED <<connects, unread, wire, ready>> /\ cseq' = cseq + 1
      /\ call' = [call EXCEPT !.pc = "scan"] \/ call' = [call EXCEPT !.pc = "failed"]
  BY DEF Send, ioVars, bounds
<1>2. call'.pc \in {"scan", "failed"}
  BY <1>1 DEF BaseInv, ControlInv, CallShape
<1>3. DOMAIN peer = PeerFields /\ IsSequence(peer.asked)
  BY DEF BaseInv, QueuesInv
<1>4. CASE peer' = peer
  BY <1>1, <1>2, <1>4 DEF Asked
<1>5. ASSUME NEW q, Sent(q)
      PROVE  /\ peer'.up = peer.up /\ peer'.nonce = peer.nonce
             /\ \A n : Asked(n)' => Asked(n) \/ n = cseq + 1
  <2>1. /\ peer'.asked = Append(peer.asked, q) /\ peer'.up = peer.up
        /\ peer'.nonce = peer.nonce /\ q.n = cseq + 1
    BY <1>3, <1>5 DEF Sent, PeerFields
  <2> DEFINE s == peer.asked
             all == Append(s, q)
  <2>2. /\ Len(s) \in Nat /\ Len(all) = Len(s) + 1
        /\ \A i \in 1 .. Len(s) : all[i] = s[i]
        /\ all[Len(s) + 1] = q
    BY <1>3, AppendedSequence, SequenceLength
  <2>3. ASSUME NEW n, Asked(n)' PROVE Asked(n) \/ n = cseq + 1
    <3>1. peer'.asked = all
      BY <2>1
    <3> HIDE DEF all
    <3>2. PICK i \in 1 .. Len(all) : all[i].n = n
      BY <2>3, <3>1 DEF Asked
    <3>3. i \in 1 .. Len(s) \/ i = Len(s) + 1
      BY <2>2
    <3> QED BY <2>1, <2>2, <3>2, <3>3 DEF Asked
  <2> QED BY <2>1, <2>3
<1> QED BY <1>1, <1>2, <1>4, <1>5, SendSends

LEMMA SendCalls ==
  ASSUME BaseInv, AnswerInv, Send
  PROVE  /\ AskedIsCalled'
         /\ UNCHANGED <<session, sid, sdp, tracks, connects, unread, wire, ready>> /\ cseq' = cseq + 1
         /\ peer'.nonce = peer.nonce /\ peer'.nc = peer.nc /\ peer'.chans = peer.chans
         /\ peer'.up = peer.up /\ peer.asked = <<>>
         /\ call'.op = call.op /\ call'.at = call.at /\ call'.pc \in {"scan", "failed"}
<1>1. /\ UNCHANGED <<session, sid, sdp, tracks, connects, unread, wire, ready>>
      /\ cseq' = cseq + 1 /\ call.pc = "send"
      /\ call' = [call EXCEPT !.pc = "scan"] \/ call' = [call EXCEPT !.pc = "failed"]
  BY DEF Send, ioVars, media, bounds
<1>2. call'.op = call.op /\ call'.at = call.at /\ call'.pc \in {"scan", "failed"}
  BY <1>1 DEF BaseInv, ControlInv, CallShape
<1>3. peer.asked = <<>>
  BY <1>1 DEF AnswerInv, Quiet, Expecting
<1>4. DOMAIN peer = PeerFields
  BY DEF BaseInv, QueuesInv
<1>5. CASE peer' = peer
  <2>1. AskedIsCalled'
    BY <1>3, <1>5 DEF AskedIsCalled
  <2> QED BY <1>1, <1>2, <1>3, <1>5, <2>1
<1>6. ASSUME NEW q, Sent(q)
      PROVE  /\ AskedIsCalled'
             /\ peer'.nonce = peer.nonce /\ peer'.nc = peer.nc /\ peer'.chans = peer.chans
             /\ peer'.up = peer.up
  <2>1. peer' = [peer EXCEPT !.asked = Append(peer.asked, q)]
    BY <1>6 DEF Sent
  <2>2. /\ peer'.asked = Append(peer.asked, q)
        /\ peer'.nonce = peer.nonce /\ peer'.nc = peer.nc /\ peer'.chans = peer.chans
        /\ peer'.up = peer.up
    BY <1>4, <2>1 DEF PeerFields
  <2>3. peer'.asked = <<q>>
    BY <1>3, <2>2
  <2>4. peer'.asked[1] = q
    BY <2>3
  <2>5. q.auth = IF MakesHeader(auth') THEN Header(auth', User, cseq', q.method, q.uri)
                                       ELSE NoHeader
    BY <1>1, <1>6 DEF Sent, Credentials
  <2>6. q.method = Requests(call.op)'[call'.at]
    BY <1>1, <1>2, <1>6 DEF Sent, Requests
  <2>7. AskedIsCalled'
    BY <1>1, <1>2, <1>6, <2>4, <2>5, <2>6 DEF Sent, AskedIsCalled
  <2> QED BY <2>2, <2>7
<1> QED BY <1>1, <1>2, <1>3, <1>5, <1>6, SendSends

LEMMA AnsweredAsked ==
  ASSUME BaseInv, AnswerInv, ServerAnswers
  PROVE  peer'.asked = <<>> /\ peer.asked # <<>> /\ Head(peer.asked) = peer.asked[1]
<1>1. peer.asked # <<>>
  BY DEF ServerAnswers
<1>2. PICK a : peer'.asked = Tail(peer.asked)
  BY AnswerIs DEF BaseInv
<1>3. IsSequence(peer.asked) /\ Len(peer.asked) <= 1
  BY DEF BaseInv, QueuesInv, AnswerInv, OneUnderWay
<1> QED BY <1>1, <1>2, <1>3, OneRequestLeft

\* Every step is one of these.
LEMMA ClientSteps ==
  ASSUME [ClientNext]_clientVars
  PROVE  CallTurn \/ Send \/ Aside \/ ServerAnswers \/ UNCHANGED clientVars
BY DEF ClientNext, App, CallStep, Server, CallTurn, Aside

LEMMA CalledNext ==
  ASSUME BaseInv, AnswerInv, AnswerInv', AskedIsCalled, [ClientNext]_clientVars
  PROVE  AskedIsCalled'
<1>1. CASE CallTurn
  BY <1>1, CallTurnIs, QuietIsCalled
<1>2. CASE Send
  BY <1>2, SendCalls
<1>3. CASE Aside
  BY <1>3, AsideUnmoved, AsideAsked, UnmovedIsCalled
<1>4. CASE ServerAnswers
  BY <1>4, AnsweredAsked DEF AskedIsCalled
<1>5. CASE UNCHANGED clientVars
  BY <1>5, StutterUnmoved, AsideAsked, UnmovedIsCalled
<1> QED BY <1>1, <1>2, <1>3, <1>4, <1>5, ClientSteps

LEMMA ThereNext ==
  ASSUME BaseInv, ThisIsThere, [ClientNext]_clientVars
  PROVE  ThisIsThere'
<1>1. CASE Connect
  <2>1. connects < MaxConnects /\ connects' = connects + 1
    BY <1>1 DEF Connect
  <2>2. connects' \in 0 .. MaxConnects /\ connects' \in 1 .. MaxConnects
    BY <2>1, ClientAssumption DEF ThisIsThere
  <2> QED BY <2>2, ClientAssumption DEF ThisIsThere
<1>2. CASE CloseGoesOn
  <2>1. /\ UNCHANGED connects
        /\ peer' = [NewPeer EXCEPT !.up = FALSE, !.nonce = peer.nonce]
    BY <1>2 DEF CloseGoesOn, bounds
  <2>2. ~peer'.up
    BY <2>1 DEF NewPeer
  <2> QED BY <2>1, <2>2 DEF ThisIsThere
<1>3. CASE CallTurn /\ ~Connect /\ ~CloseGoesOn
  <2>1. UNCHANGED <<connects, peer>>
    BY <1>3 DEF CallTurn, SetCredentials, SetAuthProvider, Request, Teardown, Close, TeardownGoesOn,
                TakeAnswer, RetryWithAuth, OptionsDone, DescribeDone, SetupDone, PlayDone,
                PauseDone, TeardownDone, CallFails, bounds
  <2> QED BY <2>1 DEF ThisIsThere
<1>4. CASE Send
  BY <1>4, SendMoves DEF ThisIsThere
<1>5. CASE Aside \/ UNCHANGED clientVars
  BY <1>5, AsideUnmoved, StutterUnmoved DEF ThisIsThere, Unmoved
<1>6. CASE ServerAnswers
  <2>1. UNCHANGED connects
    BY <1>6 DEF ServerAnswers, bounds
  <2>2. peer'.up = peer.up
    BY <1>6, AnswerIs DEF BaseInv
  <2> QED BY <2>1, <2>2 DEF ThisIsThere
<1> QED BY <1>1, <1>2, <1>3, <1>4, <1>5, <1>6, ClientSteps

-----------------------------------------------------------------------------
(* RtspClient: an answer that is not the call's own is an overdue one, or   *)
(* one behind it.                                                          *)

LEMMA TurnWay ==
  ASSUME BaseInv, CallTurn, ~TakeAnswer
  PROVE  /\ OnTheirWay /\ (call'.pc = "answer" => call' = call)
         /\ peer' = peer \/ peer'.asked = <<>>
<1>1. CASE Connect
  <2>1. /\ call = NoCall /\ call' = call /\ UNCHANGED ready /\ wire' = <<>> /\ unread' = <<>>
        /\ \E ok \in BOOLEAN : peer' = [NewPeer EXCEPT !.up = ok, !.nonce = peer.nonce + 1]
    BY <1>1 DEF Connect
  <2>2. peer'.asked = <<>>
    BY <2>1 DEF NewPeer
  <2> QED BY <2>1, <2>2, WayCancelled
<1>2. CASE CloseGoesOn
  <2>1. /\ call' = NoCall /\ CancelReads /\ wire' = <<>> /\ unread' = <<>>
        /\ peer' = [NewPeer EXCEPT !.up = FALSE, !.nonce = peer.nonce]
    BY <1>2 DEF CloseGoesOn
  <2>2. peer'.asked = <<>>
    BY <2>1 DEF NewPeer
  <2> QED BY <2>1, <2>2, NoCallIs, WayCancelled
<1>3. CASE ~Connect /\ ~CloseGoesOn
  <2>1. UNCHANGED <<peer, wire, unread>>
    BY <1>3 DEF CallTurn, SetCredentials, SetAuthProvider, Request, Teardown, Close, TeardownGoesOn,
                RetryWithAuth, OptionsDone, DescribeDone, SetupDone, PlayDone, PauseDone,
                TeardownDone, CallFails, connVars, ioVars
  <2>2. UNCHANGED ready \/ CancelReads
    BY <1>3 DEF CallTurn, SetCredentials, SetAuthProvider, Request, Teardown, Close, TeardownGoesOn,
                RetryWithAuth, OptionsDone, DescribeDone, SetupDone, PlayDone, PauseDone,
                TeardownDone, CallFails, ioVars
  <2>3. OnTheirWay
    BY <2>1, <2>2, WayCancelled
  <2>4. \/ call' = call \/ call' = NoCall \/ NextRequest \/ call' = [call EXCEPT !.pc = "send"]
        \/ call' = [call EXCEPT !.pc = "send", !.retried = TRUE, !.answer = NoAnswer]
        \/ \E op, pc : pc \in {"send", "wait"} /\ call' = CallOf(op, pc)
    BY <1>3 DEF CallTurn, SetCredentials, SetAuthProvider, Request, Teardown, Close, TeardownGoesOn,
                RetryWithAuth, OptionsDone, DescribeDone, SetupDone, PlayDone, PauseDone,
                TeardownDone, CallFails, Returns
  <2>5. CASE NextRequest
    BY <2>1, <2>3, <2>5, NextRequestIs
  <2>6. CASE call' = [call EXCEPT !.pc = "send"]
             \/ call' = [call EXCEPT !.pc = "send", !.retried = TRUE, !.answer = NoAnswer]
    BY <2>1, <2>3, <2>6 DEF BaseInv, ControlInv, CallShape
  <2>7. CASE \E op, pc : pc \in {"send", "wait"} /\ call' = CallOf(op, pc)
    BY <2>1, <2>3, <2>7, CallMade
  <2> QED BY <2>1, <2>3, <2>4, <2>5, <2>6, <2>7, NoCallIs
<1> QED BY <1>1, <1>2, <1>3

LEMMA TurnCounts ==
  ASSUME CallTurn, ~CloseGoesOn
  PROVE  UNCHANGED cseq
BY DEF CallTurn, Connect, SetCredentials, SetAuthProvider, Request, Teardown, Close, TeardownGoesOn,
       TakeAnswer, RetryWithAuth, OptionsDone, DescribeDone, SetupDone, PlayDone, PauseDone,
       TeardownDone, CallFails

LEMMA TakenIs ==
  ASSUME BaseInv, TakeAnswer
  PROVE  /\ OnTheirWay /\ UNCHANGED <<peer, cseq>>
         /\ call'.pc = "answer" =>
              \E u : IsAnswer(u) /\ Carried(u) /\ call'.answer = ParseResponse(u)
<1>1. /\ UNCHANGED <<peer, cseq, wire, ready>>
      /\ unread' = Behind(unread, AnswerAt(unread)) /\ AnswerAt(unread) > 0
  BY DEF TakeAnswer, TakenUpTo, ioVars
<1>2. IsSequence(unread)
  BY DEF BaseInv, QueuesInv
<1>3. AnswerAt(unread) \in 1 .. Len(unread) /\ AnswerAt(unread) \in Nat
  BY <1>1, <1>2, AnswerAtIs, SequenceLength
<1>4. OnTheirWay
  BY <1>1, <1>3, WayTaken
<1>5. PICK u : u = unread[1]
  OBVIOUS
<1>6. \/ /\ AnswerAt(unread) = 1
         /\ call' = [call EXCEPT !.pc = "answer", !.answer = ParseResponse(u)]
      \/ call' = [call EXCEPT !.pc = "failed"]
  BY <1>5 DEF TakeAnswer
<1>7. call'.pc = "answer" => AnswerAt(unread) = 1 /\ call'.answer = ParseResponse(u)
  BY <1>6 DEF BaseInv, ControlInv, CallShape
<1>8. AnswerAt(unread) = 1 => IsAnswer(u) /\ Carried(u)
  <2>1. AnswerAt(unread) = 1 => IsAnswer(unread[1]) /\ 1 \in 1 .. Len(unread)
    BY <1>1, <1>2, <1>3, AnswerAtIs
  <2> QED BY <1>5, <2>1 DEF Carried, Holds
<1> QED BY <1>1, <1>4, <1>7, <1>8

\* From the request g on, which has been given up too early.
From(g) ==
  /\ g \in overdue /\ g \in Nat /\ g <= cseq
  /\ \A n : Asked(n) => n \in g .. cseq
  /\ \A u : IsAnswer(u) /\ Carried(u) => u.n \in g .. cseq
  /\ call.pc = "answer" => call.answer.cseq \in g .. cseq

LateInv == cseq \in Nat /\ (overdue # {} => \E g : From(g))

LEMMA FromStays ==
  ASSUME LateInv, NEW g, From(g), overdue \subseteq overdue', cseq' \in {cseq, cseq + 1},
         \A n : Asked(n)' => Asked(n) \/ n = cseq',
         \A u : IsAnswer(u) /\ Carried(u)' => Carried(u) \/ Asked(u.n),
         call'.pc = "answer" => \/ call' = call
                                \/ \E u : /\ IsAnswer(u) /\ Carried(u)
                                          /\ call'.answer = ParseResponse(u)
  PROVE  From(g)'
<1>1. g \in overdue' /\ g \in Nat /\ g <= cseq' /\ cseq \in Nat /\ cseq' \in Nat /\ cseq <= cseq'
  BY DEF LateInv, From
<1>2. \A n : n \in g .. cseq => n \in g .. cseq'
  BY <1>1
<1>3. \A n : Asked(n)' => n \in g .. cseq'
  BY <1>1, <1>2 DEF From
<1>4. \A u : IsAnswer(u) /\ Carried(u)' => u.n \in g .. cseq'
  BY <1>2 DEF From
<1>5. ASSUME call'.pc = "answer" PROVE call'.answer.cseq \in g .. cseq'
  <2>1. CASE call' = call
    BY <1>2, <1>5, <2>1 DEF From
  <2>2. ASSUME NEW u, IsAnswer(u), Carried(u), call'.answer = ParseResponse(u)
        PROVE  call'.answer.cseq \in g .. cseq'
    <3>1. call'.answer.cseq = u.n
      BY <2>2 DEF ParseResponse
    <3> QED BY <1>2, <2>2, <3>1 DEF From
  <2> QED BY <1>5, <2>1, <2>2
<1> QED BY <1>1, <1>3, <1>4, <1>5 DEF From

\* What a step may add to what is on its way.
LEMMA LateWay ==
  ASSUME BaseInv, [ClientNext]_clientVars, ~CloseGoesOn, cseq \in Nat
  PROVE  /\ cseq' \in {cseq, cseq + 1}
         /\ \A n : Asked(n)' => Asked(n) \/ n = cseq'
         /\ \A u : IsAnswer(u) /\ Carried(u)' => Carried(u) \/ Asked(u.n)
         /\ call'.pc = "answer" => \/ call' = call
                                   \/ \E u : /\ IsAnswer(u) /\ Carried(u)
                                             /\ call'.answer = ParseResponse(u)
<1>1. CASE TakeAnswer
  BY <1>1, TakenIs DEF Asked, OnTheirWay
<1>2. CASE CallTurn /\ ~TakeAnswer
  <2>1. UNCHANGED cseq
    BY <1>2, TurnCounts
  <2>2. \A n : Asked(n)' => Asked(n)
    BY <1>2, TurnWay, EmptySequence DEF Asked
  <2> QED BY <1>2, <2>1, <2>2, TurnWay DEF OnTheirWay
<1>3. CASE Send
  BY <1>3, SendMoves DEF Carried
<1>4. CASE Aside \/ UNCHANGED clientVars
  BY <1>4, AsideUnmoved, StutterUnmoved DEF Unmoved, OnTheirWay
<1>5. CASE ServerAnswers
  <2>1. UNCHANGED <<cseq, call, unread, ready>> /\ peer.asked # <<>>
    BY <1>5 DEF ServerAnswers, connVars
  <2>2. PICK a : /\ a.n = Head(peer.asked).n /\ wire' = Append(wire, a)
                 /\ peer'.asked = Tail(peer.asked)
    BY <1>5, AnswerIs DEF BaseInv
  <2>3. \A n : Asked(n)' => Asked(n)
    BY <2>1, <2>2, AskedBehind
  <2>4. Asked(a.n)
    <3>1. IsSequence(peer.asked)
      BY DEF BaseInv, QueuesInv
    <3>2. 1 \in 1 .. Len(peer.asked) /\ Head(peer.asked) = peer.asked[1]
      BY <2>1, <3>1, TailOfSequence, SequenceLength
    <3> QED BY <2>2, <3>2 DEF Asked
  <2>5. \A u : IsAnswer(u) /\ Carried(u)' => Carried(u) \/ Asked(u.n)
    BY <2>1, <2>2, <2>4, WayOfAnswer
  <2> QED BY <2>1, <2>3, <2>5
<1> QED BY <1>1, <1>2, <1>3, <1>4, <1>5, ClientSteps

\* The first request that is given up too early has its answer alone on its way.
LEMMA FirstOverdue ==
  ASSUME BaseInv, AnswerInv, LateInv, GiveUp, AnswerToCome
  PROVE  From(cseq)'
<1>1. /\ cseq \in overdue' /\ UNCHANGED cseq /\ cseq \in Nat
      /\ call' = [call EXCEPT !.pc = "failed"]
  BY DEF GiveUp, LateInv
<1>2. call'.pc # "answer"
  BY <1>1 DEF BaseInv, ControlInv, CallShape
<1>3. OneUnderWay /\ IsSequence(peer.asked)
  BY DEF AnswerInv, BaseInv, QueuesInv
<1>4. \A n : Asked(n)' => n = cseq
  <2>1. UNCHANGED peer
    BY DEF GiveUp
  <2>2. ASSUME NEW n, Asked(n) PROVE n = cseq
    <3>1. PICK i \in 1 .. Len(peer.asked) : peer.asked[i].n = n
      BY <2>2 DEF Asked
    <3>2. Len(peer.asked) \in Nat /\ Len(peer.asked) <= 1 /\ peer.asked # <<>>
      BY <1>3, <3>1, SequenceLength, SequenceEmpty DEF OneUnderWay
    <3>3. i = 1
      BY <3>1, <3>2
    <3> QED BY <1>3, <3>1, <3>2, <3>3 DEF OneUnderWay
  <2> QED BY <2>1, <2>2 DEF Asked
<1>5. \A u : IsAnswer(u) /\ Carried(u) => u.n = cseq
  BY <1>3 DEF OneUnderWay, OneFilled, OneOf, Carried, Filled, Holds
<1>6. \A u : IsAnswer(u) /\ Carried(u)' => u.n = cseq
  <2>1. OnTheirWay
    BY WayOfGiveUp
  <2> QED BY <1>5, <2>1 DEF OnTheirWay
<1>7. cseq \in cseq .. cseq
  BY <1>1
<1> QED BY <1>1, <1>2, <1>4, <1>6, <1>7 DEF From

LEMMA LateNext ==
  ASSUME BaseInv, NoneOverdue, LateInv, [ClientNext]_clientVars
  PROVE  LateInv'
<1>1. CASE CloseGoesOn
  BY <1>1 DEF CloseGoesOn, LateInv
<1>2. CASE ~CloseGoesOn
  <2>1. cseq \in Nat /\ cseq' \in Nat
    BY <1>2, LateWay DEF LateInv
  <2>2. overdue \subseteq overdue'
    BY <1>2, OverdueStays
  <2>3. ASSUME NEW g, From(g) PROVE From(g)'
    BY <1>2, <2>1, <2>2, <2>3, LateWay, FromStays
  <2>4. ASSUME overdue = {}, overdue' # {} PROVE GiveUp /\ AnswerToCome
    BY <1>2, <2>4, OverdueStays
  <2>5. CASE overdue = {}
    BY <2>1, <2>4, <2>5, FirstOverdue DEF NoneOverdue, LateInv
  <2>6. CASE overdue # {}
    <3>1. PICK g : From(g)
      BY <2>6 DEF LateInv
    <3>2. From(g)'
      BY <2>3, <3>1
    <3> QED BY <2>1, <3>2 DEF LateInv
  <2> QED BY <2>5, <2>6
<1> QED BY <1>1, <1>2

\* A call is given the answer to its own request; or, once one of the connection
\* has been given up too early, the answer to that or to one behind it.
THEOREM ClientOwnAnswer ==
  ASSUME PlaysOnce
  PROVE  ClientSpec => []OwnAnswer
<1> DEFINE I == BaseInv /\ NoneOverdue /\ LateInv
<1>1. ClientInit => I
  <2> SUFFICES ASSUME ClientInit PROVE I
    OBVIOUS
  <2>1. BaseInv /\ NoneOverdue
    BY ControlInit, QueuesInit, AnswerInit DEF BaseInv, NoneOverdue
  <2>2. LateInv
    BY DEF ClientInit, LateInv
  <2> QED BY <2>1, <2>2
<1>2. I /\ [ClientNext]_clientVars => I'
  BY BaseNext, NoneOverdueNext, LateNext
<1>3. I => OwnAnswer
  <2> SUFFICES ASSUME I, call.pc = "answer"
               PROVE  \/ call.answer.cseq = cseq
                      \/ call.answer.cseq < cseq /\ \E n \in overdue : n <= call.answer.cseq
    BY DEF OwnAnswer
  <2>1. CASE overdue = {}
    BY <2>1 DEF NoneOverdue, AnswerInv, OwnNow
  <2>2. CASE overdue # {}
    <3>1. PICK g : g \in overdue /\ g \in Nat /\ cseq \in Nat /\ call.answer.cseq \in g .. cseq
      BY <2>2 DEF LateInv, From
    <3>2. g <= call.answer.cseq /\ (call.answer.cseq = cseq \/ call.answer.cseq < cseq)
      BY <3>1
    <3> QED BY <3>1, <3>2
  <2> QED BY <2>1, <2>2
<1> QED BY <1>1, <1>2, <1>3, PTL DEF ClientSpec

-----------------------------------------------------------------------------
(* RtspClient: credentials are refused for a nonce that is no more.        *)

LEMMA GreatestPlace ==
  ASSUME NEW n \in Nat, NEW at, at \subseteq 1 .. n, at # {}
  PROVE  (CHOOSE i \in at : \A j \in at : j <= i) \in at
<1> DEFINE back == {n - i : i \in at}
<1>1. back \subseteq Nat /\ back # {}
  <2>1. \A i \in at : i \in Nat /\ i <= n
    OBVIOUS
  <2>2. \A i \in at : n - i \in Nat
    BY <2>1
  <2>3. back \subseteq Nat
    BY <2>2
  <2>4. back # {}
    OBVIOUS
  <2> QED BY <2>3, <2>4
<1>2. PICK b \in back : \A c \in back : b <= c
  <2> HIDE DEF back
  <2> QED BY <1>1, LeastNumber
<1>3. PICK i \in at : b = n - i
  BY <1>2
<1>4. \A j \in at : n - i <= n - j
  BY <1>2, <1>3
<1>5. \A j \in at : j <= i
  BY <1>4
<1>6. \E k \in at : \A j \in at : j <= k
  BY <1>5
<1> QED BY <1>6

\* Of a parameter added behind the others the value is that one's; the rest are
\* what they were.
LEMMA ValueBehind ==
  ASSUME NEW s, IsSequence(s), NEW x, NEW key, NEW default
  PROVE  ValueOf(Append(s, x), key, default)
           = IF x.key = key THEN x.value ELSE ValueOf(s, key, default)
<1> DEFINE all == Append(s, x)
<1>1. /\ Len(s) \in Nat /\ Len(all) = Len(s) + 1
      /\ \A i \in 1 .. Len(s) : all[i] = s[i]
      /\ all[Len(s) + 1] = x
      /\ DOMAIN s = 1 .. Len(s)
  BY AppendedSequence, SequenceLength
<1>2. DOMAIN all = 1 .. Len(s) + 1
  BY <1>1, AppendedSequence, SequenceLength
<1> HIDE DEF all
<1> DEFINE there == {i \in DOMAIN all : all[i].key = key}
           before == {i \in DOMAIN s : s[i].key = key}
<1>3. ValueOf(all, key, default)
        = IF there = {} THEN default
          ELSE all[CHOOSE i \in there : \A j \in there : j <= i].value
  BY DEF ValueOf
<1>4. ValueOf(s, key, default)
        = IF before = {} THEN default
          ELSE s[CHOOSE i \in before : \A j \in before : j <= i].value
  BY DEF ValueOf
<1>5. \A i \in 1 .. Len(s) + 1 : i \in 1 .. Len(s) \/ i = Len(s) + 1
  BY <1>1
<1>6. CASE x.key = key
  <2>1. Len(s) + 1 \in there /\ \A j \in there : j <= Len(s) + 1
    BY <1>1, <1>2, <1>6
  <2>2. there \subseteq 1 .. Len(s) + 1 /\ Len(s) + 1 \in Nat
    BY <1>1, <1>2
  <2> HIDE DEF there
  <2>3. PICK k \in there : /\ k = (CHOOSE i \in there : \A j \in there : j <= i)
                           /\ \A j \in there : j <= k
    BY <2>1
  <2>4. k = Len(s) + 1
    BY <1>1, <2>1, <2>2, <2>3
  <2>5. there # {}
    BY <2>1
  <2> QED BY <1>1, <1>3, <1>6, <2>3, <2>4, <2>5 DEF all
<1>7. CASE x.key # key
  <2>1. there = before
    BY <1>1, <1>2, <1>5, <1>7
  <2>2. before \subseteq 1 .. Len(s)
    BY <1>1
  <2> HIDE DEF there, before
  <2>3. CASE before = {}
    BY <1>3, <1>4, <1>7, <2>1, <2>3 DEF all
  <2>4. CASE before # {}
    <3> DEFINE k == CHOOSE i \in before : \A j \in before : j <= i
    <3>1. k \in before
      BY <1>1, <2>2, <2>4, GreatestPlace
    <3>2. k \in 1 .. Len(s)
      BY <2>2, <3>1
    <3>3. ValueOf(all, key, default) = all[k].value /\ ValueOf(s, key, default) = s[k].value
      BY <1>3, <1>4, <2>1, <2>4
    <3> HIDE DEF k
    <3>4. all[k] = s[k]
      BY <1>1, <3>2
    <3> QED BY <1>7, <3>3, <3>4 DEF all
  <2> QED BY <2>3, <2>4
<1> QED BY <1>6, <1>7

LEMMA NoSuchParameter ==
  ASSUME NEW s, NEW key, NEW default, \A i \in DOMAIN s : s[i].key # key
  PROVE  ValueOf(s, key, default) = default
BY DEF ValueOf

\* What a client reads out of a 401 of this server.
MeantWith(nonce) == [This.wants EXCEPT !.nonce = nonce]

Challenging(c, nonce) ==
  /\ c.nonce = IF c.scheme = "digest" THEN nonce ELSE 0
  /\ c.scheme = "digest" /\ This.wants.scheme = "digest" => c = MeantWith(nonce)

LEMMA ThisIs ==
  ASSUME connects \in DOMAIN Servers
  PROVE  /\ DOMAIN This.wants = {"scheme", "realm", "nonce", "algorithm", "qop"}
         /\ IsSequence(This.asks) /\ IsSequence(This.tracks) /\ This.tracks # <<>>
         /\ \A i \in 1 .. Len(This.asks) : /\ DOMAIN This.asks[i] = {"scheme", "params"}
                                           /\ IsSequence(This.asks[i].params)
<1> DEFINE s == Servers[connects]
<1>1. /\ s.tracks \in Seq(Range(s.tracks)) \ {<<>>} /\ DOMAIN s.wants = DOMAIN NoChallenge
      /\ s.asks \in Seq(Range(s.asks))
      /\ \A ask \in Range(s.asks) : /\ DOMAIN ask = {"scheme", "params"}
                                    /\ ask.params \in Seq(Range(ask.params))
  BY ClientAssumption
<1>2. This = s
  BY DEF This
<1> HIDE DEF s
<1>3. IsSequence(s.asks) /\ IsSequence(s.tracks)
  BY <1>1 DEF IsSequence
<1>4. DOMAIN s.asks = 1 .. Len(s.asks)
  BY <1>3, SequenceLength
<1>5. \A i \in 1 .. Len(s.asks) : s.asks[i] \in Range(s.asks)
  BY <1>4 DEF Range
<1>6. \A i \in 1 .. Len(s.asks) : /\ DOMAIN s.asks[i] = {"scheme", "params"}
                                  /\ IsSequence(s.asks[i].params)
  BY <1>1, <1>5 DEF IsSequence
<1>7. DOMAIN s.wants = {"scheme", "realm", "nonce", "algorithm", "qop"}
  BY <1>1 DEF NoChallenge
<1> QED BY <1>1, <1>2, <1>3, <1>6, <1>7

LEMMA ChallengeIs ==
  ASSUME AsksAsMeant, connects \in DOMAIN Servers, NEW r, NEW nonce, NEW garbled
  PROVE  Challenging(ParsedChallenge(ParseResponse(AnswerTo(r, 401, nonce, garbled)).ask), nonce)
<1> DEFINE a == AnswerTo(r, 401, nonce, garbled)
           asks == This.asks
           k == asks[Len(asks)]
           ask == ParseResponse(a).ask
<1>1. /\ IsSequence(asks) /\ Len(asks) \in Nat /\ DOMAIN asks = 1 .. Len(asks)
      /\ (asks = <<>> <=> Len(asks) = 0)
  BY ThisIs, SequenceLength, SequenceEmpty
<1>2. a.asks = AsksWith(nonce)
  BY DEF AnswerTo, Answer
<1>3. ask = IF AsksWith(nonce) = <<>> THEN NoAsk ELSE Last(AsksWith(nonce))
  BY <1>2 DEF ParseResponse
<1> HIDE DEF a, ask
<1>4. CASE asks = <<>>
  <2>1. AsksWith(nonce) = <<>>
    BY <1>1, <1>4 DEF AsksWith
  <2>2. ask = [scheme |-> "", params |-> <<>>]
    BY <1>3, <2>1 DEF NoAsk
  <2>3. ParsedChallenge(ask).scheme = "" /\ ParsedChallenge(ask).nonce = ValueOf(<<>>, "nonce", 0)
    BY <2>2 DEF ParsedChallenge
  <2>4. ValueOf(<<>>, "nonce", 0) = 0
    BY EmptySequence, SequenceLength, NoSuchParameter
  <2> QED BY <2>3, <2>4 DEF Challenging, ask, a
<1>5. CASE asks # <<>>
  <2>1. /\ Len(asks) \in 1 .. Len(asks) /\ Len(AsksWith(nonce)) = Len(asks)
        /\ AsksWith(nonce) # <<>>
    <3>1. DOMAIN AsksWith(nonce) = 1 .. Len(asks)
      BY <1>1 DEF AsksWith
    <3>2. IsSequence(AsksWith(nonce))
      <4> DEFINE f == AsksWith(nonce)
                 T == {f[i] : i \in 1 .. Len(asks)}
      <4>1. f = [i \in 1 .. Len(asks) |-> f[i]]
        BY <1>1 DEF AsksWith
      <4> HIDE DEF f
      <4>2. f \in Seq(T)
        BY <1>1, <4>1
      <4> QED BY <4>2 DEF IsSequence, f
    <3>3. Len(AsksWith(nonce)) \in Nat /\ DOMAIN AsksWith(nonce) = 1 .. Len(AsksWith(nonce))
      BY <3>2, SequenceLength
    <3>4. Len(AsksWith(nonce)) = Len(asks)
      BY <1>1, <3>1, <3>3
    <3> QED BY <1>1, <1>5, <3>2, <3>4, SequenceEmpty
  <2>2. Last(AsksWith(nonce)) = AsksWith(nonce)[Len(asks)]
    BY <2>1 DEF Last
  <2>3. ask = IF k.scheme = "digest"
              THEN [k EXCEPT !.params = Append(k.params, Parameter("nonce", nonce))] ELSE k
    BY <1>1, <1>3, <2>1, <2>2 DEF AsksWith
  <2>4. DOMAIN k = {"scheme", "params"} /\ IsSequence(k.params)
    BY <2>1, ThisIs
  <2>5. \A i \in DOMAIN k.params : k.params[i].key # "nonce"
    <3>1. \A h \in Range(asks) : \A i \in DOMAIN h.params : h.params[i].key # "nonce"
      BY DEF AsksAsMeant, This
    <3>2. k \in Range(asks)
      BY <1>1, <2>1 DEF Range
    <3> QED BY <3>1, <3>2
  <2>6. This.wants.scheme = "digest" /\ k.scheme = "digest" => ParsedChallenge(k) = MeantWith(0)
    <3>1. Last(asks) = k
      BY DEF Last
    <3> QED BY <1>5, <3>1 DEF AsksAsMeant, This, MeantWith
  <2>7. DOMAIN This.wants = {"scheme", "realm", "nonce", "algorithm", "qop"}
    BY ThisIs
  <2> HIDE DEF k
  <2>8. CASE k.scheme # "digest"
    <3>1. ParsedChallenge(ask).scheme = k.scheme
          /\ ParsedChallenge(ask).nonce = ValueOf(k.params, "nonce", 0)
      BY <2>3, <2>8 DEF ParsedChallenge
    <3>2. ValueOf(k.params, "nonce", 0) = 0
      BY <2>5, NoSuchParameter
    <3> QED BY <2>8, <3>1, <3>2 DEF Challenging, ask, a
  <2>9. CASE k.scheme = "digest"
    <3> DEFINE x == Parameter("nonce", nonce)
               with == Append(k.params, x)
               c == ParsedChallenge(ask)
    <3>1. x.key = "nonce" /\ x.value = nonce
      BY DEF Parameter
    <3> HIDE DEF x
    <3>2. ask.scheme = "digest" /\ ask.params = with
      BY <2>3, <2>4, <2>9 DEF x
    <3>3. \A d : ValueOf(with, "nonce", d) = nonce
      BY <2>4, <3>1, ValueBehind
    <3>4. \A key, d : key # "nonce" => ValueOf(with, key, d) = ValueOf(k.params, key, d)
      BY <2>4, <3>1, ValueBehind
    <3> HIDE DEF with
    <3>5. c = [scheme |-> "digest", realm |-> ValueOf(k.params, "realm", ""), nonce |-> nonce,
               algorithm |-> ValueOf(k.params, "algorithm", ""),
               qop |-> ValueOf(k.params, "qop", "")]
      BY <3>2, <3>3, <3>4 DEF ParsedChallenge
    <3> HIDE DEF c
    <3>6. c.nonce = nonce /\ c.scheme = "digest"
      BY <3>5
    <3>7. ASSUME This.wants.scheme = "digest" PROVE c = MeantWith(nonce)
      <4> DEFINE w == This.wants
      <4>1. ParsedChallenge(k) = [w EXCEPT !.nonce = 0]
        BY <2>6, <2>9, <3>7 DEF MeantWith
      <4>2. /\ w.scheme = "digest" /\ w.realm = ValueOf(k.params, "realm", "")
            /\ w.algorithm = ValueOf(k.params, "algorithm", "")
            /\ w.qop = ValueOf(k.params, "qop", "")
        BY <2>7, <2>9, <4>1 DEF ParsedChallenge
      <4> HIDE DEF w
      <4>3. DOMAIN w = {"scheme", "realm", "nonce", "algorithm", "qop"}
        BY <2>7 DEF w
      <4>4. [w EXCEPT !.nonce = nonce]
              = [scheme |-> w.scheme, realm |-> w.realm, nonce |-> nonce,
                 algorithm |-> w.algorithm, qop |-> w.qop]
        BY <4>3
      <4> QED BY <3>5, <4>2, <4>4 DEF MeantWith, w
    <3> QED BY <3>6, <3>7 DEF Challenging, c, ask, a
  <2> QED BY <2>8, <2>9
<1> QED BY <1>4, <1>5

\* Nonces only grow, from one connection to the next and within each.
CountsFit ==
  /\ peer.nonce \in Nat /\ peer.nc \in Nat /\ (connects = 0 => peer.nc = 0)
  /\ DOMAIN auth = {"scheme", "challenge", "count"} /\ auth.count \in Nat
  /\ auth.scheme \in {"none", "basic", "digest"}
  /\ auth.challenge.nonce \in 0 .. peer.nonce
  /\ auth.scheme # "digest" => auth.challenge = NoChallenge

\* Of a nonce that holds the provider knows all that goes with it, and has
\* counted as far as the server, or further.
NonceIsKnown ==
  /\ auth.challenge.nonce # 0 /\ auth.challenge.nonce = peer.nonce
  /\ This.wants.scheme = "digest"
  => /\ auth.challenge = MeantWith(peer.nonce)
     /\ peer.nc <= auth.count /\ (peer.asked # <<>> => peer.nc < auth.count)

\* A nonce that was used is the one of the provider.
UsedIsKnown ==
  peer.nc # 0 /\ This.wants.scheme = "digest" =>
    auth.scheme = "digest" /\ auth.challenge.nonce = peer.nonce /\ peer.nonce # 0

\* A 401 on its way or taken brings the challenge of the moment, and was no
\* answer to right credentials.
Refusal(c) ==
  /\ Challenging(c, peer.nonce)
  /\ This.wants.scheme = "digest" => peer.nc = 0
  /\ MakesHeader(auth) /\ auth.scheme = This.wants.scheme => c.nonce # auth.challenge.nonce

RefusalsTrue ==
  /\ \A u : IsAnswer(u) /\ Carried(u) /\ u.status = 401 =>
              Refusal(ParsedChallenge(ParseResponse(u).ask))
  /\ call.pc = "answer" /\ call.answer.status = 401 =>
       Refusal(ParsedChallenge(call.answer.ask))

CredentialsInv == CountsFit /\ NonceIsKnown /\ UsedIsKnown /\ RefusalsTrue

LEMMA CredentialsInit == ASSUME ClientInit PROVE CredentialsInv
<1>1. /\ peer = [NewPeer EXCEPT !.up = FALSE] /\ auth = NoProvider /\ call = NoCall
      /\ unread = <<>> /\ wire = <<>> /\ ready = <<>>
  BY DEF ClientInit
<1>2. peer.nonce = 0 /\ peer.nc = 0 /\ peer.asked = <<>>
  BY <1>1 DEF NewPeer
<1>3. /\ DOMAIN auth = {"scheme", "challenge", "count"} /\ auth.count = 0
      /\ auth.scheme = "none" /\ auth.challenge = NoChallenge /\ NoChallenge.nonce = 0
  BY <1>1 DEF NoProvider, NoChallenge
<1>4. \A u : ~Carried(u)
  BY <1>1, NothingHeld, EmptySequence DEF Carried, Filled
<1>5. call.pc # "answer"
  BY <1>1, NoCallIs
<1>6. CountsFit
  BY <1>2, <1>3 DEF CountsFit
<1>7. NonceIsKnown /\ UsedIsKnown
  BY <1>2, <1>3 DEF NonceIsKnown, UsedIsKnown
<1>8. RefusalsTrue
  BY <1>4, <1>5 DEF RefusalsTrue
<1> QED BY <1>6, <1>7, <1>8 DEF CredentialsInv

LEMMA RefusalStays ==
  ASSUME UNCHANGED <<auth, connects>>, peer'.nonce = peer.nonce, peer'.nc = peer.nc,
         NEW c, Refusal(c)
  PROVE  Refusal(c)'
BY DEF Refusal, Challenging, MeantWith, This

LEMMA CredentialsStay ==
  ASSUME CredentialsInv, UNCHANGED <<auth, connects>>, peer'.nonce = peer.nonce, peer'.nc = peer.nc,
         peer'.asked \in {peer.asked, <<>>}, OnTheirWay,
         call'.pc = "answer" => call' = call
  PROVE  CredentialsInv'
<1>1. CountsFit' /\ NonceIsKnown' /\ UsedIsKnown'
  BY DEF CredentialsInv, CountsFit, NonceIsKnown, UsedIsKnown, MeantWith, This
<1>2. ASSUME NEW u, IsAnswer(u), Carried(u)', u.status = 401
      PROVE  Refusal(ParsedChallenge(ParseResponse(u).ask))'
  <2> DEFINE c == ParsedChallenge(ParseResponse(u).ask)
  <2>1. Refusal(c)
    BY <1>2 DEF CredentialsInv, RefusalsTrue, OnTheirWay
  <2> HIDE DEF c
  <2>2. Refusal(c)'
    BY <2>1, RefusalStays
  <2> QED BY <2>2 DEF c
<1>3. ASSUME call'.pc = "answer", call'.answer.status = 401
      PROVE  Refusal(ParsedChallenge(call.answer.ask))'
  <2>1. call' = call
    BY <1>3
  <2>2. PICK c : c = ParsedChallenge(call.answer.ask)
    OBVIOUS
  <2>3. Refusal(c)
    BY <1>3, <2>1, <2>2 DEF CredentialsInv, RefusalsTrue
  <2>4. Refusal(c)'
    BY <2>3, RefusalStays
  <2>5. c = ParsedChallenge(call'.answer.ask)
    BY <2>1, <2>2
  <2> QED BY <2>4, <2>5 DEF Refusal
<1>4. RefusalsTrue'
  BY <1>2, <1>3 DEF RefusalsTrue
<1> QED BY <1>1, <1>4 DEF CredentialsInv

\* Where nothing is under way there is no refusal either.
LEMMA QuietRefuses ==
  ASSUME Quiet', call'.pc # "answer"
  PROVE  RefusalsTrue'
<1>1. ASSUME NEW u, IsAnswer(u) PROVE ~Carried(u)'
  BY <1>1 DEF Quiet, Carried, Holds, Filled, NoneIn, AllFree
<1> QED BY <1>1 DEF RefusalsTrue

LEMMA CallsKeep ==
  ASSUME BaseInv, CredentialsInv,
         \/ SetCredentials \/ (\E op \in {"describe", "setup", "play", "pause"} : Request(op))
         \/ Teardown \/ Close \/ TeardownGoesOn \/ OptionsDone \/ DescribeDone \/ SetupDone
         \/ PlayDone \/ PauseDone \/ TeardownDone \/ CallFails
  PROVE  CredentialsInv'
<1>1. UNCHANGED <<auth, connects, peer, wire, unread>>
  BY DEF SetCredentials, Request, Teardown, Close, TeardownGoesOn, OptionsDone, DescribeDone,
         SetupDone, PlayDone, PauseDone, TeardownDone, CallFails, memberVars, connVars, ioVars,
         bounds
<1>2. UNCHANGED ready \/ CancelReads
  BY DEF SetCredentials, Request, Teardown, Close, TeardownGoesOn, OptionsDone, DescribeDone,
         SetupDone, PlayDone, PauseDone, TeardownDone, CallFails, ioVars
<1>3. OnTheirWay
  BY <1>1, <1>2, WayCancelled
<1>4. \/ call' = call \/ call' = NoCall \/ NextRequest \/ call' = [call EXCEPT !.pc = "send"]
      \/ \E op, pc : pc \in {"send", "wait"} /\ call' = CallOf(op, pc)
  BY DEF SetCredentials, Request, Teardown, Close, TeardownGoesOn, OptionsDone, DescribeDone,
         SetupDone, PlayDone, PauseDone, TeardownDone, CallFails, Returns
<1>5. call'.pc = "answer" => call' = call
  <2>1. CASE call' = call
    BY <2>1
  <2>2. CASE call' = NoCall
    BY <2>2, NoCallIs
  <2>3. CASE NextRequest
    BY <2>3, NextRequestIs
  <2>4. CASE call' = [call EXCEPT !.pc = "send"]
    BY <2>4 DEF BaseInv, ControlInv, CallShape
  <2>5. CASE \E op, pc : pc \in {"send", "wait"} /\ call' = CallOf(op, pc)
    BY <2>5, CallMade
  <2> QED BY <1>4, <2>1, <2>2, <2>3, <2>4, <2>5
<1> QED BY <1>1, <1>3, <1>5, CredentialsStay

LEMMA TakeKeeps == ASSUME BaseInv, CredentialsInv, TakeAnswer PROVE CredentialsInv'
<1>1. /\ UNCHANGED <<auth, connects, peer, wire, ready>>
      /\ unread' = Behind(unread, AnswerAt(unread)) /\ AnswerAt(unread) > 0
  BY DEF TakeAnswer, TakenUpTo, memberVars, ioVars, bounds
<1>2. IsSequence(unread)
  BY DEF BaseInv, QueuesInv
<1>3. AnswerAt(unread) \in 1 .. Len(unread) /\ AnswerAt(unread) \in Nat
  BY <1>1, <1>2, AnswerAtIs, SequenceLength
<1>4. OnTheirWay
  BY <1>1, <1>3, WayTaken
<1>5. CASE AnswerAt(unread) = 1
  <2>1. call' = [call EXCEPT !.pc = "answer", !.answer = ParseResponse(unread[1])]
    BY <1>5 DEF TakeAnswer
  <2>2. PICK u : u = unread[1]
    OBVIOUS
  <2>3. call'.answer = ParseResponse(u)
    BY <2>1, <2>2 DEF BaseInv, ControlInv, CallShape
  <2>4. IsAnswer(u) /\ Carried(u)
    <3>1. IsAnswer(unread[1]) /\ 1 \in 1 .. Len(unread)
      BY <1>1, <1>2, <1>3, <1>5, AnswerAtIs
    <3> QED BY <2>2, <3>1 DEF Carried, Holds
  <2>5. u.status = call'.answer.status
    BY <2>3 DEF ParseResponse
  <2>6. CountsFit' /\ NonceIsKnown' /\ UsedIsKnown'
    BY <1>1 DEF CredentialsInv, CountsFit, NonceIsKnown, UsedIsKnown, MeantWith, This
  <2>7. ASSUME NEW v, IsAnswer(v), Carried(v), v.status = 401
        PROVE  Refusal(ParsedChallenge(ParseResponse(v).ask))'
    <3> DEFINE c == ParsedChallenge(ParseResponse(v).ask)
    <3>1. Refusal(c)
      BY <2>7 DEF CredentialsInv, RefusalsTrue
    <3> HIDE DEF c
    <3>2. Refusal(c)'
      BY <1>1, <3>1, RefusalStays
    <3> QED BY <3>2 DEF c
  <2>8. RefusalsTrue'
    <3>1. call'.answer.status = 401 => Refusal(ParsedChallenge(ParseResponse(u).ask))'
      BY <2>4, <2>5, <2>7
    <3>2. call'.answer.status = 401 => Refusal(ParsedChallenge(call.answer.ask))'
      BY <2>3, <3>1 DEF Refusal
    <3> QED BY <1>4, <2>7, <3>2 DEF RefusalsTrue, OnTheirWay
  <2> QED BY <2>6, <2>8 DEF CredentialsInv
<1>6. CASE AnswerAt(unread) # 1
  <2>1. call' = [call EXCEPT !.pc = "failed"]
    BY <1>6 DEF TakeAnswer
  <2>2. call'.pc # "answer"
    BY <2>1 DEF BaseInv, ControlInv, CallShape
  <2> QED BY <1>1, <1>4, <2>2, CredentialsStay
<1> QED BY <1>5, <1>6

LEMMA ConnectKeeps ==
  ASSUME BaseInv, AnswerInv', CredentialsInv, Connect
  PROVE  CredentialsInv'
<1>1. UNCHANGED auth /\ call = NoCall /\ call' = call
  BY DEF Connect
<1>2. RefusalsTrue'
  BY <1>1, NoCallIs, QuietRefuses DEF AnswerInv, Expecting
<1>3. PICK ok \in BOOLEAN : peer' = [NewPeer EXCEPT !.up = ok, !.nonce = peer.nonce + 1]
  BY DEF Connect
<1>4. peer'.nc = 0 /\ peer'.asked = <<>> /\ peer'.nonce = peer.nonce + 1
  BY <1>3 DEF NewPeer
<1>5. CountsFit' /\ UsedIsKnown'
  BY <1>1, <1>4 DEF CredentialsInv, CountsFit, UsedIsKnown
<1>6. NonceIsKnown'
  BY <1>1, <1>4 DEF CredentialsInv, CountsFit, NonceIsKnown
<1> QED BY <1>2, <1>5, <1>6 DEF CredentialsInv

LEMMA ProviderKeeps ==
  ASSUME BaseInv, AnswerInv', CredentialsInv, SetAuthProvider
  PROVE  CredentialsInv'
<1>1. /\ auth' = [NoProvider EXCEPT !.scheme = "basic"] /\ connects = 0
      /\ UNCHANGED <<connects, peer>> /\ call' = NoCall
  BY DEF SetAuthProvider, bounds
<1>2. /\ DOMAIN auth' = {"scheme", "challenge", "count"} /\ auth'.count = 0
      /\ auth'.scheme = "basic" /\ auth'.challenge = NoChallenge /\ NoChallenge.nonce = 0
  BY <1>1 DEF NoProvider, NoChallenge
<1>3. RefusalsTrue'
  BY <1>1, NoCallIs, QuietRefuses DEF AnswerInv, Expecting
<1>4. CountsFit' /\ UsedIsKnown' /\ NonceIsKnown'
  BY <1>1, <1>2 DEF CredentialsInv, CountsFit, UsedIsKnown, NonceIsKnown
<1> QED BY <1>3, <1>4 DEF CredentialsInv

LEMMA ProviderIs ==
  ASSUME NEW c
  PROVE  LET p == ProviderFor(c) IN
         /\ DOMAIN p = {"scheme", "challenge", "count"} /\ p.count = 0
         /\ IF c.scheme = "digest"
            THEN /\ p.scheme = "digest"
                 /\ p.challenge = IF c.nonce # 0 THEN c ELSE NoChallenge
            ELSE p.scheme = "basic" /\ p.challenge = NoChallenge
BY DEF ProviderFor, ProcessChallenge, NoProvider

LEMMA RetryKeeps ==
  ASSUME BaseInv, AnswerInv', CredentialsInv, RetryWithAuth
  PROVE  CredentialsInv'
<1>1. /\ auth' = ProviderFor(ParsedChallenge(call.answer.ask))
      /\ UNCHANGED <<connects, peer>> /\ call.pc = "answer" /\ call.answer.status = 401
      /\ call' = [call EXCEPT !.pc = "send", !.retried = TRUE, !.answer = NoAnswer]
  BY DEF RetryWithAuth, MayRetry, bounds
<1>2. PICK c : c = ParsedChallenge(call.answer.ask) /\ Refusal(c)
  BY <1>1 DEF CredentialsInv, RefusalsTrue
<1>3. /\ DOMAIN auth' = {"scheme", "challenge", "count"} /\ auth'.count = 0
      /\ IF c.scheme = "digest"
         THEN auth'.scheme = "digest" /\ auth'.challenge = IF c.nonce # 0 THEN c ELSE NoChallenge
         ELSE auth'.scheme = "basic" /\ auth'.challenge = NoChallenge
  BY <1>1, <1>2, ProviderIs
<1>4. call'.pc = "send"
  BY <1>1 DEF BaseInv, ControlInv, CallShape
<1>5. Quiet' /\ RefusalsTrue'
  BY <1>4, QuietRefuses DEF AnswerInv, Expecting
<1>6. NoChallenge.nonce = 0
  BY DEF NoChallenge
<1>7. /\ c.nonce = IF c.scheme = "digest" THEN peer.nonce ELSE 0
      /\ c.scheme = "digest" /\ This.wants.scheme = "digest" => c = MeantWith(peer.nonce)
      /\ This.wants.scheme = "digest" => peer.nc = 0
  BY <1>2 DEF Refusal, Challenging
<1>8. CountsFit'
  BY <1>1, <1>3, <1>6, <1>7 DEF CredentialsInv, CountsFit
<1>9. This' = This /\ MeantWith(peer.nonce)' = MeantWith(peer.nonce)
  BY <1>1 DEF This, MeantWith
<1>10. UsedIsKnown'
  BY <1>1, <1>7, <1>9 DEF UsedIsKnown
<1>11. NonceIsKnown'
  <2> SUFFICES ASSUME auth'.challenge.nonce # 0, This.wants.scheme = "digest"
               PROVE  /\ auth'.challenge = MeantWith(peer.nonce)
                      /\ peer'.nc <= auth'.count /\ peer'.asked = <<>>
    BY <1>9 DEF NonceIsKnown
  <2>1. auth'.challenge = c /\ c.scheme = "digest"
    BY <1>3, <1>6
  <2> QED BY <1>1, <1>3, <1>5, <1>7, <2>1 DEF Quiet
<1> QED BY <1>5, <1>8, <1>10, <1>11 DEF CredentialsInv

LEMMA SendKeeps ==
  ASSUME BaseInv, AnswerInv, CredentialsInv, Send
  PROVE  CredentialsInv'
<1>1. /\ UNCHANGED <<connects, unread, wire, ready>>
      /\ peer'.nonce = peer.nonce /\ peer'.nc = peer.nc /\ peer.asked = <<>>
      /\ call'.pc \in {"scan", "failed"} /\ auth' = Counted(auth) /\ call.pc = "send"
  BY SendCalls DEF Send
<1>2. DOMAIN auth = {"scheme", "challenge", "count"} /\ auth.count \in Nat
  BY DEF CredentialsInv, CountsFit
<1>3. /\ DOMAIN auth' = {"scheme", "challenge", "count"}
      /\ auth'.scheme = auth.scheme /\ auth'.challenge = auth.challenge
      /\ auth'.count = IF auth.scheme = "digest" /\ MakesHeader(auth) THEN auth.count + 1
                                                                      ELSE auth.count
  BY <1>1, <1>2 DEF Counted, CountRaised
<1>4. CountsFit' /\ UsedIsKnown'
  BY <1>1, <1>2, <1>3 DEF CredentialsInv, CountsFit, UsedIsKnown, This
<1>5. NonceIsKnown'
  <2>0. This' = This /\ MeantWith(peer.nonce)' = MeantWith(peer.nonce)
    BY <1>1 DEF This, MeantWith
  <2> SUFFICES ASSUME auth.challenge.nonce # 0, auth.challenge.nonce = peer.nonce,
                      This.wants.scheme = "digest"
               PROVE  /\ auth.challenge = MeantWith(peer.nonce)
                      /\ peer.nc <= auth'.count /\ peer.nc < auth'.count
    BY <1>1, <1>3, <2>0 DEF NonceIsKnown
  <2>1. auth.scheme = "digest"
    <3>1. NoChallenge.nonce = 0
      BY DEF NoChallenge
    <3>2. auth.scheme # "digest" => auth.challenge = NoChallenge
      BY DEF CredentialsInv, CountsFit
    <3> QED BY <3>1, <3>2
  <2>2. MakesHeader(auth)
    BY <2>1 DEF MakesHeader
  <2>3. auth.challenge = MeantWith(peer.nonce) /\ peer.nc <= auth.count
    BY DEF CredentialsInv, NonceIsKnown
  <2>4. auth'.count = auth.count + 1 /\ peer.nc \in Nat
    BY <1>3, <2>1, <2>2 DEF CredentialsInv, CountsFit
  <2> QED BY <1>2, <2>3, <2>4
<1>6. \A u : IsAnswer(u) => ~Carried(u)'
  <2>1. Quiet
    BY <1>1 DEF AnswerInv, Expecting
  <2>2. \A u : Carried(u)' <=> Carried(u)
    BY <1>1 DEF Carried
  <2> QED BY <2>1, <2>2, QuietCarries
<1>7. RefusalsTrue'
  BY <1>1, <1>6 DEF RefusalsTrue
<1> QED BY <1>4, <1>5, <1>7 DEF CredentialsInv

\* The credentials of the request under way.
LEMMA RequestAuth ==
  ASSUME AskedIsCalled, peer.asked # <<>>, NEW r, r = peer.asked[1]
  PROVE  /\ ~MakesHeader(auth) => r.auth = NoHeader
         /\ MakesHeader(auth) /\ auth.scheme = "basic" =>
              r.auth = [NoHeader EXCEPT !.scheme = "basic", !.response = <<User>>]
         /\ MakesHeader(auth) /\ auth.scheme # "basic" =>
              r.auth = [scheme |-> "digest", nonce |-> auth.challenge.nonce, nc |-> auth.count,
                        cnonce |-> cseq,
                        response |-> Response(auth.challenge, User, auth.count, cseq,
                                              r.method, r.uri)]
BY DEF AskedIsCalled, Header

\* A server refuses no credentials that are right.
LEMMA RightIsAccepted ==
  ASSUME AskedIsCalled, CredentialsInv, connects \in DOMAIN Servers,
         peer.asked # <<>>, NEW r, r = peer.asked[1], NEW p, Renewed(p),
         MakesHeader(auth), auth.scheme = This.wants.scheme,
         auth.scheme = "digest" => auth.challenge.nonce = p.nonce
  PROVE  Accepts(p, r)
<1> DEFINE w == MeantWith(p.nonce)
<1>1. w.scheme = This.wants.scheme /\ w.nonce = p.nonce
  BY ThisIs DEF MeantWith
<1>2. w = [This.wants EXCEPT !.nonce = p.nonce]
  BY DEF MeantWith
<1>3. CASE auth.scheme = "basic"
  <2>1. r.auth = [NoHeader EXCEPT !.scheme = "basic", !.response = <<User>>]
    BY <1>3, RequestAuth
  <2>2. r.auth.scheme = "basic" /\ r.auth.response = <<User>>
    BY <2>1 DEF NoHeader
  <2> HIDE DEF w
  <2> QED BY <1>1, <1>2, <1>3, <2>2 DEF Accepts
<1>4. CASE auth.scheme = "digest"
  <2>1. auth.challenge.nonce # 0 /\ auth.challenge.nonce = p.nonce
    BY <1>4 DEF MakesHeader
  <2>2. p.nonce = peer.nonce /\ p.nc = peer.nc
    BY <2>1 DEF Renewed, CredentialsInv, CountsFit
  <2>3. auth.challenge = w /\ peer.nc < auth.count
    BY <1>4, <2>1, <2>2 DEF CredentialsInv, NonceIsKnown
  <2>4. peer.nc \in Nat /\ auth.count \in Nat
    BY DEF CredentialsInv, CountsFit
  <2>5. r.auth = [scheme |-> "digest", nonce |-> auth.challenge.nonce, nc |-> auth.count,
                  cnonce |-> cseq,
                  response |-> Response(auth.challenge, User, auth.count, cseq, r.method, r.uri)]
    BY <1>4, RequestAuth
  <2> HIDE DEF w
  <2>6. /\ r.auth.scheme = "digest" /\ r.auth.nonce = w.nonce /\ r.auth.nc = auth.count
        /\ r.auth.response = Response(w, User, r.auth.nc, r.auth.cnonce, r.method, r.uri)
    BY <2>3, <2>5
  <2>7. r.auth.nc > p.nc
    BY <2>2, <2>3, <2>4, <2>6
  <2> QED BY <1>1, <1>2, <1>4, <2>6, <2>7 DEF Accepts
<1>5. auth.scheme = "basic" \/ auth.scheme = "digest"
  BY DEF MakesHeader
<1> QED BY <1>3, <1>4, <1>5

LEMMA ServerKeeps ==
  ASSUME AsksAsMeant, BaseInv, AnswerInv, AskedIsCalled, ThisIsThere, CredentialsInv, ServerAnswers
  PROVE  CredentialsInv'
<1>1. /\ UNCHANGED <<auth, connects, call, unread, ready>> /\ peer.up
  BY DEF ServerAnswers, memberVars, connVars, bounds
<1>2. PICK p, status, garbled : Answered(p, status, garbled)
  BY AnsweredIs
<1>3. peer'.asked = <<>> /\ peer.asked # <<>> /\ Head(peer.asked) = peer.asked[1]
  BY AnsweredAsked
<1>4. connects \in DOMAIN Servers /\ connects # 0
  BY <1>1, ClientAssumption DEF ThisIsThere
<1>5. PICK r : r = peer.asked[1]
  OBVIOUS
<1>6. PICK a : a = AnswerTo(r, status, p.nonce, garbled)
  OBVIOUS
<1>7. /\ Renewed(p) /\ (status = 500 \/ status = StatusOf(p, r))
      /\ wire' = Append(wire, a) /\ peer'.nonce = p.nonce
      /\ peer'.nc = IF Accepts(p, r) THEN r.auth.nc ELSE p.nc
  BY <1>2, <1>3, <1>5, <1>6 DEF Answered
<1>8. MakesHeader(auth) /\ auth.scheme = This.wants.scheme
      /\ (auth.scheme = "digest" => auth.challenge.nonce = p.nonce) => Accepts(p, r)
  BY <1>3, <1>4, <1>5, <1>7, RightIsAccepted
<1>9. /\ ~MakesHeader(auth) => r.auth = NoHeader
      /\ MakesHeader(auth) /\ auth.scheme = "basic" =>
           r.auth = [NoHeader EXCEPT !.scheme = "basic", !.response = <<User>>]
      /\ MakesHeader(auth) /\ auth.scheme # "basic" =>
           r.auth = [scheme |-> "digest", nonce |-> auth.challenge.nonce, nc |-> auth.count,
                     cnonce |-> cseq,
                     response |-> Response(auth.challenge, User, auth.count, cseq,
                                           r.method, r.uri)]
  BY <1>3, <1>5, RequestAuth
<1>10. /\ r.auth.nc = IF MakesHeader(auth) /\ auth.scheme # "basic" THEN auth.count ELSE 0
       /\ r.auth.scheme = "digest" => /\ MakesHeader(auth) /\ auth.scheme = "digest"
                                      /\ r.auth.nonce = auth.challenge.nonce
                                      /\ auth.challenge.nonce # 0
  <2>1. CASE ~MakesHeader(auth)
    BY <1>9, <2>1 DEF NoHeader
  <2>2. CASE MakesHeader(auth) /\ auth.scheme = "basic"
    <3>1. r.auth = [NoHeader EXCEPT !.scheme = "basic", !.response = <<User>>]
      BY <1>9, <2>2
    <3>2. r.auth.nc = 0 /\ r.auth.scheme = "basic"
      BY <3>1 DEF NoHeader
    <3> QED BY <2>2, <3>2
  <2>3. CASE MakesHeader(auth) /\ auth.scheme # "basic"
    <3>1. r.auth.nc = auth.count /\ r.auth.nonce = auth.challenge.nonce
      BY <1>9, <2>3
    <3> QED BY <2>3, <3>1 DEF MakesHeader
  <2> QED BY <2>1, <2>2, <2>3
<1>11. /\ peer.nonce \in Nat /\ peer.nc \in Nat
       /\ DOMAIN auth = {"scheme", "challenge", "count"} /\ auth.count \in Nat
       /\ auth.scheme \in {"none", "basic", "digest"}
       /\ auth.challenge.nonce \in 0 .. peer.nonce
       /\ auth.scheme # "digest" => auth.challenge = NoChallenge
  BY DEF CredentialsInv, CountsFit
<1>12. p.nonce \in Nat /\ p.nonce >= peer.nonce /\ p.nc \in Nat
       /\ (p.nonce = peer.nonce => p.nc = peer.nc)
       /\ (p.nonce # peer.nonce => p.nc = 0)
  BY <1>7, <1>11 DEF Renewed
<1>13. This' = This /\ \A n : MeantWith(n)' = MeantWith(n)
  BY <1>1 DEF This, MeantWith
<1>14. Accepts(p, r) /\ This.wants.scheme = "digest" =>
         r.auth.scheme = "digest" /\ r.auth.nonce = p.nonce
  <2> DEFINE w == [This.wants EXCEPT !.nonce = p.nonce]
  <2>1. w.scheme = This.wants.scheme /\ w.nonce = p.nonce
    BY <1>4, ThisIs
  <2> HIDE DEF w
  <2> QED BY <2>1 DEF Accepts, w
<1>15. CountsFit'
  BY <1>1, <1>4, <1>7, <1>10, <1>11, <1>12 DEF CountsFit
<1>16. UsedIsKnown'
  <2> SUFFICES ASSUME peer'.nc # 0, This.wants.scheme = "digest"
               PROVE  auth.scheme = "digest" /\ auth.challenge.nonce = p.nonce /\ p.nonce # 0
    BY <1>1, <1>7, <1>13 DEF UsedIsKnown
  <2>1. CASE Accepts(p, r)
    BY <1>10, <1>14, <2>1
  <2>2. CASE ~Accepts(p, r)
    BY <1>7, <1>12, <2>2 DEF CredentialsInv, UsedIsKnown
  <2> QED BY <2>1, <2>2
<1>17. NonceIsKnown'
  <2> SUFFICES ASSUME auth.challenge.nonce # 0, auth.challenge.nonce = p.nonce,
                      This.wants.scheme = "digest"
               PROVE  auth.challenge = MeantWith(p.nonce) /\ peer'.nc <= auth.count
    BY <1>1, <1>3, <1>7, <1>13 DEF NonceIsKnown
  <2>1. p.nonce = peer.nonce /\ p.nc = peer.nc
    BY <1>11, <1>12
  <2>2. auth.challenge = MeantWith(peer.nonce) /\ peer.nc <= auth.count
    BY <2>1 DEF CredentialsInv, NonceIsKnown
  <2>3. r.auth.nc = auth.count \/ r.auth.nc = 0
    BY <1>10
  <2> QED BY <1>7, <1>11, <2>1, <2>2, <2>3
<1>18. ASSUME NEW u, IsAnswer(u), Carried(u)' PROVE u = a
  <2>1. NoneIn(wire) /\ AllFree(ready) /\ NoneIn(unread)
    BY <1>3 DEF AnswerInv, OneUnderWay
  <2>2. ~Carried(u)
    BY <1>18, <2>1 DEF Carried, Holds, Filled, NoneIn, AllFree
  <2> QED BY <1>1, <1>7, <1>18, <2>2, WayOfAnswer
<1>19. call'.pc # "answer"
  BY <1>1, <1>3 DEF AnswerInv, Quiet, Expecting
<1>20. ASSUME a.status = 401 PROVE Refusal(ParsedChallenge(ParseResponse(a).ask))'
  <2>1. a.status = status
    BY <1>6 DEF AnswerTo, Answer
  <2>2. ~Accepts(p, r)
    BY <1>7, <1>20, <2>1 DEF StatusOf
  <2>3. PICK c : c = ParsedChallenge(ParseResponse(a).ask)
    OBVIOUS
  <2>4. Challenging(c, p.nonce)
    BY <1>4, <1>6, <1>20, <2>1, <2>3, ChallengeIs
  <2>5. Challenging(c, p.nonce)'
    BY <1>13, <2>4 DEF Challenging
  <2>6. ~(MakesHeader(auth) /\ auth.scheme = This.wants.scheme
          /\ (auth.scheme = "digest" => auth.challenge.nonce = p.nonce))
    BY <1>8, <2>2
  <2>7. This.wants.scheme = "digest" => peer'.nc = 0
    <3> SUFFICES ASSUME This.wants.scheme = "digest", p.nc # 0 PROVE FALSE
      BY <1>7, <2>2
    <3>1. p.nonce = peer.nonce /\ peer.nc # 0
      BY <1>12
    <3>2. auth.scheme = "digest" /\ auth.challenge.nonce = peer.nonce /\ peer.nonce # 0
      BY <3>1 DEF CredentialsInv, UsedIsKnown
    <3> QED BY <2>6, <3>1, <3>2 DEF MakesHeader
  <2>8. MakesHeader(auth) /\ auth.scheme = This.wants.scheme => c.nonce # auth.challenge.nonce
    BY <2>4, <2>6 DEF Challenging, MakesHeader
  <2>9. Refusal(c)'
    BY <1>1, <1>7, <1>13, <2>4, <2>7, <2>8 DEF Refusal, Challenging
  <2> QED BY <2>3, <2>9 DEF Refusal
<1>21. RefusalsTrue'
  BY <1>18, <1>19, <1>20 DEF RefusalsTrue
<1> QED BY <1>15, <1>16, <1>17, <1>21 DEF CredentialsInv

LEMMA CredentialsNext ==
  ASSUME AsksAsMeant, BaseInv, AnswerInv, AnswerInv', AskedIsCalled, ThisIsThere, CredentialsInv,
         [ClientNext]_clientVars, ~CloseGoesOn
  PROVE  CredentialsInv'
<1>1. CASE CallTurn
  BY <1>1, ConnectKeeps, ProviderKeeps, RetryKeeps, CallsKeep, TakeKeeps DEF CallTurn
<1>2. CASE Send
  BY <1>2, SendKeeps
<1>3. CASE Aside \/ UNCHANGED clientVars
  <2>1. Unmoved /\ peer'.asked \in {peer.asked, <<>>}
    BY <1>3, AsideUnmoved, StutterUnmoved, AsideAsked
  <2> QED BY <2>1, CredentialsStay DEF Unmoved
<1>4. CASE ServerAnswers
  BY <1>4, ServerKeeps
<1> QED BY <1>1, <1>2, <1>3, <1>4, ClientSteps

\* What holds even while an overdue answer is taken for a later one: a challenge
\* is one that this server has made, if it is for the nonce of the moment.
ProviderFits ==
  /\ peer.nonce \in Nat /\ DOMAIN auth = {"scheme", "challenge", "count"} /\ auth.count \in Nat
  /\ auth.scheme \in {"none", "basic", "digest"}
  /\ auth.challenge.nonce \in 0 .. peer.nonce
  /\ auth.scheme # "digest" => auth.challenge = NoChallenge
  /\ auth.challenge.nonce # 0 /\ auth.challenge.nonce = peer.nonce /\ This.wants.scheme = "digest"
       => auth.challenge = MeantWith(peer.nonce)

Offer(c) ==
  /\ c.nonce \in 0 .. peer.nonce /\ (c.scheme # "digest" => c.nonce = 0)
  /\ c.scheme = "digest" /\ This.wants.scheme = "digest" => c = MeantWith(c.nonce)

OffersTrue ==
  /\ \A u : IsAnswer(u) /\ Carried(u) /\ u.status = 401 =>
              Offer(ParsedChallenge(ParseResponse(u).ask))
  /\ call.pc = "answer" /\ call.answer.status = 401 => Offer(ParsedChallenge(call.answer.ask))

ChallengesInv == ProviderFits /\ OffersTrue

LEMMA ChallengesInit == ASSUME ClientInit PROVE ChallengesInv
<1>1. CredentialsInv
  BY CredentialsInit
<1>2. ProviderFits
  BY <1>1 DEF CredentialsInv, CountsFit, NonceIsKnown, ProviderFits
<1>3. unread = <<>> /\ wire = <<>> /\ ready = <<>> /\ call = NoCall
  BY DEF ClientInit
<1>4. \A u : ~Carried(u)
  BY <1>3, NothingHeld, EmptySequence DEF Carried, Filled
<1>5. OffersTrue
  BY <1>3, <1>4, NoCallIs DEF OffersTrue
<1> QED BY <1>2, <1>5 DEF ChallengesInv

LEMMA OfferStays ==
  ASSUME UNCHANGED connects, peer.nonce \in Nat, peer'.nonce \in {peer.nonce, peer.nonce + 1},
         NEW c, Offer(c)
  PROVE  Offer(c)'
<1>1. This' = This /\ \A n : MeantWith(n)' = MeantWith(n)
  BY DEF This, MeantWith
<1>2. c.nonce \in 0 .. peer'.nonce
  BY DEF Offer
<1> QED BY <1>1, <1>2 DEF Offer

LEMMA OffersStay ==
  ASSUME ChallengesInv, UNCHANGED connects, peer'.nonce \in {peer.nonce, peer.nonce + 1},
         \A u : IsAnswer(u) /\ Carried(u)' =>
           Carried(u) \/ (u.status = 401 => Offer(ParsedChallenge(ParseResponse(u).ask))'),
         call'.pc = "answer" => \/ call' = call
                                \/ \E u : /\ IsAnswer(u) /\ Carried(u)
                                          /\ call'.answer = ParseResponse(u)
  PROVE  OffersTrue'
<1>0. peer.nonce \in Nat
  BY DEF ChallengesInv, ProviderFits
<1>1. ASSUME NEW u, IsAnswer(u), Carried(u), u.status = 401
      PROVE  Offer(ParsedChallenge(ParseResponse(u).ask))'
  <2> DEFINE c == ParsedChallenge(ParseResponse(u).ask)
  <2>1. Offer(c)
    BY <1>1 DEF ChallengesInv, OffersTrue
  <2> HIDE DEF c
  <2>2. Offer(c)'
    BY <1>0, <2>1, OfferStays
  <2> QED BY <2>2 DEF c
<1>2. ASSUME call'.pc = "answer", call'.answer.status = 401
      PROVE  Offer(ParsedChallenge(call.answer.ask))'
  <2>1. CASE call' = call
    <3>1. PICK c : c = ParsedChallenge(call.answer.ask)
      OBVIOUS
    <3>2. Offer(c)
      BY <1>2, <2>1, <3>1 DEF ChallengesInv, OffersTrue
    <3>3. Offer(c)'
      BY <1>0, <3>2, OfferStays
    <3>4. c = ParsedChallenge(call'.answer.ask)
      BY <2>1, <3>1
    <3> QED BY <3>3, <3>4 DEF Offer
  <2>2. ASSUME NEW u, IsAnswer(u), Carried(u), call'.answer = ParseResponse(u)
        PROVE  Offer(ParsedChallenge(call.answer.ask))'
    <3>1. u.status = 401
      BY <1>2, <2>2 DEF ParseResponse
    <3>2. PICK c : c = ParsedChallenge(ParseResponse(u).ask)
      OBVIOUS
    <3>3. Offer(c)'
      BY <1>1, <2>2, <3>1, <3>2 DEF Offer
    <3>4. c = ParsedChallenge(call'.answer.ask)
      BY <2>2, <3>2
    <3> QED BY <3>3, <3>4 DEF Offer
  <2> QED BY <1>2, <2>1, <2>2
<1> QED BY <1>1, <1>2 DEF OffersTrue

LEMMA ChallengesStay ==
  ASSUME ChallengesInv, UNCHANGED <<auth, connects>>, peer'.nonce = peer.nonce, OnTheirWay,
         call'.pc = "answer" => \/ call' = call
                                \/ \E u : /\ IsAnswer(u) /\ Carried(u)
                                          /\ call'.answer = ParseResponse(u)
  PROVE  ChallengesInv'
<1>1. ProviderFits'
  BY DEF ChallengesInv, ProviderFits, MeantWith, This
<1>2. OffersTrue'
  BY OffersStay DEF OnTheirWay
<1> QED BY <1>1, <1>2 DEF ChallengesInv

LEMMA ConnectChallenges == ASSUME BaseInv, ChallengesInv, Connect PROVE ChallengesInv'
<1>1. /\ unread' = <<>> /\ wire' = <<>> /\ UNCHANGED <<auth, ready, call>>
      /\ call = NoCall /\ session = kDisconnected
  BY DEF Connect
<1>2. call.pc = "none"
  BY <1>1, NoCallIs
<1>3. ~active
  BY <1>1 DEF BaseInv, ControlInv, OneLoop, kDisconnected, kPlaying, kPaused
<1>4. ready' = <<>>
  BY <1>1, <1>2, <1>3, NobodyReads DEF BaseInv
<1>5. \A u : ~Carried(u)'
  BY <1>1, <1>4, NothingHeld, EmptySequence DEF Carried, Filled
<1>6. OffersTrue'
  BY <1>1, <1>2, <1>5 DEF OffersTrue
<1>7. PICK ok \in BOOLEAN : peer' = [NewPeer EXCEPT !.up = ok, !.nonce = peer.nonce + 1]
  BY DEF Connect
<1>8. peer'.nonce = peer.nonce + 1
  BY <1>7 DEF NewPeer
<1>9. ProviderFits'
  BY <1>1, <1>8 DEF ChallengesInv, ProviderFits
<1> QED BY <1>6, <1>9 DEF ChallengesInv

LEMMA RetryChallenges == ASSUME BaseInv, ChallengesInv, RetryWithAuth PROVE ChallengesInv'
<1>1. /\ auth' = ProviderFor(ParsedChallenge(call.answer.ask))
      /\ UNCHANGED <<connects, peer>> /\ call.pc = "answer" /\ call.answer.status = 401
      /\ call' = [call EXCEPT !.pc = "send", !.retried = TRUE, !.answer = NoAnswer]
      /\ CallTurn
  BY DEF RetryWithAuth, MayRetry, bounds, CallTurn
<1>2. PICK c : c = ParsedChallenge(call.answer.ask) /\ Offer(c)
  BY <1>1 DEF ChallengesInv, OffersTrue
<1>3. /\ DOMAIN auth' = {"scheme", "challenge", "count"} /\ auth'.count = 0
      /\ IF c.scheme = "digest"
         THEN auth'.scheme = "digest" /\ auth'.challenge = IF c.nonce # 0 THEN c ELSE NoChallenge
         ELSE auth'.scheme = "basic" /\ auth'.challenge = NoChallenge
  BY <1>1, <1>2, ProviderIs
<1>4. call'.pc = "send"
  BY <1>1 DEF BaseInv, ControlInv, CallShape
<1>5. NoChallenge.nonce = 0
  BY DEF NoChallenge
<1>6. This' = This /\ MeantWith(peer.nonce)' = MeantWith(peer.nonce)
  BY <1>1 DEF This, MeantWith
<1>7. auth'.challenge.nonce \in 0 .. peer.nonce /\ peer.nonce \in Nat
  BY <1>2, <1>3, <1>5 DEF Offer, ChallengesInv, ProviderFits
<1>8. ASSUME auth'.challenge.nonce # 0, auth'.challenge.nonce = peer.nonce, This.wants.scheme = "digest"
      PROVE  auth'.challenge = MeantWith(peer.nonce)
  <2>1. auth'.challenge = c /\ c.scheme = "digest"
    BY <1>3, <1>5, <1>8
  <2> QED BY <1>2, <1>8, <2>1 DEF Offer
<1>9. ProviderFits'
  BY <1>1, <1>3, <1>6, <1>7, <1>8 DEF ProviderFits
<1>10. OnTheirWay
  <2>1. ~TakeAnswer
    BY <1>1 DEF TakeAnswer
  <2> QED BY <1>1, <2>1, TurnWay
<1>11. OffersTrue'
  BY <1>1, <1>4, <1>10, OffersStay DEF OnTheirWay
<1> QED BY <1>9, <1>11 DEF ChallengesInv

LEMMA SendChallenges == ASSUME BaseInv, ChallengesInv, Send PROVE ChallengesInv'
<1>1. /\ UNCHANGED <<connects, unread, wire, ready>> /\ peer'.nonce = peer.nonce
      /\ call'.pc # "answer" /\ auth' = Counted(auth)
  BY SendMoves DEF Send
<1>2. DOMAIN auth = {"scheme", "challenge", "count"} /\ auth.count \in Nat
  BY DEF ChallengesInv, ProviderFits
<1>3. /\ DOMAIN auth' = {"scheme", "challenge", "count"}
      /\ auth'.scheme = auth.scheme /\ auth'.challenge = auth.challenge
      /\ auth'.count \in {auth.count, auth.count + 1}
  BY <1>1, <1>2 DEF Counted, CountRaised
<1>4. This' = This /\ MeantWith(peer.nonce)' = MeantWith(peer.nonce)
  BY <1>1 DEF This, MeantWith
<1>5. ProviderFits'
  BY <1>1, <1>2, <1>3, <1>4 DEF ChallengesInv, ProviderFits
<1>6. \A u : Carried(u)' => Carried(u)
  BY <1>1 DEF Carried
<1>7. OffersTrue'
  BY <1>1, <1>6, OffersStay
<1> QED BY <1>5, <1>7 DEF ChallengesInv

LEMMA ServerChallenges ==
  ASSUME AsksAsMeant, BaseInv, ThisIsThere, ChallengesInv, ServerAnswers
  PROVE  ChallengesInv'
<1>1. /\ UNCHANGED <<auth, connects, call, unread, ready>> /\ peer.up
  BY DEF ServerAnswers, memberVars, connVars, bounds
<1>2. PICK p, status, garbled : Answered(p, status, garbled)
  BY AnsweredIs
<1>3. connects \in DOMAIN Servers
  BY <1>1 DEF ThisIsThere
<1>4. PICK r : r = Head(peer.asked)
  OBVIOUS
<1>5. PICK a : a = AnswerTo(r, status, p.nonce, garbled)
  OBVIOUS
<1>6. Renewed(p) /\ wire' = Append(wire, a) /\ peer'.nonce = p.nonce
  BY <1>2, <1>4, <1>5 DEF Answered
<1>7. peer.nonce \in Nat /\ peer'.nonce \in {peer.nonce, peer.nonce + 1}
  BY <1>6 DEF Renewed, ChallengesInv, ProviderFits
<1>8. This' = This /\ \A n : MeantWith(n)' = MeantWith(n)
  BY <1>1 DEF This, MeantWith
<1>9. ProviderFits'
  BY <1>1, <1>7, <1>8 DEF ChallengesInv, ProviderFits
<1>10. ASSUME a.status = 401 PROVE Offer(ParsedChallenge(ParseResponse(a).ask))'
  <2>1. a.status = status
    BY <1>5 DEF AnswerTo, Answer
  <2>2. PICK c : c = ParsedChallenge(ParseResponse(a).ask)
    OBVIOUS
  <2>3. Challenging(c, p.nonce)
    BY <1>3, <1>5, <1>10, <2>1, <2>2, ChallengeIs
  <2>4. Offer(c)'
    BY <1>6, <1>7, <1>8, <2>3 DEF Challenging, Offer
  <2> QED BY <2>2, <2>4 DEF Offer
<1>11. \A u : IsAnswer(u) /\ Carried(u)' =>
         Carried(u) \/ (u.status = 401 => Offer(ParsedChallenge(ParseResponse(u).ask))')
  <2>1. ASSUME NEW u, IsAnswer(u), Carried(u)' PROVE Carried(u) \/ u = a
    BY <1>1, <1>6, <2>1, WayOfAnswer
  <2> QED BY <1>10, <2>1
<1>12. OffersTrue'
  BY <1>1, <1>7, <1>11, OffersStay
<1> QED BY <1>9, <1>12 DEF ChallengesInv

LEMMA ChallengesNext ==
  ASSUME AsksAsMeant, BaseInv, ThisIsThere, ChallengesInv, [ClientNext]_clientVars
  PROVE  ChallengesInv'
<1>1. CASE Connect
  BY <1>1, ConnectChallenges
<1>2. CASE SetAuthProvider
  <2>1. /\ auth' = [NoProvider EXCEPT !.scheme = "basic"]
        /\ UNCHANGED <<connects, peer, wire, ready, unread, call>>
    BY <1>2 DEF SetAuthProvider, bounds, connVars, ioVars
  <2>2. /\ DOMAIN auth' = {"scheme", "challenge", "count"} /\ auth'.count = 0
        /\ auth'.scheme = "basic" /\ auth'.challenge = NoChallenge /\ NoChallenge.nonce = 0
    BY <2>1 DEF NoProvider, NoChallenge
  <2>3. ProviderFits'
    BY <2>1, <2>2 DEF ChallengesInv, ProviderFits
  <2>4. \A u : Carried(u)' => Carried(u)
    BY <2>1 DEF Carried
  <2>5. OffersTrue'
    BY <2>1, <2>4, OffersStay
  <2> QED BY <2>3, <2>5 DEF ChallengesInv
<1>3. CASE RetryWithAuth
  BY <1>3, RetryChallenges
<1>4. CASE TakeAnswer
  <2>1. UNCHANGED <<auth, connects>>
    BY <1>4 DEF TakeAnswer, memberVars, bounds
  <2> QED BY <1>4, <2>1, TakenIs, ChallengesStay
<1>5. CASE CallTurn /\ ~Connect /\ ~SetAuthProvider /\ ~RetryWithAuth /\ ~TakeAnswer
  <2>1. UNCHANGED <<auth, connects>>
    BY <1>5 DEF CallTurn, SetCredentials, Request, Teardown, Close, TeardownGoesOn, CloseGoesOn,
                OptionsDone, DescribeDone, SetupDone, PlayDone, PauseDone, TeardownDone,
                CallFails, memberVars, bounds
  <2>2. peer'.nonce = peer.nonce
    <3>1. CASE CloseGoesOn
      <4>1. peer' = [NewPeer EXCEPT !.up = FALSE, !.nonce = peer.nonce]
        BY <3>1 DEF CloseGoesOn
      <4> QED BY <4>1 DEF NewPeer
    <3>2. CASE ~CloseGoesOn
      BY <1>5, <3>2 DEF CallTurn, SetCredentials, Request, Teardown, Close, TeardownGoesOn,
                        OptionsDone, DescribeDone, SetupDone, PlayDone, PauseDone, TeardownDone,
                        CallFails
    <3> QED BY <3>1, <3>2
  <2> QED BY <1>5, <2>1, <2>2, TurnWay, ChallengesStay
<1>6. CASE Send
  BY <1>6, SendChallenges
<1>7. CASE Aside \/ UNCHANGED clientVars
  BY <1>7, AsideUnmoved, StutterUnmoved, ChallengesStay DEF Unmoved
<1>8. CASE ServerAnswers
  BY <1>8, ServerChallenges
<1> QED BY <1>1, <1>2, <1>3, <1>4, <1>5, <1>6, <1>7, <1>8, ClientSteps

\* A connection that is closed takes with it whatever was overdue.
LEMMA CloseKeeps ==
  ASSUME BaseInv, ChallengesInv, CloseGoesOn
  PROVE  AskedIsCalled' /\ CredentialsInv'
<1>1. AnswerInv' /\ call'.pc \notin Expecting
  BY CloseAnswers, CallTurnIs DEF CallTurn
<1>2. AskedIsCalled'
  BY <1>1, QuietIsCalled
<1>3. /\ UNCHANGED <<auth, connects>> /\ call' = NoCall
      /\ peer' = [NewPeer EXCEPT !.up = FALSE, !.nonce = peer.nonce]
  BY DEF CloseGoesOn, bounds
<1>4. peer'.nonce = peer.nonce /\ peer'.nc = 0 /\ peer'.asked = <<>>
  BY <1>3 DEF NewPeer
<1>5. RefusalsTrue'
  BY <1>1, <1>3, NoCallIs, QuietRefuses DEF AnswerInv
<1>6. CountsFit' /\ UsedIsKnown'
  BY <1>3, <1>4 DEF ChallengesInv, ProviderFits, CountsFit, UsedIsKnown
<1>7. NonceIsKnown'
  BY <1>3, <1>4 DEF ChallengesInv, ProviderFits, NonceIsKnown, MeantWith, This
<1> QED BY <1>2, <1>5, <1>6, <1>7 DEF CredentialsInv

\* Of a server that asks for what it means, a client with the right user and
\* password is refused for a nonce alone that the server has replaced, or for
\* want of its scheme: the count, the cnonce and the algorithm of the header are
\* those of the challenge that holds, on every connection and in every retry,
\* unless an answer of this connection has been given up too early.
THEOREM ClientRightCredentialsServe ==
  ASSUME PlaysOnce, AsksAsMeant
  PROVE  ClientSpec => []RightCredentialsServe
<1> DEFINE InTime == overdue = {} => AskedIsCalled /\ CredentialsInv
           I == BaseInv /\ NoneOverdue /\ ThisIsThere /\ ChallengesInv /\ InTime
<1>1. ClientInit => I
  <2> SUFFICES ASSUME ClientInit PROVE I
    OBVIOUS
  <2>1. BaseInv /\ NoneOverdue /\ CredentialsInv /\ ChallengesInv
    BY ControlInit, QueuesInit, AnswerInit, CredentialsInit, ChallengesInit DEF BaseInv, NoneOverdue
  <2>2. peer = [NewPeer EXCEPT !.up = FALSE] /\ connects = 0
    BY DEF ClientInit
  <2>3. peer.asked = <<>> /\ ~peer.up
    BY <2>2 DEF NewPeer
  <2> QED BY <2>1, <2>2, <2>3, ClientAssumption DEF AskedIsCalled, ThisIsThere
<1>2. I /\ [ClientNext]_clientVars => I'
  <2> SUFFICES ASSUME I, [ClientNext]_clientVars PROVE I'
    OBVIOUS
  <2>1. BaseInv' /\ NoneOverdue' /\ ThisIsThere' /\ ChallengesInv'
    BY BaseNext, NoneOverdueNext, ThereNext, ChallengesNext
  <2>2. ASSUME overdue' = {} PROVE AskedIsCalled' /\ CredentialsInv'
    <3>1. CASE CloseGoesOn
      BY <3>1, CloseKeeps
    <3>2. CASE ~CloseGoesOn
      <4>1. overdue = {}
        BY <2>2, <3>2, OverdueStays
      <4>2. AnswerInv /\ AnswerInv' /\ AskedIsCalled /\ CredentialsInv
        BY <2>1, <2>2, <4>1 DEF NoneOverdue
      <4>3. AskedIsCalled'
        BY <4>2, CalledNext
      <4> QED BY <3>2, <4>2, <4>3, CredentialsNext
    <3> QED BY <3>1, <3>2
  <2> QED BY <2>1, <2>2
<1>3. I => RightCredentialsServe
  BY DEF RightCredentialsServe, CredentialsInv, RefusalsTrue, Refusal
<1> QED BY <1>1, <1>2, <1>3, PTL DEF ClientSpec

-----------------------------------------------------------------------------
(* RtspClient: the tracks are what the server has set up.                  *)

\* A setup in order sets up once what it was given.
SetsUpOnce == "setup_again" \notin Habits

\* What the server has set up after n requests, and what the client has noted.
Chans(n) == {[track |-> i, chan |-> RtpChannel(i)] : i \in 1 .. n}
SetUp(n) == /\ IsSequence(tracks) /\ Len(tracks) = n
            /\ \A i \in 1 .. n : tracks[i] = Track(sdp[i], RtpChannel(i))

DescriptionFits ==
  /\ connects \in 0 .. MaxConnects /\ (session # kDisconnected => connects # 0)
  /\ session >= kDescribed => sdp = SdpSession(This.lines).media
  /\ session \in {kDisconnected, kConnected} => tracks = <<>>

\* A SETUP that has failed half-way leaves the server with a channel.
Settled ==
  /\ session = kDescribed /\ call.op # "setup" => tracks = <<>> \/ peer.chans # {}
  /\ session >= kReady /\ call.op # "teardown" =>
       /\ SetUp(Len(sdp)) /\ peer.chans = Chans(Len(sdp))

SettingUp ==
  call.op = "setup" =>
    /\ session = kDescribed /\ call.at \in 1 .. Len(sdp) /\ SetUp(call.at - 1)
    /\ peer.chans \in {Chans(call.at - 1), Chans(call.at)}
    /\ call.pc = "send" \/ peer.asked # <<>> => peer.chans = Chans(call.at - 1)

CallsInPlace ==
  /\ call.op = "describe" => session = kConnected /\ call.at \in {1, 2}
  /\ call.op \in {"play", "pause", "teardown"} => session >= kReady /\ call.at = 1

\* An answer says what the server has done, and describes the one it is.
Brings(status, body) ==
  /\ call.op = "setup" => peer.chans = Chans(IF status = 200 THEN call.at ELSE call.at - 1)
  /\ body \in {This.lines, <<>>}
AnswersTrue ==
  /\ \A u : IsAnswer(u) /\ Carried(u) => Brings(u.status, u.body)
  /\ call.pc = "answer" => Brings(call.answer.status, call.answer.body)

TracksInv == DescriptionFits /\ Settled /\ SettingUp /\ CallsInPlace /\ AnswersTrue

LEMMA TracksInit == ASSUME ClientInit PROVE TracksInv
<1>1. /\ session = kDisconnected /\ tracks = <<>> /\ connects = 0 /\ call = NoCall
      /\ unread = <<>> /\ wire = <<>> /\ ready = <<>>
  BY DEF ClientInit
<1>2. call.op = "none" /\ call.pc = "none"
  BY <1>1, NoCallIs
<1>3. \A u : ~Carried(u)
  BY <1>1, NothingHeld, EmptySequence DEF Carried, Filled
<1>4. DescriptionFits
  BY <1>1, ClientAssumption DEF DescriptionFits, kDisconnected, kDescribed
<1>5. Settled /\ SettingUp /\ CallsInPlace
  BY <1>1, <1>2 DEF Settled, SettingUp, CallsInPlace, kDisconnected, kDescribed, kReady
<1>6. AnswersTrue
  BY <1>2, <1>3 DEF AnswersTrue
<1> QED BY <1>4, <1>5, <1>6 DEF TracksInv

\* What stays as it is where the state of the session does.
LEMMA PlaceStays ==
  ASSUME TracksInv, UNCHANGED <<session, sdp, tracks, connects>>, peer'.chans = peer.chans,
         peer'.asked \in {peer.asked, <<>>}, call'.op = call.op, call'.at = call.at,
         call'.pc = "send" => call.pc = "send" \/ call.op # "setup"
                              \/ peer.chans = Chans(call.at - 1)
  PROVE  DescriptionFits' /\ Settled' /\ SettingUp' /\ CallsInPlace'
<1>1. DescriptionFits'
  BY DEF TracksInv, DescriptionFits, This
<1>2. Settled'
  BY DEF TracksInv, Settled, SetUp
<1>3. SettingUp'
  BY DEF TracksInv, SettingUp, SetUp
<1>4. CallsInPlace'
  BY DEF TracksInv, CallsInPlace
<1> QED BY <1>1, <1>2, <1>3, <1>4

LEMMA BringsStays ==
  ASSUME UNCHANGED connects, peer'.chans = peer.chans, call'.op = call.op, call'.at = call.at,
         NEW status, NEW body, Brings(status, body)
  PROVE  Brings(status, body)'
BY DEF Brings, This

LEMMA UnmovedTracks ==
  ASSUME TracksInv, Unmoved, peer'.asked \in {peer.asked, <<>>}
  PROVE  TracksInv'
<1>1. DescriptionFits' /\ Settled' /\ SettingUp' /\ CallsInPlace'
  BY PlaceStays DEF Unmoved
<1>2. \A status, body : Brings(status, body) => Brings(status, body)'
  BY BringsStays DEF Unmoved
<1>3. AnswersTrue'
  <2>1. \A u : IsAnswer(u) /\ Carried(u)' => Brings(u.status, u.body)'
    BY <1>2 DEF Unmoved, OnTheirWay, TracksInv, AnswersTrue
  <2>2. ASSUME call'.pc = "answer" PROVE Brings(call.answer.status, call.answer.body)'
    <3>1. call' = call
      BY <2>2 DEF Unmoved
    <3>2. PICK status, body : status = call.answer.status /\ body = call.answer.body
      OBVIOUS
    <3>3. Brings(status, body)
      BY <2>2, <3>1, <3>2 DEF TracksInv, AnswersTrue
    <3>4. Brings(status, body)'
      BY <1>2, <3>3
    <3>5. status = call'.answer.status /\ body = call'.answer.body
      BY <3>1, <3>2
    <3> QED BY <3>4, <3>5 DEF Brings
  <2> QED BY <2>1, <2>2 DEF AnswersTrue
<1> QED BY <1>1, <1>3 DEF TracksInv

\* Where nothing is under way and no answer is looked at.
LEMMA QuietBrings ==
  ASSUME AnswerInv', call'.pc \notin Expecting, call'.pc # "answer"
  PROVE  AnswersTrue'
<1>1. Quiet'
  BY DEF AnswerInv
<1>2. \A u : IsAnswer(u) => ~Carried(u)'
  BY <1>1 DEF Quiet, Carried, Holds, Filled, NoneIn, AllFree
<1> QED BY <1>2 DEF AnswersTrue

\* What a server describes, parsed.
LEMMA DescriptionIs ==
  ASSUME DescribedAsMeant, BaseInv, DescriptionFits, session >= kDescribed
  PROVE  /\ IsSequence(sdp) /\ Len(sdp) = Len(This.tracks) /\ Len(sdp) \in Nat /\ Len(sdp) > 0
         /\ DOMAIN This.tracks = 1 .. Len(sdp) /\ IsSequence(This.tracks)
         /\ \A i \in 1 .. Len(sdp) :
              /\ BuildControlUrl(sdp[i].control) = This.tracks[i].uri
              /\ Track(sdp[i], 0).codec = This.tracks[i].codec
              /\ TracksAt(This.tracks[i].uri) = {i}
<1>1. connects \in DOMAIN Servers
  BY ClientAssumption DEF DescriptionFits, BaseInv, ControlInv, LoopShape, kDescribed, kDisconnected
<1> DEFINE lines == This.lines
           means == This.tracks
<1>2. sdp = SdpSession(lines).media
  BY DEF DescriptionFits
<1>3. /\ IsSequence(means) /\ means # <<>> /\ Len(means) \in Nat /\ DOMAIN means = 1 .. Len(means)
      /\ Len(means) # 0
  BY <1>1, ThisIs, SequenceLength, SequenceEmpty
<1>4. /\ DOMAIN sdp = DOMAIN means
      /\ \A i \in DOMAIN means : /\ BuildControlUrl(sdp[i].control) = means[i].uri
                                /\ Track(sdp[i], 0).codec = means[i].codec
      /\ \A i, j \in DOMAIN means : means[i].uri = means[j].uri => i = j
  BY <1>1, <1>2 DEF DescribedAsMeant, This
<1>5. IsSequence(sdp) /\ Len(sdp) = Len(means)
  <2>1. sdp = [i \in DOMAIN sdp |-> sdp[i]]
    BY <1>2 DEF SdpSession
  <2>2. PICK n : n = Len(means)
    OBVIOUS
  <2>3. n \in Nat /\ sdp = [i \in 1 .. n |-> sdp[i]]
    BY <1>3, <1>4, <2>1, <2>2
  <2> DEFINE T == {sdp[i] : i \in 1 .. n}
  <2>4. \A i \in 1 .. n : sdp[i] \in T
    OBVIOUS
  <2> HIDE DEF T
  <2>5. sdp \in Seq(T)
    BY <2>3, <2>4
  <2>6. IsSequence(sdp)
    BY <2>5 DEF IsSequence
  <2>7. Len(sdp) \in Nat /\ DOMAIN sdp = 1 .. Len(sdp) /\ DOMAIN sdp = 1 .. n
    BY <1>3, <1>4, <2>2, <2>6, SequenceLength
  <2>8. Len(sdp) = n
    <3>1. PICK k : k = Len(sdp)
      OBVIOUS
    <3>2. k \in Nat /\ n \in Nat /\ 1 .. k = 1 .. n
      BY <2>3, <2>7, <3>1
    <3>3. k = n
      BY <3>2
    <3> QED BY <3>1, <3>3
  <2> QED BY <2>2, <2>6, <2>8
<1>6. \A i \in DOMAIN means : TracksAt(means[i].uri) = {i}
  BY <1>4 DEF TracksAt
<1>7. /\ IsSequence(sdp) /\ Len(sdp) = Len(means) /\ Len(sdp) \in Nat /\ Len(sdp) > 0
      /\ DOMAIN means = 1 .. Len(sdp) /\ IsSequence(means)
  <2>1. PICK k : k = Len(sdp)
    OBVIOUS
  <2>2. k \in Nat /\ k # 0 /\ DOMAIN means = 1 .. k
    BY <1>3, <1>5, <2>1
  <2>3. k > 0
    BY <2>2
  <2> QED BY <1>3, <1>5, <2>1, <2>2, <2>3
<1>8. \A i \in 1 .. Len(sdp) :
        /\ BuildControlUrl(sdp[i].control) = means[i].uri
        /\ Track(sdp[i], 0).codec = means[i].codec
        /\ TracksAt(means[i].uri) = {i}
  BY <1>4, <1>6, <1>7, Zenon
<1> QED BY <1>7, <1>8

LEMMA TrackIs ==
  ASSUME NEW m, NEW chan
  PROVE  Track(m, chan).chan = chan /\ Track(m, chan).codec = Track(m, 0).codec
BY DEF Track

LEMMA ChannelsDiffer ==
  ASSUME NEW i \in Nat, NEW j \in Nat, RtpChannel(i) = RtpChannel(j)
  PROVE  i = j
BY DEF RtpChannel

LEMMA NoChans == Chans(0) = {}
BY DEF Chans

LEMMA SomeChans == ASSUME NEW n \in Nat, n > 0 PROVE Chans(n) # {}
<1>1. 1 \in 1 .. n
  OBVIOUS
<1>2. [track |-> 1, chan |-> RtpChannel(1)] \in Chans(n)
  BY <1>1 DEF Chans
<1> QED BY <1>2

LEMMA OneMoreChan ==
  ASSUME NEW n \in Nat, n > 0
  PROVE  {[track |-> i, chan |-> RtpChannel(n)] : i \in {n}}
         \cup {c \in Chans(n - 1) : c.track \notin {n}} = Chans(n)
<1>1. \A i \in 1 .. n : i = n \/ i \in 1 .. n - 1
  OBVIOUS
<1>2. \A i \in 1 .. n - 1 : i # n /\ i \in 1 .. n
  OBVIOUS
<1>3. n \in 1 .. n
  OBVIOUS
<1>4. \A i : [track |-> i, chan |-> RtpChannel(i)].track = i
  OBVIOUS
<1> QED BY <1>1, <1>2, <1>3, <1>4 DEF Chans

\* What an agreed session comes to.
LEMMA AgreedTracks ==
  ASSUME DescribedAsMeant, BaseInv, TracksInv
  PROVE  TracksAsAgreed
<1> SUFFICES ASSUME session >= kReady, call = NoCall
             PROVE  /\ Len(tracks) = Len(This.tracks)
                    /\ peer.chans = {[track |-> i, chan |-> tracks[i].chan] : i \in DOMAIN tracks}
                    /\ \A i \in DOMAIN tracks : tracks[i].codec = This.tracks[i].codec
                    /\ \A i, j \in DOMAIN tracks : i # j => tracks[i].chan # tracks[j].chan
  BY DEF TracksAsAgreed
<1>1. session >= kDescribed
  BY DEF kReady, kDescribed, BaseInv, ControlInv, LoopShape
<1>2. /\ Len(sdp) = Len(This.tracks) /\ Len(sdp) \in Nat
      /\ \A i \in 1 .. Len(sdp) : Track(sdp[i], 0).codec = This.tracks[i].codec
  BY <1>1, DescriptionIs DEF TracksInv
<1>3. SetUp(Len(sdp)) /\ peer.chans = Chans(Len(sdp))
  BY NoCallIs DEF TracksInv, Settled
<1>4. PICK n : n = Len(sdp)
  OBVIOUS
<1>5. n \in Nat /\ Len(tracks) = n /\ DOMAIN tracks = 1 .. n
  BY <1>2, <1>3, <1>4, SequenceLength DEF SetUp
<1>6. \A i \in 1 .. n : tracks[i].chan = RtpChannel(i) /\ tracks[i].codec = Track(sdp[i], 0).codec
  BY <1>3, <1>4, TrackIs DEF SetUp
<1>7. peer.chans = {[track |-> i, chan |-> tracks[i].chan] : i \in DOMAIN tracks}
  BY <1>3, <1>4, <1>5, <1>6 DEF Chans
<1>8. \A i, j \in DOMAIN tracks : i # j => tracks[i].chan # tracks[j].chan
  <2>1. \A i \in 1 .. n : i \in Nat
    BY <1>5
  <2> QED BY <1>5, <1>6, <2>1, ChannelsDiffer
<1>9. \A i \in DOMAIN tracks : tracks[i].codec = This.tracks[i].codec
  BY <1>2, <1>4, <1>5, <1>6
<1> QED BY <1>2, <1>4, <1>5, <1>7, <1>8, <1>9

Numbers == /\ kDisconnected = 0 /\ kConnected = 1 /\ kDescribed = 2
           /\ kReady = 3 /\ kPlaying = 4 /\ kPaused = 5
LEMMA TheNumbers == Numbers
BY DEF Numbers, kDisconnected, kConnected, kDescribed, kReady, kPlaying, kPaused

LEMMA SessionIs == ASSUME BaseInv PROVE session \in 0 .. 5
BY DEF BaseInv, ControlInv, LoopShape

LEMMA SameCallTracks ==
  ASSUME BaseInv, AnswerInv', TracksInv,
         SetCredentials \/ SetAuthProvider \/ TeardownGoesOn \/ RetryWithAuth
  PROVE  TracksInv'
<1>1. UNCHANGED <<session, sdp, tracks, connects, peer>>
  BY DEF SetCredentials, SetAuthProvider, TeardownGoesOn, RetryWithAuth, memberVars, media, bounds
<1>2. /\ call'.op = call.op /\ call'.at = call.at
      /\ call'.pc \notin Expecting /\ call'.pc # "answer"
      /\ call'.pc = "send" => call.op # "setup" \/ peer.chans = Chans(call.at - 1)
  <2>1. CASE SetCredentials \/ SetAuthProvider
    <3>1. call = NoCall /\ call' = call
      BY <2>1 DEF SetCredentials, SetAuthProvider
    <3> QED BY <3>1, NoCallIs DEF Expecting
  <2>2. CASE TeardownGoesOn
    <3>1. call.op = "teardown" /\ call' = [call EXCEPT !.pc = "send"]
      BY <2>2 DEF TeardownGoesOn
    <3> QED BY <3>1, CallAtPc DEF BaseInv, ControlInv, Expecting
  <2>3. CASE RetryWithAuth
    <3>1. /\ call' = [call EXCEPT !.pc = "send", !.retried = TRUE, !.answer = NoAnswer]
          /\ call.pc = "answer" /\ call.answer.status = 401
      BY <2>3 DEF RetryWithAuth, MayRetry
    <3>2. call.op = "setup" => peer.chans = Chans(call.at - 1)
      BY <3>1 DEF TracksInv, AnswersTrue, Brings
    <3> QED BY <3>1, <3>2 DEF BaseInv, ControlInv, CallShape, Expecting
  <2> QED BY <2>1, <2>2, <2>3
<1>3. DescriptionFits' /\ Settled' /\ SettingUp' /\ CallsInPlace'
  BY <1>1, <1>2, PlaceStays
<1> QED BY <1>2, <1>3, QuietBrings DEF TracksInv

LEMMA BegunTracks ==
  ASSUME DescribedAsMeant, SetsUpOnce, BaseInv, AnswerInv', TracksInv,
         (\E op \in {"describe", "setup", "play", "pause"} : Request(op)) \/ Teardown \/ Close
  PROVE  TracksInv'
<1>1. /\ UNCHANGED <<session, sdp, tracks, connects, peer>> /\ call = NoCall
      /\ \E op, pc : /\ pc \in {"send", "wait"} /\ call' = CallOf(op, pc)
                     /\ Allowed(op) /\ Orderly(op)
  BY DEF Request, Teardown, Close, Called, memberVars, media, bounds
<1>2. PICK op, pc : pc \in {"send", "wait"} /\ call' = CallOf(op, pc) /\ Allowed(op) /\ Orderly(op)
  BY <1>1
<1>3. call'.op = op /\ call'.pc = pc /\ call'.at = 1 /\ call.op = "none"
  BY <1>1, <1>2, CallMade, NoCallIs
<1>4. DescriptionFits' /\ Settled'
  BY <1>1, <1>3 DEF TracksInv, DescriptionFits, Settled, SetUp, This
<1>5. CallsInPlace'
  <2>1. op = "describe" => session = kConnected
    BY <1>2 DEF Orderly
  <2>2. op = "play" => session >= kReady
    BY <1>2 DEF Allowed
  <2>3. op = "pause" => session >= kReady
    BY <1>2, TheNumbers DEF Allowed, Numbers
  <2>4. op = "teardown" => session >= kReady
    BY <1>2 DEF Allowed
  <2> QED BY <1>1, <1>3, <2>1, <2>2, <2>3, <2>4 DEF CallsInPlace
<1>6. SettingUp'
  <2> SUFFICES ASSUME op = "setup"
               PROVE  /\ session = kDescribed /\ 1 \in 1 .. Len(sdp) /\ SetUp(0)
                      /\ peer.chans = Chans(0)
    BY <1>1, <1>3 DEF SettingUp, SetUp
  <2>1. session = kDescribed /\ peer.chans = {}
    BY <1>2 DEF Orderly, SetsUpOnce
  <2>2. tracks = <<>>
    BY <1>3, <2>1 DEF TracksInv, Settled
  <2>3. SetUp(0)
    BY <2>2, EmptySequence DEF SetUp
  <2>4. session >= kDescribed
    BY <2>1, TheNumbers DEF Numbers
  <2>5. Len(sdp) \in Nat /\ Len(sdp) > 0
    BY <2>4, DescriptionIs DEF TracksInv
  <2> QED BY <2>1, <2>3, <2>5, NoChans
<1>7. AnswersTrue'
  BY <1>2, <1>3, QuietBrings DEF Expecting
<1> QED BY <1>4, <1>5, <1>6, <1>7 DEF TracksInv

LEMMA FreshTracks ==
  ASSUME ThisIsThere, AnswerInv', (Connect /\ TracksInv) \/ CloseGoesOn
  PROVE  TracksInv'
<1>1. /\ session' \in {kDisconnected, kConnected} /\ tracks' = <<>>
      /\ connects' \in 0 .. MaxConnects /\ (session' # kDisconnected => connects' # 0)
      /\ call' = NoCall
  <2>1. CASE Connect /\ TracksInv
    <3>1. /\ session = kDisconnected /\ connects < MaxConnects /\ connects' = connects + 1
          /\ session' \in {kConnected, session} /\ UNCHANGED tracks /\ call' = NoCall
      BY <2>1 DEF Connect, media
    <3>2. tracks = <<>> /\ connects \in 0 .. MaxConnects
      BY <2>1, <3>1 DEF TracksInv, DescriptionFits
    <3> QED BY <3>1, <3>2, ClientAssumption
  <2>2. CASE CloseGoesOn
    BY <2>2 DEF CloseGoesOn, NoTracks, ThisIsThere, bounds
  <2> QED BY <2>1, <2>2
<1>2. call'.op = "none" /\ call'.pc = "none"
  BY <1>1, NoCallIs
<1>3. DescriptionFits' /\ Settled' /\ SettingUp' /\ CallsInPlace'
  BY <1>1, <1>2, TheNumbers
  DEF DescriptionFits, Settled, SettingUp, CallsInPlace, Numbers
<1> QED BY <1>2, <1>3, QuietBrings DEF TracksInv, Expecting

LEMMA DescribeTracks ==
  ASSUME BaseInv, AnswerInv', TracksInv, OptionsDone \/ DescribeDone
  PROVE  TracksInv'
<1>1. /\ UNCHANGED <<tracks, connects, peer>> /\ call.op = "describe"
  BY DEF OptionsDone, DescribeDone, memberVars, media, bounds
<1>2. session = kConnected /\ tracks = <<>>
  BY <1>1 DEF TracksInv, CallsInPlace, DescriptionFits
<1>3. connects \in 0 .. MaxConnects /\ connects # 0
  BY <1>2, TheNumbers DEF TracksInv, DescriptionFits, Numbers
<1>4. CASE OptionsDone
  <2>1. NextRequest /\ call.at = 1 /\ UNCHANGED session
    BY <1>4 DEF OptionsDone, memberVars
  <2>2. call'.op = "describe" /\ call'.pc = "send"
    BY <1>1, <2>1, NextRequestIs
  <2>3. call'.at = 2
    <3> DEFINE c == CallOf(call.op, "send")
    <3>1. DOMAIN c = {"op", "at", "pc", "retried", "answer"}
      BY CallMade
    <3>2. call' = [c EXCEPT !.at = call.at + 1]
      BY <2>1 DEF NextRequest
    <3> HIDE DEF c
    <3>3. call'.at = call.at + 1
      BY <3>1, <3>2
    <3> QED BY <2>1, <3>3
  <2>4. DescriptionFits' /\ Settled' /\ SettingUp' /\ CallsInPlace'
    BY <1>1, <1>2, <1>3, <2>1, <2>2, <2>3, TheNumbers
    DEF DescriptionFits, Settled, SettingUp, CallsInPlace, Numbers
  <2> QED BY <2>2, <2>4, QuietBrings DEF TracksInv, Expecting
<1>5. CASE DescribeDone
  <2>1. /\ call' = NoCall /\ call.pc = "answer"
        /\ \/ /\ Parses(call.answer.body) /\ session' = kDescribed
              /\ sdp' = SdpSession(call.answer.body).media
           \/ UNCHANGED <<session, sdp>>
    BY <1>5 DEF DescribeDone, Succeeded, Returns
  <2>2. call'.op = "none" /\ call'.pc = "none"
    BY <2>1, NoCallIs
  <2>3. call.answer.body \in {This.lines, <<>>}
    BY <2>1 DEF TracksInv, AnswersTrue, Brings
  <2>4. ~Parses(<<>>)
    BY EmptySequence, SequenceLength DEF Parses
  <2>5. This' = This
    BY <1>1 DEF This
  <2>6. DescriptionFits'
    BY <1>1, <1>2, <1>3, <2>1, <2>3, <2>4, <2>5, TheNumbers DEF DescriptionFits, Numbers
  <2>7. Settled' /\ SettingUp' /\ CallsInPlace'
    BY <1>1, <1>2, <2>1, <2>2, TheNumbers DEF Settled, SettingUp, CallsInPlace, Numbers
  <2> QED BY <2>2, <2>6, <2>7, QuietBrings DEF TracksInv, Expecting
<1> QED BY <1>4, <1>5

LEMMA SetupTracks ==
  ASSUME DescribedAsMeant, BaseInv, AnswerInv', TracksInv, SetupDone
  PROVE  TracksInv'
<1>1. /\ call.op = "setup" /\ call.pc = "answer" /\ call.answer.status = 200
      /\ tracks' = Append(tracks, Track(sdp[call.at], RtpChannel(call.at)))
      /\ UNCHANGED <<sdp, connects, peer>>
      /\ \/ call.at < Len(sdp) /\ NextRequest /\ UNCHANGED session
         \/ ~(call.at < Len(sdp)) /\ session' = kReady /\ call' = NoCall
  BY DEF SetupDone, Succeeded, Returns, bounds
<1>2. /\ session = kDescribed /\ call.at \in 1 .. Len(sdp) /\ SetUp(call.at - 1)
  BY <1>1 DEF TracksInv, SettingUp
<1>3. peer.chans = Chans(call.at)
  BY <1>1 DEF TracksInv, AnswersTrue, Brings
<1>4. PICK n : n = call.at
  OBVIOUS
<1>5. PICK m : m = Len(sdp)
  OBVIOUS
<1>6. connects \in 0 .. MaxConnects /\ connects # 0 /\ sdp = SdpSession(This.lines).media
  BY <1>2, TheNumbers DEF TracksInv, DescriptionFits, Numbers
<1>7. n \in Nat /\ m \in Nat /\ n \in 1 .. m
  <2>1. session >= kDescribed
    BY <1>2, TheNumbers DEF Numbers
  <2>2. Len(sdp) \in Nat
    BY <2>1, DescriptionIs DEF TracksInv
  <2> QED BY <1>2, <1>4, <1>5, <2>2
<1>8. SetUp(n)'
  <2>1. PICK t : t = Track(sdp[n], RtpChannel(n))
    OBVIOUS
  <2>2. tracks' = Append(tracks, t) /\ IsSequence(tracks) /\ Len(tracks) = n - 1
        /\ \A i \in 1 .. n - 1 : tracks[i] = Track(sdp[i], RtpChannel(i))
    BY <1>1, <1>2, <1>4, <2>1 DEF SetUp
  <2>3. /\ IsSequence(tracks') /\ Len(tracks') = Len(tracks) + 1
        /\ \A i \in 1 .. Len(tracks) : tracks'[i] = tracks[i]
        /\ tracks'[Len(tracks) + 1] = t
    BY <2>2, AppendedSequence
  <2>4. Len(tracks') = n /\ tracks'[n] = t /\ \A i \in 1 .. n - 1 : tracks'[i] = tracks[i]
    BY <1>7, <2>2, <2>3
  <2>5. \A i \in 1 .. n : i = n \/ i \in 1 .. n - 1
    BY <1>7
  <2>6. \A i \in 1 .. n : tracks'[i] = Track(sdp[i], RtpChannel(i))
    BY <2>1, <2>2, <2>4, <2>5
  <2> QED BY <1>1, <2>3, <2>4, <2>6 DEF SetUp
<1>9. This' = This
  BY <1>1 DEF This
<1>10. CASE n < m /\ NextRequest /\ UNCHANGED session
  <2>1. call'.op = "setup" /\ call'.pc = "send"
    BY <1>1, <1>10, NextRequestIs
  <2>2. call'.at = n + 1
    <3> DEFINE c == CallOf(call.op, "send")
    <3>1. DOMAIN c = {"op", "at", "pc", "retried", "answer"}
      BY CallMade
    <3>2. call' = [c EXCEPT !.at = n + 1]
      BY <1>4, <1>10 DEF NextRequest
    <3> HIDE DEF c
    <3> QED BY <3>1, <3>2
  <2>3. call'.at - 1 = n /\ call'.at \in 1 .. m
    BY <1>7, <1>10, <2>2
  <2>4. DescriptionFits' /\ Settled' /\ CallsInPlace'
    BY <1>1, <1>2, <1>6, <1>9, <1>10, <2>1, TheNumbers
    DEF DescriptionFits, Settled, CallsInPlace, Numbers
  <2>5. SettingUp'
    BY <1>1, <1>2, <1>3, <1>4, <1>5, <1>8, <1>10, <2>3 DEF SettingUp
  <2> QED BY <2>1, <2>4, <2>5, QuietBrings DEF TracksInv, Expecting
<1>11. CASE ~(n < m) /\ session' = kReady /\ call' = NoCall
  <2>1. call'.op = "none" /\ call'.pc = "none"
    BY <1>11, NoCallIs
  <2>2. n = m
    BY <1>7, <1>11
  <2>3. DescriptionFits' /\ SettingUp' /\ CallsInPlace'
    BY <1>1, <1>6, <1>9, <1>11, <2>1, TheNumbers
    DEF DescriptionFits, SettingUp, CallsInPlace, Numbers
  <2>4. Settled'
    BY <1>1, <1>3, <1>4, <1>5, <1>8, <1>11, <2>2, TheNumbers DEF Settled, Numbers
  <2> QED BY <2>1, <2>3, <2>4, QuietBrings DEF TracksInv, Expecting
<1> QED BY <1>1, <1>4, <1>5, <1>10, <1>11

LEMMA DoneTracks ==
  ASSUME BaseInv, AnswerInv', TracksInv, PlayDone \/ PauseDone \/ TeardownDone \/ CallFails
  PROVE  TracksInv'
<1>1. UNCHANGED <<sdp, connects, peer>> /\ call' = NoCall
  BY DEF PlayDone, PauseDone, TeardownDone, CallFails, Returns, memberVars, media, bounds
<1>2. call'.op = "none" /\ call'.pc = "none"
  BY <1>1, NoCallIs
<1>3. This' = This
  BY <1>1 DEF This
<1>4. SettingUp' /\ CallsInPlace' /\ AnswersTrue'
  BY <1>2, QuietBrings DEF SettingUp, CallsInPlace, Expecting
<1>5. CASE PlayDone \/ PauseDone
  <2>1. call.op \in {"play", "pause"} /\ session' \in {kPlaying, kPaused} /\ UNCHANGED tracks
    BY <1>5 DEF PlayDone, PauseDone, media
  <2>2. session >= kReady
    BY <2>1 DEF TracksInv, CallsInPlace
  <2>3. SetUp(Len(sdp)) /\ peer.chans = Chans(Len(sdp))
    BY <2>1, <2>2 DEF TracksInv, Settled
  <2>4. connects \in 0 .. MaxConnects /\ connects # 0 /\ sdp = SdpSession(This.lines).media
    BY <2>2, SessionIs, TheNumbers DEF TracksInv, DescriptionFits, Numbers
  <2>5. DescriptionFits'
    BY <1>1, <1>3, <2>1, <2>4, TheNumbers DEF DescriptionFits, Numbers
  <2>6. Settled'
    BY <1>1, <1>2, <2>1, <2>3, TheNumbers DEF Settled, SetUp, Numbers
  <2> QED BY <1>4, <2>5, <2>6 DEF TracksInv
<1>6. CASE TeardownDone
  <2>1. call.op = "teardown" /\ session' = kConnected /\ tracks' = <<>>
    BY <1>6 DEF TeardownDone, NoTracks
  <2>2. session >= kReady
    BY <2>1 DEF TracksInv, CallsInPlace
  <2>3. connects \in 0 .. MaxConnects /\ connects # 0
    BY <2>2, SessionIs, TheNumbers DEF TracksInv, DescriptionFits, Numbers
  <2>4. DescriptionFits' /\ Settled'
    BY <1>1, <2>1, <2>3, TheNumbers DEF DescriptionFits, Settled, Numbers
  <2> QED BY <1>4, <2>4 DEF TracksInv
<1>7. CASE CallFails
  <2>1. UNCHANGED <<session, tracks>> /\ call.op # "teardown"
    BY <1>7 DEF CallFails, memberVars, media
  <2>2. DescriptionFits'
    BY <1>1, <1>3, <2>1 DEF TracksInv, DescriptionFits
  <2>3. session = kDescribed /\ call.op = "setup" => tracks = <<>> \/ peer.chans # {}
    <3> SUFFICES ASSUME call.op = "setup" PROVE tracks = <<>> \/ peer.chans # {}
      OBVIOUS
    <3>1. PICK n : n = call.at
      OBVIOUS
    <3>2. n \in 1 .. Len(sdp) /\ SetUp(n - 1) /\ peer.chans \in {Chans(n - 1), Chans(n)}
      BY <3>1 DEF TracksInv, SettingUp
    <3>3. CASE n = 1
      <4>1. IsSequence(tracks) /\ Len(tracks) = 0
        BY <3>2, <3>3 DEF SetUp
      <4> QED BY <4>1, SequenceEmpty
    <3>4. CASE n # 1
      <4>1. n \in Nat /\ n > 0 /\ n - 1 \in Nat /\ n - 1 > 0
        BY <3>2, <3>4
      <4> QED BY <3>2, <4>1, SomeChans
    <3> QED BY <3>3, <3>4
  <2>4. Settled'
    BY <1>1, <1>2, <2>1, <2>3 DEF TracksInv, Settled, SetUp
  <2> QED BY <1>4, <2>2, <2>4 DEF TracksInv
<1> QED BY <1>5, <1>6, <1>7

LEMMA TakeTracks == ASSUME BaseInv, TracksInv, TakeAnswer PROVE TracksInv'
<1>1. /\ UNCHANGED <<session, sdp, tracks, connects, peer, wire, ready>>
      /\ unread' = Behind(unread, AnswerAt(unread)) /\ AnswerAt(unread) > 0
      /\ call.pc = "scan"
  BY DEF TakeAnswer, TakenUpTo, memberVars, media, ioVars, bounds
<1>2. IsSequence(unread)
  BY DEF BaseInv, QueuesInv
<1>3. AnswerAt(unread) \in 1 .. Len(unread) /\ AnswerAt(unread) \in Nat
  BY <1>1, <1>2, AnswerAtIs, SequenceLength
<1>4. OnTheirWay
  BY <1>1, <1>3, WayTaken
<1>5. PICK u : u = unread[1]
  OBVIOUS
<1>6. \/ /\ AnswerAt(unread) = 1
         /\ call' = [call EXCEPT !.pc = "answer", !.answer = ParseResponse(u)]
      \/ call' = [call EXCEPT !.pc = "failed"]
  BY <1>5 DEF TakeAnswer
<1>7. /\ call'.op = call.op /\ call'.at = call.at /\ call'.pc \in {"answer", "failed"}
      /\ call'.pc = "answer" => AnswerAt(unread) = 1 /\ call'.answer = ParseResponse(u)
  BY <1>6 DEF BaseInv, ControlInv, CallShape
<1>8. DescriptionFits' /\ Settled' /\ SettingUp' /\ CallsInPlace'
  BY <1>1, <1>7, PlaceStays
<1>9. \A status, body : Brings(status, body) => Brings(status, body)'
  BY <1>1, <1>7, BringsStays
<1>10. \A v : IsAnswer(v) /\ Carried(v) => Brings(v.status, v.body)'
  BY <1>9 DEF TracksInv, AnswersTrue
<1>11. ASSUME call'.pc = "answer" PROVE Brings(call.answer.status, call.answer.body)'
  <2>1. IsAnswer(u) /\ Carried(u)
    <3>1. IsAnswer(unread[1]) /\ 1 \in 1 .. Len(unread)
      BY <1>1, <1>2, <1>3, <1>7, <1>11, AnswerAtIs
    <3> QED BY <1>5, <3>1 DEF Carried, Holds
  <2>2. call'.answer.status = u.status /\ call'.answer.body = u.body
    BY <1>7, <1>11 DEF ParseResponse
  <2>3. Brings(u.status, u.body)'
    BY <1>10, <2>1
  <2> QED BY <2>2, <2>3 DEF Brings
<1>12. AnswersTrue'
  BY <1>4, <1>10, <1>11 DEF AnswersTrue, OnTheirWay, Brings
<1> QED BY <1>8, <1>12 DEF TracksInv

LEMMA SendTracks == ASSUME BaseInv, AnswerInv, TracksInv, Send PROVE TracksInv'
<1>1. /\ UNCHANGED <<session, sdp, tracks, connects, unread, wire, ready>>
      /\ peer'.chans = peer.chans /\ peer.asked = <<>> /\ call.pc = "send"
      /\ call'.op = call.op /\ call'.at = call.at /\ call'.pc \in {"scan", "failed"}
  BY SendCalls DEF Send
<1>2. DescriptionFits' /\ Settled' /\ CallsInPlace'
  BY <1>1 DEF TracksInv, DescriptionFits, Settled, CallsInPlace, SetUp, This
<1>3. SettingUp'
  BY <1>1 DEF TracksInv, SettingUp, SetUp
<1>4. \A u : IsAnswer(u) => ~Carried(u)'
  <2>1. Quiet
    BY <1>1 DEF AnswerInv, Expecting
  <2>2. \A u : Carried(u)' <=> Carried(u)
    BY <1>1 DEF Carried
  <2> QED BY <2>1, <2>2, QuietCarries
<1>5. AnswersTrue'
  BY <1>1, <1>4 DEF AnswersTrue
<1> QED BY <1>2, <1>3, <1>5 DEF TracksInv

\* The method of the request under way.
LEMMA MethodIs ==
  ASSUME DescribedAsMeant, BaseInv, AnswerInv, AskedIsCalled, TracksInv, peer.asked # <<>>,
         NEW r, r = peer.asked[1]
  PROVE  /\ call.op \in {"describe", "setup", "play", "pause", "teardown"}
         /\ call.op = "setup" => r.method = "SETUP"
         /\ call.op = "play" => r.method = "PLAY"
         /\ call.op = "pause" => r.method = "PAUSE"
<1>1. call.pc \in Expecting
  BY DEF AnswerInv, Quiet
<1>2. call.op \in {"describe", "setup", "play", "pause", "teardown"}
  BY <1>1 DEF BaseInv, ControlInv, CallShape, CallFits, Expecting
<1>3. r.method = Requests(call.op)[call.at]
  BY DEF AskedIsCalled
<1>4. ASSUME call.op = "setup" PROVE r.method = "SETUP"
  <2>1. session >= kDescribed /\ call.at \in 1 .. Len(sdp)
    BY <1>4, TheNumbers DEF TracksInv, SettingUp, Numbers
  <2>2. IsSequence(sdp)
    BY <2>1, DescriptionIs DEF TracksInv
  <2>3. call.at \in DOMAIN sdp
    BY <2>1, <2>2, SequenceLength
  <2> QED BY <1>3, <1>4, <2>3 DEF Requests
<1>5. call.op \in {"play", "pause"} => call.at = 1
  BY DEF TracksInv, CallsInPlace
<1>6. call.op = "play" => r.method = "PLAY"
  BY <1>3, <1>5 DEF Requests
<1>7. call.op = "pause" => r.method = "PAUSE"
  BY <1>3, <1>5 DEF Requests
<1> QED BY <1>2, <1>4, <1>6, <1>7

LEMMA ServerTracks ==
  ASSUME DescribedAsMeant, BaseInv, AnswerInv, AskedIsCalled, TracksInv, ServerAnswers
  PROVE  TracksInv'
<1>1. UNCHANGED <<session, sdp, tracks, connects, call, unread, ready>>
  BY DEF ServerAnswers, memberVars, media, connVars, bounds
<1>2. PICK p, status, garbled : Answered(p, status, garbled)
  BY AnsweredIs
<1>3. peer'.asked = <<>> /\ peer.asked # <<>> /\ Head(peer.asked) = peer.asked[1]
  BY AnsweredAsked
<1>4. PICK r : r = peer.asked[1]
  OBVIOUS
<1>5. PICK a : a = AnswerTo(r, status, p.nonce, garbled)
  OBVIOUS
<1>6. /\ p.chans = peer.chans /\ wire' = Append(wire, a)
      /\ peer'.chans = CASE status = 200 /\ r.method = "SETUP"    -> SetUpOn(p, r)
                         [] status = 200 /\ r.method = "TEARDOWN" -> {}
                         [] OTHER                                 -> p.chans
  BY <1>2, <1>3, <1>4, <1>5 DEF Answered
<1>7. /\ call.op \in {"describe", "setup", "play", "pause", "teardown"}
      /\ call.op = "setup" => r.method = "SETUP"
      /\ call.op = "play" => r.method = "PLAY"
      /\ call.op = "pause" => r.method = "PAUSE"
  BY <1>3, <1>4, MethodIs
<1>8. call.pc \notin {"send", "answer"}
  BY <1>3 DEF AnswerInv, Quiet, Expecting
<1>9. This' = This
  BY <1>1 DEF This
<1>10. ASSUME call.op = "setup"
       PROVE  peer'.chans = Chans(IF status = 200 THEN call.at ELSE call.at - 1)
  <2>1. PICK n : n = call.at
    OBVIOUS
  <2>2. session >= kDescribed /\ n \in 1 .. Len(sdp) /\ peer.chans = Chans(n - 1)
    BY <1>3, <1>10, <2>1, TheNumbers DEF TracksInv, SettingUp, Numbers
  <2>3. r.uri = BuildControlUrl(sdp[n].control) /\ r.chan = RtpChannel(n)
    BY <1>3, <1>4, <1>10, <2>1 DEF AskedIsCalled
  <2>4. TracksAt(r.uri) = {n}
    BY <2>2, <2>3, DescriptionIs DEF TracksInv
  <2>5. n \in Nat /\ n > 0
    BY <2>2
  <2>6. SetUpOn(p, r) = Chans(n)
    BY <1>6, <2>2, <2>3, <2>4, <2>5, OneMoreChan DEF SetUpOn
  <2> QED BY <1>6, <1>7, <1>10, <2>1, <2>2, <2>6
<1>11. call.op \in {"play", "pause"} => peer'.chans = peer.chans
  BY <1>6, <1>7
<1>12. DescriptionFits' /\ CallsInPlace'
  BY <1>1, <1>9 DEF TracksInv, DescriptionFits, CallsInPlace
<1>13. Settled'
  <2>1. call.op = "describe" => session = kConnected
    BY DEF TracksInv, CallsInPlace
  <2>2. call.op = "setup" => session = kDescribed
    BY DEF TracksInv, SettingUp
  <2>3. call.op \in {"play", "pause", "teardown"} => session >= kReady
    BY DEF TracksInv, CallsInPlace
  <2>4. call.op \in {"play", "pause"} => SetUp(Len(sdp)) /\ peer.chans = Chans(Len(sdp))
    BY <2>3 DEF TracksInv, Settled
  <2> QED BY <1>1, <1>7, <1>11, <2>1, <2>2, <2>3, <2>4, TheNumbers
      DEF Settled, SetUp, Numbers
<1>14. SettingUp'
  <2>1. call.op = "setup" =>
          /\ session = kDescribed /\ call.at \in 1 .. Len(sdp) /\ SetUp(call.at - 1)
    BY DEF TracksInv, SettingUp
  <2> QED BY <1>1, <1>3, <1>8, <1>10, <2>1 DEF SettingUp, SetUp
<1>15. ASSUME NEW u, IsAnswer(u), Carried(u)' PROVE u = a
  <2>1. NoneIn(wire) /\ AllFree(ready) /\ NoneIn(unread)
    BY <1>3 DEF AnswerInv, OneUnderWay
  <2>2. ~Carried(u)
    BY <1>15, <2>1 DEF Carried, Holds, Filled, NoneIn, AllFree
  <2> QED BY <1>1, <1>6, <1>15, <2>2, WayOfAnswer
<1>16. a.status = status /\ a.body \in {This.lines, <<>>}
  BY <1>5 DEF AnswerTo, Answer
<1>17. Brings(a.status, a.body)'
  BY <1>1, <1>9, <1>10, <1>16 DEF Brings
<1>18. AnswersTrue'
  BY <1>1, <1>8, <1>15, <1>17 DEF AnswersTrue
<1> QED BY <1>12, <1>13, <1>14, <1>18 DEF TracksInv

LEMMA TracksNext ==
  ASSUME DescribedAsMeant, SetsUpOnce, BaseInv, AnswerInv, AnswerInv', AskedIsCalled, ThisIsThere,
         TracksInv, [ClientNext]_clientVars, ~CloseGoesOn
  PROVE  TracksInv'
<1>1. CASE CallTurn
  BY <1>1, SameCallTracks, BegunTracks, FreshTracks, DescribeTracks, SetupTracks, DoneTracks,
     TakeTracks DEF CallTurn
<1>2. CASE Send
  BY <1>2, SendTracks
<1>3. CASE Aside \/ UNCHANGED clientVars
  BY <1>3, AsideUnmoved, StutterUnmoved, AsideAsked, UnmovedTracks
<1>4. CASE ServerAnswers
  BY <1>4, ServerTracks
<1> QED BY <1>1, <1>2, <1>3, <1>4, ClientSteps

\* A session that is set up has the tracks of the description, each with its
\* codec and on a channel of its own, and the server sends them there: whatever
\* is lost, late or refused between the OPTIONS and the last SETUP, of a server
\* that means what the parser makes of its description, and whose application
\* does not set up again what has failed half-way; unless an answer of this
\* connection has been given up too early.
THEOREM ClientTracksAsAgreed ==
  ASSUME PlaysOnce, SetsUpOnce, DescribedAsMeant
  PROVE  ClientSpec => []TracksAsAgreed
<1> DEFINE InTime == overdue = {} => AskedIsCalled /\ TracksInv
           I == BaseInv /\ NoneOverdue /\ ThisIsThere /\ InTime
<1>1. ClientInit => I
  <2> SUFFICES ASSUME ClientInit PROVE I
    OBVIOUS
  <2>1. BaseInv /\ NoneOverdue /\ TracksInv
    BY ControlInit, QueuesInit, AnswerInit, TracksInit DEF BaseInv, NoneOverdue
  <2>2. peer = [NewPeer EXCEPT !.up = FALSE] /\ connects = 0
    BY DEF ClientInit
  <2>3. peer.asked = <<>> /\ ~peer.up
    BY <2>2 DEF NewPeer
  <2> QED BY <2>1, <2>2, <2>3, ClientAssumption DEF AskedIsCalled, ThisIsThere
<1>2. I /\ [ClientNext]_clientVars => I'
  <2> SUFFICES ASSUME I, [ClientNext]_clientVars PROVE I'
    OBVIOUS
  <2>1. BaseInv' /\ NoneOverdue' /\ ThisIsThere'
    BY BaseNext, NoneOverdueNext, ThereNext
  <2>2. ASSUME overdue' = {} PROVE AskedIsCalled' /\ TracksInv'
    <3>1. CASE CloseGoesOn
      <4>1. AnswerInv' /\ call'.pc \notin Expecting
        BY <3>1, CloseAnswers, CallTurnIs DEF CallTurn
      <4> QED BY <3>1, <4>1, QuietIsCalled, FreshTracks
    <3>2. CASE ~CloseGoesOn
      <4>1. overdue = {}
        BY <2>2, <3>2, OverdueStays
      <4>2. AnswerInv /\ AnswerInv' /\ AskedIsCalled /\ TracksInv
        BY <2>1, <2>2, <4>1 DEF NoneOverdue
      <4>3. AskedIsCalled'
        BY <4>2, CalledNext
      <4> QED BY <3>2, <4>2, <4>3, TracksNext
    <3> QED BY <3>1, <3>2
  <2> QED BY <2>1, <2>2
<1>3. I => TracksAsAgreed
  BY AgreedTracks DEF TracksAsAgreed
<1> QED BY <1>1, <1>2, <1>3, PTL DEF ClientSpec

=============================================================================
