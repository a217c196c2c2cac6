-------------------------- MODULE ModuleCallProofs --------------------------
(***************************************************************************)
(* Proofs about a stage call, for any number of calls, any lengths of      *)
(* requests and answers, any inline budget, ring sizes and limits.         *)
(***************************************************************************)
EXTENDS ModuleCall, SequenceTheorems, TLAPS

-----------------------------------------------------------------------------
(* Sequences, bodies and the parts they are cut into. *)

(* What is left of a ring when its first frame has been taken.              *)
LEMMA TailIs ==
    ASSUME NEW S, NEW s \in Seq(S), s # <<>>
    PROVE  /\ Tail(s) \in Seq(S) /\ Len(s) \in Nat /\ Len(s) >= 1 /\ Head(s) = s[1]
           /\ s[1] \in S
           /\ Len(Tail(s)) = Len(s) - 1
           /\ \A i \in 1 .. Len(s) - 1 : Tail(s)[i] = s[i + 1]
           /\ Tail(s) = <<>> <=> Len(s) = 1
<1>1. Tail(s) \in Seq(S) /\ Len(s) \in Nat /\ Len(s) >= 1 /\ Head(s) = s[1] /\ s[1] \in S
  OBVIOUS
<1>2. Len(Tail(s)) = Len(s) - 1 /\ \A i \in 1 .. Len(s) - 1 : Tail(s)[i] = s[i + 1]
  OBVIOUS
<1>3. Tail(s) = <<>> <=> Len(Tail(s)) = 0
  BY <1>1, EmptySeq, Zenon
<1> QED  BY <1>1, <1>2, <1>3

(* A ring with one more frame.                                              *)
LEMMA AppendIs ==
    ASSUME NEW S, NEW s \in Seq(S), NEW e \in S
    PROVE  /\ Append(s, e) \in Seq(S) /\ Len(s) \in Nat
           /\ Len(Append(s, e)) = Len(s) + 1
           /\ Append(s, e)[Len(s) + 1] = e
           /\ \A i \in 1 .. Len(s) : Append(s, e)[i] = s[i]
           /\ Append(s, e) # <<>>
           /\ s = <<>> <=> Len(s) = 0
  OBVIOUS

(* One sequence behind another.                                             *)
LEMMA ConcatIs ==
    ASSUME NEW S, NEW s \in Seq(S), NEW t \in Seq(S)
    PROVE  /\ s \o t \in Seq(S) /\ Len(s) \in Nat /\ Len(t) \in Nat
           /\ Len(s \o t) = Len(s) + Len(t)
           /\ \A i \in 1 .. Len(s) : (s \o t)[i] = s[i]
           /\ \A i \in Len(s) + 1 .. Len(s) + Len(t) : (s \o t)[i] = t[i - Len(s)]
  OBVIOUS

(* Sequences with the same elements are the same.                           *)
LEMMA SameSeq ==
    ASSUME NEW S, NEW s \in Seq(S), NEW t \in Seq(S), Len(s) = Len(t),
           \A i \in 1 .. Len(s) : s[i] = t[i]
    PROVE  s = t
  OBVIOUS

(* The units of a body.                                                     *)
LEMMA UnitsAre ==
    ASSUME NEW k \in Nat, NEW a \in Nat, NEW n \in Nat
    PROVE  /\ Units(k, a, n) \in Body
           /\ Len(Units(k, a, n)) = n
           /\ \A i \in 1 .. n : Units(k, a, n)[i] = <<k, a + i>>
           /\ Units(k, a, n) = <<>> <=> n = 0
  BY DEF Units, Body

(* No units, whatever the call.                                             *)
LEMMA NoUnits == ASSUME NEW k, NEW a PROVE Units(k, a, 0) = <<>>
  BY DEF Units

(* The whole of a body up to a point.                                       *)
LEMMA BodyUnits ==
    ASSUME NEW k \in Nat, NEW n \in Nat
    PROVE  Units(k, 0, n) \in Body /\ Len(Units(k, 0, n)) = n
  BY UnitsAre

(* A part behind the units before it.                                       *)
LEMMA UnitsGrow ==
    ASSUME NEW k \in Nat, NEW n \in Nat, NEW m \in Nat
    PROVE  Units(k, 0, n) \o Units(k, n, m) = Units(k, 0, n + m)
<1> DEFINE s == Units(k, 0, n)
           t == Units(k, n, m)
           u == Units(k, 0, n + m)
<1>0. n + m \in Nat
  OBVIOUS
<1>1. s \in Body /\ t \in Body /\ u \in Body /\ Len(s) = n /\ Len(t) = m /\ Len(u) = n + m
  <2>1. s \in Body /\ Len(s) = n
    BY BodyUnits
  <2>2. t \in Body /\ Len(t) = m
    BY UnitsAre
  <2>3. u \in Body /\ Len(u) = n + m
    BY <1>0, BodyUnits
  <2> QED  BY <2>1, <2>2, <2>3, Zenon
<1>i. ASSUME NEW i \in 1 .. n + m PROVE u[i] = <<k, i>>
  BY DEF Units
<1>s. ASSUME NEW i \in 1 .. n PROVE s[i] = <<k, i>>
  BY DEF Units
<1>t. ASSUME NEW i \in 1 .. m PROVE t[i] = <<k, n + i>>
  BY DEF Units
<1> HIDE DEF s, t, u
<1>2. /\ s \o t \in Body /\ Len(s \o t) = n + m
      /\ \A i \in 1 .. n : (s \o t)[i] = s[i]
      /\ \A i \in n + 1 .. n + m : (s \o t)[i] = t[i - n]
  BY <1>1, ConcatIs, Zenon DEF Body
<1>3. ASSUME NEW i \in 1 .. n + m PROVE (s \o t)[i] = u[i]
  <2>1. CASE i =< n
    <3>1. (s \o t)[i] = s[i]
      BY <1>2, <2>1
    <3>2. s[i] = <<k, i>> /\ u[i] = <<k, i>>
      BY <2>1, <1>i, <1>s
    <3> QED  BY <3>1, <3>2
  <2>2. CASE i > n
    <3>1. (s \o t)[i] = t[i - n]
      BY <1>2, <2>2
    <3>2. i - n \in 1 .. m
      BY <2>2
    <3>3. t[i - n] = <<k, n + (i - n)>>
      BY <3>2, <1>t
    <3>4. n + (i - n) = i /\ u[i] = <<k, i>>
      BY <1>i
    <3> QED  BY <3>1, <3>3, <3>4
  <2>3. i =< n \/ i > n
    OBVIOUS
  <2> QED  BY <2>1, <2>2, <2>3, Zenon
<1>4. s \o t = u
  BY <1>1, <1>2, <1>3, SameSeq, Zenon DEF Body
<1> QED  BY <1>4 DEF s, t, u

(* Where a part begins and ends.                                            *)
LEMMA BoundsAre ==
    ASSUME NEW k \in Nat, NEW a \in Nat, NEW n \in Nat, n > 0 \/ a = 0,
           NEW f, f.units = Units(k, a, n)
    PROVE  Begin(f) = a /\ End(f) = a + n /\ Len(f.units) = n
<1>0. Len(Units(k, a, n)) = n /\ (Units(k, a, n) = <<>> <=> n = 0)
  BY UnitsAre
<1>1. Len(f.units) = n /\ (f.units = <<>> <=> n = 0)
  BY <1>0, Zenon
<1>2. CASE n = 0
  BY <1>1, <1>2 DEF Begin, End
<1>3. CASE n > 0
  <2>1. f.units[1] = <<k, a + 1>>
    BY <1>3 DEF Units
  <2>2. Begin(f) = a
    BY <1>1, <1>3, <2>1 DEF Begin
  <2> QED  BY <1>1, <2>2 DEF End
<1> QED  BY <1>2, <1>3

(* How a part of a body is cut off.                                         *)
LEMMA PartIs ==
    ASSUME chunk \in Nat \ {0}, NEW from \in Nat, NEW len \in Nat, from < len \/ from = 0
    PROVE  /\ Part(from, len) \in Nat
           /\ from + Part(from, len) =< len
           /\ Part(from, len) > 0 \/ (from = 0 /\ len = 0)
  BY DEF Part

(* The beginning and the end of a part of a body are numbers.               *)
LEMMA PartBounds ==
    ASSUME NEW k \in Nat, NEW len \in Nat, NEW f, f.units \in Body, f.more \in BOOLEAN,
           PartOf(f, k, len)
    PROVE  /\ Begin(f) \in Nat /\ End(f) \in Nat /\ Len(f.units) \in Nat
           /\ End(f) = Begin(f) + Len(f.units) /\ End(f) =< len
           /\ f.more <=> End(f) < len
           /\ f.more => Begin(f) < End(f)
           /\ f.units = Units(k, Begin(f), Len(f.units))
<1>1. Len(f.units) \in Nat
  BY DEF Body
<1>2. Begin(f) \in Nat
  <2>1. CASE f.units = <<>>
    BY <2>1 DEF Begin
  <2>2. CASE f.units # <<>>
    <3>1. f.units[1] \in Nat \X (Nat \ {0})
      BY <2>2 DEF Body
    <3>2. Begin(f) = f.units[1][2] - 1 /\ Begin(f) \in Int
      BY <2>2, <3>1 DEF Begin
    <3>3. Begin(f) >= 0
      BY <3>1, <3>2
    <3> QED  BY <3>2, <3>3
  <2> QED  BY <2>1, <2>2
<1> QED  BY <1>1, <1>2 DEF PartOf, End

-----------------------------------------------------------------------------
(* The inbound side: results on the ring, the reply under way and the body   *)
(* that the caller has received.                                             *)

InInv == ReplyInv /\ ResultInv /\ ResultOrder

(* A frame on the inbound ring.                                             *)
LEMMA InFrameType ==
    ASSUME TypeOK, NEW i \in 1 .. Len(inbound)
    PROVE  /\ inbound[i] \in InFrames /\ inbound[i].units \in Body
           /\ inbound[i].more \in BOOLEAN /\ inbound[i].corr \in Corr
           /\ inbound[i].ok \in BOOLEAN
<1>1. inbound[i] \in InFrames
  BY DEF TypeOK
<1> QED  BY <1>1 DEF InFrames

(* The bounds of a result within the answer it is part of.                  *)
LEMMA ResultBounds ==
    ASSUME TypeOK, ResultInv, NEW i \in 1 .. Len(inbound), Resulting(i)
    PROVE  /\ Begin(inbound[i]) \in Nat /\ End(inbound[i]) \in Nat
           /\ inbound[i].more => Begin(inbound[i]) < End(inbound[i])
           /\ inbound[i].corr \in Id /\ answer[inbound[i].corr] \in Nat
           /\ PartOf(inbound[i], inbound[i].corr, answer[inbound[i].corr])
<1> DEFINE f == inbound[i]
           c == f.corr
<1>1. f.units \in Body /\ f.more \in BOOLEAN
  BY InFrameType
<1>2. c \in Id /\ answer[c] # None /\ PartOf(f, c, answer[c])
  BY DEF ResultInv
<1>3. answer[c] \in Nat /\ c \in Nat
  BY <1>2, CallAssumption DEF TypeOK, Id
<1> HIDE DEF f, c
<1>4. /\ Begin(f) \in Nat /\ End(f) \in Nat
      /\ f.more => Begin(f) < End(f)
  BY <1>1, <1>2, <1>3, PartBounds
<1> QED  BY <1>2, <1>3, <1>4 DEF f, c

(* Nothing is polled and nothing arrives.                                   *)
LEMMA InSame ==
    ASSUME InInv, UNCHANGED <<inbound, reply, chunk, answer, calls>>,
           Polling' => Polling /\ body' = body
    PROVE  InInv'
<1>1. ReplyInv'
  BY DEF InInv, ReplyInv, Resulting, Ours, This
<1>2. ResultInv'
  BY DEF InInv, ResultInv, Resulting, Ours, This
<1>3. ResultOrder'
  BY DEF InInv, ResultOrder, Resulting
<1> QED  BY <1>1, <1>2, <1>3 DEF InInv

(* A frame that does not belong to the body is taken off the ring, or the   *)
(* caller leaves.                                                           *)
LEMMA InDrop ==
    ASSUME TypeOK, InInv, inbound # <<>>, inbound' = Tail(inbound),
           UNCHANGED <<reply, chunk, answer, calls>>,
           Polling' => Polling /\ body' = body /\ ~Ours(1)
    PROVE  InInv'
<1>1. /\ Len(inbound) \in Nat /\ Len(inbound') = Len(inbound) - 1
      /\ \A i \in 1 .. Len(inbound) - 1 : inbound'[i] = inbound[i + 1]
  BY TailIs DEF TypeOK
<1>2. ASSUME NEW i \in 1 .. Len(inbound')
      PROVE  /\ i + 1 \in 1 .. Len(inbound) /\ inbound'[i] = inbound[i + 1]
             /\ Resulting(i)' = Resulting(i + 1)
  BY <1>1 DEF Resulting
<1>3. ReplyInv'
  <2> SUFFICES ASSUME reply # None PROVE ReplyInv'
    BY DEF ReplyInv
  <2>1. chunk' > 0 /\ (~reply'.ok => reply'.off = 0 /\ reply'.len = 0)
    BY DEF InInv, ReplyInv
  <2> SUFFICES ASSUME reply.ok PROVE ReplyInv'
    BY <2>1 DEF ReplyInv
  <2>2. /\ reply'.call = reply'.corr /\ answer'[reply'.call] = reply'.len
        /\ reply'.off < reply'.len \/ reply'.off = 0
    BY DEF InInv, ReplyInv
  <2>3. ASSUME NEW i \in 1 .. Len(inbound'), Resulting(i)', inbound'[i].corr = reply'.corr
        PROVE  inbound'[i].more /\ End(inbound'[i]) =< reply'.off
    BY <1>2, <2>3 DEF InInv, ReplyInv
  <2>4. ASSUME Polling', reply'.call = Len(calls')
        PROVE  \/ reply'.off = Len(body')
               \/ \E i \in 1 .. Len(inbound') : Ours(i)' /\ End(inbound'[i]) = reply'.off
    <3>1. CASE reply.off = Len(body)
      BY <3>1, <2>4
    <3>2. CASE reply.off # Len(body)
      <4>1. PICK i \in 1 .. Len(inbound) : Ours(i) /\ End(inbound[i]) = reply.off
        BY <3>2, <2>4 DEF InInv, ReplyInv, This
      <4>2. i # 1
        BY <4>1, <2>4
      <4>3. i - 1 \in 1 .. Len(inbound') /\ inbound'[i - 1] = inbound[i]
        BY <4>2, <1>1
      <4>4. Ours(i - 1)'
        BY <4>1, <4>3 DEF Ours, Resulting, This
      <4> QED  BY <4>1, <4>3, <4>4
    <3> QED  BY <3>1, <3>2
  <2> QED  BY <2>1, <2>2, <2>3, <2>4, Zenon DEF ReplyInv, This
<1>4. ResultInv'
  <2> SUFFICES ASSUME NEW i \in 1 .. Len(inbound'), Resulting(i)'
               PROVE  /\ inbound'[i].corr \in Id /\ answer'[inbound'[i].corr] # None
                      /\ PartOf(inbound'[i], inbound'[i].corr, answer'[inbound'[i].corr])
                      /\ (Polling' /\ inbound'[i].corr = Len(calls')) =>
                           \/ Begin(inbound'[i]) = Len(body')
                           \/ \E j \in 1 .. Len(inbound') :
                                j < i /\ Ours(j)' /\ End(inbound'[j]) = Begin(inbound'[i])
    BY Zenon DEF ResultInv, This
  <2>1. Resulting(i + 1) /\ i + 1 \in 1 .. Len(inbound) /\ inbound'[i] = inbound[i + 1]
    BY <1>2
  <2>2. /\ inbound'[i].corr \in Id /\ answer'[inbound'[i].corr] # None
        /\ PartOf(inbound'[i], inbound'[i].corr, answer'[inbound'[i].corr])
    BY <2>1 DEF InInv, ResultInv
  <2>3. ASSUME Polling', inbound'[i].corr = Len(calls')
        PROVE  \/ Begin(inbound'[i]) = Len(body')
               \/ \E j \in 1 .. Len(inbound') :
                    j < i /\ Ours(j)' /\ End(inbound'[j]) = Begin(inbound'[i])
    <3>1. \/ Begin(inbound[i + 1]) = Len(body)
          \/ \E j \in 1 .. Len(inbound) :
               j < i + 1 /\ Ours(j) /\ End(inbound[j]) = Begin(inbound[i + 1])
      BY <2>1, <2>3 DEF InInv, ResultInv, This
    <3>2. CASE Begin(inbound[i + 1]) = Len(body)
      BY <3>2, <2>1, <2>3
    <3>3. ASSUME NEW j \in 1 .. Len(inbound), j < i + 1, Ours(j),
                 End(inbound[j]) = Begin(inbound[i + 1])
          PROVE  \E l \in 1 .. Len(inbound') :
                    l < i /\ Ours(l)' /\ End(inbound'[l]) = Begin(inbound'[i])
      <4>1. j # 1
        BY <3>3, <2>3
      <4>2. j - 1 \in 1 .. Len(inbound') /\ j - 1 < i /\ inbound'[j - 1] = inbound[j]
        BY <4>1, <3>3, <1>1
      <4>3. Ours(j - 1)'
        BY <3>3, <4>2 DEF Ours, Resulting, This
      <4> QED  BY <2>1, <3>3, <4>2, <4>3
    <3> QED  BY <3>1, <3>2, <3>3
  <2> QED  BY <2>2, <2>3
<1>5. ResultOrder'
  BY <1>2 DEF InInv, ResultOrder
<1> QED  BY <1>3, <1>4, <1>5 DEF InInv

(* A frame that is no result arrives.                                       *)
LEMMA InStray ==
    ASSUME TypeOK, InInv, NEW f \in InFrames, f.kind # "result",
           inbound' = Append(inbound, f),
           UNCHANGED <<pc, body, reply, chunk, answer, calls>>
    PROVE  InInv'
<1>1. /\ Len(inbound) \in Nat /\ Len(inbound') = Len(inbound) + 1
      /\ inbound'[Len(inbound) + 1] = f
      /\ \A i \in 1 .. Len(inbound) : inbound'[i] = inbound[i]
  BY AppendIs DEF TypeOK
<1>2. ASSUME NEW i \in 1 .. Len(inbound'), Resulting(i)'
      PROVE  i \in 1 .. Len(inbound) /\ inbound'[i] = inbound[i] /\ Resulting(i)
  BY <1>1, <1>2 DEF Resulting
<1>3. ASSUME NEW i \in 1 .. Len(inbound)
      PROVE  /\ i \in 1 .. Len(inbound') /\ inbound'[i] = inbound[i]
             /\ Ours(i)' = Ours(i)
  BY <1>1 DEF Ours, Resulting, This
<1>4. Polling' = Polling /\ This' = This
  BY DEF Polling, This
<1>5. ReplyInv'
  BY <1>2, <1>3, <1>4 DEF InInv, ReplyInv
<1>6. ResultInv'
  BY <1>2, <1>3, <1>4 DEF InInv, ResultInv
<1>7. ResultOrder'
  BY <1>2 DEF InInv, ResultOrder
<1> QED  BY <1>5, <1>6, <1>7 DEF InInv

(* The result that the caller polls is the next part of its answer.         *)
LEMMA NextPart ==
    ASSUME TypeOK, CallerInv, ResultInv, inbound # <<>>, Polling, Ours(1)
    PROVE  /\ Begin(inbound[1]) = Len(body) /\ This \in Id /\ answer[This] \in Nat
           /\ PartOf(inbound[1], This, answer[This])
           /\ End(inbound[1]) \in Nat
           /\ body \o inbound[1].units \in Body
           /\ body \o inbound[1].units = Units(This, 0, End(inbound[1]))
           /\ Len(body \o inbound[1].units) = End(inbound[1])
<1> DEFINE f == inbound[1]
<1>1. 1 \in 1 .. Len(inbound) /\ Resulting(1) /\ f.corr = This
  BY DEF TypeOK, Ours
<1>2. f.units \in Body /\ f.more \in BOOLEAN
  BY <1>1, InFrameType
<1>3. /\ Begin(f) \in Nat /\ This \in Id /\ answer[This] \in Nat
      /\ PartOf(f, This, answer[This])
  BY <1>1, ResultBounds
<1>4. Begin(f) = Len(body)
  BY <1>1 DEF ResultInv
<1>5. This \in Nat /\ Len(body) \in Nat
  BY <1>3, <1>4, CallAssumption DEF Id
<1> HIDE DEF f
<1>6. /\ Len(f.units) \in Nat /\ End(f) \in Nat /\ End(f) = Begin(f) + Len(f.units)
      /\ f.units = Units(This, Begin(f), Len(f.units))
  BY <1>2, <1>3, <1>5, PartBounds
<1>7. body = Units(This, 0, Len(body))
  BY DEF CallerInv
<1>8. body \o f.units = Units(This, 0, Len(body)) \o Units(This, Len(body), Len(f.units))
  BY <1>4, <1>5, <1>6, <1>7
<1>9. body \o f.units = Units(This, 0, Len(body) + Len(f.units))
  BY <1>5, <1>6, <1>8, UnitsGrow
<1>10. body \o f.units = Units(This, 0, End(f))
  BY <1>4, <1>6, <1>9
<1>11. body \o f.units \in Body /\ Len(body \o f.units) = End(f)
  BY <1>5, <1>6, <1>10, BodyUnits
<1> QED  BY <1>3, <1>4, <1>6, <1>10, <1>11 DEF f

(* The caller adds a part to its body: what follows begins where it ends.   *)
LEMMA InPart ==
    ASSUME TypeOK, CallerInv, InInv, inbound # <<>>, inbound' = Tail(inbound),
           Polling, Ours(1), inbound[1].more, body' = body \o inbound[1].units,
           UNCHANGED <<reply, chunk, answer, calls>>
    PROVE  InInv'
<1>1. /\ Len(inbound) \in Nat /\ Len(inbound) >= 1 /\ Len(inbound') = Len(inbound) - 1
      /\ \A i \in 1 .. Len(inbound) - 1 : inbound'[i] = inbound[i + 1]
  BY TailIs DEF TypeOK
<1>2. ASSUME NEW i \in 1 .. Len(inbound')
      PROVE  /\ i + 1 \in 1 .. Len(inbound) /\ inbound'[i] = inbound[i + 1]
             /\ Resulting(i)' = Resulting(i + 1) /\ Ours(i)' = Ours(i + 1)
  BY <1>1 DEF Resulting, Ours, This
<1>3. Begin(inbound[1]) = Len(body) /\ Len(body') = End(inbound[1]) /\ This' = This
  BY NextPart DEF InInv, This
<1>4. 1 \in 1 .. Len(inbound) /\ Resulting(1) /\ inbound[1].corr = This
  BY <1>1 DEF Ours
<1>5. Len(body) \in Nat /\ Len(body') \in Nat /\ Len(body) < Len(body')
  BY <1>3, <1>4, ResultBounds DEF InInv
<1>6. ASSUME NEW j \in 1 .. Len(inbound), Ours(j), End(inbound[j]) # Len(body')
      PROVE  j - 1 \in 1 .. Len(inbound') /\ Ours(j - 1)' /\ inbound'[j - 1] = inbound[j]
  <2>1. j # 1
    BY <1>3, <1>6
  <2>2. j - 1 \in 1 .. Len(inbound') /\ (j - 1) + 1 = j
    BY <2>1, <1>1
  <2> QED  BY <1>2, <1>6, <2>2
<1>7. ReplyInv'
  <2> SUFFICES ASSUME reply # None PROVE ReplyInv'
    BY DEF ReplyInv
  <2>1. chunk' > 0 /\ (~reply'.ok => reply'.off = 0 /\ reply'.len = 0)
    BY DEF InInv, ReplyInv
  <2> SUFFICES ASSUME reply.ok PROVE ReplyInv'
    BY <2>1 DEF ReplyInv
  <2>2. /\ reply'.call = reply'.corr /\ answer'[reply'.call] = reply'.len
        /\ reply'.off < reply'.len \/ reply'.off = 0
    BY DEF InInv, ReplyInv
  <2>3. ASSUME NEW i \in 1 .. Len(inbound'), Resulting(i)', inbound'[i].corr = reply'.corr
        PROVE  inbound'[i].more /\ End(inbound'[i]) =< reply'.off
    BY <1>2, <2>3 DEF InInv, ReplyInv
  <2>4. ASSUME Polling', reply'.call = This'
        PROVE  \/ reply'.off = Len(body')
               \/ \E i \in 1 .. Len(inbound') : Ours(i)' /\ End(inbound'[i]) = reply'.off
    <3>1. End(inbound[1]) =< reply.off /\ reply.off \in Nat
      BY <1>3, <1>4, <2>2, <2>4 DEF InInv, ReplyInv, TypeOK, Reply
    <3>2. reply.off # Len(body)
      BY <3>1, <1>3, <1>5
    <3>3. PICK i \in 1 .. Len(inbound) : Ours(i) /\ End(inbound[i]) = reply.off
      BY <3>2, <1>3, <2>4 DEF InInv, ReplyInv
    <3> QED  BY <3>3, <1>6
  <2> QED  BY <2>1, <2>2, <2>3, <2>4, Zenon DEF ReplyInv
<1>8. ResultInv'
  <2> SUFFICES ASSUME NEW i \in 1 .. Len(inbound'), Resulting(i)'
               PROVE  /\ inbound'[i].corr \in Id /\ answer'[inbound'[i].corr] # None
                      /\ PartOf(inbound'[i], inbound'[i].corr, answer'[inbound'[i].corr])
                      /\ (Polling' /\ inbound'[i].corr = This') =>
                           \/ Begin(inbound'[i]) = Len(body')
                           \/ \E j \in 1 .. Len(inbound') :
                                j < i /\ Ours(j)' /\ End(inbound'[j]) = Begin(inbound'[i])
    BY Zenon DEF ResultInv
  <2>1. Resulting(i + 1) /\ i + 1 \in 1 .. Len(inbound) /\ inbound'[i] = inbound[i + 1]
    BY <1>2
  <2>2. /\ inbound'[i].corr \in Id /\ answer'[inbound'[i].corr] # None
        /\ PartOf(inbound'[i], inbound'[i].corr, answer'[inbound'[i].corr])
    BY <2>1 DEF InInv, ResultInv
  <2>3. ASSUME inbound'[i].corr = This'
        PROVE  \/ Begin(inbound'[i]) = Len(body')
               \/ \E j \in 1 .. Len(inbound') :
                    j < i /\ Ours(j)' /\ End(inbound'[j]) = Begin(inbound'[i])
    <3>1. End(inbound[1]) =< Begin(inbound[i + 1]) /\ Begin(inbound[i + 1]) \in Nat
      BY <1>3, <1>4, <2>1, <2>3, ResultBounds DEF InInv, ResultOrder
    <3>2. Begin(inbound[i + 1]) # Len(body)
      BY <3>1, <1>3, <1>5
    <3>3. PICK j \in 1 .. Len(inbound) :
               j < i + 1 /\ Ours(j) /\ End(inbound[j]) = Begin(inbound[i + 1])
      BY <3>2, <1>3, <2>1, <2>3 DEF InInv, ResultInv
    <3>4. CASE End(inbound[j]) = Len(body')
      BY <3>3, <3>4, <2>1
    <3>5. CASE End(inbound[j]) # Len(body')
      <4>1. j - 1 \in 1 .. Len(inbound') /\ Ours(j - 1)' /\ inbound'[j - 1] = inbound[j]
        BY <3>3, <3>5, <1>6
      <4>2. j - 1 < i
        BY <3>3
      <4> QED  BY <4>1, <4>2, <3>3, <2>1
    <3> QED  BY <3>4, <3>5
  <2> QED  BY <2>2, <2>3
<1>9. ResultOrder'
  BY <1>2 DEF InInv, ResultOrder
<1> QED  BY <1>7, <1>8, <1>9 DEF InInv

(* The handler's answer becomes the reply under way.                        *)
LEMMA InAnswer ==
    ASSUME TypeOK, CallerInv, JobInv, InInv,
           NEW c \in Corr, NEW len \in Answers \cup {None}, ModuleAnswers(c, len)
    PROVE  InInv'
<1>1. /\ job[c] = c /\ answer[c] = None /\ chunk > 0 /\ c \in Id /\ job[c] # None
  <2>1. job[c] # None
    BY DEF ModuleAnswers
  <2>2. job[c] \in Id
    BY <2>1 DEF TypeOK
  <2> QED  BY <2>1, <2>2 DEF JobInv
<1>2. /\ reply' = IF len = None THEN Bodiless(c)
                  ELSE [corr |-> c, call |-> c, ok |-> TRUE, off |-> 0, len |-> len]
      /\ answer' = [answer EXCEPT ![c] = len]
      /\ UNCHANGED <<inbound, chunk, calls, body, pc>>
  BY <1>1, Zenon DEF ModuleAnswers, HostUnchanged, callerVars
<1>3. len \in Nat \cup {None} /\ None \notin Nat /\ answer \in [Id -> Nat \cup {None}]
  BY CallAssumption, NoneAssumption DEF TypeOK
<1>4. ASSUME NEW i \in 1 .. Len(inbound), Resulting(i)
      PROVE  inbound[i].corr \in Id /\ inbound[i].corr # c
  BY <1>1, <1>4 DEF InInv, ResultInv
<1>5. ASSUME NEW k \in Id, k # c PROVE answer'[k] = answer[k]
  BY <1>2, <1>3, <1>5
<1>6. /\ \A i \in 1 .. Len(inbound) : Resulting(i)' = Resulting(i) /\ Ours(i)' = Ours(i)
      /\ inbound' = inbound /\ Polling' = Polling /\ This' = This /\ body' = body
  BY <1>2 DEF Resulting, Ours, Polling, This
<1>7. ReplyInv'
  <2>1. CASE len = None
    <3>1. reply'.ok = FALSE /\ reply'.off = 0 /\ reply'.len = 0 /\ chunk' > 0
      BY <1>1, <1>2, <2>1 DEF Bodiless
    <3> QED  BY <3>1 DEF ReplyInv
  <2>2. CASE len # None
    <3>1. /\ reply'.ok = TRUE /\ reply'.off = 0 /\ reply'.len = len /\ chunk' > 0
          /\ reply'.call = c /\ reply'.corr = c /\ answer'[c] = len
      BY <1>1, <1>2, <1>3, <2>2
    <3>2. c = This => Len(body) = 0
      <4> SUFFICES ASSUME c = This PROVE Len(body) = 0
        OBVIOUS
      <4>1. body = <<>>
        BY <1>1 DEF CallerInv
      <4> QED  BY <4>1
    <3> QED  BY <1>4, <1>6, <3>1, <3>2 DEF ReplyInv
  <2> QED  BY <2>1, <2>2
<1>8. ResultInv'
  BY <1>4, <1>5, <1>6 DEF InInv, ResultInv
<1>9. ResultOrder'
  BY <1>6 DEF InInv, ResultOrder
<1> QED  BY <1>7, <1>8, <1>9 DEF InInv

(* One part of the reply under way reaches the ring.                        *)
LEMMA InReplies ==
    ASSUME TypeOK, CallerInv, InInv, ModuleReplies
    PROVE  InInv' /\ inbound' \in Seq(InFrames) /\ reply' \in Reply \cup {None}
<1> DEFINE part == Part(reply.off, reply.len)
           more == reply.off + part < reply.len
           g == InFrame("result", reply.corr, reply.ok, Units(reply.call, reply.off, part), more)
<1>1. /\ reply # None /\ inbound' = Append(inbound, g)
      /\ reply' = IF more THEN [reply EXCEPT !.off = @ + part] ELSE None
      /\ UNCHANGED <<chunk, calls, body, pc, answer>>
  BY Zenon DEF ModuleReplies, HostUnchanged, callerVars
<1>2. /\ reply \in Reply /\ reply.off \in Nat /\ reply.len \in Nat /\ reply.ok \in BOOLEAN
      /\ reply.corr \in Corr
  BY <1>1 DEF TypeOK, Reply
<1>3. /\ chunk \in Nat \ {0}
      /\ reply.off < reply.len \/ reply.off = 0
      /\ ~reply.ok => reply.off = 0 /\ reply.len = 0
  BY <1>1, <1>2 DEF InInv, ReplyInv, TypeOK
<1>4. /\ part \in Nat /\ reply.off + part =< reply.len
      /\ part > 0 \/ (reply.off = 0 /\ reply.len = 0)
  BY <1>2, <1>3, PartIs
<1>5. /\ g.units = Units(reply.call, reply.off, part) /\ (g.more <=> more)
      /\ g.ok = reply.ok /\ g.kind = "result" /\ g.corr = reply.corr
  BY DEF InFrame
<1> HIDE DEF part, g
<1>6. reply.ok => /\ reply.call = reply.corr /\ reply.call \in Id /\ reply.call \in Nat
                  /\ answer[reply.call] = reply.len
  <2> SUFFICES ASSUME reply.ok
               PROVE  /\ reply.call = reply.corr /\ reply.call \in Id /\ reply.call \in Nat
                      /\ answer[reply.call] = reply.len
    OBVIOUS
  <2>1. reply.call = reply.corr /\ answer[reply.call] = reply.len
    BY <1>1 DEF InInv, ReplyInv
  <2>2. reply.corr \in Nat /\ reply.call \in Id \cup {None}
    BY <1>2, CallAssumption DEF Corr, Reply
  <2>3. reply.call # None
    BY <2>1, <2>2, NoneAssumption
  <2> QED  BY <2>1, <2>2, <2>3
<1>7. g.units \in Body
  <2>1. CASE reply.ok
    <3>1. reply.call \in Nat
      BY <1>6, <2>1
    <3>2. Units(reply.call, reply.off, part) \in Body
      BY <3>1, <1>2, <1>4, UnitsAre
    <3> QED  BY <3>2, <1>5
  <2>2. CASE ~reply.ok
    <3>1. part = 0
      BY <1>3, <1>4, <2>2
    <3>2. g.units = <<>>
      BY <1>5, <3>1, NoUnits
    <3> QED  BY <3>2 DEF Body
  <2> QED  BY <2>1, <2>2
<1>8. g \in InFrames
  <2>1. g = [kind |-> "result", corr |-> reply.corr, ok |-> reply.ok,
             units |-> g.units, more |-> more]
    BY <1>5 DEF g, InFrame
  <2> HIDE DEF more
  <2>2. more \in BOOLEAN
    BY DEF more
  <2> QED  BY <1>2, <1>7, <2>1, <2>2 DEF InFrames
<1>9. reply' \in Reply \cup {None}
  <2>1. CASE more
    <3>1. reply' = [reply EXCEPT !.off = reply.off + part] /\ reply.off + part \in Nat
      BY <1>1, <1>2, <1>4, <2>1
    <3> QED  BY <1>2, <3>1 DEF Reply
  <2>2. CASE ~more
    BY <1>1, <2>2
  <2> QED  BY <2>1, <2>2
<1>10. /\ Len(inbound) \in Nat /\ Len(inbound') = Len(inbound) + 1
       /\ inbound' \in Seq(InFrames) /\ inbound'[Len(inbound) + 1] = g
       /\ \A i \in 1 .. Len(inbound) : inbound'[i] = inbound[i]
  BY <1>1, <1>8, AppendIs DEF TypeOK
<1>11. reply.ok => /\ Begin(g) = reply.off /\ End(g) = reply.off + part
                   /\ PartOf(g, reply.corr, reply.len)
  <2> SUFFICES ASSUME reply.ok
               PROVE  /\ Begin(g) = reply.off /\ End(g) = reply.off + part
                      /\ PartOf(g, reply.corr, reply.len)
    OBVIOUS
  <2>1. /\ Begin(g) = reply.off /\ End(g) = reply.off + part /\ Len(g.units) = part
    BY <1>2, <1>4, <1>5, <1>6, BoundsAre
  <2>2. g.units = Units(reply.corr, Begin(g), Len(g.units))
    BY <1>5, <1>6, <2>1
  <2>3. End(g) =< reply.len /\ (g.more <=> End(g) < reply.len)
    BY <1>4, <1>5, <2>1
  <2>4. g.more => Len(g.units) > 0
    BY <1>2, <1>4, <1>5, <2>1
  <2> QED  BY <2>1, <2>2, <2>3, <2>4 DEF PartOf
<1>12. ASSUME NEW i \in 1 .. Len(inbound)
       PROVE  /\ i \in 1 .. Len(inbound') /\ inbound'[i] = inbound[i]
              /\ Resulting(i)' = Resulting(i) /\ Ours(i)' = Ours(i)
  BY <1>1, <1>10 DEF Resulting, Ours, This
<1>13. Polling' = Polling /\ This' = This /\ body' = body /\ answer' = answer /\ chunk' = chunk
  BY <1>1 DEF Polling, This
<1>14. ASSUME NEW i \in 1 .. Len(inbound'), Resulting(i)'
       PROVE  \/ i \in 1 .. Len(inbound) /\ Resulting(i)
              \/ i = Len(inbound) + 1 /\ inbound'[i] = g /\ reply.ok
  BY <1>5, <1>10, <1>12, <1>14 DEF Resulting
<1>15. ReplyInv'
  <2> SUFFICES ASSUME reply' # None PROVE ReplyInv'
    BY DEF ReplyInv
  <2>1. more /\ reply' = [reply EXCEPT !.off = reply.off + part]
    BY <1>1
  <2>2. /\ reply'.off = reply.off + part /\ reply'.ok = reply.ok /\ reply'.len = reply.len
        /\ reply'.call = reply.call /\ reply'.corr = reply.corr
    BY <1>2, <2>1 DEF Reply
  <2>3. reply.ok
    BY <1>2, <1>3, <1>4, <2>1
  <2>4. ASSUME NEW i \in 1 .. Len(inbound'), Resulting(i)', inbound'[i].corr = reply'.corr
        PROVE  inbound'[i].more /\ End(inbound'[i]) =< reply'.off
    <3>1. CASE i = Len(inbound) + 1
      <4>1. inbound'[i] = g /\ g.more
        BY <3>1, <1>5, <1>10, <2>1
      <4>2. End(g) =< reply'.off
        BY <1>2, <1>4, <1>11, <2>2, <2>3
      <4> QED  BY <4>1, <4>2
    <3>2. CASE i \in 1 .. Len(inbound) /\ Resulting(i)
      <4>1. inbound[i].more /\ End(inbound[i]) =< reply.off
        BY <3>2, <1>1, <1>12, <2>2, <2>3, <2>4 DEF InInv, ReplyInv
      <4>2. End(inbound[i]) \in Nat
        BY <3>2, ResultBounds DEF InInv
      <4> QED  BY <3>2, <4>1, <4>2, <1>2, <1>4, <1>12, <2>2
    <3> QED  BY <3>1, <3>2, <2>4, <1>14
  <2>5. ASSUME Polling', reply'.call = This'
        PROVE  \E i \in 1 .. Len(inbound') : Ours(i)' /\ End(inbound'[i]) = reply'.off
    <3>0. PICK n \in Nat : n = Len(inbound) + 1
      BY <1>10
    <3>1. Ours(n)'
      <4>1. g.kind = "result" /\ g.ok /\ g.corr = This'
        BY <1>5, <1>6, <2>2, <2>3, <2>5
      <4> QED  BY <3>0, <4>1, <1>10 DEF Ours, Resulting
    <3>2. n \in 1 .. Len(inbound') /\ inbound'[n] = g
      BY <3>0, <1>10
    <3>3. End(g) = reply'.off
      BY <1>11, <2>2, <2>3
    <3> QED  BY <3>1, <3>2, <3>3, Zenon
  <2>6. /\ chunk' > 0 /\ reply'.call = reply'.corr /\ answer'[reply'.call] = reply'.len
        /\ reply'.off < reply'.len /\ reply'.ok
    BY <1>3, <1>6, <1>13, <2>1, <2>2, <2>3
  <2> QED  BY <2>4, <2>5, <2>6, Zenon DEF ReplyInv
<1>16. ResultInv'
  <2> SUFFICES ASSUME NEW i \in 1 .. Len(inbound'), Resulting(i)'
               PROVE  /\ inbound'[i].corr \in Id /\ answer'[inbound'[i].corr] # None
                      /\ PartOf(inbound'[i], inbound'[i].corr, answer'[inbound'[i].corr])
                      /\ (Polling' /\ inbound'[i].corr = This') =>
                           \/ Begin(inbound'[i]) = Len(body')
                           \/ \E j \in 1 .. Len(inbound') :
                                j < i /\ Ours(j)' /\ End(inbound'[j]) = Begin(inbound'[i])
    BY Zenon DEF ResultInv
  <2>1. CASE i \in 1 .. Len(inbound) /\ Resulting(i)
    BY <2>1, <1>12, <1>13 DEF InInv, ResultInv
  <2>2. CASE i = Len(inbound) + 1 /\ inbound'[i] = g /\ reply.ok
    <3>1. /\ g.corr \in Id /\ answer'[g.corr] # None /\ PartOf(g, g.corr, answer'[g.corr])
      BY <2>2, <1>2, <1>5, <1>6, <1>11, <1>13, NoneAssumption
    <3>2. ASSUME Polling', g.corr = This'
          PROVE  \/ Begin(g) = Len(body')
                 \/ \E j \in 1 .. Len(inbound') :
                      j < i /\ Ours(j)' /\ End(inbound'[j]) = Begin(g)
      <4>1. \/ reply.off = Len(body)
            \/ \E j \in 1 .. Len(inbound) : Ours(j) /\ End(inbound[j]) = reply.off
        BY <3>2, <2>2, <1>1, <1>5, <1>6, <1>13 DEF InInv, ReplyInv
      <4>2. \A j \in 1 .. Len(inbound) : j < i
        BY <2>2, <1>10
      <4> QED  BY <4>1, <4>2, <2>2, <1>11, <1>12, <1>13
    <3> QED  BY <2>2, <3>1, <3>2
  <2> QED  BY <2>1, <2>2, <1>14
<1>17. ResultOrder'
  <2> SUFFICES ASSUME NEW i \in 1 .. Len(inbound'), NEW j \in 1 .. Len(inbound'), i < j,
                      Resulting(i)', Resulting(j)', inbound'[i].corr = inbound'[j].corr
               PROVE  inbound'[i].more /\ End(inbound'[i]) =< Begin(inbound'[j])
    BY Zenon DEF ResultOrder
  <2>1. i \in 1 .. Len(inbound) /\ Resulting(i)
    BY <1>10, <1>14
  <2>2. CASE j \in 1 .. Len(inbound) /\ Resulting(j)
    BY <2>1, <2>2, <1>12 DEF InInv, ResultOrder
  <2>3. CASE j = Len(inbound) + 1 /\ inbound'[j] = g /\ reply.ok
    <3>1. inbound[i].more /\ End(inbound[i]) =< reply.off
      BY <2>1, <2>3, <1>1, <1>5, <1>12 DEF InInv, ReplyInv
    <3> QED  BY <2>1, <2>3, <3>1, <1>11, <1>12
  <2> QED  BY <2>2, <2>3, <1>14
<1> QED  BY <1>9, <1>10, <1>15, <1>16, <1>17 DEF InInv

-----------------------------------------------------------------------------
(* The outbound side: requests and cancels on the ring, and what the module  *)
(* has assembled.                                                            *)

OutInv == /\ RequestInv /\ JoinInv /\ RestInv /\ CancelInv /\ OrderInv
          /\ LastInv /\ AssemblyInv

(* A request frame on the outbound ring.                                    *)
LEMMA RequestIs ==
    ASSUME TypeOK, CallerInv, RequestInv, NEW i \in 1 .. Len(outbound), Requesting(i)
    PROVE  LET f == outbound[i]
               k == f.call
           IN /\ f.corr = k /\ k \in Id /\ k \in Corr /\ k \in Nat /\ k \in 1 .. This
              /\ chunk > 0 /\ runs[k] = 0 /\ calls[k] \in Nat
              /\ f.more \in BOOLEAN /\ f.units \in Body
              /\ PartOf(f, k, calls[k])
              /\ Begin(f) \in Nat /\ End(f) \in Nat /\ End(f) =< calls[k]
              /\ Len(f.units) \in Nat /\ End(f) = Begin(f) + Len(f.units)
              /\ f.units = Units(k, Begin(f), Len(f.units))
              /\ f.more <=> End(f) < calls[k]
              /\ f.more => Begin(f) < End(f)
              /\ (k = This /\ pc = "send") => (f.more /\ offset > 0)
<1> DEFINE f == outbound[i]
           k == f.call
<1>1. f \in OutFrame /\ f.op = "request"
  BY DEF TypeOK, Requesting
<1>2. k \in Id /\ f.more \in BOOLEAN /\ f.units \in Body
  BY <1>1 DEF OutFrame
<1>3. /\ f.corr = k /\ k =< This /\ chunk > 0 /\ runs[k] = 0
      /\ PartOf(f, k, calls[k])
      /\ (k = This /\ pc = "send") => (f.more /\ offset > 0)
  BY DEF RequestInv
<1>4. k \in Nat /\ k \in Corr /\ k \in 1 .. This /\ calls[k] \in Nat
  BY <1>2, <1>3, CallAssumption DEF Id, Corr, TypeOK, This
<1> HIDE DEF f, k
<1>5. /\ Begin(f) \in Nat /\ End(f) \in Nat /\ Len(f.units) \in Nat
      /\ End(f) = Begin(f) + Len(f.units) /\ End(f) =< calls[k]
      /\ f.more <=> End(f) < calls[k]
      /\ f.more => Begin(f) < End(f)
      /\ f.units = Units(k, Begin(f), Len(f.units))
  BY <1>2, <1>3, <1>4, PartBounds
<1> QED  BY <1>2, <1>3, <1>4, <1>5 DEF f, k

(* Nothing is sent and nothing is taken.                                    *)
LEMMA OutSame ==
    ASSUME OutInv, UNCHANGED <<outbound, calls, chunk, runs, asm, route, note>>,
           \/ pc' = pc /\ offset' = offset
           \/ pc # "send" /\ pc' # "send"
    PROVE  OutInv'
<1>0. /\ \A k : Sending(k)' <=> Sending(k)
      /\ \A i : Requesting(i)' <=> Requesting(i)
      /\ This' = This /\ (pc' = "send" <=> pc = "send")
      /\ pc = "send" => offset' = offset
  BY DEF Sending, Requesting, This
<1>1. RequestInv'
  BY <1>0 DEF OutInv, RequestInv
<1>2. JoinInv'
  BY <1>0 DEF OutInv, JoinInv
<1>3. RestInv'
  BY <1>0 DEF OutInv, RestInv
<1>4. CancelInv'
  BY <1>0 DEF OutInv, CancelInv
<1>5. OrderInv'
  BY <1>0 DEF OutInv, OrderInv
<1>6. LastInv'
  BY <1>0 DEF OutInv, LastInv, Sending, Requesting
<1>7. AssemblyInv'
  BY <1>0 DEF OutInv, AssemblyInv
<1> QED  BY <1>1, <1>2, <1>3, <1>4, <1>5, <1>6, <1>7 DEF OutInv

(* The first frame is taken off the ring: what follows keeps its order.     *)
LEMMA OutTail ==
    ASSUME TypeOK, OutInv, outbound # <<>>, outbound' = Tail(outbound),
           UNCHANGED <<calls, chunk, pc, offset>>,
           note'["half"] = note["half"], note'["left"] = note["left"],
           note'["uncancelled"] = note["uncancelled"],
           \A i \in 2 .. Len(outbound) : Requesting(i) => runs'[outbound[i].call] = 0
    PROVE  /\ Len(outbound) \in Nat /\ Len(outbound) >= 1
           /\ Len(outbound') = Len(outbound) - 1
           /\ \A i \in 1 .. Len(outbound') :
                /\ i + 1 \in 2 .. Len(outbound) /\ outbound'[i] = outbound[i + 1]
                /\ Requesting(i)' = Requesting(i + 1)
           /\ RequestInv' /\ RestInv' /\ CancelInv' /\ OrderInv'
<1>1. /\ Len(outbound) \in Nat /\ Len(outbound) >= 1 /\ Len(outbound') = Len(outbound) - 1
      /\ \A i \in 1 .. Len(outbound) - 1 : outbound'[i] = outbound[i + 1]
  BY TailIs DEF TypeOK
<1>2. ASSUME NEW i \in 1 .. Len(outbound')
      PROVE  /\ i + 1 \in 2 .. Len(outbound) /\ i + 1 \in 1 .. Len(outbound)
             /\ outbound'[i] = outbound[i + 1]
             /\ Requesting(i)' = Requesting(i + 1)
  BY <1>1 DEF Requesting
<1>3. This' = This /\ \A k : Sending(k)' = Sending(k)
  BY DEF This, Sending
<1>4. RequestInv'
  BY <1>2, <1>3 DEF OutInv, RequestInv
<1>5. RestInv'
  <2> SUFFICES ASSUME NEW i \in 1 .. Len(outbound'), Requesting(i)', outbound'[i].more
               PROVE  \/ /\ i < Len(outbound') /\ Requesting(i + 1)'
                         /\ outbound'[i + 1].call = outbound'[i].call
                      \/ i = Len(outbound') /\ Sending(outbound[i].call)'
                      \/ outbound'[i].call \in note'["half"]
    BY Zenon DEF RestInv
  <2>1. /\ i + 1 \in 1 .. Len(outbound) /\ Requesting(i + 1) /\ outbound[i + 1].more
        /\ outbound'[i] = outbound[i + 1]
    BY <1>2
  <2>2. \/ /\ i + 1 < Len(outbound) /\ Requesting(i + 2)
           /\ outbound[i + 2].call = outbound[i + 1].call
        \/ i + 1 = Len(outbound) /\ Sending(outbound[i + 1].call)
        \/ outbound[i + 1].call \in note["half"]
    BY <2>1 DEF OutInv, RestInv
  <2>3. CASE i + 1 < Len(outbound) /\ Requesting(i + 2)
             /\ outbound[i + 2].call = outbound[i + 1].call
    <3>1. i + 1 \in 1 .. Len(outbound') /\ i < Len(outbound')
      BY <2>3, <1>1
    <3>2. outbound'[i + 1] = outbound[i + 2] /\ Requesting(i + 1)'
      BY <3>1, <2>3, <1>1 DEF Requesting
    <3> QED  BY <3>1, <3>2, <2>1, <2>3
  <2>4. CASE i + 1 = Len(outbound) /\ Sending(outbound[i + 1].call)
    BY <2>4, <2>1, <1>1, <1>3 DEF Sending, This
  <2>5. CASE outbound[i + 1].call \in note["half"]
    BY <2>5, <2>1
  <2> QED  BY <2>2, <2>3, <2>4, <2>5
<1>6. CancelInv'
  <2> SUFFICES ASSUME NEW i \in 1 .. Len(outbound'), Requesting(i)',
                      outbound'[i].call \in note'["left"]
               PROVE  \/ outbound'[i].call \in note'["uncancelled"]
                      \/ \E j \in 1 .. Len(outbound') :
                           j > i /\ outbound'[j] = [op |-> "cancel", corr |-> outbound'[i].call]
    BY Zenon DEF CancelInv
  <2>1. /\ i + 1 \in 1 .. Len(outbound) /\ Requesting(i + 1)
        /\ outbound'[i] = outbound[i + 1]
    BY <1>2
  <2>2. CASE outbound[i + 1].call \in note["uncancelled"]
    BY <2>1, <2>2
  <2>3. CASE outbound[i + 1].call \notin note["uncancelled"]
    <3>1. PICK j \in 1 .. Len(outbound) :
            j > i + 1 /\ outbound[j] = [op |-> "cancel", corr |-> outbound[i + 1].call]
      BY <2>1, <2>3 DEF OutInv, CancelInv
    <3>2. j - 1 \in 1 .. Len(outbound') /\ j - 1 > i /\ outbound'[j - 1] = outbound[j]
      BY <3>1, <1>1
    <3> QED  BY <2>1, <3>1, <3>2
  <2> QED  BY <2>2, <2>3
<1>7. OrderInv'
  BY <1>2 DEF OutInv, OrderInv
<1> QED  BY <1>1, <1>2, <1>4, <1>5, <1>6, <1>7

(* A request frame is taken, by the host or by the module.  X is what       *)
(* becomes of the assembly of its call: the request so far, or None when    *)
(* the frame is the last one or was refused.                                *)
LEMMA OutTaken ==
    ASSUME TypeOK, CallerInv, OutInv, outbound # <<>>, Requesting(1),
           outbound' = Tail(outbound), UNCHANGED <<callerVars, chunk, route, answer>>,
           NEW k, k = outbound[1].call, NEW X, asm' = [asm EXCEPT ![k] = X],
           note'["half"] = note["half"], note'["left"] = note["left"],
           note'["uncancelled"] = note["uncancelled"], note["bounced"] \subseteq note'["bounced"],
           \A j \in Id : (j # k \/ outbound[1].more) => runs'[j] = runs[j],
           X # None => /\ outbound[1].more /\ route = "served" /\ X # <<>> /\ X[1][1] = k
                       /\ k \notin note'["bounced"] => X = Units(k, 0, End(outbound[1])),
           X = None => ~outbound[1].more \/ k \in note'["bounced"] \/ route # "served"
    PROVE  CallerInv' /\ OutInv'
<1>0. Len(outbound) \in Nat /\ 1 \in 1 .. Len(outbound) /\ Len(outbound) >= 1
  BY TailIs DEF TypeOK
<1>1. k \in Id /\ k \in Corr /\ k \in 1 .. This /\ asm'[k] = X
      /\ ((k = This /\ pc = "send") => (outbound[1].more /\ offset > 0))
  <2>1. k \in Id /\ k \in Corr /\ k \in 1 .. This
        /\ ((k = This /\ pc = "send") => (outbound[1].more /\ offset > 0))
    BY <1>0, RequestIs DEF OutInv
  <2> QED  BY <2>1 DEF TypeOK
<1>2. ASSUME NEW c \in Corr, c # k PROVE asm'[c] = asm[c]
  BY <1>2 DEF TypeOK
<1>3. ASSUME NEW i \in 2 .. Len(outbound), Requesting(i), outbound[i].call = k
      PROVE  outbound[1].more /\ Begin(outbound[i]) > 0
  BY <1>0, <1>3 DEF OutInv, OrderInv
<1>4. ASSUME NEW i \in 2 .. Len(outbound), Requesting(i)
      PROVE  /\ outbound[i].call \in Id /\ outbound[i].call \in Corr
             /\ runs'[outbound[i].call] = 0
  <2>1. i \in 1 .. Len(outbound)
    BY <1>0
  <2>2. /\ outbound[i].call \in Id /\ outbound[i].call \in Corr
        /\ runs[outbound[i].call] = 0
    BY <2>1, <1>4, RequestIs DEF OutInv
  <2> QED  BY <1>3, <1>4, <2>2
<1>5. UNCHANGED <<calls, pc, offset, body, correlation>>
  BY DEF callerVars
<1>6. /\ Len(outbound') = Len(outbound) - 1
      /\ \A i \in 1 .. Len(outbound') :
                /\ i + 1 \in 2 .. Len(outbound) /\ outbound'[i] = outbound[i + 1]
                /\ Requesting(i)' = Requesting(i + 1)
      /\ RequestInv' /\ RestInv' /\ CancelInv' /\ OrderInv'
  BY <1>4, <1>5, OutTail
<1>7. This' = This /\ \A c : Sending(c)' <=> Sending(c)
  BY <1>5 DEF This, Sending
<1>8. CallerInv'
  <2>1. pc = "send" => This \in Id
    BY CallAssumption DEF CallerInv, Id, This, TypeOK
  <2>2. pc' = "send" => runs'[This] = 0
    BY <2>1, <1>1, <1>5 DEF CallerInv
  <2>3. pc' = "send" /\ offset' = 0 => asm'[This] = None
    <3> SUFFICES ASSUME pc = "send", offset = 0 PROVE asm'[This] = None
      BY <1>5
    <3>1. This # k /\ This \in Corr
      BY <1>1, <2>1 DEF Id, Corr
    <3> QED  BY <3>1, <1>2 DEF CallerInv
  <2> QED  BY <2>2, <2>3, <1>5, <1>7 DEF CallerInv, Length
<1>9. JoinInv'
  <2> SUFFICES ASSUME NEW i \in 1 .. Len(outbound'), Requesting(i)'
               PROVE  LET f == outbound'[i]
                          c == f.call
                      IN /\ Begin(f) = 0 => asm'[c] = None
                         /\ (Begin(f) > 0 /\ i = 1 /\ route' = "served"
                              /\ c \notin note'["bounced"]) => asm'[c] = Units(c, 0, Begin(f))
                         /\ (Begin(f) > 0 /\ i > 1) =>
                              /\ Requesting(i - 1)' /\ outbound'[i - 1].call = c
                              /\ End(outbound'[i - 1]) = Begin(f)
    BY Zenon DEF JoinInv
  <2> DEFINE f == outbound[i + 1]
             c == f.call
  <2>1. i + 1 \in 2 .. Len(outbound) /\ outbound'[i] = f /\ Requesting(i + 1)
    BY <1>6
  <2>2. i + 1 \in 1 .. Len(outbound) /\ c \in Corr
    BY <2>1, <1>4
  <2>3. ASSUME Begin(f) = 0 PROVE asm'[c] = None
    <3>1. c # k
      BY <2>1, <2>3, <1>3
    <3>2. asm[c] = None
      BY <2>1, <2>2, <2>3 DEF OutInv, JoinInv
    <3> QED  BY <3>1, <3>2, <2>2, <1>2
  <2>4. ASSUME Begin(f) > 0
        PROVE  Requesting(i) /\ outbound[i].call = c /\ End(outbound[i]) = Begin(f)
    BY <2>1, <2>2, <2>4 DEF OutInv, JoinInv
  <2>5. ASSUME Begin(f) > 0, i = 1, route' = "served", c \notin note'["bounced"]
        PROVE  asm'[c] = Units(c, 0, Begin(f))
    <3>1. c = k /\ End(outbound[1]) = Begin(f)
      BY <2>4, <2>5
    <3>2. outbound[1].more
      BY <3>1, <2>1, <1>3
    <3>3. X # None
      BY <2>5, <3>1, <3>2
    <3> QED  BY <2>5, <3>1, <3>3, <1>1
  <2>6. ASSUME Begin(f) > 0, i > 1
        PROVE  /\ Requesting(i - 1)' /\ outbound'[i - 1].call = c
               /\ End(outbound'[i - 1]) = Begin(f)
    <3>1. i - 1 \in 1 .. Len(outbound') /\ outbound'[i - 1] = outbound[i]
      BY <2>6, <1>6
    <3> QED  BY <2>4, <2>6, <3>1 DEF Requesting
  <2> HIDE DEF f, c
  <2> QED  BY <2>1, <2>3, <2>5, <2>6 DEF c
<1>10. LastInv'
  <2> SUFFICES ASSUME Sending(This) PROVE LastInv'
    BY <1>7 DEF LastInv
  <2>1. /\ Requesting(Len(outbound)) /\ outbound[Len(outbound)].call = This
        /\ End(outbound[Len(outbound)]) = offset
    BY DEF OutInv, LastInv
  <2>2. ASSUME outbound' = <<>>, route' = "served", This' \notin note'["bounced"]
        PROVE  asm'[This] = Units(This, 0, offset')
    <3>1. Len(outbound) = 1
      BY <2>2, TailIs DEF TypeOK
    <3>2. This = k /\ End(outbound[1]) = offset /\ outbound[1].more
      BY <2>1, <3>1, <1>1 DEF Sending
    <3> QED  BY <3>2, <2>2, <1>1, <1>5, <1>7
  <2>3. ASSUME outbound' # <<>>
        PROVE  /\ outbound'[Len(outbound')] = outbound[Len(outbound)]
               /\ Len(outbound') \in 1 .. Len(outbound')
    <3>1. Len(outbound') # 0
      BY <2>3, TailIs DEF TypeOK
    <3> QED  BY <3>1, <1>0, <1>6
  <2>4. ASSUME outbound' # <<>> PROVE Requesting(Len(outbound))'
    BY <2>1, <2>3, <2>4 DEF Requesting
  <2> QED  BY <2>1, <2>2, <2>3, <2>4, <1>5, <1>7 DEF LastInv
<1>11. AssemblyInv'
  <2> SUFFICES ASSUME NEW c \in Corr, asm'[c] # None
               PROVE  /\ route' = "served" /\ asm'[c] # <<>> /\ asm'[c][1][1] = c
                      /\ \/ outbound' = <<>> /\ Sending(c)'
                         \/ c \in note'["half"]
                         \/ outbound' # <<>> /\ Requesting(1)' /\ outbound'[1].call = c
    BY Zenon DEF AssemblyInv
  <2>1. CASE c = k
    <3>1. route' = "served" /\ asm'[c] # <<>> /\ asm'[c][1][1] = c /\ outbound[1].more
      BY <2>1, <1>1
    <3>2. \/ 1 < Len(outbound) /\ Requesting(2) /\ outbound[2].call = k
          \/ 1 = Len(outbound) /\ Sending(k)
          \/ k \in note["half"]
      <4>1. \/ 1 < Len(outbound) /\ Requesting(1 + 1) /\ outbound[1 + 1].call = outbound[1].call
            \/ 1 = Len(outbound) /\ Sending(outbound[1].call)
            \/ outbound[1].call \in note["half"]
        BY <1>0, <3>1, Zenon DEF OutInv, RestInv
      <4>2. 1 + 1 = 2
        OBVIOUS
      <4> QED  BY <4>1, <4>2, Zenon
    <3>3. CASE 1 < Len(outbound) /\ Requesting(2) /\ outbound[2].call = k
      <4>1. outbound' # <<>>
        <5>1. outbound \in Seq(OutFrame) /\ Len(outbound) # 1
          BY <3>3 DEF TypeOK
        <5> QED  BY <5>1, TailIs
      <4>2. outbound'[1] = outbound[2]
        BY <3>3, <1>0, <1>6
      <4> QED  BY <2>1, <3>1, <3>3, <4>1, <4>2 DEF Requesting
    <3>4. CASE 1 = Len(outbound) /\ Sending(k)
      <4>1. outbound' = <<>>
        BY <3>4, TailIs DEF TypeOK
      <4> QED  BY <2>1, <3>1, <3>4, <4>1, <1>7
    <3>5. CASE k \in note["half"]
      BY <2>1, <3>1, <3>5
    <3> QED  BY <3>2, <3>3, <3>4, <3>5
  <2>2. CASE c # k
    <3>1. asm[c] = asm'[c] /\ asm[c] # None
      BY <2>2, <1>2
    <3>2. /\ route = "served" /\ asm[c] # <<>> /\ asm[c][1][1] = c
          /\ c \in note["half"]
      BY <2>2, <3>1 DEF OutInv, AssemblyInv
    <3> QED  BY <3>1, <3>2
  <2> QED  BY <2>1, <2>2
<1> QED  BY <1>6, <1>8, <1>9, <1>10, <1>11 DEF OutInv

(* A cancel is taken: it is not followed by the rest of a request.          *)
LEMMA OutCancelled ==
    ASSUME TypeOK, CallerInv, OutInv, ModuleCancel
    PROVE  CallerInv' /\ OutInv'
<1> DEFINE c == outbound[1].corr
<1>1. /\ outbound # <<>> /\ outbound' = Tail(outbound) /\ Head(outbound).op = "cancel"
      /\ asm' = [asm EXCEPT ![Head(outbound).corr] = None]
      /\ UNCHANGED <<callerVars, chunk, route, answer, runs, note>>
  BY Zenon DEF ModuleCancel, Taking, Take, HostUnchanged
<1>2. /\ Len(outbound) \in Nat /\ Len(outbound) >= 1 /\ Head(outbound) = outbound[1]
      /\ 1 \in 1 .. Len(outbound)
  BY <1>1, TailIs DEF TypeOK
<1>3. ~Requesting(1)
  BY <1>1, <1>2 DEF Requesting
<1>4. ASSUME NEW d \in Corr PROVE asm'[d] = asm[d] \/ asm'[d] = None
  BY <1>1 DEF TypeOK
<1>5. UNCHANGED <<calls, pc, offset, body, correlation>>
  BY <1>1 DEF callerVars
<1>6. ASSUME NEW i \in 2 .. Len(outbound), Requesting(i)
      PROVE  outbound[i].call \in Corr /\ runs'[outbound[i].call] = 0
  <2>1. i \in 1 .. Len(outbound)
    BY <1>2
  <2> QED  BY <2>1, <1>1, <1>6, RequestIs DEF OutInv
<1>7. /\ Len(outbound') = Len(outbound) - 1
      /\ \A i \in 1 .. Len(outbound') :
                /\ i + 1 \in 2 .. Len(outbound) /\ outbound'[i] = outbound[i + 1]
                /\ Requesting(i)' = Requesting(i + 1)
      /\ RequestInv' /\ RestInv' /\ CancelInv' /\ OrderInv'
  BY <1>1, <1>5, <1>6, OutTail
<1>8. This' = This /\ \A d : Sending(d)' <=> Sending(d)
  BY <1>5 DEF This, Sending
<1>9. CallerInv'
  <2>1. pc = "send" => This \in Corr
    BY CallAssumption DEF CallerInv, Corr, This, TypeOK
  <2>2. pc' = "send" /\ offset' = 0 => asm'[This] = None
    BY <2>1, <1>4, <1>5 DEF CallerInv
  <2> QED  BY <2>2, <1>1, <1>5, <1>8 DEF CallerInv, Length
<1>10. JoinInv'
  <2> SUFFICES ASSUME NEW i \in 1 .. Len(outbound'), Requesting(i)'
               PROVE  LET f == outbound'[i]
                          d == f.call
                      IN /\ Begin(f) = 0 => asm'[d] = None
                         /\ (Begin(f) > 0 /\ i = 1 /\ route' = "served"
                              /\ d \notin note'["bounced"]) => asm'[d] = Units(d, 0, Begin(f))
                         /\ (Begin(f) > 0 /\ i > 1) =>
                              /\ Requesting(i - 1)' /\ outbound'[i - 1].call = d
                              /\ End(outbound'[i - 1]) = Begin(f)
    BY Zenon DEF JoinInv
  <2> DEFINE f == outbound[i + 1]
             d == f.call
  <2>1. i + 1 \in 2 .. Len(outbound) /\ outbound'[i] = f /\ Requesting(i + 1)
    BY <1>7
  <2>2. i + 1 \in 1 .. Len(outbound) /\ d \in Corr
    BY <2>1, <1>6
  <2>3. ASSUME Begin(f) = 0 PROVE asm'[d] = None
    <3>1. asm[d] = None
      BY <2>1, <2>2, <2>3 DEF OutInv, JoinInv
    <3> QED  BY <3>1, <2>2, <1>4
  <2>4. ASSUME Begin(f) > 0
        PROVE  Requesting(i) /\ outbound[i].call = d /\ End(outbound[i]) = Begin(f)
    BY <2>1, <2>2, <2>4 DEF OutInv, JoinInv
  <2>5. Begin(f) > 0 => i # 1
    BY <2>4, <1>3
  <2>6. ASSUME Begin(f) > 0, i > 1
        PROVE  /\ Requesting(i - 1)' /\ outbound'[i - 1].call = d
               /\ End(outbound'[i - 1]) = Begin(f)
    <3>1. i - 1 \in 1 .. Len(outbound') /\ outbound'[i - 1] = outbound[i]
      BY <2>6, <1>7
    <3> QED  BY <2>4, <2>6, <3>1 DEF Requesting
  <2> HIDE DEF f, d
  <2> QED  BY <2>1, <2>3, <2>5, <2>6 DEF d
<1>11. LastInv'
  <2> SUFFICES ASSUME Sending(This) PROVE LastInv'
    BY <1>8 DEF LastInv
  <2>1. /\ Requesting(Len(outbound)) /\ outbound[Len(outbound)].call = This
        /\ End(outbound[Len(outbound)]) = offset
    BY <1>1 DEF OutInv, LastInv
  <2>2. Len(outbound) > 1
    BY <2>1, <1>2, <1>3
  <2>3. outbound' # <<>>
    BY <2>2, <1>1, TailIs DEF TypeOK
  <2>4. outbound'[Len(outbound')] = outbound[Len(outbound)]
    BY <2>2, <1>2, <1>7
  <2>5. Requesting(Len(outbound))'
    BY <2>1, <2>4 DEF Requesting
  <2> QED  BY <2>1, <2>3, <2>4, <2>5, <1>5, <1>8 DEF LastInv
<1>12. AssemblyInv'
  <2> SUFFICES ASSUME NEW d \in Corr, asm'[d] # None
               PROVE  /\ route' = "served" /\ asm'[d] # <<>> /\ asm'[d][1][1] = d
                      /\ d \in note'["half"]
    BY Zenon DEF AssemblyInv
  <2>1. asm'[d] = asm[d] /\ asm[d] # None
    BY <1>4
  <2> QED  BY <2>1, <1>1, <1>3 DEF OutInv, AssemblyInv
<1> QED  BY <1>7, <1>9, <1>10, <1>11, <1>12 DEF OutInv

(* A new call: nothing of it is on the ring, assembled or has run.          *)
LEMMA OutCall ==
    ASSUME TypeOK, CallerInv, JobInv, OutInv, NEW len \in Nat, NEW deadline, Call(len, deadline)
    PROVE  CallerInv' /\ OutInv'
<1>1. /\ pc = "idle" /\ Len(calls) < MaxCalls /\ pc' = "send"
      /\ correlation' = correlation + 1 /\ calls' = Append(calls, len)
      /\ UNCHANGED <<offset, body, outbound, chunk, route, asm, runs, answer, note>>
  BY Zenon DEF Call, This, NextCorrelation, sharedVars, moduleVars
<1>2. /\ Len(calls) \in Nat /\ Len(calls') = Len(calls) + 1
      /\ \A k \in 1 .. Len(calls) : calls'[k] = calls[k]
      /\ calls'[Len(calls) + 1] = len
  BY <1>1, AppendIs DEF TypeOK
<1>3. offset = 0 /\ body = <<>> /\ This' = This + 1 /\ correlation = This /\ This = Len(calls)
  BY <1>1, <1>2 DEF CallerInv, This
<1>4. This + 1 \in Id /\ This + 1 \in Corr
  BY <1>1, <1>2, <1>3, CallAssumption DEF Id, Corr
<1>5. ASSUME NEW i \in 1 .. Len(outbound), Requesting(i)
      PROVE  outbound[i].call \in 1 .. This /\ calls'[outbound[i].call] = calls[outbound[i].call]
  <2>1. outbound[i].call \in 1 .. This
    BY <1>5, RequestIs DEF OutInv
  <2> QED  BY <2>1, <1>2, <1>3
<1>6. /\ \A k : ~Sending(k)' /\ ~Sending(k)
      /\ \A i : Requesting(i)' <=> Requesting(i)
  BY <1>1, <1>3 DEF Sending, Requesting
<1>7. CallerInv'
  <2>1. runs[This + 1] = 0
    <3>1. runs[This + 1] # 1
      BY <1>2, <1>3, <1>4 DEF JobInv
    <3> QED  BY <3>1, <1>4 DEF TypeOK
  <2>2. asm[This + 1] = None
    <3> SUFFICES ASSUME asm[This + 1] # None PROVE FALSE
      OBVIOUS
    <3>1. This + 1 \notin note["half"]
      BY <1>2, <1>3 DEF CallerInv
    <3>2. outbound # <<>> /\ Requesting(1) /\ outbound[1].call = This + 1
      BY <3>1, <1>4, <1>6 DEF OutInv, AssemblyInv
    <3>3. 1 \in 1 .. Len(outbound)
      BY <3>2 DEF TypeOK
    <3> QED  BY <3>2, <3>3, <1>2, <1>3, <1>5
  <2>3. This + 1 \notin note["left"] /\ \A k \in note["left"] \cup note["half"] : k =< This + 1
    <3>1. \A k \in note["left"] \cup note["half"] : k =< This /\ k \in Nat
      BY CallAssumption DEF CallerInv, TypeOK, Note, Id
    <3> QED  BY <3>1, <1>2, <1>3
  <2>4. body' = Units(This + 1, 0, Len(body'))
    BY <1>1, <1>3, NoUnits
  <2>5. correlation' = This' /\ This' =< MaxCalls /\ This' > 0
    BY <1>1, <1>2, <1>3, CallAssumption
  <2>6. body' = <<>> /\ offset' = 0 /\ pc' = "send"
    BY <1>1, <1>3
  <2> QED  BY <2>1, <2>2, <2>3, <2>4, <2>5, <2>6, <1>1, <1>3 DEF CallerInv
<1>8. RequestInv'
  <2> SUFFICES ASSUME NEW i \in 1 .. Len(outbound), Requesting(i)
               PROVE  LET f == outbound[i]
                          k == f.call
                      IN /\ f.corr = k /\ k =< This' /\ chunk > 0 /\ runs[k] = 0
                         /\ PartOf(f, k, calls'[k])
                         /\ k # This'
    BY <1>1, <1>6, Zenon DEF RequestInv
  <2> QED  BY <1>2, <1>3, <1>5 DEF OutInv, RequestInv
<1>9. JoinInv'
  BY <1>1, <1>6 DEF OutInv, JoinInv
<1>10. RestInv'
  BY <1>1, <1>6 DEF OutInv, RestInv
<1>11. CancelInv'
  BY <1>1, <1>6 DEF OutInv, CancelInv
<1>12. OrderInv'
  BY <1>1, <1>6 DEF OutInv, OrderInv
<1>13. LastInv'
  BY <1>6 DEF LastInv
<1>14. AssemblyInv'
  BY <1>1, <1>6 DEF OutInv, AssemblyInv
<1> QED  BY <1>7, <1>8, <1>9, <1>10, <1>11, <1>12, <1>13, <1>14 DEF OutInv

(* send is cut off between two frames, or before the first.                 *)
LEMMA OutFails ==
    ASSUME TypeOK, CallerInv, OutInv, SendFails
    PROVE  CallerInv' /\ OutInv'
<1>1. /\ pc = "send" /\ pc' = "idle" /\ offset' = 0 /\ body' = <<>>
      /\ UNCHANGED <<correlation, calls, outbound, chunk, route, asm, runs, answer>>
      /\ IF offset > 0 THEN note' = [note EXCEPT !["half"] = @ \cup {This}] ELSE note' = note
  BY Zenon DEF SendFails, Return, Mark, sharedVars, moduleVars
<1>2. /\ note'["left"] = note["left"] /\ note'["uncancelled"] = note["uncancelled"]
      /\ note'["bounced"] = note["bounced"] /\ note["half"] \subseteq note'["half"]
      /\ note'["half"] \subseteq note["half"] \cup {This}
      /\ offset > 0 => This \in note'["half"]
  BY <1>1 DEF TypeOK, Note
<1>3. This' = This /\ This \in Nat /\ offset \in Nat
  BY <1>1 DEF This, TypeOK
<1>4. /\ \A k : ~Sending(k)' /\ (Sending(k) => k \in note'["half"])
      /\ \A i : Requesting(i)' <=> Requesting(i)
  BY <1>1, <1>2, <1>3 DEF Sending, Requesting
<1>5. CallerInv'
  <2>1. body' = Units(This', 0, Len(body'))
    BY <1>1, NoUnits
  <2>2. \A k \in note'["left"] \cup note'["half"] : k =< This
    BY <1>2, <1>3 DEF CallerInv
  <2> QED  BY <2>1, <2>2, <1>1, <1>2, <1>3 DEF CallerInv
<1>6. RequestInv'
  BY <1>1, <1>3, <1>4 DEF OutInv, RequestInv
<1>7. JoinInv'
  BY <1>1, <1>2, <1>4 DEF OutInv, JoinInv
<1>8. RestInv'
  BY <1>1, <1>2, <1>4 DEF OutInv, RestInv
<1>9. CancelInv'
  BY <1>1, <1>2, <1>4 DEF OutInv, CancelInv
<1>10. OrderInv'
  BY <1>1, <1>4 DEF OutInv, OrderInv
<1>11. LastInv'
  BY <1>4 DEF LastInv
<1>12. AssemblyInv'
  BY <1>1, <1>2, <1>4 DEF OutInv, AssemblyInv
<1> QED  BY <1>5, <1>6, <1>7, <1>8, <1>9, <1>10, <1>11, <1>12 DEF OutInv

(* A frame goes onto the ring behind the ones that are there.               *)
LEMMA OutAppend ==
    ASSUME TypeOK, NEW e \in OutFrame, outbound' = Append(outbound, e)
    PROVE  /\ Len(outbound) \in Nat /\ Len(outbound') = Len(outbound) + 1
           /\ outbound'[Len(outbound) + 1] = e /\ outbound' # <<>>
           /\ outbound = <<>> <=> Len(outbound) = 0
           /\ \A i \in 1 .. Len(outbound) :
                /\ i \in 1 .. Len(outbound') /\ outbound'[i] = outbound[i]
                /\ Requesting(i)' <=> Requesting(i)
           /\ \A i \in 1 .. Len(outbound') :
                i \in 1 .. Len(outbound) \/ (i = Len(outbound) + 1 /\ outbound'[i] = e)
<1>1. /\ Len(outbound) \in Nat /\ Len(outbound') = Len(outbound) + 1
      /\ outbound'[Len(outbound) + 1] = e /\ outbound' # <<>>
      /\ outbound = <<>> <=> Len(outbound) = 0
      /\ \A i \in 1 .. Len(outbound) : outbound'[i] = outbound[i]
  BY AppendIs DEF TypeOK
<1> QED  BY <1>1 DEF Requesting

(* awaitReply has failed and the cancel is published if there is room.      *)
LEMMA OutLeave ==
    ASSUME TypeOK, CallerInv, OutInv, LeaveCall
    PROVE  CallerInv' /\ OutInv' /\ outbound' \in Seq(OutFrame)
<1> DEFINE e == [op |-> "cancel", corr |-> correlation]
<1>1. /\ pc = "leave" /\ pc' = "idle" /\ offset' = 0 /\ body' = <<>>
      /\ outbound' = IF CancelFits THEN Append(outbound, e) ELSE outbound
      /\ note' = [note EXCEPT !["left"] = @ \cup {This},
                              !["uncancelled"] = IF CancelFits THEN @ ELSE @ \cup {This}]
      /\ UNCHANGED <<correlation, calls, chunk, route, asm, runs, answer>>
  BY Zenon DEF LeaveCall, Return, CancelFits, moduleVars
<1>2. /\ note'["left"] = note["left"] \cup {This} /\ note'["half"] = note["half"]
      /\ note'["bounced"] = note["bounced"]
      /\ note["uncancelled"] \subseteq note'["uncancelled"]
      /\ CancelFits \/ This \in note'["uncancelled"]
  BY <1>1 DEF TypeOK, Note
<1>3. This' = This /\ This \in Nat /\ correlation = This /\ This > 0
  BY <1>1 DEF This, TypeOK, CallerInv
<1>4. \A k : ~Sending(k)' /\ ~Sending(k)
  BY <1>1 DEF Sending
<1>5. CallerInv'
  <2>1. body' = Units(This', 0, Len(body'))
    BY <1>1, NoUnits
  <2>2. \A k \in note'["left"] \cup note'["half"] : k =< This
    BY <1>2, <1>3 DEF CallerInv
  <2> QED  BY <2>1, <2>2, <1>1, <1>2, <1>3 DEF CallerInv
<1>6. LastInv'
  BY <1>4 DEF LastInv
<1>7. CASE ~CancelFits
  <2>1. outbound' = outbound /\ This \in note'["uncancelled"]
    BY <1>1, <1>2, <1>7
  <2>2. \A i : Requesting(i)' <=> Requesting(i)
    BY <2>1 DEF Requesting
  <2>3. RequestInv'
    BY <2>1, <2>2, <1>1, <1>3 DEF OutInv, RequestInv
  <2>4. JoinInv'
    BY <2>1, <2>2, <1>1, <1>2 DEF OutInv, JoinInv
  <2>5. RestInv'
    BY <2>1, <2>2, <1>2, <1>4 DEF OutInv, RestInv
  <2>6. CancelInv'
    BY <2>1, <2>2, <1>2 DEF OutInv, CancelInv
  <2>7. OrderInv'
    BY <2>1, <2>2 DEF OutInv, OrderInv
  <2>8. AssemblyInv'
    BY <2>1, <2>2, <1>1, <1>2, <1>4 DEF OutInv, AssemblyInv
  <2> QED  BY <1>5, <1>6, <2>1, <2>3, <2>4, <2>5, <2>6, <2>7, <2>8 DEF OutInv, TypeOK
<1>8. CASE CancelFits
  <2>0. e \in OutFrame /\ e.op = "cancel" /\ outbound' = Append(outbound, e)
    BY <1>1, <1>8 DEF OutFrame, TypeOK
  <2> HIDE DEF e
  <2>1. /\ Len(outbound) \in Nat /\ Len(outbound') = Len(outbound) + 1
        /\ outbound'[Len(outbound) + 1] = e /\ outbound' # <<>>
        /\ outbound = <<>> <=> Len(outbound) = 0
        /\ \A i \in 1 .. Len(outbound) :
             /\ i \in 1 .. Len(outbound') /\ outbound'[i] = outbound[i]
             /\ Requesting(i)' <=> Requesting(i)
        /\ \A i \in 1 .. Len(outbound') :
             i \in 1 .. Len(outbound) \/ (i = Len(outbound) + 1 /\ outbound'[i] = e)
    BY <2>0, OutAppend
  <2>2. ASSUME NEW i \in 1 .. Len(outbound'), Requesting(i)'
        PROVE  i \in 1 .. Len(outbound) /\ outbound'[i] = outbound[i] /\ Requesting(i)
    BY <2>0, <2>1, <2>2 DEF Requesting
  <2>3. RequestInv'
    BY <2>2, <1>1, <1>3 DEF OutInv, RequestInv
  <2>4. JoinInv'
    <3> SUFFICES ASSUME NEW i \in 1 .. Len(outbound'), Requesting(i)'
                 PROVE  LET f == outbound'[i]
                            d == f.call
                        IN /\ Begin(f) = 0 => asm'[d] = None
                           /\ (Begin(f) > 0 /\ i = 1 /\ route' = "served"
                                /\ d \notin note'["bounced"]) => asm'[d] = Units(d, 0, Begin(f))
                           /\ (Begin(f) > 0 /\ i > 1) =>
                                /\ Requesting(i - 1)' /\ outbound'[i - 1].call = d
                                /\ End(outbound'[i - 1]) = Begin(f)
      BY Zenon DEF JoinInv
    <3>1. i \in 1 .. Len(outbound) /\ outbound'[i] = outbound[i] /\ Requesting(i)
      BY <2>2
    <3>2. i > 1 => /\ i - 1 \in 1 .. Len(outbound) /\ outbound'[i - 1] = outbound[i - 1]
                   /\ (Requesting(i - 1)' <=> Requesting(i - 1))
      BY <2>1, <3>1
    <3> QED  BY <3>1, <3>2, <1>1, <1>2 DEF OutInv, JoinInv
  <2>5. RestInv'
    <3> SUFFICES ASSUME NEW i \in 1 .. Len(outbound'), Requesting(i)', outbound'[i].more
                 PROVE  \/ /\ i < Len(outbound') /\ Requesting(i + 1)'
                           /\ outbound'[i + 1].call = outbound'[i].call
                        \/ outbound'[i].call \in note'["half"]
      BY Zenon DEF RestInv
    <3>1. i \in 1 .. Len(outbound) /\ outbound'[i] = outbound[i] /\ Requesting(i)
      BY <2>2
    <3>2. \/ /\ i < Len(outbound) /\ Requesting(i + 1)
             /\ outbound[i + 1].call = outbound[i].call
          \/ outbound[i].call \in note["half"]
      BY <3>1, <1>4 DEF OutInv, RestInv
    <3>3. i < Len(outbound) => /\ i < Len(outbound') /\ outbound'[i + 1] = outbound[i + 1]
                               /\ (Requesting(i + 1)' <=> Requesting(i + 1))
      <4> SUFFICES ASSUME i < Len(outbound)
                   PROVE  /\ i < Len(outbound') /\ outbound'[i + 1] = outbound[i + 1]
                          /\ (Requesting(i + 1)' <=> Requesting(i + 1))
        OBVIOUS
      <4>1. i + 1 \in 1 .. Len(outbound)
        BY <3>1, <2>1
      <4> QED  BY <4>1, <3>1, <2>1
    <3> QED  BY <3>1, <3>2, <3>3, <1>2
  <2>6. CancelInv'
    <3> SUFFICES ASSUME NEW i \in 1 .. Len(outbound'), Requesting(i)',
                        outbound'[i].call \in note'["left"]
                 PROVE  \/ outbound'[i].call \in note'["uncancelled"]
                        \/ \E j \in 1 .. Len(outbound') :
                             j > i /\ outbound'[j] = [op |-> "cancel", corr |-> outbound'[i].call]
      BY Zenon DEF CancelInv
    <3>1. i \in 1 .. Len(outbound) /\ outbound'[i] = outbound[i] /\ Requesting(i)
      BY <2>2
    <3>2. CASE outbound[i].call \in note["left"]
      BY <3>1, <3>2, <2>1, <1>2 DEF OutInv, CancelInv
    <3>3. CASE outbound[i].call = This
      <4>1. e = [op |-> "cancel", corr |-> outbound[i].call]
        BY <3>3, <1>3 DEF e
      <4>2. Len(outbound) + 1 \in 1 .. Len(outbound') /\ Len(outbound) + 1 > i
        BY <2>1, <3>1
      <4> QED  BY <4>1, <4>2, <3>1, <2>1
    <3> QED  BY <3>1, <3>2, <3>3, <1>2
  <2>7. OrderInv'
    BY <2>2 DEF OutInv, OrderInv
  <2>8. AssemblyInv'
    <3>1. ASSUME outbound # <<>>, Requesting(1)
          PROVE  Requesting(1)' /\ outbound'[1] = outbound[1]
      BY <2>1, <3>1
    <3> QED  BY <3>1, <2>1, <1>1, <1>2, <1>4 DEF OutInv, AssemblyInv
  <2>9. outbound' \in Seq(OutFrame)
    BY <2>0, AppendIs DEF TypeOK
  <2> QED  BY <1>5, <1>6, <2>9, <2>3, <2>4, <2>5, <2>6, <2>7, <2>8 DEF OutInv
<1> QED  BY <1>7, <1>8

(* send publishes the next part of the request.                             *)
LEMMA OutSend ==
    ASSUME TypeOK, CallerInv, OutInv, SendFragment
    PROVE  CallerInv' /\ OutInv' /\ outbound' \in Seq(OutFrame) /\ offset' \in Nat
<1> DEFINE part == Part(offset, Length)
           g == Fragment(part, More(part))
<1>1. /\ pc = "send" /\ chunk > 0 /\ outbound' = Append(outbound, g)
      /\ offset' = offset + part
      /\ pc' = IF offset + part < Length THEN "send" ELSE "await"
      /\ UNCHANGED <<correlation, calls, body, chunk, route, asm, runs, answer, note>>
  BY Zenon DEF SendFragment, moduleVars
<1>2. /\ This \in Nat /\ This \in Id /\ This \in Corr /\ Length \in Nat /\ offset \in Nat
      /\ chunk \in Nat \ {0} /\ This' = This /\ Length' = Length /\ correlation = This
      /\ offset < Length \/ offset = 0
  BY <1>1, CallAssumption DEF TypeOK, CallerInv, This, Length, Id, Corr
<1>3. /\ part \in Nat /\ offset + part =< Length
      /\ part > 0 \/ (offset = 0 /\ Length = 0)
  BY <1>2, PartIs
<1>4. /\ g.op = "request" /\ g.corr = This /\ g.call = This
      /\ (g.more <=> offset + part < Length) /\ g.more \in BOOLEAN
      /\ g.units = Units(This, offset, part)
  <2>1. /\ g.op = "request" /\ g.corr = This /\ g.call = This
        /\ g.units = Units(This, offset, part) /\ g.more = More(part)
    BY <1>2 DEF Fragment
  <2>2. More(part) \in BOOLEAN /\ (More(part) <=> offset + part < Length)
    BY DEF More
  <2> QED  BY <2>1, <2>2, Zenon
<1>5. g.units \in Body
  BY <1>2, <1>3, <1>4, UnitsAre
<1>6. g = [op |-> "request", corr |-> This, call |-> This, more |-> g.more, units |-> g.units]
  BY <1>2 DEF Fragment
<1> HIDE DEF part, g
<1>7. g \in OutFrame
  BY <1>2, <1>4, <1>5, <1>6 DEF OutFrame
<1>8. /\ Len(outbound) \in Nat /\ Len(outbound') = Len(outbound) + 1
      /\ outbound'[Len(outbound) + 1] = g /\ outbound' # <<>>
      /\ outbound = <<>> <=> Len(outbound) = 0
      /\ \A i \in 1 .. Len(outbound) :
           /\ i \in 1 .. Len(outbound') /\ outbound'[i] = outbound[i]
           /\ Requesting(i)' <=> Requesting(i)
      /\ \A i \in 1 .. Len(outbound') :
           i \in 1 .. Len(outbound) \/ (i = Len(outbound) + 1 /\ outbound'[i] = g)
  BY <1>1, <1>7, OutAppend
<1>9. Begin(g) = offset /\ End(g) = offset + part /\ Len(g.units) = part
  BY <1>2, <1>3, <1>4, BoundsAre
<1>10. PartOf(g, This, Length)
  <2>1. g.units = Units(This, Begin(g), Len(g.units))
    BY <1>4, <1>9
  <2>2. End(g) =< Length /\ (g.more <=> End(g) < Length)
    BY <1>3, <1>4, <1>9
  <2>3. g.more => Len(g.units) > 0
    BY <1>2, <1>3, <1>4, <1>9
  <2> QED  BY <2>1, <2>2, <2>3 DEF PartOf
<1>11. /\ pc' = "send" => g.more /\ offset' > 0 /\ offset' < Length
       /\ g.more => pc' = "send"
       /\ pc' \in {"send", "await"}
  BY <1>1, <1>2, <1>3, <1>4
<1>12. /\ Sending(This) <=> offset > 0
       /\ Sending(This)' <=> pc' = "send"
       /\ \A k : Sending(k) => k = This
  BY <1>1, <1>2, <1>11 DEF Sending
<1>13. CallerInv'
  <2>1. body' = body /\ body = <<>>
    BY <1>1 DEF CallerInv
  <2>2. pc' # "idle" /\ This > 0 /\ This \notin note["left"]
    BY <1>1, <1>11 DEF CallerInv
  <2>3. (pc' = "send" /\ offset' = 0) => FALSE
    BY <1>11
  <2>4. pc' = "send" => (offset' < Length' /\ runs'[This'] = 0)
    BY <1>1, <1>2, <1>11 DEF CallerInv
  <2> QED  BY <2>1, <2>2, <2>3, <2>4, <1>1, <1>2 DEF CallerInv
<1>14. RequestInv'
  <2> SUFFICES ASSUME NEW i \in 1 .. Len(outbound'), Requesting(i)'
               PROVE  LET f == outbound'[i]
                          k == f.call
                      IN /\ f.corr = k /\ k =< This' /\ chunk' > 0 /\ runs'[k] = 0
                         /\ PartOf(f, k, calls'[k])
                         /\ (k = This' /\ pc' = "send") => (f.more /\ offset' > 0)
    BY Zenon DEF RequestInv
  <2>1. CASE i \in 1 .. Len(outbound)
    <3>1. outbound'[i] = outbound[i] /\ Requesting(i)
      BY <2>1, <1>8
    <3> QED  BY <2>1, <3>1, <1>1, <1>2, <1>11 DEF OutInv, RequestInv
  <2>2. CASE i = Len(outbound) + 1 /\ outbound'[i] = g
    <3>1. runs[This] = 0 /\ calls[This] = Length
      BY <1>1 DEF CallerInv, Length
    <3> QED  BY <2>2, <3>1, <1>1, <1>2, <1>4, <1>10, <1>11
  <2> QED  BY <2>1, <2>2, <1>8
<1>15. offset > 0 /\ outbound # <<>> =>
           /\ Requesting(Len(outbound)) /\ outbound[Len(outbound)].call = This
           /\ End(outbound[Len(outbound)]) = offset
  BY <1>12 DEF OutInv, LastInv
<1>16. JoinInv'
  <2> SUFFICES ASSUME NEW i \in 1 .. Len(outbound'), Requesting(i)'
               PROVE  LET f == outbound'[i]
                          d == f.call
                      IN /\ Begin(f) = 0 => asm'[d] = None
                         /\ (Begin(f) > 0 /\ i = 1 /\ route' = "served"
                              /\ d \notin note'["bounced"]) => asm'[d] = Units(d, 0, Begin(f))
                         /\ (Begin(f) > 0 /\ i > 1) =>
                              /\ Requesting(i - 1)' /\ outbound'[i - 1].call = d
                              /\ End(outbound'[i - 1]) = Begin(f)
    BY Zenon DEF JoinInv
  <2>1. i > 1 => /\ i - 1 \in 1 .. Len(outbound) /\ outbound'[i - 1] = outbound[i - 1]
                 /\ (Requesting(i - 1)' <=> Requesting(i - 1))
    <3> SUFFICES ASSUME i > 1
                 PROVE  /\ i - 1 \in 1 .. Len(outbound) /\ outbound'[i - 1] = outbound[i - 1]
                        /\ (Requesting(i - 1)' <=> Requesting(i - 1))
      OBVIOUS
    <3>1. i - 1 \in 1 .. Len(outbound)
      BY <1>8
    <3> QED  BY <3>1, <1>8
  <2>2. CASE i \in 1 .. Len(outbound)
    <3>1. outbound'[i] = outbound[i] /\ Requesting(i)
      BY <2>2, <1>8
    <3> QED  BY <2>1, <2>2, <3>1, <1>1 DEF OutInv, JoinInv
  <2>3. CASE i = Len(outbound) + 1 /\ outbound'[i] = g
    <3>1. Begin(g) = 0 => asm'[This] = None
      BY <1>1, <1>9 DEF CallerInv
    <3>2. ASSUME Begin(g) > 0, i = 1, route' = "served", This \notin note'["bounced"]
          PROVE  asm'[This] = Units(This, 0, Begin(g))
      BY <2>3, <3>2, <1>1, <1>8, <1>9, <1>12 DEF OutInv, LastInv
    <3>3. ASSUME Begin(g) > 0, i > 1
          PROVE  /\ Requesting(i - 1)' /\ outbound'[i - 1].call = This
                 /\ End(outbound'[i - 1]) = Begin(g)
      <4>1. i - 1 = Len(outbound) /\ outbound # <<>>
        BY <2>3, <3>3, <1>8
      <4>2. Requesting(Len(outbound)) /\ outbound[Len(outbound)].call = This
            /\ End(outbound[Len(outbound)]) = offset
        BY <4>1, <3>3, <1>9, <1>15
      <4> QED  BY <4>1, <4>2, <3>3, <2>1, <1>9
    <3> QED  BY <2>3, <3>1, <3>2, <3>3, <1>4
  <2> QED  BY <2>2, <2>3, <1>8
<1>17. RestInv'
  <2> SUFFICES ASSUME NEW i \in 1 .. Len(outbound'), Requesting(i)', outbound'[i].more
               PROVE  \/ /\ i < Len(outbound') /\ Requesting(i + 1)'
                         /\ outbound'[i + 1].call = outbound'[i].call
                      \/ i = Len(outbound') /\ Sending(outbound[i].call)'
                      \/ outbound'[i].call \in note'["half"]
    BY Zenon DEF RestInv
  <2>1. CASE i \in 1 .. Len(outbound)
    <3>1. outbound'[i] = outbound[i] /\ Requesting(i) /\ i < Len(outbound')
      BY <2>1, <1>8
    <3>2. \/ /\ i < Len(outbound) /\ Requesting(i + 1)
             /\ outbound[i + 1].call = outbound[i].call
          \/ i = Len(outbound) /\ Sending(outbound[i].call)
          \/ outbound[i].call \in note["half"]
      BY <2>1, <3>1 DEF OutInv, RestInv
    <3>3. CASE i < Len(outbound) /\ Requesting(i + 1)
               /\ outbound[i + 1].call = outbound[i].call
      <4>1. i + 1 \in 1 .. Len(outbound)
        BY <3>3, <2>1, <1>8
      <4>2. outbound'[i + 1] = outbound[i + 1] /\ Requesting(i + 1)'
        BY <4>1, <3>3, <1>8
      <4> QED  BY <3>1, <3>3, <4>2
    <3>4. CASE i = Len(outbound) /\ Sending(outbound[i].call)
      <4>1. outbound'[i + 1] = g /\ outbound[i].call = This
        BY <3>4, <1>8, <1>12
      <4>2. Requesting(i + 1)'
        BY <4>1, <1>4 DEF Requesting
      <4> QED  BY <3>1, <4>1, <4>2, <1>4
    <3>5. CASE outbound[i].call \in note["half"]
      BY <3>1, <3>5, <1>1
    <3> QED  BY <3>2, <3>3, <3>4, <3>5
  <2>2. CASE i = Len(outbound) + 1 /\ outbound'[i] = g
    <3>1. i = Len(outbound') /\ pc' = "send" /\ offset' > 0 /\ outbound'[i].call = This'
      BY <2>2, <1>2, <1>4, <1>8, <1>11
    <3> QED  BY <3>1 DEF Sending
  <2> QED  BY <2>1, <2>2, <1>8
<1>18. CancelInv'
  <2> SUFFICES ASSUME NEW i \in 1 .. Len(outbound'), Requesting(i)',
                      outbound'[i].call \in note'["left"]
               PROVE  \/ outbound'[i].call \in note'["uncancelled"]
                      \/ \E j \in 1 .. Len(outbound') :
                           j > i /\ outbound'[j] = [op |-> "cancel", corr |-> outbound'[i].call]
    BY Zenon DEF CancelInv
  <2>1. outbound'[i] # g
    BY <1>1, <1>4 DEF CallerInv
  <2>2. i \in 1 .. Len(outbound) /\ outbound'[i] = outbound[i] /\ Requesting(i)
    BY <2>1, <1>8
  <2> QED  BY <2>2, <1>1, <1>8 DEF OutInv, CancelInv
<1>19. OrderInv'
  <2> SUFFICES ASSUME NEW i \in 1 .. Len(outbound'), NEW j \in 1 .. Len(outbound'), i < j,
                      Requesting(i)', Requesting(j)', outbound'[i].call = outbound'[j].call
               PROVE  outbound'[i].more /\ Begin(outbound'[j]) > 0
    BY Zenon DEF OrderInv
  <2>1. i \in 1 .. Len(outbound) /\ outbound'[i] = outbound[i] /\ Requesting(i)
    BY <1>8
  <2>2. CASE j \in 1 .. Len(outbound)
    <3>1. outbound'[j] = outbound[j] /\ Requesting(j)
      BY <2>2, <1>8
    <3> QED  BY <2>1, <2>2, <3>1 DEF OutInv, OrderInv
  <2>3. CASE j = Len(outbound) + 1 /\ outbound'[j] = g
    <3>1. outbound[i].call = This
      BY <2>1, <2>3, <1>4
    <3>2. outbound[i].more /\ offset > 0
      BY <2>1, <3>1, <1>1 DEF OutInv, RequestInv
    <3> QED  BY <2>1, <2>3, <3>2, <1>9
  <2> QED  BY <2>2, <2>3, <1>8
<1>20. LastInv'
  <2>1. Requesting(Len(outbound))'
    BY <1>4, <1>8 DEF Requesting
  <2>2. outbound'[Len(outbound')].call = This' /\ End(outbound'[Len(outbound')]) = offset'
    BY <1>1, <1>2, <1>4, <1>8, <1>9
  <2> QED  BY <2>1, <2>2, <1>8 DEF LastInv
<1>21. AssemblyInv'
  <2> SUFFICES ASSUME NEW c \in Corr, asm[c] # None
               PROVE  /\ route = "served" /\ asm[c] # <<>> /\ asm[c][1][1] = c
                      /\ c \in note["half"] \/ (Requesting(1)' /\ outbound'[1].call = c)
    BY <1>1, <1>8, Zenon DEF AssemblyInv
  <2>1. /\ route = "served" /\ asm[c] # <<>> /\ asm[c][1][1] = c
        /\ \/ outbound = <<>> /\ Sending(c)
           \/ c \in note["half"]
           \/ outbound # <<>> /\ Requesting(1) /\ outbound[1].call = c
    BY DEF OutInv, AssemblyInv
  <2>2. CASE outbound = <<>> /\ Sending(c)
    <3>1. outbound'[1] = g /\ c = This
      BY <2>2, <1>8, <1>12
    <3> QED  BY <2>1, <3>1, <1>4 DEF Requesting
  <2>3. CASE outbound # <<>> /\ Requesting(1) /\ outbound[1].call = c
    <3>1. 1 \in 1 .. Len(outbound)
      BY <2>3, <1>8
    <3> QED  BY <2>1, <2>3, <3>1, <1>8
  <2> QED  BY <2>1, <2>2, <2>3
<1>22. outbound' \in Seq(OutFrame) /\ offset' \in Nat
  BY <1>1, <1>2, <1>3, <1>7, AppendIs DEF TypeOK
<1> QED  BY <1>13, <1>14, <1>16, <1>17, <1>18, <1>19, <1>20, <1>21, <1>22 DEF OutInv

-----------------------------------------------------------------------------
(* Jobs, and the steps one by one. *)

JobsInv == JobInv /\ WholeRequests /\ LeftIsCancelled

(* The parts of the inductive invariant.                                    *)
LEMMA Parts == CallInv <=> TypeOK /\ CallerInv /\ OutInv /\ InInv /\ JobsInv
  BY DEF CallInv, OutInv, InInv, JobsInv

(* No request, job or answer changes.                                       *)
LEMMA JobsSame ==
    ASSUME JobsInv, UNCHANGED <<job, flag, runs, answer, ran, chunk, calls, note, outbound>>
    PROVE  JobsInv'
<1>1. JobInv'
  BY DEF JobsInv, JobInv, This
<1>2. WholeRequests'
  BY DEF JobsInv, WholeRequests
<1>3. LeftIsCancelled'
  BY DEF JobsInv, LeftIsCancelled
<1> QED  BY <1>1, <1>2, <1>3 DEF JobsInv

(* awaitReply polls, checks or leaves without a change of its body.         *)
LEMMA Moves ==
    ASSUME CallInv, Polling, pc' \in {"await", "check", "leave"}, body' = body,
           \/ inbound' = inbound
           \/ inbound # <<>> /\ inbound' = Tail(inbound) /\ (Polling' => ~Ours(1)),
           UNCHANGED <<correlation, calls, offset, outbound, chunk, route, moduleVars, note>>
    PROVE  CallInv'
<1>1. TypeOK /\ CallerInv /\ OutInv /\ InInv /\ JobsInv
  BY Parts
<1>2. UNCHANGED <<asm, job, flag, reply, runs, answer, ran>>
  BY DEF moduleVars
<1>3. TypeOK'
  <2>1. inbound' \in Seq(InFrames)
    <3>1. CASE inbound' = inbound
      BY <3>1, <1>1 DEF TypeOK
    <3>2. CASE inbound # <<>> /\ inbound' = Tail(inbound)
      <4>1. inbound \in Seq(InFrames)
        BY <1>1 DEF TypeOK
      <4> QED  BY <3>2, <4>1, TailIs
    <3> QED  BY <3>1, <3>2
  <2> QED  BY <2>1, <1>1, <1>2 DEF TypeOK
<1>4. CallerInv'
  BY <1>1, <1>2 DEF CallerInv, Polling, This, Length
<1>5. OutInv'
  <2>1. pc # "send" /\ pc' # "send"
    BY DEF Polling
  <2> QED  BY <2>1, <1>1, <1>2, OutSame
<1>6. InInv'
  <2>1. CASE inbound' = inbound
    BY <2>1, <1>1, <1>2, InSame
  <2>2. CASE inbound # <<>> /\ inbound' = Tail(inbound) /\ (Polling' => ~Ours(1))
    BY <2>2, <1>1, <1>2, InDrop
  <2> QED  BY <2>1, <2>2
<1>7. JobsInv'
  BY <1>1, <1>2, JobsSame
<1>8. (TypeOK /\ CallerInv /\ OutInv /\ InInv /\ JobsInv)'
  BY <1>3, <1>4, <1>5, <1>6, <1>7
<1> QED  BY <1>8, Parts, PTL

(* Nothing that the invariant is about changes.                             *)
LEMMA Quiet ==
    ASSUME CallInv,
           UNCHANGED <<pc, correlation, calls, offset, body, outbound, inbound, chunk, route,
                       asm, job, flag, reply, runs, answer, ran, note>>
    PROVE  CallInv'
<1>1. TypeOK /\ CallerInv /\ OutInv /\ InInv /\ JobsInv
  BY Parts
<1>2. TypeOK'
  BY <1>1 DEF TypeOK
<1>3. CallerInv'
  BY <1>1 DEF CallerInv, This, Length
<1>4. OutInv'
  BY <1>1, OutSame
<1>5. InInv'
  <2>1. Polling' => Polling
    BY DEF Polling
  <2> QED  BY <2>1, <1>1, InSame
<1>6. JobsInv'
  BY <1>1, JobsSame
<1>7. (TypeOK /\ CallerInv /\ OutInv /\ InInv /\ JobsInv)'
  BY <1>2, <1>3, <1>4, <1>5, <1>6
<1> QED  BY <1>7, Parts, PTL

(* An event of the inbound ring.                                            *)
LEMMA StepPollEvent ==
    ASSUME CallInv, PollEvent
    PROVE  CallInv'
<1> DEFINE f == inbound[1]
<1>1. TypeOK /\ CallerInv /\ OutInv /\ InInv /\ JobsInv
  BY Parts
<1>2. /\ pc = "await" /\ inbound # <<>> /\ inbound' = Tail(inbound) /\ OnEvent(Head(inbound))
      /\ UNCHANGED <<correlation, calls, outbound, chunk, route, moduleVars, note>>
  BY Zenon DEF PollEvent
<1>3. /\ Head(inbound) = f /\ Polling /\ f \in InFrames /\ correlation = This
      /\ inbound' \in Seq(InFrames)
  BY <1>1, <1>2, TailIs DEF TypeOK, Polling, CallerInv
<1>4. Ours(1) <=> Own(f) /\ f.kind = "result" /\ f.ok
  BY <1>3 DEF Ours, Resulting, Own
<1>5. OnEvent(f)
  BY <1>2, <1>3
<1>6. UNCHANGED <<asm, job, flag, reply, runs, answer, ran>>
  BY <1>2 DEF moduleVars
<1> HIDE DEF f
<1>7. ASSUME NEW why0, Leave(why0) PROVE CallInv'
  <2>1. pc' = "leave" /\ offset' = offset /\ body' = body
    BY <1>7 DEF Leave
  <2>2. ~Polling'
    BY <2>1 DEF Polling
  <2> QED  BY <2>1, <2>2, <1>2, <1>3, Moves
<1>8. ASSUME Again(body), ~Ours(1) PROVE CallInv'
  <2>1. pc' = "await" /\ offset' = offset /\ body' = body
    BY <1>8 DEF Again
  <2> QED  BY <2>1, <1>2, <1>3, <1>8, Moves
<1>9. ASSUME Ours(1), f.more, Again(body \o f.units) PROVE CallInv'
  <2>1. pc' = "await" /\ offset' = offset /\ body' = body \o f.units /\ Polling'
    BY <1>9 DEF Again, Polling
  <2>2. /\ This \in Id /\ answer[This] \in Nat /\ End(f) \in Nat
        /\ body' \in Body /\ body' = Units(This, 0, End(f)) /\ Len(body') = End(f)
    BY <2>1, <1>1, <1>2, <1>3, <1>9, NextPart DEF f, InInv
  <2>3. TypeOK'
    BY <2>1, <2>2, <1>1, <1>2, <1>3, <1>6 DEF TypeOK
  <2>4. CallerInv'
    <3>1. body' = Units(This, 0, Len(body')) /\ answer[This] # None
      BY <2>2, NoneAssumption
    <3> QED  BY <3>1, <2>1, <1>1, <1>2, <1>6 DEF CallerInv, This
  <2>5. OutInv'
    BY <2>1, <1>1, <1>2, <1>6, OutSame
  <2>6. InInv'
    BY <2>1, <1>1, <1>2, <1>3, <1>6, <1>9, InPart DEF f
  <2>7. JobsInv'
    BY <1>1, <1>2, <1>6, JobsSame
  <2>8. (TypeOK /\ CallerInv /\ OutInv /\ InInv /\ JobsInv)'
    BY <2>3, <2>4, <2>5, <2>6, <2>7
  <2> QED  BY <2>8, Parts, PTL
<1>10. ASSUME NEW b, Return(b) PROVE CallInv'
  <2>1. pc' = "idle" /\ offset' = 0 /\ body' = <<>> /\ ~Polling'
    BY <1>10 DEF Return, Polling
  <2>2. TypeOK'
    <3>1. body' \in Body
      BY <2>1 DEF Body
    <3> QED  BY <3>1, <2>1, <1>1, <1>2, <1>3, <1>6 DEF TypeOK
  <2>3. CallerInv'
    <3>1. body' = Units(This', 0, Len(body'))
      BY <2>1, NoUnits
    <3> QED  BY <3>1, <2>1, <1>1, <1>2, <1>6 DEF CallerInv, This
  <2>4. OutInv'
    BY <2>1, <1>1, <1>2, <1>6, OutSame
  <2>5. InInv'
    BY <2>1, <1>1, <1>2, <1>6, InDrop
  <2>6. JobsInv'
    BY <1>1, <1>2, <1>6, JobsSame
  <2>7. (TypeOK /\ CallerInv /\ OutInv /\ InInv /\ JobsInv)'
    BY <2>2, <2>3, <2>4, <2>5, <2>6
  <2> QED  BY <2>7, Parts, PTL
<1>11. \/ \E w : Leave(w)
       \/ ~Ours(1) /\ Again(body)
       \/ Ours(1) /\ f.more /\ Again(body \o f.units)
       \/ \E b : Return(b)
  <2>1. \/ Leave(f.kind) \/ Leave("runtime") \/ Leave("status")
        \/ (~Own(f) \/ f.kind \in {"other", "absent", "rejected"}) /\ Again(body)
        \/ Own(f) /\ f.kind = "result" /\ f.ok /\ f.more /\ Again(body \o f.units)
        \/ Return(body \o f.units)
    BY <1>5, Zenon DEF OnEvent
  <2>2. (~Own(f) \/ f.kind \in {"other", "absent", "rejected"}) => ~Ours(1)
    BY <1>4
  <2> QED  BY <2>1, <2>2, <1>4, Zenon
<1> QED  BY <1>7, <1>8, <1>9, <1>10, <1>11

(* Polls that find nothing or a new epoch, and the check between polls.     *)
LEMMA StepPolls ==
    ASSUME CallInv, PollNothing \/ PollEpoch \/ Check
    PROVE  CallInv'
<1>1. CASE PollNothing
  <2>1. /\ pc = "await" /\ pc' = "check" /\ body' = body
        /\ \/ inbound' = inbound
           \/ inbound # <<>> /\ Head(inbound).kind = "garbled" /\ inbound' = Tail(inbound)
        /\ UNCHANGED <<correlation, calls, offset, outbound, chunk, route, moduleVars, note>>
    BY <1>1, Zenon DEF PollNothing
  <2>2. Polling
    BY <2>1 DEF Polling
  <2>3. inbound # <<>> /\ Head(inbound).kind = "garbled" => ~Ours(1)
    BY TailIs DEF Ours, Resulting, CallInv, TypeOK
  <2> QED  BY <2>1, <2>2, <2>3, Moves
<1>2. CASE PollEpoch
  <2>1. /\ pc = "await" /\ pc' = "leave" /\ body' = body /\ inbound' = inbound
        /\ UNCHANGED <<correlation, calls, offset, outbound, chunk, route, moduleVars, note>>
    BY <1>2, Zenon DEF PollEpoch, Leave, sharedVars
  <2>2. Polling
    BY <2>1 DEF Polling
  <2> QED  BY <2>1, <2>2, Moves
<1>3. CASE Check
  <2>1. /\ pc = "check" /\ pc' \in {"leave", "await"} /\ body' = body /\ inbound' = inbound
        /\ UNCHANGED <<correlation, calls, offset, outbound, chunk, route, moduleVars, note>>
    BY <1>3 DEF Check, Leave, Again, sharedVars
  <2>2. Polling
    BY <2>1 DEF Polling
  <2> QED  BY <2>1, <2>2, Moves
<1> QED  BY <1>1, <1>2, <1>3

(* Steps of the environment that touch neither ring.                        *)
LEMMA StepAround ==
    ASSUME CallInv,
           \/ OthersAssemble \/ HostRestart \/ ContextEnds \/ DeadlinePasses \/ UNCHANGED vars
    PROVE  CallInv'
<1>1. CASE OthersAssemble
  BY <1>1, Quiet DEF OthersAssemble, HostUnchanged, callerVars
<1>2. CASE HostRestart
  BY <1>2, Quiet DEF HostRestart, callerVars, moduleVars
<1>3. CASE ContextEnds
  BY <1>3, Quiet DEF ContextEnds, sharedVars, moduleVars
<1>4. CASE DeadlinePasses
  BY <1>4, Quiet DEF DeadlinePasses, sharedVars, moduleVars
<1>5. CASE UNCHANGED vars
  BY <1>5, Quiet DEF vars, callerVars, sharedVars, moduleVars
<1> QED  BY <1>1, <1>2, <1>3, <1>4, <1>5

(* A new call.                                                              *)
LEMMA StepCall ==
    ASSUME CallInv, NEW len \in Requests, NEW deadline \in BOOLEAN, Call(len, deadline)
    PROVE  CallInv'
<1>1. TypeOK /\ CallerInv /\ OutInv /\ InInv /\ JobsInv
  BY Parts
<1>2. /\ pc = "idle" /\ Len(calls) < MaxCalls /\ pc' = "send" /\ len \in Nat
      /\ correlation' = correlation + 1 /\ calls' = Append(calls, len)
      /\ UNCHANGED <<offset, body, outbound, inbound, chunk, route, asm, job, flag, reply,
                     runs, answer, ran, note>>
  BY CallAssumption DEF Call, This, NextCorrelation, sharedVars, moduleVars
<1>3. /\ Len(calls) \in Nat /\ Len(calls') = Len(calls) + 1
      /\ \A k \in 1 .. Len(calls) : calls'[k] = calls[k]
      /\ calls' \in Seq(Nat)
  BY <1>1, <1>2, AppendIs DEF TypeOK
<1>4. CallerInv' /\ OutInv'
  BY <1>1, <1>2, OutCall DEF JobsInv
<1>5. TypeOK'
  <2>1. correlation' \in Corr
    BY <1>1, <1>2, <1>3, CallAssumption DEF CallerInv, This, Corr
  <2> QED  BY <2>1, <1>1, <1>2, <1>3 DEF TypeOK
<1>6. InInv'
  <2>1. ~Polling' /\ ~Polling
    BY <1>2 DEF Polling
  <2>2. ReplyInv'
    BY <2>1, <1>1, <1>2 DEF InInv, ReplyInv, Resulting
  <2>3. ResultInv'
    BY <2>1, <1>1, <1>2 DEF InInv, ResultInv, Resulting
  <2>4. ResultOrder'
    BY <1>1, <1>2 DEF InInv, ResultOrder, Resulting
  <2> QED  BY <2>2, <2>3, <2>4 DEF InInv
<1>7. JobsInv'
  <2>0. \A k \in Id : k \in Nat /\ k >= 1
    BY CallAssumption DEF Id
  <2>1. JobInv'
    <3>1. \A r \in ran : r.call \in Id /\ r.call =< This
      BY <1>1 DEF JobsInv, JobInv, TypeOK
    <3>2. \A r \in ran : r.call =< This'
      BY <3>1, <2>0, <1>3 DEF This
    <3>3. \A k \in Id : runs[k] = 1 => k =< This'
      BY <2>0, <1>1, <1>3 DEF JobsInv, JobInv, This
    <3> QED  BY <3>2, <3>3, <1>1, <1>2 DEF JobsInv, JobInv
  <2>2. WholeRequests'
    <3>1. ASSUME NEW r \in ran PROVE calls'[r.call] = calls[r.call]
      <4>1. r.call \in Id /\ r.call =< This
        BY <1>1 DEF JobsInv, JobInv, TypeOK
      <4> QED  BY <4>1, <2>0, <1>3 DEF This
    <3> QED  BY <3>1, <1>1, <1>2 DEF JobsInv, WholeRequests
  <2>3. LeftIsCancelled'
    BY <1>1, <1>2 DEF JobsInv, LeftIsCancelled
  <2> QED  BY <2>1, <2>2, <2>3 DEF JobsInv
<1>8. (TypeOK /\ CallerInv /\ OutInv /\ InInv /\ JobsInv)'
  BY <1>4, <1>5, <1>6, <1>7
<1> QED  BY <1>8, Parts, PTL

(* A frame goes onto the outbound ring, or send or the call fails: a job of *)
(* a call that has been left has its cancel behind it.                      *)
LEMMA JobsSent ==
    ASSUME TypeOK, JobsInv, UNCHANGED <<job, flag, runs, answer, ran, chunk, calls>>,
           outbound' = outbound \/ \E e \in OutFrame : outbound' = Append(outbound, e),
           note["uncancelled"] \subseteq note'["uncancelled"],
           note'["bounced"] = note["bounced"],
           \A k \in note'["left"] :
             \/ k \in note["left"] \/ k \in note'["uncancelled"]
             \/ \E i \in 1 .. Len(outbound') : outbound'[i] = [op |-> "cancel", corr |-> k]
    PROVE  JobsInv'
<1>1. JobInv'
  BY DEF JobsInv, JobInv, This
<1>2. WholeRequests'
  BY DEF JobsInv, WholeRequests
<1>3. \A i \in 1 .. Len(outbound) : i \in 1 .. Len(outbound') /\ outbound'[i] = outbound[i]
  <2>1. CASE outbound' = outbound
    BY <2>1
  <2>2. ASSUME NEW e \in OutFrame, outbound' = Append(outbound, e)
        PROVE  \A i \in 1 .. Len(outbound) : i \in 1 .. Len(outbound') /\ outbound'[i] = outbound[i]
    BY <2>2, AppendIs DEF TypeOK
  <2> QED  BY <2>1, <2>2
<1>4. LeftIsCancelled'
  <2> SUFFICES ASSUME NEW c \in Corr, job[c] # None, ~flag[c], job[c] \in note'["left"]
               PROVE  \/ job[c] \in note'["uncancelled"]
                      \/ \E i \in 1 .. Len(outbound') :
                           outbound'[i] = [op |-> "cancel", corr |-> c]
    BY Zenon DEF LeftIsCancelled
  <2>1. job[c] = c
    BY DEF JobsInv, JobInv
  <2>2. CASE job[c] \in note["left"]
    BY <2>2, <1>3 DEF JobsInv, LeftIsCancelled
  <2>3. CASE job[c] \notin note["left"]
    BY <2>1, <2>3
  <2> QED  BY <2>2, <2>3
<1> QED  BY <1>1, <1>2, <1>4 DEF JobsInv

(* A part of the request is sent.                                           *)
LEMMA StepSend ==
    ASSUME CallInv, SendFragment
    PROVE  CallInv'
<1>1. TypeOK /\ CallerInv /\ OutInv /\ InInv /\ JobsInv
  BY Parts
<1>2. /\ pc = "send" /\ pc' \in {"send", "await"}
      /\ UNCHANGED <<correlation, calls, body, inbound, chunk, route, asm, job, flag, reply,
                     runs, answer, ran, note>>
  BY DEF SendFragment, moduleVars
<1>3. CallerInv' /\ OutInv' /\ outbound' \in Seq(OutFrame) /\ offset' \in Nat
  BY <1>1, OutSend
<1>4. TypeOK'
  BY <1>1, <1>2, <1>3 DEF TypeOK
<1>5. InInv'
  <2>1. This' = This /\ This \in Id
    BY <1>1, <1>2, CallAssumption DEF This, CallerInv, TypeOK, Id
  <2>2. answer[This] = None
    BY <1>1, <1>2, <2>1 DEF CallerInv, JobsInv, JobInv
  <2>3. ReplyInv'
    <3>1. reply # None /\ reply.ok => reply.call # This
      BY <2>2, <1>1, NoneAssumption DEF InInv, ReplyInv, TypeOK, Reply
    <3> QED  BY <3>1, <2>1, <1>1, <1>2 DEF InInv, ReplyInv, Resulting
  <2>4. ResultInv'
    BY <2>1, <2>2, <1>1, <1>2 DEF InInv, ResultInv, Resulting
  <2>5. ResultOrder'
    BY <1>1, <1>2 DEF InInv, ResultOrder, Resulting
  <2> QED  BY <2>3, <2>4, <2>5 DEF InInv
<1>6. JobsInv'
  <2>1. outbound' = Append(outbound, Fragment(Part(offset, Length), More(Part(offset, Length))))
    BY DEF SendFragment
  <2>2. \E e \in OutFrame : outbound' = Append(outbound, e)
    <3>1. outbound'[Len(outbound')] \in OutFrame /\ Len(outbound') = Len(outbound) + 1
      BY <2>1, <1>1, <1>3 DEF TypeOK
    <3>2. outbound'[Len(outbound) + 1] = Fragment(Part(offset, Length), More(Part(offset, Length)))
      BY <2>1, <1>1 DEF TypeOK
    <3> QED  BY <2>1, <3>1, <3>2
  <2> QED  BY <2>2, <1>1, <1>2, JobsSent
<1>7. (TypeOK /\ CallerInv /\ OutInv /\ InInv /\ JobsInv)'
  BY <1>3, <1>4, <1>5, <1>6
<1> QED  BY <1>7, Parts, PTL

(* The call fails: in send, or after awaitReply has.                        *)
LEMMA StepFails ==
    ASSUME CallInv, SendFails \/ LeaveCall
    PROVE  CallInv'
<1>1. TypeOK /\ CallerInv /\ OutInv /\ InInv /\ JobsInv
  BY Parts
<1>2. /\ pc' = "idle" /\ offset' = 0 /\ body' = <<>>
      /\ UNCHANGED <<correlation, calls, inbound, chunk, route, asm, job, flag, reply,
                     runs, answer, ran>>
  BY DEF SendFails, LeaveCall, Return, sharedVars, moduleVars
<1>3. This' = This /\ This \in Nat /\ correlation = This
  BY <1>1, <1>2 DEF This, TypeOK, CallerInv
<1>4. /\ CallerInv' /\ OutInv' /\ outbound' \in Seq(OutFrame)
  <2>1. CASE SendFails
    BY <2>1, <1>1, OutFails DEF SendFails, sharedVars, TypeOK
  <2>2. CASE LeaveCall
    BY <2>2, <1>1, OutLeave
  <2> QED  BY <2>1, <2>2
<1>5. This \in Id
  <2>1. pc # "idle"
    BY DEF SendFails, LeaveCall
  <2> QED  BY <2>1, <1>1, <1>3, CallAssumption DEF CallerInv, Id
<1>6. TypeOK'
  <2>1. note' \in [Note -> SUBSET Id]
    <3>1. CASE SendFails
      BY <3>1, <1>1, <1>5 DEF SendFails, Mark, Note, TypeOK
    <3>2. CASE LeaveCall
      BY <3>2, <1>1, <1>5 DEF LeaveCall, Note, TypeOK
    <3> QED  BY <3>1, <3>2
  <2>2. body' \in Body
    BY <1>2 DEF Body
  <2> QED  BY <2>1, <2>2, <1>1, <1>2, <1>4 DEF TypeOK
<1>7. InInv'
  <2>1. ~Polling'
    BY <1>2 DEF Polling
  <2> QED  BY <2>1, <1>1, <1>2, InSame
<1>8. JobsInv'
  <2>1. CASE SendFails
    <3>1. /\ outbound' = outbound /\ note'["uncancelled"] = note["uncancelled"]
          /\ note'["left"] = note["left"] /\ note'["bounced"] = note["bounced"]
      BY <2>1, <1>1 DEF SendFails, Mark, sharedVars, TypeOK, Note
    <3> QED  BY <3>1, <1>1, <1>2, JobsSent
  <2>2. CASE LeaveCall
    <3> DEFINE e == [op |-> "cancel", corr |-> This]
    <3>1. /\ note["uncancelled"] \subseteq note'["uncancelled"]
          /\ note'["left"] = note["left"] \cup {This} /\ note'["bounced"] = note["bounced"]
          /\ CancelFits \/ This \in note'["uncancelled"]
      BY <2>2, <1>1 DEF LeaveCall, CancelFits, TypeOK, Note
    <3>2. e \in OutFrame
      BY <1>1, <1>3 DEF OutFrame, TypeOK
    <3>3. outbound' = IF CancelFits THEN Append(outbound, e) ELSE outbound
      BY <2>2, <1>3 DEF LeaveCall
    <3> HIDE DEF e
    <3>4. CASE ~CancelFits
      BY <3>1, <3>3, <3>4, <1>1, <1>2, JobsSent
    <3>5. CASE CancelFits
      <4>1. outbound' = Append(outbound, e)
        BY <3>3, <3>5
      <4>2. \E i \in 1 .. Len(outbound') : outbound'[i] = e
        <5>1. /\ Len(outbound') = Len(outbound) + 1 /\ Len(outbound) \in Nat
              /\ outbound'[Len(outbound) + 1] = e
          BY <3>2, <4>1, <1>1, AppendIs DEF TypeOK
        <5>2. Len(outbound) + 1 \in 1 .. Len(outbound')
          BY <5>1
        <5> QED  BY <5>1, <5>2
      <4>3. \A k \in note'["left"] :
               \/ k \in note["left"]
               \/ \E i \in 1 .. Len(outbound') : outbound'[i] = [op |-> "cancel", corr |-> k]
        BY <3>1, <4>2 DEF e
      <4> QED  BY <3>1, <3>2, <4>1, <4>3, <1>1, <1>2, JobsSent
    <3> QED  BY <3>4, <3>5
  <2> QED  BY <2>1, <2>2
<1>9. (TypeOK /\ CallerInv /\ OutInv /\ InInv /\ JobsInv)'
  BY <1>4, <1>6, <1>7, <1>8
<1> QED  BY <1>9, Parts, PTL

(* A frame without a body that is no result.                                *)
LEMMA EmptyFrame ==
    ASSUME NEW kind \in {"absent", "rejected", "other", "garbled", "short"},
           NEW c \in Corr, NEW ok \in BOOLEAN
    PROVE  /\ InFrame(kind, c, ok, <<>>, FALSE) \in InFrames
           /\ InFrame(kind, c, ok, <<>>, FALSE).kind # "result"
<1> DEFINE u == <<>>
<1>1. u \in Body
  BY DEF Body
<1> HIDE DEF u
<1>2. /\ InFrame(kind, c, ok, u, FALSE) \in InFrames
      /\ InFrame(kind, c, ok, u, FALSE).kind # "result"
  BY <1>1 DEF InFrame, InFrames
<1> QED  BY <1>2 DEF u

(* A frame is taken off the outbound ring: a job that goes on after its     *)
(* call was left keeps its cancel behind it.                                *)
LEMMA JobsTaken ==
    ASSUME TypeOK, JobsInv, outbound # <<>>, outbound' = Tail(outbound), Requesting(1),
           UNCHANGED <<chunk, calls, answer, job, flag, runs, ran>>,
           note'["left"] = note["left"], note'["uncancelled"] = note["uncancelled"],
           note["bounced"] \subseteq note'["bounced"]
    PROVE  JobsInv'
<1>1. JobInv'
  BY DEF JobsInv, JobInv, This
<1>2. WholeRequests'
  BY DEF JobsInv, WholeRequests
<1>3. /\ Len(outbound) \in Nat /\ Len(outbound') = Len(outbound) - 1
      /\ \A i \in 1 .. Len(outbound) - 1 : outbound'[i] = outbound[i + 1]
  BY TailIs DEF TypeOK
<1>4. LeftIsCancelled'
  <2> SUFFICES ASSUME NEW c \in Corr, job[c] # None, ~flag[c], job[c] \in note["left"],
                      job[c] \notin note["uncancelled"]
               PROVE  \E i \in 1 .. Len(outbound') :
                           outbound'[i] = [op |-> "cancel", corr |-> c]
    BY Zenon DEF LeftIsCancelled
  <2>1. PICK i \in 1 .. Len(outbound) : outbound[i] = [op |-> "cancel", corr |-> c]
    BY DEF JobsInv, LeftIsCancelled
  <2>2. i # 1
    BY <2>1 DEF Requesting
  <2>3. i - 1 \in 1 .. Len(outbound') /\ outbound'[i - 1] = outbound[i]
    BY <2>2, <1>3
  <2> QED  BY <2>1, <2>3
<1> QED  BY <1>1, <1>2, <1>4 DEF JobsInv

(* The host answers a request that it does not pass on.                     *)
LEMMA StepHostRefuses ==
    ASSUME CallInv, HostRefuses
    PROVE  CallInv'
<1> DEFINE f == outbound[1]
           k == f.call
           e == InFrame(route, f.corr, FALSE, <<>>, FALSE)
<1>1. TypeOK /\ CallerInv /\ OutInv /\ InInv /\ JobsInv
  BY Parts
<1>2. /\ outbound # <<>> /\ outbound' = Tail(outbound) /\ Head(outbound).op = "request"
      /\ route # "served"
      /\ inbound' = IF Len(inbound) < InCap
                    THEN Append(inbound, InFrame(route, Head(outbound).corr, FALSE, <<>>, FALSE))
                    ELSE inbound
      /\ UNCHANGED <<callerVars, chunk, route, moduleVars, note>>
  BY Zenon DEF HostRefuses, Taking, Take, HostUnchanged
<1>3. /\ Head(outbound) = f /\ 1 \in 1 .. Len(outbound) /\ outbound' \in Seq(OutFrame)
  BY <1>1, <1>2, TailIs DEF TypeOK
<1>4. Requesting(1)
  BY <1>2, <1>3 DEF Requesting
<1>5. f.corr \in Corr /\ k \in Corr
  BY <1>1, <1>3, <1>4, RequestIs DEF OutInv
<1>6. UNCHANGED <<asm, job, flag, reply, runs, answer, ran, pc, correlation, calls, offset, body>>
  BY <1>2 DEF moduleVars, callerVars
<1>7. CallerInv' /\ OutInv'
  <2>1. asm[k] = None
    BY <1>1, <1>2, <1>5 DEF OutInv, AssemblyInv
  <2>2. asm' = [asm EXCEPT ![k] = None]
    BY <2>1, <1>1, <1>5, <1>6 DEF TypeOK
  <2> HIDE DEF k
  <2>3. k = outbound[1].call
    BY DEF k
  <2> QED  BY <2>2, <2>3, <1>1, <1>2, <1>4, <1>6, OutTaken
<1>8. e \in InFrames /\ e.kind # "result"
  <2>1. route \in {"absent", "rejected"}
    BY <1>1, <1>2 DEF TypeOK, Route
  <2> QED  BY <2>1, <1>5, EmptyFrame
<1> HIDE DEF e
<1>9. inbound' = inbound \/ inbound' = Append(inbound, e)
  BY <1>2, <1>3 DEF e
<1>10. inbound' \in Seq(InFrames)
  <2>1. CASE inbound' = inbound
    BY <2>1, <1>1 DEF TypeOK
  <2>2. CASE inbound' = Append(inbound, e)
    BY <2>2, <1>1, <1>8, AppendIs DEF TypeOK
  <2> QED  BY <2>1, <2>2, <1>9
<1>11. TypeOK'
  BY <1>1, <1>2, <1>3, <1>6, <1>10 DEF TypeOK
<1>12. InInv'
  <2>1. CASE inbound' = inbound
    <3>1. Polling' => Polling
      BY <1>6 DEF Polling
    <3> QED  BY <2>1, <3>1, <1>1, <1>2, <1>6, InSame
  <2>2. CASE inbound' = Append(inbound, e)
    BY <2>2, <1>1, <1>2, <1>6, <1>8, InStray
  <2> QED  BY <2>1, <2>2, <1>9
<1>13. JobsInv'
  BY <1>1, <1>2, <1>4, <1>6, JobsTaken
<1>14. (TypeOK /\ CallerInv /\ OutInv /\ InInv /\ JobsInv)'
  BY <1>7, <1>11, <1>12, <1>13
<1> QED  BY <1>14, Parts, PTL

(* A frame that is no result arrives.                                       *)
LEMMA StepStray ==
    ASSUME CallInv, Strays
    PROVE  CallInv'
<1>1. TypeOK /\ CallerInv /\ OutInv /\ InInv /\ JobsInv
  BY Parts
<1>2. PICK kind \in {"other", "garbled", "short"} : Stray(kind)
  BY Zenon DEF Strays
<1> DEFINE e == InFrame(kind, correlation, TRUE, <<>>, FALSE)
<1>3. /\ inbound' = Append(inbound, e)
      /\ UNCHANGED <<callerVars, chunk, route, outbound, moduleVars, note>>
  BY <1>2, Zenon DEF Stray, HostUnchanged
<1>4. UNCHANGED <<asm, job, flag, reply, runs, answer, ran, pc, correlation, calls, offset, body>>
  BY <1>3 DEF moduleVars, callerVars
<1>5. e \in InFrames /\ e.kind # "result"
  <2>1. correlation \in Corr
    BY <1>1 DEF TypeOK
  <2> QED  BY <2>1, <1>2, EmptyFrame
<1> HIDE DEF e
<1>6. TypeOK'
  <2>1. inbound' \in Seq(InFrames)
    BY <1>1, <1>3, <1>5, AppendIs DEF TypeOK
  <2> QED  BY <2>1, <1>1, <1>3, <1>4 DEF TypeOK
<1>7. CallerInv'
  BY <1>1, <1>3, <1>4 DEF CallerInv, This, Length
<1>8. OutInv'
  BY <1>1, <1>3, <1>4, OutSame
<1>9. InInv'
  BY <1>1, <1>3, <1>4, <1>5, InStray
<1>10. JobsInv'
  BY <1>1, <1>3, <1>4, JobsSame
<1>11. (TypeOK /\ CallerInv /\ OutInv /\ InInv /\ JobsInv)'
  BY <1>6, <1>7, <1>8, <1>9, <1>10
<1> QED  BY <1>11, Parts, PTL

(* The module cancels.                                                      *)
LEMMA StepCancel ==
    ASSUME CallInv, ModuleCancel
    PROVE  CallInv'
<1> DEFINE d == outbound[1].corr
<1>1. TypeOK /\ CallerInv /\ OutInv /\ InInv /\ JobsInv
  BY Parts
<1>2. /\ outbound # <<>> /\ outbound' = Tail(outbound) /\ Head(outbound).op = "cancel"
      /\ flag' = [flag EXCEPT ![Head(outbound).corr] = job[Head(outbound).corr] # None]
      /\ asm' = [asm EXCEPT ![Head(outbound).corr] = None]
      /\ UNCHANGED <<callerVars, chunk, route, inbound, job, reply, runs, answer, ran, note>>
  BY Zenon DEF ModuleCancel, Taking, Take, HostUnchanged
<1>3. UNCHANGED <<pc, correlation, calls, offset, body>>
  BY <1>2 DEF callerVars
<1>4. /\ Head(outbound) = outbound[1] /\ outbound' \in Seq(OutFrame) /\ outbound[1] \in OutFrame
      /\ Len(outbound) \in Nat /\ Len(outbound') = Len(outbound) - 1
      /\ \A i \in 1 .. Len(outbound) - 1 : outbound'[i] = outbound[i + 1]
  BY <1>1, <1>2, TailIs DEF TypeOK
<1>5. d \in Corr /\ outbound[1] = [op |-> "cancel", corr |-> d]
  BY <1>2, <1>4 DEF OutFrame
<1> HIDE DEF d
<1>6. /\ flag' = [flag EXCEPT ![d] = job[d] # None]
      /\ asm' = [asm EXCEPT ![d] = None]
  BY <1>2, <1>4 DEF d
<1>7. TypeOK'
  <2>1. flag' \in [Corr -> BOOLEAN] /\ asm' \in [Corr -> Body \cup {None}]
    BY <1>1, <1>5, <1>6 DEF TypeOK
  <2> QED  BY <2>1, <1>1, <1>2, <1>3, <1>4 DEF TypeOK
<1>8. CallerInv' /\ OutInv'
  BY <1>1, OutCancelled
<1>9. InInv'
  <2>1. Polling' => Polling
    BY <1>3 DEF Polling
  <2> QED  BY <2>1, <1>1, <1>2, <1>3, InSame
<1>10. JobsInv'
  <2>1. JobInv'
    BY <1>1, <1>2, <1>3 DEF JobsInv, JobInv, This
  <2>2. WholeRequests'
    BY <1>1, <1>2, <1>3 DEF JobsInv, WholeRequests
  <2>3. LeftIsCancelled'
    <3> SUFFICES ASSUME NEW c \in Corr, job[c] # None, ~flag'[c], job[c] \in note["left"],
                        job[c] \notin note["uncancelled"]
                 PROVE  \E i \in 1 .. Len(outbound') :
                             outbound'[i] = [op |-> "cancel", corr |-> c]
      BY <1>2, Zenon DEF LeftIsCancelled
    <3>1. c # d /\ flag[c] = flag'[c]
      BY <1>1, <1>5, <1>6 DEF TypeOK
    <3>2. PICK i \in 1 .. Len(outbound) : outbound[i] = [op |-> "cancel", corr |-> c]
      BY <3>1, <1>1 DEF JobsInv, LeftIsCancelled
    <3>3. i # 1
      BY <3>1, <3>2, <1>5
    <3>4. i - 1 \in 1 .. Len(outbound') /\ outbound'[i - 1] = outbound[i]
      BY <3>3, <1>4
    <3> QED  BY <3>2, <3>4
  <2> QED  BY <2>1, <2>2, <2>3 DEF JobsInv
<1>11. (TypeOK /\ CallerInv /\ OutInv /\ InInv /\ JobsInv)'
  BY <1>7, <1>8, <1>9, <1>10
<1> QED  BY <1>11, Parts, PTL

(* The module refuses a frame.                                              *)
LEMMA StepRefuses ==
    ASSUME CallInv, ModuleRefuses
    PROVE  CallInv'
<1> DEFINE k == outbound[1].call
<1>1. TypeOK /\ CallerInv /\ OutInv /\ InInv /\ JobsInv
  BY Parts
<1>2. /\ outbound # <<>> /\ outbound' = Tail(outbound) /\ Head(outbound).op = "request"
      /\ asm' = [asm EXCEPT ![Head(outbound).corr] = None]
      /\ reply' = Bodiless(Head(outbound).corr)
      /\ note' = [note EXCEPT !["bounced"] = @ \cup {Head(outbound).call}]
      /\ UNCHANGED <<callerVars, chunk, route, inbound, job, flag, runs, answer, ran>>
  BY Zenon DEF ModuleRefuses, Taking, Take, HostUnchanged, Mark
<1>3. UNCHANGED <<pc, correlation, calls, offset, body>>
  BY <1>2 DEF callerVars
<1>4. /\ Head(outbound) = outbound[1] /\ outbound' \in Seq(OutFrame) /\ 1 \in 1 .. Len(outbound)
  BY <1>1, <1>2, TailIs DEF TypeOK
<1>5. Requesting(1)
  BY <1>2, <1>4 DEF Requesting
<1>6. outbound[1].corr = k /\ k \in Id /\ k \in Corr /\ chunk > 0
  BY <1>1, <1>4, <1>5, RequestIs DEF OutInv
<1>7. k = outbound[1].call
  OBVIOUS
<1> HIDE DEF k
<1>8. /\ asm' = [asm EXCEPT ![k] = None] /\ reply' = Bodiless(k)
      /\ note' = [note EXCEPT !["bounced"] = @ \cup {k}]
  BY <1>2, <1>4, <1>6, <1>7
<1>9. /\ note'["half"] = note["half"] /\ note'["left"] = note["left"]
      /\ note'["uncancelled"] = note["uncancelled"]
      /\ note["bounced"] \subseteq note'["bounced"] /\ k \in note'["bounced"]
      /\ note' \in [Note -> SUBSET Id]
  BY <1>1, <1>6, <1>8 DEF TypeOK, Note
<1>10. Bodiless(k) \in Reply
  BY <1>6 DEF Bodiless, Reply
<1>11. TypeOK'
  <2>1. asm' \in [Corr -> Body \cup {None}]
    BY <1>1, <1>8 DEF TypeOK
  <2> QED  BY <2>1, <1>1, <1>2, <1>3, <1>4, <1>8, <1>9, <1>10 DEF TypeOK
<1>12. CallerInv' /\ OutInv'
  BY <1>1, <1>2, <1>5, <1>7, <1>8, <1>9, OutTaken
<1>13. InInv'
  <2>1. reply'.ok = FALSE /\ reply'.off = 0 /\ reply'.len = 0
    BY <1>8 DEF Bodiless
  <2>2. ReplyInv'
    BY <2>1, <1>2, <1>6 DEF ReplyInv
  <2>3. ResultInv'
    BY <1>1, <1>2, <1>3 DEF InInv, ResultInv, Resulting, Ours, This, Polling
  <2>4. ResultOrder'
    BY <1>1, <1>2 DEF InInv, ResultOrder, Resulting
  <2> QED  BY <2>2, <2>3, <2>4 DEF InInv
<1>14. JobsInv'
  BY <1>1, <1>2, <1>3, <1>5, <1>9, JobsTaken
<1>15. (TypeOK /\ CallerInv /\ OutInv /\ InInv /\ JobsInv)'
  BY <1>11, <1>12, <1>13, <1>14
<1> QED  BY <1>15, Parts, PTL

Joined == (IF asm[outbound[1].corr] = None THEN <<>> ELSE asm[outbound[1].corr])
              \o outbound[1].units

(* What units begin with when others are put behind them.                   *)
LEMMA FirstUnit ==
    ASSUME NEW b \in Body, NEW u \in Body
    PROVE  /\ b \o u \in Body
           /\ b # <<>> => b \o u # <<>> /\ (b \o u)[1] = b[1]
           /\ (b = <<>> /\ Len(u) > 0) => b \o u # <<>> /\ (b \o u)[1] = u[1]
<1> DEFINE S == Nat \X (Nat \ {0})
<1>0. b \in Seq(S) /\ u \in Seq(S)
  BY DEF Body
<1> HIDE DEF S
<1>1. /\ b \o u \in Seq(S) /\ Len(b) \in Nat /\ Len(u) \in Nat
      /\ Len(b \o u) = Len(b) + Len(u)
      /\ \A i \in 1 .. Len(b) : (b \o u)[i] = b[i]
      /\ \A i \in Len(b) + 1 .. Len(b) + Len(u) : (b \o u)[i] = u[i - Len(b)]
  BY <1>0, ConcatIs, Zenon
<1>2. b = <<>> <=> Len(b) = 0
  BY <1>0, EmptySeq, Zenon
<1>3. b \o u = <<>> <=> Len(b \o u) = 0
  BY <1>1, EmptySeq, Zenon
<1> DEFINE w == b \o u
<1>4. w \in Body
  BY <1>1 DEF Body, S
<1>5. /\ Len(w) = Len(b) + Len(u) /\ (w = <<>> <=> Len(w) = 0)
      /\ Len(b) >= 1 => w[1] = b[1]
      /\ (Len(b) = 0 /\ Len(u) > 0) => w[1] = u[1]
  BY <1>1, <1>3
<1> HIDE DEF w
<1>6. /\ b # <<>> => w # <<>> /\ w[1] = b[1]
      /\ (b = <<>> /\ Len(u) > 0) => w # <<>> /\ w[1] = u[1]
  BY <1>1, <1>2, <1>5
<1> QED  BY <1>4, <1>6 DEF w

(* What the module has of a request when it has taken its next frame.       *)
LEMMA WholeIs ==
    ASSUME TypeOK, CallerInv, OutInv, outbound # <<>>, Requesting(1), route = "served"
    PROVE  LET f == outbound[1]
               k == f.call
           IN /\ Joined \in Body
              /\ f.more => Joined # <<>> /\ Joined[1][1] = k
              /\ k \notin note["bounced"] => Joined = Units(k, 0, End(f))
<1> DEFINE f == outbound[1]
           k == f.call
           n == Len(f.units)
           b == IF asm[k] = None THEN <<>> ELSE asm[k]
<1>1. 1 \in 1 .. Len(outbound)
  BY TailIs DEF TypeOK
<1>2. /\ f.corr = k /\ k \in Corr /\ k \in Nat /\ f.units \in Body /\ n \in Nat
      /\ Begin(f) \in Nat /\ End(f) = Begin(f) + n /\ f.units = Units(k, Begin(f), n)
      /\ f.more => Begin(f) < End(f)
  BY <1>1, RequestIs DEF OutInv
<1>3. asm[k] \in Body \cup {None}
  BY <1>2 DEF TypeOK
<1>4. b \in Body
  BY <1>3 DEF Body
<1>5. Joined = b \o f.units
  BY <1>2 DEF Joined
<1>6. asm[k] # None => b # <<>> /\ b[1][1] = k
  BY <1>2 DEF OutInv, AssemblyInv
<1>7. asm[k] = None => b = <<>>
  OBVIOUS
<1>8. k \notin note["bounced"] => b = Units(k, 0, Begin(f))
  <2> SUFFICES ASSUME k \notin note["bounced"] PROVE b = Units(k, 0, Begin(f))
    OBVIOUS
  <2>1. CASE Begin(f) = 0
    <3>1. b = <<>>
      BY <2>1, <1>1 DEF OutInv, JoinInv
    <3> QED  BY <2>1, <3>1, NoUnits
  <2>2. CASE Begin(f) > 0
    <3>1. asm[k] = Units(k, 0, Begin(f)) /\ Units(k, 0, Begin(f)) \in Body
      BY <2>2, <1>1, <1>2, BodyUnits DEF OutInv, JoinInv
    <3>2. asm[k] # None
      BY <3>1, NoneAssumption
    <3> QED  BY <3>1, <3>2
  <2> QED  BY <2>1, <2>2, <1>2
<1> HIDE DEF f, k, n, b
<1>9. /\ Joined \in Body
      /\ b # <<>> => Joined # <<>> /\ Joined[1] = b[1]
      /\ (b = <<>> /\ n > 0) => Joined # <<>> /\ Joined[1] = f.units[1]
  BY <1>2, <1>4, <1>5, FirstUnit DEF n
<1>10. k \notin note["bounced"] => Joined = Units(k, 0, End(f))
  <2> SUFFICES ASSUME k \notin note["bounced"] PROVE Joined = Units(k, 0, End(f))
    OBVIOUS
  <2>1. Joined = Units(k, 0, Begin(f)) \o Units(k, Begin(f), n)
    BY <1>2, <1>5, <1>8
  <2>2. Joined = Units(k, 0, Begin(f) + n)
    BY <2>1, <1>2, UnitsGrow
  <2> QED  BY <2>2, <1>2
<1>11. f.more => Joined # <<>> /\ Joined[1][1] = k
  <2> SUFFICES ASSUME f.more PROVE Joined # <<>> /\ Joined[1][1] = k
    OBVIOUS
  <2>1. n > 0
    BY <1>2
  <2>2. f.units[1] = <<k, Begin(f) + 1>>
    BY <2>1, <1>2 DEF Units
  <2>3. CASE asm[k] = None
    BY <2>1, <2>2, <2>3, <1>7, <1>9
  <2>4. CASE asm[k] # None
    BY <2>4, <1>6, <1>9
  <2> QED  BY <2>3, <2>4
<1> QED  BY <1>9, <1>10, <1>11 DEF f, k

(* The module takes a frame of a request; the last one starts its handler   *)
(* or is answered at once.                                                  *)
LEMMA StepAssembles ==
    ASSUME CallInv, ModuleAssembles
    PROVE  CallInv'
<1> DEFINE f == outbound[1]
           k == f.call
           whole == (IF asm[f.corr] = None THEN <<>> ELSE asm[f.corr]) \o f.units
           X == IF f.more THEN whole ELSE None
<1>1. TypeOK /\ CallerInv /\ OutInv /\ InInv /\ JobsInv
  BY Parts
<1>2. /\ outbound # <<>> /\ outbound' = Tail(outbound) /\ Head(outbound).op = "request"
      /\ route = "served" /\ reply = None
      /\ UNCHANGED <<callerVars, chunk, route, inbound, answer, note>>
  BY Zenon DEF ModuleAssembles, Taking, Take, HostUnchanged
<1>3. UNCHANGED <<pc, correlation, calls, offset, body>>
  BY <1>2 DEF callerVars
<1>4. /\ Head(outbound) = f /\ outbound' \in Seq(OutFrame) /\ 1 \in 1 .. Len(outbound)
      /\ Len(outbound) \in Nat /\ Len(outbound') = Len(outbound) - 1
      /\ \A i \in 1 .. Len(outbound) - 1 : outbound'[i] = outbound[i + 1]
  BY <1>1, <1>2, TailIs DEF TypeOK
<1>5. Requesting(1)
  BY <1>2, <1>4 DEF Requesting
<1>6. /\ f.corr = k /\ k \in Id /\ k \in Corr /\ k \in Nat /\ k \in 1 .. This /\ chunk > 0
      /\ runs[k] = 0
      /\ calls[k] \in Nat /\ End(f) \in Nat /\ End(f) =< calls[k]
      /\ f.more <=> End(f) < calls[k]
  BY <1>1, <1>4, <1>5, RequestIs DEF OutInv
<1>7. /\ asm' = [asm EXCEPT ![f.corr] = IF f.more THEN whole ELSE None]
      /\ \/ f.more /\ UNCHANGED <<job, flag, runs, ran, reply>>
         \/ /\ ~f.more
            /\ reply' = Bodiless(f.corr) /\ UNCHANGED <<job, flag, runs, ran>>
         \/ /\ ~f.more
            /\ job' = [job EXCEPT ![f.corr] = f.call]
            /\ flag' = [flag EXCEPT ![f.corr] = FALSE]
            /\ runs' = [runs EXCEPT ![f.call] = runs[f.call] + 1]
            /\ ran' = ran \cup {[call |-> f.call, units |-> whole]}
            /\ UNCHANGED reply
  BY <1>4, Zenon DEF ModuleAssembles
<1>8. /\ whole \in Body
      /\ f.more => whole # <<>> /\ whole[1][1] = k
      /\ k \notin note["bounced"] => whole = Units(k, 0, End(f))
  BY <1>1, <1>2, <1>5, WholeIs DEF Joined
<1>9. k = outbound[1].call /\ f = outbound[1]
  OBVIOUS
<1>10. ASSUME NEW i \in 2 .. Len(outbound), Requesting(i), outbound[i].call = k
       PROVE  f.more
  BY <1>1, <1>4, <1>5, <1>10 DEF OutInv, OrderInv
<1> HIDE DEF f, k, whole
<1>11. asm' = [asm EXCEPT ![k] = X]
  BY <1>6, <1>7
<1>12. /\ X # None => /\ f.more /\ X # <<>> /\ X[1][1] = k
                      /\ k \notin note["bounced"] => X = Units(k, 0, End(f))
       /\ X = None => ~f.more
       /\ X \in Body \cup {None}
  BY <1>8, NoneAssumption
<1> HIDE DEF X
<1>13. asm' \in [Corr -> Body \cup {None}]
  BY <1>1, <1>11, <1>12 DEF TypeOK
<1>14. ASSUME NEW j \in Id, j # k \/ f.more PROVE runs'[j] = runs[j]
  <2>1. CASE f.more
    BY <2>1, <1>7
  <2>2. CASE j # k
    BY <2>2, <1>1, <1>6, <1>7 DEF TypeOK, k
  <2> QED  BY <2>1, <2>2, <1>14
<1>15. CallerInv' /\ OutInv'
  BY <1>1, <1>2, <1>5, <1>9, <1>11, <1>12, <1>14, OutTaken
<1>16. CASE f.more \/ (~f.more /\ reply' = Bodiless(f.corr) /\ UNCHANGED <<job, flag, runs, ran>>)
  <2>1. UNCHANGED <<job, flag, runs, ran>> /\ (reply' = None \/ reply' = Bodiless(k))
    BY <1>2, <1>6, <1>7, <1>16
  <2>2. TypeOK'
    <3>0. Bodiless(k) \in Reply
      BY <1>6 DEF Bodiless, Reply
    <3>1. reply' \in Reply \cup {None}
      BY <3>0, <2>1
    <3> QED  BY <3>1, <2>1, <1>1, <1>2, <1>3, <1>4, <1>13 DEF TypeOK
  <2>3. InInv'
    <3>1. reply' # None => reply'.ok = FALSE /\ reply'.off = 0 /\ reply'.len = 0
      BY <2>1 DEF Bodiless
    <3>2. ReplyInv'
      BY <3>1, <1>2, <1>6 DEF ReplyInv
    <3>3. ResultInv'
      BY <1>1, <1>2, <1>3 DEF InInv, ResultInv, Resulting, Ours, This, Polling
    <3>4. ResultOrder'
      BY <1>1, <1>2 DEF InInv, ResultOrder, Resulting
    <3> QED  BY <3>2, <3>3, <3>4 DEF InInv
  <2>4. JobsInv'
    BY <2>1, <1>1, <1>2, <1>3, <1>5, JobsTaken
  <2>5. (TypeOK /\ CallerInv /\ OutInv /\ InInv /\ JobsInv)'
    BY <2>2, <1>15, <2>3, <2>4
  <2> QED  BY <2>5, Parts, PTL
<1>17. CASE /\ ~f.more
            /\ job' = [job EXCEPT ![f.corr] = f.call]
            /\ flag' = [flag EXCEPT ![f.corr] = FALSE]
            /\ runs' = [runs EXCEPT ![f.call] = runs[f.call] + 1]
            /\ ran' = ran \cup {[call |-> f.call, units |-> whole]}
            /\ UNCHANGED reply
  <2>1. /\ job' = [job EXCEPT ![k] = k] /\ flag' = [flag EXCEPT ![k] = FALSE]
        /\ runs' = [runs EXCEPT ![k] = 1]
        /\ ran' = ran \cup {[call |-> k, units |-> whole]}
        /\ reply' = reply /\ ~f.more
    BY <1>6, <1>17 DEF k
  <2>2. TypeOK'
    <3>1. job' \in [Corr -> Id \cup {None}] /\ flag' \in [Corr -> BOOLEAN]
          /\ runs' \in [Id -> {0, 1}]
      BY <2>1, <1>1, <1>6 DEF TypeOK
    <3>2. ran' \subseteq [call: Id, units: Body]
      BY <2>1, <1>1, <1>6, <1>8 DEF TypeOK
    <3> QED  BY <3>1, <3>2, <2>1, <1>1, <1>2, <1>3, <1>4, <1>13 DEF TypeOK
  <2>3. InInv'
    <3>1. Polling' => Polling
      BY <1>3 DEF Polling
    <3> QED  BY <3>1, <2>1, <1>1, <1>2, <1>3, InSame
  <2>4. JobInv'
    <3>0. This' = This /\ k =< This /\ answer[k] = None
      BY <1>1, <1>3, <1>6 DEF This, JobsInv, JobInv, TypeOK
    <3>1. ASSUME NEW c \in Corr, job'[c] # None
          PROVE  job'[c] = c /\ runs'[c] = 1 /\ answer'[c] = None /\ chunk' > 0
      <4>1. CASE c = k
        BY <4>1, <3>0, <2>1, <1>1, <1>2, <1>6 DEF TypeOK
      <4>2. CASE c # k
        <5>1. job[c] # None /\ job'[c] = job[c]
          BY <4>2, <3>1, <2>1, <1>1 DEF TypeOK
        <5>2. job[c] = c /\ runs[c] = 1 /\ answer[c] = None /\ chunk > 0 /\ c \in Id
          BY <5>1, <1>1 DEF JobsInv, JobInv, TypeOK
        <5> QED  BY <4>2, <5>1, <5>2, <2>1, <1>1, <1>2 DEF TypeOK
      <4> QED  BY <4>1, <4>2
    <3>2. ASSUME NEW j \in Id
          PROVE  (runs'[j] = 1 => j =< This') /\ (answer'[j] # None => runs'[j] = 1)
      BY <3>0, <2>1, <1>1, <1>2 DEF JobsInv, JobInv, TypeOK
    <3>3. \A r \in ran' : r.call =< This'
      BY <3>0, <2>1, <1>1 DEF JobsInv, JobInv
    <3> QED  BY <3>1, <3>2, <3>3 DEF JobInv
  <2>5. WholeRequests'
    <3>1. k \notin note["bounced"] => whole = Units(k, 0, calls[k])
      <4>1. End(f) = calls[k]
        BY <2>1, <1>6
      <4> QED  BY <4>1, <1>8
    <3> QED  BY <3>1, <2>1, <1>1, <1>2, <1>3 DEF JobsInv, WholeRequests
  <2>6. LeftIsCancelled'
    <3> SUFFICES ASSUME NEW c \in Corr, job'[c] # None, ~flag'[c], job'[c] \in note["left"],
                        job'[c] \notin note["uncancelled"]
                 PROVE  \E i \in 1 .. Len(outbound') :
                             outbound'[i] = [op |-> "cancel", corr |-> c]
      BY <1>2, Zenon DEF LeftIsCancelled
    <3>1. \E i \in 2 .. Len(outbound) : outbound[i] = [op |-> "cancel", corr |-> c]
      <4>1. CASE c = k
        <5>1. k \in note["left"] /\ k \notin note["uncancelled"]
          BY <4>1, <2>1, <1>1, <1>6 DEF TypeOK
        <5>2. PICK i \in 1 .. Len(outbound) :
                 i > 1 /\ outbound[i] = [op |-> "cancel", corr |-> k]
          BY <5>1, <1>1, <1>4, <1>5, <1>9 DEF OutInv, CancelInv
        <5> QED  BY <4>1, <5>2
      <4>2. CASE c # k
        <5>1. job[c] = job'[c] /\ flag[c] = flag'[c]
          BY <4>2, <2>1, <1>1 DEF TypeOK
        <5>2. PICK i \in 1 .. Len(outbound) : outbound[i] = [op |-> "cancel", corr |-> c]
          BY <5>1, <1>1 DEF JobsInv, LeftIsCancelled
        <5>3. i # 1
          BY <5>2, <1>5 DEF Requesting
        <5> QED  BY <5>2, <5>3
      <4> QED  BY <4>1, <4>2
    <3>2. PICK i \in 2 .. Len(outbound) : outbound[i] = [op |-> "cancel", corr |-> c]
      BY <3>1
    <3>3. i - 1 \in 1 .. Len(outbound') /\ outbound'[i - 1] = outbound[i]
      BY <1>4
    <3> QED  BY <3>2, <3>3
  <2>7. (TypeOK /\ CallerInv /\ OutInv /\ InInv /\ JobsInv)'
    BY <2>2, <1>15, <2>3, <2>4, <2>5, <2>6 DEF JobsInv
  <2> QED  BY <2>7, Parts, PTL
<1> QED  BY <1>7, <1>16, <1>17

(* A handler is done.                                                       *)
LEMMA StepAnswers ==
    ASSUME CallInv, NEW c \in Corr, NEW len \in Answers \cup {None}, ModuleAnswers(c, len)
    PROVE  CallInv'
<1>1. TypeOK /\ CallerInv /\ OutInv /\ InInv /\ JobsInv
  BY Parts
<1>2. job[c] # None /\ job[c] = c /\ c \in Id /\ runs[c] = 1
  BY <1>1 DEF ModuleAnswers, JobsInv, JobInv, TypeOK
<1>3. /\ job' = [job EXCEPT ![c] = None] /\ flag' = [flag EXCEPT ![c] = FALSE]
      /\ reply' = IF len = None THEN Bodiless(c)
                  ELSE [corr |-> c, call |-> c, ok |-> TRUE, off |-> 0, len |-> len]
      /\ answer' = [answer EXCEPT ![c] = len]
      /\ UNCHANGED <<callerVars, chunk, route, outbound, inbound, asm, runs, ran, note>>
  BY <1>2, Zenon DEF ModuleAnswers, HostUnchanged
<1>4. UNCHANGED <<pc, correlation, calls, offset, body>>
  BY <1>3 DEF callerVars
<1>5. len \in Nat \cup {None}
  BY CallAssumption
<1>6. ASSUME NEW d \in Corr, d # c PROVE job'[d] = job[d] /\ flag'[d] = flag[d]
  BY <1>1, <1>3, <1>6 DEF TypeOK
<1>7. job'[c] = None
  BY <1>1, <1>3 DEF TypeOK
<1>8. ASSUME NEW k \in Id, k # c PROVE answer'[k] = answer[k]
  BY <1>1, <1>3, <1>8 DEF TypeOK
<1>9. TypeOK'
  <2>1. /\ job' \in [Corr -> Id \cup {None}] /\ flag' \in [Corr -> BOOLEAN]
        /\ answer' \in [Id -> Nat \cup {None}]
    BY <1>1, <1>3, <1>5 DEF TypeOK
  <2>2. reply' \in Reply \cup {None}
    <3>1. CASE len = None
      BY <3>1, <1>3 DEF Bodiless, Reply
    <3>2. CASE len # None
      BY <3>2, <1>2, <1>3, <1>5 DEF Reply
    <3> QED  BY <3>1, <3>2
  <2> QED  BY <2>1, <2>2, <1>1, <1>3, <1>4 DEF TypeOK
<1>10. CallerInv'
  <2>1. body # <<>> => answer'[This] # None
    <3> SUFFICES ASSUME body # <<>> PROVE answer'[This] # None
      OBVIOUS
    <3>1. answer[This] # None /\ This > 0 /\ This =< MaxCalls /\ This \in Nat
      BY <1>1 DEF CallerInv, TypeOK, This
    <3>2. This \in Id /\ This # c
      BY <3>1, <1>1, <1>2, CallAssumption DEF Id, JobsInv, JobInv
    <3> QED  BY <3>1, <3>2, <1>8
  <2> QED  BY <2>1, <1>1, <1>3, <1>4 DEF CallerInv, This, Length
<1>11. OutInv'
  BY <1>1, <1>3, <1>4, OutSame
<1>12. InInv'
  BY <1>1, InAnswer DEF JobsInv
<1>13. JobsInv'
  <2>1. JobInv'
    <3>1. ASSUME NEW d \in Corr, job'[d] # None
          PROVE  job'[d] = d /\ runs'[d] = 1 /\ answer'[d] = None /\ chunk' > 0
      <4>1. d # c /\ job[d] # None /\ job'[d] = job[d]
        BY <3>1, <1>6, <1>7
      <4>2. job[d] = d /\ runs[d] = 1 /\ answer[d] = None /\ chunk > 0 /\ d \in Id
        BY <4>1, <1>1 DEF JobsInv, JobInv, TypeOK
      <4> QED  BY <4>1, <4>2, <1>3, <1>8
    <3>2. ASSUME NEW j \in Id
          PROVE  (runs'[j] = 1 => j =< This') /\ (answer'[j] # None => runs'[j] = 1)
      BY <1>1, <1>2, <1>3, <1>4, <1>8 DEF JobsInv, JobInv, This
    <3>3. \A r \in ran' : r.call =< This'
      BY <1>1, <1>3, <1>4 DEF JobsInv, JobInv, This
    <3> QED  BY <3>1, <3>2, <3>3 DEF JobInv
  <2>2. WholeRequests'
    BY <1>1, <1>3, <1>4 DEF JobsInv, WholeRequests
  <2>3. LeftIsCancelled'
    BY <1>1, <1>3, <1>6, <1>7 DEF JobsInv, LeftIsCancelled
  <2> QED  BY <2>1, <2>2, <2>3 DEF JobsInv
<1>14. (TypeOK /\ CallerInv /\ OutInv /\ InInv /\ JobsInv)'
  BY <1>9, <1>10, <1>11, <1>12, <1>13
<1> QED  BY <1>14, Parts, PTL

(* A part of a reply arrives.                                               *)
LEMMA StepReplies ==
    ASSUME CallInv, ModuleReplies
    PROVE  CallInv'
<1>1. TypeOK /\ CallerInv /\ OutInv /\ InInv /\ JobsInv
  BY Parts
<1>2. UNCHANGED <<callerVars, chunk, route, outbound, asm, job, flag, runs, answer, ran, note>>
  BY Zenon DEF ModuleReplies, HostUnchanged
<1>3. UNCHANGED <<pc, correlation, calls, offset, body>>
  BY <1>2 DEF callerVars
<1>4. InInv' /\ inbound' \in Seq(InFrames) /\ reply' \in Reply \cup {None}
  BY <1>1, InReplies
<1>5. TypeOK'
  BY <1>1, <1>2, <1>3, <1>4 DEF TypeOK
<1>6. CallerInv'
  BY <1>1, <1>2, <1>3 DEF CallerInv, This, Length
<1>7. OutInv'
  BY <1>1, <1>2, <1>3, OutSame
<1>8. JobsInv'
  BY <1>1, <1>2, <1>3, JobsSame
<1>9. (TypeOK /\ CallerInv /\ OutInv /\ InInv /\ JobsInv)'
  BY <1>4, <1>5, <1>6, <1>7, <1>8
<1> QED  BY <1>9, Parts, PTL

-----------------------------------------------------------------------------
(* The theorems. *)

(* Before the first call nothing has been sent, run or answered.            *)
LEMMA InitCall == Init => CallInv
<1> SUFFICES ASSUME Init PROVE CallInv
  OBVIOUS
<1>1. /\ pc = "idle" /\ correlation = 0 /\ calls = <<>> /\ offset = 0 /\ body = <<>>
      /\ outbound = <<>> /\ inbound = <<>> /\ chunk \in Chunks /\ route \in Route
      /\ asm = [c \in Corr |-> None] /\ job = [c \in Corr |-> None]
      /\ flag = [c \in Corr |-> FALSE] /\ reply = None
      /\ runs = [k \in Id |-> 0] /\ answer = [k \in Id |-> None] /\ ran = {}
      /\ note = [w \in Note |-> {}]
  BY DEF Init
<1>2. Len(calls) = 0 /\ Len(outbound) = 0 /\ Len(inbound) = 0 /\ Len(body) = 0 /\ This = 0
  BY <1>1 DEF This
<1>3. TypeOK
  <2>1. /\ calls \in Seq(Nat) /\ outbound \in Seq(OutFrame) /\ inbound \in Seq(InFrames)
        /\ body \in Body
    BY <1>1 DEF Body
  <2>2. correlation \in Corr /\ chunk \in Nat
    BY <1>1, CallAssumption DEF Corr
  <2>3. /\ asm \in [Corr -> Body \cup {None}] /\ job \in [Corr -> Id \cup {None}]
        /\ flag \in [Corr -> BOOLEAN] /\ runs \in [Id -> {0, 1}]
        /\ answer \in [Id -> Nat \cup {None}] /\ note \in [Note -> SUBSET Id]
    BY <1>1
  <2> QED  BY <2>1, <2>2, <2>3, <1>1 DEF TypeOK
<1>4. CallerInv
  <2>1. body = Units(This, 0, Len(body))
    BY <1>1, <1>2, NoUnits
  <2>2. note["left"] = {} /\ note["half"] = {}
    BY <1>1 DEF Note
  <2> QED  BY <2>1, <2>2, <1>1, <1>2, CallAssumption DEF CallerInv
<1>5. OutInv
  BY <1>1, <1>2 DEF OutInv, RequestInv, JoinInv, RestInv, CancelInv, OrderInv, LastInv,
                    AssemblyInv, Sending
<1>6. InInv
  BY <1>1, <1>2 DEF InInv, ReplyInv, ResultInv, ResultOrder
<1>7. JobsInv
  BY <1>1 DEF JobsInv, JobInv, WholeRequests, LeftIsCancelled
<1> QED  BY <1>3, <1>4, <1>5, <1>6, <1>7, Parts

(* Every step of the caller, the host and the module keeps the invariant.   *)
LEMMA NextCall == CallInv /\ [Next]_vars => CallInv'
<1> SUFFICES ASSUME CallInv, [Next]_vars PROVE CallInv'
  OBVIOUS
<1>1. CASE \E len \in Requests, deadline \in BOOLEAN : Call(len, deadline)
  BY <1>1, StepCall
<1>2. CASE Caller
  BY <1>2, StepSend, StepFails, StepPollEvent, StepPolls DEF Caller
<1>3. CASE Module
  BY <1>3, StepHostRefuses, StepCancel, StepRefuses, StepAssembles, StepAnswers, StepReplies
     DEF Module
<1>4. CASE Strays
  BY <1>4, StepStray
<1>5. CASE \/ OthersAssemble \/ HostRestart \/ ContextEnds \/ DeadlinePasses \/ UNCHANGED vars
  BY <1>5, StepAround
<1> QED  BY <1>1, <1>2, <1>3, <1>4, <1>5 DEF Next

(* The inductive invariant holds of every behaviour.                        *)
THEOREM CallInvariant == Spec => []CallInv
<1>1. CallInv /\ [Next]_vars => CallInv'
  BY NextCall
<1> QED  BY InitCall, <1>1, PTL DEF Spec

(* The variables of caller, rings, host and module keep their types; in     *)
(* particular no stage runs a call twice (runs is 0 or 1).                  *)
THEOREM CallTypeCorrect == Spec => []TypeOK
<1>1. CallInv => TypeOK
  BY DEF CallInv
<1> QED  BY CallInvariant, <1>1, PTL

(* A handler is given the whole body of one call, however many fragments    *)
(* send cuts it into, unless the module refused one of them.                *)
THEOREM RequestsAreWhole == Spec => []WholeRequests
<1>1. CallInv => WholeRequests
  BY DEF CallInv
<1> QED  BY CallInvariant, <1>1, PTL

(* A job of a call that awaitReply has given up is cancelled, is about to   *)
(* be, or the outbound ring had no room for the cancel.                     *)
THEOREM LeftCallsAreCancelled == Spec => []LeftIsCancelled
<1>1. CallInv => LeftIsCancelled
  BY DEF CallInv
<1> QED  BY CallInvariant, <1>1, PTL

(* The beginning of a request stays with the module only while the rest is  *)
(* under way or when send was cut off.                                      *)
THEOREM HalvesAreAccounted == Spec => []HalvesAccounted
<1>1. CallInv => HalvesAccounted
  <2> SUFFICES ASSUME CallInv, NEW c \in Corr, asm[c] # None
               PROVE  \/ pc = "send" /\ c = correlation
                      \/ \E i \in 1 .. Len(outbound) :
                           outbound[i].op = "request" /\ outbound[i].corr = c
                      \/ asm[c] # <<>> /\ asm[c][1][1] \in note["half"]
    BY DEF HalvesAccounted
  <2>1. /\ asm[c] # <<>> /\ asm[c][1][1] = c
        /\ \/ outbound = <<>> /\ Sending(c)
           \/ c \in note["half"]
           \/ outbound # <<>> /\ Requesting(1) /\ outbound[1].call = c
    BY DEF CallInv, AssemblyInv
  <2>2. CASE Sending(c)
    BY <2>2 DEF Sending, CallInv, CallerInv
  <2>3. CASE outbound # <<>> /\ Requesting(1) /\ outbound[1].call = c
    <3>1. 1 \in 1 .. Len(outbound)
      BY <2>3, TailIs DEF CallInv, TypeOK
    <3>2. outbound[1].corr = c
      BY <2>3, <3>1 DEF CallInv, RequestInv
    <3> QED  BY <2>3, <3>1, <3>2 DEF Requesting
  <2> QED  BY <2>1, <2>2, <2>3
<1> QED  BY CallInvariant, <1>1, PTL

-----------------------------------------------------------------------------
(* The refinement. *)

(* Steps that neither begin, run, answer nor end a call.                    *)
LEMMA RemoteSame ==
    ASSUME UNCHANGED <<calls, runs, answer, ret>>, pc' = "idle" <=> pc = "idle"
    PROVE  UNCHANGED Remote!vars
  BY DEF Remote!vars

(* An error ends the call.                                                  *)
LEMMA RemoteError ==
    ASSUME pc # "idle", Return(None), UNCHANGED <<calls, runs, answer>>
    PROVE  Remote!ReturnError
  BY DEF Return, This, Remote!ReturnError

(* The last part of the answer ends the call with the whole of it.          *)
LEMMA RemoteBody ==
    ASSUME CallInv, PollEvent
    PROVE  Remote!ReturnBody \/ UNCHANGED Remote!vars
<1> DEFINE f == inbound[1]
<1>1. TypeOK /\ CallerInv /\ OutInv /\ InInv /\ JobsInv
  BY Parts
<1>2. /\ pc = "await" /\ inbound # <<>> /\ OnEvent(Head(inbound))
      /\ UNCHANGED <<calls, moduleVars>>
  BY Zenon DEF PollEvent
<1>3. Head(inbound) = f /\ Polling /\ correlation = This /\ 1 \in 1 .. Len(inbound)
  BY <1>1, <1>2, TailIs DEF TypeOK, Polling, CallerInv
<1>4. OnEvent(f) /\ UNCHANGED <<runs, answer>>
  BY <1>2, <1>3 DEF moduleVars
<1>5. f.more \in BOOLEAN /\ f.units \in Body
  BY <1>1, <1>3, InFrameType
<1>6. (Own(f) /\ f.kind = "result" /\ f.ok) => Ours(1)
  BY <1>3 DEF Ours, Resulting, Own
<1>7. Ours(1) => /\ answer[This] \in Nat /\ This \in Id
                 /\ PartOf(f, This, answer[This])
                 /\ body \o f.units = Units(This, 0, End(f)) /\ End(f) \in Nat
  BY <1>1, <1>2, <1>3, NextPart DEF InInv
<1> HIDE DEF f
<1>8. ASSUME NEW w, Leave(w) PROVE UNCHANGED Remote!vars
  <2>1. pc' = "leave" /\ ret' = ret
    BY <1>8 DEF Leave
  <2> QED  BY <2>1, <1>2, <1>4, RemoteSame
<1>9. ASSUME NEW b, Again(b) PROVE UNCHANGED Remote!vars
  <2>1. pc' = "await" /\ ret' = ret
    BY <1>9 DEF Again
  <2> QED  BY <2>1, <1>2, <1>4, RemoteSame
<1>10. ASSUME Ours(1), ~f.more, Return(body \o f.units) PROVE Remote!ReturnBody
  <2>1. End(f) = answer[This]
    <3>1. /\ answer[This] \in Nat /\ This \in Id /\ PartOf(f, This, answer[This])
          /\ End(f) \in Nat
      BY <1>7, <1>10
    <3> QED  BY <3>1, <1>10 DEF PartOf
  <2>2. ret' = [call |-> This, body |-> Units(This, 0, answer[This])] /\ pc' = "idle"
    BY <2>1, <1>7, <1>10 DEF Return
  <2>3. Units(This, 0, answer[This]) = Remote!Answer(This, answer[This])
    BY <1>7, <1>10 DEF Units, Remote!Answer
  <2>4. answer[This] # None
    BY <1>7, <1>10, NoneAssumption
  <2>5. ret' = [call |-> Len(calls), body |-> Remote!Answer(Len(calls), answer[Len(calls)])]
    BY <2>2, <2>3 DEF This
  <2> QED  BY <2>2, <2>4, <2>5, <1>2, <1>4 DEF Remote!ReturnBody, This
<1>11. \/ \E w : Leave(w)
       \/ \E b : Again(b)
       \/ Ours(1) /\ ~f.more /\ Return(body \o f.units)
  BY <1>4, <1>6, Zenon DEF OnEvent
<1> QED  BY <1>8, <1>9, <1>10, <1>11

(* Every step is a step of the abstract call, or none.                      *)
LEMMA RemoteStep ==
    ASSUME CallInv, [Next]_vars
    PROVE  [Remote!Next]_(Remote!vars)
<1>1. TypeOK /\ CallerInv /\ OutInv /\ InInv /\ JobsInv
  BY Parts
<1>2. ASSUME NEW len \in Requests, NEW deadline \in BOOLEAN, Call(len, deadline)
      PROVE  Remote!Invoke
  <2>1. /\ pc = "idle" /\ Len(calls) < MaxCalls /\ pc' = "send"
        /\ calls' = Append(calls, len) /\ UNCHANGED <<ret, runs, answer>>
    BY <1>2 DEF Call, This, moduleVars
  <2>2. Len(calls') = Len(calls) + 1
    <3>1. len \in Nat /\ calls \in Seq(Nat)
      BY <1>1, CallAssumption DEF TypeOK
    <3> QED  BY <2>1, <3>1, AppendIs
  <2> QED  BY <2>1, <2>2 DEF Remote!Invoke
<1>3. CASE SendFragment
  <2>1. pc = "send" /\ pc' \in {"send", "await"} /\ UNCHANGED <<calls, ret, runs, answer>>
    BY <1>3 DEF SendFragment, moduleVars
  <2> QED  BY <2>1, RemoteSame
<1>4. CASE SendFails
  <2>1. pc # "idle" /\ Return(None) /\ UNCHANGED <<calls, runs, answer>>
    BY <1>4 DEF SendFails, moduleVars
  <2> QED  BY <2>1, RemoteError DEF Remote!Next
<1>5. CASE LeaveCall
  <2>1. pc # "idle" /\ Return(None) /\ UNCHANGED <<calls, runs, answer>>
    BY <1>5 DEF LeaveCall, moduleVars
  <2> QED  BY <2>1, RemoteError DEF Remote!Next
<1>6. CASE PollEvent
  BY <1>6, RemoteBody DEF Remote!Next
<1>7. CASE PollNothing \/ PollEpoch \/ Check
  <2>1. /\ pc \in {"await", "check"} /\ pc' \in {"check", "leave", "await"}
        /\ UNCHANGED <<calls, ret, runs, answer>>
    BY <1>7 DEF PollNothing, PollEpoch, Check, Leave, Again, moduleVars
  <2> QED  BY <2>1, RemoteSame
<1>8. CASE HostRefuses \/ Strays
  <2>1. UNCHANGED <<callerVars, moduleVars>>
    BY <1>8 DEF HostRefuses, Strays, Stray, HostUnchanged
  <2>2. UNCHANGED <<pc, calls, ret, runs, answer>>
    BY <2>1 DEF callerVars, moduleVars
  <2> QED  BY <2>2, RemoteSame
<1>9. CASE ModuleCancel \/ ModuleRefuses \/ ModuleReplies \/ OthersAssemble
  <2>1. UNCHANGED <<callerVars, runs, answer>>
    BY <1>9 DEF ModuleCancel, ModuleRefuses, ModuleReplies, OthersAssemble, HostUnchanged
  <2>2. UNCHANGED <<pc, calls, ret, runs, answer>>
    BY <2>1 DEF callerVars
  <2> QED  BY <2>2, RemoteSame
<1>10. CASE ModuleAssembles
  <2> DEFINE k == outbound[1].call
  <2>1. /\ outbound # <<>> /\ Head(outbound).op = "request" /\ UNCHANGED <<callerVars, answer>>
        /\ UNCHANGED runs \/ runs' = [runs EXCEPT ![Head(outbound).call] = @ + 1]
    BY <1>10, Zenon DEF ModuleAssembles, Taking, HostUnchanged
  <2>2. UNCHANGED <<pc, calls, ret>>
    BY <2>1 DEF callerVars
  <2>3. CASE UNCHANGED runs
    BY <2>1, <2>2, <2>3, RemoteSame
  <2>4. CASE runs' = [runs EXCEPT ![Head(outbound).call] = @ + 1]
    <3>1. Head(outbound) = outbound[1] /\ 1 \in 1 .. Len(outbound)
      BY <2>1, <1>1, TailIs DEF TypeOK
    <3>2. Requesting(1)
      BY <2>1, <3>1 DEF Requesting
    <3>3. k \in Id /\ k \in 1 .. This /\ runs[k] = 0
      BY <3>1, <3>2, <1>1, RequestIs DEF OutInv
    <3>4. runs' = [runs EXCEPT ![k] = 1]
      <4>1. Head(outbound).call = k /\ 0 + 1 = 1
        BY <3>1
      <4>2. runs' = [runs EXCEPT ![k] = runs[k] + 1]
        BY <2>4, <4>1, Zenon
      <4> QED  BY <3>3, <4>1, <4>2, Zenon
    <3> HIDE DEF k
    <3>5. k =< Len(calls) /\ Remote!Id = Id
      BY <3>3, <1>1 DEF This, TypeOK, Id, Remote!Id
    <3>6. Remote!Run(k)
      BY <2>1, <2>2, <3>3, <3>4, <3>5 DEF Remote!Run
    <3> QED  BY <3>3, <3>5, <3>6 DEF Remote!Next
  <2> QED  BY <2>1, <2>3, <2>4
<1>11. ASSUME NEW c \in Corr, NEW len \in Answers \cup {None}, ModuleAnswers(c, len)
       PROVE  [Remote!Next]_(Remote!vars)
  <2>1. job[c] # None /\ job[c] = c /\ c \in Id /\ runs[c] = 1 /\ answer[c] = None
    BY <1>1, <1>11 DEF ModuleAnswers, JobsInv, JobInv, TypeOK
  <2>2. answer' = [answer EXCEPT ![c] = len] /\ UNCHANGED <<callerVars, runs>>
    BY <2>1, <1>11 DEF ModuleAnswers, HostUnchanged
  <2>3. UNCHANGED <<pc, calls, ret>>
    BY <2>2 DEF callerVars
  <2>4. CASE len = None
    <3>1. answer' = answer
      BY <2>1, <2>2, <2>4, <1>1 DEF TypeOK
    <3> QED  BY <3>1, <2>2, <2>3, RemoteSame
  <2>5. CASE len # None
    <3>1. len \in 0 .. MaxLen /\ Remote!Id = Id
      BY <2>5, CallAssumption DEF Remote!Id, Id
    <3>2. Remote!GiveAnswer(c, len)
      BY <2>1, <2>2, <2>3 DEF Remote!GiveAnswer
    <3> QED  BY <2>1, <3>1, <3>2 DEF Remote!Next
  <2> QED  BY <2>4, <2>5
<1>12. CASE HostRestart
  <2>1. UNCHANGED <<pc, calls, ret, runs, answer>>
    BY <1>12 DEF HostRestart, callerVars, moduleVars
  <2> QED  BY <2>1, RemoteSame
<1>13. CASE ContextEnds \/ DeadlinePasses
  <2>1. UNCHANGED <<pc, calls, ret, runs, answer>>
    BY <1>13 DEF ContextEnds, DeadlinePasses, moduleVars
  <2> QED  BY <2>1, RemoteSame
<1>14. CASE UNCHANGED vars
  <2>1. UNCHANGED <<pc, calls, ret, runs, answer>>
    BY <1>14 DEF vars, callerVars, moduleVars
  <2> QED  BY <2>1, RemoteSame
<1>15. CASE \E len \in Requests, deadline \in BOOLEAN : Call(len, deadline)
  BY <1>15, <1>2 DEF Remote!Next
<1>16. CASE Caller
  BY <1>16, <1>3, <1>4, <1>5, <1>6, <1>7 DEF Caller
<1>17. CASE Module
  BY <1>17, <1>8, <1>9, <1>10, <1>11 DEF Module
<1> QED  BY <1>8, <1>9, <1>12, <1>13, <1>14, <1>15, <1>16, <1>17 DEF Next

(* Call, send and awaitReply, over rings that may fill up, a host that may  *)
(* refuse or restart and a module that bounces, cancels and answers late,   *)
(* implement a remote call that runs at most once and returns either an     *)
(* error or the whole answer to that very call.                             *)
THEOREM CallIsRemote == Spec => IsRemoteCall
<1>1. Init => Remote!Init
  <2> SUFFICES ASSUME Init PROVE Remote!Init
    OBVIOUS
  <2>1. Len(calls) = 0 /\ pc = "idle" /\ ret = None
        /\ runs = [k \in Id |-> 0] /\ answer = [k \in Id |-> None]
    BY DEF Init
  <2> QED  BY <2>1 DEF Remote!Init, Remote!Id, Id
<1>2. CallInv /\ [Next]_vars => [Remote!Next]_(Remote!vars)
  BY RemoteStep
<1> QED  BY <1>1, <1>2, CallInvariant, PTL DEF Spec, IsRemoteCall, Remote!Spec
=============================================================================
