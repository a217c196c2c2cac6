---------------------------- MODULE BusRingProofs ----------------------------
(***************************************************************************)
(* Proofs about the ring, for every capacity and every index width that is *)
(* a multiple of it: no slot is shared, and the ring implements Fifo.      *)
(***************************************************************************)
EXTENDS BusRing, Integers, Sequences, TLAPS

-----------------------------------------------------------------------------
(* Arithmetic of the indices. *)

(* Incrementing an index is adding one, or wrapping to zero.                *)
LEMMA IncIs ==
    ASSUME NEW i \in Index
    PROVE  Inc(i) = IF i + 1 = IndexMod THEN 0 ELSE i + 1
  BY RingAssumption DEF Index, Inc

(* The difference of two indices, whichever of them has wrapped.            *)
LEMMA CountIs ==
    ASSUME NEW h \in Index, NEW t \in Index
    PROVE  Count(h, t) = IF h >= t THEN h - t ELSE h - t + IndexMod
  BY RingAssumption DEF Index, Count

(* SlotOf is the remainder on division by the capacity.                     *)
LEMMA SlotOfIs ==
    ASSUME NEW a \in Nat
    PROVE  /\ SlotOf(a) \in Slot
           /\ \E q \in Nat : a = Capacity * q + SlotOf(a)
<1>1. a = Capacity * (a \div Capacity) + SlotOf(a) /\ SlotOf(a) \in Slot
  BY RingAssumption DEF SlotOf, Slot
<1>2. a \div Capacity \in Nat
  BY RingAssumption
<1> QED  BY <1>1, <1>2

(* And the remainder is unique.                                             *)
LEMMA SlotOfUnique ==
    ASSUME NEW a \in Nat, NEW q \in Nat, NEW r \in Slot, a = Capacity * q + r
    PROVE  SlotOf(a) = r
  BY RingAssumption DEF SlotOf, Slot

(* No positive multiple of the capacity is below it.                        *)
LEMMA NoSmallMultiple ==
    ASSUME NEW q \in Int, 0 < Capacity * q, Capacity * q < Capacity
    PROVE  FALSE
  BY RingAssumption

(* The wrap of an index does not move its slot.                             *)
LEMMA SlotOfWrap ==
    ASSUME NEW a \in Nat
    PROVE  SlotOf(a + IndexMod) = SlotOf(a)
<1>1. PICK q \in Nat : a = Capacity * q + SlotOf(a)
  BY SlotOfIs
<1>2. PICK k \in 1 .. IndexMod : IndexMod = k * Capacity
  BY RingAssumption
<1>3. a + IndexMod = Capacity * (q + k) + SlotOf(a)
  <2>1. SlotOf(a) \in Nat /\ Capacity \in Nat /\ k \in Nat
    BY RingAssumption, SlotOfIs DEF Slot
  <2>2. Capacity * (q + k) = Capacity * q + k * Capacity
    BY <2>1
  <2>3. Capacity * q \in Nat /\ k * Capacity \in Nat
    BY <2>1
  <2> QED  BY <1>1, <1>2, <2>1, <2>2, <2>3
<1>4. q + k \in Nat /\ a + IndexMod \in Nat
  BY <1>2, RingAssumption
<1> QED  BY <1>3, <1>4, SlotOfIs, SlotOfUnique

(* Two indices less than the capacity apart select different slots.         *)
LEMMA SlotsDiffer ==
    ASSUME NEW a \in Nat, NEW d \in 1 .. Capacity - 1
    PROVE  SlotOf(a) # SlotOf(a + d)
<1> SUFFICES ASSUME SlotOf(a) = SlotOf(a + d) PROVE FALSE
  OBVIOUS
<1>1. PICK p \in Nat : a = Capacity * p + SlotOf(a)
  BY SlotOfIs
<1>2. a + d \in Nat
  BY RingAssumption
<1>3. PICK q \in Nat : a + d = Capacity * q + SlotOf(a + d)
  BY <1>2, SlotOfIs
<1>4. d = Capacity * (q - p)
  <2>1. SlotOf(a) \in Int /\ Capacity \in Int
    BY RingAssumption, SlotOfIs DEF Slot
  <2>2. Capacity * (q - p) = Capacity * q - Capacity * p
    BY <2>1
  <2>3. Capacity * q \in Int /\ Capacity * p \in Int
    BY <2>1
  <2> QED  BY <1>1, <1>3, <2>1, <2>2, <2>3
<1> QED  BY <1>4, RingAssumption, NoSmallMultiple

(* The slot at head is the one after the last committed slot.               *)
LEMMA HeadSlot ==
    ASSUME NEW h \in Index, NEW t \in Index
    PROVE  SlotOf(h) = SlotOf(t + Count(h, t))
<1>1. t + Count(h, t) = h \/ t + Count(h, t) = h + IndexMod
  BY CountIs, RingAssumption DEF Index
<1> QED  BY <1>1, SlotOfWrap DEF Index

(* Releasing a slot shifts the numbering of the slots by one.               *)
LEMMA NextSlot ==
    ASSUME NEW t \in Index, NEW j \in Nat
    PROVE  SlotOf(Inc(t) + j) = SlotOf(t + (j + 1))
<1>1. CASE t + 1 = IndexMod
  <2>1. Inc(t) + j = j /\ t + (j + 1) = j + IndexMod
    BY <1>1, IncIs, RingAssumption DEF Index
  <2> QED  BY <2>1, SlotOfWrap
<1>2. CASE t + 1 # IndexMod
  BY <1>2, IncIs, RingAssumption DEF Index
<1> QED  BY <1>1, <1>2

(* A commit adds one to the number of occupied slots.                       *)
LEMMA CountAfterCommit ==
    ASSUME NEW h \in Index, NEW t \in Index, Count(h, t) < Capacity
    PROVE  Inc(h) \in Index /\ Count(Inc(h), t) = Count(h, t) + 1
<1>1. Inc(h) \in Index
  BY IncIs, RingAssumption DEF Index
<1>2. Count(Inc(h), t) = IF Inc(h) >= t THEN Inc(h) - t ELSE Inc(h) - t + IndexMod
  BY <1>1, CountIs
<1>3. Count(h, t) = IF h >= t THEN h - t ELSE h - t + IndexMod
  BY CountIs
<1> QED  BY <1>1, <1>2, <1>3, IncIs, RingAssumption DEF Index

(* A release takes one away.                                                *)
LEMMA CountAfterRelease ==
    ASSUME NEW h \in Index, NEW t \in Index, h # t
    PROVE  Inc(t) \in Index /\ Count(h, Inc(t)) = Count(h, t) - 1
<1>1. Inc(t) \in Index
  BY IncIs, RingAssumption DEF Index
<1> QED  BY <1>1, IncIs, CountIs, RingAssumption DEF Index

(* The number of occupied slots is a number, and zero only when the two     *)
(* indices agree.                                                           *)
LEMMA CountType ==
    ASSUME NEW h \in Index, NEW t \in Index
    PROVE  Count(h, t) \in Nat /\ (Count(h, t) = 0 <=> h = t)
  BY CountIs, RingAssumption DEF Index

(* The slot the producer fills is none of the committed ones.               *)
LEMMA FreeSlot ==
    ASSUME NEW h \in Index, NEW t \in Index, Count(h, t) < Capacity,
           NEW j \in 0 .. Count(h, t) - 1
    PROVE  SlotOf(t + j) # SlotOf(h)
<1>1. Count(h, t) \in Nat
  BY CountType
<1>2. t + j \in Nat /\ Count(h, t) - j \in 1 .. Capacity - 1
  BY <1>1, RingAssumption DEF Index
<1>3. (t + j) + (Count(h, t) - j) = t + Count(h, t)
  BY <1>1, <1>2 DEF Index
<1> QED  BY <1>2, <1>3, SlotsDiffer, HeadSlot

-----------------------------------------------------------------------------
(* The invariant. *)

(* AttachRing adopts a ring whose committed slots hold messages.            *)
LEMMA RingInit == Init => RingInv
<1> SUFFICES ASSUME Init PROVE RingInv
  OBVIOUS
<1>1. TypeOK
  BY DEF Init, TypeOK, ProducerStep, ConsumerStep, EmitResult, PollResult
<1>2. \A j \in 0 .. Occupied - 1 : slots[SlotOf(tail + j)] \in Message
  <2> TAKE j \in 0 .. Occupied - 1
  <2>1. tail + j \in Nat
    BY CountType DEF Init, Index, Occupied
  <2> QED  BY <2>1, SlotOfIs DEF Init
<1> QED  BY <1>1, <1>2 DEF Init, RingInv, Occupied, Producing, Consuming

(* A step that leaves the indices and the slots alone.                      *)
LEMMA RingUntouched ==
    ASSUME RingInv, UNCHANGED ringVars
    PROVE  /\ Occupied' = Occupied
           /\ \A j \in 0 .. Occupied' - 1 : slots'[SlotOf(tail' + j)] \in Message
  BY DEF RingInv, ringVars, Occupied

(* Writing the slot at head disturbs no committed slot.                     *)
LEMMA CommittedKept ==
    ASSUME RingInv, Producing, NEW m, slots' = [slots EXCEPT ![SlotOf(head)] = m],
           UNCHANGED <<head, tail>>
    PROVE  /\ Occupied' = Occupied
           /\ \A j \in 0 .. Occupied - 1 : slots'[SlotOf(tail + j)] = slots[SlotOf(tail + j)]
           /\ slots'[SlotOf(head)] = m
<1>1. head \in Index /\ tail \in Index /\ slots \in [Slot -> Message \cup {Torn}]
  BY DEF RingInv, TypeOK
<1>2. SlotOf(head) \in Slot
  BY <1>1, SlotOfIs DEF Index
<1>3. \A j \in 0 .. Occupied - 1 : tail + j \in Nat /\ SlotOf(tail + j) \in Slot
  BY <1>1, CountType, SlotOfIs DEF Index, Occupied
<1>4. \A j \in 0 .. Occupied - 1 : SlotOf(tail + j) # SlotOf(head)
  BY <1>1, FreeSlot DEF RingInv, Occupied
<1> QED  BY <1>1, <1>2, <1>3, <1>4 DEF Occupied

(* Every step of emit preserves the invariant.                              *)
LEMMA ProducerStepInv ==
    ASSUME RingInv, Producer PROVE RingInv'
<1> USE DEF ProducerStep, EmitResult
<1>1. ASSUME NEW m \in Message, EmitStart(m) PROVE RingInv'
  BY <1>1, RingUntouched DEF RingInv, TypeOK, EmitStart, EmitDone, Producing, Consuming,
                             ringVars, consVars
<1>2. CASE ProduceBegin
  BY <1>2, RingUntouched DEF RingInv, TypeOK, ProduceBegin, EmitDone, Producing, Consuming,
                             Occupied, ringVars, consVars
<1>3. CASE EncodeFrame
  <2>1. CASE UNCHANGED slots
    BY <1>3, <2>1, RingUntouched, RingAssumption
       DEF RingInv, TypeOK, EncodeFrame, EmitDone, Producing, Consuming, ringVars, consVars
  <2>2. CASE /\ slots' = [slots EXCEPT ![SlotOf(head)] = Torn]
             /\ ppc' = "copy" /\ UNCHANGED <<pmsg, presult>>
    <3>1. Producing
      BY <1>3 DEF EncodeFrame, Producing
    <3>2. UNCHANGED <<head, tail, epochChanged, consVars>>
      BY <1>3 DEF EncodeFrame
    <3>3. /\ Occupied' = Occupied
          /\ \A j \in 0 .. Occupied - 1 : slots'[SlotOf(tail + j)] = slots[SlotOf(tail + j)]
      BY <2>2, <3>1, <3>2, CommittedKept
    <3>4. TypeOK'
      BY <2>2, <3>2 DEF RingInv, TypeOK, consVars
    <3> QED  BY <1>3, <2>2, <3>1, <3>2, <3>3, <3>4
             DEF RingInv, EncodeFrame, Producing, Consuming, consVars
  <2> QED  BY <1>3, <2>1, <2>2 DEF EncodeFrame
<1>4. CASE CopyPayload
  <2>1. Producing
    BY <1>4 DEF CopyPayload, Producing
  <2>2. UNCHANGED <<head, tail, epochChanged, consVars, pmsg, presult>> /\ ppc' = "commit"
    BY <1>4 DEF CopyPayload
  <2>3. /\ Occupied' = Occupied /\ slots'[SlotOf(head)] = pmsg
        /\ \A j \in 0 .. Occupied - 1 : slots'[SlotOf(tail + j)] = slots[SlotOf(tail + j)]
    BY <1>4, <2>1, <2>2, CommittedKept DEF CopyPayload
  <2>4. TypeOK'
    BY <1>4, <2>2 DEF RingInv, TypeOK, CopyPayload, consVars
  <2> QED  BY <1>4, <2>1, <2>2, <2>3, <2>4 DEF RingInv, CopyPayload, Producing, Consuming, consVars
<1>5. CASE ProduceCommit
  <2>1. /\ head \in Index /\ tail \in Index /\ Occupied < Capacity /\ pmsg \in Message
        /\ slots[SlotOf(head)] = pmsg
    BY <1>5 DEF RingInv, TypeOK, ProduceCommit, Producing
  <2>2. head' \in Index /\ Occupied' = Occupied + 1 /\ Occupied \in Nat
    BY <1>5, <2>1, CountAfterCommit, CountType DEF ProduceCommit, Occupied
  <2>3. /\ UNCHANGED <<tail, slots, epochChanged, consVars>>
        /\ ppc' = "idle" /\ pmsg' = NoMessage /\ presult' = "ok"
    BY <1>5 DEF ProduceCommit, EmitDone
  <2>4. TypeOK'
    BY <2>2, <2>3 DEF RingInv, TypeOK, consVars
  <2>5. \A j \in 0 .. Occupied' - 1 : slots'[SlotOf(tail' + j)] \in Message
    <3> TAKE j \in 0 .. Occupied' - 1
    <3>1. CASE j = Occupied
      BY <2>1, <2>3, <3>1, HeadSlot DEF Occupied
    <3>2. CASE j # Occupied
      BY <2>2, <2>3, <3>2 DEF RingInv
    <3> QED  BY <3>1, <3>2
  <2>6. Consuming' => head' # tail'
    BY <2>1, <2>2, <2>3, <2>4, CountType DEF Occupied, TypeOK
  <2> QED  BY <2>1, <2>2, <2>3, <2>4, <2>5, <2>6, RingAssumption DEF RingInv, Producing, consVars
<1> QED  BY <1>1, <1>2, <1>3, <1>4, <1>5 DEF Producer

(* Giving back the slot at tail leaves the other committed slots.           *)
LEMMA ReleaseKeepsRest ==
    ASSUME RingInv, head # tail, tail' = Inc(tail), UNCHANGED <<head, slots>>
    PROVE  /\ tail' \in Index /\ Occupied' = Occupied - 1 /\ Occupied \in Nat
           /\ \A j \in 0 .. Occupied' - 1 : slots'[SlotOf(tail' + j)] \in Message
<1>1. head \in Index /\ tail \in Index
  BY DEF RingInv, TypeOK
<1>2. tail' \in Index /\ Occupied' = Occupied - 1 /\ Occupied \in Nat
  BY <1>1, CountAfterRelease, CountType DEF Occupied
<1>3. \A j \in 0 .. Occupied' - 1 : j + 1 \in 0 .. Occupied - 1 /\ j \in Nat
  BY <1>2
<1>4. \A j \in 0 .. Occupied' - 1 : slots'[SlotOf(tail' + j)] = slots[SlotOf(tail + (j + 1))]
  BY <1>1, <1>3, NextSlot
<1> QED  BY <1>2, <1>3, <1>4 DEF RingInv

(* Every step of Poll preserves the invariant.                              *)
LEMMA ConsumerStepInv ==
    ASSUME RingInv, Consumer PROVE RingInv'
<1> USE DEF ConsumerStep, PollResult
<1>1. CASE PollStart
  <2>0. UNCHANGED <<head, slots, epochChanged, prodVars>>
    BY <1>1 DEF PollStart
  <2>1. CASE UNCHANGED <<tail, pendingRead>> /\ PollDone("epoch")
    BY <2>0, <2>1, <1>1, RingUntouched
       DEF RingInv, TypeOK, PollStart, PollDone, Producing, Consuming, ringVars, prodVars
  <2>3. CASE UNCHANGED tail /\ pendingRead' = FALSE /\ cpc' = "begin" /\ UNCHANGED cresult
    BY <2>0, <2>3, RingUntouched DEF RingInv, TypeOK, Producing, Consuming, ringVars, prodVars
  <2>2. CASE /\ pendingRead /\ tail' = Inc(tail) /\ pendingRead' = FALSE
             /\ cpc' = "begin" /\ UNCHANGED cresult
    <3>1. UNCHANGED <<head, slots, epochChanged, prodVars>>
      BY <1>1 DEF PollStart
    <3>2. head # tail
      BY <2>2 DEF RingInv, Consuming
    <3>3. /\ tail' \in Index /\ Occupied' = Occupied - 1 /\ Occupied \in Nat
          /\ \A j \in 0 .. Occupied' - 1 : slots'[SlotOf(tail' + j)] \in Message
      BY <2>2, <3>1, <3>2, ReleaseKeepsRest
    <3>4. TypeOK'
      BY <2>2, <3>1, <3>3 DEF RingInv, TypeOK, prodVars
    <3> QED  BY <2>2, <3>1, <3>3, <3>4, RingAssumption DEF RingInv, Producing, Consuming, prodVars
  <2> QED  BY <1>1, <2>1, <2>2, <2>3 DEF PollStart
<1>2. CASE ConsumeBegin
  BY <1>2, RingUntouched DEF RingInv, TypeOK, ConsumeBegin, PollDone, Producing, Consuming,
                             ringVars, prodVars
<1>3. CASE DecodeFrame
  <2>1. head # tail
    BY <1>3 DEF RingInv, DecodeFrame, Consuming
  <2>2. CASE tail' = Inc(tail) /\ PollDone("empty") /\ UNCHANGED pendingRead
    <3>1. UNCHANGED <<head, slots, epochChanged, prodVars>> /\ ~pendingRead
      BY <1>3 DEF DecodeFrame, RingInv
    <3>3. /\ tail' \in Index /\ Occupied' = Occupied - 1 /\ Occupied \in Nat
          /\ \A j \in 0 .. Occupied' - 1 : slots'[SlotOf(tail' + j)] \in Message
      BY <2>1, <2>2, <3>1, ReleaseKeepsRest
    <3>4. TypeOK'
      BY <2>2, <3>1, <3>3 DEF RingInv, TypeOK, prodVars, PollDone
    <3> QED  BY <2>2, <3>1, <3>3, <3>4, RingAssumption
             DEF RingInv, Producing, Consuming, prodVars, PollDone
  <2>3. CASE pendingRead' = TRUE /\ PollDone("event") /\ UNCHANGED tail
    BY <1>3, <2>1, <2>3, RingUntouched
       DEF RingInv, TypeOK, DecodeFrame, PollDone, Producing, Consuming, ringVars, prodVars
  <2> QED  BY <1>3, <2>2, <2>3 DEF DecodeFrame
<1> QED  BY <1>1, <1>2, <1>3 DEF Consumer

(* Every step preserves the invariant.                                      *)
LEMMA RingStep == RingInv /\ [Next]_vars => RingInv'
<1> SUFFICES ASSUME RingInv, [Next]_vars PROVE RingInv'
  OBVIOUS
<1>1. CASE HostRestart
  BY <1>1, RingUntouched DEF RingInv, TypeOK, HostRestart, Producing, Consuming,
                             ringVars, prodVars, consVars
<1>2. CASE UNCHANGED vars
  BY <1>2, RingUntouched DEF RingInv, TypeOK, vars, Producing, Consuming,
                             ringVars, prodVars, consVars
<1> QED  BY <1>1, <1>2, ProducerStepInv, ConsumerStepInv DEF Next

(* The inductive invariant holds whatever the two ends do.                  *)
THEOREM RingInvariant == Spec => []RingInv
  BY RingInit, RingStep, PTL DEF Spec

(* The variables keep their types; in particular head and tail stay within  *)
(* their width.                                                             *)
THEOREM RingTypeCorrect == Spec => []TypeOK
<1>1. RingInv => TypeOK
  BY DEF RingInv
<1> QED  BY RingInvariant, <1>1, PTL

(* The producer never writes into the slot the consumer is reading, for     *)
(* every capacity and at every position of the wrap.                        *)
THEOREM SlotsAreExclusive == Spec => []NoSlotShared
<1>1. RingInv => NoSlotShared
  <2> SUFFICES ASSUME RingInv, Producing, Consuming PROVE SlotOf(head) # SlotOf(tail)
    BY DEF NoSlotShared
  <2>1. head \in Index /\ tail \in Index /\ Occupied < Capacity /\ head # tail
    BY DEF RingInv, TypeOK
  <2>2. Occupied \in Nat /\ Occupied # 0
    BY <2>1, CountType DEF Occupied
  <2>3. 0 \in 0 .. Occupied - 1 /\ tail + 0 = tail
    BY <2>1, <2>2 DEF Index
  <2> QED  BY <2>1, <2>3, FreeSlot DEF Occupied
<1> QED  BY RingInvariant, <1>1, PTL

-----------------------------------------------------------------------------
(* The ring implements Fifo. *)

(* A function on 1 .. n is a sequence of length n.                          *)
LEMMA FunctionIsSequence ==
    ASSUME NEW n \in Nat, NEW f \in [1 .. n -> Message]
    PROVE  f \in Seq(Message) /\ Len(f) = n
  OBVIOUS

(* The committed slots, oldest first, are a sequence of messages.           *)
LEMMA CommittedSequence ==
    ASSUME NEW h \in Index, NEW t \in Index, NEW sl,
           \A j \in 0 .. Count(h, t) - 1 : sl[SlotOf(t + j)] \in Message,
           NEW c, c = [i \in 1 .. Count(h, t) |-> sl[SlotOf(t + i - 1)]]
    PROVE  /\ c \in Seq(Message) /\ Len(c) = Count(h, t) /\ Count(h, t) \in Nat
           /\ \A i \in 1 .. Count(h, t) : c[i] = sl[SlotOf(t + i - 1)]
<1>1. Count(h, t) \in Nat /\ t \in Nat
  BY CountType DEF Index
<1>2. \A i \in 1 .. Count(h, t) : i - 1 \in 0 .. Count(h, t) - 1 /\ t + (i - 1) = t + i - 1
  BY <1>1
<1>3. \A i \in 1 .. Count(h, t) : sl[SlotOf(t + i - 1)] \in Message
  BY <1>2
<1>4. c \in [1 .. Count(h, t) -> Message]
  BY <1>3
<1>5. c \in Seq(Message) /\ Len(c) = Count(h, t)
  BY <1>1, <1>4, FunctionIsSequence
<1> QED  BY <1>1, <1>5

(* So is what the refinement mapping takes for the queue.                   *)
LEMMA ContentsIs ==
    ASSUME RingInv
    PROVE  /\ Contents \in Seq(Message) /\ Len(Contents) = Occupied /\ Occupied \in Nat
           /\ \A i \in 1 .. Occupied : Contents[i] = slots[SlotOf(tail + i - 1)]
  BY CommittedSequence DEF RingInv, TypeOK, Contents, Occupied

(* And it still is after a step that preserves the invariant.               *)
LEMMA ContentsAfter ==
    ASSUME RingInv'
    PROVE  /\ Contents' \in Seq(Message) /\ Len(Contents') = Occupied' /\ Occupied' \in Nat
           /\ \A i \in 1 .. Occupied' : Contents'[i] = slots'[SlotOf(tail' + i - 1)]
<1>1. /\ head' \in Index /\ tail' \in Index
      /\ \A j \in 0 .. Count(head', tail') - 1 : slots'[SlotOf(tail' + j)] \in Message
  BY DEF RingInv, TypeOK, Occupied
<1>2. Contents' = [i \in 1 .. Count(head', tail') |-> slots'[SlotOf(tail' + i - 1)]]
  BY DEF Contents
<1>3. Occupied' = Count(head', tail')
  BY DEF Occupied
<1> QED  BY <1>1, <1>2, <1>3, CommittedSequence

(* Two sequences with the same length and the same elements are equal.      *)
LEMMA SameSequence ==
    ASSUME NEW s \in Seq(Message), NEW t \in Seq(Message), Len(s) = Len(t),
           \A i \in 1 .. Len(s) : s[i] = t[i]
    PROVE  s = t
  OBVIOUS

(* The oldest message is the one in the slot at tail.                       *)
LEMMA HeadOfContents ==
    ASSUME RingInv, head # tail
    PROVE  Contents # <<>> /\ Head(Contents) = slots[SlotOf(tail)] /\ Head(Contents) \in Message
<1>1. Occupied \in Nat /\ Occupied # 0 /\ tail \in Nat
  BY CountType DEF RingInv, TypeOK, Occupied, Index
<1>2. 1 \in 1 .. Occupied /\ tail + 1 - 1 = tail
  BY <1>1
<1>3. Contents[1] = slots[SlotOf(tail)]
  BY <1>2, ContentsIs
<1> QED  BY <1>1, <1>3, ContentsIs

(* Writing the slot at head does not show.                                  *)
LEMMA WriteIsInvisible ==
    ASSUME RingInv, RingInv', Producing, NEW m, slots' = [slots EXCEPT ![SlotOf(head)] = m],
           UNCHANGED <<head, tail, pendingRead>>
    PROVE  Contents' = Contents /\ View' = View
<1>1. /\ Occupied' = Occupied
      /\ \A j \in 0 .. Occupied - 1 : slots'[SlotOf(tail + j)] = slots[SlotOf(tail + j)]
  BY CommittedKept
<1>2. Occupied \in Nat /\ tail \in Nat
  BY CountType DEF RingInv, TypeOK, Occupied, Index
<1>3. \A i \in 1 .. Occupied : i - 1 \in 0 .. Occupied - 1 /\ tail + (i - 1) = tail + i - 1
  BY <1>2
<1>4. \A i \in 1 .. Occupied : slots'[SlotOf(tail' + i - 1)] = slots[SlotOf(tail + i - 1)]
  BY <1>1, <1>3
<1>5. Contents' = Contents
  BY <1>1, <1>4 DEF Contents, Occupied
<1>6. pendingRead => 0 \in 0 .. Occupied - 1 /\ tail + 0 = tail
  BY <1>2, CountType DEF RingInv, TypeOK, Occupied, Consuming
<1>7. View' = View
  BY <1>1, <1>6 DEF View
<1> QED  BY <1>5, <1>7

(* A commit appends the message that has been copied into the slot.         *)
LEMMA CommitSends ==
    ASSUME RingInv, RingInv', ProduceCommit
    PROVE  Queue!Send(pmsg) /\ pmsg \in Message
<1>1. /\ head \in Index /\ tail \in Index /\ Occupied < Capacity /\ pmsg \in Message
      /\ slots[SlotOf(head)] = pmsg
  BY DEF RingInv, TypeOK, ProduceCommit, Producing
<1>2. Occupied' = Occupied + 1
  BY <1>1, CountAfterCommit DEF ProduceCommit, Occupied
<1>3. UNCHANGED <<tail, slots, pendingRead>>
  BY DEF ProduceCommit, consVars
<1>4. /\ Contents \in Seq(Message) /\ Len(Contents) = Occupied /\ Occupied \in Nat
      /\ \A i \in 1 .. Occupied : Contents[i] = slots[SlotOf(tail + i - 1)]
  BY ContentsIs
<1>5. /\ Contents' \in Seq(Message) /\ Len(Contents') = Occupied + 1
      /\ \A i \in 1 .. Occupied + 1 : Contents'[i] = slots[SlotOf(tail + i - 1)]
  BY <1>2, <1>3, ContentsAfter
<1>6. Append(Contents, pmsg) \in Seq(Message) /\ Len(Append(Contents, pmsg)) = Occupied + 1
  BY <1>1, <1>4
<1>7. \A i \in 1 .. Occupied + 1 : Contents'[i] = Append(Contents, pmsg)[i]
  <2> TAKE i \in 1 .. Occupied + 1
  <2>1. CASE i = Occupied + 1
    <3>1. tail + i - 1 = tail + Occupied
      BY <1>1, <1>4, <2>1 DEF Index
    <3> QED  BY <1>1, <1>4, <1>5, <2>1, <3>1, HeadSlot DEF Occupied
  <2>2. CASE i # Occupied + 1
    BY <1>1, <1>4, <1>5, <2>2
  <2> QED  BY <2>1, <2>2
<1>8. Contents' = Append(Contents, pmsg)
  BY <1>5, <1>6, <1>7, SameSequence
<1> QED  BY <1>1, <1>3, <1>4, <1>8 DEF Queue!Send, View

(* Giving back the slot at tail takes the oldest message out.               *)
LEMMA ReleaseIsTail ==
    ASSUME RingInv, RingInv', head # tail, tail' = Inc(tail), UNCHANGED <<head, slots>>
    PROVE  Contents' = Tail(Contents)
<1>1. tail \in Index /\ tail' \in Index /\ Occupied' = Occupied - 1 /\ Occupied \in Nat
  BY ReleaseKeepsRest DEF RingInv, TypeOK
<1>2. /\ Contents \in Seq(Message) /\ Len(Contents) = Occupied
      /\ \A i \in 1 .. Occupied : Contents[i] = slots[SlotOf(tail + i - 1)]
  BY ContentsIs
<1>3. /\ Contents' \in Seq(Message) /\ Len(Contents') = Occupied - 1
      /\ \A i \in 1 .. Occupied - 1 : Contents'[i] = slots[SlotOf(tail' + i - 1)]
  BY <1>1, ContentsAfter
<1>4. Occupied # 0
  BY CountType DEF RingInv, TypeOK, Occupied
<1>5. /\ Tail(Contents) \in Seq(Message) /\ Len(Tail(Contents)) = Occupied - 1
      /\ \A i \in 1 .. Occupied - 1 : Tail(Contents)[i] = Contents[i + 1]
  BY <1>1, <1>2, <1>4
<1>6. \A i \in 1 .. Occupied - 1 : Contents'[i] = Tail(Contents)[i]
  <2> TAKE i \in 1 .. Occupied - 1
  <2>1. /\ i - 1 \in Nat /\ tail' + i - 1 = Inc(tail) + (i - 1)
        /\ tail + ((i - 1) + 1) = tail + (i + 1) - 1
    BY <1>1 DEF Index
  <2>2. SlotOf(tail' + i - 1) = SlotOf(tail + (i + 1) - 1)
    BY <1>1, <2>1, NextSlot
  <2>3. Contents'[i] = slots[SlotOf(tail + (i + 1) - 1)]
    BY <1>3, <2>2
  <2>4. i + 1 \in 1 .. Occupied
    BY <1>1
  <2>5. Contents[i + 1] = slots[SlotOf(tail + (i + 1) - 1)]
    BY <1>2, <2>4
  <2>6. Tail(Contents)[i] = Contents[i + 1]
    BY <1>5
  <2> QED  BY <2>3, <2>5, <2>6
<1> QED  BY <1>3, <1>5, <1>6, SameSequence

(* Every step of either end is a step of the queue, or changes nothing of   *)
(* what the queue is.                                                       *)
LEMMA FifoStep ==
    ASSUME RingInv, RingInv', [Next]_vars
    PROVE  Queue!Next \/ UNCHANGED Queue!vars
<1> DEFINE Same == Contents' = Contents /\ View' = View
<1>0. Same => UNCHANGED Queue!vars
  BY DEF Queue!vars
<1>1. CASE UNCHANGED <<ringVars, pendingRead>>
  <2>1. Same
    BY <1>1 DEF Contents, View, ringVars
  <2> QED  BY <2>1, <1>0
<1>2. ASSUME NEW m \in Message, EmitStart(m) PROVE UNCHANGED <<ringVars, pendingRead>>
  BY <1>2 DEF EmitStart, consVars
<1>3. CASE ProduceBegin
  BY <1>3, <1>1 DEF ProduceBegin, consVars
<1>4. CASE EncodeFrame
  <2>1. CASE UNCHANGED slots
    BY <1>4, <2>1, <1>1 DEF EncodeFrame, consVars, ringVars
  <2>2. CASE slots' = [slots EXCEPT ![SlotOf(head)] = Torn]
    BY <1>0, <1>4, <2>2, WriteIsInvisible DEF EncodeFrame, Producing, consVars
  <2> QED  BY <1>4, <2>1, <2>2 DEF EncodeFrame
<1>5. CASE CopyPayload
  BY <1>0, <1>5, WriteIsInvisible DEF CopyPayload, Producing, consVars
<1>6. CASE ProduceCommit
  BY <1>6, CommitSends DEF Queue!Next
<1>7. CASE PollStart
  <2>1. CASE UNCHANGED <<tail, pendingRead>>
    BY <1>7, <2>1, <1>1 DEF PollStart, ringVars
  <2>2. CASE pendingRead /\ tail' = Inc(tail) /\ pendingRead' = FALSE
    <3>1. head # tail
      BY <2>2 DEF RingInv, Consuming
    <3>2. Contents' = Tail(Contents)
      BY <1>7, <2>2, <3>1, ReleaseIsTail DEF PollStart
    <3>3. View' = NoMessage /\ View \in Message
      BY <2>2, <3>1, HeadOfContents DEF View
    <3> QED  BY <3>2, <3>3, RingAssumption DEF Queue!Next, Queue!Release
  <2>3. CASE ~pendingRead /\ tail' = tail /\ pendingRead' = FALSE
    <3>1. UNCHANGED pendingRead
      BY <2>3 DEF RingInv, TypeOK
    <3> QED  BY <2>1, <2>3, <3>1
  <2> QED  BY <1>7, <2>1, <2>2, <2>3 DEF PollStart
<1>8. CASE ConsumeBegin
  BY <1>8, <1>1 DEF ConsumeBegin
<1>9. CASE DecodeFrame
  <2>1. head # tail /\ ~pendingRead /\ UNCHANGED <<head, slots>>
    BY <1>9 DEF DecodeFrame, RingInv, Consuming
  <2>2. /\ Contents # <<>> /\ Head(Contents) = slots[SlotOf(tail)] /\ Head(Contents) \in Message
        /\ View = NoMessage
    BY <2>1, HeadOfContents DEF View
  <2>3. CASE /\ slots[SlotOf(tail)] \in Undecodable \cup {Torn}
             /\ tail' = Inc(tail) /\ UNCHANGED pendingRead
    <3>1. Contents' = Tail(Contents)
      BY <2>1, <2>3, ReleaseIsTail
    <3>2. View' = View
      BY <2>1, <2>3 DEF View
    <3>3. Head(Contents) \in Undecodable
      BY <2>2, <2>3, RingAssumption
    <3> QED  BY <2>2, <3>1, <3>2, <3>3 DEF Queue!Next, Queue!Discard
  <2>4. CASE /\ slots[SlotOf(tail)] \notin Undecodable \cup {Torn}
             /\ pendingRead' = TRUE /\ UNCHANGED tail
    <3>1. Contents' = Contents /\ View' = slots[SlotOf(tail)]
      BY <2>1, <2>4 DEF Contents, View
    <3> QED  BY <2>2, <2>4, <3>1 DEF Queue!Next, Queue!Look
  <2> QED  BY <1>9, <2>3, <2>4 DEF DecodeFrame
<1>10. CASE HostRestart
  BY <1>10, <1>1 DEF HostRestart, consVars
<1>11. CASE UNCHANGED vars
  BY <1>11, <1>1 DEF vars, consVars
<1> QED  BY <1>1, <1>2, <1>3, <1>4, <1>5, <1>6, <1>7, <1>8, <1>9, <1>10, <1>11
     DEF Next, Producer, Consumer

(* What emit and Poll do over the shared ring is what a bounded FIFO queue  *)
(* with a view of its oldest message does, for every capacity, every index  *)
(* width and every occupancy AttachRing accepts: nothing is lost, repeated, *)
(* reordered, torn, or changed under a payload that has been handed out.    *)
THEOREM RingIsFifo == Spec => RefinesFifo
<1>1. Init => Queue!Init
  <2> SUFFICES ASSUME Init PROVE Queue!Init
    OBVIOUS
  <2>1. RingInv
    BY RingInit
  <2>2. Contents \in Seq(Message) /\ Len(Contents) =< Capacity
    BY <2>1, ContentsIs DEF RingInv
  <2> QED  BY <2>2 DEF Init, Queue!Init, View
<1>2. RingInv /\ RingInv' /\ [Next]_vars => [Queue!Next]_(Queue!vars)
  BY FifoStep
<1> QED  BY <1>1, <1>2, RingInvariant, PTL DEF Spec, Queue!Spec, RefinesFifo
=============================================================================
