------------------------------ MODULE BusRing -------------------------------
(***************************************************************************)
(* One single-producer/single-consumer ring of a bus queue pair            *)
(* (server-go/bus/ring.go), driven by Client.emit on the producing side    *)
(* and by Client.Poll on the consuming side (server-go/bus/client.go).     *)
(*                                                                         *)
(* The two ends are different processes that share the mapping, so every   *)
(* access to a shared word (head, tail, a slot, the epoch) is a step of    *)
(* its own.  The indices are free-running unsigned integers that wrap at   *)
(* IndexMod (2^64 in the code); a slot is selected with index & mask,      *)
(* which is index % Capacity because Capacity is a power of two.           *)
(***************************************************************************)
EXTENDS Naturals, FiniteSets

CONSTANTS Message,      \* what callers of emit pass in, and what a host writes
          Oversize,     \* payloads above the inline budget or the slot size
          Invalid,      \* frames Validate refuses, so Encode writes nothing
          Undecodable,  \* frames a foreign producer wrote that Decode refuses
          Capacity,     \* slots in the ring
          IndexMod,     \* the modulus of head and tail
          Torn,         \* a slot in the middle of being written
          NoMessage     \* no emit under way; also: no payload handed out

ASSUME RingAssumption ==
    /\ Capacity \in Nat /\ Capacity >= 2
    /\ IndexMod \in Nat /\ IndexMod > Capacity
    /\ \E k \in 1..IndexMod : IndexMod = k * Capacity
    /\ Oversize \subseteq Message /\ Invalid \subseteq Message
    /\ Undecodable \subseteq Message
    /\ Torn \notin Message /\ NoMessage \notin Message /\ Torn # NoMessage

VARIABLES head, tail,   \* the two shared indices
          slots,        \* the shared slots
          epochChanged, \* the host restarted: Control.Epoch # attachedEpoch
          ppc, pmsg, presult,        \* producer: step, argument, last result
          cpc, pendingRead, cresult  \* consumer: step, Client.pendingRead, result

ringVars == <<head, tail, slots>>
prodVars == <<ppc, pmsg, presult>>
consVars == <<cpc, pendingRead, cresult>>
vars == <<ringVars, epochChanged, prodVars, consVars>>

Index == 0 .. IndexMod - 1
Slot == 0 .. Capacity - 1

\* uint64 addition and subtraction on the indices.
Inc(i) == (i + 1) % IndexMod
Count(h, t) == (h + IndexMod - t) % IndexMod

\* Ring.slot: the slot an index selects.
SlotOf(i) == i % Capacity

ProducerStep == {"idle", "begin", "encode", "copy", "commit"}
ConsumerStep == {"idle", "begin", "decode"}
EmitResult == {"none", "ok", "payload", "epoch", "wouldblock", "protocol"}
PollResult == {"none", "event", "empty", "epoch"}

TypeOK ==
    /\ head \in Index /\ tail \in Index
    /\ slots \in [Slot -> Message \cup {Torn}]
    /\ epochChanged \in BOOLEAN
    /\ ppc \in ProducerStep /\ pmsg \in Message \cup {NoMessage}
    /\ presult \in EmitResult
    /\ cpc \in ConsumerStep /\ pendingRead \in BOOLEAN /\ cresult \in PollResult

(***************************************************************************)
(* AttachRing adopts whatever the host laid out, as long as head - tail    *)
(* does not exceed the capacity.                                           *)
(***************************************************************************)
Init ==
    /\ head \in Index /\ tail \in Index
    /\ Count(head, tail) =< Capacity
    /\ slots \in [Slot -> Message \ (Oversize \cup Invalid)]
    /\ epochChanged = FALSE
    /\ ppc = "idle" /\ pmsg = NoMessage /\ presult = "none"
    /\ cpc = "idle" /\ pendingRead = FALSE /\ cresult = "none"

-----------------------------------------------------------------------------
(* The producer: Client.emit. *)

EmitDone(r) == ppc' = "idle" /\ pmsg' = NoMessage /\ presult' = r

\* The payload and epoch checks that come before the ring is touched.
EmitStart(m) ==
    /\ ppc = "idle"
    /\ \/ m \in Oversize /\ EmitDone("payload")
       \/ m \notin Oversize /\ epochChanged /\ EmitDone("epoch")
       \/ /\ m \notin Oversize /\ ~epochChanged
          /\ ppc' = "begin" /\ pmsg' = m /\ UNCHANGED presult
    /\ UNCHANGED <<ringVars, epochChanged, consVars>>

\* Slip: the full ring is detected one slot too late.
ProduceBeginOffByOne ==
    /\ ppc = "begin"
    /\ \/ Count(head, tail) > Capacity /\ EmitDone("wouldblock")
       \/ /\ Count(head, tail) =< Capacity
          /\ ppc' = "encode" /\ UNCHANGED <<pmsg, presult>>
    /\ UNCHANGED <<ringVars, epochChanged, consVars>>

\* ProduceBegin: loads tail once; the answer is acted on later.
ProduceBegin ==
    /\ ppc = "begin"
    /\ \/ /\ Count(head, tail) >= Capacity
          /\ EmitDone("wouldblock")
       \/ /\ Count(head, tail) < Capacity
          /\ ppc' = "encode" /\ UNCHANGED <<pmsg, presult>>
    /\ UNCHANGED <<ringVars, epochChanged, consVars>>

\* Frame.Encode: validates before it writes; the header lands first.
EncodeFrame ==
    /\ ppc = "encode"
    /\ \/ pmsg \in Invalid /\ EmitDone("protocol") /\ UNCHANGED slots
       \/ /\ pmsg \notin Invalid
          /\ slots' = [slots EXCEPT ![SlotOf(head)] = Torn]
          /\ ppc' = "copy" /\ UNCHANGED <<pmsg, presult>>
    /\ UNCHANGED <<head, tail, epochChanged, consVars>>

CopyPayload ==
    /\ ppc = "copy"
    /\ slots' = [slots EXCEPT ![SlotOf(head)] = pmsg]
    /\ ppc' = "commit" /\ UNCHANGED <<pmsg, presult>>
    /\ UNCHANGED <<head, tail, epochChanged, consVars>>

ProduceCommit ==
    /\ ppc = "commit"
    /\ head' = Inc(head)
    /\ EmitDone("ok")
    /\ UNCHANGED <<tail, slots, epochChanged, consVars>>

Producer == \/ \E m \in Message : EmitStart(m)
            \/ ProduceBegin \/ EncodeFrame \/ CopyPayload \/ ProduceCommit

-----------------------------------------------------------------------------
(* The consumer: Client.Poll.  Between two calls the payload returned by    *)
(* the first one is a view into the slot at tail (pendingRead).             *)

PollDone(r) == cpc' = "idle" /\ cresult' = r

\* Slip: pendingRead is cleared but the slot is not given back.
PollStartNoCommit ==
    /\ cpc = "idle" /\ ~epochChanged
    /\ pendingRead' = FALSE /\ cpc' = "begin"
    /\ UNCHANGED <<ringVars, epochChanged, prodVars, cresult>>

\* The epoch check, then ConsumeCommit of the event handed out last time.
PollStart ==
    /\ cpc = "idle"
    /\ \/ epochChanged /\ PollDone("epoch") /\ UNCHANGED <<tail, pendingRead>>
       \/ /\ ~epochChanged
          /\ tail' = IF pendingRead THEN Inc(tail) ELSE tail
          /\ pendingRead' = FALSE
          /\ cpc' = "begin" /\ UNCHANGED cresult
    /\ UNCHANGED <<head, slots, epochChanged, prodVars>>

ConsumeBegin ==
    /\ cpc = "begin"
    /\ \/ head = tail /\ PollDone("empty")
       \/ head # tail /\ cpc' = "decode" /\ UNCHANGED cresult
    /\ UNCHANGED <<ringVars, epochChanged, prodVars, pendingRead>>

\* Slip: the slot is given back before its payload has been used.
DecodeFrameEarlyCommit ==
    /\ cpc = "decode"
    /\ tail' = Inc(tail) /\ pendingRead' = TRUE
    /\ PollDone("event")
    /\ UNCHANGED <<head, slots, epochChanged, prodVars>>

\* Decode: an event, or a frame that is released at once and not reported.
DecodeFrame ==
    /\ cpc = "decode"
    /\ \/ /\ slots[SlotOf(tail)] \in Undecodable \cup {Torn}
          /\ tail' = Inc(tail)
          /\ PollDone("empty") /\ UNCHANGED pendingRead
       \/ /\ slots[SlotOf(tail)] \notin Undecodable \cup {Torn}
          /\ pendingRead' = TRUE
          /\ PollDone("event") /\ UNCHANGED tail
    /\ UNCHANGED <<head, slots, epochChanged, prodVars>>

Consumer == PollStart \/ ConsumeBegin \/ DecodeFrame

-----------------------------------------------------------------------------
\* The host restarts and bumps the epoch (external).
HostRestart == /\ ~epochChanged /\ epochChanged' = TRUE
               /\ UNCHANGED <<ringVars, prodVars, consVars>>

Next == Producer \/ Consumer \/ HostRestart

Spec == Init /\ [][Next]_vars

\* The consumer polls forever (runModuleClient, awaitReply), and an emit that
\* has started runs to its end; nobody has to start one.
FairSpec == /\ Spec
            /\ WF_vars(Consumer)
            /\ WF_vars(ProduceBegin \/ EncodeFrame \/ CopyPayload \/ ProduceCommit)

-----------------------------------------------------------------------------
\* The producer owns its slot from ProduceBegin to ProduceCommit.
Producing == ppc \in {"encode", "copy", "commit"}
\* The consumer uses the slot at tail while it decodes and while the event it
\* returned has not been released.
Consuming == pendingRead \/ cpc = "decode"

(* The slot the producer is filling is never the slot the consumer is       *)
(* reading: the event payload Poll returned "is valid until the next Poll", *)
(* although the producer acts on a tail it loaded several steps ago.        *)
NoSlotShared == Producing /\ Consuming => SlotOf(head) # SlotOf(tail)

(* Everything the two ends do is what a FIFO queue does: the committed      *)
(* slots are the queue, the slot under the consumer's payload view is the   *)
(* view.  In particular an emit that returned an error added nothing, no    *)
(* message is lost, repeated or reordered across an index wrap, and the     *)
(* bytes under the view do not change while it is held.                     *)
Contents == [i \in 1 .. Count(head, tail) |-> slots[SlotOf(tail + i - 1)]]
View == IF pendingRead THEN slots[SlotOf(tail)] ELSE NoMessage
Queue == INSTANCE Fifo WITH queue <- Contents, view <- View,
                            Bound <- Capacity, NoView <- NoMessage
RefinesFifo == Queue!Spec

(* A committed slot is released in the end, unless the host restarts: when  *)
(* head has just passed index i and the ring is not empty, tail passes i    *)
(* too, whatever the producer adds meanwhile.                               *)
CommittedIsConsumed ==
    \A i \in Index :
        (head = Inc(i) /\ tail # head) ~> (tail = Inc(i) \/ epochChanged)

(* The inductive invariant behind NoSlotShared and RefinesFifo: a producer  *)
(* that has found room still has it, and a consumer that has found a slot   *)
(* still has that, since each end only ever adds to what the other may use; *)
(* every committed slot holds a whole message, and so does the slot that is *)
(* about to be committed.                                                   *)
Occupied == Count(head, tail)
RingInv ==
    /\ TypeOK
    /\ Occupied =< Capacity
    /\ Producing => Occupied < Capacity
    /\ Consuming => head # tail
    /\ cpc # "idle" => ~pendingRead
    /\ ppc # "idle" => pmsg \in Message
    /\ ppc = "commit" => slots[SlotOf(head)] = pmsg
    /\ \A j \in 0 .. Occupied - 1 : slots[SlotOf(tail + j)] \in Message
=============================================================================
