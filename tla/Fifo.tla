-------------------------------- MODULE Fifo --------------------------------
(***************************************************************************)
(* What one direction of a queue pair promises to the code above it: a     *)
(* bounded first-in first-out queue whose receiver looks at the oldest     *)
(* message in place.  A message that is being looked at stays in the queue *)
(* and does not change until the receiver lets go of it; a message that    *)
(* cannot be decoded is discarded without being shown.                     *)
(***************************************************************************)
EXTENDS Naturals, Sequences

CONSTANTS Message,      \* everything a sender may put into a slot
          Undecodable,  \* the messages the receiver's frame decoder refuses
          Bound,        \* the number of slots
          NoView        \* the receiver is not looking at a message

VARIABLES queue,        \* messages sent and not yet released
          view          \* the message the receiver is looking at, or NoView

vars == <<queue, view>>

Init == /\ queue \in Seq(Message) /\ Len(queue) =< Bound
        /\ view = NoView

Send(m) == /\ Len(queue) < Bound
           /\ queue' = Append(queue, m)
           /\ UNCHANGED view

Look == /\ view = NoView /\ queue # <<>>
        /\ Head(queue) \notin Undecodable
        /\ view' = Head(queue)
        /\ UNCHANGED queue

Release == /\ view # NoView
           /\ view' = NoView
           /\ queue' = Tail(queue)

Discard == /\ view = NoView /\ queue # <<>>
           /\ Head(queue) \in Undecodable
           /\ queue' = Tail(queue)
           /\ UNCHANGED view

Next == \/ \E m \in Message : Send(m)
        \/ Look \/ Release \/ Discard

Spec == Init /\ [][Next]_vars
=============================================================================
