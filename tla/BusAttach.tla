------------------------------ MODULE BusAttach -----------------------------
(***************************************************************************)
(* The life of a bus client: connectModule and RunModuleProcess for a      *)
(* serving module, ConnectClient and its keepAlive goroutine for a caller  *)
(* (server-go/bus/module_runtime.go, client_connect.go), and the handshake *)
(* both share, AttachAs and Detach (server-go/bus/client.go).              *)
(*                                                                         *)
(* Every descriptor and mapping the process acquires is counted: a unit    *)
(* that is not given back leaks, one that is given back twice closes       *)
(* somebody else's descriptor.  The host is external: it listens, leaves a *)
(* stale socket behind, answers an attach or does not, restarts, and reaps *)
(* the slot of a client whose heartbeat has stopped.                       *)
(***************************************************************************)
EXTENDS Integers, FiniteSets

CONSTANTS Owner,       \* "module", "caller": who attaches
          MaxEpoch     \* bound on host restarts

Fd == {"fd1", "fd2", "fd3"}
Mapping == {"control", "arena", "queues"}
Resource == {"socket"} \cup Fd \cup Mapping

ASSUME AttachAssumption ==
    /\ Owner \subseteq {"module", "caller"} /\ Owner # {}
    /\ MaxEpoch \in Nat

(* The reply of the host: not a reply at all, a denial, or an acceptance,   *)
(* each with any of the descriptors it should carry.                        *)
Answer == [kind: {"none", "malformed", "denied", "ok"}, fds: SUBSET Fd, epoch: 0 .. MaxEpoch]
NoAnswer == [kind |-> "none", fds |-> {}, epoch |-> 0]

VARIABLES
    owner,     \* which of the two this process is
    pc,        \* where the attaching goroutine is
    open,      \* how many of each resource the process holds
    mem,       \* the Client's ctlMem, arena, qpMem that are not nil
    attached,  \* Client.attachedEpoch
    result,    \* what connectModule or ConnectClient returned
    ctxDone,   \* the context has ended
    path,      \* the socket pathname
    answer,    \* the host's reply to the attach
    epoch,     \* the epoch word of the control region
    beater,    \* the keepAlive goroutine, or a module's loop
    due,       \* the ticker has fired and the goroutine has not looked
    beat,      \* the heartbeat has advanced since the host last looked
    reaped     \* the host has taken the slot back

procVars == <<owner, pc, open, mem, attached, result>>
hostVars == <<path, answer, epoch, reaped>>
beatVars == <<beater, due, beat>>
vars == <<procVars, ctxDone, hostVars, beatVars>>

Step == {"socket", "connect", "retry", "request", "recv", "reply", "control", "arena",
         "queues", "validate", "attached", "serving", "gone"}

TypeOK ==
    /\ owner \in Owner /\ pc \in Step
    /\ open \in [Resource -> Int]
    /\ mem \subseteq Mapping
    /\ attached \in 0 .. MaxEpoch /\ epoch \in 0 .. MaxEpoch
    /\ result \in {"none", "client", "error", "denied", "ctx"}
    /\ path \in {"missing", "stale", "listening"}
    /\ answer \in Answer
    /\ beater \in {"none", "select", "writing"}
    /\ ctxDone \in BOOLEAN /\ due \in BOOLEAN /\ beat \in BOOLEAN /\ reaped \in BOOLEAN

Init ==
    /\ owner \in Owner /\ pc = "socket"
    /\ open = [r \in Resource |-> 0] /\ mem = {}
    /\ attached = 0 /\ result = "none" /\ ctxDone = FALSE
    /\ path \in {"missing", "stale", "listening"}
    /\ answer = NoAnswer /\ epoch = 0 /\ reaped = FALSE
    /\ beater = "none" /\ due = FALSE /\ beat = FALSE

-----------------------------------------------------------------------------
(* Connecting and attaching. *)

Acquire(S) == open' = [r \in Resource |-> IF r \in S THEN open[r] + 1 ELSE open[r]]
Release(S) == open' = [r \in Resource |-> IF r \in S THEN open[r] - 1 ELSE open[r]]

Goto(step) == pc' = step /\ UNCHANGED <<mem, attached, result>>
\* The attach has failed: AttachAs gives back S, its caller the socket.
Fail(S, why) ==
    /\ Release(S \cup {"socket"})
    /\ pc' = "gone" /\ result' = why
    /\ UNCHANGED <<mem, attached>>

Others == UNCHANGED <<owner, ctxDone, hostVars, beatVars>>

\* unix.Socket
Socket ==
    /\ pc = "socket"
    /\ \/ Acquire({"socket"}) /\ Goto("connect")
       \/ pc' = "gone" /\ result' = "error" /\ UNCHANGED <<open, mem, attached>>
    /\ Others

\* unix.Connect: only a refused connection is tried again.
Connect ==
    /\ pc = "connect"
    /\ \/ path = "listening" /\ Goto("request") /\ UNCHANGED open
       \/ path = "stale" /\ Release({"socket"}) /\ Goto("retry")
       \/ path = "missing" /\ Fail({}, "error")
    /\ Others

\* select: the timer or, once it has ended, the context.
Retry ==
    /\ pc = "retry"
    /\ \/ Goto("socket") /\ UNCHANGED open
       \/ /\ ctxDone /\ pc' = "gone" /\ result' = "ctx"
          /\ UNCHANGED <<open, mem, attached>>
    /\ Others

\* Sendmsg of the attach request.
SendRequest ==
    /\ pc = "request"
    /\ \/ Goto("recv") /\ UNCHANGED open
       \/ Fail({}, "error")
    /\ Others

\* Recvmsg waits for the host, whatever becomes of the context; the kernel
\* installs the descriptors that come with the reply.
Recv ==
    /\ pc = "recv"
    /\ \/ answer.kind # "none" /\ Acquire(answer.fds) /\ Goto("reply")
       \/ answer.kind = "none" /\ path # "listening" /\ Fail({}, "error")
    /\ Others

\* Slip: the epoch is read from the region once it is mapped.
EpochOfRegion == epoch

\* Client.attachedEpoch comes with the reply.
AttachedEpoch == answer.epoch

\* A reply of the wrong form, a denial, a wrong number of descriptors.
Reply ==
    /\ pc = "reply"
    /\ \/ answer.kind = "malformed" /\ Fail(answer.fds, "error")
       \/ answer.kind = "denied" /\ Fail(answer.fds, "denied")
       \/ answer.kind = "ok" /\ answer.fds # Fd /\ Fail(answer.fds, "error")
       \/ answer.kind = "ok" /\ answer.fds = Fd /\ Goto("control") /\ UNCHANGED open
    /\ Others

\* Slip: an arena or a queue pair that cannot be mapped gives back the
\* descriptors only.
MappedForgotten(region) == {}

\* The regions that were mapped before this one.
MappedBefore(region) ==
    CASE region = "control" -> {} [] region = "arena" -> {"control"}
      [] region = "queues" -> {"control", "arena"}

MapRegion(region, next) ==
    /\ pc = region
    /\ \/ Fail(Fd \cup MappedBefore(region), "error")
       \/ next # "validate" /\ Acquire({region}) /\ Goto(next)
       \/ /\ next = "validate"    \* the last one: closeAll, the Client has all three
          /\ open' = [r \in Resource |-> IF r \in Fd THEN open[r] - 1
                                         ELSE IF r = region THEN open[r] + 1 ELSE open[r]]
          /\ mem' = Mapping /\ attached' = AttachedEpoch
          /\ pc' = next /\ UNCHANGED result
    /\ Others

\* Slip: a client is left to beat when it polls.
KeepAliveNone(ok) == owner = "caller" /\ ok /\ FALSE

\* ConnectClient starts keepAlive for an attached client only.
StartsKeepAlive(ok) == owner = "caller" /\ ok

\* AttachControl and AttachQueuePair accept the regions, or Detach undoes
\* the mappings; either way the socket is closed.
Validate(ok) ==
    /\ pc = "validate"
    /\ IF ok THEN /\ Release({"socket"}) /\ UNCHANGED mem
                  /\ pc' = "attached" /\ result' = "client"
             ELSE /\ Release(mem \cup {"socket"}) /\ mem' = {}
                  /\ pc' = "gone" /\ result' = "error"
    /\ beater' = IF StartsKeepAlive(ok) THEN "select" ELSE "none"
    /\ UNCHANGED <<owner, attached, ctxDone, hostVars, due, beat>>

Attaching ==
    \/ Socket \/ Connect \/ Retry \/ SendRequest \/ Recv \/ Reply
    \/ MapRegion("control", "arena") \/ MapRegion("arena", "queues")
    \/ MapRegion("queues", "validate")
    \/ \E ok \in BOOLEAN : Validate(ok)

-----------------------------------------------------------------------------
(* Using and leaving the bus. *)

EpochChanged == epoch # attached

\* Client.Detach
DetachMem == Release(mem) /\ mem' = {}

\* RunModuleProcess: every pass of the loop beats, and the deferred Detach
\* comes after the loop.
Serve ==
    /\ owner = "module"
    /\ \/ pc = "attached" /\ pc' = "serving" /\ UNCHANGED <<open, mem, beat>>
       \/ /\ pc = "serving" /\ ~ctxDone /\ ~EpochChanged
          /\ beat' = TRUE /\ UNCHANGED <<pc, open, mem>>
       \/ /\ pc = "serving" /\ (ctxDone \/ EpochChanged)
          /\ DetachMem /\ pc' = "gone" /\ UNCHANGED beat
    /\ UNCHANGED <<owner, attached, result, ctxDone, hostVars, beater, due>>

\* The owner of a caller's client lets go of it, when it likes.
Detach ==
    /\ owner = "caller" /\ pc = "attached"
    /\ DetachMem /\ pc' = "gone"
    /\ UNCHANGED <<owner, attached, result, ctxDone, hostVars, beater, due, beat>>

\* keepAlive: the ticker's case of the select, then the write.  Detach does
\* not wait for the goroutine: from then on the write goes to a region that
\* is no longer mapped (Heartbeat, client.go:183; SetHeartbeat, region.go:122).
\* What such a store does to the process is not modelled.
KeepAliveTick ==
    /\ beater = "select" /\ due
    /\ beater' = "writing" /\ due' = FALSE
    /\ UNCHANGED <<procVars, ctxDone, hostVars, beat>>
KeepAliveWrite ==
    /\ beater = "writing"
    /\ beater' = "select" /\ beat' = TRUE
    /\ UNCHANGED <<procVars, ctxDone, hostVars, due>>

\* Slip: the goroutine lives as long as the process.
KeepAliveNever == beater = "select" /\ ctxDone /\ FALSE /\ UNCHANGED vars

\* keepAlive: the context's case of the select.
KeepAliveStop ==
    /\ beater = "select" /\ ctxDone
    /\ beater' = "none" /\ due' = FALSE
    /\ UNCHANGED <<procVars, ctxDone, hostVars, beat>>

KeepAlive == KeepAliveTick \/ KeepAliveWrite \/ KeepAliveStop

-----------------------------------------------------------------------------
(* The host, the clock and the context. *)

HostListens == /\ path' \in {"missing", "stale", "listening"} \ {path}
               /\ UNCHANGED <<procVars, ctxDone, answer, epoch, reaped, beatVars>>

HostAnswers ==
    /\ pc = "recv" /\ answer.kind = "none"
    /\ \E kind \in {"malformed", "denied", "ok"}, fds \in SUBSET Fd :
         answer' = [kind |-> kind, fds |-> fds, epoch |-> epoch]
    /\ UNCHANGED <<procVars, ctxDone, path, epoch, reaped, beatVars>>

HostRestarts == /\ epoch < MaxEpoch /\ epoch' = epoch + 1
                /\ UNCHANGED <<procVars, ctxDone, path, answer, reaped, beatVars>>

\* The ticker of keepAlive fires once per interval; a tick that is still
\* waiting is not added to.
TickerFires == /\ beater # "none" /\ ~due
               /\ due' = TRUE
               /\ UNCHANGED <<procVars, ctxDone, hostVars, beater, beat>>

\* The host looks at the heartbeats less often than the ticker fires and the
\* serving loop turns, so each of them has beaten in between.
HostScans ==
    /\ pc \in {"attached", "serving"}
    /\ beater # "none" \/ (pc = "serving" /\ ~ctxDone /\ ~EpochChanged) => beat
    /\ pc = "attached" => owner = "caller"
    /\ reaped' = (reaped \/ ~beat) /\ beat' = FALSE
    /\ UNCHANGED <<procVars, ctxDone, path, answer, epoch, beater, due>>

ContextEnds == /\ ~ctxDone /\ ctxDone' = TRUE
               /\ UNCHANGED <<procVars, hostVars, beatVars>>

Next == \/ Attaching \/ Serve \/ Detach \/ KeepAlive
        \/ HostListens \/ HostAnswers \/ HostRestarts \/ HostScans
        \/ TickerFires \/ ContextEnds

(* Goroutines run, and a select whose context case stays ready takes it in  *)
(* the end.  Nothing is assumed of the host, the ticker or the context.     *)
Spec == /\ Init /\ [][Next]_vars
        /\ WF_vars(Attaching) /\ WF_vars(Serve)
        /\ SF_vars(Retry /\ pc' = "gone")
        /\ WF_vars(KeepAlive) /\ SF_vars(KeepAliveStop)

-----------------------------------------------------------------------------
(* Properties. *)

(* Nothing is given back twice, and nothing is left over: a process whose   *)
(* attach has failed on whatever call, or that has detached, holds nothing; *)
(* an attached one holds its three mappings and neither the socket nor a    *)
(* descriptor.                                                              *)
ReleasedOnce ==
    /\ \A r \in Resource : open[r] \in {0, 1}
    /\ pc \in {"retry", "gone"} => \A r \in Resource : open[r] = 0
    /\ pc \in {"attached", "serving"} =>
           \A r \in Resource : open[r] = IF r \in Mapping THEN 1 ELSE 0

(* A host that restarts at any time after it has answered, also before the  *)
(* regions are mapped, is noticed as a change of epoch.                     *)
RestartNoticed ==
    pc \in {"attached", "serving"} /\ epoch # answer.epoch => EpochChanged

(* An attached client is not reaped as long as its context lasts, however   *)
(* long it is idle between calls.                                           *)
NotReaped == reaped => ctxDone \/ EpochChanged \/ pc = "gone"

(* When the context ends, so do connecting, attaching, serving and the      *)
(* keepAlive goroutine, provided that a host which has accepted the         *)
(* connection answers the attach or goes away: Recvmsg itself does not look *)
(* at the context.                                                          *)
ContextEndsAll ==
    WF_vars(HostAnswers) =>
        (ctxDone ~> /\ pc = "gone" \/ (owner = "caller" /\ pc = "attached")
                    /\ beater = "none")

(* What the process holds at each step of its life.                         *)
Holds ==
    CASE pc \in {"connect", "request", "recv"} -> {"socket"}
      [] pc = "reply" -> {"socket"} \cup answer.fds
      [] pc \in {"control", "arena", "queues"} -> {"socket"} \cup Fd \cup MappedBefore(pc)
      [] pc = "validate" -> {"socket"} \cup Mapping
      [] pc \in {"attached", "serving"} -> Mapping
      [] OTHER -> {}
Attached == pc \in {"validate", "attached", "serving"}

(* The inductive invariant: every resource is held exactly where the code   *)
(* of that step will give it back, the Client's fields say which mappings   *)
(* there are, its epoch is the one the host answered with, and a caller's   *)
(* client has its goroutine until the context ends.                         *)
AttachInv ==
    /\ TypeOK
    /\ open = [r \in Resource |-> IF r \in Holds THEN 1 ELSE 0]
    /\ mem = IF Attached THEN Mapping ELSE {}
    /\ answer.epoch =< epoch
    /\ Attached => attached = answer.epoch
    /\ pc \in {"reply", "control", "arena", "queues"} \/ Attached => answer.kind # "none"
    /\ pc = "serving" => owner = "module"
    /\ pc = "attached" /\ owner = "caller" => beater # "none" \/ ctxDone
    /\ reaped => pc \in {"attached", "serving", "gone"}
    /\ NotReaped
=============================================================================
