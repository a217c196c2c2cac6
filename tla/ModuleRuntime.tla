---------------------------- MODULE ModuleRuntime ---------------------------
(***************************************************************************)
(* The serving loop of a bus module (server-go/bus/module_runtime.go):     *)
(* runModuleClient, the handler goroutines it starts (runHandler), and the *)
(* blocking reply writer (replyModuleResult).                              *)
(*                                                                         *)
(* One loop goroutine owns the maps `assemblies' and `jobs'.  It meets     *)
(*   - the handler goroutines through the cancel flags and the channel     *)
(*     `done', whose buffer holds MaxInFlight results;                     *)
(*   - the host through the inbound frames, the outbound ring (which may   *)
(*     be full) and the epoch word;                                        *)
(*   - the process through the context that SIGTERM ends, and the clock.   *)
(* Inbound frames are arbitrary members of Inputs: the module trusts no    *)
(* caller.  Bodies are abstracted to their lengths.                        *)
(***************************************************************************)
EXTENDS Integers, Sequences, FiniteSets

CONSTANTS Corr,         \* correlation ids
          Hdr,          \* (kind, stage, trace) of a request
          Inputs,       \* the frames the host may deliver
          MaxInFlight,  \* moduleMaxInFlight: jobs, assemblies, buffered results
          MaxBody,      \* ModuleMessageMaxBody
          MaxClock,     \* bound on the clock
          OutCap,       \* slots of the outbound ring
          Chunks,       \* inline budgets less the header: 0 is "no room"
          None          \* no assembly for a correlation, no reply under way

Status == {"ok", "absent", "cancelled", "deadline", "invalid", "internal"}
Time == 0 .. MaxClock

(* A decoded frame.  `accept' says that the kind is served, the payload     *)
(* decodes, the operation is Invoke and the stage is the kind's stage.      *)
(* A deadline of 0 means that there is none.                                *)
Frame == [pat: {"request", "cancel", "other"}, corr: Corr, accept: BOOLEAN,
          hdr: Hdr, deadline: Time, len: 0 .. MaxBody, more: BOOLEAN]
Assembly == [hdr: Hdr, deadline: Time, len: 0 .. MaxBody]
Reply == [corr: Corr, status: Status, len: 0 .. MaxBody, off: 0 .. MaxBody]

ASSUME RuntimeAssumption ==
    /\ IsFiniteSet(Corr)
    /\ MaxInFlight \in Nat \ {0}
    /\ MaxBody \in Nat /\ MaxClock \in Nat /\ OutCap \in Nat \ {0}
    /\ Chunks \subseteq Nat
    /\ Inputs \subseteq Frame
    /\ None \notin Assembly \cup Reply

VARIABLES
    pc,         \* where the loop is
    exit,       \* why it returned: "run" while it has not
    ctxDone,    \* the process context has ended
    epoch,      \* the host has restarted
    clock, now, \* CLOCK_MONOTONIC, and the loop's reading of it
    asm,        \* assemblies
    job,        \* jobs, with the state of the handler goroutine
    due,        \* the job's DeadlineNS
    flag,       \* the job's cancelFlag
    result,     \* what the handler goroutine will send: status and length
    done,       \* the channel of results, as correlation ids
    rep,        \* the reply being written: correlation, status, length, offset
    outCount,   \* occupied slots of the outbound ring
    chunk,      \* chunkCapacity, fixed by the host at attach
    hasHandler, \* config.Handler # nil, fixed at the start
    owed,       \* history: request frames that still have to be answered
    late        \* history: the job was started at or after its deadline

loopVars == <<pc, exit, now, asm, rep>>
jobVars == <<job, due, flag, result, done, late>>
config == <<chunk, hasHandler>>
envVars == <<ctxDone, epoch, clock, outCount, config>>
vars == <<loopVars, jobVars, envVars, owed>>

JobState == {"none", "running", "returned", "queued"}
Jobs == {c \in Corr : job[c] # "none"}
Assemblies == {c \in Corr : asm[c] # None}
Result == [status: Status, len: 0 .. MaxBody]
Bodiless(status) == [status |-> status, len |-> 0]
NoResult == Bodiless("ok")
LoopStep == {"drain", "ctx", "epoch", "poll", "reply", "wait", "shutdown", "exited"}
Exit == {"run", "ctx", "epoch", "error"}

TypeOK ==
    /\ pc \in LoopStep /\ exit \in Exit
    /\ ctxDone \in BOOLEAN /\ epoch \in BOOLEAN
    /\ clock \in Time /\ now \in Time
    /\ asm \in [Corr -> Assembly \cup {None}]
    /\ job \in [Corr -> JobState]
    /\ due \in [Corr -> Time]
    /\ flag \in [Corr -> BOOLEAN]
    /\ result \in [Corr -> Result]
    /\ done \in Seq(Corr)
    /\ rep \in Reply \cup {None}
    /\ outCount \in 0 .. OutCap
    /\ chunk \in Chunks /\ hasHandler \in BOOLEAN
    /\ owed \in [Corr -> Nat]
    /\ late \in [Corr -> BOOLEAN]

Init ==
    /\ pc = "drain" /\ exit = "run"
    /\ ctxDone = FALSE /\ epoch = FALSE
    /\ clock = 0 /\ now = 0
    /\ asm = [c \in Corr |-> None]
    /\ job = [c \in Corr |-> "none"]
    /\ due = [c \in Corr |-> 0]
    /\ flag = [c \in Corr |-> FALSE]
    /\ result = [c \in Corr |-> NoResult]
    /\ done = <<>>
    /\ rep = None
    /\ outCount = 0
    /\ chunk \in Chunks /\ hasHandler \in BOOLEAN
    /\ owed = [c \in Corr |-> 0]
    /\ late = [c \in Corr |-> FALSE]

-----------------------------------------------------------------------------
(* Helpers of the loop. *)

Return(why) == pc' = "exited" /\ exit' = why

\* replyModuleResult starts: a non-OK status carries no body, and a budget
\* without room for the module header ends the loop with an error.
StartReply(c, status, len) ==
    /\ \/ chunk = 0 /\ Return("error") /\ UNCHANGED rep
       \/ /\ chunk # 0
          /\ rep' = [corr |-> c, status |-> status, off |-> 0,
                     len |-> IF status = "ok" THEN len ELSE 0]
          /\ pc' = "reply" /\ UNCHANGED exit

Continue == pc' = "drain" /\ UNCHANGED <<exit, rep>>

\* A job leaves the map: delete(jobs, correlation).
DeleteJob(c) ==
    /\ job' = [job EXCEPT ![c] = "none"]
    /\ due' = [due EXCEPT ![c] = 0]
    /\ flag' = [flag EXCEPT ![c] = FALSE]
    /\ result' = [result EXCEPT ![c] = NoResult]
    /\ late' = [late EXCEPT ![c] = FALSE]

\* Slip: the assembly stays in the map.
DropAssemblyForgotten(c) == c \in Corr /\ UNCHANGED asm

\* delete(assemblies, correlation)
DropAssembly(c) == asm' = [asm EXCEPT ![c] = None]

\* Slip: one job more than the channel has room for.
JobRoomOffByOne == Cardinality(Jobs) =< MaxInFlight

JobRoom == Cardinality(Jobs) < MaxInFlight

Owe(c) == owed' = [owed EXCEPT ![c] = @ + 1]

-----------------------------------------------------------------------------
(* The loop. *)

\* finishModuleWork for the next finished handler.
DrainResult ==
    /\ pc = "drain" /\ done # <<>>
    /\ LET c == Head(done) IN
         /\ DeleteJob(c)
         /\ StartReply(c, result[c].status, result[c].len)
    /\ done' = Tail(done)
    /\ UNCHANGED <<now, asm, envVars, owed>>

DrainEmpty ==
    /\ pc = "drain" /\ done = <<>>
    /\ pc' = "ctx"
    /\ UNCHANGED <<exit, now, asm, rep, jobVars, envVars, owed>>

\* select ctx.Done(): cancel every job, then wait for all of them.
CheckCtx ==
    /\ pc = "ctx"
    /\ \/ /\ ctxDone /\ pc' = "shutdown"
          /\ flag' = [c \in Corr |-> job[c] # "none"]
       \/ ~ctxDone /\ pc' = "epoch" /\ UNCHANGED flag
    /\ UNCHANGED <<exit, now, asm, rep, job, due, result, done, late, envVars, owed>>

ShutdownWait ==
    /\ pc = "shutdown"
    /\ \/ Jobs = {} /\ Return("ctx") /\ UNCHANGED jobVars
       \/ /\ done # <<>>
          /\ DeleteJob(Head(done)) /\ done' = Tail(done)
          /\ UNCHANGED <<pc, exit>>
    /\ UNCHANGED <<now, asm, rep, envVars, owed>>

\* EpochChanged, then the clock reading used for the whole iteration.
CheckEpoch ==
    /\ pc = "epoch"
    /\ \/ epoch /\ Return("epoch") /\ UNCHANGED now
       \/ ~epoch /\ now' = clock /\ pc' = "poll" /\ UNCHANGED exit
    /\ UNCHANGED <<asm, rep, jobVars, envVars, owed>>

PollNothing ==
    /\ pc = "poll"
    /\ \/ epoch /\ Return("epoch")
       \/ ~epoch /\ pc' = "drain" /\ UNCHANGED exit
    /\ UNCHANGED <<now, asm, rep, jobVars, envVars, owed>>

\* Slip: a cancelled job is dropped from the map instead of flagged.
OnCancelDropsJob(f) ==
    /\ f.pat = "cancel"
    /\ job' = [job EXCEPT ![f.corr] = "none"]
    /\ DropAssembly(f.corr)
    /\ Continue
    /\ UNCHANGED <<now, due, flag, result, done, late, owed>>

\* A cancel frame: raise the job's flag and forget a partial request.
OnCancel(f) ==
    /\ f.pat = "cancel"
    /\ flag' = [flag EXCEPT ![f.corr] = @ \/ job[f.corr] # "none"]
    /\ DropAssembly(f.corr)
    /\ Continue
    /\ UNCHANGED <<now, job, due, result, done, late, owed>>

\* Notifications, replies and control frames are skipped.
OnOther(f) ==
    /\ f.pat = "other"
    /\ Continue
    /\ UNCHANGED <<now, asm, jobVars, owed>>

\* The request is refused by itself, clashes with a running job, or does not
\* continue the assembly it belongs to.
Refused(f) ==
    \/ ~f.accept
    \/ job[f.corr] # "none"
    \/ /\ asm[f.corr] # None
       /\ asm[f.corr].hdr # f.hdr \/ asm[f.corr].deadline # f.deadline

OnInvalid(f) ==
    /\ f.pat = "request" /\ Refused(f)
    /\ DropAssembly(f.corr)
    /\ StartReply(f.corr, "invalid", 0) /\ Owe(f.corr)
    /\ UNCHANGED <<now, jobVars>>

\* No room for another assembly.
OnAssemblyLimit(f) ==
    /\ f.pat = "request" /\ ~Refused(f)
    /\ asm[f.corr] = None /\ Cardinality(Assemblies) >= MaxInFlight
    /\ StartReply(f.corr, "internal", 0) /\ Owe(f.corr)
    /\ UNCHANGED <<now, asm, jobVars>>

\* The fragment found or opened its assembly.
Assembling(f) ==
    /\ f.pat = "request" /\ ~Refused(f)
    /\ asm[f.corr] = None => Cardinality(Assemblies) < MaxInFlight
AsmLen(f) == f.len + (IF asm[f.corr] = None THEN 0 ELSE asm[f.corr].len)

OnBodyLimit(f) ==
    /\ Assembling(f) /\ AsmLen(f) > MaxBody
    /\ DropAssembly(f.corr)
    /\ StartReply(f.corr, "internal", 0) /\ Owe(f.corr)
    /\ UNCHANGED <<now, jobVars>>

OnFragment(f) ==
    /\ Assembling(f) /\ AsmLen(f) =< MaxBody /\ f.more
    /\ asm' = [asm EXCEPT ![f.corr] =
                  [hdr |-> f.hdr, deadline |-> f.deadline, len |-> AsmLen(f)]]
    /\ Continue
    /\ UNCHANGED <<now, jobVars, owed>>

\* DeadlineExpired, on the clock reading taken before Poll.
Expired(deadline, t) == deadline # 0 /\ t >= deadline

\* The final fragment of a request that is answered without a handler.
OnRefusedWork(f) ==
    /\ Assembling(f) /\ AsmLen(f) =< MaxBody /\ ~f.more
    /\ DropAssembly(f.corr)
    /\ \/ Expired(f.deadline, now) /\ StartReply(f.corr, "deadline", 0)
       \/ /\ ~Expired(f.deadline, now) /\ ~hasHandler
          /\ StartReply(f.corr, "absent", 0)
       \/ /\ ~Expired(f.deadline, now) /\ hasHandler
          /\ ~JobRoom /\ StartReply(f.corr, "internal", 0)
    /\ Owe(f.corr)
    /\ UNCHANGED <<now, jobVars>>

\* The final fragment of a request that gets a handler goroutine.
OnAccept(f) ==
    /\ Assembling(f) /\ AsmLen(f) =< MaxBody /\ ~f.more
    /\ ~Expired(f.deadline, now) /\ hasHandler
    /\ JobRoom
    /\ DropAssembly(f.corr)
    /\ job' = [job EXCEPT ![f.corr] = "running"]
    /\ due' = [due EXCEPT ![f.corr] = f.deadline]
    /\ flag' = [flag EXCEPT ![f.corr] = FALSE]
    /\ late' = [late EXCEPT ![f.corr] = Expired(f.deadline, clock)]
    /\ Owe(f.corr) /\ Continue
    /\ UNCHANGED <<now, result, done>>

PollEvent(f) ==
    /\ pc = "poll" /\ ~epoch
    /\ \/ OnCancel(f) \/ OnOther(f) \/ OnInvalid(f) \/ OnAssemblyLimit(f)
       \/ OnBodyLimit(f) \/ OnFragment(f) \/ OnRefusedWork(f) \/ OnAccept(f)
    /\ UNCHANGED envVars

-----------------------------------------------------------------------------
(* The reply writer. *)

Part == LET rest == rep.len - rep.off IN IF rest > chunk THEN chunk ELSE rest

\* ReplyFragment fails because the epoch changed: the loop ends.
ReplyEpoch ==
    /\ pc = "reply" /\ epoch
    /\ Return("error")
    /\ UNCHANGED <<now, asm, rep, jobVars, envVars, owed>>

\* ReplyFragment finds the ring full.
ReplyBlocked ==
    /\ pc = "reply" /\ ~epoch /\ outCount = OutCap
    /\ pc' = "wait"
    /\ UNCHANGED <<exit, now, asm, rep, jobVars, envVars, owed>>

ReplyFragment ==
    /\ pc = "reply" /\ ~epoch /\ outCount < OutCap
    /\ outCount' = outCount + 1
    /\ \/ /\ rep.off + Part < rep.len
          /\ rep' = [rep EXCEPT !.off = @ + Part]
          /\ UNCHANGED <<pc, owed>>
       \/ /\ rep.off + Part >= rep.len
          /\ owed' = [owed EXCEPT ![rep.corr] = @ - 1]
          /\ rep' = None /\ pc' = "drain"
    /\ UNCHANGED <<exit, now, asm, jobVars, ctxDone, epoch, clock, config>>

\* Slip: the wait for room in the ring ignores the context.
ReplyGiveUpNever == pc = "wait" /\ ctxDone /\ FALSE /\ UNCHANGED vars

\* select: the context ends the wait, and the loop, with an error.
ReplyGiveUp ==
    /\ pc = "wait" /\ ctxDone
    /\ Return("error")
    /\ UNCHANGED <<now, asm, rep, jobVars, envVars, owed>>

\* Slip: the timer only leads to another look at the epoch, not to a retry.
ReplyRetryForgotten ==
    /\ pc = "wait" /\ epoch /\ Return("error")
    /\ UNCHANGED <<now, asm, rep, jobVars, envVars, owed>>

\* select: the timer ends the wait; the epoch is looked at before the retry.
ReplyRetry ==
    /\ pc = "wait"
    /\ \/ epoch /\ Return("error")
       \/ ~epoch /\ pc' = "reply" /\ UNCHANGED exit
    /\ UNCHANGED <<now, asm, rep, jobVars, envVars, owed>>

Loop == \/ DrainResult \/ DrainEmpty \/ CheckCtx \/ ShutdownWait
        \/ CheckEpoch \/ PollNothing \/ (\E f \in Inputs : PollEvent(f))
        \/ ReplyEpoch \/ ReplyBlocked \/ ReplyFragment \/ ReplyGiveUp \/ ReplyRetry

-----------------------------------------------------------------------------
(* A handler goroutine: runHandler. *)

\* Slip: the deadline is not looked at again when the handler returns.
OutcomeNoDeadline(c, status, len) ==
    IF flag[c] THEN Bodiless("cancelled")
    ELSE IF status \notin Status \/ len > MaxBody THEN Bodiless("internal")
    ELSE IF status # "ok" THEN Bodiless(status)
    ELSE [status |-> "ok", len |-> len]

\* Slip: a cancel that arrives while the handler works is not looked at.
OutcomeNoFlag(c, status, len) ==
    IF Expired(due[c], clock) THEN Bodiless("deadline")
    ELSE IF status \notin Status \/ len > MaxBody THEN Bodiless("internal")
    ELSE IF status # "ok" THEN Bodiless(status)
    ELSE [status |-> "ok", len |-> len]

\* What becomes of the status and the body a handler returned: the flag and
\* the deadline, looked at in that order, overrule both.
Outcome(c, status, len) ==
    IF flag[c] THEN Bodiless("cancelled")
    ELSE IF Expired(due[c], clock) THEN Bodiless("deadline")
    ELSE IF status \notin Status \/ len > MaxBody THEN Bodiless("internal")
    ELSE IF status # "ok" THEN Bodiless(status)
    ELSE [status |-> "ok", len |-> len]

HandlerReturn(c, status, len) ==
    /\ job[c] = "running"
    /\ job' = [job EXCEPT ![c] = "returned"]
    /\ result' = [result EXCEPT ![c] = Outcome(c, status, len)]
    /\ UNCHANGED <<loopVars, envVars, due, flag, done, late, owed>>

\* done <- result: blocks when the buffer is full.
HandlerSend(c) ==
    /\ job[c] = "returned" /\ Len(done) < MaxInFlight
    /\ job' = [job EXCEPT ![c] = "queued"]
    /\ done' = Append(done, c)
    /\ UNCHANGED <<loopVars, envVars, due, flag, result, late, owed>>

Handler(c) ==
    \/ \E status \in Status \cup {"unknown"}, len \in 0 .. MaxBody + 1 :
           HandlerReturn(c, status, len)
    \/ HandlerSend(c)

-----------------------------------------------------------------------------
(* The environment. *)

HostConsume == /\ outCount > 0 /\ outCount' = outCount - 1
               /\ UNCHANGED <<loopVars, jobVars, ctxDone, epoch, clock, config, owed>>
HostRestart == /\ ~epoch /\ epoch' = TRUE
               /\ UNCHANGED <<loopVars, jobVars, ctxDone, clock, outCount, config, owed>>
ContextEnds == /\ ~ctxDone /\ ctxDone' = TRUE
               /\ UNCHANGED <<loopVars, jobVars, epoch, clock, outCount, config, owed>>
Tick == /\ clock < MaxClock /\ clock' = clock + 1
        /\ UNCHANGED <<loopVars, jobVars, ctxDone, epoch, outCount, config, owed>>

Next == \/ Loop
        \/ \E c \in Corr : Handler(c)
        \/ HostConsume \/ HostRestart \/ ContextEnds \/ Tick

Spec == Init /\ [][Next]_vars

(* The loop and the handlers keep running: goroutines are scheduled fairly, *)
(* and a handler's work is bounded (it is told to look at Cancelled around  *)
(* bounded units).  A select whose context case stays ready takes it in the *)
(* end.  Nothing is assumed of the host, the clock or the context.          *)
FairSpec == /\ Spec
            /\ WF_vars(Loop) /\ SF_vars(ReplyGiveUp)
            /\ \A c \in Corr : WF_vars(Handler(c))

-----------------------------------------------------------------------------
(* Properties. *)

(* A finished handler can always hand over its result: the channel buffer   *)
(* has room for every job, whether or not the loop is still draining it, so *)
(* runHandler's send on `done' never blocks its goroutine.                  *)
DoneNeverBlocks == \A c \in Corr : job[c] = "returned" => Len(done) < MaxInFlight

(* A correlation is never being assembled and running at the same time:     *)
(* fragments that arrive for a running job cannot build a second request    *)
(* behind it.                                                               *)
AssemblyXorJob == Assemblies \cap Jobs = {}

(* Every request frame that is not merely stored as a fragment is answered  *)
(* by exactly one final reply: what is owed to a correlation is its running *)
(* job plus the reply being written, until the loop gives up on replies.    *)
One(b) == IF b THEN 1 ELSE 0
ReplyAccounting ==
    pc \notin {"shutdown", "exited"} =>
        \A c \in Corr : owed[c] = One(job[c] # "none")
                                 + One(rep # None /\ rep.corr = c)

(* The deadline test before a handler starts uses a clock reading from      *)
(* before Poll and may let an expired request through; such a request is    *)
(* still never answered with a result.                                      *)
LateStartNeverOk ==
    \A c \in Corr : late[c] /\ job[c] \in {"returned", "queued"}
                       => result[c].status # "ok"

(* A cancel that reaches a running job is never lost: the flag stays up     *)
(* until the handler returns, and what the handler returned is then not a   *)
(* result but Cancelled.                                                    *)
CancelSticks ==
    [][\A c \in Corr :
         job[c] = "running" /\ flag[c] =>
            \/ job'[c] = "running" /\ flag'[c]
            \/ job'[c] = "returned" /\ result'[c].status = "cancelled"]_vars

(* When the context ends the loop returns, whatever it is doing: waiting    *)
(* for handlers, or for room in a ring that nobody drains.                  *)
ShutdownEnds == ctxDone ~> pc = "exited"

(* Everything that is owed to a correlation is written, to the last         *)
(* fragment of its last reply, unless the loop ends: a job that was         *)
(* accepted has its handler, its turn in the channel and its reply, and a   *)
(* reply that finds the ring full is taken up again, as long as the host    *)
(* keeps draining the ring.  From the moment shutdown begins results are    *)
(* dropped.                                                                 *)
AcceptedIsAnswered ==
    WF_vars(HostConsume) =>
        \A c \in Corr : owed[c] > 0 ~> owed[c] = 0 \/ pc \in {"shutdown", "exited"}

-----------------------------------------------------------------------------
(***************************************************************************)
(* The inductive invariant.  The channel holds each queued job once and    *)
(* nothing else; a reply is under way exactly in the reply states; a job   *)
(* started late is past its deadline, which the clock cannot undo.         *)
(***************************************************************************)
Channel ==
    /\ \A i \in 1 .. Len(done) : job[done[i]] = "queued"
    /\ \A i, j \in 1 .. Len(done) : done[i] = done[j] => i = j

JobBound == Cardinality(Jobs) =< MaxInFlight

Replying ==
    /\ pc \in {"drain", "ctx", "epoch", "poll", "shutdown"} => rep = None
    /\ pc \in {"reply", "wait"} => rep \in Reply /\ rep.off =< rep.len

Exited ==
    /\ (pc = "exited") <=> (exit # "run")
    /\ exit = "ctx" => \A c \in Corr : job[c] = "none"

LateIsDue == \A c \in Corr : late[c] => due[c] # 0 /\ clock >= due[c]

IInv == /\ TypeOK /\ Channel /\ JobBound /\ Replying /\ Exited /\ LateIsDue
        /\ AssemblyXorJob /\ ReplyAccounting /\ LateStartNeverOk
=============================================================================
