------------------------- MODULE ModuleRuntimeProofs ------------------------
(***************************************************************************)
(* Proofs about the serving loop, for every number of correlations, every  *)
(* set of inbound frames and every limit.                                  *)
(***************************************************************************)
EXTENDS ModuleRuntime, FiniteSetTheorems, TLAPS

(* A repetition-free sequence over a finite set is no longer than the set   *)
(* is large: what the buffer of `done' needs to hold every job.             *)
LEMMA RepetitionFreeLength ==
    ASSUME NEW S, IsFiniteSet(S), NEW s \in Seq(S),
           \A i, j \in 1 .. Len(s) : s[i] = s[j] => i = j
    PROVE  Len(s) =< Cardinality(S)
<1>1. /\ Len(s) \in Nat /\ s \in [1 .. Len(s) -> S]
  OBVIOUS
<1>2. s \in Injection(1 .. Len(s), S)
  BY <1>1 DEF Injection, IsInjective
<1>3. Cardinality(1 .. Len(s)) =< Cardinality(S)
  BY <1>2, FS_Injection
<1>4. Cardinality(1 .. Len(s)) = Len(s)
  <2>1. 1 \in Int /\ Len(s) \in Int /\ (1 > Len(s) => Len(s) = 0) /\ Len(s) - 1 + 1 = Len(s)
    BY <1>1
  <2>2. Cardinality(1 .. Len(s)) = IF 1 > Len(s) THEN 0 ELSE Len(s) - 1 + 1
    BY ONLY <2>1, FS_Interval
  <2> QED  BY <2>1, <2>2
<1> QED  BY <1>3, <1>4

(* The job map of a step that touches one correlation only.                 *)
LEMMA JobsFinite == IsFiniteSet(Jobs)
  BY FS_Subset, RuntimeAssumption DEF Jobs

(* A job that leaves the map does not raise the number of jobs, a job that  *)
(* changes its state does not change it.                                    *)
LEMMA JobsShrink ==
    ASSUME Jobs' \subseteq Jobs, JobBound
    PROVE  JobBound'
<1>1. IsFiniteSet(Jobs)
  BY JobsFinite
<1>2. Cardinality(Jobs') =< Cardinality(Jobs) /\ IsFiniteSet(Jobs')
  BY <1>1, FS_Subset
<1>3. Cardinality(Jobs) \in Nat /\ Cardinality(Jobs') \in Nat
  BY <1>1, <1>2, FS_CardinalityType
<1> QED  BY <1>2, <1>3, RuntimeAssumption DEF JobBound

(* The channel has room for the result of a job that is not queued yet.     *)
LEMMA RoomForResult ==
    ASSUME TypeOK, Channel, JobBound, NEW c \in Corr, job[c] = "returned"
    PROVE  Len(done) < MaxInFlight
<1> DEFINE Others == Jobs \ {c}
<1>1. IsFiniteSet(Jobs) /\ Cardinality(Jobs) \in Nat
  BY JobsFinite, FS_CardinalityType
<1>2. c \in Jobs
  BY DEF Jobs
<1>3. IsFiniteSet(Others) /\ Cardinality(Others) = Cardinality(Jobs) - 1
  BY <1>1, <1>2, FS_RemoveElement
<1>4. done \in Seq(Others)
  <2>1. Len(done) \in Nat /\ done \in [1 .. Len(done) -> Corr]
    BY DEF TypeOK
  <2>2. \A i \in 1 .. Len(done) : done[i] \in Others
    BY <2>1 DEF Channel, Jobs
  <2> QED  BY <2>1, <2>2
<1>5. Len(done) =< Cardinality(Others)
  BY <1>3, <1>4, RepetitionFreeLength DEF Channel
<1>6. Len(done) \in Nat
  BY DEF TypeOK
<1> QED  BY <1>1, <1>3, <1>5, <1>6, RuntimeAssumption DEF JobBound

-----------------------------------------------------------------------------
(* The inductive invariant holds initially.                                 *)
LEMMA InitIInv == Init => IInv
<1> SUFFICES ASSUME Init PROVE IInv
  OBVIOUS
<1> USE RuntimeAssumption DEF Init
<1>1. TypeOK
  <2>1. pc \in LoopStep /\ exit \in Exit /\ job \in [Corr -> JobState]
    BY DEF LoopStep, Exit, JobState
  <2>2. clock \in Time /\ now \in Time /\ due \in [Corr -> Time]
    BY DEF Time
  <2>3. /\ ctxDone \in BOOLEAN /\ epoch \in BOOLEAN /\ hasHandler \in BOOLEAN
        /\ flag \in [Corr -> BOOLEAN] /\ late \in [Corr -> BOOLEAN]
    BY Zenon
  <2>4. result \in [Corr -> Result]
    BY DEF Result, NoResult, Bodiless, Status
  <2>5. /\ asm \in [Corr -> Assembly \cup {None}] /\ done \in Seq(Corr)
        /\ rep \in Reply \cup {None} /\ outCount \in 0 .. OutCap
        /\ chunk \in Chunks /\ owed \in [Corr -> Nat]
    OBVIOUS
  <2> QED  BY <2>1, <2>2, <2>3, <2>4, <2>5 DEF TypeOK
<1>2. JobBound
  <2>1. Jobs = {}
    BY DEF Jobs
  <2> QED  BY <2>1, FS_EmptySet DEF JobBound
<1>3. Channel /\ Replying /\ Exited /\ LateIsDue
  BY DEF Channel, Replying, Exited, LateIsDue
<1>4. AssemblyXorJob /\ ReplyAccounting /\ LateStartNeverOk
  BY DEF AssemblyXorJob, Assemblies, Jobs, ReplyAccounting, One, LateStartNeverOk
<1> QED  BY <1>1, <1>2, <1>3, <1>4 DEF IInv

(* What the start of a reply does to the loop's own state.                  *)
LEMMA StartReplyTypes ==
    ASSUME TypeOK, Exited, NEW c \in Corr, NEW status \in Status,
           NEW len \in 0 .. MaxBody, exit = "run", StartReply(c, status, len)
    PROVE  /\ pc' \in {"reply", "exited"} /\ exit' \in Exit /\ exit' # "ctx"
           /\ (pc' = "exited") <=> (exit' # "run")
           /\ pc' = "reply" => /\ rep' \in Reply /\ rep'.off =< rep'.len
                               /\ rep'.corr = c
           /\ rep' \in Reply \cup {None}
  BY RuntimeAssumption DEF TypeOK, Exited, StartReply, Return, Reply, Exit

-----------------------------------------------------------------------------
(* Steps of the loop that only move it along, or end it without touching    *)
(* jobs, assemblies or the reply.                                           *)
LEMMA ControlStep ==
    ASSUME IInv,
           \/ DrainEmpty \/ CheckEpoch \/ PollNothing \/ ReplyEpoch
           \/ ReplyBlocked \/ ReplyGiveUp \/ ReplyRetry
    PROVE  IInv'
<1>1. /\ UNCHANGED <<asm, rep, jobVars, envVars, owed>>
      /\ now' \in Time /\ pc' \in LoopStep /\ exit' \in Exit
  BY DEF IInv, TypeOK, DrainEmpty, CheckEpoch, PollNothing, ReplyEpoch, ReplyBlocked,
         ReplyGiveUp, ReplyRetry, Return, LoopStep, Exit, loopVars
<1>2. TypeOK'
  BY <1>1 DEF IInv, TypeOK, jobVars, envVars, config
<1>3. Channel' /\ JobBound' /\ LateIsDue' /\ AssemblyXorJob' /\ LateStartNeverOk'
  BY <1>1 DEF IInv, Channel, JobBound, Jobs, Assemblies, LateIsDue, AssemblyXorJob,
              LateStartNeverOk, jobVars, envVars
<1>4. Replying' /\ Exited'
  BY <1>1 DEF IInv, Replying, Exited, DrainEmpty, CheckEpoch, PollNothing, ReplyEpoch,
              ReplyBlocked, ReplyGiveUp, ReplyRetry, Return, jobVars
<1>5. ReplyAccounting'
  BY <1>1 DEF IInv, ReplyAccounting, One, DrainEmpty, CheckEpoch, PollNothing,
              ReplyEpoch, ReplyBlocked, ReplyGiveUp, ReplyRetry, Return, jobVars
<1> QED  BY <1>2, <1>3, <1>4, <1>5 DEF IInv

(* Steps of the host, the context and the clock.                            *)
LEMMA EnvironmentStep ==
    ASSUME IInv, HostConsume \/ HostRestart \/ ContextEnds \/ Tick
    PROVE  IInv'
<1>1. UNCHANGED <<loopVars, jobVars, config, owed>> /\ clock' \in Time /\ clock' >= clock
  BY RuntimeAssumption DEF IInv, TypeOK, Time, HostConsume, HostRestart, ContextEnds, Tick
<1>2. TypeOK'
  <2>1. ctxDone' \in BOOLEAN /\ epoch' \in BOOLEAN
    BY DEF IInv, TypeOK, HostConsume, HostRestart, ContextEnds, Tick
  <2>2. outCount' \in 0 .. OutCap
    BY RuntimeAssumption
       DEF IInv, TypeOK, HostConsume, HostRestart, ContextEnds, Tick
  <2> QED  BY <1>1, <2>1, <2>2 DEF IInv, TypeOK, loopVars, jobVars, config
<1>3. LateIsDue'
  BY <1>1 DEF IInv, LateIsDue, TypeOK, Time, jobVars
<1>4. /\ Channel' /\ JobBound' /\ Replying' /\ Exited' /\ AssemblyXorJob'
      /\ ReplyAccounting' /\ LateStartNeverOk'
  BY <1>1 DEF IInv, Channel, JobBound, Jobs, Replying, Exited, AssemblyXorJob, Assemblies,
              ReplyAccounting, LateStartNeverOk, loopVars, jobVars
<1> QED  BY <1>2, <1>3, <1>4 DEF IInv

(* A handler returns: its outcome is a result, and never OK once the        *)
(* deadline has passed.                                                     *)
LEMMA OutcomeIsResult ==
    ASSUME NEW c \in Corr, NEW status \in Status \cup {"unknown"},
           NEW len \in 0 .. MaxBody + 1
    PROVE  /\ Outcome(c, status, len) \in Result
           /\ Expired(due[c], clock) => Outcome(c, status, len).status # "ok"
           /\ flag[c] => Outcome(c, status, len).status = "cancelled"
  BY RuntimeAssumption DEF Outcome, Bodiless, Result, Status

(* A handler returns and has its result still to send.                      *)
LEMMA HandlerReturnStep ==
    ASSUME IInv, NEW c \in Corr, NEW status \in Status \cup {"unknown"},
           NEW len \in 0 .. MaxBody + 1, HandlerReturn(c, status, len)
    PROVE  IInv'
<1>1. /\ job[c] = "running" /\ job' = [job EXCEPT ![c] = "returned"]
      /\ UNCHANGED <<loopVars, envVars, due, flag, done, late, owed>>
      /\ result' = [result EXCEPT ![c] = Outcome(c, status, len)]
  BY DEF HandlerReturn
<1> USE DEF IInv, loopVars, envVars, config
<1>2. TypeOK'
  BY <1>1, OutcomeIsResult DEF TypeOK, JobState
<1>3. Jobs' = Jobs
  BY <1>1 DEF TypeOK, Jobs
<1>4. Channel'
  BY <1>1 DEF Channel, TypeOK
<1>5. JobBound' /\ AssemblyXorJob'
  BY <1>1, <1>3 DEF JobBound, AssemblyXorJob, Assemblies
<1>6. Replying' /\ Exited' /\ LateIsDue'
  BY <1>1 DEF Replying, Exited, LateIsDue, TypeOK
<1>7. ReplyAccounting'
  BY <1>1 DEF ReplyAccounting, One, TypeOK
<1>8. LateStartNeverOk'
  BY <1>1, OutcomeIsResult DEF LateStartNeverOk, LateIsDue, Expired, TypeOK
<1> QED  BY <1>2, <1>4, <1>5, <1>6, <1>7, <1>8

(* A handler's result enters the channel.                                   *)
LEMMA HandlerSendStep ==
    ASSUME IInv, NEW c \in Corr, HandlerSend(c)
    PROVE  IInv'
<1>1. /\ job[c] = "returned" /\ job' = [job EXCEPT ![c] = "queued"]
      /\ done' = Append(done, c)
      /\ UNCHANGED <<loopVars, envVars, due, flag, result, late, owed>>
  BY DEF HandlerSend
<1> USE DEF IInv, loopVars, envVars, config
<1>2. TypeOK'
  BY <1>1 DEF TypeOK, JobState
<1>3. Jobs' = Jobs
  BY <1>1 DEF TypeOK, Jobs
<1>4. Channel'
  <2>1. \A i \in 1 .. Len(done) : done[i] # c /\ done[i] \in Corr
    BY <1>1 DEF Channel, TypeOK
  <2>2. /\ Len(done') = Len(done) + 1 /\ done'[Len(done) + 1] = c /\ Len(done) \in Nat
        /\ \A i \in 1 .. Len(done) : done'[i] = done[i]
    BY <1>1 DEF TypeOK
  <2> QED  BY <1>1, <2>1, <2>2 DEF Channel, TypeOK
<1>5. JobBound' /\ AssemblyXorJob'
  BY <1>1, <1>3 DEF JobBound, AssemblyXorJob, Assemblies
<1>6. Replying' /\ Exited' /\ LateIsDue'
  BY <1>1 DEF Replying, Exited, LateIsDue, TypeOK
<1>7. ReplyAccounting' /\ LateStartNeverOk'
  BY <1>1 DEF ReplyAccounting, One, LateStartNeverOk, TypeOK
<1> QED  BY <1>2, <1>4, <1>5, <1>6, <1>7

(* The head of the channel is taken out and its job leaves the map.         *)
LEMMA TakeResult ==
    ASSUME IInv, done # <<>>, DeleteJob(Head(done)), done' = Tail(done)
    PROVE  /\ Head(done) \in Corr /\ job[Head(done)] = "queued"
           /\ done' \in Seq(Corr) /\ job' \in [Corr -> JobState]
           /\ due' \in [Corr -> Time] /\ flag' \in [Corr -> BOOLEAN]
           /\ late' \in [Corr -> BOOLEAN] /\ result' \in [Corr -> Result]
           /\ Channel' /\ JobBound' /\ Jobs' = Jobs \ {Head(done)}
<1> DEFINE c == Head(done)
<1> USE DEF IInv
<1>1. /\ Len(done) \in Nat \ {0} /\ c = done[1] /\ 1 \in 1 .. Len(done) /\ c \in Corr
      /\ done' \in Seq(Corr) /\ Len(done') = Len(done) - 1
      /\ \A i \in 1 .. Len(done') : done'[i] = done[i + 1]
  BY DEF TypeOK
<1>2. job[c] = "queued"
  BY <1>1 DEF Channel
<1>3. job' \in [Corr -> JobState] /\ result' \in [Corr -> Result]
  BY <1>1, RuntimeAssumption
     DEF TypeOK, DeleteJob, JobState, NoResult, Bodiless, Result, Status
<1>4. flag' \in [Corr -> BOOLEAN] /\ late' \in [Corr -> BOOLEAN] /\ due' \in [Corr -> Time]
  BY <1>1, RuntimeAssumption DEF TypeOK, DeleteJob, Time
<1>5. Channel'
  <2>1. \A i \in 1 .. Len(done') : /\ i + 1 \in 1 .. Len(done) /\ i + 1 # 1
                                   /\ done'[i] = done[i + 1] /\ done[i + 1] \in Corr
    BY <1>1 DEF TypeOK
  <2>2. \A i \in 1 .. Len(done') : done'[i] # c
    BY <1>1, <2>1 DEF Channel
  <2>3. \A i \in 1 .. Len(done') : job'[done'[i]] = "queued"
    BY <1>1, <2>1, <2>2 DEF Channel, DeleteJob, TypeOK
  <2>4. ASSUME NEW i \in 1 .. Len(done'), NEW j \in 1 .. Len(done'), done'[i] = done'[j]
        PROVE  i = j
    BY <1>1, <2>1, <2>4 DEF Channel
  <2> QED  BY <2>3, <2>4 DEF Channel
<1>6. Jobs' = Jobs \ {c}
  BY <1>1 DEF Jobs, DeleteJob, TypeOK
<1>7. JobBound'
  BY <1>6, JobsShrink
<1> QED  BY <1>1, <1>2, <1>3, <1>4, <1>5, <1>6, <1>7

(* The loop takes a result and starts its reply.                            *)
LEMMA DrainResultStep ==
    ASSUME IInv, DrainResult
    PROVE  IInv'
<1> DEFINE c == Head(done)
<1> USE DEF IInv, envVars, config
<1>1. /\ pc = "drain" /\ done # <<>> /\ DeleteJob(c) /\ done' = Tail(done)
      /\ StartReply(c, result[c].status, result[c].len)
      /\ UNCHANGED <<now, asm, envVars, owed>>
  BY DEF DrainResult
<1>2. /\ c \in Corr /\ job[c] = "queued" /\ done' \in Seq(Corr)
      /\ job' \in [Corr -> JobState] /\ due' \in [Corr -> Time]
      /\ flag' \in [Corr -> BOOLEAN] /\ late' \in [Corr -> BOOLEAN]
      /\ result' \in [Corr -> Result]
      /\ Channel' /\ JobBound' /\ Jobs' = Jobs \ {c}
  BY <1>1, TakeResult
<1>3. exit = "run" /\ result[c].status \in Status /\ result[c].len \in 0 .. MaxBody
  BY <1>1, <1>2 DEF Exited, TypeOK, Result
<1>4. /\ pc' \in {"reply", "exited"} /\ exit' \in Exit /\ exit' # "ctx"
      /\ (pc' = "exited") <=> (exit' # "run")
      /\ pc' = "reply" => /\ rep' \in Reply /\ rep'.off =< rep'.len
                          /\ rep'.corr = c
      /\ rep' \in Reply \cup {None}
  BY <1>1, <1>2, <1>3, StartReplyTypes
<1>5. TypeOK'
  BY <1>1, <1>2, <1>4 DEF TypeOK, LoopStep
<1>6. AssemblyXorJob'
  BY <1>1, <1>2 DEF AssemblyXorJob, Assemblies
<1>7. Replying' /\ Exited'
  BY <1>4 DEF Replying, Exited
<1>8. LateIsDue' /\ LateStartNeverOk'
  BY <1>1, <1>2 DEF LateIsDue, LateStartNeverOk, DeleteJob, TypeOK, NoResult
<1>9. ReplyAccounting'
  <2>1. rep = None
    BY <1>1 DEF Replying
  <2>2. CASE pc' = "exited"
    BY <2>2 DEF ReplyAccounting
  <2>3. CASE pc' = "reply"
    <3>1. rep' # None
      BY <1>4, <2>3, RuntimeAssumption
    <3>2. job' = [job EXCEPT ![c] = "none"]
      BY <1>1 DEF DeleteJob
    <3> QED  BY <1>1, <1>2, <1>4, <2>1, <2>3, <3>1, <3>2 DEF ReplyAccounting, One, TypeOK
  <2> QED  BY <1>4, <2>2, <2>3
<1> QED  BY <1>2, <1>5, <1>6, <1>7, <1>8, <1>9

(* The loop sees the end of its context and cancels every job.              *)
LEMMA CheckCtxStep ==
    ASSUME IInv, CheckCtx
    PROVE  IInv'
<1> USE DEF IInv, envVars, config
<1>1. /\ pc = "ctx" /\ pc' \in {"shutdown", "epoch"}
      /\ UNCHANGED <<exit, now, asm, rep, job, due, result, done, late, envVars, owed>>
  BY DEF CheckCtx
<1>2. flag' \in [Corr -> BOOLEAN]
  BY DEF CheckCtx, TypeOK
<1>3. TypeOK'
  BY <1>1, <1>2 DEF TypeOK, LoopStep
<1>4. Channel' /\ JobBound' /\ AssemblyXorJob' /\ LateIsDue' /\ LateStartNeverOk'
  BY <1>1 DEF Channel, JobBound, Jobs, AssemblyXorJob, Assemblies, LateIsDue,
              LateStartNeverOk
<1>5. Replying' /\ Exited' /\ ReplyAccounting'
  BY <1>1 DEF Replying, Exited, ReplyAccounting
<1> QED  BY <1>3, <1>4, <1>5

(* The loop waits for its handlers, and returns when none is left.          *)
LEMMA ShutdownWaitStep ==
    ASSUME IInv, ShutdownWait
    PROVE  IInv'
<1> USE DEF IInv, envVars, config
<1>1. pc = "shutdown" /\ UNCHANGED <<now, asm, rep, envVars, owed>>
  BY DEF ShutdownWait
<1>2. CASE Jobs = {} /\ Return("ctx") /\ UNCHANGED jobVars
  <2>1. TypeOK'
    BY <1>1, <1>2 DEF TypeOK, Return, LoopStep, Exit, jobVars
  <2>2. Channel' /\ JobBound' /\ AssemblyXorJob' /\ LateIsDue' /\ LateStartNeverOk'
    BY <1>1, <1>2 DEF Channel, JobBound, Jobs, AssemblyXorJob, Assemblies, LateIsDue,
                      LateStartNeverOk, jobVars
  <2>3. Replying' /\ Exited' /\ ReplyAccounting'
    BY <1>1, <1>2 DEF Replying, Exited, ReplyAccounting, Return, Jobs, jobVars
  <2> QED  BY <2>1, <2>2, <2>3
<1>3. CASE /\ done # <<>> /\ DeleteJob(Head(done)) /\ done' = Tail(done)
           /\ UNCHANGED <<pc, exit>>
  <2>1. /\ Head(done) \in Corr /\ job[Head(done)] = "queued"
        /\ done' \in Seq(Corr) /\ job' \in [Corr -> JobState]
        /\ due' \in [Corr -> Time] /\ flag' \in [Corr -> BOOLEAN]
        /\ late' \in [Corr -> BOOLEAN] /\ result' \in [Corr -> Result]
        /\ Channel' /\ JobBound' /\ Jobs' = Jobs \ {Head(done)}
    BY <1>3, TakeResult
  <2>2. TypeOK'
    BY <1>1, <1>3, <2>1 DEF TypeOK
  <2>3. AssemblyXorJob' /\ Replying' /\ Exited' /\ ReplyAccounting'
    BY <1>1, <1>3, <2>1 DEF AssemblyXorJob, Assemblies, Replying, Exited, ReplyAccounting
  <2>4. LateIsDue' /\ LateStartNeverOk'
    BY <1>1, <1>3, <2>1 DEF LateIsDue, LateStartNeverOk, DeleteJob, TypeOK, NoResult
  <2> QED  BY <2>1, <2>2, <2>3, <2>4
<1> QED  BY <1>2, <1>3 DEF ShutdownWait

(* A fragment of the reply is committed.                                    *)
LEMMA ReplyFragmentStep ==
    ASSUME IInv, ReplyFragment
    PROVE  IInv'
<1> USE DEF IInv, config
<1>1. /\ pc = "reply" /\ UNCHANGED <<exit, now, asm, jobVars, ctxDone, epoch, clock, config>>
      /\ outCount' \in 0 .. OutCap
  BY RuntimeAssumption DEF ReplyFragment, TypeOK
<1>2. rep \in Reply /\ rep.off =< rep.len /\ rep # None
  BY <1>1, RuntimeAssumption DEF Replying
<1>3. Part \in 0 .. MaxBody /\ rep.off + Part \in Nat
  BY <1>2, RuntimeAssumption DEF Part, Reply, TypeOK
<1>4. Channel' /\ JobBound' /\ AssemblyXorJob' /\ LateIsDue' /\ LateStartNeverOk'
  BY <1>1 DEF Channel, JobBound, Jobs, AssemblyXorJob, Assemblies, LateIsDue,
              LateStartNeverOk, jobVars
<1>5. CASE /\ rep.off + Part < rep.len
           /\ rep' = [rep EXCEPT !.off = @ + Part] /\ UNCHANGED <<pc, owed>>
  <2>1. rep' \in Reply /\ rep'.off =< rep'.len /\ rep'.corr = rep.corr
    BY <1>2, <1>3, <1>5, RuntimeAssumption DEF Reply
  <2>2. TypeOK' /\ Replying' /\ Exited'
    BY <1>1, <1>5, <2>1 DEF TypeOK, Replying, Exited, jobVars
  <2>3. ReplyAccounting'
    BY <1>1, <1>2, <1>5, <2>1, RuntimeAssumption DEF ReplyAccounting, jobVars
  <2> QED  BY <1>4, <2>2, <2>3
<1>6. CASE /\ owed' = [owed EXCEPT ![rep.corr] = @ - 1]
           /\ rep' = None /\ pc' = "drain"
  <2>1. rep.corr \in Corr /\ owed[rep.corr] = One(job[rep.corr] # "none") + 1
    BY <1>1, <1>2 DEF Reply, ReplyAccounting, One
  <2>2. owed' \in [Corr -> Nat]
    BY <1>6, <2>1 DEF TypeOK, One
  <2>3. TypeOK' /\ Replying' /\ Exited'
    BY <1>1, <1>6, <2>2 DEF TypeOK, Replying, Exited, jobVars, LoopStep
  <2>4. ReplyAccounting'
    BY <1>1, <1>2, <1>6, <2>1 DEF ReplyAccounting, One, jobVars, TypeOK
  <2> QED  BY <1>4, <2>3, <2>4
<1> QED  BY <1>5, <1>6 DEF ReplyFragment

(* A frame that is answered at once: whatever the status, the answer is     *)
(* owed and under way, and at most the frame's assembly is dropped.         *)
LEMMA RefusalStep ==
    ASSUME IInv, pc = "poll", NEW c \in Corr, NEW status \in Status,
           StartReply(c, status, 0), Owe(c), UNCHANGED asm \/ DropAssembly(c),
           UNCHANGED <<now, jobVars, envVars>>
    PROVE  IInv'
<1> USE DEF IInv, envVars, config, jobVars
<1>1. exit = "run" /\ rep = None /\ 0 \in 0 .. MaxBody
  BY RuntimeAssumption DEF Exited, Replying
<1>2. /\ pc' \in {"reply", "exited"} /\ exit' \in Exit /\ exit' # "ctx"
      /\ (pc' = "exited") <=> (exit' # "run")
      /\ pc' = "reply" => /\ rep' \in Reply /\ rep'.off =< rep'.len
                          /\ rep'.corr = c
      /\ rep' \in Reply \cup {None}
  BY <1>1, StartReplyTypes
<1>3. owed' \in [Corr -> Nat] /\ asm' \in [Corr -> Assembly \cup {None}]
      /\ Assemblies' \subseteq Assemblies
  BY DEF TypeOK, Owe, DropAssembly, Assemblies
<1>4. TypeOK'
  BY <1>2, <1>3 DEF TypeOK, LoopStep
<1>5. Channel' /\ JobBound' /\ LateIsDue' /\ LateStartNeverOk' /\ Jobs' = Jobs
  BY DEF Channel, JobBound, Jobs, LateIsDue, LateStartNeverOk
<1>6. AssemblyXorJob'
  BY <1>3, <1>5 DEF AssemblyXorJob
<1>7. Replying' /\ Exited'
  BY <1>2 DEF Replying, Exited
<1>8. ReplyAccounting'
  <2>1. CASE pc' = "exited"
    BY <2>1 DEF ReplyAccounting
  <2>2. CASE pc' = "reply"
    <3>1. rep' # None
      BY <1>2, <2>2, RuntimeAssumption
    <3> QED  BY <1>1, <1>2, <2>2, <3>1 DEF ReplyAccounting, One, Owe, TypeOK
  <2> QED  BY <1>2, <2>1, <2>2
<1> QED  BY <1>4, <1>5, <1>6, <1>7, <1>8

(* A frame that is stored or skipped, or a cancel.                          *)
LEMMA QuietStep ==
    ASSUME IInv, pc = "poll", NEW f \in Inputs, UNCHANGED envVars,
           OnCancel(f) \/ OnOther(f) \/ OnFragment(f)
    PROVE  IInv'
<1> USE DEF IInv, envVars, config, jobVars
<1>0. f \in Frame /\ f.corr \in Corr
  BY RuntimeAssumption DEF Frame
<1>1. /\ pc' = "drain" /\ UNCHANGED <<exit, rep, now, job, due, result, done, late, owed>>
      /\ flag' \in [Corr -> BOOLEAN]
  BY <1>0 DEF OnCancel, OnOther, OnFragment, Continue, TypeOK
<1>2. asm' \in [Corr -> Assembly \cup {None}]
  <2>1. CASE OnCancel(f) \/ OnOther(f)
    BY <1>0, <2>1 DEF OnCancel, OnOther, DropAssembly, TypeOK
  <2>2. CASE OnFragment(f)
    <3>1. AsmLen(f) \in 0 .. MaxBody
      BY <1>0, <2>2, RuntimeAssumption DEF OnFragment, AsmLen, TypeOK, Assembly, Frame
    <3>2. [hdr |-> f.hdr, deadline |-> f.deadline, len |-> AsmLen(f)] \in Assembly
      BY <1>0, <3>1 DEF Assembly, Frame
    <3> QED  BY <2>2, <3>2 DEF OnFragment, TypeOK
  <2> QED  BY <2>1, <2>2
<1>3. Assemblies' \cap Jobs = {}
  BY <1>0 DEF OnCancel, OnOther, OnFragment, DropAssembly, Assembling, Refused, TypeOK,
              AssemblyXorJob, Assemblies, Jobs
<1>4. TypeOK'
  BY <1>1, <1>2 DEF TypeOK, LoopStep
<1>5. Channel' /\ JobBound' /\ LateIsDue' /\ LateStartNeverOk' /\ Jobs' = Jobs
  BY <1>1 DEF Channel, JobBound, Jobs, LateIsDue, LateStartNeverOk
<1>6. AssemblyXorJob' /\ Replying' /\ Exited' /\ ReplyAccounting'
  BY <1>1, <1>3, <1>5 DEF AssemblyXorJob, Replying, Exited, ReplyAccounting
<1> QED  BY <1>4, <1>5, <1>6

(* A complete request gets a handler goroutine.                             *)
LEMMA AcceptStep ==
    ASSUME IInv, pc = "poll", NEW f \in Inputs, UNCHANGED envVars, OnAccept(f)
    PROVE  IInv'
<1> DEFINE c == f.corr
<1> USE DEF IInv, envVars, config
<1>0. f \in Frame /\ c \in Corr /\ f.deadline \in Time
  BY RuntimeAssumption DEF Frame
<1>1. /\ DropAssembly(c) /\ job' = [job EXCEPT ![c] = "running"]
      /\ due' = [due EXCEPT ![c] = f.deadline]
      /\ flag' = [flag EXCEPT ![c] = FALSE]
      /\ late' = [late EXCEPT ![c] = Expired(f.deadline, clock)]
      /\ Owe(c) /\ pc' = "drain" /\ UNCHANGED <<exit, rep, now, result, done>>
      /\ job[c] = "none" /\ JobRoom
  BY DEF OnAccept, Continue, Assembling, Refused
<1>2. TypeOK'
  <2>1. flag' \in [Corr -> BOOLEAN] /\ late' \in [Corr -> BOOLEAN]
    BY <1>1 DEF TypeOK, Expired
  <2>2. job' \in [Corr -> JobState] /\ due' \in [Corr -> Time] /\ owed' \in [Corr -> Nat]
        /\ asm' \in [Corr -> Assembly \cup {None}]
    BY <1>0, <1>1 DEF TypeOK, JobState, Owe, DropAssembly
  <2> QED  BY <1>1, <2>1, <2>2 DEF TypeOK, LoopStep
<1>3. Jobs' = Jobs \cup {c} /\ Assemblies' = Assemblies \ {c}
  BY <1>0, <1>1 DEF Jobs, Assemblies, DropAssembly, TypeOK
<1>4. JobBound'
  <2>1. c \notin Jobs /\ IsFiniteSet(Jobs)
    BY <1>1, JobsFinite DEF Jobs
  <2>2. Cardinality(Jobs') = Cardinality(Jobs) + 1
    BY <1>3, <2>1, FS_AddElement
  <2>3. Cardinality(Jobs) \in Nat
    BY <2>1, FS_CardinalityType
  <2> QED  BY <1>1, <2>2, <2>3, RuntimeAssumption DEF JobRoom, JobBound
<1>5. Channel'
  BY <1>0, <1>1 DEF Channel, TypeOK
<1>6. AssemblyXorJob'
  BY <1>3 DEF AssemblyXorJob
<1>7. Replying' /\ Exited'
  BY <1>1 DEF Replying, Exited
<1>8. LateIsDue' /\ LateStartNeverOk'
  BY <1>0, <1>1 DEF LateIsDue, LateStartNeverOk, Expired, TypeOK
<1>9. ReplyAccounting'
  BY <1>0, <1>1 DEF ReplyAccounting, One, Owe, Replying, TypeOK
<1> QED  BY <1>2, <1>4, <1>5, <1>6, <1>7, <1>8, <1>9

(* Every frame Poll can return.                                             *)
LEMMA PollEventStep ==
    ASSUME IInv, NEW f \in Inputs, PollEvent(f)
    PROVE  IInv'
<1>1. pc = "poll" /\ UNCHANGED envVars /\ f.corr \in Corr
  BY RuntimeAssumption DEF PollEvent, Frame
<1>2. CASE OnCancel(f) \/ OnOther(f) \/ OnFragment(f)
  BY <1>1, <1>2, QuietStep
<1>3. CASE OnInvalid(f)
  BY <1>1, <1>3, RefusalStep DEF OnInvalid, Status
<1>4. CASE OnAssemblyLimit(f)
  BY <1>1, <1>4, RefusalStep DEF OnAssemblyLimit, Status
<1>5. CASE OnBodyLimit(f)
  BY <1>1, <1>5, RefusalStep DEF OnBodyLimit, Status
<1>6. CASE OnRefusedWork(f)
  BY <1>1, <1>6, RefusalStep DEF OnRefusedWork, Status
<1>7. CASE OnAccept(f)
  BY <1>1, <1>7, AcceptStep
<1> QED  BY <1>2, <1>3, <1>4, <1>5, <1>6, <1>7 DEF PollEvent

(* Every step preserves the inductive invariant.                            *)
LEMMA NextIInv == IInv /\ [Next]_vars => IInv'
<1> SUFFICES ASSUME IInv, [Next]_vars PROVE IInv'
  OBVIOUS
<1>1. CASE Loop
  <2>1. CASE DrainResult
    BY <2>1, DrainResultStep
  <2>2. CASE CheckCtx
    BY <2>2, CheckCtxStep
  <2>3. CASE ShutdownWait
    BY <2>3, ShutdownWaitStep
  <2>4. CASE \E f \in Inputs : PollEvent(f)
    BY <2>4, PollEventStep
  <2>5. CASE ReplyFragment
    BY <2>5, ReplyFragmentStep
  <2>6. CASE \/ DrainEmpty \/ CheckEpoch \/ PollNothing \/ ReplyEpoch
             \/ ReplyBlocked \/ ReplyGiveUp \/ ReplyRetry
    BY <2>6, ControlStep
  <2> QED  BY <1>1, <2>1, <2>2, <2>3, <2>4, <2>5, <2>6 DEF Loop
<1>2. ASSUME NEW c \in Corr, Handler(c) PROVE IInv'
  BY <1>2, HandlerReturnStep, HandlerSendStep DEF Handler
<1>3. CASE HostConsume \/ HostRestart \/ ContextEnds \/ Tick
  BY <1>3, EnvironmentStep
<1>4. CASE UNCHANGED vars
  BY <1>4 DEF vars, loopVars, jobVars, envVars, config, IInv, TypeOK, Channel, JobBound,
              Jobs, Assemblies, Replying, Exited, LateIsDue, AssemblyXorJob,
              ReplyAccounting, LateStartNeverOk
<1> QED  BY <1>1, <1>2, <1>3, <1>4 DEF Next

(* The inductive invariant of the serving loop.                             *)
THEOREM InductiveInvariant == Spec => []IInv
  BY InitIInv, NextIInv, PTL DEF Spec

(* Type correctness of the serving loop; in particular no assembled body    *)
(* and no reply exceeds ModuleMessageMaxBody, and what is owed to a         *)
(* correlation never goes below zero.                                       *)
THEOREM TypeCorrect == Spec => []TypeOK
  BY InductiveInvariant, PTL DEF IInv

(* runHandler's send on `done' never blocks, with any number of requests    *)
(* under way and also after runModuleClient has returned.                   *)
THEOREM SendNeverBlocks == Spec => []DoneNeverBlocks
<1>1. IInv => DoneNeverBlocks
  BY RoomForResult DEF IInv, DoneNeverBlocks
<1> QED  BY <1>1, InductiveInvariant, PTL

(* No correlation is in `assemblies' and in `jobs' at the same time.        *)
THEOREM AssemblyExcludesJob == Spec => []AssemblyXorJob
  BY InductiveInvariant, PTL DEF IInv

(* Every request frame that is not stored as a fragment gets exactly one    *)
(* final reply, or is still owed one, as long as the loop serves.           *)
THEOREM EveryRequestAccounted == Spec => []ReplyAccounting
  BY InductiveInvariant, PTL DEF IInv

(* A request let through on a stale clock reading is not answered OK.       *)
THEOREM LateStart == Spec => []LateStartNeverOk
  BY InductiveInvariant, PTL DEF IInv

(* A cancel that reached a running job is honoured.                         *)
THEOREM CancelIsHonoured == Spec => CancelSticks
<1> DEFINE Honoured(c) == job[c] = "running" /\ flag[c] =>
                            \/ job'[c] = "running" /\ flag'[c]
                            \/ job'[c] = "returned" /\ result'[c].status = "cancelled"
<1>1. ASSUME IInv, [Next]_vars, NEW c \in Corr PROVE Honoured(c)
  <2> SUFFICES ASSUME job[c] = "running", flag[c]
               PROVE  \/ job'[c] = "running" /\ flag'[c]
                      \/ job'[c] = "returned" /\ result'[c].status = "cancelled"
    OBVIOUS
  <2> USE <1>1 DEF IInv
  <2>1. ASSUME done # <<>>, DeleteJob(Head(done)), done' = Tail(done)
        PROVE  job'[c] = "running" /\ flag'[c]
    <3>1. Head(done) \in Corr /\ job[Head(done)] = "queued"
      BY <2>1, TakeResult
    <3> QED  BY <2>1, <3>1 DEF DeleteJob, TypeOK
  <2>2. CASE UNCHANGED <<job, flag>>
    BY <2>2
  <2>3. CASE DrainResult \/ ShutdownWait
    BY <2>1, <2>2, <2>3 DEF DrainResult, ShutdownWait, jobVars
  <2>4. CASE CheckCtx
    BY <2>4 DEF CheckCtx, TypeOK
  <2>5. ASSUME NEW f \in Inputs, PollEvent(f) PROVE job'[c] = "running" /\ flag'[c]
    <3>1. f.corr \in Corr
      BY RuntimeAssumption DEF Frame
    <3>2. CASE OnCancel(f)
      BY <3>1, <3>2 DEF OnCancel, TypeOK
    <3>3. CASE OnAccept(f)
      BY <3>1, <3>3 DEF OnAccept, Assembling, Refused, TypeOK
    <3>4. CASE \/ OnOther(f) \/ OnInvalid(f) \/ OnAssemblyLimit(f) \/ OnBodyLimit(f)
               \/ OnFragment(f) \/ OnRefusedWork(f)
      BY <3>4 DEF OnOther, OnInvalid, OnAssemblyLimit, OnBodyLimit, OnFragment,
                  OnRefusedWork, jobVars
    <3> QED  BY <2>5, <3>2, <3>3, <3>4 DEF PollEvent
  <2>6. ASSUME NEW d \in Corr, Handler(d)
        PROVE  \/ job'[c] = "running" /\ flag'[c]
               \/ job'[c] = "returned" /\ result'[c].status = "cancelled"
    <3>1. CASE HandlerSend(d)
      BY <3>1 DEF HandlerSend, TypeOK
    <3>2. ASSUME NEW status \in Status \cup {"unknown"}, NEW len \in 0 .. MaxBody + 1,
                 HandlerReturn(d, status, len)
          PROVE  \/ job'[c] = "running" /\ flag'[c]
                 \/ job'[c] = "returned" /\ result'[c].status = "cancelled"
      BY <3>2, OutcomeIsResult DEF HandlerReturn, TypeOK
    <3> QED  BY <2>6, <3>1, <3>2 DEF Handler
  <2>7. CASE \/ DrainEmpty \/ CheckEpoch \/ PollNothing \/ ReplyEpoch \/ ReplyBlocked
             \/ ReplyFragment \/ ReplyGiveUp \/ ReplyRetry
             \/ HostConsume \/ HostRestart \/ ContextEnds \/ Tick \/ UNCHANGED vars
    BY <2>2, <2>7 DEF DrainEmpty, CheckEpoch, PollNothing, ReplyEpoch, ReplyBlocked,
           ReplyFragment, ReplyGiveUp, ReplyRetry, HostConsume, HostRestart, ContextEnds,
           Tick, vars, jobVars
  <2> QED  BY <2>3, <2>4, <2>5, <2>6, <2>7 DEF Next, Loop
<1>2. IInv /\ [Next]_vars => [\A c \in Corr : Honoured(c)]_vars
  BY <1>1
<1> QED  BY <1>2, InductiveInvariant, PTL DEF Spec, CancelSticks
=============================================================================
