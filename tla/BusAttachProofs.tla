--------------------------- MODULE BusAttachProofs ---------------------------
(***************************************************************************)
(* Proofs about the life of a bus client, for modules and callers and any  *)
(* number of host restarts.                                                *)
(***************************************************************************)
EXTENDS BusAttach, TLAPS

(* A process that has not begun to connect satisfies the invariant.         *)
LEMMA AttachInit == Init => AttachInv
<1> SUFFICES ASSUME Init PROVE AttachInv
  OBVIOUS
<1>1. NoAnswer \in Answer
  BY AttachAssumption DEF NoAnswer, Answer
<1>2. TypeOK
  <2>1. open \in [Resource -> Int] /\ 0 \in 0 .. MaxEpoch
    BY AttachAssumption DEF Init
  <2> QED  BY <1>1, <2>1 DEF Init, TypeOK, Step
<1>3. Holds = {} /\ ~Attached
  BY DEF Init, Holds, Attached
<1>4. answer.epoch = 0
  BY DEF Init, NoAnswer
<1>5. open = [r \in Resource |-> IF r \in Holds THEN 1 ELSE 0]
  BY <1>3 DEF Init
<1> QED  BY <1>2, <1>3, <1>4, <1>5 DEF Init, AttachInv, NotReaped

(* Every system call of connecting and attaching preserves it, whether the  *)
(* call succeeds or fails.                                                  *)
LEMMA AttachingStep ==
    ASSUME AttachInv, Attaching PROVE AttachInv'
<1> USE AttachAssumption DEF AttachInv, TypeOK, Holds, Attached, NotReaped, EpochChanged,
       Resource, Fd, Mapping, Step, Others, hostVars, beatVars, Acquire, Release, Goto, Fail
<1>1. CASE Socket  BY <1>1 DEF Socket
<1>2. CASE Connect  BY <1>2 DEF Connect
<1>3. CASE Retry  BY <1>3 DEF Retry
<1>4. CASE SendRequest  BY <1>4 DEF SendRequest
<1>5. CASE Recv  BY <1>5 DEF Recv, Answer
<1>6. CASE Reply  BY <1>6 DEF Reply, Answer, MappedBefore
<1>7. CASE MapRegion("control", "arena")  BY <1>7 DEF MapRegion, MappedBefore
<1>8. CASE MapRegion("arena", "queues")  BY <1>8 DEF MapRegion, MappedBefore
<1>9. CASE MapRegion("queues", "validate")
  BY <1>9 DEF MapRegion, MappedBefore, AttachedEpoch, Answer
<1>10. ASSUME NEW ok \in BOOLEAN, Validate(ok) PROVE AttachInv'
  BY <1>10 DEF Validate, StartsKeepAlive
<1> QED  BY <1>1, <1>2, <1>3, <1>4, <1>5, <1>6, <1>7, <1>8, <1>9, <1>10 DEF Attaching

(* A step of the heartbeat, the ticker or the goroutine preserves it when   *)
(* the goroutine ends with the context only.                                *)
LEMMA BeatStep ==
    ASSUME AttachInv, UNCHANGED <<procVars, ctxDone, hostVars>>,
           beater' \in {"none", "select", "writing"}, due' \in BOOLEAN, beat' \in BOOLEAN,
           beater # "none" => beater' # "none" \/ ctxDone
    PROVE  AttachInv'
<1>1. /\ owner' = owner /\ pc' = pc /\ open' = open /\ mem' = mem /\ attached' = attached
      /\ result' = result /\ ctxDone' = ctxDone /\ path' = path /\ answer' = answer
      /\ epoch' = epoch /\ reaped' = reaped
  BY DEF procVars, hostVars
<1>2. TypeOK'
  BY <1>1 DEF AttachInv, TypeOK
<1>3. Holds' = Holds /\ Attached' = Attached
  BY <1>1 DEF Holds, Attached
<1>4. NotReaped'
  BY <1>1 DEF AttachInv, NotReaped, EpochChanged
<1>5. pc' = "attached" /\ owner' = "caller" => beater' # "none" \/ ctxDone'
  BY <1>1 DEF AttachInv
<1> QED  BY <1>1, <1>2, <1>3, <1>4, <1>5 DEF AttachInv

(* Serving, letting go and the heartbeat goroutine preserve it.             *)
LEMMA UsingStep ==
    ASSUME AttachInv, Serve \/ Detach \/ KeepAlive PROVE AttachInv'
<1>1. CASE Serve
  <2> USE AttachAssumption DEF AttachInv, TypeOK, Holds, Attached, NotReaped, EpochChanged,
         Resource, Fd, Mapping, Step, MappedBefore, procVars, hostVars, DetachMem, Release
  <2>1. /\ owner = "module"
        /\ UNCHANGED <<owner, attached, result, ctxDone, hostVars, beater, due>>
    BY <1>1 DEF Serve
  <2>2. CASE pc = "attached" /\ pc' = "serving" /\ UNCHANGED <<open, mem, beat>>
    BY <2>1, <2>2
  <2>3. CASE pc = "serving" /\ beat' = TRUE /\ UNCHANGED <<pc, open, mem>>
    BY <2>1, <2>3
  <2>4. CASE pc = "serving" /\ DetachMem /\ pc' = "gone" /\ UNCHANGED beat
    BY <2>1, <2>4
  <2> QED  BY <1>1, <2>2, <2>3, <2>4 DEF Serve
<1>2. CASE Detach
  BY <1>2, AttachAssumption DEF Detach, AttachInv, TypeOK, Holds, Attached, NotReaped,
     EpochChanged, Resource, Fd, Mapping, Step, procVars, hostVars, DetachMem, Release
<1>3. due \in BOOLEAN /\ beat \in BOOLEAN
  BY DEF AttachInv, TypeOK
<1>4. CASE KeepAliveTick  BY <1>3, <1>4, BeatStep DEF KeepAliveTick
<1>5. CASE KeepAliveWrite  BY <1>3, <1>5, BeatStep DEF KeepAliveWrite
<1>6. CASE KeepAliveStop  BY <1>3, <1>6, BeatStep DEF KeepAliveStop
<1> QED  BY <1>1, <1>2, <1>4, <1>5, <1>6 DEF KeepAlive

(* Nothing that the host, the ticker or the context does disturbs it.       *)
LEMMA OutsideStep ==
    ASSUME AttachInv,
           \/ HostListens \/ HostAnswers \/ HostRestarts \/ HostScans \/ TickerFires
           \/ ContextEnds \/ UNCHANGED vars
    PROVE  AttachInv'
<1>1. CASE TickerFires
  <2>1. beat \in BOOLEAN /\ beater \in {"none", "select", "writing"}
    BY DEF AttachInv, TypeOK
  <2> QED  BY <1>1, <2>1, BeatStep DEF TickerFires
<1> USE AttachAssumption DEF AttachInv, TypeOK, Holds, Attached, NotReaped, EpochChanged,
       Resource, Fd, Mapping, Step, MappedBefore, procVars, hostVars, beatVars
<1>2. CASE HostListens  BY <1>2 DEF HostListens
<1>3. CASE HostAnswers  BY <1>3 DEF HostAnswers, Answer
<1>4. CASE HostRestarts  BY <1>4 DEF HostRestarts, Answer
<1>5. CASE HostScans
  <2>1. /\ UNCHANGED <<procVars, ctxDone, path, answer, epoch, beater, due>>
        /\ pc \in {"attached", "serving"} /\ reaped' \in BOOLEAN /\ beat' = FALSE
    BY <1>5 DEF HostScans
  <2>2. TypeOK'
    BY <2>1
  <2>3. Holds' = Holds /\ Attached' = Attached
    BY <2>1
  <2>4. NotReaped'
    BY <1>5, <2>1 DEF HostScans
  <2> QED  BY <2>1, <2>2, <2>3, <2>4
<1>6. CASE ContextEnds  BY <1>6 DEF ContextEnds
<1>7. CASE UNCHANGED vars  BY <1>7 DEF vars
<1> QED  BY <1>1, <1>2, <1>3, <1>4, <1>5, <1>6, <1>7

(* The inductive invariant holds in every state of a client's life.         *)
THEOREM AttachInvariant == Spec => []AttachInv
<1>1. AttachInv /\ [Next]_vars => AttachInv'
  BY AttachingStep, UsingStep, OutsideStep DEF Next
<1> QED  BY AttachInit, <1>1, PTL DEF Spec

(* The variables keep their types, however often the host restarts.         *)
THEOREM AttachTypeCorrect == Spec => []TypeOK
<1>1. AttachInv => TypeOK
  BY DEF AttachInv
<1> QED  BY AttachInvariant, <1>1, PTL

(* AttachAs gives back each descriptor and mapping exactly once on every    *)
(* one of its error returns, and so does Detach; an attached client holds   *)
(* its three mappings and nothing else.                                     *)
THEOREM NothingLeaks == Spec => []ReleasedOnce
<1>1. AttachInv => ReleasedOnce
  BY DEF AttachInv, ReleasedOnce, Holds, Resource, Fd, Mapping
<1> QED  BY AttachInvariant, <1>1, PTL

(* A host that restarts after its answer is noticed by EpochChanged, also   *)
(* when the restart came before the regions were mapped.                    *)
THEOREM RestartIsNoticed == Spec => []RestartNoticed
<1>1. AttachInv => RestartNoticed
  BY DEF AttachInv, RestartNoticed, Attached, EpochChanged
<1> QED  BY AttachInvariant, <1>1, PTL

(* The heartbeat of ConnectClient's goroutine, or of the serving loop,      *)
(* keeps an attached client's slot for as long as its context lasts.        *)
THEOREM IdleClientKept == Spec => []NotReaped
<1>1. AttachInv => NotReaped
  BY DEF AttachInv
<1> QED  BY AttachInvariant, <1>1, PTL
=============================================================================
