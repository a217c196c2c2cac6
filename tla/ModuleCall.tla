----------------------------- MODULE ModuleCall -----------------------------
(***************************************************************************)
(* A synchronous stage call over the bus (server-go/bus/module_caller.go): *)
(* Call, send and awaitReply on one client, composed with the two rings of *)
(* that client, the host between them and the serving module.              *)
(*                                                                         *)
(* The module is the assembling and answering half of ModuleRuntime for    *)
(* the requests of this caller; other clients only take up its assembly    *)
(* slots.  The host is external: it forwards frames in order, answers      *)
(* requests that no module serves or that the grant does not cover with a  *)
(* control frame, and may deliver frames that are nobody's business.       *)
(*                                                                         *)
(* Bodies are sequences of units <<call, position>>, so that a unit tells  *)
(* which call it belongs to even where the correlation would not.          *)
(***************************************************************************)
EXTENDS Naturals, Sequences, FiniteSets

CONSTANTS MaxCalls,       \* bound on the number of calls
          MaxLen,         \* ModuleMessageMaxBody, in units
          Requests,       \* the lengths of the requests made, in units
          Answers,        \* the lengths of the answers the stage may give
          ResponseLimit,  \* ModuleCaller.responseLimit, in units
          Chunks,         \* inline budgets less the header: 0 is "no room"
          OutCap, InCap,  \* slots of the two rings
          MaxInFlight,    \* moduleMaxInFlight: assemblies of the module
          None            \* no answer, no reply under way, nothing returned

ASSUME CallAssumption ==
    /\ MaxCalls \in Nat \ {0} /\ MaxLen \in Nat
    /\ Requests \subseteq Nat /\ Answers \subseteq 0 .. MaxLen
    /\ ResponseLimit \in Nat /\ Chunks \subseteq Nat
    /\ OutCap \in Nat \ {0} /\ InCap \in Nat \ {0} /\ MaxInFlight \in Nat \ {0}

Id == 1 .. MaxCalls
Corr == 0 .. MaxCalls

\* A reply the module is writing: of a result, how much has been written.
Reply == [corr: Corr, call: Id \cup {None}, ok: BOOLEAN, off: Nat, len: Nat]

\* A body, or a part of one: units of a call, numbered from 1.
Body == Seq(Nat \X (Nat \ {0}))

ASSUME NoneAssumption == None \notin Nat \cup Body

VARIABLES
    pc,           \* where Call is
    correlation,  \* m.correlation
    calls,        \* history: the number of calls made, with their lengths
    offset,       \* send: how much of the request has been sent
    timed,        \* the call has a deadline
    past,         \* time.Now() is after awaitReply's expiry
    ctxDone,      \* the context of the call has ended
    body,         \* awaitReply's body
    why,          \* the error Call is about to return
    ret,          \* history: the last return
    outbound, inbound,  \* the client's rings
    chunk,        \* the client's inline budget less the module header
    epoch,        \* the host has restarted
    route,        \* how the host treats the caller's requests
    asm,          \* the module's assembly per correlation: units or None
    job,          \* the module's job per correlation: the call it runs or None
    flag,         \* the job's cancel flag
    others,       \* assemblies that belong to other clients
    reply,        \* the reply the module is writing
    runs, answer, \* history: runs and answers per call
    ran,          \* history: the request bodies that handlers were given
    note          \* history: what became of calls, see below

callerVars == <<pc, correlation, calls, offset, timed, past, ctxDone, body, why, ret>>
sharedVars == <<outbound, inbound, chunk, epoch, route>>
moduleVars == <<asm, job, flag, others, reply, runs, answer, ran>>
vars == <<callerVars, sharedVars, moduleVars, note>>

(* `half': send stopped between two fragments.  `uncancelled': the cancel   *)
(* found no room.  `left': the call ended without an answer.  `bounced': a  *)
(* fragment found no assembly slot.                                         *)
Note == {"half", "uncancelled", "left", "bounced"}
Mark(what, k) == note' = [note EXCEPT ![what] = @ \cup {k}]

Route == {"served", "absent", "rejected"}

Init ==
    /\ pc = "idle" /\ correlation = 0 /\ calls = <<>> /\ offset = 0
    /\ timed = FALSE /\ past = FALSE /\ ctxDone = FALSE /\ body = <<>> /\ why = "ok"
    /\ ret = None /\ outbound = <<>> /\ inbound = <<>>
    /\ chunk \in Chunks /\ epoch = FALSE /\ route \in Route
    /\ asm = [c \in Corr |-> None] /\ job = [c \in Corr |-> None]
    /\ flag = [c \in Corr |-> FALSE] /\ others = 0 /\ reply = None
    /\ runs = [k \in Id |-> 0] /\ answer = [k \in Id |-> None] /\ ran = {}
    /\ note = [w \in Note |-> {}]

-----------------------------------------------------------------------------
(* The caller. *)

This == Len(calls)
Length == calls[This]

\* The units from + 1 .. from + n of a body of call k.
Units(k, from, n) == [i \in 1 .. n |-> <<k, from + i>>]
Part(from, len) == IF len - from > chunk THEN chunk ELSE len - from

\* Call returns a body, or None for an error; its locals are gone.
Return(result) ==
    /\ pc' = "idle" /\ ret' = [call |-> This, body |-> result]
    /\ offset' = 0 /\ timed' = FALSE /\ past' = FALSE /\ ctxDone' = FALSE
    /\ body' = <<>> /\ why' = "ok"

\* Slip: a correlation is used up only by a request that has gone out.
CorrelationOfSent(c) == IF This \in note["half"] THEN c ELSE c + 1

NextCorrelation(c) == c + 1

\* Call up to send; a request that is too long is refused before anything
\* changes.
Call(len, deadline) ==
    /\ pc = "idle" /\ This < MaxCalls
    /\ len =< MaxLen
    /\ correlation' = NextCorrelation(correlation)
    /\ calls' = Append(calls, len)
    /\ timed' = deadline
    /\ pc' = "send"
    /\ UNCHANGED <<offset, past, ctxDone, body, why, ret, sharedVars, moduleVars, note>>

Fragment(part, more) ==
    [op |-> "request", corr |-> correlation, call |-> This, more |-> more,
     units |-> Units(This, offset, part)]

\* Slip: the flag is set on the last fragment too.
MoreAlways(part) == offset + part =< Length

More(part) == offset + part < Length

\* One turn of send's loop.
SendFragment ==
    /\ pc = "send" /\ chunk > 0 /\ ~epoch /\ Len(outbound) < OutCap
    /\ LET part == Part(offset, Length)
       IN /\ outbound' = Append(outbound, Fragment(part, More(part)))
          /\ offset' = offset + part
          /\ pc' = IF offset + part < Length THEN "send" ELSE "await"
    /\ UNCHANGED <<correlation, calls, timed, past, ctxDone, body, why, ret,
                   inbound, chunk, epoch, route, moduleVars, note>>

\* No room for the module header in the inline budget, a new epoch or a full
\* ring: what has been sent stays sent, and no cancel follows.
SendFails ==
    /\ pc = "send"
    /\ chunk = 0 \/ epoch \/ Len(outbound) = OutCap
    /\ Return(None)
    /\ IF offset > 0 THEN Mark("half", This) ELSE UNCHANGED note
    /\ UNCHANGED <<correlation, calls, sharedVars, moduleVars>>

\* awaitReply ends with an error: Call will cancel, then return it.
Leave(outcome) ==
    /\ pc' = "leave" /\ why' = outcome
    /\ UNCHANGED <<offset, timed, past, ctxDone, body, ret>>

\* awaitReply goes on polling.
Again(b) ==
    /\ pc' = "await" /\ body' = b
    /\ UNCHANGED <<offset, timed, past, ctxDone, why, ret>>

\* Slip: a caller that owns its client takes every reply for its own.
OwnAnything(f) == TRUE

Own(f) == f.corr = correlation

Control(f) == Own(f) /\ f.kind \in {"absent", "rejected"}

\* The body stays within the limit.
Fits(f) == Len(body) + Len(f.units) =< ResponseLimit

\* What awaitReply does with an event, in the order of its tests.
OnEvent(f) ==
    LET result == Own(f) /\ f.kind = "result"
    IN \/ Control(f) /\ Leave(f.kind)
       \/ /\ ~Control(f) /\ (~Own(f) \/ f.kind \in {"other", "absent", "rejected"})
          /\ Again(body)
       \/ Own(f) /\ f.kind = "short" /\ Leave("runtime")
       \/ result /\ ~f.ok /\ Leave("status")
       \/ result /\ f.ok /\ ~Fits(f) /\ Leave("runtime")
       \/ result /\ f.ok /\ Fits(f) /\ f.more /\ Again(body \o f.units)
       \/ result /\ f.ok /\ Fits(f) /\ ~f.more /\ Return(body \o f.units)

PollEvent ==
    /\ pc = "await" /\ ~epoch /\ inbound # <<>>
    /\ Head(inbound).kind # "garbled"
    /\ inbound' = Tail(inbound)
    /\ OnEvent(Head(inbound))
    /\ UNCHANGED <<correlation, calls, outbound, chunk, epoch, route, moduleVars, note>>

\* Poll finds nothing, or a frame it cannot decode.
PollNothing ==
    /\ pc = "await" /\ ~epoch
    /\ \/ inbound = <<>> /\ UNCHANGED inbound
       \/ /\ inbound # <<>> /\ Head(inbound).kind = "garbled"
          /\ inbound' = Tail(inbound)
    /\ pc' = "check"
    /\ UNCHANGED <<correlation, calls, offset, timed, past, ctxDone, body, why, ret,
                   outbound, chunk, epoch, route, moduleVars, note>>

PollEpoch ==
    /\ pc = "await" /\ epoch
    /\ Leave("epoch")
    /\ UNCHANGED <<correlation, calls, sharedVars, moduleVars, note>>

\* Slip: the expiry is not looked at.
PastNever == FALSE

Past == timed /\ past

\* After an empty Poll: the context, then the expiry, then sleep and poll.
Check ==
    /\ pc = "check"
    /\ \/ ctxDone /\ Leave("cancelled")
       \/ ~ctxDone /\ Past /\ Leave("deadline")
       \/ ~ctxDone /\ ~Past /\ Again(body)
    /\ UNCHANGED <<correlation, calls, sharedVars, moduleVars, note>>

\* Slip: the cancel goes out under the context of the call.
CancelUnderContext == ~epoch /\ Len(outbound) < OutCap /\ ~ctxDone

\* emit has room for the cancel.
CancelFits == ~epoch /\ Len(outbound) < OutCap

\* The cancel is published if there is room for it; nobody looks.
LeaveCall ==
    /\ pc = "leave"
    /\ outbound' = IF CancelFits
                   THEN Append(outbound, [op |-> "cancel", corr |-> correlation])
                   ELSE outbound
    /\ note' = [note EXCEPT
                  !["left"] = @ \cup {This},
                  !["uncancelled"] = IF ~epoch /\ Len(outbound) < OutCap
                                     THEN @ ELSE @ \cup {This}]
    /\ Return(None)
    /\ UNCHANGED <<correlation, calls, inbound, chunk, epoch, route, moduleVars>>

Caller == \/ SendFragment \/ SendFails \/ PollEvent \/ PollNothing \/ PollEpoch
          \/ Check \/ LeaveCall

-----------------------------------------------------------------------------
(* The host and the module. *)

InFrame(kind, c, ok, units, more) ==
    [kind |-> kind, corr |-> c, ok |-> ok, units |-> units, more |-> more]

\* The host hands the next frame of the caller on.
Taking == ~epoch /\ outbound # <<>>
Take == outbound' = Tail(outbound)
HostUnchanged == UNCHANGED <<callerVars, chunk, epoch, route>>

\* No module for the kind, or no grant: a control frame answers, unless the
\* inbound ring has no room for it.
HostRefuses ==
    /\ Taking /\ Take /\ Head(outbound).op = "request" /\ route # "served"
    /\ inbound' = IF Len(inbound) < InCap
                  THEN Append(inbound, InFrame(route, Head(outbound).corr, FALSE, <<>>, FALSE))
                  ELSE inbound
    /\ HostUnchanged /\ UNCHANGED <<moduleVars, note>>

\* A cancel: raise the job's flag and forget a partial request.
ModuleCancel ==
    /\ Taking /\ Take /\ Head(outbound).op = "cancel"
    /\ LET c == Head(outbound).corr
       IN /\ flag' = [flag EXCEPT ![c] = job[c] # None]
          /\ asm' = [asm EXCEPT ![c] = None]
    /\ HostUnchanged
    /\ UNCHANGED <<inbound, job, others, reply, runs, answer, ran, note>>

Assemblies == Cardinality({c \in Corr : asm[c] # None}) + others

\* A reply without a body.
Bodiless(c) == [corr |-> c, call |-> None, ok |-> FALSE, off |-> 0, len |-> 0]

\* A fragment that clashes with a running job, or finds no assembly slot.
ModuleRefuses ==
    /\ Taking /\ Take /\ Head(outbound).op = "request" /\ route = "served"
    /\ reply = None
    /\ LET f == Head(outbound)
       IN /\ \/ job[f.corr] # None
             \/ asm[f.corr] = None /\ Assemblies >= MaxInFlight
          /\ asm' = [asm EXCEPT ![f.corr] = None]
          /\ reply' = Bodiless(f.corr)
          /\ Mark("bounced", f.call)
    /\ HostUnchanged
    /\ UNCHANGED <<inbound, job, flag, others, runs, answer, ran>>

\* A fragment joins its assembly.  The last one starts the handler, or is
\* answered at once: the deadline has passed, there is no handler, or there
\* are too many jobs.
ModuleAssembles ==
    /\ Taking /\ Take /\ Head(outbound).op = "request" /\ route = "served"
    /\ reply = None
    /\ LET f == Head(outbound)
           whole == (IF asm[f.corr] = None THEN <<>> ELSE asm[f.corr]) \o f.units
       IN /\ job[f.corr] = None
          /\ asm[f.corr] = None => Assemblies < MaxInFlight
          /\ asm' = [asm EXCEPT ![f.corr] = IF f.more THEN whole ELSE None]
          /\ \/ f.more /\ UNCHANGED <<job, flag, runs, ran, reply>>
             \/ /\ ~f.more
                /\ reply' = Bodiless(f.corr) /\ UNCHANGED <<job, flag, runs, ran>>
             \/ /\ ~f.more
                /\ job' = [job EXCEPT ![f.corr] = f.call]
                /\ flag' = [flag EXCEPT ![f.corr] = FALSE]
                /\ runs' = [runs EXCEPT ![f.call] = @ + 1]
                /\ ran' = ran \cup {[call |-> f.call, units |-> whole]}
                /\ UNCHANGED reply
    /\ HostUnchanged /\ UNCHANGED <<inbound, others, answer, note>>

\* The handler of a job is done: an answer, or None for a status that is not
\* OK, which is all that a cancelled one may give.
ModuleAnswers(c, len) ==
    /\ job[c] # None /\ reply = None /\ ~epoch
    /\ flag[c] => len = None
    /\ job' = [job EXCEPT ![c] = None] /\ flag' = [flag EXCEPT ![c] = FALSE]
    /\ reply' = IF len = None THEN Bodiless(c)
                ELSE [corr |-> c, call |-> job[c], ok |-> TRUE, off |-> 0, len |-> len]
    /\ answer' = [answer EXCEPT ![job[c]] = len]
    /\ HostUnchanged /\ UNCHANGED <<outbound, inbound, asm, others, runs, ran, note>>

\* One frame of the reply reaches the caller's inbound ring.
ModuleReplies ==
    /\ reply # None /\ ~epoch /\ Len(inbound) < InCap
    /\ LET part == Part(reply.off, reply.len)
           more == reply.off + part < reply.len
       IN /\ inbound' = Append(inbound, InFrame("result", reply.corr, reply.ok,
                                   Units(reply.call, reply.off, part), more))
          /\ reply' = IF more THEN [reply EXCEPT !.off = @ + part] ELSE None
    /\ HostUnchanged /\ UNCHANGED <<outbound, asm, job, flag, others, runs, answer, ran, note>>

\* Other clients open and close assemblies.
OthersAssemble ==
    /\ ~epoch
    /\ \/ Assemblies < MaxInFlight /\ others' = others + 1
       \/ others > 0 /\ others' = others - 1
    /\ HostUnchanged
    /\ UNCHANGED <<outbound, inbound, asm, job, flag, reply, runs, answer, ran, note>>

\* A frame for another kind or correlation, one that cannot be decoded, or
\* one of this call whose body is shorter than it says.
Stray(kind) ==
    /\ ~epoch /\ Len(inbound) < InCap /\ kind \in {"other", "garbled", "short"}
    /\ inbound' = Append(inbound, InFrame(kind, correlation, TRUE, <<>>, FALSE))
    /\ HostUnchanged /\ UNCHANGED <<outbound, moduleVars, note>>

HostRestart ==
    /\ ~epoch /\ epoch' = TRUE
    /\ UNCHANGED <<callerVars, outbound, inbound, chunk, route, moduleVars, note>>

ContextEnds ==
    /\ pc \in {"send", "await", "check"} /\ ~ctxDone /\ ctxDone' = TRUE
    /\ UNCHANGED <<pc, correlation, calls, offset, timed, past, body, why, ret,
                   sharedVars, moduleVars, note>>

\* The expiry that Call computes after send goes by.
DeadlinePasses ==
    /\ pc \in {"await", "check"} /\ timed /\ ~past /\ past' = TRUE
    /\ UNCHANGED <<pc, correlation, calls, offset, timed, ctxDone, body, why, ret,
                   sharedVars, moduleVars, note>>

Strays == \E kind \in {"other", "garbled", "short"} : Stray(kind)

Module == \/ HostRefuses \/ ModuleCancel \/ ModuleRefuses \/ ModuleAssembles
          \/ \E c \in Corr, len \in Answers \cup {None} : ModuleAnswers(c, len)
          \/ ModuleReplies

Next == \/ \E len \in Requests, deadline \in BOOLEAN : Call(len, deadline)
        \/ Caller \/ Module \/ OthersAssemble \/ Strays
        \/ HostRestart \/ ContextEnds \/ DeadlinePasses

(* The goroutine that called keeps running and time passes; nothing is      *)
(* assumed of the host, the module or the context.                          *)
Spec == Init /\ [][Next]_vars /\ WF_vars(Caller) /\ WF_vars(DeadlinePasses)

-----------------------------------------------------------------------------
(* Properties. *)

(* The call is what RemoteCall promises: the stage runs it at most once,    *)
(* and a body that Call returns is the whole answer to this very call, in   *)
(* order, whatever late replies to earlier calls are still on the ring.     *)
Remote == INSTANCE RemoteCall WITH calls <- Len(calls), calling <- pc # "idle",
                                       MaxAnswer <- MaxLen
IsRemoteCall == Remote!Spec

(* A handler is given the whole body of one call, never the fragments of    *)
(* two, unless the module refused a fragment of it.                         *)
WholeRequests ==
    \A r \in ran : r.call \notin note["bounced"] => r.units = Units(r.call, 0, calls[r.call])

(* The module goes on with a call that its caller has left only while the   *)
(* cancel is on its way, or when the ring had no room for the cancel.       *)
LeftIsCancelled ==
    \A c \in Corr : job[c] # None /\ ~flag[c] /\ job[c] \in note["left"] =>
        \/ job[c] \in note["uncancelled"]
        \/ \E i \in 1 .. Len(outbound) : outbound[i] = [op |-> "cancel", corr |-> c]

(* The module keeps the beginning of a request only while the rest is on    *)
(* its way, or when send was cut off by a full ring or a new epoch.         *)
HalvesAccounted ==
    \A c \in Corr : asm[c] # None =>
        \/ pc = "send" /\ c = correlation
        \/ \E i \in 1 .. Len(outbound) : outbound[i].op = "request" /\ outbound[i].corr = c
        \/ asm[c] # <<>> /\ asm[c][1][1] \in note["half"]

(* A call with a deadline, or whose context ends, returns whatever the      *)
(* host and the module do, provided that the host does not go on forever    *)
(* delivering frames that are not for it: the expiry is only looked at      *)
(* when the inbound ring is empty.                                          *)
CallReturns ==
    <>[][~Strays]_vars =>
        (pc # "idle" /\ (timed \/ ctxDone) ~> pc = "idle")

(* What a comment says, and the code does not do: a fragment that announces *)
(* more keeps the correlation in the assembly state until the final one, so *)
(* the module never runs only the end of a request.                         *)
WholeRequestsAlways ==
    \A r \in ran : r.units = Units(r.call, 0, calls[r.call])

-----------------------------------------------------------------------------
(* What the proofs rest on.                                                 *)

OutFrame == [op: {"request"}, corr: Corr, call: Id, more: BOOLEAN, units: Body]
            \cup [op: {"cancel"}, corr: Corr]
InFrames == [kind: {"result", "absent", "rejected", "other", "garbled", "short"},
             corr: Corr, ok: BOOLEAN, units: Body, more: BOOLEAN]

(* The variables keep their types.                                          *)
TypeOK ==
    /\ pc \in {"idle", "send", "await", "check", "leave"}
    /\ correlation \in Corr /\ calls \in Seq(Nat) /\ offset \in Nat /\ body \in Body
    /\ outbound \in Seq(OutFrame) /\ inbound \in Seq(InFrames)
    /\ chunk \in Nat /\ route \in Route
    /\ asm \in [Corr -> Body \cup {None}] /\ job \in [Corr -> Id \cup {None}]
    /\ flag \in [Corr -> BOOLEAN] /\ reply \in Reply \cup {None}
    /\ runs \in [Id -> {0, 1}] /\ answer \in [Id -> Nat \cup {None}]
    /\ ran \subseteq [call: Id, units: Body] /\ note \in [Note -> SUBSET Id]

\* Where the units of a frame begin and end in the body they are part of.
Begin(f) == IF f.units = <<>> THEN 0 ELSE f.units[1][2] - 1
End(f) == Begin(f) + Len(f.units)

\* Frame f is a part of the body of length len of call k, and says whether
\* it is the last one.
PartOf(f, k, len) ==
    /\ f.units = Units(k, Begin(f), Len(f.units))
    /\ End(f) =< len
    /\ f.more <=> End(f) < len
    /\ f.more => Len(f.units) > 0

Requesting(i) == outbound[i].op = "request"
Resulting(i) == inbound[i].kind = "result" /\ inbound[i].ok
Ours(i) == Resulting(i) /\ inbound[i].corr = This
Sending(k) == pc = "send" /\ offset > 0 /\ k = This
Polling == pc \in {"await", "check"}

(* The caller: the correlation numbers its calls, and the request at hand   *)
(* has not run before all of it has been sent.                              *)
CallerInv ==
    /\ correlation = This /\ This =< MaxCalls
    /\ pc # "idle" => This > 0 /\ This \notin note["left"]
    /\ \A k \in note["left"] \cup note["half"] : k =< This
    /\ pc = "idle" => offset = 0
    /\ pc \in {"idle", "send"} => body = <<>>
    /\ pc = "send" => /\ offset < Length \/ offset = 0
                      /\ runs[This] = 0
                      /\ offset = 0 => asm[This] = None
    /\ body = Units(This, 0, Len(body))
    /\ body # <<>> => answer[This] # None

(* The outbound ring.  A request frame is a part of a call that has not     *)
(* run, and says truly whether more of it follows.                          *)
RequestInv ==
    \A i \in 1 .. Len(outbound) : Requesting(i) =>
        LET f == outbound[i]
            k == f.call
        IN /\ f.corr = k /\ k =< This /\ chunk > 0 /\ runs[k] = 0
           /\ PartOf(f, k, calls[k])
           /\ (k = This /\ pc = "send") => (f.more /\ offset > 0)

(* Nothing of a call is assembled before its first frame is taken; any      *)
(* other frame comes right behind the part before it, or continues what the *)
(* module has assembled.                                                    *)
JoinInv ==
    \A i \in 1 .. Len(outbound) : Requesting(i) =>
        LET f == outbound[i]
            k == f.call
        IN /\ Begin(f) = 0 => asm[k] = None
           /\ (Begin(f) > 0 /\ i = 1 /\ route = "served" /\ k \notin note["bounced"]) =>
                asm[k] = Units(k, 0, Begin(f))
           /\ (Begin(f) > 0 /\ i > 1) =>
                /\ Requesting(i - 1) /\ outbound[i - 1].call = k
                /\ End(outbound[i - 1]) = Begin(f)

(* The rest of a request is right behind a frame that announces more, or is *)
(* still to be sent, or send was cut off.                                   *)
RestInv ==
    \A i \in 1 .. Len(outbound) : (Requesting(i) /\ outbound[i].more) =>
        \/ /\ i < Len(outbound) /\ Requesting(i + 1)
           /\ outbound[i + 1].call = outbound[i].call
        \/ i = Len(outbound) /\ Sending(outbound[i].call)
        \/ outbound[i].call \in note["half"]

(* The cancel of a call that was left is behind its frames.                 *)
CancelInv ==
    \A i \in 1 .. Len(outbound) :
        (Requesting(i) /\ outbound[i].call \in note["left"]) =>
            \/ outbound[i].call \in note["uncancelled"]
            \/ \E j \in 1 .. Len(outbound) :
                 j > i /\ outbound[j] = [op |-> "cancel", corr |-> outbound[i].call]

(* Two frames of one call: the earlier one announces more, and the later    *)
(* one is not its first.                                                    *)
OrderInv ==
    \A i, j \in 1 .. Len(outbound) :
        (i < j /\ Requesting(i) /\ Requesting(j) /\ outbound[i].call = outbound[j].call) =>
            (outbound[i].more /\ Begin(outbound[j]) > 0)

(* What is about to be sent follows the last frame on the ring, or what the *)
(* module has assembled.                                                    *)
LastInv ==
    Sending(This) =>
        /\ (outbound = <<>> /\ route = "served" /\ This \notin note["bounced"]) =>
             asm[This] = Units(This, 0, offset)
        /\ outbound # <<>> =>
             /\ Requesting(Len(outbound)) /\ outbound[Len(outbound)].call = This
             /\ End(outbound[Len(outbound)]) = offset

(* The module: an assembly holds the beginning of its own call, whose next  *)
(* frame is the next to be taken or to be sent, unless send was cut off.    *)
AssemblyInv ==
    \A c \in Corr : asm[c] # None =>
        /\ route = "served" /\ asm[c] # <<>> /\ asm[c][1][1] = c
        /\ \/ outbound = <<>> /\ Sending(c)
           \/ c \in note["half"]
           \/ outbound # <<>> /\ Requesting(1) /\ outbound[1].call = c

(* A job is the only run of its call, and an answer comes from a run.       *)
JobInv ==
    /\ \A c \in Corr : job[c] # None =>
         /\ job[c] = c /\ runs[c] = 1 /\ answer[c] = None /\ chunk > 0
    /\ \A k \in Id : (runs[k] = 1 => k =< This) /\ (answer[k] # None => runs[k] = 1)
    /\ \A r \in ran : r.call =< This

(* The reply under way continues the results that are on the inbound ring,  *)
(* or the body that the caller has received.                                *)
ReplyInv ==
    reply # None =>
        /\ chunk > 0
        /\ ~reply.ok => reply.off = 0 /\ reply.len = 0
        /\ reply.ok =>
             /\ reply.call = reply.corr /\ answer[reply.call] = reply.len
             /\ reply.off < reply.len \/ reply.off = 0
             /\ \A i \in 1 .. Len(inbound) :
                  (Resulting(i) /\ inbound[i].corr = reply.corr) =>
                      (inbound[i].more /\ End(inbound[i]) =< reply.off)
             /\ (Polling /\ reply.call = This) =>
                  \/ reply.off = Len(body)
                  \/ \E i \in 1 .. Len(inbound) : Ours(i) /\ End(inbound[i]) = reply.off

(* A result on the inbound ring is a part of the answer to its call, and    *)
(* one of the call at hand begins where the result before it, or the body   *)
(* that has been received, ends.                                            *)
ResultInv ==
    \A i \in 1 .. Len(inbound) : Resulting(i) =>
        LET f == inbound[i]
        IN /\ f.corr \in Id /\ answer[f.corr] # None /\ PartOf(f, f.corr, answer[f.corr])
           /\ (Polling /\ f.corr = This) =>
                \/ Begin(f) = Len(body)
                \/ \E j \in 1 .. Len(inbound) : j < i /\ Ours(j) /\ End(inbound[j]) = Begin(f)

(* Two results of one call: the earlier one announces more, and the later   *)
(* one begins no sooner than it ends.                                       *)
ResultOrder ==
    \A i, j \in 1 .. Len(inbound) :
        (i < j /\ Resulting(i) /\ Resulting(j) /\ inbound[i].corr = inbound[j].corr) =>
            (inbound[i].more /\ End(inbound[i]) =< Begin(inbound[j]))

(* The inductive invariant.                                                 *)
CallInv ==
    /\ TypeOK /\ CallerInv /\ RequestInv /\ JoinInv /\ RestInv /\ CancelInv /\ OrderInv
    /\ LastInv /\ AssemblyInv /\ JobInv /\ ReplyInv /\ ResultInv /\ ResultOrder /\ WholeRequests /\ LeftIsCancelled
=============================================================================
