------------------------- MODULE ToolDispatchProofs -------------------------
(***************************************************************************)
(* Proofs about the tool-call dispatcher, for any number of threads and    *)
(* any set of calls.                                                       *)
(***************************************************************************)
EXTENDS ToolDispatch, FiniteSetTheorems, TLAPS

(* A set of at most one element has no two.                                 *)
LEMMA AtMostOne ==
    ASSUME NEW S, IsFiniteSet(S), Cardinality(S) <= 1, NEW x \in S, NEW y \in S
    PROVE  x = y
<1>1. Cardinality(S \ {x}) = Cardinality(S) - 1 /\ IsFiniteSet(S \ {x})
  BY FS_RemoveElement
<1>2. Cardinality(S) \in Nat /\ Cardinality(S \ {x}) \in Nat
  BY <1>1, FS_CardinalityType
<1>3. Cardinality(S \ {x}) = 0
  BY <1>1, <1>2
<1>4. S \ {x} = {}
  BY <1>1, <1>3, FS_EmptySet
<1> QED  BY <1>4

(* A call with one field of a kind.                                         *)
LEMMA OneFieldIs ==
    ASSUME NEW a, OneField(a)
    PROVE  /\ \A f, g \in PathFields : a[f] # None /\ a[g] # None => f = g
           /\ \A f, g \in {"command", "cmd", "body"} : a[f] # None /\ a[g] # None => f = g
<1> DEFINE P == {f \in PathFields : a[f] # None}
           C == {f \in {"command", "cmd", "body"} : a[f] # None}
<1>1. IsFiniteSet(PathFields)
  <2>1. IsFiniteSet({"file"}) /\ IsFiniteSet({"path"}) /\ IsFiniteSet({"filepath"})
          /\ IsFiniteSet({"file_path"})
    BY FS_Singleton
  <2>2. IsFiniteSet({"path"} \cup {"filepath"}) /\ IsFiniteSet({"file_path"} \cup {"file"})
    BY <2>1, FS_Union
  <2>3. IsFiniteSet(({"path"} \cup {"filepath"}) \cup ({"file_path"} \cup {"file"}))
    BY <2>2, FS_Union
  <2>4. ({"path"} \cup {"filepath"}) \cup ({"file_path"} \cup {"file"})
          = PathFields
    BY DEF PathFields
  <2> QED  BY <2>3, <2>4
<1>2. IsFiniteSet({"command", "cmd", "body"})
  <2>1. IsFiniteSet({"command"}) /\ IsFiniteSet({"cmd"}) /\ IsFiniteSet({"body"})
    BY FS_Singleton
  <2>2. IsFiniteSet({"command"} \cup {"cmd"})
    BY <2>1, FS_Union
  <2>3. IsFiniteSet(({"command"} \cup {"cmd"}) \cup {"body"})
    BY <2>1, <2>2, FS_Union
  <2>4. ({"command"} \cup {"cmd"}) \cup {"body"} = {"command", "cmd", "body"}
    OBVIOUS
  <2> QED  BY <2>3, <2>4
<1>3. IsFiniteSet(P) /\ IsFiniteSet(C)
  <2>1. P \subseteq PathFields /\ C \subseteq {"command", "cmd", "body"}
    OBVIOUS
  <2> HIDE DEF P, C
  <2> QED  BY <1>1, <1>2, <2>1, FS_Subset
<1>4. Cardinality(P) <= 1 /\ Cardinality(C) <= 1
  BY DEF OneField
<1>5. \A f, g \in P : f = g
  <2> HIDE DEF P
  <2> QED  BY <1>3, <1>4, AtMostOne
<1>6. \A f, g \in C : f = g
  <2> HIDE DEF C
  <2> QED  BY <1>3, <1>4, AtMostOne
<1> QED  BY <1>5, <1>6

(* One alias: the value moves to its proper field, or nothing does.         *)
LEMMA AliasIs ==
    ASSUME NEW a \in Args, NEW from \in Field, NEW to \in Field, from # to
    PROVE  /\ Alias(a, from, to) \in Args
           /\ \A f \in Field \ {from, to} : Alias(a, from, to)[f] = a[f]
           /\ a[from] # None /\ a[to] = None =>
                Alias(a, from, to)[to] = a[from] /\ Alias(a, from, to)[from] = None
           /\ a[from] = None \/ a[to] # None => Alias(a, from, to) = a
  BY DEF Alias, Args

(* The aliases together: a call with one path field and one command field   *)
(* is left with `path' only, and with either `command' or `body'.           *)
LEMMA NormaliseIs ==
    ASSUME NEW a \in Args
    PROVE  /\ Normalise(a) \in Args
           /\ NamesNoAlias(a) => Normalise(a) = a
           /\ (\A f \in PathFields : a[f] = None) => Normalise(a)["path"] = None
           /\ OneField(a) => /\ Normalise(a)["file_path"] = None
                             /\ Normalise(a)["cmd"] = None
                             /\ Normalise(a)["command"] = None \/ Normalise(a)["body"] = None
<1> DEFINE b == Alias(a, "filepath", "path")
           c == Alias(b, "file_path", "path")
           d == Alias(c, "file", "path")
           e == Alias(d, "cmd", "command")
<1>0. Normalise(a) = e
  BY DEF Normalise
<1>1. /\ b \in Args /\ \A f \in Field \ {"filepath", "path"} : b[f] = a[f]
      /\ a["filepath"] # None /\ a["path"] = None => b["path"] = a["filepath"] /\ b["filepath"] = None
      /\ a["filepath"] = None \/ a["path"] # None => b = a
  BY AliasIs DEF Field
<1> HIDE DEF b
<1>2. /\ c \in Args /\ \A f \in Field \ {"file_path", "path"} : c[f] = b[f]
      /\ b["file_path"] # None /\ b["path"] = None => c["path"] = b["file_path"] /\ c["file_path"] = None
      /\ b["file_path"] = None \/ b["path"] # None => c = b
  BY <1>1, AliasIs DEF Field
<1> HIDE DEF c
<1>3. /\ d \in Args /\ \A f \in Field \ {"file", "path"} : d[f] = c[f]
      /\ c["file"] = None \/ c["path"] # None => d = c
  BY <1>2, AliasIs DEF Field
<1> HIDE DEF d
<1>4. /\ e \in Args /\ \A f \in Field \ {"cmd", "command"} : e[f] = d[f]
      /\ d["cmd"] # None /\ d["command"] = None => e["command"] = d["cmd"] /\ e["cmd"] = None
      /\ d["cmd"] = None \/ d["command"] # None => e = d
  BY <1>3, AliasIs DEF Field
<1> HIDE DEF e
<1>5. NamesNoAlias(a) => e = a
  BY <1>1, <1>2, <1>3, <1>4 DEF NamesNoAlias, Field
<1>7. (\A f \in PathFields : a[f] = None) => e["path"] = None
  BY <1>1, <1>2, <1>3, <1>4 DEF PathFields, Field
<1>6. ASSUME OneField(a)
      PROVE  e["file_path"] = None /\ e["cmd"] = None /\ (e["command"] = None \/ e["body"] = None)
  <2>1. /\ \A f, g \in PathFields : a[f] # None /\ a[g] # None => f = g
        /\ \A f, g \in {"command", "cmd", "body"} : a[f] # None /\ a[g] # None => f = g
    BY <1>6, OneFieldIs
  <2>2. e["file_path"] = None
    <3>1. e["file_path"] = c["file_path"] /\ b["file_path"] = a["file_path"]
      BY <1>1, <1>3, <1>4 DEF Field
    <3>2. a["file_path"] # None => b["path"] = None
      BY <1>1, <2>1 DEF PathFields
    <3> QED  BY <1>2, <3>1, <3>2
  <2>3. d["cmd"] = a["cmd"] /\ d["command"] = a["command"] /\ e["body"] = a["body"]
    BY <1>1, <1>2, <1>3, <1>4 DEF Field
  <2>4. a["cmd"] # None => a["command"] = None
    BY <2>1
  <2>5. e["cmd"] = None
    BY <1>4, <2>3, <2>4
  <2>6. e["command"] = None \/ e["body"] = None
    BY <1>4, <2>1, <2>3
  <2> QED  BY <2>2, <2>5, <2>6
<1> QED  BY <1>0, <1>4, <1>5, <1>6, <1>7

-----------------------------------------------------------------------------
(* The inductive invariant, thread by thread.                               *)

(* The state that td_outcome_reset leaves is of its type.                   *)
LEMMA EffectType == NoEffect \in Effect /\ Fresh \in Carriers
  BY DEF NoEffect, Effect, Attempt, Fresh, Carriers, Verdict, Reason, Mode

(* A cell that is set to what it holds does not change.                     *)
LEMMA EffectSame == [NoEffect EXCEPT !.redirect = None] = NoEffect
<1>1. ASSUME NEW r \in Effect PROVE [r EXCEPT !.redirect = r.redirect] = r
  BY DEF Effect
<1>2. NoEffect.redirect = None
  BY DEF NoEffect
<1> QED  BY <1>1, <1>2, EffectType

(* Before the first call of any thread.                                     *)
LEMMA DispatchInit == Init => DispatchInv
<1> SUFFICES ASSUME Init PROVE DispatchInv
  OBVIOUS
<1>1. (CHOOSE c \in Calls : TRUE) \in Call
  BY DispatchAssumption
<1>2. call \in [Thread -> Call]
  <2>1. call \in [Thread -> {CHOOSE c \in Calls : TRUE}]
    BY DEF Init
  <2> QED  BY <1>1, <2>1
<1>3. args \in [Thread -> Args]
  <2>1. \A c \in Call : c.args \in Args
    BY DEF Call, Args
  <2> QED  BY <1>2, <2>1 DEF Init
<1>4. TypeOK
  BY <1>2, <1>3, EffectType DEF Init, TypeOK, Result
<1>5. ASSUME NEW t \in Thread PROVE ThreadInv(t)
  <2>1. pc[t] = "idle" /\ audit[t] = None /\ did[t].act = None /\ hooks[t] = "none"
    BY DEF Init, NoEffect
  <2>2. None # "asked"
    BY DispatchAssumption
  <2> QED  BY <2>1, <2>2 DEF ThreadInv, Audited, Hooked
<1> QED  BY <1>4, <1>5 DEF DispatchInv

(* A thread whose own cells do not change goes on as it was.                *)
LEMMA Frame ==
    ASSUME NEW t, ThreadInv(t),
           pc'[t] = pc[t], call'[t] = call[t], args'[t] = args[t], out'[t] = out[t],
           result'[t] = result[t], hooks'[t] = hooks[t], audit'[t] = audit[t],
           did'[t] = did[t]
    PROVE  ThreadInv(t)'
<1>1. pc[t] \in {"parse", "gates", "guardrail"} => Waiting(t)'
  BY DEF ThreadInv, Waiting
<1>2. guardrail_input_json(t)' = guardrail_input_json(t)
  BY Zenon DEF guardrail_input_json
<1>3. pc[t] = "handler" => Handling(t)'
  BY <1>2 DEF ThreadInv, Handling
<1>4. pc[t] = "return" => Returned(t)' /\ Accounted(t, out[t].mode)'
  BY DEF ThreadInv, Returned, Accounted
<1>5. Audited(t)' => Reported(t)' /\ Accounted(t, audit[t].mode)'
  BY DEF ThreadInv, Audited, Reported, Accounted
<1>6. Redirected(t)' /\ OneField(call'[t].args) => did'[t].act # "asked"
  BY DEF ThreadInv, Redirected
<1>7. Hooked(t)'
  BY DEF ThreadInv, Hooked
<1> QED  BY <1>1, <1>3, <1>4, <1>5, <1>6, <1>7 DEF ThreadInv

(* A step of one thread: what it must establish is its own invariant.       *)
LEMMA ThreadStep ==
    ASSUME DispatchInv, NEW t \in Thread, TypeOK', ThreadInv(t)',
           \A u \in Thread : u # t =>
               /\ pc'[u] = pc[u] /\ call'[u] = call[u] /\ args'[u] = args[u]
               /\ out'[u] = out[u] /\ result'[u] = result[u] /\ hooks'[u] = hooks[u]
               /\ audit'[u] = audit[u] /\ did'[u] = did[u]
    PROVE  DispatchInv'
<1>1. ASSUME NEW u \in Thread, u # t PROVE ThreadInv(u)'
  BY <1>1, Frame DEF DispatchInv
<1>2. ASSUME NEW u \in Thread PROVE ThreadInv(u)'
  BY <1>1, <1>2
<1> QED  BY <1>2 DEF DispatchInv

(* A definitive verdict of _inner before any handler has run.               *)
LEMMA ReturnStep ==
    ASSUME DispatchInv, NEW t \in Thread, NEW v \in Verdict \ {"ok"}, NEW r \in Reason,
           Return(t, v, r), out[t] = Fresh, hooks[t] = "started",
           did[t] = [NoEffect EXCEPT !.redirect = did[t].redirect, !.shown = did[t].shown]
    PROVE  DispatchInv'
<1> DEFINE o == td_outcome_set(Fresh, v, r)
<1>1. /\ pc' = [pc EXCEPT ![t] = "return"] /\ result' = [result EXCEPT ![t] = "error:"]
      /\ out' = [out EXCEPT ![t] = o]
      /\ UNCHANGED <<call, args, hooks, audit, did>>
  BY DEF Return, PutOutcome, OutcomeOf, Carrier
<1>2. o.verdict = v /\ o.reason = r /\ o.mode = "internal" /\ o.explicit
  BY DEF td_outcome_set, Fresh
<1>3. o \in Carriers
  BY EffectType DEF td_outcome_set, Carriers
<1> HIDE DEF o
<1>4. TypeOK
  BY DEF DispatchInv
<1>5. TypeOK'
  BY <1>1, <1>3, <1>4 DEF TypeOK, Result
<1>6. pc'[t] = "return" /\ result'[t] = "error:" /\ out'[t] = o
  BY <1>1, <1>4 DEF TypeOK
<1>7. /\ ~did[t].ran /\ ~did[t].wrote /\ did[t].snapshot = "none" /\ did[t].recorded = "none"
      /\ ~did[t].read /\ ~did[t].left /\ did[t].act = None
  BY DEF NoEffect
<1>8. Returned(t)'
  BY <1>1, <1>2, <1>6, <1>7 DEF Returned, Untouched
<1>9. Accounted(t, out[t].mode)'
  BY <1>1, <1>2, <1>6, <1>7 DEF Accounted, Tracked
<1>10. ThreadInv(t)'
  <2>1. None # "asked"
    BY DispatchAssumption
  <2> QED  BY <1>1, <1>6, <1>7, <1>8, <1>9, <2>1 DEF ThreadInv, Audited, Hooked
<1> QED  BY <1>1, <1>4, <1>5, <1>10, ThreadStep DEF TypeOK

(* What a handler may act on.                                               *)
Target(t) ==
    CASE call[t].tool \in Runner -> {CommandOf(t)}
      [] call[t].tool \in {"read_file", "write_file", "edit_file", "list_files", "grep", "test"} ->
            {args[t]["path"]}
      [] call[t].tool = "edit_symbol" -> {args[t]["path"], "index"}
      [] call[t].tool \in {"git_show", "git_write"} -> {args[t]["path"], "cwd"}
      [] OTHER -> {}

(* What a handler may answer.                                               *)
Sound(t, r, e) ==
    /\ r \in Result /\ e \in Effect
    /\ e.redirect = did[t].redirect /\ (e.shown <=> did[t].shown)
    /\ e.ran \/ e.failed
    /\ r \in {"text", "exit0"} /\ (e.failed \/ e.down) => Unmarked(call[t])
    /\ r = "exitN" => call[t].tool \in Exec
    /\ r = "refused:" => call[t].tool \in Shell
    /\ Tracked(call[t].tool, e)
    /\ e.act \in Target(t) \cup {None}

(* What has been acted on is what the guardrail was shown, or lies in one   *)
(* of its blind spots, and is not what it has redirected.                   *)
LEMMA TargetIs ==
    ASSUME DispatchInv, NEW t \in Thread, pc[t] = "handler", NEW e \in Effect,
           e.redirect = did[t].redirect, e.shown <=> did[t].shown,
           e.act \in Target(t) \cup {None}
    PROVE  /\ e.act # None => e.shown \/ BlindSpot(call[t], e.act)
           /\ /\ OneField(call[t].args)
              /\ \/ e.redirect = "path" /\ call[t].tool \in PathTools
                 \/ e.redirect = "command" /\ call[t].tool \in Runner
              => e.act # "asked"
<1>1. Handling(t)
  BY DEF DispatchInv, ThreadInv
<1>2. did[t].shown <=> guardrail_input_json(t)
  <2>1. did[t] = [NoEffect EXCEPT !.redirect = did[t].redirect,
                                 !.shown = guardrail_input_json(t)]
    BY <1>1 DEF Handling
  <2> HIDE DEF guardrail_input_json
  <2> QED  BY <2>1 DEF NoEffect
<1>3. None # "asked" /\ None # "index" /\ None # "cwd"
  BY DispatchAssumption
<1>4. ASSUME e.act # None, ~BlindSpot(call[t], e.act) PROVE guardrail_input_json(t)
  <2>1. NamesNoAlias(call[t].args) =>
          /\ call[t].args["path"] = None => args[t]["path"] = None
          /\ call[t].args["command"] = None => args[t]["command"] = None
          /\ call[t].args["body"] = None => args[t]["body"] = None
    BY <1>1 DEF Handling
  <2>2. CASE call[t].tool \in Shell
    <3>1. NamesNoAlias(call[t].args) /\ e.act = CommandOf(t)
      BY <1>4, <2>2 DEF BlindSpot, Mapped, Target, Runner, Shell
    <3> QED  BY <1>4, <2>1, <2>2, <3>1 DEF guardrail_input_json, Shell, CommandOf
  <2>3. CASE call[t].tool \in {"read_file", "write_file", "edit_file"}
    <3>1. NamesNoAlias(call[t].args) /\ e.act = args[t]["path"]
      BY <1>4, <2>3 DEF BlindSpot, Mapped, Target, Runner, Shell
    <3> QED  BY <1>4, <2>1, <2>3, <3>1 DEF guardrail_input_json
  <2>4. CASE call[t].tool = "edit_symbol"
    <3>1. e.act = args[t]["path"]
      BY <1>4, <2>4 DEF BlindSpot, Target, Runner, Shell
    <3>2. \E f \in PathFields : call[t].args[f] # None
      BY <1>1, <1>4, <3>1 DEF Handling
    <3> QED  BY <2>4, <3>2 DEF guardrail_input_json
  <2>5. CASE call[t].tool \notin Shell \cup {"read_file", "write_file", "edit_file", "edit_symbol"}
    BY <2>5 DEF guardrail_input_json, Shell
  <2> QED  BY <2>2, <2>3, <2>4, <2>5
<1>5. ASSUME OneField(call[t].args), e.redirect = "path", call[t].tool \in PathTools
      PROVE  e.act # "asked"
  <2>1. args[t]["path"] # "asked"
    BY <1>1, <1>5 DEF Handling
  <2>2. e.act \in {args[t]["path"], "index", "cwd", None}
    BY <1>5 DEF Target, PathTools, Mutators, Runner, Shell
  <2> QED  BY <1>3, <2>1, <2>2
<1>6. ASSUME OneField(call[t].args), e.redirect = "command", call[t].tool \in Runner
      PROVE  e.act # "asked"
  <2>1. args[t]["command"] # "asked" /\ args[t]["body"] # "asked"
    BY <1>1, <1>6 DEF Handling
  <2>2. e.act \in {CommandOf(t), None}
    BY <1>6 DEF Target, Runner, Shell
  <2> QED  BY <1>3, <2>1, <2>2 DEF CommandOf
<1> QED  BY <1>2, <1>4, <1>5, <1>6

(* Any sound answer keeps the invariant; the carriers are as they were, or  *)
(* name the transport of a remote tool.                                     *)
LEMMA AnswerStep ==
    ASSUME DispatchInv, NEW t \in Thread, NEW r, NEW e, NEW o \in Carriers,
           Answer(t, r, e), Sound(t, r, e),
           out' \in [Thread -> Carriers], out'[t] = o,
           \A u \in Thread : u # t => out'[u] = out[u],
           o.explicit <=> o.verdict # "ok", o.verdict # "refused",
           o.mode # "internal" => call[t].tool = "remote",
           call[t].tool = "remote" /\ e.ran => o.mode # "internal"
    PROVE  DispatchInv'
<1>1. /\ pc[t] = "handler" /\ pc' = [pc EXCEPT ![t] = "return"]
      /\ result' = [result EXCEPT ![t] = r] /\ did' = [did EXCEPT ![t] = e]
      /\ UNCHANGED <<call, args, hooks, audit>>
  BY DEF Answer
<1>2. /\ r \in Result /\ e \in Effect
      /\ e.redirect = did[t].redirect /\ (e.shown <=> did[t].shown)
      /\ e.ran \/ e.failed
      /\ r \in {"text", "exit0"} /\ (e.failed \/ e.down) => Unmarked(call[t])
      /\ r = "exitN" => call[t].tool \in Exec
      /\ r = "refused:" => call[t].tool \in Shell
      /\ Tracked(call[t].tool, e)
      /\ e.act \in Target(t) \cup {None}
  BY DEF Sound
<1>3. TypeOK /\ hooks[t] = "started"
  BY <1>1 DEF DispatchInv, ThreadInv, Hooked
<1>4. TypeOK'
  BY <1>1, <1>2, <1>3 DEF TypeOK
<1>5. pc'[t] = "return" /\ result'[t] = r /\ did'[t] = e /\ call'[t] = call[t]
      /\ hooks'[t] = "started"
  BY <1>1, <1>3 DEF TypeOK
<1>6. Returned(t)'
  BY <1>2, <1>5 DEF Returned
<1>7. /\ e.act # None => e.shown \/ BlindSpot(call[t], e.act)
      /\ /\ OneField(call[t].args)
         /\ \/ e.redirect = "path" /\ call[t].tool \in PathTools
            \/ e.redirect = "command" /\ call[t].tool \in Runner
         => e.act # "asked"
  BY <1>1, <1>2, TargetIs
<1>8. Accounted(t, out[t].mode)'
  BY <1>2, <1>5, <1>7 DEF Accounted
<1>9. ThreadInv(t)'
  BY <1>5, <1>6, <1>7, <1>8 DEF ThreadInv, Audited, Redirected, Hooked
<1> QED  BY <1>1, <1>3, <1>4, <1>9, ThreadStep DEF TypeOK

(* The handlers of the tools that leave the carriers alone.                 *)
LEMMA SoundStep ==
    ASSUME DispatchInv, NEW t \in Thread, NEW r, NEW e,
           Answer(t, r, e), Sound(t, r, e), UNCHANGED out, call[t].tool # "remote"
    PROVE  DispatchInv'
<1>1. out \in [Thread -> Carriers] /\ out[t] = Fresh
  BY DEF DispatchInv, TypeOK, ThreadInv, Handling, Answer
<1>2. ~Fresh.explicit /\ Fresh.verdict = "ok" /\ Fresh.mode = "internal"
  BY DEF Fresh
<1> QED  BY <1>1, <1>2, AnswerStep, EffectType

(* The effect so far, when a handler begins.                                *)
Clean(d) ==
    /\ d \in Effect
    /\ ~d.ran /\ ~d.failed /\ ~d.wrote /\ d.snapshot = "none" /\ d.recorded = "none"
    /\ ~d.read /\ ~d.left /\ ~d.down /\ d.act = None /\ d.blocked = {}

(* A handler begins with nothing done.                                      *)
LEMMA CleanIs ==
    ASSUME DispatchInv, NEW t \in Thread, pc[t] = "handler"
    PROVE  Clean(did[t])
<1>1. did[t] \in Effect
  BY DEF DispatchInv, TypeOK
<1>2. did[t] = [NoEffect EXCEPT !.redirect = did[t].redirect, !.shown = guardrail_input_json(t)]
  BY DEF DispatchInv, ThreadInv, Handling
<1> HIDE DEF guardrail_input_json
<1> QED  BY <1>1, <1>2 DEF Clean, NoEffect

-----------------------------------------------------------------------------
(* The handlers that write no file.                                         *)

(* An effect without a write, of a tool that acted on its own target.       *)
Quiet(t, e) ==
    /\ e \in Effect
    /\ e.redirect = did[t].redirect /\ (e.shown <=> did[t].shown)
    /\ ~e.wrote /\ e.snapshot = "none" /\ e.recorded = "none"
    /\ call[t].tool \in {"process", "verify"} /\ e.left => "parent" \notin e.blocked
    /\ e.act \in Target(t) \cup {None}

(* One that nothing has gone wrong with yet.                                *)
Base(t, e) == Quiet(t, e) /\ ~e.failed /\ ~e.down

(* The effects that the handlers begin from.                                *)
LEMMA BaseIs ==
    ASSUME DispatchInv, NEW t \in Thread, pc[t] = "handler",
           NEW a \in (Target(t) \cup {None}) \cap {None, "asked", "rewritten", "index", "cwd"},
           NEW left \in BOOLEAN, NEW blocked \in SUBSET Guard,
           call[t].tool \in {"process", "verify"} /\ left => "parent" \notin blocked
    PROVE  /\ Base(t, did[t])
           /\ Base(t, [did[t] EXCEPT !.act = a])
           /\ Base(t, [did[t] EXCEPT !.blocked = blocked])
           /\ call[t].tool \notin {"process", "verify"} =>
                /\ Base(t, [did[t] EXCEPT !.left = left])
                /\ Base(t, [[did[t] EXCEPT !.act = a] EXCEPT !.left = left])
           /\ Base(t, [[did[t] EXCEPT !.blocked = blocked] EXCEPT !.left = left])
<1>1. Clean(did[t])
  BY CleanIs
<1>2. Base(t, did[t])
  BY <1>1 DEF Base, Quiet, Clean
<1>3. Base(t, [did[t] EXCEPT !.act = a])
  BY <1>1 DEF Base, Quiet, Clean, Effect
<1>4. Base(t, [did[t] EXCEPT !.blocked = blocked])
  BY <1>1 DEF Base, Quiet, Clean, Effect
<1>5. ASSUME call[t].tool \notin {"process", "verify"} PROVE Base(t, [did[t] EXCEPT !.left = left])
  BY <1>1, <1>5 DEF Base, Quiet, Clean, Effect
<1>6. ASSUME call[t].tool \notin {"process", "verify"}
      PROVE  Base(t, [[did[t] EXCEPT !.act = a] EXCEPT !.left = left])
  BY <1>1, <1>6 DEF Base, Quiet, Clean, Effect
<1>7. Base(t, [[did[t] EXCEPT !.blocked = blocked] EXCEPT !.left = left])
  BY <1>1 DEF Base, Quiet, Clean, Effect
<1> QED  BY <1>2, <1>3, <1>4, <1>5, <1>6, <1>7

(* The ways in which such an effect is completed.                           *)
LEMMA QuietIs ==
    ASSUME NEW t, NEW e, Base(t, e)
    PROVE  /\ /\ Quiet(t, [e EXCEPT !.ran = TRUE]) /\ [e EXCEPT !.ran = TRUE].ran
              /\ ~[e EXCEPT !.ran = TRUE].failed /\ ~[e EXCEPT !.ran = TRUE].down
           /\ /\ Quiet(t, [e EXCEPT !.ran = TRUE, !.read = TRUE])
              /\ [e EXCEPT !.ran = TRUE, !.read = TRUE].ran
              /\ ~[e EXCEPT !.ran = TRUE, !.read = TRUE].failed
              /\ ~[e EXCEPT !.ran = TRUE, !.read = TRUE].down
           /\ Quiet(t, [e EXCEPT !.failed = TRUE]) /\ [e EXCEPT !.failed = TRUE].failed
           /\ /\ Quiet(t, [e EXCEPT !.ran = TRUE, !.failed = TRUE])
              /\ [e EXCEPT !.ran = TRUE, !.failed = TRUE].failed
           /\ /\ Quiet(t, [e EXCEPT !.failed = TRUE, !.down = TRUE])
              /\ [e EXCEPT !.failed = TRUE, !.down = TRUE].failed
           /\ /\ Quiet(t, [e EXCEPT !.ran = TRUE, !.down = TRUE])
              /\ [e EXCEPT !.ran = TRUE, !.down = TRUE].ran
<1>1. /\ Quiet(t, [e EXCEPT !.ran = TRUE]) /\ [e EXCEPT !.ran = TRUE].ran
      /\ ~[e EXCEPT !.ran = TRUE].failed /\ ~[e EXCEPT !.ran = TRUE].down
  BY DEF Base, Quiet, Effect
<1>2. /\ Quiet(t, [e EXCEPT !.ran = TRUE, !.read = TRUE])
      /\ [e EXCEPT !.ran = TRUE, !.read = TRUE].ran
      /\ ~[e EXCEPT !.ran = TRUE, !.read = TRUE].failed
      /\ ~[e EXCEPT !.ran = TRUE, !.read = TRUE].down
  BY DEF Base, Quiet, Effect
<1>3. Quiet(t, [e EXCEPT !.failed = TRUE]) /\ [e EXCEPT !.failed = TRUE].failed
  BY DEF Base, Quiet, Effect
<1>4. /\ Quiet(t, [e EXCEPT !.ran = TRUE, !.failed = TRUE])
      /\ [e EXCEPT !.ran = TRUE, !.failed = TRUE].failed
  BY DEF Base, Quiet, Effect
<1>5. /\ Quiet(t, [e EXCEPT !.failed = TRUE, !.down = TRUE])
      /\ [e EXCEPT !.failed = TRUE, !.down = TRUE].failed
  BY DEF Base, Quiet, Effect
<1>6. /\ Quiet(t, [e EXCEPT !.ran = TRUE, !.down = TRUE])
      /\ [e EXCEPT !.ran = TRUE, !.down = TRUE].ran
  BY DEF Base, Quiet, Effect
<1> QED  BY <1>1, <1>2, <1>3, <1>4, <1>5, <1>6

(* An answer with such an effect.                                           *)
LEMMA QuietStep ==
    ASSUME DispatchInv, NEW t \in Thread, NEW r \in Result, NEW e, Quiet(t, e),
           e.ran \/ e.failed,
           r \in {"text", "exit0"} /\ (e.failed \/ e.down) => Unmarked(call[t]),
           r = "exitN" => call[t].tool \in Exec, r = "refused:" => call[t].tool \in Shell,
           Answer(t, r, e), UNCHANGED out, call[t].tool # "remote"
    PROVE  DispatchInv'
<1>1. Tracked(call[t].tool, e)
  BY DEF Quiet, Tracked
<1>2. Sound(t, r, e)
  BY <1>1 DEF Quiet, Sound
<1> QED  BY <1>2, SoundStep

(* The answers that the handlers have in common.                            *)
LEMMA CommonStep ==
    ASSUME DispatchInv, NEW t \in Thread, NEW e, Base(t, e), UNCHANGED out,
           call[t].tool # "remote",
           \/ Loses(t, e) \/ HandsOn(t, e) \/ Says(t, e) \/ SaysDown(t, e) \/ Looks(t, e)
           \/ InWords(t, e) /\ Unmarked(call[t])
           \/ Answer(t, "text", [e EXCEPT !.ran = TRUE])
           \/ \E r \in {"error:", "error: timeout"} : Answer(t, r, [e EXCEPT !.failed = TRUE])
    PROVE  DispatchInv'
<1>1. \/ \E r \in {"text", "error:", "error: timeout"} : Answer(t, r, [e EXCEPT !.ran = TRUE])
      \/ \E r \in {"error:", "error: timeout"} : Answer(t, r, [e EXCEPT !.failed = TRUE])
      \/ Answer(t, "text", [e EXCEPT !.failed = TRUE]) /\ Unmarked(call[t])
      \/ Answer(t, "lost", [e EXCEPT !.ran = TRUE, !.failed = TRUE])
      \/ Answer(t, "error:", [e EXCEPT !.failed = TRUE, !.down = TRUE])
  BY DEF Loses, HandsOn, Says, SaysDown, Looks, InWords
<1>2. /\ "text" \in Result /\ "error:" \in Result /\ "error: timeout" \in Result
      /\ "lost" \in Result
  BY DEF Result
<1> DEFINE R == [e EXCEPT !.ran = TRUE]
           F == [e EXCEPT !.failed = TRUE]
           L == [e EXCEPT !.ran = TRUE, !.failed = TRUE]
           D == [e EXCEPT !.failed = TRUE, !.down = TRUE]
<1>3. /\ Quiet(t, R) /\ R.ran /\ ~R.failed /\ ~R.down
      /\ Quiet(t, F) /\ F.failed /\ Quiet(t, L) /\ L.failed /\ Quiet(t, D) /\ D.failed
  BY QuietIs
<1> HIDE DEF R, F, L, D
<1>4. CASE \E r \in {"text", "error:", "error: timeout"} : Answer(t, r, R)
  BY <1>2, <1>3, <1>4, QuietStep
<1>5. CASE \E r \in {"error:", "error: timeout"} : Answer(t, r, F)
  BY <1>2, <1>3, <1>5, QuietStep
<1>6. CASE Answer(t, "text", F) /\ Unmarked(call[t])
  BY <1>2, <1>3, <1>6, QuietStep
<1>7. CASE Answer(t, "lost", L)
  BY <1>2, <1>3, <1>7, QuietStep
<1>8. CASE Answer(t, "error:", D)
  BY <1>2, <1>3, <1>8, QuietStep
<1> QED  BY <1>1, <1>4, <1>5, <1>6, <1>7, <1>8 DEF R, F, L, D

(* A handler that returns an error at once.                                 *)
LEMMA FailStep ==
    ASSUME DispatchInv, NEW t \in Thread, Fail(t), call[t].tool # "remote"
    PROVE  DispatchInv'
<1>1. pc[t] = "handler" /\ Answer(t, "error:", [did[t] EXCEPT !.failed = TRUE]) /\ UNCHANGED out
  BY DEF Fail, Answer
<1>2. Base(t, did[t])
  <2>1. Clean(did[t])
    BY <1>1, CleanIs
  <2> QED  BY <2>1 DEF Base, Quiet, Clean
<1> QED  BY <1>1, <1>2, CommonStep

(* What td_bash, td_execute_script and td_run_tests run.                    *)
LEMMA CommandBase ==
    ASSUME DispatchInv, NEW t \in Thread, pc[t] = "handler", call[t].tool \in Runner
    PROVE  Base(t, did[t]) /\ Base(t, [did[t] EXCEPT !.act = CommandOf(t)])
<1>1. CommandOf(t) \in {None, "asked", "rewritten"}
  BY DEF CommandOf, DispatchInv, TypeOK, Args, Field
<1>2. CommandOf(t) \in Target(t)
  BY DEF Target, Runner, Shell
<1>3. call[t].tool \notin {"process", "verify"}
  BY DEF Runner, Shell
<1> HIDE DEF CommandOf, Target
<1>4. CommandOf(t) \in (Target(t) \cup {None}) \cap {None, "asked", "rewritten", "index", "cwd"}
      /\ TRUE \in BOOLEAN /\ {} \in SUBSET Guard
  BY <1>1, <1>2
<1> QED  BY <1>3, <1>4, BaseIs

(* A command that has run, or could not be run.                             *)
LEMMA ExecutesStep ==
    ASSUME DispatchInv, NEW t \in Thread, Executes(t), call[t].tool \in Runner
    PROVE  DispatchInv'
<1> DEFINE c == [did[t] EXCEPT !.act = CommandOf(t)]
           e == [did[t] EXCEPT !.ran = TRUE, !.act = CommandOf(t)]
           R == [c EXCEPT !.ran = TRUE]
           X == [c EXCEPT !.ran = TRUE, !.failed = TRUE]
           F == [did[t] EXCEPT !.failed = TRUE]
<1>1. /\ pc[t] = "handler" /\ UNCHANGED out
      /\ \/ Answer(t, "exit0", e)
         \/ Answer(t, "exitN", [e EXCEPT !.failed = TRUE])
         \/ Answer(t, "exitN", F)
  BY DEF Executes, Answer
<1>2. Base(t, did[t]) /\ Base(t, c) /\ did[t] \in Effect
  BY <1>1, CommandBase DEF DispatchInv, TypeOK
<1>3. e = R /\ [e EXCEPT !.failed = TRUE] = X
  <2> HIDE DEF CommandOf
  <2> QED  BY <1>2 DEF Effect
<1>4. /\ Quiet(t, R) /\ R.ran /\ ~R.failed /\ ~R.down
      /\ Quiet(t, X) /\ X.failed /\ Quiet(t, F) /\ F.failed
  <2> HIDE DEF c
  <2> QED  BY <1>2, QuietIs
<1>5. /\ "exit0" \in Result /\ "exitN" \in Result
      /\ call[t].tool \in Exec /\ call[t].tool # "remote"
  BY DEF Result, Exec, Runner, Shell
<1> HIDE DEF e, R, X, F
<1>6. CASE Answer(t, "exit0", R)
  BY <1>1, <1>4, <1>5, <1>6, QuietStep
<1>7. CASE Answer(t, "exitN", X)
  BY <1>1, <1>4, <1>5, <1>7, QuietStep
<1>8. CASE Answer(t, "exitN", F)
  BY <1>1, <1>4, <1>5, <1>8, QuietStep
<1> QED  BY <1>1, <1>3, <1>6, <1>7, <1>8

(* td_bash and td_execute_script, whose answer may begin "refused:".        *)
LEMMA RunCommandStep ==
    ASSUME DispatchInv, NEW t \in Thread, RunCommand(t) PROVE DispatchInv'
<1> DEFINE e == [did[t] EXCEPT !.act = CommandOf(t)]
           F == [did[t] EXCEPT !.failed = TRUE]
           R(failed) == [e EXCEPT !.ran = TRUE, !.failed = failed]
<1>1. call[t].tool \in Shell /\ call[t].tool \in Runner /\ call[t].tool # "remote"
      /\ "refused:" \in Result
  BY DEF RunCommand, Runner, Shell, Result
<1>2. CASE /\ UNCHANGED out
           /\ \/ Answer(t, "refused:", F)
              \/ \E failed \in BOOLEAN : Answer(t, "refused:", R(failed))
              \/ Loses(t, e)
  <2>1. pc[t] = "handler"
    BY <1>2 DEF Answer, Loses
  <2>2. Base(t, did[t]) /\ Base(t, e)
    BY <1>1, <2>1, CommandBase
  <2>3. Quiet(t, F) /\ F.failed
    BY <2>2, QuietIs
  <2>4. ASSUME NEW failed \in BOOLEAN PROVE Quiet(t, R(failed)) /\ R(failed).ran
    <3> HIDE DEF e
    <3> QED  BY <2>2 DEF Base, Quiet, Effect
  <2> HIDE DEF e, F, R
  <2> QED  BY <1>1, <1>2, <2>2, <2>3, <2>4, QuietStep, CommonStep
<1> QED  BY <1>1, <1>2, FailStep, ExecutesStep DEF RunCommand

(* td_run_tests.                                                            *)
LEMMA RunTestsStep ==
    ASSUME DispatchInv, NEW t \in Thread, td_run_tests(t) PROVE DispatchInv'
<1> DEFINE e == [did[t] EXCEPT !.ran = TRUE, !.failed = TRUE, !.act = CommandOf(t)]
           c == [did[t] EXCEPT !.act = CommandOf(t)]
           X == [c EXCEPT !.ran = TRUE, !.failed = TRUE]
<1>1. call[t].tool \in Runner /\ call[t].tool # "remote" /\ "error:" \in Result
  BY DEF td_run_tests, Runner, Result
<1>2. CASE Answer(t, "error:", e) /\ UNCHANGED out
  <2>1. pc[t] = "handler"
    BY <1>2 DEF Answer
  <2>2. Base(t, c) /\ did[t] \in Effect
    BY <1>1, <2>1, CommandBase DEF DispatchInv, TypeOK
  <2>3. e = X
    <3> HIDE DEF CommandOf
    <3> QED  BY <2>2 DEF Effect
  <2>4. Quiet(t, X) /\ X.failed
    <3> HIDE DEF c
    <3> QED  BY <2>2, QuietIs
  <2> HIDE DEF e, X
  <2> QED  BY <1>1, <1>2, <2>3, <2>4, QuietStep
<1> QED  BY <1>1, <1>2, FailStep, ExecutesStep DEF td_run_tests

(* The path a handler acts on.                                              *)
LEMMA PathType ==
    ASSUME DispatchInv, NEW t \in Thread
    PROVE  args[t]["path"] \in {None, "asked", "rewritten"}
  BY DEF DispatchInv, TypeOK, Args, Field

(* td_read_file, td_list_files, td_grep and td_test.                        *)
LEMMA ReadStep ==
    ASSUME DispatchInv, NEW t \in Thread,
           td_read_file(t) \/ td_list_files(t) \/ td_grep(t) \/ td_test(t)
    PROVE  DispatchInv'
<1> DEFINE p == args[t]["path"]
           e == [did[t] EXCEPT !.act = p]
           A == [e EXCEPT !.ran = TRUE, !.read = TRUE]
           B == [e EXCEPT !.ran = TRUE]
<1>1. /\ call[t].tool \in {"read_file", "list_files", "grep", "test"}
      /\ \/ Fail(t)
         \/ /\ UNCHANGED out
            /\ \/ Answer(t, "text", A) \/ Answer(t, "error:", B) \/ Answer(t, "text", B)
               \/ Looks(t, e) \/ Loses(t, e)
               \/ InWords(t, e) /\ Unmarked(call[t])
  <2>1. CASE td_read_file(t)
    BY <2>1 DEF td_read_file
  <2>2. CASE td_list_files(t)
    BY <2>2 DEF td_list_files
  <2>3. CASE td_grep(t)
    BY <2>3 DEF td_grep, Unmarked
  <2>4. CASE td_test(t)
    BY <2>4 DEF td_test
  <2> QED  BY <2>1, <2>2, <2>3, <2>4
<1>2. call[t].tool # "remote" /\ call[t].tool \notin {"process", "verify"}
      /\ p \in Target(t) /\ p \in {None, "asked", "rewritten"}
  BY <1>1, PathType DEF Target, Runner, Shell
<1>3. CASE Fail(t)
  BY <1>2, <1>3, FailStep
<1>4. CASE ~Fail(t)
  <2>1. pc[t] = "handler"
    BY <1>1, <1>4 DEF Answer, Looks, HandsOn, Loses, InWords
  <2> HIDE DEF p
  <2>2. p \in (Target(t) \cup {None}) \cap {None, "asked", "rewritten", "index", "cwd"}
        /\ TRUE \in BOOLEAN /\ {} \in SUBSET Guard
    BY <1>2
  <2>3. Base(t, e)
    BY <1>2, <2>1, <2>2, BaseIs
  <2> HIDE DEF e
  <2>4. Quiet(t, A) /\ A.ran /\ ~A.failed /\ ~A.down /\ Quiet(t, B) /\ B.ran
    BY <2>3, QuietIs
  <2>5. CASE Answer(t, "text", A) \/ Answer(t, "error:", B)
    <3>1. "text" \in Result /\ "error:" \in Result
      BY DEF Result
    <3> HIDE DEF A, B
    <3> QED  BY <1>1, <1>2, <1>4, <2>4, <2>5, <3>1, QuietStep
  <2>6. CASE \/ Answer(t, "text", B) \/ Looks(t, e) \/ Loses(t, e)
             \/ InWords(t, e) /\ Unmarked(call[t])
    BY <1>1, <1>2, <1>4, <2>3, <2>6, CommonStep
  <2> QED  BY <1>1, <1>4, <2>5, <2>6
<1> QED  BY <1>3, <1>4

(* td_verify and the background processes: with the parent guard in the way *)
(* nothing is left behind.                                                  *)
LEMMA VerifyStep ==
    ASSUME DispatchInv, NEW t \in Thread, NEW blocked \in SUBSET Guard, td_verify(t, blocked)
    PROVE  DispatchInv'
<1> DEFINE e == [did[t] EXCEPT !.blocked = blocked]
           L(left) == [e EXCEPT !.left = left]
           A(left) == [e EXCEPT !.ran = TRUE, !.left = left]
           B(left) == [L(left) EXCEPT !.ran = TRUE]
<1>1. /\ call[t].tool = "verify"
      /\ \/ Fail(t)
         \/ /\ UNCHANGED out
            /\ \E left \in BOOLEAN : /\ left => "parent" \notin blocked
                                     /\ Answer(t, "text", A(left)) \/ Loses(t, L(left))
  BY DEF td_verify
<1>2. CASE Fail(t)
  BY <1>1, <1>2, FailStep
<1>3. ASSUME NEW left \in BOOLEAN, left => "parent" \notin blocked, UNCHANGED out,
             Answer(t, "text", A(left)) \/ Loses(t, L(left))
      PROVE  DispatchInv'
  <2>1. pc[t] = "handler"
    BY <1>3 DEF Answer, Loses
  <2>2. did[t] \in Effect /\ None \in (Target(t) \cup {None}) \cap {None, "asked", "rewritten", "index", "cwd"}
    BY DEF DispatchInv, TypeOK
  <2>3. Base(t, L(left))
    BY <1>3, <2>1, <2>2, BaseIs
  <2>4. A(left) = B(left)
    BY <1>3, <2>2 DEF Effect
  <2> HIDE DEF L, A
  <2> QED  BY <1>1, <1>3, <2>3, <2>4, CommonStep
<1> HIDE DEF A, L
<1> QED  BY <1>1, <1>2, <1>3

(* The background processes.                                                *)
LEMMA ProcessStep ==
    ASSUME DispatchInv, NEW t \in Thread, NEW blocked \in SUBSET Guard, ProcessTool(t, blocked)
    PROVE  DispatchInv'
<1> DEFINE e == [did[t] EXCEPT !.blocked = blocked]
           L == [e EXCEPT !.ran = TRUE, !.left = TRUE]
           M == [[e EXCEPT !.left = TRUE] EXCEPT !.ran = TRUE]
<1>1. /\ call[t].tool = "process" /\ UNCHANGED out
      /\ \/ Answer(t, "error:", [e EXCEPT !.failed = TRUE])
         \/ HandsOn(t, e) \/ InWords(t, e)
         \/ Answer(t, "text", L) /\ "parent" \notin blocked
  BY DEF ProcessTool
<1>2. pc[t] = "handler"
  BY <1>1 DEF Answer, HandsOn, InWords
<1>3. did[t] \in Effect /\ FALSE \in BOOLEAN /\ TRUE \in BOOLEAN
      /\ None \in (Target(t) \cup {None}) \cap {None, "asked", "rewritten", "index", "cwd"}
  BY DEF DispatchInv, TypeOK
<1>4. Base(t, e)
  BY <1>2, <1>3, BaseIs
<1>5. "parent" \notin blocked => Base(t, [e EXCEPT !.left = TRUE])
  BY <1>2, <1>3, BaseIs
<1>6. L = M /\ Unmarked(call[t]) /\ call[t].tool # "remote"
  BY <1>1, <1>3 DEF Effect, Unmarked
<1>7. CASE \/ Answer(t, "error:", [e EXCEPT !.failed = TRUE]) \/ HandsOn(t, e) \/ InWords(t, e)
  <2> HIDE DEF e
  <2> QED  BY <1>1, <1>4, <1>6, <1>7, CommonStep
<1>8. CASE Answer(t, "text", L) /\ "parent" \notin blocked
  <2> DEFINE f == [e EXCEPT !.left = TRUE]
  <2>1. Base(t, f) /\ Answer(t, "text", [f EXCEPT !.ran = TRUE])
    BY <1>5, <1>6, <1>8
  <2> HIDE DEF f
  <2> QED  BY <1>1, <1>6, <2>1, CommonStep
<1> QED  BY <1>1, <1>7, <1>8

(* td_git_log, td_git_diff, td_git_status and td_git_write act on the       *)
(* repository that was named, or on the session's own.                      *)
LEMMA GitStep ==
    ASSUME DispatchInv, NEW t \in Thread, GitShow(t) \/ td_git_write(t) PROVE DispatchInv'
<1> DEFINE p == RepoOf(t)
           e == [did[t] EXCEPT !.act = p]
           L(left) == [e EXCEPT !.left = left]
<1>1. /\ call[t].tool \in {"git_show", "git_write"} /\ UNCHANGED out
      /\ \/ Looks(t, e) \/ InWords(t, e) \/ SaysDown(t, e)
         \/ \E left \in BOOLEAN : Says(t, L(left)) \/ InWords(t, L(left))
  BY DEF GitShow, td_git_write
<1>2. pc[t] = "handler"
  BY <1>1 DEF Answer, Looks, HandsOn, InWords, SaysDown, Says
<1>3. p \in Target(t) /\ p \in {"asked", "rewritten", "cwd"}
  BY <1>1, PathType DEF RepoOf, Target, Runner, Shell
<1> HIDE DEF p
<1>4. p \in (Target(t) \cup {None}) \cap {None, "asked", "rewritten", "index", "cwd"}
      /\ {} \in SUBSET Guard /\ TRUE \in BOOLEAN /\ call[t].tool \notin {"process", "verify"}
      /\ Unmarked(call[t]) /\ call[t].tool # "remote"
  BY <1>1, <1>3 DEF Unmarked
<1>5. Base(t, e) /\ \A left \in BOOLEAN : Base(t, L(left))
  BY <1>2, <1>4, BaseIs
<1> HIDE DEF e, L
<1> QED  BY <1>1, <1>4, <1>5, CommonStep

(* The tools that ask a service, an index or a store.                       *)
LEMMA AskStep ==
    ASSUME DispatchInv, NEW t \in Thread,
           \/ td_mcp_tool(t) \/ LookupTool(t) \/ td_search_docs(t) \/ td_tool_output_get(t)
           \/ NoteTool(t) \/ ProposeTool(t) \/ ClarifyTool(t) \/ DiagnoseTool(t)
    PROVE  DispatchInv'
<1> DEFINE e == did[t]
           L(left) == [e EXCEPT !.left = left]
           A == [e EXCEPT !.ran = TRUE]
           B(left) == [e EXCEPT !.ran = TRUE, !.left = left]
           D == [e EXCEPT !.ran = TRUE, !.down = TRUE]
<1>1. /\ call[t].tool \in {"mcp", "lookup", "search_docs", "tool_output_get", "note", "propose",
                          "clarify", "diagnose"}
      /\ \/ Fail(t)
         \/ /\ UNCHANGED out
            /\ \/ Says(t, e) \/ HandsOn(t, e) \/ SaysDown(t, e) \/ Answer(t, "text", A)
               \/ InWords(t, e) /\ Unmarked(call[t])
               \/ Answer(t, "text", D) /\ Unmarked(call[t])
               \/ \E left \in BOOLEAN :
                    \/ Says(t, L(left)) \/ SaysDown(t, L(left)) \/ Loses(t, L(left))
                    \/ InWords(t, L(left)) /\ Unmarked(call[t])
                    \/ Answer(t, "text", B(left))
  <2>1. TRUE \in BOOLEAN
    OBVIOUS
  <2>2. CASE td_mcp_tool(t) \/ LookupTool(t)
    BY <2>2 DEF td_mcp_tool, LookupTool, Unmarked
  <2>3. CASE td_search_docs(t) \/ td_tool_output_get(t)
    BY <2>3 DEF td_search_docs, td_tool_output_get
  <2>4. CASE NoteTool(t) \/ ProposeTool(t)
    BY <2>4 DEF NoteTool, ProposeTool, Asks, NoResponse, Unmarked
  <2>5. CASE ClarifyTool(t) \/ DiagnoseTool(t)
    BY <2>1, <2>5 DEF ClarifyTool, DiagnoseTool, Records
  <2> QED  BY <2>2, <2>3, <2>4, <2>5
<1>2. /\ call[t].tool # "remote" /\ call[t].tool \notin {"process", "verify"}
      /\ {} \in SUBSET Guard /\ TRUE \in BOOLEAN
      /\ None \in (Target(t) \cup {None}) \cap {None, "asked", "rewritten", "index", "cwd"}
  BY <1>1 DEF Guard
<1>3. CASE Fail(t)
  BY <1>2, <1>3, FailStep
<1>4. CASE ~Fail(t)
  <2>1. pc[t] = "handler"
    BY <1>1, <1>4 DEF Answer, Says, HandsOn, SaysDown, InWords, Loses
  <2>2. Base(t, e) /\ \A left \in BOOLEAN : Base(t, L(left))
    BY <1>2, <2>1, BaseIs
  <2>3. \A left \in BOOLEAN : B(left) = [L(left) EXCEPT !.ran = TRUE]
    BY DEF DispatchInv, TypeOK, Effect
  <2>4. Quiet(t, D) /\ D.ran
    BY <2>2, QuietIs
  <2>5. "text" \in Result
    BY DEF Result
  <2> HIDE DEF e, L, B
  <2>6. CASE Answer(t, "text", D) /\ Unmarked(call[t])
    <3> HIDE DEF D
    <3> QED  BY <1>1, <1>2, <1>4, <2>4, <2>5, <2>6, QuietStep
  <2>7. CASE \/ Says(t, e) \/ HandsOn(t, e) \/ SaysDown(t, e) \/ Answer(t, "text", A)
             \/ InWords(t, e) /\ Unmarked(call[t])
    BY <1>1, <1>2, <1>4, <2>2, <2>7, CommonStep
  <2>8. ASSUME NEW left \in BOOLEAN,
               \/ Says(t, L(left)) \/ SaysDown(t, L(left)) \/ Loses(t, L(left))
               \/ InWords(t, L(left)) /\ Unmarked(call[t])
               \/ Answer(t, "text", B(left))
        PROVE  DispatchInv'
    BY <1>1, <1>2, <1>4, <2>2, <2>3, <2>8, CommonStep
  <2> QED  BY <1>1, <1>4, <2>6, <2>7, <2>8
<1> QED  BY <1>3, <1>4

-----------------------------------------------------------------------------
(* The handlers that write files.                                           *)

(* td_write_file and td_edit_file: the snapshot is asked for before the     *)
(* write, and only with no guard in the way.                                *)
LEMMA WriteStep ==
    ASSUME DispatchInv, NEW t \in Thread, NEW blocked \in SUBSET Guard,
           td_write_file(t, blocked) \/ td_edit_file(t, blocked)
    PROVE  DispatchInv'
<1> DEFINE p == args[t]["path"]
           e(s) == Tried(t, blocked, s)
           W(s, kept) == [e(s) EXCEPT !.wrote = TRUE, !.recorded = kept]
           F(s, wrote) == [e(s) EXCEPT !.failed = TRUE, !.wrote = wrote]
           N(s) == [e(s) EXCEPT !.failed = TRUE]
<1>1. /\ call[t].tool \in {"write_file", "edit_file"}
      /\ \/ Fail(t)
         \/ /\ UNCHANGED out
            /\ \E s \in Captures(t) :
                 \/ /\ TakesSnapshot(t) /\ blocked = {}
                    /\ \/ \E kept \in {"failed", "kept"} : Answer(t, "text", W(s, kept))
                       \/ \E wrote \in BOOLEAN : Answer(t, "error:", F(s, wrote))
                 \/ Unmarked(call[t]) /\ Answer(t, "text", N(s))
                 \/ Answer(t, "text", e(s)) \/ Answer(t, "error:", N(s))
  <2>1. CASE td_write_file(t, blocked)
    BY <2>1 DEF td_write_file, Written, TakesSnapshot
  <2>2. CASE td_edit_file(t, blocked)
    BY <2>2 DEF td_edit_file, Written, TakesSnapshot, InWords, Unmarked
  <2> QED  BY <2>1, <2>2
<1>2. call[t].tool # "remote" /\ p \in Target(t) /\ p \in {None, "asked", "rewritten"}
  BY <1>1, PathType DEF Target, Runner, Shell
<1>3. ASSUME pc[t] = "handler", NEW s \in Captures(t)
      PROVE  /\ TakesSnapshot(t) /\ blocked = {} =>
                  /\ \A kept \in {"failed", "kept"} : Sound(t, "text", W(s, kept))
                  /\ \A wrote \in BOOLEAN : Sound(t, "error:", F(s, wrote))
             /\ Unmarked(call[t]) => Sound(t, "text", N(s))
             /\ Sound(t, "text", e(s)) /\ Sound(t, "error:", N(s))
  <2>1. Clean(did[t])
    BY <1>3, CleanIs
  <2>2. s \in Attempt /\ (TakesSnapshot(t) => s # "none")
    BY <1>3 DEF Captures, Attempt
  <2> HIDE DEF p
  <2> HIDE DEF TakesSnapshot
  <2>3. /\ e(s) \in Effect /\ e(s).ran /\ ~e(s).failed /\ ~e(s).down /\ ~e(s).wrote
        /\ e(s).recorded = "none"
        /\ e(s).act = p /\ e(s).blocked = blocked /\ ~e(s).left /\ e(s).snapshot = s
        /\ e(s).redirect = did[t].redirect /\ (e(s).shown <=> did[t].shown)
    BY <1>2, <2>1, <2>2 DEF Clean, Effect, Tried, p
  <2> DEFINE x == e(s)
  <2> HIDE DEF x
  <2>4. /\ x \in Effect /\ x.ran /\ ~x.failed /\ ~x.down /\ ~x.wrote /\ x.recorded = "none"
        /\ x.act = p /\ x.blocked = blocked /\ ~x.left /\ x.snapshot = s
        /\ x.redirect = did[t].redirect /\ (x.shown <=> did[t].shown)
    BY <2>3 DEF x
  <2>5. Sound(t, "error:", [x EXCEPT !.failed = TRUE])
    BY <1>1, <1>2, <2>4 DEF Sound, Effect, Result, Tracked
  <2>6. Sound(t, "text", x)
    BY <1>1, <1>2, <2>4 DEF Sound, Result, Tracked
  <2>7. Unmarked(call[t]) => Sound(t, "text", [x EXCEPT !.failed = TRUE])
    BY <1>1, <1>2, <2>4 DEF Sound, Effect, Result, Tracked
  <2>8. ASSUME TakesSnapshot(t), blocked = {}, NEW kept \in {"failed", "kept"}
        PROVE  Sound(t, "text", [x EXCEPT !.wrote = TRUE, !.recorded = kept])
    BY <1>1, <1>2, <2>2, <2>4, <2>8 DEF Sound, Effect, Attempt, Result, Tracked
  <2>9. ASSUME TakesSnapshot(t), blocked = {}, NEW wrote \in BOOLEAN
        PROVE  Sound(t, "error:", [x EXCEPT !.failed = TRUE, !.wrote = wrote])
    BY <1>1, <1>2, <2>2, <2>4, <2>9 DEF Sound, Effect, Attempt, Result, Tracked
  <2> QED  BY <2>5, <2>6, <2>7, <2>8, <2>9 DEF x
<1>4. CASE Fail(t)
  BY <1>2, <1>4, FailStep
<1>5. CASE ~Fail(t)
  <2>1. pc[t] = "handler"
    BY <1>1, <1>5 DEF Answer
  <2> HIDE DEF e, W, F, N
  <2> QED  BY <1>1, <1>2, <1>3, <1>5, <2>1, SoundStep
<1> QED  BY <1>4, <1>5

(* td_edit_symbol, whose path may come from the index.                      *)
LEMMA EditSymbolStep ==
    ASSUME DispatchInv, NEW t \in Thread, NEW blocked \in SUBSET Guard, td_edit_symbol(t, blocked)
    PROVE  DispatchInv'
<1> DEFINE p == args[t]["path"]
           act == IF p = None THEN "index" ELSE p
           e == [did[t] EXCEPT !.ran = TRUE, !.blocked = blocked, !.act = act]
           Kept == IF p = None THEN {"none"} ELSE {"failed", "kept"}
           W(kept) == [e EXCEPT !.wrote = TRUE, !.recorded = kept]
           N(kept) == [[e EXCEPT !.recorded = kept] EXCEPT !.failed = TRUE]
           F(wrote) == [e EXCEPT !.failed = TRUE, !.wrote = wrote]
<1>1. /\ call[t].tool = "edit_symbol"
      /\ \/ Fail(t)
         \/ /\ UNCHANGED out /\ "readonly" \notin blocked
            /\ \/ \E kept \in Kept : \/ Answer(t, "text", W(kept)) /\ "parent" \notin blocked
                                     \/ Answer(t, "text", N(kept))
               \/ \E wrote \in BOOLEAN :
                    (wrote => "parent" \notin blocked) /\ Answer(t, "error:", F(wrote))
  BY DEF td_edit_symbol, InWords
<1>2. act \in Target(t) /\ act \in {"asked", "rewritten", "index"} /\ Unmarked(call[t])
  BY <1>1, PathType DEF Target, Runner, Shell, Unmarked
<1>3. Kept \subseteq Attempt /\ (act # "index" => "none" \notin Kept)
  BY <1>2 DEF Attempt
<1>4. ASSUME pc[t] = "handler", "readonly" \notin blocked
      PROVE  /\ \A kept \in Kept : /\ "parent" \notin blocked => Sound(t, "text", W(kept))
                                   /\ Sound(t, "text", N(kept))
             /\ \A wrote \in BOOLEAN :
                  (wrote => "parent" \notin blocked) => Sound(t, "error:", F(wrote))
  <2>1. Clean(did[t])
    BY <1>4, CleanIs
  <2> HIDE DEF act, p, Kept
  <2>2. /\ e \in Effect /\ e.ran /\ ~e.failed /\ ~e.down /\ ~e.wrote /\ e.recorded = "none"
        /\ e.act = act /\ e.blocked = blocked /\ ~e.left /\ e.snapshot = "none"
        /\ e.redirect = did[t].redirect /\ (e.shown <=> did[t].shown)
    BY <1>2, <2>1 DEF Clean, Effect
  <2> HIDE DEF e
  <2>3. "parent" \notin blocked => {"readonly", "parent"} \cap blocked = {}
    BY <1>4
  <2>4. ASSUME NEW kept \in Kept, "parent" \notin blocked PROVE Sound(t, "text", W(kept))
    <3>1. W(kept) \in Effect
      BY <1>3, <2>2, <2>4 DEF Effect
    <3>2. /\ W(kept).ran /\ ~W(kept).failed /\ ~W(kept).down /\ W(kept).act = act
          /\ W(kept).recorded = kept /\ W(kept).blocked = blocked
          /\ W(kept).redirect = did[t].redirect /\ (W(kept).shown <=> did[t].shown)
      BY <2>2 DEF Effect
    <3>3. act # "index" => kept # "none"
      BY <1>3, <2>4
    <3> HIDE DEF W
    <3> QED  BY <1>1, <1>2, <2>3, <2>4, <3>1, <3>2, <3>3 DEF Sound, Result, Tracked
  <2>5. ASSUME NEW kept \in Kept PROVE Sound(t, "text", N(kept))
    BY <1>1, <1>2, <1>3, <2>2, <2>5 DEF Sound, Effect, Result, Tracked
  <2>6. ASSUME NEW wrote \in BOOLEAN, wrote => "parent" \notin blocked
        PROVE  Sound(t, "error:", F(wrote))
    <3>1. F(wrote) \in Effect
      BY <2>2, <2>6 DEF Effect
    <3>2. /\ F(wrote).ran /\ F(wrote).failed /\ (F(wrote).wrote <=> wrote) /\ F(wrote).act = act
          /\ F(wrote).recorded = "none" /\ F(wrote).blocked = blocked
          /\ F(wrote).redirect = did[t].redirect /\ (F(wrote).shown <=> did[t].shown)
      BY <2>2 DEF Effect
    <3> HIDE DEF F
    <3> QED  BY <1>1, <1>2, <2>3, <2>6, <3>1, <3>2 DEF Sound, Result, Tracked
  <2> QED  BY <2>4, <2>5, <2>6
<1>5. CASE Fail(t)
  BY <1>1, <1>5, FailStep
<1>6. CASE ~Fail(t)
  <2>1. pc[t] = "handler"
    BY <1>1, <1>6 DEF Answer
  <2> HIDE DEF W, N, F, Kept
  <2> QED  BY <1>1, <1>4, <1>6, <2>1, SoundStep
<1> QED  BY <1>5, <1>6

-----------------------------------------------------------------------------
(* The other handlers, and all of them.                                     *)

(* A namespaced tool reports its transport.                                 *)
LEMMA RemoteStep ==
    ASSUME DispatchInv, NEW t \in Thread, RemoteTool(t) PROVE DispatchInv'
<1> DEFINE R == [did[t] EXCEPT !.ran = TRUE]
           L == [did[t] EXCEPT !.ran = TRUE, !.failed = TRUE]
           F == [did[t] EXCEPT !.failed = TRUE]
<1>1. PICK m \in Mode \ {"internal"} :
         \/ /\ PutOutcome(t, [OutcomeOf(t) EXCEPT !.mode = m])
            /\ Answer(t, "text", R) \/ Answer(t, "lost", L)
         \/ /\ PutOutcome(t, td_outcome_set([OutcomeOf(t) EXCEPT !.mode = m],
                                            "error", "tool_error"))
            /\ Answer(t, "error:", F)
  BY DEF RemoteTool, Loses
<1>2. call[t].tool = "remote" /\ pc[t] = "handler"
  BY <1>1 DEF RemoteTool, Answer
<1>3. out \in [Thread -> Carriers] /\ out[t] = Fresh
  BY <1>2 DEF DispatchInv, TypeOK, ThreadInv, Handling
<1>4. Clean(did[t])
  BY <1>2, CleanIs
<1>5. Sound(t, "text", R) /\ Sound(t, "lost", L) /\ Sound(t, "error:", F)
  <2>1. Sound(t, "text", R)
    BY <1>2, <1>4 DEF Sound, Clean, Effect, Result, Tracked
  <2>2. Sound(t, "lost", L)
    BY <1>2, <1>4 DEF Sound, Clean, Effect, Result, Tracked
  <2>3. Sound(t, "error:", F)
    BY <1>2, <1>4 DEF Sound, Clean, Effect, Result, Tracked
  <2> QED  BY <2>1, <2>2, <2>3
<1>6. CASE /\ PutOutcome(t, [OutcomeOf(t) EXCEPT !.mode = m])
           /\ Answer(t, "text", R) \/ Answer(t, "lost", L)
  <2> DEFINE o == [Fresh EXCEPT !.mode = m]
  <2>1. o \in Carriers
    BY EffectType DEF Carriers
  <2>2. o.verdict = "ok" /\ ~o.explicit /\ o.mode # "internal"
    BY DEF Fresh
  <2>3. out' = [out EXCEPT ![t] = o]
    BY <1>3, <1>6 DEF PutOutcome, OutcomeOf, Carrier
  <2> HIDE DEF o, R, L
  <2>4. out' \in [Thread -> Carriers] /\ out'[t] = o /\ \A u \in Thread : u # t => out'[u] = out[u]
    BY <1>3, <2>1, <2>3
  <2> QED  BY <1>2, <1>5, <1>6, <2>1, <2>2, <2>4, AnswerStep
<1>7. CASE /\ PutOutcome(t, td_outcome_set([OutcomeOf(t) EXCEPT !.mode = m],
                                           "error", "tool_error"))
           /\ Answer(t, "error:", F)
  <2> DEFINE o == td_outcome_set([Fresh EXCEPT !.mode = m], "error", "tool_error")
  <2>1. o \in Carriers
    BY EffectType DEF Carriers, td_outcome_set, Verdict, Reason
  <2>2. o.verdict = "error" /\ o.explicit /\ o.mode # "internal"
    BY DEF Fresh, td_outcome_set
  <2>3. out' = [out EXCEPT ![t] = o]
    BY <1>3, <1>7 DEF PutOutcome, OutcomeOf, Carrier
  <2> HIDE DEF o, F
  <2>4. out' \in [Thread -> Carriers] /\ out'[t] = o /\ \A u \in Thread : u # t => out'[u] = out[u]
    BY <1>3, <2>1, <2>3
  <2> QED  BY <1>2, <1>5, <1>7, <2>1, <2>2, <2>4, AnswerStep
<1> QED  BY <1>1, <1>6, <1>7

(* A name that is in no table.                                              *)
LEMMA UnknownStep ==
    ASSUME DispatchInv, NEW t \in Thread, UnknownTool(t) PROVE DispatchInv'
<1>1. pc[t] = "handler" /\ Return(t, "error", "unknown_tool")
  BY DEF UnknownTool
<1>2. out[t] = Fresh /\ hooks[t] = "started"
  BY <1>1 DEF DispatchInv, ThreadInv, Handling, Hooked
<1>3. did[t] = [NoEffect EXCEPT !.redirect = did[t].redirect, !.shown = did[t].shown]
  <2>1. did[t] = [NoEffect EXCEPT !.redirect = did[t].redirect, !.shown = guardrail_input_json(t)]
    BY <1>1 DEF DispatchInv, ThreadInv, Handling
  <2> HIDE DEF guardrail_input_json
  <2> QED  BY <2>1 DEF NoEffect
<1> QED  BY <1>1, <1>2, <1>3, ReturnStep DEF Verdict, Reason

(* All the handlers.                                                        *)
LEMMA HandlerStep ==
    ASSUME DispatchInv, NEW t \in Thread, Handler(t) PROVE DispatchInv'
<1>1. CASE \E blocked \in SUBSET Guard :
            \/ td_write_file(t, blocked) \/ td_edit_file(t, blocked) \/ td_edit_symbol(t, blocked)
            \/ td_verify(t, blocked) \/ ProcessTool(t, blocked)
  BY <1>1, WriteStep, EditSymbolStep, VerifyStep, ProcessStep
<1> QED  BY <1>1, RunCommandStep, RunTestsStep, ReadStep, GitStep, AskStep, RemoteStep, UnknownStep
         DEF Handler

(* No handler fires an event of the wrapper.                                *)
LEMMA HandlerHooks ==
    ASSUME NEW t \in Thread, Handler(t) PROVE UNCHANGED hooks
<1>1. CASE \E r, e : Answer(t, r, e)
  BY <1>1 DEF Answer
<1>2. \A e : \/ Loses(t, e) \/ HandsOn(t, e) \/ InWords(t, e) \/ Says(t, e) \/ SaysDown(t, e)
             \/ Looks(t, e) \/ Written(t, e) \/ NoResponse(t, e) \/ Fail(t)
             => \E r, f : Answer(t, r, f)
  BY DEF Loses, HandsOn, InWords, Says, SaysDown, Looks, Written, NoResponse, Fail
<1>3. CASE RunCommand(t) \/ td_run_tests(t)
  BY <1>1, <1>2, <1>3 DEF RunCommand, td_run_tests, Executes
<1>4. CASE td_read_file(t) \/ td_list_files(t) \/ td_grep(t) \/ td_test(t)
  BY <1>1, <1>2, <1>4 DEF td_read_file, td_list_files, td_grep, td_test
<1>5. CASE GitShow(t) \/ td_git_write(t) \/ td_mcp_tool(t) \/ LookupTool(t)
  BY <1>1, <1>2, <1>5 DEF GitShow, td_git_write, td_mcp_tool, LookupTool
<1>6. CASE td_search_docs(t) \/ td_tool_output_get(t) \/ NoteTool(t) \/ ProposeTool(t)
  BY <1>1, <1>2, <1>6 DEF td_search_docs, td_tool_output_get, NoteTool, ProposeTool, Asks
<1>7. CASE ClarifyTool(t) \/ DiagnoseTool(t) \/ RemoteTool(t)
  BY <1>1, <1>2, <1>7 DEF ClarifyTool, DiagnoseTool, Records, RemoteTool
<1>8. CASE UnknownTool(t)
  BY <1>8 DEF UnknownTool, Return
<1>9. ASSUME NEW blocked,
             \/ td_write_file(t, blocked) \/ td_edit_file(t, blocked) \/ td_edit_symbol(t, blocked)
             \/ td_verify(t, blocked) \/ ProcessTool(t, blocked)
      PROVE  UNCHANGED hooks
  BY <1>1, <1>2, <1>9 DEF td_write_file, td_edit_file, td_edit_symbol, td_verify, ProcessTool
<1> QED  BY <1>3, <1>4, <1>5, <1>6, <1>7, <1>8, <1>9 DEF Handler

-----------------------------------------------------------------------------
(* The steps around the handler.                                            *)

(* A call begins: carriers, effect and arguments are its own.               *)
LEMMA StartStep ==
    ASSUME DispatchInv, NEW t \in Thread, NEW c \in Calls, Start(t, c) PROVE DispatchInv'
<1>1. /\ pc' = [pc EXCEPT ![t] = "parse"] /\ hooks' = [hooks EXCEPT ![t] = "started"]
      /\ call' = [call EXCEPT ![t] = c] /\ args' = [args EXCEPT ![t] = c.args]
      /\ out' = [out EXCEPT ![t] = Fresh] /\ did' = [did EXCEPT ![t] = NoEffect]
      /\ UNCHANGED <<result, audit>>
  BY DEF Start, agent_tools_emit_tool_event, PutOutcome, td_outcome_reset, Carrier
<1>2. TypeOK
  BY DEF DispatchInv
<1>3. c \in Call /\ c.args \in Args
  BY DispatchAssumption DEF Call, Args
<1>4. NoEffect.act = None
  BY DEF NoEffect
<1>5. TypeOK'
  BY <1>1, <1>2, <1>3, EffectType DEF TypeOK
<1>6. /\ pc'[t] = "parse" /\ call'[t] = c /\ args'[t] = c.args /\ out'[t] = Fresh
      /\ did'[t] = NoEffect /\ hooks'[t] = "started"
  BY <1>1, <1>2 DEF TypeOK
<1>7. Waiting(t)'
  BY <1>6 DEF Waiting
<1>8. ThreadInv(t)'
  <2>1. None # "asked"
    BY DispatchAssumption
  <2> QED  BY <1>4, <1>6, <1>7, <2>1 DEF ThreadInv, Audited, Hooked
<1> QED  BY <1>1, <1>2, <1>5, <1>8, ThreadStep DEF TypeOK

(* What a call in front of the guardrail has done: nothing.                 *)
LEMMA WaitingReturn ==
    ASSUME DispatchInv, NEW t \in Thread, pc[t] \in {"parse", "gates", "guardrail"},
           NEW v \in Verdict \ {"ok"}, NEW r \in Reason, Return(t, v, r)
    PROVE  DispatchInv'
<1>1. out[t] = Fresh /\ did[t] = NoEffect /\ hooks[t] = "started"
  BY DEF DispatchInv, ThreadInv, Waiting, Hooked
<1>2. did[t] = [NoEffect EXCEPT !.redirect = did[t].redirect, !.shown = did[t].shown]
  BY <1>1 DEF NoEffect
<1> QED  BY <1>1, <1>2, ReturnStep

(* Malformed arguments and cancelled jobs end the call; the aliases of the  *)
(* others are renamed.                                                      *)
LEMMA ParseArgsStep ==
    ASSUME DispatchInv, NEW t \in Thread, ParseArgs(t) PROVE DispatchInv'
<1>1. pc[t] = "parse" /\ Waiting(t) /\ TypeOK /\ hooks[t] = "started"
  BY DEF ParseArgs, DispatchInv, ThreadInv, Hooked
<1>2. CASE Return(t, "error", "bad_args") \/ Return(t, "refused", "cancelled")
  BY <1>1, <1>2, WaitingReturn DEF Verdict, Reason
<1>3. CASE /\ args' = [args EXCEPT ![t] = Normalise(@)]
           /\ Proceed(t, "gates") /\ UNCHANGED did
  <2>1. /\ pc' = [pc EXCEPT ![t] = "gates"] /\ args' = [args EXCEPT ![t] = Normalise(args[t])]
        /\ UNCHANGED <<call, out, result, hooks, audit, did>>
    BY <1>1, <1>3 DEF Proceed, TypeOK
  <2>2. Normalise(args[t]) \in Args
    BY <1>1, NormaliseIs DEF TypeOK
  <2>3. TypeOK'
    BY <1>1, <2>1, <2>2 DEF TypeOK
  <2>4. pc'[t] = "gates" /\ args'[t] = Normalise(args[t])
    BY <1>1, <2>1 DEF TypeOK
  <2>5. Waiting(t)'
    BY <1>1, <2>1, <2>4 DEF Waiting
  <2>6. ThreadInv(t)'
    BY <1>1, <2>1, <2>4, <2>5 DEF ThreadInv, Audited, Redirected, DispatchInv, Hooked
  <2> QED  BY <1>1, <2>1, <2>3, <2>6, ThreadStep DEF TypeOK
<1> QED  BY <1>2, <1>3 DEF ParseArgs

(* The gates before the guardrail; each may end the call with its verdict.  *)
LEMMA GatesStep ==
    ASSUME DispatchInv, NEW t \in Thread, Gates(t) PROVE DispatchInv'
<1>1. pc[t] = "gates" /\ Waiting(t) /\ TypeOK /\ hooks[t] = "started"
  BY DEF Gates, DispatchInv, ThreadInv, Hooked
<1>2. CASE \E r \in {"permission", "role", "policy"} : Return(t, "refused", r)
  BY <1>1, <1>2, WaitingReturn DEF Verdict, Reason
<1>3. CASE Proceed(t, "guardrail") /\ UNCHANGED <<args, did>>
  <2>1. /\ pc' = [pc EXCEPT ![t] = "guardrail"]
        /\ UNCHANGED <<call, args, out, result, hooks, audit, did>>
    BY <1>3 DEF Proceed
  <2>2. TypeOK' /\ pc'[t] = "guardrail"
    BY <1>1, <2>1 DEF TypeOK
  <2>3. Waiting(t)'
    BY <1>1, <2>1, <2>2 DEF Waiting
  <2>4. ThreadInv(t)'
    BY <1>1, <2>1, <2>2, <2>3 DEF ThreadInv, Audited, Redirected, DispatchInv, Hooked
  <2> QED  BY <1>1, <2>1, <2>2, <2>4, ThreadStep DEF TypeOK
<1> QED  BY <1>2, <1>3 DEF Gates

(* The guardrail passes a call on, with one of its fields rewritten or not. *)
LEMMA PassStep ==
    ASSUME DispatchInv, NEW t \in Thread, pc[t] = "guardrail", Proceed(t, "handler"),
           NEW kind \in {None, "path", "command"}, NEW b \in Args,
           args' = [args EXCEPT ![t] = b],
           did' = [did EXCEPT ![t] = [NoEffect EXCEPT !.redirect = kind,
                                                      !.shown = guardrail_input_json(t)]],
           \A f \in Field : args[t][f] = None => b[f] = None,
           OneField(call[t].args) =>
             /\ kind = "path" => b["path"] # "asked"
             /\ kind = "command" => "asked" \notin {b["command"], b["body"]}
    PROVE  DispatchInv'
<1> DEFINE g == guardrail_input_json(t)
           d == [NoEffect EXCEPT !.redirect = kind, !.shown = g]
<1>1. Waiting(t) /\ TypeOK /\ hooks[t] = "started"
  BY DEF DispatchInv, ThreadInv, Hooked
<1>2. /\ pc' = [pc EXCEPT ![t] = "handler"] /\ did' = [did EXCEPT ![t] = d]
      /\ UNCHANGED <<call, out, result, hooks, audit>>
  BY DEF Proceed
<1>3. g \in BOOLEAN /\ g' = g
  <2>1. g' = g
    BY <1>2, Zenon DEF guardrail_input_json
  <2>2. g \in BOOLEAN
    BY DEF guardrail_input_json
  <2> QED  BY <2>1, <2>2
<1> HIDE DEF g
<1>4. out[t] = Fresh /\ args[t] = Normalise(call[t].args)
  BY <1>1 DEF Waiting
<1>5. call[t].args \in Args
  BY <1>1 DEF TypeOK, Call, Args
<1>6. d \in Effect
  BY <1>3, EffectType DEF Effect
<1>7. d.redirect = kind /\ d.act = None
  BY DEF NoEffect
<1>8. d = [NoEffect EXCEPT !.redirect = d.redirect, !.shown = g]
  BY <1>7
<1> HIDE DEF d
<1>9. TypeOK'
  BY <1>1, <1>2, <1>6 DEF TypeOK
<1>10. /\ pc'[t] = "handler" /\ did'[t] = d /\ args'[t] = b /\ call'[t] = call[t]
       /\ out'[t] = Fresh /\ hooks'[t] = "started"
  BY <1>1, <1>2, <1>4 DEF TypeOK
<1>11. /\ NamesNoAlias(call[t].args) =>
            \A f \in {"path", "command", "body"} : call[t].args[f] = None => b[f] = None
       /\ (\A f \in PathFields : call[t].args[f] = None) => b["path"] = None
  <2>1. NamesNoAlias(call[t].args) => args[t] = call[t].args
    BY <1>4, <1>5, NormaliseIs
  <2>2. (\A f \in PathFields : call[t].args[f] = None) => args[t]["path"] = None
    BY <1>4, <1>5, NormaliseIs
  <2> QED  BY <2>1, <2>2 DEF Field
<1>12. Handling(t)'
  <2>1. did'[t] = [NoEffect EXCEPT !.redirect = did'[t].redirect, !.shown = guardrail_input_json(t)']
    BY <1>3, <1>8, <1>10 DEF g
  <2> QED  BY <1>7, <1>10, <1>11, <2>1 DEF Handling
<1>13. ThreadInv(t)'
  <2>1. None # "asked"
    BY DispatchAssumption
  <2> QED  BY <1>7, <1>10, <1>12, <2>1 DEF ThreadInv, Audited, Hooked
<1> QED  BY <1>1, <1>2, <1>9, <1>13, ThreadStep DEF TypeOK

(* The field that is rewritten is the one the tool will read, when the call *)
(* has one field of that kind.                                              *)
LEMMA RewriteStep ==
    ASSUME DispatchInv, NEW t \in Thread, pc[t] = "guardrail",
           NEW kind \in {"path", "command"}, NEW field \in Field, Rewrite(t, field, kind),
           OneField(call[t].args) =>
             /\ kind = "path" => field = "path"
             /\ kind = "command" => \/ field = "command" /\ args[t]["body"] = None
                                    \/ field = "body" /\ args[t]["command"] = None
    PROVE  DispatchInv'
<1> DEFINE g == guardrail_input_json(t)
           b == [args[t] EXCEPT ![field] = IF args[t][field] = None THEN None ELSE "rewritten"]
           d == [NoEffect EXCEPT !.redirect = kind, !.shown = g]
<1>1. Waiting(t) /\ args \in [Thread -> Args] /\ did \in [Thread -> Effect]
  BY DEF DispatchInv, ThreadInv, TypeOK
<1>2. did[t] = NoEffect
  BY <1>1 DEF Waiting
<1>3. args' = [args EXCEPT ![t] = b]
  BY <1>1 DEF Rewrite
<1>4. did' = [did EXCEPT ![t] = d]
  <2>1. did' = [did EXCEPT ![t].redirect = kind, ![t].shown = g]
    BY DEF Rewrite
  <2> HIDE DEF g
  <2>2. did' = [did EXCEPT ![t] = [did[t] EXCEPT !.redirect = kind, !.shown = g]]
    BY <1>1, <2>1
  <2> QED  BY <1>2, <2>2
<1>5. /\ b \in Args /\ (\A f \in Field : args[t][f] = None => b[f] = None)
      /\ b[field] # "asked" /\ \A f \in Field \ {field} : b[f] = args[t][f]
  <2>1. args[t] \in Args /\ None # "asked"
    BY <1>1, DispatchAssumption
  <2> QED  BY <2>1 DEF Args
<1>6. OneField(call[t].args) =>
        /\ kind = "path" => b["path"] # "asked"
        /\ kind = "command" => "asked" \notin {b["command"], b["body"]}
  <2>1. None # "asked"
    BY DispatchAssumption
  <2> HIDE DEF b
  <2> QED  BY <1>5, <2>1 DEF Field
<1>7. Proceed(t, "handler")
  BY DEF Rewrite
<1> HIDE DEF b
<1> QED  BY <1>3, <1>4, <1>5, <1>6, <1>7, PassStep

(* The guardrail lets the call through, refuses it or rewrites an argument. *)
LEMMA GuardrailStep ==
    ASSUME DispatchInv, NEW t \in Thread, NEW rc \in 0 .. 3, NEW msg \in BOOLEAN,
           pre_tool_check(t, rc, msg)
    PROVE  DispatchInv'
<1>1. pc[t] = "guardrail" /\ Waiting(t) /\ TypeOK
  BY DEF pre_tool_check, DispatchInv, ThreadInv
<1>2. args[t] = Normalise(call[t].args) /\ args[t] \in Args
  BY <1>1 DEF Waiting, TypeOK
<1>3. OneField(call[t].args) => /\ args[t]["file_path"] = None /\ args[t]["cmd"] = None
                                /\ args[t]["command"] = None \/ args[t]["body"] = None
  <2>1. call[t].args \in Args
    BY <1>1 DEF TypeOK, Call, Args
  <2> QED  BY <1>2, <2>1, NormaliseIs
<1>4. CASE /\ Proceed(t, "handler") /\ UNCHANGED args
           /\ did' = [did EXCEPT ![t].shown = guardrail_input_json(t)]
  <2> DEFINE g == guardrail_input_json(t)
  <2>2. did[t] = NoEffect
    BY <1>1 DEF Waiting
  <2>3. did' = [did EXCEPT ![t] = [did[t] EXCEPT !.shown = g]]
    <3> HIDE DEF g
    <3>1. did' = [did EXCEPT ![t].shown = g]
      BY <1>4 DEF g
    <3> QED  BY <1>1, <3>1 DEF TypeOK
  <2>4. [NoEffect EXCEPT !.shown = g] = [NoEffect EXCEPT !.redirect = None, !.shown = g]
    BY EffectSame
  <2>5. did' = [did EXCEPT ![t] = [NoEffect EXCEPT !.redirect = None, !.shown = g]]
    BY <2>2, <2>3, <2>4
  <2>6. args' = [args EXCEPT ![t] = args[t]]
    BY <1>1, <1>4 DEF TypeOK
  <2>7. None # "path" /\ None # "command"
    BY DispatchAssumption
  <2> HIDE DEF g
  <2> QED  BY <1>1, <1>2, <1>4, <2>5, <2>6, <2>7, PassStep DEF g
<1>5. CASE Rewrite(t, PathField(args[t]), "path")
  <2>1. PathField(args[t]) \in Field /\ (OneField(call[t].args) => PathField(args[t]) = "path")
    BY <1>3 DEF PathField, Field
  <2> QED  BY <1>1, <1>5, <2>1, RewriteStep
<1>6. CASE CommandField(args[t]) # None /\ Rewrite(t, CommandField(args[t]), "command")
  <2>1. \/ CommandField(args[t]) = "command" /\ args[t]["command"] # None
        \/ CommandField(args[t]) = "cmd" /\ args[t]["cmd"] # None
        \/ CommandField(args[t]) = "body" /\ args[t]["command"] = None
    BY <1>6 DEF CommandField
  <2>2. CommandField(args[t]) \in Field
    BY <2>1 DEF Field
  <2>3. OneField(call[t].args) =>
          \/ CommandField(args[t]) = "command" /\ args[t]["body"] = None
          \/ CommandField(args[t]) = "body" /\ args[t]["command"] = None
    BY <1>3, <2>1
  <2> QED  BY <1>1, <1>6, <2>2, <2>3, RewriteStep
<1>7. CASE Return(t, "refused", "guardrail")
  BY <1>1, <1>2, <1>7, WaitingReturn DEF Verdict, Reason
<1> QED  BY <1>4, <1>5, <1>6, <1>7 DEF pre_tool_check

(* The completion event changes nothing a call has done.                    *)
LEMMA CompletedStep ==
    ASSUME DispatchInv, NEW t \in Thread, Completed(t) PROVE DispatchInv'
<1>1. /\ UNCHANGED <<pc, call, args, out, result, audit, did>> /\ TypeOK
      /\ hooks' = [hooks EXCEPT ![t] = "completed"] /\ pc[t] = "return"
  BY DEF Completed, DispatchInv, agent_tools_emit_tool_event
<1>2. TypeOK' /\ hooks'[t] = "completed"
  BY <1>1 DEF TypeOK
<1>3. ThreadInv(t)
  BY DEF DispatchInv
<1>4. Returned(t)' /\ Accounted(t, out[t].mode)'
  BY <1>1, <1>3 DEF ThreadInv, Returned, Accounted
<1>5. Redirected(t)' /\ OneField(call'[t].args) => did'[t].act # "asked"
  BY <1>1, <1>3 DEF ThreadInv, Redirected
<1>6. ThreadInv(t)'
  BY <1>1, <1>2, <1>4, <1>5 DEF ThreadInv, Audited, Hooked
<1> QED  BY <1>1, <1>2, <1>6, ThreadStep DEF TypeOK

(* The wrapper classifies the result: the verdict it reports is ok only for *)
(* a result that says so, or for one it could not classify.                 *)
LEMMA ClassifyIs ==
    ASSUME DispatchInv, NEW t \in Thread, NEW up \in BOOLEAN, pc[t] = "return"
    PROVE  /\ Classify(t, up) \in Carriers /\ Classify(t, up).mode = out[t].mode
           /\ out[t].explicit => Classify(t, up) = out[t]
           /\ Classify(t, up).verdict = "ok" =>
                /\ ~out[t].explicit
                /\ result[t] \in {"text", "exit0", "lost"} \/ ~(up /\ call[t].tool \in Exec)
                /\ result[t] \notin {"error:", "error: timeout"}
           /\ Classify(t, up).verdict = "refused" =>
                out[t].verdict = "refused" \/ result[t] = "refused:"
<1> DEFINE o == out[t]
           r == result[t]
           x == up /\ call[t].tool \in Exec
           p == IF ~o.explicit /\ x THEN td_classify_exec_result(o, r) ELSE o
           q == ClassifyPrefix(p, r)
<1>1. o \in Carriers /\ r \in Result /\ (o.explicit <=> o.verdict # "ok")
  BY DEF DispatchInv, TypeOK, ThreadInv, Returned
<1>2. Classify(t, up) = q
  BY DEF Classify, OutcomeOf, Carrier, is_exec_tool
<1>3. ASSUME NEW v \in Verdict, NEW w \in Reason, NEW y \in Carriers
      PROVE  /\ td_outcome_set(y, v, w) \in Carriers /\ td_outcome_set(y, v, w).mode = y.mode
             /\ td_outcome_set(y, v, w).verdict = v /\ td_outcome_set(y, v, w).explicit
  BY DEF td_outcome_set, Carriers
<1> HIDE DEF o, r, x
<1>4. /\ p \in Carriers /\ p.mode = o.mode /\ (o.explicit => p = o)
      /\ \/ p = o /\ (o.explicit \/ ~x \/ r \notin {"refused:", "exitN"})
         \/ p.explicit /\ ~o.explicit /\ p.verdict = "refused" /\ r = "refused:"
         \/ p.explicit /\ ~o.explicit /\ p.verdict = "error" /\ r = "exitN"
  <2>1. /\ "refused" \in Verdict /\ "error" \in Verdict
        /\ "policy" \in Reason /\ "tool_error" \in Reason
    BY DEF Verdict, Reason
  <2> QED  BY <1>1, <1>3, <2>1 DEF td_classify_exec_result
<1> HIDE DEF p
<1>5. /\ q \in Carriers /\ q.mode = p.mode
      /\ \/ q = p /\ (p.explicit \/ r \notin {"error:", "error: timeout"})
         \/ q.verdict \in {"timeout", "error"} /\ ~p.explicit
  <2>1. /\ "timeout" \in Verdict /\ "error" \in Verdict
        /\ "timeout" \in Reason /\ "tool_error" \in Reason
    BY DEF Verdict, Reason
  <2>2. CASE ~p.explicit /\ r = "error: timeout"
    <3>1. q = td_outcome_set(p, "timeout", "timeout")
      BY <2>2 DEF ClassifyPrefix
    <3>2. q \in Carriers /\ q.mode = p.mode /\ q.verdict = "timeout"
      BY <1>3, <1>4, <2>1, <3>1
    <3> HIDE DEF q
    <3> QED  BY <2>2, <3>2
  <2>3. CASE ~p.explicit /\ r = "error:"
    <3>1. q = td_outcome_set(p, "error", "tool_error")
      BY <2>3 DEF ClassifyPrefix
    <3>2. q \in Carriers /\ q.mode = p.mode /\ q.verdict = "error"
      BY <1>3, <1>4, <2>1, <3>1
    <3> HIDE DEF q
    <3> QED  BY <2>3, <3>2
  <2>4. CASE p.explicit \/ r \notin {"error:", "error: timeout"}
    <3>1. q = p
      BY <2>4 DEF ClassifyPrefix
    <3> QED  BY <1>4, <2>4, <3>1
  <2> QED  BY <2>2, <2>3, <2>4
<1>6. o.explicit => q = o
  BY <1>4, <1>5
<1> HIDE DEF q
<1>7. q.verdict = "ok" => /\ ~o.explicit /\ (r \in {"text", "exit0", "lost"} \/ ~x)
                          /\ r \notin {"error:", "error: timeout"}
  BY <1>1, <1>4, <1>5 DEF Result
<1>8. q.verdict = "refused" => o.verdict = "refused" \/ r = "refused:"
  BY <1>1, <1>4, <1>5
<1> QED  BY <1>2, <1>4, <1>5, <1>6, <1>7, <1>8 DEF o, r, x

(* The audit record says what result and carriers say.                      *)
LEMMA EmitStep ==
    ASSUME DispatchInv, NEW t \in Thread, NEW up \in BOOLEAN, EmitCompletion(t, up)
    PROVE  DispatchInv'
<1> DEFINE o == Classify(t, up)
           a == [verdict |-> o.verdict, reason |-> o.reason, mode |-> o.mode]
           d == [did[t] EXCEPT !.up = up]
<1>1. TypeOK /\ pc[t] = "return" /\ Returned(t) /\ Accounted(t, out[t].mode)
  BY DEF EmitCompletion, DispatchInv, ThreadInv
<1>2. /\ pc' = [pc EXCEPT ![t] = "idle"] /\ out' = [out EXCEPT ![t] = o]
      /\ audit' = [audit EXCEPT ![t] = a] /\ hooks' = [hooks EXCEPT ![t] = "audited"]
      /\ did' = [did EXCEPT ![t].up = up]
      /\ UNCHANGED <<call, args, result>>
  BY DEF EmitCompletion, PutOutcome, Carrier, agent_tools_emit_tool_completion
<1>3. did' = [did EXCEPT ![t] = d]
  BY <1>1, <1>2 DEF TypeOK
<1>4. /\ o \in Carriers /\ o.mode = out[t].mode
      /\ out[t].explicit => o = out[t]
      /\ o.verdict = "ok" =>
           /\ ~out[t].explicit
           /\ result[t] \in {"text", "exit0", "lost"} \/ ~(up /\ call[t].tool \in Exec)
           /\ result[t] \notin {"error:", "error: timeout"}
      /\ o.verdict = "refused" => out[t].verdict = "refused" \/ result[t] = "refused:"
  BY <1>1, ClassifyIs
<1> HIDE DEF o
<1>5. a \in Audit /\ a.verdict = o.verdict /\ a.reason = o.reason /\ a.mode = o.mode
  BY <1>4 DEF Audit, Carriers
<1>6. /\ d \in Effect /\ d.up = up /\ d.act = did[t].act /\ d.redirect = did[t].redirect
      /\ d.blocked = did[t].blocked
      /\ d.ran = did[t].ran /\ d.failed = did[t].failed /\ d.down = did[t].down
      /\ d.wrote = did[t].wrote /\ d.snapshot = did[t].snapshot /\ d.recorded = did[t].recorded
      /\ d.read = did[t].read /\ d.left = did[t].left
      /\ d.shown = did[t].shown
  <2>1. did[t] \in Effect
    BY <1>1 DEF TypeOK
  <2> QED  BY <2>1 DEF Effect
<1>7. /\ Untouched(did[t]) => Untouched(d)
      /\ Tracked(call[t].tool, did[t]) => Tracked(call[t].tool, d)
  BY <1>6 DEF Untouched, Tracked
<1> HIDE DEF a, d
<1>9. TypeOK'
  <2>1. out' \in [Thread -> Carriers]
    BY <1>1, <1>2, <1>4 DEF TypeOK
  <2>2. audit' \in [Thread -> Audit \cup {None}]
    BY <1>1, <1>2, <1>5 DEF TypeOK
  <2>3. did' \in [Thread -> Effect]
    BY <1>1, <1>3, <1>6 DEF TypeOK
  <2> QED  BY <1>1, <1>2, <2>1, <2>2, <2>3 DEF TypeOK
<1>10. /\ pc'[t] = "idle" /\ audit'[t] = a /\ did'[t] = d /\ call'[t] = call[t]
       /\ result'[t] = result[t] /\ hooks'[t] = "audited"
  BY <1>1, <1>2, <1>3 DEF TypeOK
<1>11. Reported(t)'
  <2>1. a.verdict = "refused" => Untouched(d) \/ (call[t].tool \in Shell /\ result[t] = "refused:")
    BY <1>1, <1>4, <1>5, <1>7 DEF Returned
  <2>2. ASSUME a.verdict = "ok"
        PROVE  /\ d.ran \/ d.failed
               /\ d.failed \/ d.down => Hidden(call[t], result[t], d.up)
    <3>1. result[t] \in Result
      BY <1>1 DEF TypeOK
    <3>2. result[t] \in {"text", "exit0", "lost", "exitN", "refused:"} /\ ~out[t].explicit
      BY <1>4, <1>5, <2>2, <3>1 DEF Result
    <3>3. result[t] \in {"exitN", "refused:"} => call[t].tool \in Exec /\ ~up
      BY <1>1, <1>4, <1>5, <2>2 DEF Returned, Exec, Runner
    <3> QED  BY <1>1, <1>6, <3>2, <3>3 DEF Returned, Hidden
  <2> QED  BY <1>10, <2>1, <2>2 DEF Reported
<1>12. Accounted(t, audit[t].mode)'
  BY <1>1, <1>4, <1>5, <1>6, <1>7, <1>10 DEF Accounted
<1>13. Redirected(t)' /\ OneField(call[t].args) => d.act # "asked"
  BY <1>6, <1>10 DEF Redirected, DispatchInv, ThreadInv
<1>14. ThreadInv(t)'
  BY <1>10, <1>11, <1>12, <1>13 DEF ThreadInv, Hooked
<1> QED  BY <1>1, <1>2, <1>3, <1>9, <1>14, ThreadStep DEF TypeOK

(* Every step keeps the invariant.                                          *)
LEMMA DispatchStep == DispatchInv /\ [Next]_vars => DispatchInv'
<1> SUFFICES ASSUME DispatchInv, [Next]_vars PROVE DispatchInv'
  OBVIOUS
<1>1. ASSUME NEW t \in Thread, Step(t) PROVE DispatchInv'
  BY <1>1, ParseArgsStep, GatesStep, GuardrailStep, HandlerStep, CompletedStep, EmitStep DEF Step
<1>2. CASE Next
  BY <1>1, <1>2, StartStep DEF Next
<1>3. CASE UNCHANGED vars
  <2>1. TypeOK'
    BY <1>3 DEF vars, DispatchInv, TypeOK
  <2>2. ASSUME NEW t \in Thread PROVE ThreadInv(t)'
    BY <1>3, Frame DEF vars, DispatchInv
  <2> QED  BY <2>1, <2>2 DEF DispatchInv
<1> QED  BY <1>2, <1>3

-----------------------------------------------------------------------------
(* The theorems.                                                            *)

(* Where every call stands at each stage of dispatch_tool_call_ctx, for any *)
(* number of agent threads; the results below follow from it.               *)
THEOREM DispatchInvariant == Spec => []DispatchInv
<1>1. Init => DispatchInv
  BY DispatchInit
<1>2. DispatchInv /\ [Next]_vars => DispatchInv'
  BY DispatchStep
<1> QED  BY <1>1, <1>2, PTL DEF Spec

(* The carriers, the effect and the audit record keep their types: a mode   *)
(* or a verdict outside the audit hook's vocabulary is never reported.      *)
THEOREM TypeCorrect == Spec => []TypeOK
<1>1. DispatchInv => TypeOK
  BY DEF DispatchInv
<1> QED  BY <1>1, DispatchInvariant, PTL

(* The handlers, the classification of results and the audit hook agree: a  *)
(* call audited as ok has done what was asked, or has failed in one of the  *)
(* ways that td_classify_exec_result and the "error:" prefix cannot show.   *)
THEOREM OkIsSuccess == Spec => []OkMeansSucceeded
<1>1. DispatchInv => OkMeansSucceeded
  BY DEF DispatchInv, ThreadInv, Reported, OkMeansSucceeded
<1> QED  BY <1>1, DispatchInvariant, PTL

(* A refusal by the cancellation check, a gate, the guardrail or the        *)
(* sandbox comes before any effect of the call; only a shell command whose  *)
(* own stderr begins "refused:" is called refused after it ran.             *)
THEOREM RefusalIsClean == Spec => []RefusedHasNoEffect
<1>1. DispatchInv => RefusedHasNoEffect
  BY DEF DispatchInv, ThreadInv, Reported, RefusedHasNoEffect
<1> QED  BY <1>1, DispatchInvariant, PTL

(* The mode that td_outcome_reset clears never leaks into the record of a   *)
(* later call of the thread.                                                *)
THEOREM ModeIsOfTheCall == Spec => []ModeIsOwn
<1>1. DispatchInv => ModeIsOwn
  BY DEF DispatchInv, ThreadInv, Accounted, ModeIsOwn
<1> QED  BY <1>1, DispatchInvariant, PTL

(* Every file that td_write_file and td_edit_file change is given to        *)
(* auto_snapshot_record first, whether or not it is kept, a write that is   *)
(* not answered by an error to db1_session_write_path_record, and no write  *)
(* guard is passed by.                                                      *)
THEOREM WritesAreTracked == Spec => []WritesTracked
<1>1. DispatchInv => WritesTracked
  BY DEF DispatchInv, ThreadInv, Accounted, WritesTracked
<1> QED  BY <1>1, DispatchInvariant, PTL

(* The rewrite of the guardrail reaches the field the tool reads through    *)
(* every alias, for a call with one field of a kind.                        *)
THEOREM RewritesAreObeyed == Spec => []RewriteReachesTool
<1>1. DispatchInv => RewriteReachesTool
  BY DEF DispatchInv, ThreadInv, RewriteReachesTool
<1> QED  BY <1>1, DispatchInvariant, PTL

(* guardrail_input_json holds what the tool acts on, but for aliases in the *)
(* calls of the five mapped tools and for edit_symbol without a path.       *)
THEOREM GuardrailIsShown == Spec => []GuardrailSeesTarget
<1>1. DispatchInv => GuardrailSeesTarget
  BY DEF DispatchInv, ThreadInv, Accounted, GuardrailSeesTarget
<1> QED  BY <1>1, DispatchInvariant, PTL

(* dispatch_tool_call_ctx fires "started", "completed" and the completion   *)
(* record in this order for every call, on every return path of _inner and  *)
(* for every thread, and never one of them twice.                           *)
THEOREM HooksFireInOrder == Spec => HookOrder
<1> DEFINE Order(t) == hooks'[t] # hooks[t] =>
             <<hooks[t], hooks'[t]>> \in {<<"none", "started">>, <<"started", "completed">>,
                                          <<"completed", "audited">>, <<"audited", "started">>}
<1>1. ASSUME DispatchInv, Next PROVE \A u \in Thread : Order(u)
  <2>1. PICK t \in Thread : (\E c \in Calls : Start(t, c)) \/ Step(t)
    BY <1>1 DEF Next
  <2>2. hooks \in [Thread -> {"none", "started", "completed", "audited"}] /\ Hooked(t)
    BY <1>1 DEF DispatchInv, TypeOK, ThreadInv
  <2>3. CASE \E c \in Calls : Start(t, c)
    <3>1. hooks' = [hooks EXCEPT ![t] = "started"] /\ hooks[t] \in {"none", "audited"}
      BY <2>2, <2>3 DEF Start, agent_tools_emit_tool_event, Hooked
    <3> QED  BY <2>2, <3>1
  <2>4. CASE Completed(t)
    <3>1. hooks' = [hooks EXCEPT ![t] = "completed"] /\ hooks[t] = "started"
      BY <2>4 DEF Completed, agent_tools_emit_tool_event
    <3> QED  BY <2>2, <3>1
  <2>5. CASE \E up \in BOOLEAN : EmitCompletion(t, up)
    <3>1. hooks' = [hooks EXCEPT ![t] = "audited"] /\ hooks[t] = "completed"
      BY <2>5 DEF EmitCompletion, agent_tools_emit_tool_completion
    <3> QED  BY <2>2, <3>1
  <2>6. CASE ParseArgs(t) \/ Gates(t)
    BY <2>6 DEF ParseArgs, Gates, Return, Proceed
  <2>7. CASE \E rc \in 0 .. 3, msg \in BOOLEAN : pre_tool_check(t, rc, msg)
    BY <2>7 DEF pre_tool_check, Rewrite, Return, Proceed
  <2>8. CASE Handler(t)
    BY <2>8, HandlerHooks
  <2> QED  BY <2>1, <2>3, <2>4, <2>5, <2>6, <2>7, <2>8 DEF Step
<1>2. DispatchInv /\ [Next]_vars => [\A t \in Thread : Order(t)]_vars
  BY <1>1
<1> QED  BY <1>2, DispatchInvariant, PTL DEF Spec, HookOrder
=============================================================================
