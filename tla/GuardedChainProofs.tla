------------------------- MODULE GuardedChainProofs -------------------------
(***************************************************************************)
(* Proofs about the guarded chain, for every command line and every size   *)
(* of the arrays of the scan.                                              *)
(***************************************************************************)
EXTENDS GuardedChain, WellFoundedInduction, TLAPS

(* Every non-empty set of natural numbers has a least element.  A proof by  *)
(* induction takes the least number that does not have the property.        *)
LEMMA Least ==
    ASSUME NEW T, T \subseteq Nat, T # {}
    PROVE  \E x \in T : \A y \in T : x =< y
<1> DEFINE R == {ss \in Nat \X Nat : ss[1] < ss[2]}
<1>1. IsWellFoundedOn(R, Nat)
  BY NatLessThanWellFounded, Zenon DEF OpToRel
<1>2. PICK x \in T : \A y \in T : ~(<<y, x>> \in R)
  BY <1>1, WFMin, Zenon
<1>3. ASSUME NEW y \in T PROVE x =< y
  <2>1. <<y, x>> \in Nat \X Nat
    OBVIOUS
  <2>2. ~(<<y, x>>[1] < <<y, x>>[2])
    BY <1>2, <2>1, Zenon
  <2> QED  BY <2>1, <2>2
<1> QED  BY <1>3

(* The segments and the operators of a line.                                *)
LEMMA LineType ==
    ASSUME NEW l \in Lines
    PROVE  /\ Len(l.seg) \in Nat /\ Len(l.seg) >= 1 /\ DOMAIN l.seg = 1 .. Len(l.seg)
           /\ l.seg \in [1 .. Len(l.seg) -> Segment]
           /\ DOMAIN l.op = 1 .. Len(l.seg) - 1
<1>1. l \in Line /\ Len(l.seg) > 0 /\ Len(l.op) = Len(l.seg) - 1
  BY ChainAssumption
<1>2. l.seg \in Seq(Segment) /\ l.op \in Seq(Operator)
  BY <1>1 DEF Line
<1> QED  BY <1>1, <1>2

(* The pipeline that begins with a command ends within the line: PipeEnd    *)
(* finds the first command with no pipe behind it.                          *)
LEMMA PipeEndIs ==
    ASSUME n \in Nat, NEW k \in 1 .. n
    PROVE  /\ PipeEnd(k) \in k .. n
           /\ \A j \in k .. PipeEnd(k) - 1 : line.op[j] = "|"
           /\ PipeEnd(k) = n \/ line.op[PipeEnd(k)] # "|"
<1> DEFINE T == {e \in k .. n : e = n \/ line.op[e] # "|"}
<1>1. T \subseteq Nat /\ n \in T
  OBVIOUS
<1>2. PICK e \in T : \A y \in T : e =< y
  BY <1>1, Least
<1>3. \A j \in k .. e - 1 : line.op[j] = "|"
  BY <1>2
<1>4. /\ e \in k .. n
      /\ \A j \in k .. e - 1 : line.op[j] = "|"
      /\ e = n \/ line.op[e] # "|"
  BY <1>3
<1> QED  BY <1>4, Zenon DEF PipeEnd

(* So does the search for the first stage of a command's pipeline.          *)
LEMMA PipeHeadIs ==
    ASSUME NEW l, NEW k \in Nat \ {0}
    PROVE  /\ PipeHead(l, k) \in 1 .. k
           /\ \A j \in PipeHead(l, k) .. k - 1 : l.op[j] = "|"
           /\ PipeHead(l, k) = 1 \/ l.op[PipeHead(l, k) - 1] # "|"
<1> DEFINE T == {d \in 0 .. k - 1 : k - d = 1 \/ l.op[k - d - 1] # "|"}
<1>1. T \subseteq Nat /\ k - 1 \in T
  OBVIOUS
<1>2. PICK d \in T : \A y \in T : d =< y
  BY <1>1, Least
<1> DEFINE h == k - d
<1>3. h \in 1 .. k /\ (h = 1 \/ l.op[h - 1] # "|")
  BY <1>2
<1>4. ASSUME NEW j \in h .. k - 1 PROVE l.op[j] = "|"
  <2>1. k - 1 - j \in 0 .. k - 1 /\ k - 1 - j < d /\ k - (k - 1 - j) - 1 = j
    BY <1>2
  <2>2. k - 1 - j \notin T
    BY <1>2, <2>1
  <2> QED  BY <2>1, <2>2
<1>5. \A j \in h .. k - 1 : l.op[j] = "|"
  BY <1>4
<1> HIDE DEF h
<1> QED  BY <1>3, <1>5, Zenon DEF PipeHead

(* A pipeline has only one first stage.                                     *)
LEMMA PipeHeadUnique ==
    ASSUME NEW l, NEW k \in Nat \ {0}, NEW h \in 1 .. k,
           \A j \in h .. k - 1 : l.op[j] = "|",
           h = 1 \/ l.op[h - 1] # "|"
    PROVE  PipeHead(l, k) = h
<1> DEFINE g == PipeHead(l, k)
<1>1. /\ g \in 1 .. k
      /\ \A j \in g .. k - 1 : l.op[j] = "|"
      /\ g = 1 \/ l.op[g - 1] # "|"
  BY PipeHeadIs
<1> HIDE DEF g
<1>2. CASE g < h
  <2>1. h - 1 \in g .. k - 1 /\ h # 1
    BY <1>1, <1>2
  <2> QED  BY <1>1, <2>1
<1>3. CASE h < g
  <2>1. g - 1 \in h .. k - 1 /\ g # 1
    BY <1>1, <1>3
  <2> QED  BY <1>1, <2>1
<1>4. g = h
  BY <1>1, <1>2, <1>3
<1> QED  BY <1>4 DEF g

-----------------------------------------------------------------------------
(* What a shell does is well defined, and looks at earlier commands only.   *)

(* The state of a shell after command k depends only on the state before    *)
(* its pipeline and the code of k.                                          *)
LEMMA ShellAtBefore ==
    ASSUME NEW l, NEW c, NEW d, NEW f, NEW g, NEW k \in Nat,
           k # 0 => f[PipeHead(l, k) - 1] = g[PipeHead(l, k) - 1] /\ c[k] = d[k]
    PROVE  ShellAt(l, c, f, k) = ShellAt(l, d, g, k)
<1>1. CASE k = 0  BY <1>1, Zenon DEF ShellAt
<1>2. CASE k # 0  BY <1>2, Zenon DEF ShellAt
<1> QED  BY <1>1, <1>2

(* A function with the equations of Shell exists, by the least length for   *)
(* which there would be none.                                               *)
LEMMA ShellExists ==
    ASSUME NEW l, NEW c, NEW m \in Nat
    PROVE  \E g : g = [k \in 0 .. m |-> ShellAt(l, c, g, k)]
<1> DEFINE Good(p) == \E g : g = [k \in 0 .. p |-> ShellAt(l, c, g, k)]
           T == {p \in Nat : ~Good(p)}
<1>1. SUFFICES T = {}
  OBVIOUS
<1>2. SUFFICES ASSUME T # {} PROVE FALSE
  OBVIOUS
<1>3. PICK p \in T : \A y \in T : p =< y
  BY <1>2, Least
<1>4. p # 0
  <2> DEFINE g == [k \in 0 .. 0 |-> ShellAt(l, c, <<>>, k)]
  <2>1. \A k \in 0 .. 0 : ShellAt(l, c, <<>>, k) = ShellAt(l, c, g, k)
    <3> TAKE k \in 0 .. 0
    <3>1. k = 0 /\ k \in Nat
      OBVIOUS
    <3> HIDE DEF g
    <3> QED  BY <3>1, ShellAtBefore
  <2>2. g = [k \in 0 .. 0 |-> ShellAt(l, c, g, k)]
    BY <2>1
  <2>3. Good(0)
    <3> HIDE DEF g
    <3> QED  BY <2>2
  <2> QED  BY <1>3, <2>3
<1>5. p - 1 \in Nat /\ p - 1 \notin T
  BY <1>3, <1>4
<1>6. PICK g : g = [k \in 0 .. p - 1 |-> ShellAt(l, c, g, k)]
  BY <1>5
<1> DEFINE f == [k \in 0 .. p |-> ShellAt(l, c, g, k)]
<1>7. \A k \in 0 .. p - 1 : f[k] = g[k]
  <2>1. \A k \in 0 .. p - 1 : k \in 0 .. p /\ g[k] = ShellAt(l, c, g, k)
    <3>1. \A k \in 0 .. p - 1 : k \in 0 .. p
      BY <1>3
    <3>2. \A k \in 0 .. p - 1 : g[k] = ShellAt(l, c, g, k)
      BY <1>6, Zenon
    <3> QED  BY <3>1, <3>2
  <2> QED  BY <2>1
<1>8. \A k \in 0 .. p : ShellAt(l, c, g, k) = ShellAt(l, c, f, k)
  <2> HIDE DEF f
  <2> TAKE k \in 0 .. p
  <2>1. k # 0 => PipeHead(l, k) - 1 \in 0 .. p - 1
    <3>1. k # 0 => PipeHead(l, k) \in 1 .. k
      BY PipeHeadIs
    <3> QED  BY <3>1, <1>3
  <2> QED  BY <1>7, <2>1, ShellAtBefore
<1>9. f = [k \in 0 .. p |-> ShellAt(l, c, f, k)]
  BY <1>8
<1>10. Good(p)
  <2> HIDE DEF f
  <2> QED  BY <1>9
<1> QED  BY <1>3, <1>10

(* The recursive definition of Shell is met by its value.                   *)
LEMMA ShellIs ==
    ASSUME NEW l \in Lines, NEW c, NEW k \in 0 .. Len(l.seg)
    PROVE  Shell(l, c)[k] = ShellAt(l, c, Shell(l, c), k)
<1> DEFINE P(f) == f = [j \in 0 .. Len(l.seg) |-> ShellAt(l, c, f, j)]
<1>1. PICK g : P(g)
  BY LineType, ShellExists
<1>2. Shell(l, c) = CHOOSE f : P(f)
  BY Zenon DEF Shell
<1>3. P(CHOOSE f : P(f))
  BY <1>1, Zenon
<1>4. P(Shell(l, c))
  BY <1>2, <1>3, Zenon
<1> DEFINE sh == Shell(l, c)
<1>5. sh = [j \in 0 .. Len(l.seg) |-> ShellAt(l, c, sh, j)]
  BY <1>4
<1> HIDE DEF sh
<1>6. sh[k] = ShellAt(l, c, sh, k)
  BY <1>5
<1> QED  BY <1>6 DEF sh

(* It depends on the codes of the commands up to that point.                *)
LEMMA ShellSame ==
    ASSUME NEW l \in Lines, NEW c, NEW d, NEW m \in 0 .. Len(l.seg),
           \A j \in 1 .. m : c[j] = d[j]
    PROVE  \A k \in 0 .. m : Shell(l, c)[k] = Shell(l, d)[k]
<1> DEFINE T == {k \in 0 .. m : Shell(l, c)[k] # Shell(l, d)[k]}
<1>1. SUFFICES ASSUME T # {} PROVE FALSE
  OBVIOUS
<1>2. PICK k \in T : \A y \in T : k =< y
  <2>1. T \subseteq Nat
    OBVIOUS
  <2> HIDE DEF T
  <2> QED  BY <1>1, <2>1, Least
<1>3. k \in 0 .. m /\ k \in 0 .. Len(l.seg) /\ k \in Nat
  BY LineType
<1>4. k # 0 => PipeHead(l, k) \in 1 .. k
  BY <1>3, PipeHeadIs
<1>5. k # 0 => PipeHead(l, k) - 1 \in 0 .. m /\ PipeHead(l, k) - 1 < k /\ k \in 1 .. m
  BY <1>3, <1>4
<1>6. k # 0 => PipeHead(l, k) - 1 \notin T
  BY <1>2, <1>5
<1>7. k # 0 => /\ Shell(l, c)[PipeHead(l, k) - 1] = Shell(l, d)[PipeHead(l, k) - 1]
               /\ c[k] = d[k]
  BY <1>5, <1>6
<1>8. ShellAt(l, c, Shell(l, c), k) = ShellAt(l, d, Shell(l, d), k)
  BY <1>3, <1>7, ShellAtBefore
<1>9. Shell(l, c)[k] = Shell(l, d)[k]
  BY <1>3, <1>8, ShellIs
<1> QED  BY <1>2, <1>9

(* Before its first command a shell has run nothing.                        *)
LEMMA ShellZero ==
    ASSUME NEW l \in Lines, NEW c
    PROVE  Shell(l, c)[0] = [ran |-> {}, rc |-> 0, cwd |-> <<>>]
<1>1. 0 \in 0 .. Len(l.seg)
  BY LineType
<1>2. Shell(l, c)[0] = ShellAt(l, c, Shell(l, c), 0)
  BY <1>1, ShellIs
<1> QED  BY <1>2, Zenon DEF ShellAt

(* A shell skips a pipeline behind `&&' after a failure.                    *)
LEMMA ShellSkips ==
    ASSUME NEW l \in Lines, NEW c, NEW k \in 1 .. Len(l.seg), NEW h, PipeHead(l, k) = h,
           h > 1, l.op[h - 1] = "&&", Shell(l, c)[h - 1].rc # 0
    PROVE  Shell(l, c)[k] = Shell(l, c)[h - 1]
<1>1. k \in 0 .. Len(l.seg) /\ k # 0
  BY LineType
<1>2. Shell(l, c)[k] = ShellAt(l, c, Shell(l, c), k)
  BY <1>1, ShellIs
<1> QED  BY <1>1, <1>2, Zenon DEF ShellAt

(* Otherwise it runs all of its commands.                                   *)
LEMMA ShellRuns ==
    ASSUME NEW l \in Lines, NEW c, NEW k \in 1 .. Len(l.seg), NEW h, PipeHead(l, k) = h,
           ~(h > 1 /\ l.op[h - 1] = "&&" /\ Shell(l, c)[h - 1].rc # 0)
    PROVE  /\ Shell(l, c)[k].ran =
                 Shell(l, c)[h - 1].ran \cup
                   {Executed(j, Shell(l, c)[h - 1].cwd, IF j > h THEN j - 1 ELSE 0) : j \in h .. k}
           /\ Shell(l, c)[k].rc = c[k]
           /\ Shell(l, c)[k].cwd = IF h = k /\ l.seg[k].name = "cd" /\ c[k] = 0
                                   THEN Append(Shell(l, c)[h - 1].cwd, k)
                                   ELSE Shell(l, c)[h - 1].cwd
<1> DEFINE b == Shell(l, c)[h - 1]
           R == b.ran \cup {Executed(j, b.cwd, IF j > h THEN j - 1 ELSE 0) : j \in h .. k}
           D == IF h = k /\ l.seg[k].name = "cd" /\ c[k] = 0 THEN Append(b.cwd, k) ELSE b.cwd
<1>1. k \in 0 .. Len(l.seg) /\ k # 0
  BY LineType
<1>2. Shell(l, c)[k] = ShellAt(l, c, Shell(l, c), k)
  BY <1>1, ShellIs
<1>3. Shell(l, c)[k] = [ran |-> R, rc |-> c[k], cwd |-> D]
  BY <1>1, <1>2, Zenon DEF ShellAt
<1>4. Shell(l, c)[k].ran = R /\ Shell(l, c)[k].rc = c[k] /\ Shell(l, c)[k].cwd = D
  <2> HIDE DEF R, D
  <2> QED  BY <1>3
<1> QED  BY <1>4

(* Of a line's first command a shell has run that command.                  *)
LEMMA ShellFirst ==
    ASSUME NEW l \in Lines, NEW c
    PROVE  Shell(l, c)[1].ran = {Executed(1, <<>>, 0)} /\ Shell(l, c)[1].rc = c[1]
<1> DEFINE S == Shell(l, c)
           b == S[1 - 1]
           R == b.ran \cup {Executed(j, b.cwd, IF j > 1 THEN j - 1 ELSE 0) : j \in 1 .. 1}
           D == IF 1 = 1 /\ l.seg[1].name = "cd" /\ c[1] = 0 THEN Append(b.cwd, 1) ELSE b.cwd
<1>1. PipeHead(l, 1) = 1
  <2>1. PipeHead(l, 1) \in 1 .. 1
    BY PipeHeadIs
  <2> QED  BY <2>1
<1>2. S[1] = ShellAt(l, c, S, 1)
  <2>1. 1 \in 0 .. Len(l.seg)
    BY LineType
  <2> QED  BY <2>1, ShellIs
<1>3. 1 # 0 /\ ~(1 > 1)
  OBVIOUS
<1> HIDE DEF S
<1>4. S[1] = [ran |-> R, rc |-> c[1], cwd |-> D]
  BY <1>1, <1>2, <1>3, Zenon DEF ShellAt
<1>5. S[1].ran = R /\ S[1].rc = c[1]
  <2> HIDE DEF R, D
  <2> QED  BY <1>4
<1>6. b.ran = {} /\ b.cwd = <<>>
  <2>1. 1 - 1 = 0 /\ S[0] = [ran |-> {}, rc |-> 0, cwd |-> <<>>]
    BY ShellZero DEF S
  <2> QED  BY <2>1
<1>7. R = {Executed(1, <<>>, 0)}
  BY <1>6
<1> QED  BY <1>5, <1>7 DEF S

(* Whether the pipelines up to a command are plain depends on the commands  *)
(* before it only.                                                          *)
LEMMA PlainSame ==
    ASSUME NEW l \in Lines, NEW c, NEW d, NEW m \in 1 .. Len(l.seg),
           \A j \in 1 .. m - 1 : c[j] = d[j]
    PROVE  PlainUpTo(l, c, m) <=> PlainUpTo(l, d, m)
<1>1. m - 1 \in 0 .. Len(l.seg) /\ m \in Nat
  BY LineType
<1>2. \A k \in 0 .. m - 1 : Shell(l, c)[k] = Shell(l, d)[k]
  BY <1>1, ShellSame
<1>3. \A h \in 1 .. m : Shell(l, c)[h - 1] = Shell(l, d)[h - 1]
  BY <1>1, <1>2
<1> QED  BY <1>3, Zenon DEF PlainUpTo

(* What is plain up to a command is plain up to each one before it.         *)
LEMMA PlainBefore ==
    ASSUME NEW l, NEW c, NEW a \in Nat, NEW b \in Nat, a =< b, PlainUpTo(l, c, b)
    PROVE  PlainUpTo(l, c, a)
<1>1. \A h \in 1 .. a : h \in 1 .. b
  OBVIOUS
<1> QED  BY <1>1, Zenon DEF PlainUpTo

-----------------------------------------------------------------------------
(* The inductive invariant.                                                 *)

(* A line that has not been scanned.                                        *)
LEMMA ChainInit == Init => ChainInv
<1> SUFFICES ASSUME Init PROVE ChainInv
  OBVIOUS
<1>1. line \in Lines
  BY DEF Init
<1>2. <<>> \in Seq(Cmd) /\ DOMAIN held = {0} \cup Cmd /\ held[0] = {}
  BY DEF Init
<1>3. TypeOK
  BY <1>1, <1>2 DEF Init, TypeOK, Mode, Where
<1>4. ScanInv
  <2>1. 0 < Len(line.seg) /\ 0 < MaxCommands /\ 0 =< MaxCommands
    BY <1>1, LineType, ChainAssumption
  <2>2. \A k \in 1 .. n : FALSE
    BY DEF Init
  <2> QED  BY <2>1, <2>2 DEF Init, ScanInv
<1>5. WaitInv /\ Sequential /\ ForkInv /\ EndsInv
  BY <1>2 DEF Init, WaitInv, Sequential, ForkInv, EndsInv
<1>6. ShellInv /\ ChainIsShell
  BY DEF Init, ShellInv, ChainIsShell
<1> QED  BY <1>3, <1>4, <1>5, <1>6 DEF ChainInv

(* The scan and the fork of the chain touch nothing of the evaluator.       *)
LEMMA ScanStep ==
    ASSUME ChainInv, ScanSegment \/ ForkChain
    PROVE  ChainInv'
<1> USE DEF ChainInv
<1>0. line \in Lines /\ n \in Nat /\ top \in Nat /\ mode \in Mode
  BY DEF TypeOK
<1>1. UNCHANGED runVars /\ line' = line /\ pc \in {"scan", "fork"}
  BY DEF ScanSegment, ForkChain, Decline, scanVars
<1>2. i = 1 /\ rc = 0 /\ cwd = <<>> /\ ran = {} /\ held[0] = {}
  BY <1>1 DEF ScanInv, EndsInv
<1>3. pc' \in {"scan", "fork", "loop", "declined"} /\ mode' \in Mode
  BY <1>0 DEF ScanSegment, ForkChain, Decline, scanVars, Mode
<1>4. ASSUME Decline PROVE ScanInv' /\ n' \in Nat /\ top' \in Nat /\ pc' # "loop"
  <2>1. n' = 0 /\ top' = top /\ line' = line /\ pc' \in {"scan", "declined"}
    BY <1>4 DEF Decline
  <2>2. \A k \in 1 .. n' : FALSE
    BY <2>1
  <2>3. 0 < Len(line.seg) /\ 0 =< MaxCommands
    BY <1>0, LineType, ChainAssumption
  <2> QED  BY <1>0, <1>1, <1>2, <2>1, <2>2, <2>3 DEF ScanInv, runVars
<1>5. ASSUME ScanSegment, ~Decline
      PROVE  ScanInv' /\ n' \in Nat /\ top' \in Nat /\ pc' # "loop"
  <2>1. /\ mode' = mode /\ pc = "scan"
        /\ line.seg[n + 1].name # "" /\ Eligible(line.seg[n + 1])
        /\ n + 1 # Len(line.seg) => line.op[n + 1] \in AllowedOp
    BY <1>5 DEF ScanSegment
  <2>2. n' = n + 1 /\ n < MaxCommands
    BY <1>5 DEF ScanSegment
  <2>3. \/ n + 1 = Len(line.seg) /\ top' = top /\ pc' = "fork"
        \/ n + 1 # Len(line.seg) /\ top' = n + 1 /\ pc' = "scan" /\ n + 1 < MaxCommands
    BY <1>5 DEF ScanSegment, RoomForOperator
  <2>4. \A k \in 1 .. n' :
         /\ line'.seg[k].name # "" /\ Eligible(line.seg[k])'
         /\ k < Len(line'.seg) => line'.op[k] \in AllowedOp'
    <3> TAKE k \in 1 .. n'
    <3>1. k \in 1 .. n \/ k = n + 1
      BY <1>0, <2>2
    <3>2. AllowedOp' = AllowedOp /\ (Eligible(line.seg[k])' <=> Eligible(line.seg[k]))
      BY <1>1, <2>1 DEF AllowedOp, Eligible
    <3>3. CASE k \in 1 .. n
      BY <1>1, <3>2, <3>3 DEF ScanInv
    <3>4. CASE k = n + 1
      <4>1. k < Len(line.seg) => n + 1 # Len(line.seg)
        BY <3>4, <1>0, LineType
      <4> QED  BY <1>1, <2>1, <3>2, <3>4, <4>1
    <3> QED  BY <3>1, <3>3, <3>4
  <2>5. pc' = "scan" => n' < Len(line'.seg)
    <3>1. n < Len(line.seg)
      BY <2>1 DEF ScanInv
    <3> QED  BY <1>0, <1>1, <2>2, <2>3, <3>1, LineType
  <2>6. top' < MaxCommands /\ top' \in Nat
    <3>1. top < MaxCommands
      BY DEF ScanInv
    <3> QED  BY <1>0, <2>3, <3>1
  <2>7. n' \in Nat /\ n' <= MaxCommands
    BY <1>0, <2>2, ChainAssumption
  <2> QED  BY <1>1, <1>2, <2>2, <2>3, <2>4, <2>5, <2>6, <2>7 DEF ScanInv, runVars
<1>6. ASSUME ForkChain, ~Decline
      PROVE  ScanInv' /\ n' \in Nat /\ top' \in Nat /\ n' = Len(line.seg)
  <2>1. pc = "fork" /\ pc' = "loop" /\ n' = n /\ top' = top /\ mode' = mode
    BY <1>6 DEF ForkChain, scanVars
  <2> QED  BY <1>0, <1>1, <2>1 DEF ScanInv, Eligible, AllowedOp
<1>7. ScanInv' /\ n' \in Nat /\ top' \in Nat
  BY <1>4, <1>5, <1>6
<1>8. pc' = "loop" => n' = Len(line.seg)
  BY <1>4, <1>5, <1>6
<1>9. TypeOK'
  BY <1>1, <1>3, <1>7 DEF TypeOK, runVars, Cmd, Where
<1>10. WaitInv'
  <2>1. i' = 1 /\ (pc' = "loop" => 1 <= n' + 1)
    BY <1>0, <1>1, <1>2, <1>8, LineType DEF runVars
  <2> QED  BY <1>3, <2>1 DEF WaitInv
<1>11. EndsInv'
  BY <1>1, <1>2, <1>3 DEF EndsInv, runVars
<1>12. ForkInv' /\ Sequential'
  BY <1>1, <1>3 DEF ForkInv, Sequential, Cmd, runVars
<1>13. ShellInv'
  <2>1. Shell(line', code')[i' - 1] = [ran |-> {}, rc |-> 0, cwd |-> <<>>]
    <3>1. i' - 1 = 0 /\ line' \in Lines
      BY <1>0, <1>1, <1>2 DEF runVars
    <3> QED  BY <3>1, ShellZero
  <2> QED  BY <1>1, <1>2, <1>3, <2>1 DEF ShellInv, runVars
<1>14. ChainIsShell'
  BY <1>3 DEF ChainIsShell
<1> QED  BY <1>7, <1>9, <1>10, <1>11, <1>12, <1>13, <1>14

(* What holds of the scan goes on holding while the chain runs.             *)
LEMMA ScanKept ==
    ASSUME ScanInv, UNCHANGED scanVars,
           pc \in {"loop", "pipeline", "wait", "exited"},
           pc' \in {"loop", "pipeline", "wait", "exited"}
    PROVE  ScanInv'
  BY DEF ScanInv, scanVars, Eligible, AllowedOp

(* While the chain is evaluated, its cells are numbers and within the line. *)
LEMMA Running ==
    ASSUME ChainInv, pc \in {"loop", "pipeline", "wait"}
    PROVE  /\ line \in Lines /\ n \in Nat /\ n = Len(line.seg) /\ Cmd = 1 .. n
           /\ i \in Nat /\ i >= 1 /\ i <= n + 1 /\ to \in Nat /\ s \in Nat
<1>1. line \in Lines /\ n \in Nat /\ i \in Nat \ {0} /\ to \in Nat /\ s \in Nat
  BY DEF ChainInv, TypeOK
<1>2. n = Len(line.seg) /\ i <= n + 1
  BY DEF ChainInv, ScanInv, WaitInv
<1>3. Cmd = 1 .. n
  BY <1>1, <1>2, LineType DEF Cmd
<1> QED  BY <1>1, <1>2, <1>3

(* The directory and the record of an executed command.                     *)
LEMMA ExecutesType ==
    ASSUME TypeOK, NEW k \in Cmd, NEW dir \in Seq(Cmd), NEW input \in Nat,
           ran' = ran \cup {Executed(k, dir, input)}
    PROVE  ran' \subseteq [cmd: Cmd, cwd: Seq(Cmd), input: Nat]
  BY DEF TypeOK, Executed

(* The one command of a readonly line is executed without a fork.           *)
LEMMA ExecDirectStep ==
    ASSUME ChainInv, ExecDirect PROVE ChainInv'
<1> USE DEF ChainInv
<1>0. /\ line \in Lines /\ n \in Nat /\ n = Len(line.seg) /\ Cmd = 1 .. n
      /\ i \in Nat /\ n = 1 /\ pc = "loop"
  BY Running DEF ExecDirect
<1>1. /\ UNCHANGED <<line, mode, n, top, i, to, s, cwd, proc, held, cut>>
      /\ pc' = "exited" /\ ran' = ran \cup {Executed(1, cwd, 0)}
  BY DEF ExecDirect, scanVars, Executes
<1>2. PICK r \in {0, 1} : code' = [code EXCEPT ![1] = r] /\ rc' = r
  BY DEF ExecDirect
<1>3. 1 \in Cmd /\ code'[1] = r /\ code' \in [Cmd -> {0, 1}]
  BY <1>0, <1>2 DEF TypeOK
<1>4. TypeOK'
  <2>1. ran' \subseteq [cmd: Cmd, cwd: Seq(Cmd), input: Nat]
    BY <1>1, <1>3, ExecutesType DEF TypeOK
  <2> QED  BY <1>1, <1>2, <1>3, <2>1 DEF TypeOK, Cmd, Where
<1>5. ScanInv'
  BY <1>0, <1>1, ScanKept DEF scanVars
<1>6. WaitInv' /\ EndsInv' /\ ForkInv' /\ ShellInv'
  BY <1>0, <1>1 DEF WaitInv, EndsInv, ForkInv, ShellInv
<1>7. Sequential'
  <2>1. \A k \in Cmd : proc[k] \in {"forked", "running", "exited"} => k \in cut
    BY <1>0 DEF Sequential
  <2> QED  BY <1>1, <2>1 DEF Sequential, Cmd
<1>8. ChainIsShell'
  <2> SUFFICES ASSUME cut = {}
               PROVE  /\ ran' = Shell(line, code')[n].ran
                      /\ rc' = Shell(line, code')[n].rc
    BY <1>1 DEF ChainIsShell
  <2>1. i = 1 /\ i - 1 = 0
    BY <1>0 DEF WaitInv, ExecDirect
  <2>2. PlainUpTo(line, code, i - 1)
    <3>1. \A h \in 1 .. i - 1 : FALSE
      BY <2>1
    <3> QED  BY <3>1, Zenon DEF PlainUpTo
  <2>3. ran = {} /\ cwd = <<>>
    BY <1>0, <2>1, <2>2, ShellZero DEF ShellInv
  <2> DEFINE S == Shell(line, code')
  <2>4. S[1].ran = {Executed(1, <<>>, 0)} /\ S[1].rc = code'[1]
    BY <1>0, ShellFirst
  <2> HIDE DEF S
  <2>5. ran' = S[1].ran /\ rc' = S[1].rc
    BY <1>1, <1>2, <1>3, <2>3, <2>4
  <2> QED  BY <1>0, <2>5 DEF S
<1> QED  BY <1>4, <1>5, <1>6, <1>7, <1>8

(* The next command is behind `&&' and the last one has failed: unless a    *)
(* pipeline is skipped, a shell skips exactly this command.                 *)
LEMMA SkipStep ==
    ASSUME ChainInv, SkipCommand PROVE ChainInv'
<1> USE DEF ChainInv
<1>0. /\ line \in Lines /\ n \in Nat /\ n = Len(line.seg) /\ Cmd = 1 .. n
      /\ i \in Nat /\ i >= 1 /\ pc = "loop"
  BY Running DEF SkipCommand, InChain
<1>1. /\ UNCHANGED <<line, mode, n, top, to, s, pc, rc, cwd, proc, code, held, ran, cut>>
      /\ i' = i + 1
  BY DEF SkipCommand, scanVars
<1>2. i <= n /\ i > 1 /\ line.op[i - 1] = "&&" /\ rc # 0 /\ ~(mode = "readonly" /\ n = 1)
  BY DEF SkipCommand, InChain, Skipped
<1>3. TypeOK'
  <2>1. i' \in Nat \ {0}
    BY <1>0, <1>1
  <2> QED  BY <1>1, <2>1 DEF TypeOK, Cmd
<1>4. ScanInv'
  BY <1>0, <1>1, ScanKept DEF scanVars
<1>5. WaitInv'
  <2>1. i + 1 <= n + 1
    BY <1>0, <1>2
  <2> QED  BY <1>0, <1>1, <1>2, <2>1 DEF WaitInv
<1>6. EndsInv' /\ Sequential' /\ ChainIsShell'
  BY <1>0, <1>1 DEF EndsInv, Sequential, ChainIsShell, Cmd
<1>7. ForkInv'
  <2>1. \A k \in Cmd : k >= i => proc[k] = "none"
    BY <1>0 DEF ForkInv
  <2>2. \A k \in Cmd : k >= i + 1 => k >= i
    BY <1>0
  <2> QED  BY <1>0, <1>1, <2>1, <2>2 DEF ForkInv, Cmd
<1>8. ShellInv'
  <2> DEFINE S == Shell(line, code)
  <2> SUFFICES ASSUME cut = {}, PlainUpTo(line, code, i)
               PROVE  /\ i + 1 = n + 1 \/ line.op[i] # "|"
                      /\ ran = S[i].ran /\ rc = S[i].rc /\ cwd = S[i].cwd
    <3>1. i' - 1 = i
      BY <1>0, <1>1
    <3> QED  BY <1>0, <1>1, <3>1, ZenonT(60) DEF ShellInv
  <2>1. PlainUpTo(line, code, i - 1)
    <3>1. i - 1 \in Nat /\ i - 1 =< i
      BY <1>0
    <3> QED  BY <1>0, <3>1, PlainBefore
  <2>2. ran = S[i - 1].ran /\ rc = S[i - 1].rc /\ cwd = S[i - 1].cwd
    BY <1>0, <2>1 DEF ShellInv
  <2>3. PipeHead(line, i) = i
    <3>1. \A j \in i .. i - 1 : line.op[j] = "|"
      BY <1>0
    <3>2. i \in 1 .. i /\ i \in Nat \ {0} /\ line.op[i - 1] # "|"
      BY <1>0, <1>2
    <3> QED  BY <3>1, <3>2, PipeHeadUnique
  <2>4. i + 1 = n + 1 \/ line.op[i] # "|"
    <3>1. i \in 1 .. i /\ (i + 1 # n + 1 => i < Len(line.seg))
      BY <1>0, <1>2
    <3> QED  BY <1>2, <2>2, <2>3, <3>1 DEF PlainUpTo
  <2>5. S[i] = S[i - 1]
    <3>1. i \in 1 .. Len(line.seg)
      BY <1>0, <1>2
    <3> QED  BY <1>0, <1>2, <2>2, <2>3, <3>1, ShellSkips
  <2> QED  BY <2>2, <2>4, <2>5
<1> QED  BY <1>3, <1>4, <1>5, <1>6, <1>7, <1>8

(* A cd of its own moves the directory of the chain, and so a shell's.      *)
LEMMA CdStep ==
    ASSUME ChainInv, bash_exec_readonly_cd PROVE ChainInv'
<1> USE DEF ChainInv
<1>0. /\ line \in Lines /\ n \in Nat /\ n = Len(line.seg) /\ Cmd = 1 .. n
      /\ i \in Nat /\ i >= 1 /\ pc = "loop"
  BY Running DEF bash_exec_readonly_cd, InChain
<1>1. /\ UNCHANGED <<line, mode, n, top, to, s, pc, proc, held, cut>>
      /\ i' = i + 1 /\ ran' = ran \cup {Executed(i, cwd, 0)}
  BY DEF bash_exec_readonly_cd, scanVars, Executes
<1>2. /\ i <= n /\ ~(i > 1 /\ line.op[i - 1] = "&&" /\ rc # 0)
      /\ PipeEnd(i) = i /\ line.seg[i].name = "cd" /\ ~(mode = "readonly" /\ n = 1)
  BY DEF bash_exec_readonly_cd, InChain, Skipped
<1>3. PICK r \in {0, 1} : /\ rc' = r /\ code' = [code EXCEPT ![i] = r]
                          /\ cwd' = IF r = 0 THEN Append(cwd, i) ELSE cwd
  <2>1. PICK ok \in BOOLEAN : /\ rc' = CdCode(ok)
                             /\ code' = [code EXCEPT ![i] = IF ok THEN 0 ELSE 1]
                             /\ cwd' = IF ok THEN Append(cwd, i) ELSE cwd
    BY DEF bash_exec_readonly_cd
  <2>2. CASE ok = TRUE  BY <2>1, <2>2 DEF CdCode
  <2>3. CASE ok = FALSE  BY <2>1, <2>3 DEF CdCode
  <2> QED  BY <2>2, <2>3
<1>4. i \in Cmd
  BY <1>0, <1>2
<1>5. /\ code'[i] = r /\ code' \in [Cmd -> {0, 1}]
      /\ \A j \in 1 .. i - 1 : code'[j] = code[j]
  <2>1. \A j \in 1 .. i - 1 : j \in Cmd /\ j # i
    BY <1>0, <1>2
  <2> QED  BY <1>3, <1>4, <2>1 DEF TypeOK
<1>6. TypeOK'
  <2>1. ran' \subseteq [cmd: Cmd, cwd: Seq(Cmd), input: Nat]
    BY <1>1, <1>4, ExecutesType DEF TypeOK
  <2>2. cwd' \in Seq(Cmd)
    BY <1>3, <1>4 DEF TypeOK
  <2>3. i' \in Nat \ {0}
    BY <1>0, <1>1
  <2> QED  BY <1>1, <1>3, <1>5, <2>1, <2>2, <2>3 DEF TypeOK, Cmd
<1>7. ScanInv'
  BY <1>0, <1>1, ScanKept DEF scanVars
<1>8. WaitInv'
  <2>1. i + 1 <= n + 1
    BY <1>0, <1>2
  <2> QED  BY <1>0, <1>1, <1>2, <2>1 DEF WaitInv
<1>9. EndsInv' /\ Sequential' /\ ChainIsShell'
  BY <1>0, <1>1 DEF EndsInv, Sequential, ChainIsShell, Cmd
<1>10. ForkInv'
  <2>1. \A k \in Cmd : k >= i => proc[k] = "none"
    BY <1>0 DEF ForkInv
  <2>2. \A k \in Cmd : k >= i + 1 => k >= i
    BY <1>0
  <2> QED  BY <1>0, <1>1, <2>1, <2>2 DEF ForkInv, Cmd
<1>11. ShellInv'
  <2> DEFINE S == Shell(line, code')
             S0 == Shell(line, code)
  <2> SUFFICES ASSUME cut = {}, PlainUpTo(line, code', i)
               PROVE  /\ i + 1 = n + 1 \/ line.op[i] # "|"
                      /\ ran' = S[i].ran /\ rc' = S[i].rc /\ cwd' = S[i].cwd
    <3>1. i' - 1 = i
      BY <1>0, <1>1
    <3> QED  BY <1>0, <1>1, <3>1, ZenonT(60) DEF ShellInv
  <2>1. i \in 1 .. Len(line.seg) /\ i - 1 \in 0 .. Len(line.seg) /\ i - 1 \in 0 .. i - 1
    BY <1>0, <1>2
  <2>2. PlainUpTo(line, code, i - 1)
    <3>1. PlainUpTo(line, code, i)
      BY <1>0, <1>5, <2>1, PlainSame
    <3>2. i - 1 \in Nat /\ i - 1 =< i
      BY <1>0
    <3> QED  BY <1>0, <3>1, <3>2, PlainBefore
  <2>3. S[i - 1] = S0[i - 1]
    BY <1>0, <1>5, <2>1, ShellSame
  <2>4. /\ i = 1 \/ i = n + 1 \/ line.op[i - 1] # "|"
        /\ ran = S[i - 1].ran /\ rc = S[i - 1].rc /\ cwd = S[i - 1].cwd
    BY <1>0, <2>2, <2>3 DEF ShellInv
  <2>5. PipeHead(line, i) = i
    <3>1. \A j \in i .. i - 1 : line.op[j] = "|"
      BY <1>0
    <3>2. i \in 1 .. i /\ i \in Nat \ {0} /\ (i = 1 \/ line.op[i - 1] # "|")
      BY <1>0, <1>2, <2>4
    <3> QED  BY <3>1, <3>2, PipeHeadUnique
  <2>6. i + 1 = n + 1 \/ line.op[i] # "|"
    <3>1. i \in 1 .. n
      BY <1>0, <1>2
    <3>2. PipeEnd(i) = n \/ line.op[PipeEnd(i)] # "|"
      BY <1>0, <3>1, PipeEndIs
    <3> QED  BY <1>0, <1>2, <3>2
  <2>7. ~(i > 1 /\ line.op[i - 1] = "&&" /\ S[i - 1].rc # 0)
    BY <1>2, <2>4
  <2>8. /\ S[i].ran = S[i - 1].ran \cup
                {Executed(j, S[i - 1].cwd, IF j > i THEN j - 1 ELSE 0) : j \in i .. i}
        /\ S[i].rc = code'[i]
        /\ S[i].cwd = IF i = i /\ line.seg[i].name = "cd" /\ code'[i] = 0
                      THEN Append(S[i - 1].cwd, i) ELSE S[i - 1].cwd
    BY <1>0, <2>1, <2>5, <2>7, ShellRuns
  <2>9. {Executed(j, S[i - 1].cwd, IF j > i THEN j - 1 ELSE 0) : j \in i .. i}
          = {Executed(i, S[i - 1].cwd, 0)}
    <3>1. i .. i = {i} /\ ~(i > i)
      BY <1>0
    <3> HIDE DEF S
    <3> QED  BY <3>1
  <2> HIDE DEF S
  <2> QED  BY <1>1, <1>2, <1>3, <1>5, <2>4, <2>6, <2>8, <2>9
<1> QED  BY <1>6, <1>7, <1>8, <1>9, <1>10, <1>11

(* A pipeline that is not skipped: none of its stages has been started.     *)
LEMMA BeginPipelineStep ==
    ASSUME ChainInv, BeginPipeline PROVE ChainInv'
<1> USE DEF ChainInv
<1>0. /\ line \in Lines /\ n \in Nat /\ n = Len(line.seg) /\ Cmd = 1 .. n
      /\ i \in Nat /\ i >= 1 /\ pc = "loop"
  BY Running DEF BeginPipeline, InChain
<1>1. /\ UNCHANGED <<line, mode, n, top, i, rc, cwd, proc, code, held, ran, cut>>
      /\ to' = PipeEnd(i) /\ s' = i /\ pc' = "pipeline"
  BY DEF BeginPipeline, scanVars
<1>2. /\ i <= n /\ ~(i > 1 /\ line.op[i - 1] = "&&" /\ rc # 0)
      /\ PipeEnd(i) > i \/ line.seg[i].name # "cd"
      /\ ~(mode = "readonly" /\ n = 1)
  BY DEF BeginPipeline, InChain, Skipped
<1>3. /\ to' \in i .. n
      /\ \A j \in i .. to' - 1 : line.op[j] = "|"
      /\ to' = n \/ line.op[to'] # "|"
  <2>1. i \in 1 .. n
    BY <1>0, <1>2
  <2> QED  BY <1>0, <1>1, <2>1, PipeEndIs
<1>4. \A k \in Cmd : k >= i => proc[k] = "none"
  BY <1>0 DEF ForkInv
<1>5. to' \in Nat /\ s' \in Nat /\ i <= n + 1 /\ s' \in i .. to' /\ ~(s' > i)
  BY <1>0, <1>1, <1>2, <1>3
<1>6. TypeOK'
  BY <1>1, <1>5 DEF TypeOK, Cmd, Where
<1>7. ScanInv'
  BY <1>0, <1>1, ScanKept DEF scanVars
<1>8. WaitInv'
  <2>1. to' = i => line.seg[i].name # "cd"
    BY <1>0, <1>1, <1>2
  <2> QED  BY <1>1, <1>2, <1>3, <1>5, <2>1 DEF WaitInv
<1>9. \A k \in i .. to' : k \in Cmd /\ k >= i
  BY <1>0, <1>3
<1>10. EndsInv'
  BY <1>0, <1>1, <1>4, <1>5, <1>9 DEF EndsInv
<1>11. ForkInv'
  <2>1. \A k \in Cmd : k > to' => k >= i
    BY <1>0, <1>3
  <2> QED  BY <1>1, <1>4, <1>9, <2>1 DEF ForkInv, Cmd
<1>12. Sequential' /\ ChainIsShell'
  BY <1>0, <1>1 DEF Sequential, ChainIsShell, Cmd
<1>13. ShellInv'
  <2> DEFINE S == Shell(line, code)
  <2> SUFFICES ASSUME cut = {}, PlainUpTo(line, code, i)
               PROVE  /\ i = 1 \/ line.op[i - 1] # "|"
                      /\ i > 1 /\ line.op[i - 1] = "&&" => S[i - 1].rc = 0
                      /\ cwd = S[i - 1].cwd
                      /\ ran = S[i - 1].ran \cup
                           {Executed(j, S[i - 1].cwd, IF j > i THEN j - 1 ELSE 0) :
                               j \in {k \in i .. to' : proc[k] \in {"running", "exited", "reaped"}}}
    BY <1>1, ZenonT(60) DEF ShellInv
  <2>1. PlainUpTo(line, code, i - 1)
    <3>1. i - 1 \in Nat /\ i - 1 =< i
      BY <1>0
    <3> QED  BY <1>0, <3>1, PlainBefore
  <2>2. /\ i = 1 \/ i = n + 1 \/ line.op[i - 1] # "|"
        /\ ran = S[i - 1].ran /\ rc = S[i - 1].rc /\ cwd = S[i - 1].cwd
    BY <1>0, <2>1 DEF ShellInv
  <2>3. i # n + 1
    BY <1>0, <1>2
  <2>4. {k \in i .. to' : proc[k] \in {"running", "exited", "reaped"}} = {}
    BY <1>4, <1>9
  <2> HIDE DEF S
  <2> QED  BY <1>2, <2>2, <2>3, <2>4
<1> QED  BY <1>6, <1>7, <1>8, <1>10, <1>11, <1>12, <1>13

(* The stage that is forked stands between the pipe before it and the one   *)
(* that has just been made.                                                 *)
LEMMA ForkStageStep ==
    ASSUME ChainInv, ForkStage PROVE ChainInv'
<1> USE DEF ChainInv
<1>0. /\ line \in Lines /\ n \in Nat /\ n = Len(line.seg) /\ Cmd = 1 .. n
      /\ i \in Nat /\ i >= 1 /\ i <= n + 1 /\ to \in Nat /\ s \in Nat /\ pc = "pipeline"
  BY Running DEF ForkStage
<1>1. /\ UNCHANGED <<line, mode, n, top, i, to, rc, cwd, code, ran, cut>>
      /\ proc' = [proc EXCEPT ![s] = "forked"]
      /\ pc' = IF s = to THEN "wait" ELSE "pipeline"
      /\ s' = IF s = to THEN i ELSE s + 1
  BY DEF ForkStage, scanVars
<1>2. held' = [held EXCEPT ![s] = held[0] \cup (IF s < to THEN {"r", "w"} \X {s} ELSE {}),
                           ![0] = (@ \ {<<"r", s - 1>>}) \cup (IF s < to THEN {<<"r", s>>} ELSE {})]
  BY DEF ForkStage, KeptEnds
<1>3. /\ to \in i .. n /\ s \in i .. to
      /\ \A j \in i .. to - 1 : line.op[j] = "|"
      /\ to = n \/ line.op[to] # "|"
      /\ to = i => line.seg[i].name # "cd"
      /\ ~(mode = "readonly" /\ n = 1)
  BY <1>0 DEF WaitInv
<1>4. s \in Cmd /\ s # 0 /\ s \in DOMAIN held /\ 0 \in DOMAIN held
      /\ DOMAIN held' = DOMAIN held
  <2>1. s \in Cmd /\ s # 0
    BY <1>0, <1>3
  <2>2. s \in DOMAIN held /\ 0 \in DOMAIN held
    BY <2>1 DEF TypeOK
  <2> QED  BY <2>1, <2>2, <1>2
<1>5. /\ proc'[s] = "forked" /\ \A k \in Cmd : k # s => proc'[k] = proc[k]
      /\ proc' \in [Cmd -> {"none", "forked", "running", "exited", "reaped"}]
  BY <1>1, <1>4 DEF TypeOK
<1>6. held[0] = IF s > i THEN {<<"r", s - 1>>} ELSE {}
  BY <1>0 DEF EndsInv
<1>7. /\ held'[s] = held[0] \cup (IF s < to THEN {"r", "w"} \X {s} ELSE {})
      /\ held'[0] = (held[0] \ {<<"r", s - 1>>}) \cup (IF s < to THEN {<<"r", s>>} ELSE {})
      /\ \A k \in Cmd : k # s /\ k # 0 => held'[k] = held[k]
  <2>1. \A k \in Cmd : k \in DOMAIN held
    BY DEF TypeOK
  <2> QED  BY <1>2, <1>4, <2>1
<1>8. held'[0] = IF s < to THEN {<<"r", s>>} ELSE {}
  BY <1>6, <1>7
<1>9. proc[s] = "none"
  <2>1. s \in s .. to
    BY <1>0, <1>3
  <2> QED  BY <1>0, <2>1 DEF ForkInv
<1>10. \/ s = to /\ pc' = "wait" /\ s' = i
       \/ s # to /\ pc' = "pipeline" /\ s' = s + 1 /\ s < to /\ s' > i /\ s' \in i .. to /\ s' - 1 = s
  BY <1>0, <1>1, <1>3
<1>11. TypeOK'
  <2>1. s' \in Nat
    BY <1>0, <1>10
  <2>2. pc' \in Where
    BY <1>1 DEF Where
  <2> QED  BY <1>1, <1>4, <1>5, <2>1, <2>2 DEF TypeOK, Cmd
<1>12. ScanInv'
  BY <1>0, <1>1, ScanKept DEF scanVars
<1>13. WaitInv'
  <2>1. pc' = "wait" => s' \in i .. to + 1 /\ ~(s' > i) /\ \A k \in i .. s' - 1 : FALSE
    BY <1>0, <1>3, <1>10
  <2>2. pc' # "loop" /\ (pc' = "pipeline" => s' \in i .. to)
    BY <1>10
  <2> QED  BY <1>0, <1>1, <1>3, <2>1, <2>2 DEF WaitInv
<1>14. \A k \in i .. to : k \in Cmd /\ k # 0
  BY <1>0, <1>3
<1>15. EndsInv'
  <2>1. held'[0] = IF pc' = "pipeline" /\ s' > i THEN {<<"r", s' - 1>>} ELSE {}
    <3>1. CASE s = to
      BY <1>0, <1>8, <1>10, <3>1
    <3>2. CASE s # to
      BY <1>8, <1>10, <3>2
    <3> QED  BY <3>1, <3>2
  <2>2. ASSUME NEW k \in i .. to, proc'[k] = "forked"
        PROVE  held'[k] = (IF k > i THEN {<<"r", k - 1>>} ELSE {})
                       \cup (IF k < to THEN {"r", "w"} \X {k} ELSE {})
    <3>1. CASE k = s
      BY <1>6, <1>7, <3>1
    <3>2. CASE k # s
      <4>1. proc[k] = "forked" /\ held'[k] = held[k]
        BY <1>5, <1>7, <1>14, <2>2, <3>2
      <4> QED  BY <1>0, <4>1 DEF EndsInv
    <3> QED  BY <3>1, <3>2
  <2> QED  BY <1>1, <2>1, <2>2 DEF EndsInv
<1>16. ForkInv'
  <2>1. ASSUME NEW k \in Cmd, k > to PROVE proc'[k] = "none"
    <3>1. k # s
      BY <1>0, <1>3, <2>1
    <3> QED  BY <1>0, <1>5, <2>1, <3>1 DEF ForkInv
  <2>2. ASSUME s # to, NEW k \in s' .. to PROVE proc'[k] = "none"
    <3>1. k \in s .. to /\ k # s /\ k \in Cmd
      BY <1>0, <1>3, <1>10, <2>2
    <3> QED  BY <1>0, <1>5, <3>1 DEF ForkInv
  <2> QED  BY <1>1, <1>10, <2>1, <2>2 DEF ForkInv, Cmd
<1>17. Sequential'
  <2>1. s \in i .. to
    BY <1>3
  <2> QED  BY <1>0, <1>1, <1>5, <1>10, <2>1 DEF Sequential, Cmd
<1>18. ChainIsShell'
  BY <1>10 DEF ChainIsShell
<1>19. ShellInv'
  <2>1. {k \in i .. to : proc'[k] \in {"running", "exited", "reaped"}}
          = {k \in i .. to : proc[k] \in {"running", "exited", "reaped"}}
    BY <1>5, <1>9, <1>14
  <2>2. pc' # "loop" /\ pc' \in {"pipeline", "wait"} /\ pc \in {"pipeline", "wait"}
    BY <1>0, <1>10
  <2> QED  BY <1>1, <2>1, <2>2, ZenonT(60) DEF ShellInv
<1> QED  BY <1>11, <1>12, <1>13, <1>15, <1>16, <1>17, <1>18, <1>19

(* A pipeline that is given up: what was started of it is marked as cut.    *)
LEMMA CutPipelineStep ==
    ASSUME ChainInv, CutPipeline PROVE ChainInv'
<1> USE DEF ChainInv
<1>0. /\ line \in Lines /\ n \in Nat /\ n = Len(line.seg) /\ Cmd = 1 .. n
      /\ i \in Nat /\ i >= 1 /\ i <= n + 1 /\ to \in Nat /\ s \in Nat /\ pc = "pipeline"
  BY Running DEF CutPipeline
<1>1. /\ UNCHANGED <<line, mode, n, top, to, s, cwd, proc, code, ran>>
      /\ held' = [held EXCEPT ![0] = {}]
      /\ rc' = 127 /\ cut' = cut \cup i .. to
      /\ i' = to + 1 /\ pc' = "loop"
  BY DEF CutPipeline, CutEnds, scanVars
<1>2. to \in i .. n /\ ~(mode = "readonly" /\ n = 1)
  BY <1>0 DEF WaitInv
<1>3. /\ i' \in Nat \ {0} /\ i' <= n + 1 /\ i .. to \subseteq Cmd /\ i \in i .. to
      /\ DOMAIN held' = DOMAIN held /\ held'[0] = {}
  BY <1>0, <1>1, <1>2 DEF TypeOK
<1>4. TypeOK'
  BY <1>1, <1>3 DEF TypeOK, Cmd, Where
<1>5. ScanInv'
  BY <1>0, <1>1, ScanKept DEF scanVars
<1>6. WaitInv'
  BY <1>0, <1>1, <1>2, <1>3 DEF WaitInv
<1>7. EndsInv' /\ ChainIsShell'
  BY <1>1, <1>3 DEF EndsInv, ChainIsShell
<1>8. ForkInv'
  <2>1. \A k \in Cmd : k >= to + 1 => k > to
    BY <1>0
  <2>2. \A k \in Cmd : k > to => proc[k] = "none"
    BY <1>0 DEF ForkInv
  <2> QED  BY <1>1, <2>1, <2>2 DEF ForkInv, Cmd
<1>9. Sequential'
  BY <1>0, <1>1 DEF Sequential, Cmd
<1>10. ShellInv'
  <2>1. cut' # {}
    BY <1>1, <1>3
  <2> QED  BY <2>1 DEF ShellInv
<1> QED  BY <1>4, <1>5, <1>6, <1>7, <1>8, <1>9, <1>10

(* A stage is reaped; behind the last one the chain has done what a shell   *)
(* does with the pipeline as a whole.                                       *)
LEMMA WaitStageStep ==
    ASSUME ChainInv, WaitStage PROVE ChainInv'
<1> USE DEF ChainInv
<1>0. /\ line \in Lines /\ n \in Nat /\ n = Len(line.seg) /\ Cmd = 1 .. n
      /\ i \in Nat /\ i >= 1 /\ i <= n + 1 /\ to \in Nat /\ s \in Nat /\ pc = "wait"
  BY Running DEF WaitStage
<1>1. UNCHANGED <<line, mode, n, top, to, cwd, code, held, ran, cut>>
  BY DEF WaitStage, scanVars
<1>2. /\ to \in i .. n
      /\ \A j \in i .. to - 1 : line.op[j] = "|"
      /\ to = n \/ line.op[to] # "|"
      /\ to = i => line.seg[i].name # "cd"
      /\ ~(mode = "readonly" /\ n = 1)
      /\ s \in i .. to + 1
      /\ \A k \in i .. s - 1 : proc[k] = "reaped"
      /\ s > i => rc = code[s - 1]
  BY <1>0 DEF WaitInv
<1>3. \A k \in i .. to : k \in Cmd
  BY <1>0, <1>2
<1>4. held[0] = {}
  BY <1>0 DEF EndsInv
<1>5. CASE s > to
  <2>1. pc' = "loop" /\ i' = to + 1 /\ UNCHANGED <<s, rc, proc>>
    BY <1>5 DEF WaitStage
  <2>2. /\ s - 1 = to /\ s > i /\ i' \in Nat \ {0} /\ i' <= n + 1 /\ i' - 1 = to
        /\ rc = code[to] /\ \A k \in i .. to : proc[k] = "reaped"
    BY <1>0, <1>2, <1>5, <2>1
  <2>3. TypeOK'
    BY <1>1, <2>1, <2>2 DEF TypeOK, Cmd, Where
  <2>4. ScanInv'
    BY <1>0, <1>1, <2>1, ScanKept DEF scanVars
  <2>5. WaitInv'
    BY <1>1, <1>2, <2>1, <2>2 DEF WaitInv
  <2>6. EndsInv' /\ ChainIsShell'
    BY <1>1, <1>4, <2>1 DEF EndsInv, ChainIsShell
  <2>7. ForkInv'
    <3>1. \A k \in Cmd : k >= to + 1 => k > to
      BY <1>0
    <3>2. \A k \in Cmd : k > to => proc[k] = "none"
      BY <1>0 DEF ForkInv
    <3> QED  BY <1>1, <2>1, <3>1, <3>2 DEF ForkInv, Cmd
  <2>8. Sequential'
    <3>1. \A k \in Cmd : proc[k] \in {"forked", "running", "exited"} => k \in cut
      BY <1>0, <2>2 DEF Sequential
    <3> QED  BY <1>1, <2>1, <3>1 DEF Sequential, Cmd
  <2>9. ShellInv'
    <3> DEFINE S == Shell(line, code)
    <3> SUFFICES ASSUME cut = {}, PlainUpTo(line, code, to)
                 PROVE  /\ to + 1 = n + 1 \/ line.op[to] # "|"
                        /\ ran = S[to].ran /\ rc = S[to].rc /\ cwd = S[to].cwd
      BY <1>1, <2>1, <2>2, ZenonT(60) DEF ShellInv
    <3>1. i =< to /\ i \in 1 .. to /\ to \in Nat \ {0} /\ to \in 1 .. Len(line.seg)
      BY <1>0, <1>2
    <3>2. PlainUpTo(line, code, i)
      BY <1>0, <3>1, PlainBefore
    <3>3. /\ i = 1 \/ line.op[i - 1] # "|"
          /\ i > 1 /\ line.op[i - 1] = "&&" => S[i - 1].rc = 0
          /\ cwd = S[i - 1].cwd
          /\ ran = S[i - 1].ran \cup
                   {Executed(j, S[i - 1].cwd, IF j > i THEN j - 1 ELSE 0) :
                       j \in {k \in i .. to : proc[k] \in {"running", "exited", "reaped"}}}
      BY <1>0, <3>2 DEF ShellInv
    <3>4. {k \in i .. to : proc[k] \in {"running", "exited", "reaped"}} = i .. to
      BY <2>2
    <3>5. PipeHead(line, to) = i
      BY <1>2, <3>1, <3>3, PipeHeadUnique
    <3>6. /\ S[to].ran = S[i - 1].ran \cup
                {Executed(j, S[i - 1].cwd, IF j > i THEN j - 1 ELSE 0) : j \in i .. to}
          /\ S[to].rc = code[to]
          /\ S[to].cwd = IF i = to /\ line.seg[to].name = "cd" /\ code[to] = 0
                         THEN Append(S[i - 1].cwd, to) ELSE S[i - 1].cwd
      BY <1>0, <3>1, <3>3, <3>5, ShellRuns
    <3>7. S[to].cwd = S[i - 1].cwd
      BY <1>2, <3>6
    <3>8. to + 1 = n + 1 \/ line.op[to] # "|"
      BY <1>2
    <3> HIDE DEF S
    <3> QED  BY <2>2, <3>3, <3>4, <3>6, <3>7, <3>8
  <2> QED  BY <2>3, <2>4, <2>5, <2>6, <2>7, <2>8, <2>9
<1>6. CASE ~(s > to)
  <2>1. /\ proc[s] = "exited" /\ proc' = [proc EXCEPT ![s] = "reaped"]
        /\ rc' = code[s] /\ s' = s + 1 /\ pc' = "wait" /\ i' = i
    BY <1>0, <1>6 DEF WaitStage, WaitNext
  <2>2. s \in i .. to /\ s' \in i .. to + 1 /\ s' - 1 = s /\ s' \in Nat
    BY <1>0, <1>2, <1>6, <2>1
  <2>3. /\ s \in Cmd /\ proc'[s] = "reaped" /\ \A k \in Cmd : k # s => proc'[k] = proc[k]
        /\ proc' \in [Cmd -> {"none", "forked", "running", "exited", "reaped"}]
    BY <1>3, <2>1, <2>2 DEF TypeOK
  <2>4. TypeOK'
    <3>1. rc' \in {0, 1, 127}
      BY <2>1, <2>3 DEF TypeOK
    <3> QED  BY <1>1, <2>1, <2>2, <2>3, <3>1 DEF TypeOK, Cmd, Where
  <2>5. ScanInv'
    BY <1>0, <1>1, <2>1, ScanKept DEF scanVars
  <2>6. WaitInv'
    <3>1. ASSUME NEW k \in i .. s PROVE proc'[k] = "reaped"
      <4>1. CASE k = s
        BY <2>3, <4>1
      <4>2. CASE k # s
        <5>1. k \in i .. s - 1 /\ k \in Cmd
          BY <1>0, <1>2, <2>2, <4>2
        <5> QED  BY <1>2, <2>3, <4>2, <5>1
      <4> QED  BY <4>1, <4>2
    <3> QED  BY <1>0, <1>1, <1>2, <2>1, <2>2, <3>1 DEF WaitInv
  <2>7. EndsInv'
    BY <1>0, <1>1, <1>3, <1>4, <2>1, <2>3 DEF EndsInv
  <2>8. ForkInv'
    <3>1. ~(s > to)
      BY <1>6
    <3> QED  BY <1>0, <1>1, <2>1, <2>3, <3>1 DEF ForkInv, Cmd
  <2>9. Sequential' /\ ChainIsShell'
    BY <1>0, <1>1, <2>1, <2>3 DEF Sequential, ChainIsShell, Cmd
  <2>10. ShellInv'
    <3>1. {k \in i .. to : proc'[k] \in {"running", "exited", "reaped"}}
            = {k \in i .. to : proc[k] \in {"running", "exited", "reaped"}}
      BY <1>3, <2>1, <2>3
    <3>2. pc' # "loop" /\ pc' \in {"pipeline", "wait"} /\ pc \in {"pipeline", "wait"}
      BY <1>0, <2>1
    <3> QED  BY <1>1, <2>1, <3>1, <3>2, ZenonT(60) DEF ShellInv
  <2> QED  BY <2>4, <2>5, <2>6, <2>7, <2>8, <2>9, <2>10
<1> QED  BY <1>5, <1>6

(* The evaluator is past the last command.                                  *)
LEMMA ExitChainStep ==
    ASSUME ChainInv, ExitChain PROVE ChainInv'
<1> USE DEF ChainInv
<1>0. /\ line \in Lines /\ n \in Nat /\ n = Len(line.seg) /\ Cmd = 1 .. n
      /\ i \in Nat /\ i >= 1 /\ i <= n + 1 /\ pc = "loop" /\ i > n
  BY Running DEF ExitChain
<1>1. /\ UNCHANGED <<line, mode, n, top, i, to, s, rc, cwd, proc, code, ran, cut>>
      /\ held' = [held EXCEPT ![0] = {}] /\ pc' = "exited"
  BY DEF ExitChain, scanVars
<1>2. DOMAIN held' = DOMAIN held /\ held'[0] = {}
  BY <1>1 DEF TypeOK
<1>3. TypeOK'
  BY <1>1, <1>2 DEF TypeOK, Cmd, Where
<1>4. ScanInv'
  BY <1>0, <1>1, ScanKept DEF scanVars
<1>5. WaitInv' /\ EndsInv' /\ ForkInv' /\ ShellInv'
  BY <1>1, <1>2 DEF WaitInv, EndsInv, ForkInv, ShellInv
<1>6. Sequential'
  BY <1>0, <1>1 DEF Sequential, Cmd
<1>7. ChainIsShell'
  <2>1. i - 1 = n
    BY <1>0
  <2>2. cut = {} /\ PlainUpTo(line, code, n) =>
          ran = Shell(line, code)[n].ran /\ rc = Shell(line, code)[n].rc
    BY <1>0, <2>1, ZenonT(60) DEF ShellInv
  <2> QED  BY <1>0, <1>1, <2>2, Zenon DEF ChainIsShell, PlainPipelines
<1> QED  BY <1>3, <1>4, <1>5, <1>6, <1>7

(* While a process lives the line has been accepted, and the process is a   *)
(* stage of the pipeline at hand unless a pipeline has been cut.            *)
LEMMA Live ==
    ASSUME ChainInv, NEW k \in Cmd, proc[k] \in {"forked", "running"}
    PROVE  /\ pc \in {"loop", "pipeline", "wait", "exited"}
           /\ line \in Lines /\ n \in Nat /\ n = Len(line.seg) /\ Cmd = 1 .. n
           /\ i \in Nat /\ i >= 1 /\ to \in Nat /\ s \in Nat
           /\ cut = {} => pc \in {"pipeline", "wait"} /\ k \in i .. to
           /\ pc \in {"pipeline", "wait"} => to \in i .. n
           /\ pc = "wait" => k \notin i .. s - 1
<1> USE DEF ChainInv
<1>1. pc \in {"loop", "pipeline", "wait", "exited"}
  BY DEF ForkInv, TypeOK, Where
<1>2. line \in Lines /\ n \in Nat /\ i \in Nat /\ i >= 1 /\ to \in Nat /\ s \in Nat
  BY DEF TypeOK
<1>3. n = Len(line.seg)
  BY <1>1 DEF ScanInv
<1>4. Cmd = 1 .. n
  BY <1>2, <1>3, LineType DEF Cmd
<1>5. /\ cut = {} => pc \in {"pipeline", "wait"} /\ k \in i .. to
      /\ pc \in {"pipeline", "wait"} => to \in i .. n
      /\ pc = "wait" => k \notin i .. s - 1
  BY DEF Sequential, WaitInv
<1> QED  BY <1>1, <1>2, <1>3, <1>4, <1>5

(* A stage starts where the chain started, behind the pipe of the stage     *)
(* before it: where a shell starts it, when the pipeline is plain.          *)
LEMMA ExecStageStep ==
    ASSUME ChainInv, NEW k \in Cmd, ExecStage(k) PROVE ChainInv'
<1> USE DEF ChainInv
<1>1. proc[k] = "forked"
  BY DEF ExecStage
<1>0. /\ pc \in {"loop", "pipeline", "wait", "exited"}
      /\ line \in Lines /\ n \in Nat /\ n = Len(line.seg) /\ Cmd = 1 .. n
      /\ i \in Nat /\ i >= 1 /\ to \in Nat /\ s \in Nat
      /\ cut = {} => pc \in {"pipeline", "wait"} /\ k \in i .. to
      /\ pc \in {"pipeline", "wait"} => to \in i .. n
      /\ pc = "wait" => k \notin i .. s - 1
  BY <1>1, Live
<1> DEFINE input == IF <<"r", k - 1>> \in held[k] THEN k - 1 ELSE 0
<1>2. /\ UNCHANGED <<line, mode, n, top, pc, i, to, s, rc, cwd, code, cut>>
      /\ proc' = [proc EXCEPT ![k] = "running"]
      /\ held' = [held EXCEPT ![k] = ExecEnds(k, @)]
      /\ ran' = ran \cup {Executed(k, StageCwd(k), input)}
  BY DEF ExecStage, scanVars, Executes
<1> HIDE DEF input
<1>3. /\ proc'[k] = "running" /\ \A j \in Cmd : j # k => proc'[j] = proc[j]
      /\ proc' \in [Cmd -> {"none", "forked", "running", "exited", "reaped"}]
  BY <1>2 DEF TypeOK
<1>4. /\ DOMAIN held' = DOMAIN held /\ held'[0] = held[0]
      /\ \A j \in Cmd : j # k => held'[j] = held[j]
  <2>1. k # 0 /\ 0 \in DOMAIN held /\ \A j \in Cmd : j \in DOMAIN held
    BY <1>0 DEF TypeOK
  <2> QED  BY <1>2, <2>1
<1>5. TypeOK'
  <2>1. StageCwd(k) \in Seq(Cmd)
    BY DEF StageCwd, TypeOK
  <2>2. input \in Nat
    BY <1>0 DEF input
  <2>3. ran' \subseteq [cmd: Cmd, cwd: Seq(Cmd), input: Nat]
    BY <1>2, <2>1, <2>2, ExecutesType
  <2> QED  BY <1>2, <1>3, <1>4, <2>3 DEF TypeOK, Cmd
<1>6. ScanInv'
  BY <1>0, <1>2, ScanKept DEF scanVars
<1>7. pc \in {"pipeline", "wait"} => \A j \in i .. to : j \in Cmd
  BY <1>0
<1>8. WaitInv'
  <2>1. pc = "wait" => \A j \in i .. s - 1 : proc'[j] = "reaped"
    <3> SUFFICES ASSUME pc = "wait", NEW j \in i .. s - 1 PROVE proc'[j] = "reaped"
      OBVIOUS
    <3>1. j # k /\ proc[j] = "reaped" /\ s \in i .. to + 1
      BY <1>0 DEF WaitInv
    <3>2. j \in i .. to
      BY <1>0, <3>1
    <3> QED  BY <1>3, <1>7, <3>1, <3>2
  <2> QED  BY <1>2, <2>1 DEF WaitInv
<1>9. EndsInv'
  <2>1. pc \in {"pipeline", "wait"} => \A j \in i .. to :
          proc'[j] = "forked" => proc[j] = "forked" /\ held'[j] = held[j]
    BY <1>3, <1>4, <1>7
  <2> QED  BY <1>2, <1>4, <2>1 DEF EndsInv
<1>10. ForkInv'
  <2>1. \A j \in Cmd : proc[j] = "none" => proc'[j] = "none"
    BY <1>1, <1>3
  <2>2. pc = "pipeline" => \A j \in s .. to : j \in Cmd
    BY <1>0 DEF WaitInv
  <2> QED  BY <1>2, <2>1, <2>2 DEF ForkInv, Cmd
<1>11. Sequential'
  BY <1>1, <1>2, <1>3 DEF Sequential, Cmd
<1>12. ChainIsShell'
  BY <1>0, <1>2 DEF ChainIsShell
<1>13. ShellInv'
  <2> DEFINE S == Shell(line, code)
             G(j) == Executed(j, S[i - 1].cwd, IF j > i THEN j - 1 ELSE 0)
             A == {j \in i .. to : proc[j] \in {"running", "exited", "reaped"}}
             B == {j \in i .. to : proc'[j] \in {"running", "exited", "reaped"}}
  <2> SUFFICES ASSUME cut = {}, PlainUpTo(line, code, i)
               PROVE  /\ i = 1 \/ line.op[i - 1] # "|"
                      /\ i > 1 /\ line.op[i - 1] = "&&" => S[i - 1].rc = 0
                      /\ cwd = S[i - 1].cwd
                      /\ ran' = S[i - 1].ran \cup {G(j) : j \in B}
    <3>1. cut = {} => pc # "loop"
      BY <1>0
    <3> QED  BY <1>2, <3>1, ZenonT(60) DEF ShellInv
  <2>1. /\ i = 1 \/ line.op[i - 1] # "|"
        /\ i > 1 /\ line.op[i - 1] = "&&" => S[i - 1].rc = 0
        /\ cwd = S[i - 1].cwd
        /\ ran = S[i - 1].ran \cup {G(j) : j \in A}
    BY <1>0, ZenonT(60) DEF ShellInv
  <2>2. k \in i .. to /\ to \in i .. n
    BY <1>0
  <2>3. held[k] = (IF k > i THEN {<<"r", k - 1>>} ELSE {})
                       \cup (IF k < to THEN {"r", "w"} \X {k} ELSE {})
    BY <1>0, <1>1, <2>2 DEF EndsInv
  <2>4. input = IF k > i THEN k - 1 ELSE 0
    <3>1. k - 1 # k
      BY <1>0
    <3>2. <<"r", k - 1>> \in held[k] <=> k > i
      BY <2>3, <3>1
    <3> QED  BY <3>2 DEF input
  <2>5. StageCwd(k) = S[i - 1].cwd
    <3>1. CASE i = to
      <4>1. ~(k > i) /\ ~(k < to)
        BY <1>0, <2>2, <3>1
      <4> QED  BY <2>1, <2>3, <4>1 DEF StageCwd
    <3>2. CASE i # to
      <4>1. (k > i \/ k < to) /\ i < Len(line.seg) /\ i \in i .. to - 1 /\ i \in 1 .. i
        BY <1>0, <2>2, <3>2
      <4>2. <<"r", k>> \in {"r", "w"} \X {k}
        OBVIOUS
      <4>3. StageCwd(k) = <<>>
        BY <2>3, <4>1, <4>2 DEF StageCwd
      <4>4. line.op[i] = "|"
        BY <1>0, <4>1 DEF WaitInv
      <4>5. PipeHead(line, i) = i
        <5>1. \A j \in i .. i - 1 : line.op[j] = "|"
          BY <1>0
        <5>2. i \in Nat \ {0}
          BY <1>0
        <5> QED  BY <4>1, <5>1, <5>2, <2>1, PipeHeadUnique
      <4> QED  BY <4>1, <4>3, <4>4, <4>5 DEF PlainUpTo
    <3> QED  BY <3>1, <3>2
  <2>6. B = A \cup {k}
    BY <1>0, <1>3, <1>7, <2>2
  <2>7. Executed(k, StageCwd(k), input) = G(k)
    BY <2>4, <2>5
  <2> HIDE DEF A, B, G
  <2> QED  BY <1>2, <2>1, <2>6, <2>7
<1> QED  BY <1>5, <1>6, <1>8, <1>9, <1>10, <1>11, <1>12, <1>13

(* The code of a command is read only after the command has ended: what a   *)
(* shell did before the pipeline at hand does not depend on it.             *)
LEMMA EndCommandStep ==
    ASSUME ChainInv, NEW k \in Cmd, EndCommand(k) PROVE ChainInv'
<1> USE DEF ChainInv
<1>1. proc[k] = "running"
  BY DEF EndCommand
<1>0. /\ pc \in {"loop", "pipeline", "wait", "exited"}
      /\ line \in Lines /\ n \in Nat /\ n = Len(line.seg) /\ Cmd = 1 .. n
      /\ i \in Nat /\ i >= 1 /\ to \in Nat /\ s \in Nat
      /\ cut = {} => pc \in {"pipeline", "wait"} /\ k \in i .. to
      /\ pc \in {"pipeline", "wait"} => to \in i .. n
      /\ pc = "wait" => k \notin i .. s - 1
  BY <1>1, Live
<1>2. /\ UNCHANGED <<line, mode, n, top, pc, i, to, s, rc, cwd, ran, cut>>
      /\ proc' = [proc EXCEPT ![k] = "exited"]
      /\ held' = [held EXCEPT ![k] = {}]
  BY DEF EndCommand, scanVars
<1>3. PICK r \in {0, 1} : code' = [code EXCEPT ![k] = r]
  BY DEF EndCommand
<1>4. /\ proc'[k] = "exited" /\ \A j \in Cmd : j # k => proc'[j] = proc[j]
      /\ proc' \in [Cmd -> {"none", "forked", "running", "exited", "reaped"}]
  BY <1>2 DEF TypeOK
<1>5. /\ DOMAIN held' = DOMAIN held /\ held'[0] = held[0]
      /\ \A j \in Cmd : j # k => held'[j] = held[j]
  <2>1. k # 0 /\ 0 \in DOMAIN held /\ \A j \in Cmd : j \in DOMAIN held
    BY <1>0 DEF TypeOK
  <2> QED  BY <1>2, <2>1
<1>6. code' \in [Cmd -> {0, 1}] /\ \A j \in Cmd : j # k => code'[j] = code[j]
  BY <1>3 DEF TypeOK
<1>7. TypeOK'
  BY <1>2, <1>4, <1>5, <1>6 DEF TypeOK, Cmd
<1>8. ScanInv'
  BY <1>0, <1>2, ScanKept DEF scanVars
<1>9. pc \in {"pipeline", "wait"} => \A j \in i .. to : j \in Cmd
  BY <1>0
<1>10. WaitInv'
  <2>1. ASSUME pc = "wait", NEW j \in i .. s - 1
        PROVE  proc'[j] = "reaped" /\ code'[j] = code[j]
    <3>1. j # k /\ proc[j] = "reaped" /\ s \in i .. to + 1
      BY <1>0, <2>1 DEF WaitInv
    <3>2. j \in i .. to
      BY <1>0, <3>1
    <3> QED  BY <1>4, <1>6, <1>9, <2>1, <3>1, <3>2
  <2>2. pc = "wait" /\ s > i => s - 1 \in i .. s - 1
    BY <1>0
  <2> QED  BY <1>2, <2>1, <2>2 DEF WaitInv
<1>11. EndsInv'
  <2>1. pc \in {"pipeline", "wait"} => \A j \in i .. to :
          proc'[j] = "forked" => proc[j] = "forked" /\ held'[j] = held[j]
    BY <1>4, <1>5, <1>9
  <2> QED  BY <1>2, <1>5, <2>1 DEF EndsInv
<1>12. ForkInv'
  <2>1. \A j \in Cmd : proc[j] = "none" => proc'[j] = "none"
    BY <1>1, <1>4
  <2>2. pc = "pipeline" => \A j \in s .. to : j \in Cmd
    BY <1>0 DEF WaitInv
  <2> QED  BY <1>2, <2>1, <2>2 DEF ForkInv, Cmd
<1>13. Sequential'
  BY <1>1, <1>2, <1>4 DEF Sequential, Cmd
<1>14. ChainIsShell'
  BY <1>0, <1>2 DEF ChainIsShell
<1>15. ShellInv'
  <2> SUFFICES ASSUME cut = {} PROVE ShellInv'
    BY <1>2 DEF ShellInv
  <2>1. /\ k \in i .. to /\ to \in i .. n /\ pc \in {"pipeline", "wait"} /\ pc # "loop"
    BY <1>0
  <2>2. /\ i \in 1 .. Len(line.seg) /\ i - 1 \in 0 .. Len(line.seg) /\ i - 1 \in 0 .. i - 1
        /\ \A j \in 1 .. i - 1 : j \in Cmd /\ j # k
    BY <1>0, <2>1
  <2>3. \A j \in 1 .. i - 1 : code'[j] = code[j]
    BY <1>6, <2>2
  <2>4. Shell(line, code')[i - 1] = Shell(line, code)[i - 1]
    BY <1>0, <2>2, <2>3, ShellSame
  <2>5. PlainUpTo(line, code', i) <=> PlainUpTo(line, code, i)
    BY <1>0, <2>2, <2>3, PlainSame
  <2>6. {j \in i .. to : proc'[j] \in {"running", "exited", "reaped"}}
          = {j \in i .. to : proc[j] \in {"running", "exited", "reaped"}}
    BY <1>1, <1>4, <1>9, <2>1
  <2> DEFINE S == Shell(line, code)
             A == {j \in i .. to : proc[j] \in {"running", "exited", "reaped"}}
             B == {j \in i .. to : proc'[j] \in {"running", "exited", "reaped"}}
             Done(sh, C) ==
               /\ i = 1 \/ line.op[i - 1] # "|"
               /\ i > 1 /\ line.op[i - 1] = "&&" => sh.rc = 0
               /\ cwd = sh.cwd
               /\ ran = sh.ran \cup
                      {Executed(j, sh.cwd, IF j > i THEN j - 1 ELSE 0) : j \in C}
  <2>7. PlainUpTo(line, code, i) => Done(S[i - 1], A)
    BY <2>1, ZenonT(60) DEF ShellInv
  <2>8. PlainUpTo(line, code', i) => Done(Shell(line, code')[i - 1], B)
    <3> HIDE DEF Done, A, B
    <3>1. A = B
      BY <2>6 DEF A, B
    <3> QED  BY <2>4, <2>5, <2>7, <3>1
  <2> QED  BY <1>2, <2>1, <2>8, ZenonT(60) DEF ShellInv
<1> QED  BY <1>7, <1>8, <1>10, <1>11, <1>12, <1>13, <1>14, <1>15

-----------------------------------------------------------------------------
(* The theorems.                                                            *)

(* Every step keeps the invariant.                                          *)
LEMMA ChainStep == ChainInv /\ [Next]_vars => ChainInv'
<1> SUFFICES ASSUME ChainInv, [Next]_vars PROVE ChainInv'
  OBVIOUS
<1>1. CASE Chain
  BY <1>1, ScanStep, ExecDirectStep, SkipStep, CdStep, BeginPipelineStep, ForkStageStep,
     CutPipelineStep, WaitStageStep, ExitChainStep DEF Chain
<1>2. CASE \E k \in Cmd : ExecStage(k) \/ EndCommand(k)
  BY <1>2, ExecStageStep, EndCommandStep
<1>3. CASE UNCHANGED vars
  <2>1. ShellInv' /\ ChainIsShell'
    <3>1. /\ line' = line /\ code' = code /\ pc' = pc /\ n' = n /\ i' = i /\ to' = to
          /\ ran' = ran /\ rc' = rc /\ cwd' = cwd /\ cut' = cut /\ proc' = proc
      BY <1>3 DEF vars
    <3> QED  BY <3>1, Zenon DEF ChainInv, ShellInv, ChainIsShell, PlainPipelines
  <2>2. TypeOK' /\ ForkInv' /\ Sequential'
    BY <1>3 DEF vars, ChainInv, TypeOK, ForkInv, Sequential, Cmd
  <2>3. ScanInv'
    BY <1>3 DEF vars, ChainInv, ScanInv, Eligible, AllowedOp
  <2>4. WaitInv' /\ EndsInv'
    BY <1>3 DEF vars, ChainInv, WaitInv, EndsInv
  <2> QED  BY <2>1, <2>2, <2>3, <2>4 DEF ChainInv
<1> QED  BY <1>1, <1>2, <1>3 DEF Next

(* The invariant that carries the others: the accepted line, the pipeline   *)
(* at hand, the pipe ends of its stages, and the agreement with a shell up  *)
(* to the command the evaluator of bash_exec_readonly_chain is at.          *)
THEOREM ChainInvariant == Spec => []ChainInv
<1>1. Init => ChainInv
  BY ChainInit
<1>2. ChainInv /\ [Next]_vars => ChainInv'
  BY ChainStep
<1> QED  BY <1>1, <1>2, PTL DEF Spec

(* Every line of any length that the guarded chain runs to its end has had  *)
(* the same commands executed, in the same directories and behind the same  *)
(* pipes, and ends with the same code, as under a shell.                    *)
THEOREM RunsAsShell == Spec => []ChainIsShell
<1>1. ChainInv => ChainIsShell
  BY DEF ChainInv
<1> QED  BY <1>1, ChainInvariant, PTL

(* No command of the line is still alive, or unreaped, when a later one is  *)
(* started or the chain exits, unless its pipeline was given up.            *)
THEOREM CommandsAreSequential == Spec => []Sequential
<1>1. ChainInv => Sequential
  BY DEF ChainInv
<1> QED  BY <1>1, ChainInvariant, PTL

(* No command is executed of a line that the validation has not accepted to *)
(* its last segment, and the arrays of MAX_COMMANDS cells hold the scan.    *)
THEOREM RunsAcceptedLines == Spec => []AcceptedWhole
<1>1. ChainInv => AcceptedWhole
  <2> SUFFICES ASSUME ChainInv PROVE AcceptedWhole
    OBVIOUS
  <2>1. top < MaxCommands
    BY DEF ChainInv, ScanInv
  <2>2. ASSUME ran # {}
        PROVE  /\ n = Len(line.seg) /\ n <= MaxCommands
               /\ \A k \in Cmd : line.seg[k].name # "" /\ Eligible(line.seg[k])
               /\ \A k \in DOMAIN line.op : line.op[k] \in AllowedOp
    <3>1. n = Len(line.seg) /\ n <= MaxCommands /\ line \in Lines
      BY <2>2 DEF ChainInv, ScanInv, TypeOK
    <3>2. \A k \in Cmd : k \in 1 .. n
      BY <3>1, LineType DEF Cmd
    <3>3. \A k \in DOMAIN line.op : k \in 1 .. n /\ k < Len(line.seg)
      BY <3>1, LineType
    <3> QED  BY <3>1, <3>2, <3>3 DEF ChainInv, ScanInv
  <2> QED  BY <2>1, <2>2 DEF AcceptedWhole
<1> QED  BY <1>1, ChainInvariant, PTL
=============================================================================
