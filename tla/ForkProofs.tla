----------------------------- MODULE ForkProofs -----------------------------
(***************************************************************************)
(* Theorems about the programs that fork one child and exchange something  *)
(* with it, for every argument: pingpong.c, 3-12, 3-14, 3-15, 3-19 and     *)
(* 3-20 of chapter 3, and the second homework.  An invariant for each      *)
(* program says where its processes can be together and what they have     *)
(* written, read and printed there.                                        *)
(***************************************************************************)
EXTENDS MCProcesses, SequenceTheorems, TLAPS

-----------------------------------------------------------------------------
(* The calls that the processes are at.                                    *)
AtParent == ip["parent"]
AtChild == ip["child"]
AtThread == ip["thread"]

ForkTypes ==
    /\ name \in {"pingpong", "3-12", "3-14", "3-15", "3-19", "3-20", "homework"}
    /\ n \in Int
    /\ ip \in [Frk!Procs -> Nat]
    /\ ends \in [Frk!Procs -> SUBSET ({"r", "w"} \X Frk!Pipes)]
    /\ pipes = [k \in Frk!Pipes |-> pipes[k]]
    /\ buffer = [p \in Frk!Procs |-> buffer[p]]
    /\ num = [p \in Frk!Procs |-> num[p]]
    /\ heard = [p \in Frk!Procs |-> heard[p]]
    /\ aborted \subseteq Frk!Procs

(* The child begins at fork(); behind its wait() the parent knows that it  *)
(* has ended; and it does not die before.                                  *)
Kin(fork, wait, last) ==
    /\ AtChild > 0 <=> AtParent > fork
    /\ AtParent > wait => AtChild = last \/ "child" \in aborted
    /\ "parent" \in aborted => AtChild \in {0, last} \/ "child" \in aborted

(* pingpong.c: the parent's byte is in the pipe until the child has read   *)
(* it, then the child's until the parent has.                              *)
PingInv ==
    /\ AtParent \in 1 .. 10 /\ AtChild \in 0 .. 6 /\ AtThread = 0
    /\ Kin(2, 6, 6)
    /\ AtChild > 1 => AtParent > 4
    /\ AtParent \in 2 .. 7 => Frk!R(1) \in ends["parent"]
    /\ AtParent > 3 => buffer["parent"] = "a"
    /\ AtChild > 1 => buffer["child"] = "a"
    /\ pipes[2] = <<>>
    /\ pipes[1] = IF AtParent \in 5 .. 7 /\ AtChild < 2 THEN << <<"parent", "a">> >>
                  ELSE IF AtParent < 8 /\ AtChild > 4 THEN << <<"child", "a">> >>
                  ELSE <<>>
    /\ heard["child"] = (IF AtChild > 1 THEN {"parent"} ELSE {})
    /\ heard["thread"] = {}
    /\ "child" \notin aborted =>
          heard["parent"] = (IF AtParent > 7 THEN {"child"} ELSE {})
    /\ aborted = {} =>
          out = IF AtParent = 10 THEN <<"ping", "pong">>
                ELSE IF AtChild > 3 THEN <<"ping">> ELSE <<>>

(* The programs without a pipe.                                            *)
NoPipes ==
    /\ pipes[1] = <<>> /\ pipes[2] = <<>>
    /\ heard["parent"] = {} /\ heard["child"] = {} /\ heard["thread"] = {}

(* 3-12.c *)
IdleInv ==
    /\ AtParent \in 1 .. 4 /\ AtChild \in 0 .. 3 /\ AtThread = 0
    /\ Kin(1, 3, 3) /\ NoPipes
    /\ aborted = {} =>
          IF AtParent > 2 /\ AtChild > 1
          THEN out \in {<<"child", "parent">>, <<"parent", "child">>}
          ELSE out = IF AtParent > 2 THEN <<"parent">>
                     ELSE IF AtChild > 1 THEN <<"child">> ELSE <<>>

(* The numbers from place b to place e of s follow each other in the       *)
(* sequence of m; the next one is x, or the last one was the last.         *)
Turns(s, b, e) ==
    \A i \in b .. e - 1 : s[i] \in Int /\ s[i] > 1 /\ s[i + 1] = Frk!Successor(s[i])
Walking(m, s, b, x) ==
    /\ Len(s) >= b - 1 /\ Turns(s, b, Len(s))
    /\ IF Len(s) < b THEN x = m
       ELSE s[b] = m /\ s[Len(s)] \in Int /\ s[Len(s)] > 1 /\ x = Frk!Successor(s[Len(s)])
Walked(m, s, b, e) == e >= b /\ s[b] = m /\ s[e] <= 1 /\ Turns(s, b, e)

(* 3-14.c *)
CollatzInv ==
    /\ AtParent \in 1 .. 4 /\ AtChild \in 0 .. 4 /\ AtThread = 0
    /\ Kin(1, 2, 4) /\ NoPipes
    /\ AtChild = 3 => num["child"][1] \in Int
    /\ out \in Seq({"child", "parent"} \cup Int)
    /\ aborted = {} =>
          /\ AtChild < 2 => out = <<>>
          /\ AtChild = 2 => Len(out) = 1
          /\ AtChild > 1 => out[1] = "child"
          /\ AtChild = 3 => Walking(n, out, 2, num["child"][1])
          /\ AtChild = 4 /\ AtParent < 4 => Walked(n, out, 2, Len(out))
          /\ AtParent = 4 => out[Len(out)] = "parent" /\ Walked(n, out, 2, Len(out) - 1)

(* 3-15.c: nothing but the child writes to the shared memory.              *)
ShareInv ==
    /\ AtParent \in 1 .. 5 /\ AtChild \in 0 .. 4 /\ AtThread = 0
    /\ Kin(1, 2, 4) /\ NoPipes
    /\ AtChild = 3 => num["child"][1] \in Int
    /\ shm \in Seq(Int)
    /\ AtChild < 3 => shm = <<>>
    /\ AtChild = 3 => Walking(n, shm, 1, num["child"][1])
    /\ AtChild = 4 => Walked(n, shm, 1, Len(shm))
    /\ aborted = {} =>
          out = IF AtParent = 5 THEN <<"child", "parent", shm>>
                ELSE IF AtParent = 4 THEN <<"child", "parent">>
                ELSE IF AtChild > 1 THEN <<"child">> ELSE <<>>

(* 3-19.c: nobody but its reader takes from a pipe, and a pipe that is     *)
(* written has a reader.                                                   *)
SwapInv ==
    /\ AtParent \in 1 .. 12 /\ AtChild \in 0 .. 8 /\ AtThread = 0
    /\ Kin(3, 8, 8)
    /\ AtChild > 2 => AtParent > 6
    /\ AtParent > 9 => AtChild > 6
    /\ AtParent \in 2 .. 4 => Frk!R(1) \in ends["parent"]
    /\ AtChild \in 1 .. 3 => Frk!R(1) \in ends["child"]
    /\ AtParent \in 6 .. 9 => buffer["parent"] = "Hello_World"
    /\ AtParent > 9 => buffer["parent"] = "hELLO_wORLD"
    /\ AtChild \in 3 .. 4 => buffer["child"] = "Hello_World"
    /\ AtChild > 4 => buffer["child"] = "hELLO_wORLD"
    /\ pipes[1] = IF AtParent > 6 /\ AtChild < 3 THEN << <<"parent", "Hello_World">> >>
                  ELSE <<>>
    /\ pipes[2] = IF AtChild > 6 /\ AtParent < 10 THEN << <<"child", "hELLO_wORLD">> >>
                  ELSE <<>>
    /\ heard["parent"] = (IF AtParent > 9 THEN {"child"} ELSE {})
    /\ heard["child"] = (IF AtChild > 2 THEN {"parent"} ELSE {})
    /\ heard["thread"] = {}
    /\ out = IF AtParent > 10 THEN <<"hELLO_wORLD">> ELSE <<>>

(* 3-20.c: what is printed, and the file. *)
CopyPrinted ==
    IF AtParent < 4 \/ AtChild < 2
    THEN out = IF AtParent > 3 THEN <<"parent_start">>
               ELSE IF AtChild > 1 THEN <<"child_start">> ELSE <<>>
    ELSE \E x, y \in {"parent_start", "child_start"} :
             /\ x # y
             /\ out = IF AtParent = 10 THEN <<x, y, "child_end", "parent_end">>
                      ELSE IF AtChild = 7 THEN <<x, y, "child_end">> ELSE <<x, y>>

CopyInv ==
    /\ AtParent \in 1 .. 10 /\ AtChild \in 0 .. 7 /\ AtThread = 0
    /\ Kin(2, 8, 7)
    /\ AtChild > 3 => AtParent > 6
    /\ AtParent \in 2 .. 4 => Frk!R(1) \in ends["parent"]
    /\ AtChild \in 1 .. 4 => Frk!R(1) \in ends["child"]
    /\ AtParent > 5 => buffer["parent"] = "file1"
    /\ AtChild > 3 => buffer["child"] = "file1"
    /\ pipes[1] = IF AtParent > 6 /\ AtChild < 4 THEN << <<"parent", "file1">> >>
                  ELSE <<>>
    /\ pipes[2] = <<>>
    /\ heard["parent"] = {} /\ heard["thread"] = {}
    /\ heard["child"] = (IF AtChild > 3 THEN {"parent"} ELSE {})
    /\ shm = IF AtChild > 5 THEN <<"file1">> ELSE <<>>
    /\ aborted = {} => CopyPrinted

(* code.c: the numbers before i have the sum s.  The thread ends before    *)
(* the child goes on.                                                      *)
SumBefore(i, s) == 2 * s = i * (i - 1)
SumTo(m) == (m * (m + 1)) \div 2
HomeInv ==
    /\ AtParent \in 1 .. 4 /\ AtChild \in 0 .. 5 /\ AtThread \in 0 .. 3
    /\ Kin(1, 2, 5) /\ NoPipes
    /\ AtThread > 0 <=> AtChild > 2
    /\ AtChild > 3 => AtThread = 3 \/ "thread" \in aborted
    /\ "child" \in aborted <=> "thread" \in aborted
    /\ AtThread > 1 => num["thread"][1] \in 1 .. X + 1 /\ num["thread"][2] \in Nat
    /\ AtThread > 1 => SumBefore(num["thread"][1], num["thread"][2])
    /\ AtThread > 2 => num["thread"][1] = X + 1
    /\ aborted = {} =>
          out = IF AtParent = 4 THEN <<"child", SumTo(X), "parent">>
                ELSE IF AtChild = 5 THEN <<"child", SumTo(X)>>
                ELSE IF AtChild > 1 THEN <<"child">> ELSE <<>>

ForkInv ==
    /\ ForkTypes
    /\ name = "pingpong" => PingInv
    /\ name = "3-12" => IdleInv
    /\ name = "3-14" => CollatzInv
    /\ name = "3-15" => ShareInv
    /\ name = "3-19" => SwapInv
    /\ name = "3-20" => CopyInv
    /\ name = "homework" => HomeInv

(* The numbers of the programs.                                            *)
LEMMA ForkNumbers ==
  MaxInt \in Nat /\ X \in Nat /\ \A a \in Arguments : a \in Int
BY ProcessesAssumption DEF Frk!ForkProgramsAssumption, Frk!Ints

Call(p) == Frk!Code[p][ip[p]]

(* What a step does follows from the call that the process is at.          *)
LEMMA StepIs ==
  ASSUME NEW p \in Frk!Procs, Frk!Step(p)
  PROVE  /\ ip[p] > 0 /\ ~(ip[p] > Len(Frk!Code[p])) /\ p \notin aborted
         /\ name' = name /\ n' = n
         /\ Call(p)[1] = "pipe" => Frk!Pipe(p)
         /\ Call(p)[1] = "close" => Frk!Close(p)
         /\ Call(p)[1] = "fork" => Frk!Fork(p) \/ Frk!ForkFails(p)
         /\ Call(p)[1] = "create" => Frk!Create(p)
         /\ Call(p)[1] = "write" => Frk!Write(p) \/ Frk!WriteFails(p)
         /\ Call(p)[1] = "read" => Frk!Read(p) \/ Frk!ReadsEnd(p)
         /\ Call(p)[1] = "wait" => Frk!Wait(p)
         /\ Call(p)[1] = "collatz" => Frk!CollatzTurn(p) \/ Frk!Overruns(p)
         /\ Call(p)[1] = "sum" => Frk!SumTurn(p)
         /\ Call(p)[1] \in {"put", "swap", "number", "store", "print", "show", "showSum",
                             "sleep"} => Frk!Local(p)
         /\ Call(p)[1] = "showShm" => Frk!Local(p) \/ Frk!NotShared(p)
         /\ Call(p)[1] \in {"pipe", "close", "fork", "create", "write", "read", "wait",
                           "collatz", "sum", "put", "swap", "number", "store", "print",
                           "show", "showSum", "sleep", "showShm"}
<1> DEFINE op == Call(p)[1]
<1>1. \A x : Frk!At(p, x) =>
          op = x /\ ip[p] > 0 /\ ~(ip[p] > Len(Frk!Code[p])) /\ p \notin aborted
  BY DEF Frk!At, Frk!Ended, Call
<1> HIDE DEF op
<1>2. /\ Frk!Pipe(p) => Frk!At(p, "pipe") /\ name' = name /\ n' = n
      /\ Frk!Close(p) => Frk!At(p, "close") /\ name' = name /\ n' = n
      /\ Frk!Fork(p) => Frk!At(p, "fork") /\ name' = name /\ n' = n
      /\ Frk!ForkFails(p) => Frk!At(p, "fork") /\ name' = name /\ n' = n
      /\ Frk!Create(p) => Frk!At(p, "create") /\ name' = name /\ n' = n
      /\ Frk!Write(p) => Frk!At(p, "write") /\ name' = name /\ n' = n
      /\ Frk!WriteFails(p) => Frk!At(p, "write") /\ name' = name /\ n' = n
      /\ Frk!Read(p) => Frk!At(p, "read") /\ name' = name /\ n' = n
      /\ Frk!ReadsEnd(p) => Frk!At(p, "read") /\ name' = name /\ n' = n
      /\ Frk!Wait(p) => Frk!At(p, "wait") /\ name' = name /\ n' = n
      /\ Frk!CollatzTurn(p) => Frk!At(p, "collatz") /\ name' = name /\ n' = n
      /\ Frk!SumTurn(p) => Frk!At(p, "sum") /\ name' = name /\ n' = n
      /\ Frk!NotShared(p) => Frk!At(p, "showShm") /\ name' = name /\ n' = n
      /\ Frk!Overruns(p) => Frk!At(p, "collatz") /\ name' = name /\ n' = n
  BY DEF Frk!Pipe, Frk!Close, Frk!Fork, Frk!ForkFails, Frk!Create, Frk!Write,
     Frk!WriteFails, Frk!Read, Frk!ReadsEnd, Frk!Wait, Frk!CollatzTurn,
     Frk!SumTurn, Frk!NotShared, Frk!Overruns, Frk!Dies
<1>3. Frk!Local(p) => /\ name' = name /\ n' = n
                      /\ \E x \in {"put", "swap", "number", "store", "print", "show", "showSum",
                                   "sleep", "showShm"} : Frk!At(p, x)
  BY DEF Frk!Local
<1>4. \/ Frk!Pipe(p) \/ Frk!Close(p) \/ Frk!Fork(p) \/ Frk!Create(p) \/ Frk!Write(p)
      \/ Frk!Read(p) \/ Frk!Wait(p) \/ Frk!ForkFails(p) \/ Frk!WriteFails(p) \/ Frk!ReadsEnd(p)
      \/ Frk!NotShared(p) \/ Frk!Overruns(p) \/ Frk!CollatzTurn(p) \/ Frk!SumTurn(p)
      \/ Frk!Local(p)
  BY DEF Frk!Step
<1>5. \/ op = "pipe" /\ Frk!Pipe(p)
      \/ op = "close" /\ Frk!Close(p)
      \/ op = "fork" /\ (Frk!Fork(p) \/ Frk!ForkFails(p))
      \/ op = "create" /\ Frk!Create(p)
      \/ op = "write" /\ (Frk!Write(p) \/ Frk!WriteFails(p))
      \/ op = "read" /\ (Frk!Read(p) \/ Frk!ReadsEnd(p))
      \/ op = "wait" /\ Frk!Wait(p)
      \/ op = "collatz" /\ (Frk!CollatzTurn(p) \/ Frk!Overruns(p))
      \/ op = "sum" /\ Frk!SumTurn(p)
      \/ op = "showShm" /\ (Frk!NotShared(p) \/ Frk!Local(p))
      \/ /\ op \in {"put", "swap", "number", "store", "print", "show", "showSum", "sleep"}
         /\ Frk!Local(p)
  BY <1>1, <1>2, <1>3, <1>4
<1>6. /\ ip[p] > 0 /\ ~(ip[p] > Len(Frk!Code[p])) /\ p \notin aborted
      /\ name' = name /\ n' = n
  BY <1>1, <1>2, <1>3, <1>4
<1> QED
  BY <1>5, <1>6 DEF op

(* Append to a sequence that is written out.                               *)
LEMMA AppendIs ==
  /\ \A x : Append(<<>>, x) = <<x>>
  /\ \A x, y : Append(<<x>>, y) = <<x, y>>
  /\ \A x, y, z : Append(<<x, y>>, z) = <<x, y, z>>
  /\ \A x, y, z, w : Append(<<x, y, z>>, w) = <<x, y, z, w>>
<1>1. ASSUME NEW x PROVE Append(<<>>, x) = <<x>>
  OBVIOUS
<1>2. ASSUME NEW x, NEW y PROVE Append(<<x>>, y) = <<x, y>>
  <2> DEFINE S == {x, y}
             r == <<x>>
             t == Append(r, y)
             u == <<x, y>>
  <2>1. /\ r \in Seq(S) /\ y \in S /\ Len(r) = 1
        /\ r[1] = x
    OBVIOUS
  <2> HIDE DEF r
  <2>2. /\ t \in Seq(S) /\ Len(t) = 2
        /\ t[1] = x /\ t[2] = y
    <3> HIDE DEF S
    <3>1. \A i \in 1 .. 1 : t[i] = r[i]
      BY <2>1, AppendProperties
    <3> QED
      BY <2>1, <3>1, AppendProperties
  <2>3. /\ u \in Seq(S) /\ Len(u) = 2
        /\ u[1] = x /\ u[2] = y
    OBVIOUS
  <2>4. \A i \in 1 .. 2 : i = 1 \/ i = 2
    OBVIOUS
  <2> HIDE DEF t, u, S
  <2>5. t = u
    BY <2>2, <2>3, <2>4, SeqEqual
  <2> QED
    BY <2>5 DEF t, u, r
<1>3. ASSUME NEW x, NEW y, NEW z PROVE Append(<<x, y>>, z) = <<x, y, z>>
  <2> DEFINE S == {x, y, z}
             r == <<x, y>>
             t == Append(r, z)
             u == <<x, y, z>>
  <2>1. /\ r \in Seq(S) /\ z \in S /\ Len(r) = 2
        /\ r[1] = x /\ r[2] = y
    OBVIOUS
  <2> HIDE DEF r
  <2>2. /\ t \in Seq(S) /\ Len(t) = 3
        /\ t[1] = x /\ t[2] = y /\ t[3] = z
    <3> HIDE DEF S, t
    <3>1. r \in Seq(S) /\ z \in S
      BY <2>1
    <3>2. /\ Append(r, z) \in Seq(S) /\ Len(Append(r, z)) = Len(r) + 1
          /\ \A i \in 1 .. Len(r) : Append(r, z)[i] = r[i]
          /\ Append(r, z)[Len(r) + 1] = z
      BY <3>1, AppendProperties
    <3> QED
      BY <2>1, <3>2 DEF t
  <2>3. /\ u \in Seq(S) /\ Len(u) = 3
        /\ u[1] = x /\ u[2] = y /\ u[3] = z
    OBVIOUS
  <2>4. \A i \in 1 .. 3 : i = 1 \/ i = 2 \/ i = 3
    OBVIOUS
  <2> HIDE DEF t, u, S
  <2>5. t = u
    BY <2>2, <2>3, <2>4, SeqEqual
  <2> QED
    BY <2>5 DEF t, u, r
<1>4. ASSUME NEW x, NEW y, NEW z, NEW w PROVE Append(<<x, y, z>>, w) = <<x, y, z, w>>
  <2> DEFINE S == {x, y, z, w}
             r == <<x, y, z>>
             t == Append(r, w)
             u == <<x, y, z, w>>
  <2>1. /\ r \in Seq(S) /\ w \in S /\ Len(r) = 3
        /\ r[1] = x /\ r[2] = y /\ r[3] = z
    OBVIOUS
  <2> HIDE DEF r
  <2>2. /\ t \in Seq(S) /\ Len(t) = 4
        /\ t[1] = x /\ t[2] = y /\ t[3] = z /\ t[4] = w
    <3> HIDE DEF S, t
    <3>1. r \in Seq(S) /\ w \in S
      BY <2>1
    <3>2. /\ Append(r, w) \in Seq(S) /\ Len(Append(r, w)) = Len(r) + 1
          /\ \A i \in 1 .. Len(r) : Append(r, w)[i] = r[i]
          /\ Append(r, w)[Len(r) + 1] = w
      BY <3>1, AppendProperties
    <3> QED
      BY <2>1, <3>2 DEF t
  <2>3. /\ u \in Seq(S) /\ Len(u) = 4
        /\ u[1] = x /\ u[2] = y /\ u[3] = z /\ u[4] = w
    OBVIOUS
  <2>4. \A i \in 1 .. 4 : i = 1 \/ i = 2 \/ i = 3 \/ i = 4
    OBVIOUS
  <2> HIDE DEF t, u, S
  <2>5. t = u
    BY <2>2, <2>3, <2>4, SeqEqual
  <2> QED
    BY <2>5 DEF t, u, r
<1> QED
  BY <1>1, <1>2, <1>3, <1>4

(* A step that goes on to the next call, and one that ends its process.    *)
Advances(p) ==
    /\ AtParent' = IF p = "parent" THEN AtParent + 1 ELSE AtParent
    /\ AtChild' = IF p = "child" THEN AtChild + 1 ELSE AtChild
    /\ AtThread' = IF p = "thread" THEN AtThread + 1 ELSE AtThread
Stays == AtParent' = AtParent /\ AtChild' = AtChild /\ AtThread' = AtThread
Dead(who) ==
    /\ Stays /\ aborted' = aborted \cup who
    /\ UNCHANGED <<name, n, ends, pipes, buffer, num, shm, out, heard>>

(* The process goes on to its next call.                                   *)
LEMMA GoesOn ==
  ASSUME ForkTypes, NEW p \in Frk!Procs, Frk!Goes(p)
  PROVE  Advances(p) /\ ip' \in [Frk!Procs -> Nat]
BY DEF ForkTypes, Frk!Goes, Advances, AtParent, AtChild, AtThread, Frk!Procs

(* Those who die stay where they are.                                      *)
LEMMA EndsWith ==
  ASSUME ForkTypes, NEW who \in SUBSET Frk!Procs, Frk!Dies(who)
  PROVE  ForkTypes' /\ Dead(who)
BY DEF ForkTypes, Frk!Dies, Dead, Stays, AtParent, AtChild, AtThread

(* pipe()                                                                  *)
LEMMA PipeDoes ==
  ASSUME ForkTypes, NEW p \in Frk!Procs, Frk!Step(p), Call(p)[1] = "pipe",
         Call(p)[2] \in Frk!Pipes
  PROVE  /\ ForkTypes'
         /\ Advances(p)
         /\ \A q \in Frk!Procs :
               ends'[q] = IF q = p THEN ends[p] \cup {Frk!R(Call(p)[2]), Frk!W(Call(p)[2])}
                          ELSE ends[q]
         /\ UNCHANGED <<pipes, buffer, num, shm, out, heard, aborted>>
<1>1. Frk!Pipe(p)
  BY StepIs
<1>2. Frk!Goes(p) /\ name' = name /\ n' = n
  BY <1>1 DEF Frk!Pipe
<1>3. Advances(p) /\ ip' \in [Frk!Procs -> Nat]
  BY <1>2, GoesOn
<1> QED
  BY <1>1, <1>2, <1>3 DEF Frk!Pipe, ForkTypes, Frk!Procs, Frk!Pipes, Call,
     Frk!Arg, Frk!R, Frk!W

(* close()                                                                 *)
LEMMA CloseDoes ==
  ASSUME ForkTypes, NEW p \in Frk!Procs, Frk!Step(p), Call(p)[1] = "close"
  PROVE  /\ ForkTypes'
         /\ Advances(p)
         /\ \A q \in Frk!Procs :
               ends'[q] = IF q = p THEN ends[p] \ {Call(p)[2]} ELSE ends[q]
         /\ UNCHANGED <<pipes, buffer, num, shm, out, heard, aborted>>
<1>1. Frk!Close(p)
  BY StepIs
<1>2. Frk!Goes(p) /\ name' = name /\ n' = n
  BY <1>1 DEF Frk!Close
<1>3. Advances(p) /\ ip' \in [Frk!Procs -> Nat]
  BY <1>2, GoesOn
<1> QED
  BY <1>1, <1>2, <1>3 DEF Frk!Close, ForkTypes, Frk!Procs, Frk!Pipes, Call,
     Frk!Arg

(* wait() and pthread_join()                                               *)
LEMMA WaitDoes ==
  ASSUME ForkTypes, NEW p \in Frk!Procs, Frk!Step(p), Call(p)[1] = "wait"
  PROVE  /\ ForkTypes'
         /\ Advances(p)
         /\ Frk!Ended(Call(p)[2])
         /\ UNCHANGED <<ends, pipes, buffer, num, shm, out, heard, aborted>>
<1>1. Frk!Wait(p)
  BY StepIs
<1>2. Frk!Goes(p) /\ name' = name /\ n' = n
  BY <1>1 DEF Frk!Wait
<1>3. Advances(p) /\ ip' \in [Frk!Procs -> Nat]
  BY <1>2, GoesOn
<1> QED
  BY <1>1, <1>2, <1>3 DEF Frk!Wait, ForkTypes, Frk!Procs, Frk!Pipes, Call, Frk!Arg

(* Bytes are put into the buffer.                                          *)
LEMMA PutDoes ==
  ASSUME ForkTypes, NEW p \in Frk!Procs, Frk!Step(p), Call(p)[1] = "put"
  PROVE  /\ ForkTypes'
         /\ Advances(p)
         /\ \A q \in Frk!Procs :
               buffer'[q] = IF q = p THEN Call(p)[2] ELSE buffer[q]
         /\ UNCHANGED <<ends, pipes, num, shm, out, heard, aborted>>
<1>1. Frk!Local(p)
  BY StepIs
<1>2. /\ Frk!Goes(p) /\ UNCHANGED <<name, n, ends, pipes, heard, aborted>>
      /\ Frk!SetBuffer(p, Frk!Arg(p))
  BY <1>1 DEF Frk!Local, Frk!At, Call
<1>3. Advances(p) /\ ip' \in [Frk!Procs -> Nat]
  BY <1>2, GoesOn
<1> QED
  BY <1>2, <1>3 DEF ForkTypes, Frk!Procs, Frk!Pipes, Call, Frk!Arg, Frk!SetBuffer

(* The letters are swapped.                                                *)
LEMMA SwapDoes ==
  ASSUME ForkTypes, NEW p \in Frk!Procs, Frk!Step(p), Call(p)[1] = "swap",
         buffer[p] = "Hello_World"
  PROVE  /\ ForkTypes'
         /\ Advances(p)
         /\ \A q \in Frk!Procs :
               buffer'[q] = IF q = p THEN "hELLO_wORLD" ELSE buffer[q]
         /\ UNCHANGED <<ends, pipes, num, shm, out, heard, aborted>>
<1>1. Frk!Local(p)
  BY StepIs
<1>2. /\ Frk!Goes(p) /\ UNCHANGED <<name, n, ends, pipes, heard, aborted>>
      /\ Frk!SetBuffer(p, Frk!SwapCase[buffer[p]])
  BY <1>1 DEF Frk!Local, Frk!At, Call
<1>3. Advances(p) /\ ip' \in [Frk!Procs -> Nat]
  BY <1>2, GoesOn
<1> QED
  BY <1>2, <1>3 DEF ForkTypes, Frk!Procs, Frk!Pipes, Call, Frk!Arg,
     Frk!SetBuffer, Frk!SwapCase

(* The numbers of a loop are set.                                          *)
LEMMA NumberDoes ==
  ASSUME ForkTypes, NEW p \in Frk!Procs, Frk!Step(p), Call(p)[1] = "number"
  PROVE  /\ ForkTypes'
         /\ Advances(p)
         /\ \A q \in Frk!Procs :
               num'[q] = IF q = p THEN Call(p)[2] ELSE num[q]
         /\ UNCHANGED <<ends, pipes, buffer, shm, out, heard, aborted>>
<1>1. Frk!Local(p)
  BY StepIs
<1>2. /\ Frk!Goes(p) /\ UNCHANGED <<name, n, ends, pipes, heard, aborted>>
      /\ Frk!Gets(p, Frk!Arg(p)) /\ UNCHANGED <<buffer, shm, out>>
  BY <1>1 DEF Frk!Local, Frk!At, Call
<1>3. Advances(p) /\ ip' \in [Frk!Procs -> Nat]
  BY <1>2, GoesOn
<1> QED
  BY <1>2, <1>3 DEF ForkTypes, Frk!Procs, Frk!Pipes, Call, Frk!Arg, Frk!Gets

(* The file is written.                                                    *)
LEMMA StoreDoes ==
  ASSUME ForkTypes, NEW p \in Frk!Procs, Frk!Step(p), Call(p)[1] = "store"
  PROVE  /\ ForkTypes'
         /\ Advances(p)
         /\ shm' = <<buffer[p]>>
         /\ UNCHANGED <<ends, pipes, buffer, num, out, heard, aborted>>
<1>1. Frk!Local(p)
  BY StepIs
<1>2. /\ Frk!Goes(p) /\ UNCHANGED <<name, n, ends, pipes, heard, aborted>>
      /\ shm' = <<buffer[p]>> /\ UNCHANGED <<buffer, num, out>>
  BY <1>1 DEF Frk!Local, Frk!At, Call
<1>3. Advances(p) /\ ip' \in [Frk!Procs -> Nat]
  BY <1>2, GoesOn
<1> QED
  BY <1>2, <1>3 DEF ForkTypes, Frk!Procs, Frk!Pipes, Call, Frk!Arg

(* Something is printed.                                                   *)
LEMMA PrintDoes ==
  ASSUME ForkTypes, NEW p \in Frk!Procs, Frk!Step(p), Call(p)[1] = "print"
  PROVE  /\ ForkTypes'
         /\ Advances(p)
         /\ out' = Append(out, Call(p)[2])
         /\ UNCHANGED <<ends, pipes, buffer, num, shm, heard, aborted>>
<1>1. Frk!Local(p)
  BY StepIs
<1>2. /\ Frk!Goes(p) /\ UNCHANGED <<name, n, ends, pipes, heard, aborted>>
      /\ Frk!Prints(Frk!Arg(p))
  BY <1>1 DEF Frk!Local, Frk!At, Call
<1>3. Advances(p) /\ ip' \in [Frk!Procs -> Nat]
  BY <1>2, GoesOn
<1> QED
  BY <1>2, <1>3 DEF ForkTypes, Frk!Procs, Frk!Pipes, Call, Frk!Arg, Frk!Prints

(* The buffer is printed.                                                  *)
LEMMA ShowDoes ==
  ASSUME ForkTypes, NEW p \in Frk!Procs, Frk!Step(p), Call(p)[1] = "show"
  PROVE  /\ ForkTypes'
         /\ Advances(p)
         /\ out' = Append(out, buffer[p])
         /\ UNCHANGED <<ends, pipes, buffer, num, shm, heard, aborted>>
<1>1. Frk!Local(p)
  BY StepIs
<1>2. /\ Frk!Goes(p) /\ UNCHANGED <<name, n, ends, pipes, heard, aborted>>
      /\ Frk!Prints(buffer[p])
  BY <1>1 DEF Frk!Local, Frk!At, Call
<1>3. Advances(p) /\ ip' \in [Frk!Procs -> Nat]
  BY <1>2, GoesOn
<1> QED
  BY <1>2, <1>3 DEF ForkTypes, Frk!Procs, Frk!Pipes, Call, Frk!Arg, Frk!Prints

(* The sum is printed.                                                     *)
LEMMA ShowSumDoes ==
  ASSUME ForkTypes, NEW p \in Frk!Procs, Frk!Step(p), Call(p)[1] = "showSum"
  PROVE  /\ ForkTypes'
         /\ Advances(p)
         /\ out' = Append(out, num["thread"][2])
         /\ UNCHANGED <<ends, pipes, buffer, num, shm, heard, aborted>>
<1>1. Frk!Local(p)
  BY StepIs
<1>2. /\ Frk!Goes(p) /\ UNCHANGED <<name, n, ends, pipes, heard, aborted>>
      /\ Frk!Prints(num["thread"][2])
  BY <1>1 DEF Frk!Local, Frk!At, Call
<1>3. Advances(p) /\ ip' \in [Frk!Procs -> Nat]
  BY <1>2, GoesOn
<1> QED
  BY <1>2, <1>3 DEF ForkTypes, Frk!Procs, Frk!Pipes, Call, Frk!Arg, Frk!Prints

(* sleep()                                                                 *)
LEMMA SleepDoes ==
  ASSUME ForkTypes, NEW p \in Frk!Procs, Frk!Step(p), Call(p)[1] = "sleep"
  PROVE  /\ ForkTypes'
         /\ Advances(p)
         /\ UNCHANGED <<ends, pipes, buffer, num, shm, out, heard, aborted>>
<1>1. Frk!Local(p)
  BY StepIs
<1>2. /\ Frk!Goes(p) /\ UNCHANGED <<name, n, ends, pipes, heard, aborted>>
      /\ UNCHANGED <<buffer, num, shm, out>>
  BY <1>1 DEF Frk!Local, Frk!At, Call
<1>3. Advances(p) /\ ip' \in [Frk!Procs -> Nat]
  BY <1>2, GoesOn
<1> QED
  BY <1>2, <1>3 DEF ForkTypes, Frk!Procs, Frk!Pipes, Call, Frk!Arg

(* The shared memory is printed, if there is something in it.              *)
LEMMA ShowShmDoes ==
  ASSUME ForkTypes, NEW p \in Frk!Procs, Frk!Step(p), Call(p)[1] = "showShm"
  PROVE  /\ ForkTypes'
         /\ \/ /\ Advances(p)
               /\ out' = Append(out, shm)
               /\ UNCHANGED <<ends, pipes, buffer, num, shm, heard, aborted>>
            \/ Dead({p}) /\ shm = <<>>
<1>1. CASE Frk!NotShared(p)
  BY <1>1, EndsWith DEF Frk!NotShared
<1>2. CASE Frk!Local(p)
  <2>2. /\ Frk!Goes(p) /\ UNCHANGED <<name, n, ends, pipes, heard, aborted>>
        /\ Frk!Prints(shm)
    BY <1>2 DEF Frk!Local, Frk!At, Call
  <2>3. Advances(p) /\ ip' \in [Frk!Procs -> Nat]
    BY <2>2, GoesOn
  <2> QED
    BY <2>2, <2>3 DEF ForkTypes, Frk!Prints
<1> QED
  BY <1>1, <1>2, StepIs

(* write(), and its signal if nobody can read.                             *)
LEMMA WriteDoes ==
  ASSUME ForkTypes, NEW p \in Frk!Procs, Frk!Step(p), Call(p)[1] = "write",
         Call(p)[2] \in Frk!Pipes
  PROVE  /\ ForkTypes'
         /\ \/ /\ Advances(p)
               /\ pipes'[Call(p)[2]] = Append(pipes[Call(p)[2]], <<p, buffer[p]>>)
               /\ \A k \in Frk!Pipes : k # Call(p)[2] => pipes'[k] = pipes[k]
               /\ UNCHANGED <<ends, buffer, num, shm, out, heard, aborted>>
            \/ Dead({p}) /\ ~Frk!IsOpen(Frk!R(Call(p)[2]))
<1>1. CASE Frk!WriteFails(p)
  BY <1>1, EndsWith DEF Frk!WriteFails, Frk!Arg, Call
<1>2. CASE Frk!Write(p)
  <2>1. Frk!Goes(p) /\ name' = name /\ n' = n
    BY <1>2 DEF Frk!Write
  <2>2. Advances(p) /\ ip' \in [Frk!Procs -> Nat]
    BY <2>1, GoesOn
  <2> QED
    BY <1>2, <2>1, <2>2 DEF Frk!Write, ForkTypes, Frk!Pipes, Call, Frk!Arg
<1> QED
  BY <1>1, <1>2, StepIs

(* read(), which takes the first message, or meets the end.                *)
LEMMA ReadDoes ==
  ASSUME ForkTypes, NEW p \in Frk!Procs, Frk!Step(p), Call(p)[1] = "read",
         Call(p)[2] \in Frk!Pipes
  PROVE  /\ ForkTypes'
         /\ \/ /\ Advances(p)
               /\ pipes[Call(p)[2]] # <<>>
               /\ \A q \in Frk!Procs :
                     heard'[q] = IF q = p THEN heard[p] \cup {Head(pipes[Call(p)[2]])[1]}
                                ELSE heard[q]
               /\ \A q \in Frk!Procs :
                     buffer'[q] = IF q = p THEN Head(pipes[Call(p)[2]])[2] ELSE buffer[q]
               /\ pipes'[Call(p)[2]] = Tail(pipes[Call(p)[2]])
               /\ \A k \in Frk!Pipes : k # Call(p)[2] => pipes'[k] = pipes[k]
               /\ UNCHANGED <<ends, num, shm, out, aborted>>
            \/ Dead({p}) /\ pipes[Call(p)[2]] = <<>>
<1>1. CASE Frk!ReadsEnd(p)
  BY <1>1, EndsWith DEF Frk!ReadsEnd, Frk!Arg, Call
<1>2. CASE Frk!Read(p)
  <2>1. Frk!Goes(p) /\ name' = name /\ n' = n
    BY <1>2 DEF Frk!Read
  <2>2. Advances(p) /\ ip' \in [Frk!Procs -> Nat]
    BY <2>1, GoesOn
  <2> QED
    BY <1>2, <2>1, <2>2 DEF Frk!Read, ForkTypes, Frk!Pipes, Frk!Procs, Call,
       Frk!Arg
<1> QED
  BY <1>1, <1>2, StepIs

(* fork(), which may fail.                                                 *)
LEMMA ForkDoes ==
  ASSUME ForkTypes, Frk!Step("parent"), Call("parent")[1] = "fork"
  PROVE  /\ ForkTypes'
         /\ \/ /\ AtParent' = AtParent + 1 /\ AtChild' = 1 /\ AtThread' = AtThread
               /\ ends'["parent"] = ends["parent"] /\ ends'["child"] = ends["parent"]
               /\ UNCHANGED <<pipes, buffer, num, shm, out, heard, aborted>>
            \/ Dead({"parent"})
<1>0. "parent" \in Frk!Procs
  BY DEF Frk!Procs
<1>1. CASE Frk!ForkFails("parent")
  BY <1>0, <1>1, EndsWith DEF Frk!ForkFails
<1>2. CASE Frk!Fork("parent")
  BY <1>2 DEF Frk!Fork, ForkTypes, Frk!Procs, AtParent, AtChild, AtThread
<1> QED
  BY <1>0, <1>1, <1>2, StepIs

(* pthread_create() begins the thread.                                     *)
LEMMA CreateDoes ==
  ASSUME ForkTypes, Frk!Step("child"), Call("child")[1] = "create"
  PROVE  /\ ForkTypes'
         /\ AtParent' = AtParent /\ AtChild' = AtChild + 1 /\ AtThread' = 1
         /\ UNCHANGED <<ends, pipes, buffer, num, shm, out, heard, aborted>>
<1>0. "child" \in Frk!Procs
  BY DEF Frk!Procs
<1>1. Frk!Create("child")
  BY <1>0, StepIs
<1> QED
  BY <1>1 DEF Frk!Create, ForkTypes, Frk!Procs, AtParent, AtChild, AtThread

(* The child of 3-15.c writes past what it has.                            *)
LEMMA OverrunDoes ==
  ASSUME ForkTypes, NEW p \in Frk!Procs, Frk!Overruns(p)
  PROVE  ForkTypes' /\ Dead({p}) /\ n' = n /\ Call(p)[2] = "shm"
<1>1. Frk!Dies({p}) /\ Call(p)[2] = "shm"
  BY DEF Frk!Overruns, Frk!Arg, Call
<1>2. {p} \in SUBSET Frk!Procs
  OBVIOUS
<1> QED
  BY <1>1, <1>2, EndsWith DEF Frk!Dies

(* A turn of the loop on n, which prints it or stores it.                  *)
LEMMA CollatzDoes ==
  ASSUME ForkTypes, NEW p \in Frk!Procs, Frk!Step(p), Call(p)[1] = "collatz",
         ~Frk!Overruns(p)
  PROVE  LET x == num[p][1] IN
         /\ ForkTypes'
         /\ IF Call(p)[2] = "shm" THEN shm' = Append(shm, x) /\ out' = out
            ELSE out' = Append(out, x) /\ shm' = shm
         /\ IF x > 1 THEN Stays /\ num'[p] = <<Frk!Successor(x), 0>>
            ELSE Advances(p) /\ num' = num
         /\ UNCHANGED <<ends, pipes, buffer, heard, aborted>>
<1>1. Frk!CollatzTurn(p)
  BY StepIs
<1>2. CASE num[p][1] > 1
  BY <1>1, <1>2 DEF Frk!CollatzTurn, Frk!Gets, Stays, AtParent, AtChild, AtThread,
     ForkTypes, Frk!Procs, Call, Frk!Arg
<1>3. CASE ~(num[p][1] > 1)
  <2>1. Frk!Goes(p) /\ name' = name /\ n' = n
    BY <1>1, <1>3 DEF Frk!CollatzTurn
  <2>2. Advances(p) /\ ip' \in [Frk!Procs -> Nat]
    BY <2>1, GoesOn
  <2> QED
    BY <1>1, <1>3, <2>1, <2>2 DEF Frk!CollatzTurn, ForkTypes, Call, Frk!Arg
<1> QED
  BY <1>2, <1>3

(* A turn of the sum.                                                      *)
LEMMA SumDoes ==
  ASSUME ForkTypes, NEW p \in Frk!Procs, Frk!Step(p), Call(p)[1] = "sum"
  PROVE  LET i == num[p][1] IN
         /\ ForkTypes'
         /\ IF i <= X THEN Stays /\ num'[p] = <<i + 1, num[p][2] + i>>
            ELSE Advances(p) /\ num' = num
         /\ UNCHANGED <<ends, pipes, buffer, shm, out, heard, aborted>>
<1>1. Frk!SumTurn(p)
  BY StepIs
<1>2. CASE num[p][1] <= X
  BY <1>1, <1>2 DEF Frk!SumTurn, Frk!Gets, Stays, AtParent, AtChild, AtThread,
     ForkTypes, Frk!Procs, Call, Frk!Arg
<1>3. CASE ~(num[p][1] <= X)
  <2>1. Frk!Goes(p) /\ name' = name /\ n' = n
    BY <1>1, <1>3 DEF Frk!SumTurn
  <2>2. Advances(p) /\ ip' \in [Frk!Procs -> Nat]
    BY <2>1, GoesOn
  <2> QED
    BY <1>1, <1>3, <2>1, <2>2 DEF Frk!SumTurn, ForkTypes
<1> QED
  BY <1>2, <1>3

(* The sequences of calls of the programs.                                 *)
LEMMA CodeIs ==
  /\ name = "pingpong" =>
        /\ Frk!Code["parent"] = Frk!PingParent /\ Len(Frk!PingParent) = 9
        /\ Frk!Code["child"] = Frk!PingChild /\ Len(Frk!PingChild) = 5
        /\ Frk!Code["thread"] = <<>>
  /\ name = "3-12" =>
        /\ Frk!Code["parent"] = Frk!IdleParent /\ Len(Frk!IdleParent) = 3
        /\ Frk!Code["child"] = Frk!IdleChild /\ Len(Frk!IdleChild) = 2
        /\ Frk!Code["thread"] = <<>>
  /\ name = "3-14" =>
        /\ Frk!Code["parent"] = Frk!WaitThenPrint /\ Len(Frk!WaitThenPrint) = 3
        /\ Frk!Code["child"] = Frk!CollatzChild /\ Len(Frk!CollatzChild) = 3
        /\ Frk!Code["thread"] = <<>>
  /\ name = "3-15" =>
        /\ Frk!Code["parent"] = Frk!ShareParent /\ Len(Frk!ShareParent) = 4
        /\ Frk!Code["child"] = Frk!ShareChild /\ Len(Frk!ShareChild) = 3
        /\ Frk!Code["thread"] = <<>>
  /\ name = "3-19" =>
        /\ Frk!Code["parent"] = Frk!SwapParent /\ Len(Frk!SwapParent) = 11
        /\ Frk!Code["child"] = Frk!SwapChild /\ Len(Frk!SwapChild) = 7
        /\ Frk!Code["thread"] = <<>>
  /\ name = "3-20" =>
        /\ Frk!Code["parent"] = Frk!CopyParent /\ Len(Frk!CopyParent) = 9
        /\ Frk!Code["child"] = Frk!CopyChild /\ Len(Frk!CopyChild) = 6
        /\ Frk!Code["thread"] = <<>>
  /\ name = "homework" =>
        /\ Frk!Code["parent"] = Frk!WaitThenPrint /\ Len(Frk!WaitThenPrint) = 3
        /\ Frk!Code["child"] = Frk!SumChild /\ Len(Frk!SumChild) = 4
        /\ Frk!Code["thread"] = Frk!MySum /\ Len(Frk!MySum) = 2
<1>1. name = "pingpong" =>
         Frk!Code = Frk!Program(Frk!PingParent, Frk!PingChild, <<>>)
  BY DEF Frk!Code
<1>2. name = "3-12" =>
         Frk!Code = Frk!Program(Frk!IdleParent, Frk!IdleChild, <<>>)
  BY DEF Frk!Code
<1>3. name = "3-14" =>
         Frk!Code = Frk!Program(Frk!WaitThenPrint, Frk!CollatzChild, <<>>)
  BY DEF Frk!Code
<1>4. name = "3-15" =>
         Frk!Code = Frk!Program(Frk!ShareParent, Frk!ShareChild, <<>>)
  BY DEF Frk!Code
<1>5. name = "3-19" =>
         Frk!Code = Frk!Program(Frk!SwapParent, Frk!SwapChild, <<>>)
  BY DEF Frk!Code
<1>6. name = "3-20" =>
         Frk!Code = Frk!Program(Frk!CopyParent, Frk!CopyChild, <<>>)
  BY DEF Frk!Code
<1>7. name = "homework" =>
         Frk!Code = Frk!Program(Frk!WaitThenPrint, Frk!SumChild, Frk!MySum)
  BY DEF Frk!Code
<1>8. /\ Len(Frk!PingParent) = 9
      /\ Len(Frk!PingChild) = 5
      /\ Len(Frk!IdleParent) = 3
      /\ Len(Frk!IdleChild) = 2
      /\ Len(Frk!WaitThenPrint) = 3
      /\ Len(Frk!CollatzChild) = 3
      /\ Len(Frk!ShareChild) = 3
      /\ Len(Frk!SwapParent) = 11
      /\ Len(Frk!SwapChild) = 7
      /\ Len(Frk!CopyParent) = 9
      /\ Len(Frk!CopyChild) = 6
      /\ Len(Frk!SumChild) = 4
      /\ Len(Frk!MySum) = 2
  BY DEF Frk!PingParent, Frk!PingChild, Frk!IdleParent, Frk!IdleChild,
     Frk!WaitThenPrint, Frk!CollatzChild, Frk!ShareChild, Frk!SwapParent,
     Frk!SwapChild, Frk!CopyParent, Frk!CopyChild, Frk!SumChild, Frk!MySum
<1>9. Len(Frk!ShareParent) = 4
  BY DEF Frk!ShareParent, Frk!WaitThenPrint
<1> QED
  BY <1>1, <1>2, <1>3, <1>4, <1>5, <1>6, <1>7, <1>8, <1>9 DEF Frk!Program

(* Who takes a step is alive and has a call to make.                       *)
LEMMA StepsAt ==
  ASSUME NEW p \in Frk!Procs, Frk!Step(p), NEW k \in Nat, Len(Frk!Code[p]) = k
  PROVE  /\ ip[p] > 0 /\ ~(ip[p] > k) /\ ~Frk!Ended(p) /\ Call(p) = Frk!Code[p][ip[p]]
         /\ n' = n
BY StepIs DEF Call, Frk!Ended

(* What wraps is an int, and what an int holds does not wrap.              *)
LEMMA WrappedIs ==
  ASSUME NEW x \in Int
  PROVE  /\ Frk!Wrapped(x) \in Int
         /\ x \in 0 .. MaxInt => Frk!Wrapped(x) = x
<1> DEFINE h == MaxInt + 1
           y == x + h
<1>1. MaxInt \in Nat
  BY ForkNumbers
<1>2. h \in Nat /\ h > 0 /\ y \in Int /\ 2 * h \in Nat /\ 2 * h > 0
  BY <1>1
<1>3. Frk!Wrapped(x) = (y % (2 * h)) - h
  BY DEF Frk!Wrapped
<1> HIDE DEF h
<1>4. y % (2 * h) \in 0 .. 2 * h - 1
  <2> HIDE DEF y
  <2> QED
    BY <1>2
<1>5. Frk!Wrapped(x) \in Int
  BY <1>2, <1>3, <1>4
<1>6. ASSUME x \in 0 .. MaxInt PROVE Frk!Wrapped(x) = x
  <2>1. y \in 0 .. 2 * h - 1
    BY <1>1, <1>6 DEF h
  <2>2. y % (2 * h) = y
    <3> HIDE DEF y
    <3> QED
      BY <1>2, <2>1
  <2> QED
    BY <1>2, <1>3, <2>2
<1> QED
  BY <1>5, <1>6

(* The sequence stays in the integers.                                     *)
LEMMA SuccessorIsInt ==
  ASSUME NEW x \in Int
  PROVE  Frk!Successor(x) \in Int
<1>1. x \div 2 \in Int /\ 3 * x + 1 \in Int
  OBVIOUS
<1> QED
  BY <1>1, WrappedIs DEF Frk!Successor

(* A number above 1 has the successor of the sequence, if an int holds it. *)
LEMMA SuccessorIs ==
  ASSUME NEW x \in Int, x > 1
  PROVE  /\ x % 2 = 0 => 2 * Frk!Successor(x) = x
         /\ x % 2 = 1 /\ 3 * x + 1 <= MaxInt => Frk!Successor(x) = 3 * x + 1
<1>1. x = 2 * (x \div 2) + (x % 2)
  OBVIOUS
<1>2. ASSUME x % 2 = 0 PROVE 2 * Frk!Successor(x) = x
  BY <1>1, <1>2 DEF Frk!Successor
<1>3. ASSUME x % 2 = 1, 3 * x + 1 <= MaxInt PROVE Frk!Successor(x) = 3 * x + 1
  <2> DEFINE z == 3 * x + 1
  <2>1. z \in Int /\ z \in 0 .. MaxInt
    BY <1>3, ForkNumbers
  <2>2. Frk!Successor(x) = Frk!Wrapped(z)
    BY <1>3 DEF Frk!Successor
  <2> HIDE DEF z
  <2>3. Frk!Successor(x) = z
    BY <2>1, <2>2, WrappedIs
  <2> QED
    BY <2>3 DEF z
<1> QED
  BY <1>2, <1>3

(* One more number of the sequence, and its end.                           *)
LEMMA WalkOn ==
  ASSUME NEW S, NEW s \in Seq(S), NEW m \in Int, NEW b \in {1, 2}, NEW x \in Int, x \in S,
         Walking(m, s, b, x)
  PROVE  /\ x > 1 => Walking(m, Append(s, x), b, Frk!Successor(x))
         /\ ~(x > 1) => Walked(m, Append(s, x), b, Len(Append(s, x)))
<1> DEFINE t == Append(s, x)
<1>1. /\ t \in Seq(S) /\ Len(t) = Len(s) + 1 /\ t[Len(s) + 1] = x
      /\ \A i \in 1 .. Len(s) : t[i] = s[i]
  BY AppendProperties
<1>2. Len(s) \in Nat
  OBVIOUS
<1> HIDE DEF t
<1>3. /\ Len(s) >= b - 1 /\ Turns(s, b, Len(s))
      /\ IF Len(s) < b THEN x = m
         ELSE s[b] = m /\ s[Len(s)] \in Int /\ s[Len(s)] > 1 /\ x = Frk!Successor(s[Len(s)])
  BY DEF Walking
<1>4. Turns(t, b, Len(t))
  <2> SUFFICES ASSUME NEW i \in b .. Len(s)
               PROVE  t[i] \in Int /\ t[i] > 1 /\ t[i + 1] = Frk!Successor(t[i])
    BY <1>1, <1>2 DEF Turns
  <2>1. CASE i < Len(s)
    <3>1. i \in 1 .. Len(s) /\ i + 1 \in 1 .. Len(s) /\ i \in b .. Len(s) - 1
      BY <1>2, <2>1
    <3>2. s[i] \in Int /\ s[i] > 1 /\ s[i + 1] = Frk!Successor(s[i])
      BY <1>3, <3>1 DEF Turns
    <3> QED
      BY <1>1, <3>1, <3>2
  <2>2. CASE i = Len(s)
    <3>1. i \in 1 .. Len(s) /\ ~(Len(s) < b)
      BY <1>2, <2>2
    <3>2. s[i] \in Int /\ s[i] > 1 /\ x = Frk!Successor(s[i])
      BY <1>3, <2>2, <3>1
    <3> QED
      BY <1>1, <2>2, <3>1, <3>2
  <2> QED
    BY <1>2, <2>1, <2>2
<1>5. t[b] = m /\ Len(t) >= b /\ t[Len(t)] = x
  <2>1. CASE Len(s) < b
    BY <1>1, <1>2, <1>3, <2>1
  <2>2. CASE ~(Len(s) < b)
    BY <1>1, <1>2, <1>3, <2>2
  <2> QED
    BY <2>1, <2>2
<1>6. Len(t) \in Nat /\ ~(Len(t) < b)
  BY <1>1, <1>2, <1>5
<1>7. x > 1 => Walking(m, t, b, Frk!Successor(x))
  BY <1>4, <1>5, <1>6 DEF Walking
<1>8. ~(x > 1) => Walked(m, t, b, Len(t))
  BY <1>4, <1>5, <1>6 DEF Walked
<1> QED
  BY <1>7, <1>8 DEF t

(* What is printed behind the sequence leaves it as it is.                 *)
LEMMA WalkedStays ==
  ASSUME NEW S, NEW s \in Seq(S), NEW m \in Int, NEW b \in {1, 2}, NEW y \in S,
         Walked(m, s, b, Len(s))
  PROVE  Walked(m, Append(s, y), b, Len(s))
<1> DEFINE t == Append(s, y)
<1>1. \A i \in 1 .. Len(s) : t[i] = s[i]
  BY AppendProperties
<1>2. Len(s) \in Nat
  OBVIOUS
<1> HIDE DEF t
<1>3. Len(s) >= b /\ s[b] = m /\ s[Len(s)] <= 1 /\ Turns(s, b, Len(s))
  BY DEF Walked
<1>4. \A i \in b .. Len(s) - 1 : i \in 1 .. Len(s) /\ i + 1 \in 1 .. Len(s)
  BY <1>2
<1>5. Turns(t, b, Len(s))
  BY <1>1, <1>3, <1>4 DEF Turns
<1>6. t[b] = s[b] /\ t[Len(s)] = s[Len(s)]
  BY <1>1, <1>2, <1>3
<1> QED
  BY <1>3, <1>5, <1>6 DEF Walked, t

(* A process that dies disturbs nothing, unless it is the parent.          *)
LEMMA PingDies ==
  ASSUME PingInv, NEW who \in SUBSET Frk!Procs, who # {}, Dead(who),
         "parent" \in who => AtChild \in {0, 6} \/ "child" \in aborted
  PROVE  PingInv'
<1>1. /\ aborted' # {}
      /\ \A p \in Frk!Procs : p \in aborted' <=> p \in aborted \/ p \in who
  BY DEF Dead
<1> QED
  BY <1>1 DEF PingInv, Kin, Dead, Stays, Frk!Procs

(* pingpong.c: the parent.                                                 *)
LEMMA PingParentKeeps ==
  ASSUME ForkTypes, name = "pingpong", PingInv, Frk!Step("parent")
  PROVE  ForkTypes' /\ PingInv'
<1> DEFINE call == Call("parent")
<1>1. /\ "parent" \in Frk!Procs /\ "child" \in Frk!Procs /\ "thread" \in Frk!Procs
      /\ 1 \in Frk!Pipes /\ 2 \in Frk!Pipes
      /\ {"parent"} \in SUBSET Frk!Procs /\ {"parent"} # {}
  BY DEF Frk!Procs, Frk!Pipes
<1>2. /\ AtParent \in 1 .. 9 /\ call = Frk!PingParent[AtParent]
      /\ "parent" \notin aborted /\ ~Frk!Ended("parent")
  <2>1. AtParent \in 0 .. 10
    BY DEF PingInv
  <2>2. Frk!Code["parent"] = Frk!PingParent /\ Len(Frk!Code["parent"]) = 9
        /\ 9 \in Nat
    BY CodeIs
  <2>3. /\ AtParent > 0 /\ ~(AtParent > 9) /\ ~Frk!Ended("parent")
        /\ call = Frk!PingParent[AtParent]
    BY <1>1, <2>2, StepsAt DEF AtParent
  <2> QED
    BY <2>1, <2>3 DEF Frk!Ended
<1>3. /\ AtParent = 1 => call = <<"pipe", 1>>
      /\ AtParent = 2 => call = <<"fork", 0>>
      /\ AtParent = 3 => call = <<"put", "a">>
      /\ AtParent = 4 => call = <<"write", 1>>
      /\ AtParent = 5 => call = <<"close", Frk!W(1)>>
      /\ AtParent = 6 => call = <<"wait", "child">>
      /\ AtParent = 7 => call = <<"read", 1>>
      /\ AtParent = 8 => call = <<"close", Frk!R(1)>>
      /\ AtParent = 9 => call = <<"print", "pong">>
  BY <1>2 DEF Frk!PingParent
<1> HIDE DEF call
<1>4. CASE AtParent = 1
  <2>1. /\ ForkTypes'
        /\ Advances("parent")
        /\ ends'["parent"] = ends["parent"] \cup {Frk!R(1), Frk!W(1)}
        /\ UNCHANGED <<pipes, buffer, num, shm, out, heard, aborted>>
    BY <1>1, <1>3, <1>4, PipeDoes DEF Frk!Procs, Frk!Pipes, call
  <2> QED
    BY <1>1, <1>2, <1>4, <2>1 DEF PingInv, Kin, Advances
<1>5. CASE AtParent = 2
  <2>1. ForkTypes'
    BY <1>1, <1>3, <1>5, ForkDoes DEF call
  <2>2. CASE Dead({"parent"})
    <3>1. AtChild = 0
      BY <1>5 DEF PingInv, Kin
    <3> QED
      BY <1>1, <2>1, <2>2, <3>1, PingDies
  <2>3. CASE ~Dead({"parent"})
    <3>1. /\ AtParent' = AtParent + 1 /\ AtChild' = 1 /\ AtThread' = AtThread
          /\ ends'["parent"] = ends["parent"] /\ ends'["child"] = ends["parent"]
          /\ UNCHANGED <<pipes, buffer, num, shm, out, heard, aborted>>
      BY <1>1, <1>3, <1>5, <2>3, ForkDoes DEF call
    <3> QED
      BY <1>1, <1>2, <1>5, <2>1, <3>1 DEF PingInv, Kin
  <2> QED
    BY <2>2, <2>3
<1>6. CASE AtParent = 3
  <2>1. /\ ForkTypes'
        /\ Advances("parent")
        /\ buffer'["parent"] = "a"
        /\ buffer'["child"] = buffer["child"] /\ buffer'["thread"] = buffer["thread"]
        /\ UNCHANGED <<ends, pipes, num, shm, out, heard, aborted>>
    BY <1>1, <1>3, <1>6, PutDoes DEF Frk!Procs, Frk!Pipes, call
  <2> QED
    BY <1>1, <1>2, <1>6, <2>1 DEF PingInv, Kin, Advances
<1>7. CASE AtParent = 4
  <2>1. call[1] = "write" /\ call[2] = 1
    BY <1>3, <1>7
  <2>2. ForkTypes'
    BY <1>1, <2>1, WriteDoes DEF Frk!Procs, Frk!Pipes, call
  <2>3. CASE Dead({"parent"})
    <3>1. ~Frk!IsOpen(Frk!R(1))
      BY <1>1, <1>2, <2>1, <2>3, WriteDoes DEF Advances, Dead, Stays, call
    <3>2. FALSE
      BY <1>1, <1>2, <1>7, <3>1 DEF Frk!IsOpen, PingInv
    <3> QED
      BY <1>1, <2>2, <2>3, <3>2, PingDies
  <2>4. CASE ~Dead({"parent"})
    <3>1. /\ Advances("parent")
          /\ pipes'[1] = Append(pipes[1], <<"parent", buffer["parent"]>>)
          /\ pipes'[2] = pipes[2]
          /\ UNCHANGED <<ends, buffer, num, shm, out, heard, aborted>>
      BY <1>1, <2>1, <2>4, WriteDoes DEF Frk!Procs, Frk!Pipes, call
    <3> QED
      BY <1>1, <1>2, <1>7, <2>2, <3>1, AppendIs DEF PingInv, Kin, Advances
  <2> QED
    BY <2>3, <2>4
<1>8. CASE AtParent = 5
  <2>1. /\ ForkTypes'
        /\ Advances("parent")
        /\ ends'["parent"] = ends["parent"] \ {Frk!W(1)}
        /\ ends'["child"] = ends["child"] /\ ends'["thread"] = ends["thread"]
        /\ UNCHANGED <<pipes, buffer, num, shm, out, heard, aborted>>
    BY <1>1, <1>3, <1>8, CloseDoes DEF Frk!Procs, Frk!Pipes, call
  <2> QED
    BY <1>1, <1>2, <1>8, <2>1 DEF PingInv, Kin, Advances, Frk!R, Frk!W
<1>9. CASE AtParent = 6
  <2>1. Frk!Ended("child")
    BY <1>1, <1>3, <1>9, WaitDoes DEF call
  <2>2. AtChild > 5 \/ "child" \in aborted
    BY <2>1, CodeIs DEF Frk!Ended, AtChild
  <2>3. /\ ForkTypes'
        /\ Advances("parent")
        /\ UNCHANGED <<ends, pipes, buffer, num, shm, out, heard, aborted>>
    BY <1>1, <1>3, <1>9, WaitDoes DEF Frk!Procs, Frk!Pipes, call
  <2> QED
    BY <1>1, <1>2, <1>9, <2>1, <2>2, <2>3 DEF PingInv, Kin, Advances
<1>10. CASE AtParent = 7
  <2>1. call[1] = "read" /\ call[2] = 1
    BY <1>3, <1>10
  <2>2. ForkTypes'
    BY <1>1, <2>1, ReadDoes DEF Frk!Procs, Frk!Pipes, call
  <2>3. CASE Dead({"parent"})
    <3>1. AtChild = 6 \/ "child" \in aborted
      BY <1>10 DEF PingInv, Kin
    <3> QED
      BY <1>1, <2>2, <2>3, <3>1, PingDies
  <2>4. CASE ~Dead({"parent"})
    <3>1. /\ Advances("parent")
          /\ pipes[1] # <<>>
          /\ buffer'["parent"] = Head(pipes[1])[2]
          /\ buffer'["child"] = buffer["child"] /\ buffer'["thread"] = buffer["thread"]
          /\ heard'["parent"] = heard["parent"] \cup {Head(pipes[1])[1]}
          /\ heard'["child"] = heard["child"] /\ heard'["thread"] = heard["thread"]
          /\ pipes'[1] = Tail(pipes[1])
          /\ pipes'[2] = pipes[2]
          /\ UNCHANGED <<ends, num, shm, out, aborted>>
      BY <1>1, <2>1, <2>4, ReadDoes DEF Frk!Procs, Frk!Pipes, call
    <3> QED
      BY <1>1, <1>2, <1>10, <2>2, <3>1 DEF PingInv, Kin, Advances
  <2> QED
    BY <2>3, <2>4
<1>11. CASE AtParent = 8
  <2>1. /\ ForkTypes'
        /\ Advances("parent")
        /\ ends'["parent"] = ends["parent"] \ {Frk!R(1)}
        /\ ends'["child"] = ends["child"] /\ ends'["thread"] = ends["thread"]
        /\ UNCHANGED <<pipes, buffer, num, shm, out, heard, aborted>>
    BY <1>1, <1>3, <1>11, CloseDoes DEF Frk!Procs, Frk!Pipes, call
  <2> QED
    BY <1>1, <1>2, <1>11, <2>1 DEF PingInv, Kin, Advances, Frk!R, Frk!W
<1>12. CASE AtParent = 9
  <2>1. aborted = {} => out = <<"ping">>
    BY <1>12 DEF PingInv, Kin
  <2>2. aborted = {} => Append(out, "pong") = <<"ping", "pong">>
    BY <2>1, AppendIs
  <2>3. /\ ForkTypes'
        /\ Advances("parent")
        /\ out' = Append(out, "pong")
        /\ UNCHANGED <<ends, pipes, buffer, num, shm, heard, aborted>>
    BY <1>1, <1>3, <1>12, PrintDoes DEF Frk!Procs, Frk!Pipes, call
  <2> QED
    BY <1>1, <1>2, <1>12, <2>1, <2>2, <2>3 DEF PingInv, Kin, Advances
<1> QED
  BY <1>2, <1>4, <1>5, <1>6, <1>7, <1>8, <1>9, <1>10, <1>11, <1>12

(* pingpong.c: the child.                                                  *)
LEMMA PingChildKeeps ==
  ASSUME ForkTypes, name = "pingpong", PingInv, Frk!Step("child")
  PROVE  ForkTypes' /\ PingInv'
<1> DEFINE call == Call("child")
<1>1. /\ "parent" \in Frk!Procs /\ "child" \in Frk!Procs /\ "thread" \in Frk!Procs
      /\ 1 \in Frk!Pipes /\ 2 \in Frk!Pipes
      /\ {"child"} \in SUBSET Frk!Procs /\ {"child"} # {}
  BY DEF Frk!Procs, Frk!Pipes
<1>2. /\ AtChild \in 1 .. 5 /\ call = Frk!PingChild[AtChild]
      /\ "child" \notin aborted /\ ~Frk!Ended("child")
  <2>1. AtChild \in 0 .. 6
    BY DEF PingInv
  <2>2. Frk!Code["child"] = Frk!PingChild /\ Len(Frk!Code["child"]) = 5
        /\ 5 \in Nat
    BY CodeIs
  <2>3. /\ AtChild > 0 /\ ~(AtChild > 5) /\ ~Frk!Ended("child")
        /\ call = Frk!PingChild[AtChild]
    BY <1>1, <2>2, StepsAt DEF AtChild
  <2> QED
    BY <2>1, <2>3 DEF Frk!Ended
<1>3. /\ AtChild = 1 => call = <<"read", 1>>
      /\ AtChild = 2 => call = <<"close", Frk!R(1)>>
      /\ AtChild = 3 => call = <<"print", "ping">>
      /\ AtChild = 4 => call = <<"write", 1>>
      /\ AtChild = 5 => call = <<"close", Frk!W(1)>>
  BY <1>2 DEF Frk!PingChild
<1> HIDE DEF call
<1>4. CASE AtChild = 1
  <2>1. call[1] = "read" /\ call[2] = 1
    BY <1>3, <1>4
  <2>2. ForkTypes'
    BY <1>1, <2>1, ReadDoes DEF Frk!Procs, Frk!Pipes, call
  <2>3. CASE Dead({"child"})
    BY <1>1, <2>2, <2>3, PingDies
  <2>4. CASE ~Dead({"child"})
    <3>1. /\ Advances("child")
          /\ pipes[1] # <<>>
          /\ buffer'["child"] = Head(pipes[1])[2]
          /\ buffer'["parent"] = buffer["parent"] /\ buffer'["thread"] = buffer["thread"]
          /\ heard'["child"] = heard["child"] \cup {Head(pipes[1])[1]}
          /\ heard'["parent"] = heard["parent"] /\ heard'["thread"] = heard["thread"]
          /\ pipes'[1] = Tail(pipes[1])
          /\ pipes'[2] = pipes[2]
          /\ UNCHANGED <<ends, num, shm, out, aborted>>
      BY <1>1, <2>1, <2>4, ReadDoes DEF Frk!Procs, Frk!Pipes, call
    <3> QED
      BY <1>1, <1>2, <1>4, <2>2, <3>1 DEF PingInv, Kin, Advances
  <2> QED
    BY <2>3, <2>4
<1>5. CASE AtChild = 2
  <2>1. /\ ForkTypes'
        /\ Advances("child")
        /\ ends'["child"] = ends["child"] \ {Frk!R(1)}
        /\ ends'["parent"] = ends["parent"] /\ ends'["thread"] = ends["thread"]
        /\ UNCHANGED <<pipes, buffer, num, shm, out, heard, aborted>>
    BY <1>1, <1>3, <1>5, CloseDoes DEF Frk!Procs, Frk!Pipes, call
  <2> QED
    BY <1>1, <1>2, <1>5, <2>1 DEF PingInv, Kin, Advances, Frk!R, Frk!W
<1>6. CASE AtChild = 3
  <2>1. aborted = {} => out = <<>>
    BY <1>6 DEF PingInv, Kin
  <2>2. aborted = {} => Append(out, "ping") = <<"ping">>
    BY <2>1, AppendIs
  <2>3. /\ ForkTypes'
        /\ Advances("child")
        /\ out' = Append(out, "ping")
        /\ UNCHANGED <<ends, pipes, buffer, num, shm, heard, aborted>>
    BY <1>1, <1>3, <1>6, PrintDoes DEF Frk!Procs, Frk!Pipes, call
  <2> QED
    BY <1>1, <1>2, <1>6, <2>1, <2>2, <2>3 DEF PingInv, Kin, Advances
<1>7. CASE AtChild = 4
  <2>1. call[1] = "write" /\ call[2] = 1
    BY <1>3, <1>7
  <2>2. ForkTypes'
    BY <1>1, <2>1, WriteDoes DEF Frk!Procs, Frk!Pipes, call
  <2>3. CASE Dead({"child"})
    BY <1>1, <2>2, <2>3, PingDies
  <2>4. CASE ~Dead({"child"})
    <3>1. /\ Advances("child")
          /\ pipes'[1] = Append(pipes[1], <<"child", buffer["child"]>>)
          /\ pipes'[2] = pipes[2]
          /\ UNCHANGED <<ends, buffer, num, shm, out, heard, aborted>>
      BY <1>1, <2>1, <2>4, WriteDoes DEF Frk!Procs, Frk!Pipes, call
    <3> QED
      BY <1>1, <1>2, <1>7, <2>2, <3>1, AppendIs DEF PingInv, Kin, Advances
  <2> QED
    BY <2>3, <2>4
<1>8. CASE AtChild = 5
  <2>1. /\ ForkTypes'
        /\ Advances("child")
        /\ ends'["child"] = ends["child"] \ {Frk!W(1)}
        /\ ends'["parent"] = ends["parent"] /\ ends'["thread"] = ends["thread"]
        /\ UNCHANGED <<pipes, buffer, num, shm, out, heard, aborted>>
    BY <1>1, <1>3, <1>8, CloseDoes DEF Frk!Procs, Frk!Pipes, call
  <2> QED
    BY <1>1, <1>2, <1>8, <2>1 DEF PingInv, Kin, Advances, Frk!R, Frk!W
<1> QED
  BY <1>2, <1>4, <1>5, <1>6, <1>7, <1>8

(* 3-12.c: a process that dies disturbs nothing.                           *)
LEMMA IdleDies ==
  ASSUME IdleInv, NEW who \in SUBSET Frk!Procs, who # {}, Dead(who),
         "parent" \in who => AtChild \in {0, 3} \/ "child" \in aborted
  PROVE  IdleInv'
<1>1. /\ aborted' # {}
      /\ \A p \in Frk!Procs : p \in aborted' <=> p \in aborted \/ p \in who
  BY DEF Dead
<1> QED
  BY <1>1 DEF IdleInv, Kin, Dead, Stays, Frk!Procs, NoPipes

(* 3-12.c: the parent.                                                     *)
LEMMA IdleParentKeeps ==
  ASSUME ForkTypes, name = "3-12", IdleInv, Frk!Step("parent")
  PROVE  ForkTypes' /\ IdleInv'
<1> DEFINE call == Call("parent")
<1>1. /\ "parent" \in Frk!Procs /\ "child" \in Frk!Procs /\ "thread" \in Frk!Procs
      /\ 1 \in Frk!Pipes /\ 2 \in Frk!Pipes
      /\ {"parent"} \in SUBSET Frk!Procs /\ {"parent"} # {}
  BY DEF Frk!Procs, Frk!Pipes
<1>2. /\ AtParent \in 1 .. 3 /\ call = Frk!IdleParent[AtParent]
      /\ "parent" \notin aborted /\ ~Frk!Ended("parent")
  <2>1. AtParent \in 0 .. 4
    BY DEF IdleInv
  <2>2. Frk!Code["parent"] = Frk!IdleParent /\ Len(Frk!Code["parent"]) = 3
        /\ 3 \in Nat
    BY CodeIs
  <2>3. /\ AtParent > 0 /\ ~(AtParent > 3) /\ ~Frk!Ended("parent")
        /\ call = Frk!IdleParent[AtParent]
    BY <1>1, <2>2, StepsAt DEF AtParent
  <2> QED
    BY <2>1, <2>3 DEF Frk!Ended
<1>3. /\ AtParent = 1 => call = <<"fork", 0>>
      /\ AtParent = 2 => call = <<"print", "parent">>
      /\ AtParent = 3 => call = <<"wait", "child">>
  BY <1>2 DEF Frk!IdleParent
<1> HIDE DEF call
<1>4. CASE AtParent = 1
  <2>1. ForkTypes'
    BY <1>1, <1>3, <1>4, ForkDoes DEF call
  <2>2. CASE Dead({"parent"})
    <3>1. AtChild = 0
      BY <1>4 DEF IdleInv, Kin
    <3> QED
      BY <1>1, <2>1, <2>2, <3>1, IdleDies
  <2>3. CASE ~Dead({"parent"})
    <3>1. /\ AtParent' = AtParent + 1 /\ AtChild' = 1 /\ AtThread' = AtThread
          /\ ends'["parent"] = ends["parent"] /\ ends'["child"] = ends["parent"]
          /\ UNCHANGED <<pipes, buffer, num, shm, out, heard, aborted>>
      BY <1>1, <1>3, <1>4, <2>3, ForkDoes DEF call
    <3> QED
      BY <1>1, <1>2, <1>4, <2>1, <3>1 DEF IdleInv, Kin, NoPipes
  <2> QED
    BY <2>2, <2>3
<1>5. CASE AtParent = 2
  <2>1. aborted = {} => out = IF AtChild > 1 THEN <<"child">> ELSE <<>>
    BY <1>5 DEF IdleInv
  <2>2. aborted = {} => Append(out, "parent")
           = IF AtChild > 1 THEN <<"child", "parent">> ELSE <<"parent">>
    BY <2>1, AppendIs
  <2>3. /\ ForkTypes'
        /\ Advances("parent")
        /\ out' = Append(out, "parent")
        /\ UNCHANGED <<ends, pipes, buffer, num, shm, heard, aborted>>
    BY <1>1, <1>3, <1>5, PrintDoes DEF Frk!Procs, Frk!Pipes, call
  <2> QED
    BY <1>1, <1>2, <1>5, <2>1, <2>2, <2>3 DEF IdleInv, Kin, Advances, NoPipes
<1>6. CASE AtParent = 3
  <2>1. Frk!Ended("child")
    BY <1>1, <1>3, <1>6, WaitDoes DEF call
  <2>2. AtChild > 2 \/ "child" \in aborted
    BY <2>1, CodeIs DEF Frk!Ended, AtChild
  <2>3. /\ ForkTypes'
        /\ Advances("parent")
        /\ UNCHANGED <<ends, pipes, buffer, num, shm, out, heard, aborted>>
    BY <1>1, <1>3, <1>6, WaitDoes DEF Frk!Procs, Frk!Pipes, call
  <2> QED
    BY <1>1, <1>2, <1>6, <2>1, <2>2, <2>3 DEF IdleInv, Kin, Advances, NoPipes
<1> QED
  BY <1>2, <1>4, <1>5, <1>6

(* 3-12.c: the child.                                                      *)
LEMMA IdleChildKeeps ==
  ASSUME ForkTypes, name = "3-12", IdleInv, Frk!Step("child")
  PROVE  ForkTypes' /\ IdleInv'
<1> DEFINE call == Call("child")
<1>1. /\ "parent" \in Frk!Procs /\ "child" \in Frk!Procs /\ "thread" \in Frk!Procs
      /\ 1 \in Frk!Pipes /\ 2 \in Frk!Pipes
      /\ {"child"} \in SUBSET Frk!Procs /\ {"child"} # {}
  BY DEF Frk!Procs, Frk!Pipes
<1>2. /\ AtChild \in 1 .. 2 /\ call = Frk!IdleChild[AtChild]
      /\ "child" \notin aborted /\ ~Frk!Ended("child")
  <2>1. AtChild \in 0 .. 3
    BY DEF IdleInv
  <2>2. Frk!Code["child"] = Frk!IdleChild /\ Len(Frk!Code["child"]) = 2
        /\ 2 \in Nat
    BY CodeIs
  <2>3. /\ AtChild > 0 /\ ~(AtChild > 2) /\ ~Frk!Ended("child")
        /\ call = Frk!IdleChild[AtChild]
    BY <1>1, <2>2, StepsAt DEF AtChild
  <2> QED
    BY <2>1, <2>3 DEF Frk!Ended
<1>3. /\ AtChild = 1 => call = <<"print", "child">>
      /\ AtChild = 2 => call = <<"sleep", 30>>
  BY <1>2 DEF Frk!IdleChild
<1> HIDE DEF call
<1>4. CASE AtChild = 1
  <2>1. aborted = {} => out = IF AtParent > 2 THEN <<"parent">> ELSE <<>>
    BY <1>4 DEF IdleInv
  <2>2. aborted = {} => Append(out, "child")
           = IF AtParent > 2 THEN <<"parent", "child">> ELSE <<"child">>
    BY <2>1, AppendIs
  <2>3. /\ ForkTypes'
        /\ Advances("child")
        /\ out' = Append(out, "child")
        /\ UNCHANGED <<ends, pipes, buffer, num, shm, heard, aborted>>
    BY <1>1, <1>3, <1>4, PrintDoes DEF Frk!Procs, Frk!Pipes, call
  <2> QED
    BY <1>1, <1>2, <1>4, <2>1, <2>2, <2>3 DEF IdleInv, Kin, Advances, NoPipes
<1>5. CASE AtChild = 2
  <2>1. /\ ForkTypes'
        /\ Advances("child")
        /\ UNCHANGED <<ends, pipes, buffer, num, shm, out, heard, aborted>>
    BY <1>1, <1>3, <1>5, SleepDoes DEF Frk!Procs, Frk!Pipes, call
  <2> QED
    BY <1>1, <1>2, <1>5, <2>1 DEF IdleInv, Kin, Advances, NoPipes
<1> QED
  BY <1>2, <1>4, <1>5

(* 3-14.c: a process that dies disturbs nothing.                           *)
LEMMA CollatzDies ==
  ASSUME CollatzInv, NEW who \in SUBSET Frk!Procs, who # {}, Dead(who),
         "parent" \in who => AtChild \in {0, 4} \/ "child" \in aborted
  PROVE  CollatzInv'
<1>1. /\ aborted' # {}
      /\ \A p \in Frk!Procs : p \in aborted' <=> p \in aborted \/ p \in who
  BY DEF Dead
<1> QED
  BY <1>1 DEF CollatzInv, Kin, Dead, Stays, Frk!Procs, NoPipes

(* 3-14.c: the parent.                                                     *)
LEMMA CollatzParentKeeps ==
  ASSUME ForkTypes, name = "3-14", CollatzInv, Frk!Step("parent")
  PROVE  ForkTypes' /\ CollatzInv'
<1> DEFINE call == Call("parent")
<1>1. /\ "parent" \in Frk!Procs /\ "child" \in Frk!Procs /\ "thread" \in Frk!Procs
      /\ 1 \in Frk!Pipes /\ 2 \in Frk!Pipes
      /\ {"parent"} \in SUBSET Frk!Procs /\ {"parent"} # {}
  BY DEF Frk!Procs, Frk!Pipes
<1>2. /\ AtParent \in 1 .. 3 /\ call = Frk!WaitThenPrint[AtParent]
      /\ "parent" \notin aborted /\ ~Frk!Ended("parent") /\ n' = n
  <2>1. AtParent \in 0 .. 4
    BY DEF CollatzInv
  <2>2. Frk!Code["parent"] = Frk!WaitThenPrint /\ Len(Frk!Code["parent"]) = 3
        /\ 3 \in Nat
    BY CodeIs
  <2>3. /\ AtParent > 0 /\ ~(AtParent > 3) /\ ~Frk!Ended("parent")
        /\ call = Frk!WaitThenPrint[AtParent] /\ n' = n
    BY <1>1, <2>2, StepsAt DEF AtParent
  <2> QED
    BY <2>1, <2>3 DEF Frk!Ended
<1>3. /\ AtParent = 1 => call = <<"fork", 0>>
      /\ AtParent = 2 => call = <<"wait", "child">>
      /\ AtParent = 3 => call = <<"print", "parent">>
  BY <1>2 DEF Frk!WaitThenPrint
<1> HIDE DEF call
<1>4. CASE AtParent = 1
  <2>1. ForkTypes'
    BY <1>1, <1>3, <1>4, ForkDoes DEF call
  <2>2. CASE Dead({"parent"})
    <3>1. AtChild = 0
      BY <1>4 DEF CollatzInv, Kin
    <3> QED
      BY <1>1, <2>1, <2>2, <3>1, CollatzDies
  <2>3. CASE ~Dead({"parent"})
    <3>1. /\ AtParent' = AtParent + 1 /\ AtChild' = 1 /\ AtThread' = AtThread
          /\ ends'["parent"] = ends["parent"] /\ ends'["child"] = ends["parent"]
          /\ UNCHANGED <<pipes, buffer, num, shm, out, heard, aborted>>
      BY <1>1, <1>3, <1>4, <2>3, ForkDoes DEF call
    <3> QED
      BY <1>1, <1>2, <1>4, <2>1, <3>1 DEF CollatzInv, Kin, NoPipes
  <2> QED
    BY <2>2, <2>3
<1>5. CASE AtParent = 2
  <2>1. Frk!Ended("child")
    BY <1>1, <1>3, <1>5, WaitDoes DEF call
  <2>2. AtChild > 3 \/ "child" \in aborted
    BY <2>1, CodeIs DEF Frk!Ended, AtChild
  <2>3. /\ ForkTypes'
        /\ Advances("parent")
        /\ UNCHANGED <<ends, pipes, buffer, num, shm, out, heard, aborted>>
    BY <1>1, <1>3, <1>5, WaitDoes DEF Frk!Procs, Frk!Pipes, call
  <2> QED
    BY <1>1, <1>2, <1>5, <2>1, <2>2, <2>3 DEF CollatzInv, Kin, Advances, NoPipes
<1>6. CASE AtParent = 3
  <2>1. out \in Seq({"child", "parent"} \cup Int) /\ n \in Int
    BY DEF CollatzInv, ForkTypes
  <2>2. aborted = {} => out[1] = "child" /\ Walked(n, out, 2, Len(out))
    BY <1>6 DEF CollatzInv, Kin
  <2>3. aborted = {} => Len(out) >= 2
    BY <2>2 DEF Walked
  <2>4. PICK s : s = out
    OBVIOUS
  <2>5. /\ Append(s, "parent") \in Seq({"child", "parent"} \cup Int)
        /\ Len(Append(s, "parent")) = Len(s) + 1 /\ Len(s) \in Nat
        /\ Append(s, "parent")[Len(s) + 1] = "parent"
        /\ \A i \in 1 .. Len(s) : Append(s, "parent")[i] = s[i]
    BY <2>1, <2>4, AppendProperties
  <2>6. aborted = {} => Walked(n, Append(s, "parent"), 2, Len(s))
    BY <2>1, <2>2, <2>4, WalkedStays
  <2>7. /\ ForkTypes'
        /\ Advances("parent")
        /\ out' = Append(out, "parent")
        /\ UNCHANGED <<ends, pipes, buffer, num, shm, heard, aborted>>
    BY <1>1, <1>3, <1>6, PrintDoes DEF Frk!Procs, Frk!Pipes, call
  <2> QED
    BY <1>1, <1>2, <1>6, <2>1, <2>2, <2>3, <2>4, <2>5, <2>6, <2>7
       DEF CollatzInv, Kin, Advances, NoPipes
<1> QED
  BY <1>2, <1>4, <1>5, <1>6

(* 3-14.c: the child.                                                      *)
LEMMA CollatzChildKeeps ==
  ASSUME ForkTypes, name = "3-14", CollatzInv, Frk!Step("child")
  PROVE  ForkTypes' /\ CollatzInv'
<1> DEFINE call == Call("child")
<1>1. /\ "parent" \in Frk!Procs /\ "child" \in Frk!Procs /\ "thread" \in Frk!Procs
      /\ 1 \in Frk!Pipes /\ 2 \in Frk!Pipes
      /\ {"child"} \in SUBSET Frk!Procs /\ {"child"} # {}
  BY DEF Frk!Procs, Frk!Pipes
<1>2. /\ AtChild \in 1 .. 3 /\ call = Frk!CollatzChild[AtChild]
      /\ "child" \notin aborted /\ ~Frk!Ended("child") /\ n' = n
  <2>1. AtChild \in 0 .. 4
    BY DEF CollatzInv
  <2>2. Frk!Code["child"] = Frk!CollatzChild /\ Len(Frk!Code["child"]) = 3
        /\ 3 \in Nat
    BY CodeIs
  <2>3. /\ AtChild > 0 /\ ~(AtChild > 3) /\ ~Frk!Ended("child")
        /\ call = Frk!CollatzChild[AtChild] /\ n' = n
    BY <1>1, <2>2, StepsAt DEF AtChild
  <2> QED
    BY <2>1, <2>3 DEF Frk!Ended
<1>3. /\ AtChild = 1 => call = <<"print", "child">>
      /\ AtChild = 2 => call = <<"number", <<n, 0>>>>
      /\ AtChild = 3 => call = <<"collatz", "console">>
  BY <1>2 DEF Frk!CollatzChild
<1> HIDE DEF call
<1>4. CASE AtChild = 1
  <2>1. out \in Seq({"child", "parent"} \cup Int) /\ (aborted = {} => out = <<>>)
    BY <1>4 DEF CollatzInv
  <2>2. Append(out, "child") \in Seq({"child", "parent"} \cup Int)
    BY <2>1, AppendProperties
  <2>3. aborted = {} => Append(out, "child") = <<"child">>
    BY <2>1, AppendIs
  <2>4. /\ ForkTypes'
        /\ Advances("child")
        /\ out' = Append(out, "child")
        /\ UNCHANGED <<ends, pipes, buffer, num, shm, heard, aborted>>
    BY <1>1, <1>3, <1>4, PrintDoes DEF Frk!Procs, Frk!Pipes, call
  <2> QED
    BY <1>1, <1>2, <1>4, <2>1, <2>2, <2>3, <2>4 DEF CollatzInv, Kin, Advances,
       NoPipes
<1>5. CASE AtChild = 2
  <2>1. n \in Int
    BY DEF ForkTypes
  <2>2. aborted = {} => Len(out) = 1
    BY <1>5 DEF CollatzInv
  <2>3. aborted = {} => Walking(n, out, 2, n)
    BY <2>2 DEF Walking, Turns
  <2>4. /\ ForkTypes'
        /\ Advances("child")
        /\ num'["child"] = <<n, 0>>
        /\ num'["parent"] = num["parent"] /\ num'["thread"] = num["thread"]
        /\ UNCHANGED <<ends, pipes, buffer, shm, out, heard, aborted>>
    BY <1>1, <1>3, <1>5, NumberDoes DEF Frk!Procs, Frk!Pipes, call
  <2>5. num'["child"][1] = n
    BY <2>4
  <2> QED
    BY <1>1, <1>2, <1>5, <2>1, <2>2, <2>3, <2>4, <2>5 DEF CollatzInv, Kin,
       Advances, NoPipes
<1>6. CASE AtChild = 3
  <2> DEFINE S == {"child", "parent"} \cup Int
  <2>1. call[1] = "collatz" /\ call[2] = "console"
    BY <1>3, <1>6
  <2>2. PICK x : x = num["child"][1]
    OBVIOUS
  <2>3. PICK s : s = out
    OBVIOUS
  <2>4. /\ ForkTypes' /\ n \in Int
        /\ out' = Append(s, x) /\ shm' = shm
        /\ x > 1 => Stays /\ num'["child"] = <<Frk!Successor(x), 0>>
        /\ ~(x > 1) => Advances("child") /\ num' = num
        /\ UNCHANGED <<ends, pipes, buffer, heard, aborted>>
    <3>1. ~Frk!Overruns("child")
      BY <1>1, <2>1, OverrunDoes DEF call
    <3> QED
      BY <1>1, <2>1, <2>2, <2>3, <3>1, CollatzDoes, StepIs DEF call, ForkTypes
  <2>5. x \in Int /\ x \in S /\ s \in Seq(S) /\ 2 \in {1, 2}
    BY <2>2, <2>3, <1>6 DEF CollatzInv
  <2>6. Append(s, x) \in Seq(S) /\ Len(Append(s, x)) = Len(s) + 1 /\ Len(s) \in Nat
        /\ \A i \in 1 .. Len(s) : Append(s, x)[i] = s[i]
    <3> HIDE DEF S
    <3> QED
      BY <2>5, AppendProperties
  <2>7. aborted = {} => Walking(n, s, 2, x)
    BY <2>2, <2>3, <1>6 DEF CollatzInv
  <2>8. CASE x > 1
    <3>1. aborted = {} => Walking(n, Append(s, x), 2, Frk!Successor(x))
      BY <2>4, <2>5, <2>7, <2>8, WalkOn
    <3>2. num'["child"][1] = Frk!Successor(x)
      BY <2>4, <2>8
    <3>3. Frk!Successor(x) \in Int
      BY <2>5, SuccessorIsInt
    <3> QED
      BY <1>1, <1>2, <1>6, <2>3, <2>4, <2>6, <2>7, <2>8, <3>1, <3>2, <3>3
         DEF CollatzInv, Kin, NoPipes, Stays, Walking
  <2>9. CASE ~(x > 1)
    <3>1. aborted = {} => Walked(n, Append(s, x), 2, Len(Append(s, x)))
      BY <2>4, <2>5, <2>7, <2>9, WalkOn
    <3> QED
      BY <1>1, <1>2, <1>6, <2>3, <2>4, <2>6, <2>7, <2>9, <3>1 DEF CollatzInv,
         Kin, NoPipes, Advances, Walking
  <2> QED
    BY <2>8, <2>9
<1> QED
  BY <1>2, <1>4, <1>5, <1>6

(* 3-15.c: the calls of the parent.                                        *)
LEMMA ShareParentIs ==
  /\ Frk!ShareParent[1] = <<"fork", 0>> /\ Frk!ShareParent[2] = <<"wait", "child">>
  /\ Frk!ShareParent[3] = <<"print", "parent">> /\ Frk!ShareParent[4] = <<"showShm", 0>>
BY DEF Frk!ShareParent, Frk!WaitThenPrint

(* 3-15.c: a process that dies disturbs nothing, unless it is the parent.  *)
LEMMA ShareDies ==
  ASSUME ShareInv, NEW who \in SUBSET Frk!Procs, who # {}, Dead(who),
         "parent" \in who => AtChild \in {0, 4} \/ "child" \in aborted
  PROVE  ShareInv'
<1>1. /\ aborted' # {}
      /\ \A p \in Frk!Procs : p \in aborted' <=> p \in aborted \/ p \in who
  BY DEF Dead
<1> QED
  BY <1>1 DEF ShareInv, Kin, Dead, Stays, Frk!Procs, NoPipes

(* 3-15.c: the parent.                                                     *)
LEMMA ShareParentKeeps ==
  ASSUME ForkTypes, name = "3-15", ShareInv, Frk!Step("parent")
  PROVE  ForkTypes' /\ ShareInv'
<1> DEFINE call == Call("parent")
<1>1. /\ "parent" \in Frk!Procs /\ "child" \in Frk!Procs /\ "thread" \in Frk!Procs
      /\ 1 \in Frk!Pipes /\ 2 \in Frk!Pipes
      /\ {"parent"} \in SUBSET Frk!Procs /\ {"parent"} # {}
  BY DEF Frk!Procs, Frk!Pipes
<1>2. /\ AtParent \in 1 .. 4 /\ call = Frk!ShareParent[AtParent]
      /\ "parent" \notin aborted /\ ~Frk!Ended("parent") /\ n' = n
  <2>1. AtParent \in 0 .. 5
    BY DEF ShareInv
  <2>2. Frk!Code["parent"] = Frk!ShareParent /\ Len(Frk!Code["parent"]) = 4
        /\ 4 \in Nat
    BY CodeIs
  <2>3. /\ AtParent > 0 /\ ~(AtParent > 4) /\ ~Frk!Ended("parent")
        /\ call = Frk!ShareParent[AtParent] /\ n' = n
    BY <1>1, <2>2, StepsAt DEF AtParent
  <2> QED
    BY <2>1, <2>3 DEF Frk!Ended
<1>3. /\ AtParent = 1 => call = <<"fork", 0>>
      /\ AtParent = 2 => call = <<"wait", "child">>
      /\ AtParent = 3 => call = <<"print", "parent">>
      /\ AtParent = 4 => call = <<"showShm", 0>>
  BY <1>2, ShareParentIs
<1> HIDE DEF call
<1>4. CASE AtParent = 1
  <2>1. ForkTypes'
    BY <1>1, <1>3, <1>4, ForkDoes DEF call
  <2>2. CASE Dead({"parent"})
    <3>1. AtChild = 0
      BY <1>4 DEF ShareInv, Kin
    <3> QED
      BY <1>1, <2>1, <2>2, <3>1, ShareDies
  <2>3. CASE ~Dead({"parent"})
    <3>1. /\ AtParent' = AtParent + 1 /\ AtChild' = 1 /\ AtThread' = AtThread
          /\ ends'["parent"] = ends["parent"] /\ ends'["child"] = ends["parent"]
          /\ UNCHANGED <<pipes, buffer, num, shm, out, heard, aborted>>
      BY <1>1, <1>3, <1>4, <2>3, ForkDoes DEF call
    <3> QED
      BY <1>1, <1>2, <1>4, <2>1, <3>1 DEF ShareInv, Kin, NoPipes
  <2> QED
    BY <2>2, <2>3
<1>5. CASE AtParent = 2
  <2>1. Frk!Ended("child")
    BY <1>1, <1>3, <1>5, WaitDoes DEF call
  <2>2. AtChild > 3 \/ "child" \in aborted
    BY <2>1, CodeIs DEF Frk!Ended, AtChild
  <2>3. /\ ForkTypes'
        /\ Advances("parent")
        /\ UNCHANGED <<ends, pipes, buffer, num, shm, out, heard, aborted>>
    BY <1>1, <1>3, <1>5, WaitDoes DEF Frk!Procs, Frk!Pipes, call
  <2> QED
    BY <1>1, <1>2, <1>5, <2>1, <2>2, <2>3 DEF ShareInv, Kin, Advances, NoPipes
<1>6. CASE AtParent = 3
  <2>1. aborted = {} => out = <<"child">>
    BY <1>6 DEF ShareInv, Kin
  <2>2. aborted = {} => Append(out, "parent") = <<"child", "parent">>
    BY <2>1, AppendIs
  <2>3. /\ ForkTypes'
        /\ Advances("parent")
        /\ out' = Append(out, "parent")
        /\ UNCHANGED <<ends, pipes, buffer, num, shm, heard, aborted>>
    BY <1>1, <1>3, <1>6, PrintDoes DEF Frk!Procs, Frk!Pipes, call
  <2> QED
    BY <1>1, <1>2, <1>6, <2>1, <2>2, <2>3 DEF ShareInv, Kin, Advances, NoPipes
<1>7. CASE AtParent = 4
  <2>1. aborted = {} => out = <<"child", "parent">>
    BY <1>7 DEF ShareInv, Kin
  <2>2. aborted = {} => Append(out, shm) = <<"child", "parent", shm>>
    BY <2>1, AppendIs
  <2>3. ForkTypes'
    BY <1>1, <1>3, <1>7, ShowShmDoes DEF Frk!Procs, Frk!Pipes, call
  <2>4. CASE Dead({"parent"})
    <3>1. AtChild = 4 \/ "child" \in aborted
      BY <1>7 DEF ShareInv, Kin
    <3> QED
      BY <1>1, <2>3, <2>4, <3>1, ShareDies
  <2>5. CASE ~Dead({"parent"})
    <3>1. /\ Advances("parent")
          /\ out' = Append(out, shm)
          /\ UNCHANGED <<ends, pipes, buffer, num, shm, heard, aborted>>
      BY <1>1, <1>3, <1>7, <2>5, ShowShmDoes DEF Frk!Procs, Frk!Pipes, call
    <3> QED
      BY <1>1, <1>2, <1>7, <2>1, <2>2, <2>3, <3>1 DEF ShareInv, Kin, Advances,
         NoPipes
  <2> QED
    BY <2>4, <2>5
<1> QED
  BY <1>2, <1>4, <1>5, <1>6, <1>7

(* 3-15.c: the child.                                                      *)
LEMMA ShareChildKeeps ==
  ASSUME ForkTypes, name = "3-15", ShareInv, Frk!Step("child")
  PROVE  ForkTypes' /\ ShareInv'
<1> DEFINE call == Call("child")
<1>1. /\ "parent" \in Frk!Procs /\ "child" \in Frk!Procs /\ "thread" \in Frk!Procs
      /\ 1 \in Frk!Pipes /\ 2 \in Frk!Pipes
      /\ {"child"} \in SUBSET Frk!Procs /\ {"child"} # {}
  BY DEF Frk!Procs, Frk!Pipes
<1>2. /\ AtChild \in 1 .. 3 /\ call = Frk!ShareChild[AtChild]
      /\ "child" \notin aborted /\ ~Frk!Ended("child") /\ n' = n
  <2>1. AtChild \in 0 .. 4
    BY DEF ShareInv
  <2>2. Frk!Code["child"] = Frk!ShareChild /\ Len(Frk!Code["child"]) = 3
        /\ 3 \in Nat
    BY CodeIs
  <2>3. /\ AtChild > 0 /\ ~(AtChild > 3) /\ ~Frk!Ended("child")
        /\ call = Frk!ShareChild[AtChild] /\ n' = n
    BY <1>1, <2>2, StepsAt DEF AtChild
  <2> QED
    BY <2>1, <2>3 DEF Frk!Ended
<1>3. /\ AtChild = 1 => call = <<"print", "child">>
      /\ AtChild = 2 => call = <<"number", <<n, 0>>>>
      /\ AtChild = 3 => call = <<"collatz", "shm">>
  BY <1>2 DEF Frk!ShareChild
<1> HIDE DEF call
<1>4. CASE AtChild = 1
  <2>1. aborted = {} => out = <<>>
    BY <1>4 DEF ShareInv, Kin
  <2>2. aborted = {} => Append(out, "child") = <<"child">>
    BY <2>1, AppendIs
  <2>3. /\ ForkTypes'
        /\ Advances("child")
        /\ out' = Append(out, "child")
        /\ UNCHANGED <<ends, pipes, buffer, num, shm, heard, aborted>>
    BY <1>1, <1>3, <1>4, PrintDoes DEF Frk!Procs, Frk!Pipes, call
  <2> QED
    BY <1>1, <1>2, <1>4, <2>1, <2>2, <2>3 DEF ShareInv, Kin, Advances, NoPipes
<1>5. CASE AtChild = 2
  <2>1. n \in Int
    BY DEF ForkTypes
  <2>2. shm = <<>>
    BY <1>5 DEF ShareInv
  <2>3. Walking(n, shm, 1, n)
    BY <2>2 DEF Walking, Turns
  <2>4. /\ ForkTypes'
        /\ Advances("child")
        /\ num'["child"] = <<n, 0>>
        /\ num'["parent"] = num["parent"] /\ num'["thread"] = num["thread"]
        /\ UNCHANGED <<ends, pipes, buffer, shm, out, heard, aborted>>
    BY <1>1, <1>3, <1>5, NumberDoes DEF Frk!Procs, Frk!Pipes, call
  <2>5. num'["child"][1] = n
    BY <2>4
  <2> QED
    BY <1>1, <1>2, <1>5, <2>1, <2>2, <2>3, <2>4, <2>5 DEF ShareInv, Kin,
       Advances, NoPipes
<1>6. CASE AtChild = 3 /\ ~Frk!Overruns("child")
  <2> DEFINE S == Int
  <2>1. call[1] = "collatz" /\ call[2] = "shm"
    BY <1>3, <1>6
  <2>2. PICK x : x = num["child"][1]
    OBVIOUS
  <2>3. PICK s : s = shm
    OBVIOUS
  <2>4. /\ ForkTypes' /\ n \in Int
        /\ shm' = Append(s, x) /\ out' = out
        /\ x > 1 => Stays /\ num'["child"] = <<Frk!Successor(x), 0>>
        /\ ~(x > 1) => Advances("child") /\ num' = num
        /\ UNCHANGED <<ends, pipes, buffer, heard, aborted>>
    BY <1>1, <1>6, <2>1, <2>2, <2>3, CollatzDoes, StepIs DEF call, ForkTypes
  <2>5. x \in Int /\ x \in S /\ s \in Seq(S) /\ 1 \in {1, 2}
    BY <2>2, <2>3, <1>6 DEF ShareInv
  <2>6. Append(s, x) \in Seq(S) /\ Len(Append(s, x)) = Len(s) + 1 /\ Len(s) \in Nat
        /\ \A i \in 1 .. Len(s) : Append(s, x)[i] = s[i]
    <3> HIDE DEF S
    <3> QED
      BY <2>5, AppendProperties
  <2>7. Walking(n, s, 1, x)
    BY <2>2, <2>3, <1>6 DEF ShareInv
  <2>8. CASE x > 1
    <3>1. Walking(n, Append(s, x), 1, Frk!Successor(x))
      BY <2>4, <2>5, <2>7, <2>8, WalkOn
    <3>2. num'["child"][1] = Frk!Successor(x)
      BY <2>4, <2>8
    <3>3. Frk!Successor(x) \in Int
      BY <2>5, SuccessorIsInt
    <3> QED
      BY <1>1, <1>2, <1>6, <2>3, <2>4, <2>6, <2>7, <2>8, <3>1, <3>2, <3>3
         DEF ShareInv, Kin, NoPipes, Stays, Walking
  <2>9. CASE ~(x > 1)
    <3>1. Walked(n, Append(s, x), 1, Len(Append(s, x)))
      BY <2>4, <2>5, <2>7, <2>9, WalkOn
    <3> QED
      BY <1>1, <1>2, <1>6, <2>3, <2>4, <2>6, <2>7, <2>9, <3>1 DEF ShareInv, Kin,
         NoPipes, Advances, Walking
  <2> QED
    BY <2>8, <2>9
<1>7. CASE Frk!Overruns("child")
  BY <1>1, <1>2, <1>7, OverrunDoes, ShareDies
<1> QED
  BY <1>2, <1>4, <1>5, <1>6, <1>7

(* 3-19.c: a process that dies disturbs nothing, unless it is the parent.  *)
LEMMA SwapDies ==
  ASSUME SwapInv, NEW who \in SUBSET Frk!Procs, who # {}, Dead(who),
         "parent" \in who => AtChild \in {0, 8} \/ "child" \in aborted
  PROVE  SwapInv'
<1>1. /\ aborted' # {}
      /\ \A p \in Frk!Procs : p \in aborted' <=> p \in aborted \/ p \in who
  BY DEF Dead
<1> QED
  BY <1>1 DEF SwapInv, Kin, Dead, Stays, Frk!Procs

(* 3-19.c: the parent.                                                     *)
LEMMA SwapParentKeeps ==
  ASSUME ForkTypes, name = "3-19", SwapInv, Frk!Step("parent")
  PROVE  ForkTypes' /\ SwapInv'
<1> DEFINE call == Call("parent")
<1>1. /\ "parent" \in Frk!Procs /\ "child" \in Frk!Procs /\ "thread" \in Frk!Procs
      /\ 1 \in Frk!Pipes /\ 2 \in Frk!Pipes
      /\ {"parent"} \in SUBSET Frk!Procs /\ {"parent"} # {}
  BY DEF Frk!Procs, Frk!Pipes
<1>2. /\ AtParent \in 1 .. 11 /\ call = Frk!SwapParent[AtParent]
      /\ "parent" \notin aborted /\ ~Frk!Ended("parent")
  <2>1. AtParent \in 0 .. 12
    BY DEF SwapInv
  <2>2. Frk!Code["parent"] = Frk!SwapParent /\ Len(Frk!Code["parent"]) = 11
        /\ 11 \in Nat
    BY CodeIs
  <2>3. /\ AtParent > 0 /\ ~(AtParent > 11) /\ ~Frk!Ended("parent")
        /\ call = Frk!SwapParent[AtParent]
    BY <1>1, <2>2, StepsAt DEF AtParent
  <2> QED
    BY <2>1, <2>3 DEF Frk!Ended
<1>3. /\ AtParent = 1 => call = <<"pipe", 1>>
      /\ AtParent = 2 => call = <<"pipe", 2>>
      /\ AtParent = 3 => call = <<"fork", 0>>
      /\ AtParent = 4 => call = <<"close", Frk!R(1)>>
      /\ AtParent = 5 => call = <<"put", "Hello_World">>
      /\ AtParent = 6 => call = <<"write", 1>>
      /\ AtParent = 7 => call = <<"close", Frk!W(1)>>
      /\ AtParent = 8 => call = <<"wait", "child">>
      /\ AtParent = 9 => call = <<"read", 2>>
      /\ AtParent = 10 => call = <<"show", 0>>
      /\ AtParent = 11 => call = <<"close", Frk!R(2)>>
  BY <1>2 DEF Frk!SwapParent
<1> HIDE DEF call
<1>4. CASE AtParent = 1
  <2>1. /\ ForkTypes'
        /\ Advances("parent")
        /\ ends'["parent"] = ends["parent"] \cup {Frk!R(1), Frk!W(1)}
        /\ UNCHANGED <<pipes, buffer, num, shm, out, heard, aborted>>
    BY <1>1, <1>3, <1>4, PipeDoes DEF Frk!Procs, Frk!Pipes, call
  <2> QED
    BY <1>1, <1>2, <1>4, <2>1 DEF SwapInv, Kin, Advances
<1>5. CASE AtParent = 2
  <2>1. /\ ForkTypes'
        /\ Advances("parent")
        /\ ends'["parent"] = ends["parent"] \cup {Frk!R(2), Frk!W(2)}
        /\ UNCHANGED <<pipes, buffer, num, shm, out, heard, aborted>>
    BY <1>1, <1>3, <1>5, PipeDoes DEF Frk!Procs, Frk!Pipes, call
  <2> QED
    BY <1>1, <1>2, <1>5, <2>1 DEF SwapInv, Kin, Advances
<1>6. CASE AtParent = 3
  <2>1. ForkTypes'
    BY <1>1, <1>3, <1>6, ForkDoes DEF call
  <2>2. CASE Dead({"parent"})
    <3>1. AtChild = 0
      BY <1>6 DEF SwapInv, Kin
    <3> QED
      BY <1>1, <2>1, <2>2, <3>1, SwapDies
  <2>3. CASE ~Dead({"parent"})
    <3>1. /\ AtParent' = AtParent + 1 /\ AtChild' = 1 /\ AtThread' = AtThread
          /\ ends'["parent"] = ends["parent"] /\ ends'["child"] = ends["parent"]
          /\ UNCHANGED <<pipes, buffer, num, shm, out, heard, aborted>>
      BY <1>1, <1>3, <1>6, <2>3, ForkDoes DEF call
    <3> QED
      BY <1>1, <1>2, <1>6, <2>1, <3>1 DEF SwapInv, Kin
  <2> QED
    BY <2>2, <2>3
<1>7. CASE AtParent = 4
  <2>1. /\ ForkTypes'
        /\ Advances("parent")
        /\ ends'["parent"] = ends["parent"] \ {Frk!R(1)}
        /\ ends'["child"] = ends["child"] /\ ends'["thread"] = ends["thread"]
        /\ UNCHANGED <<pipes, buffer, num, shm, out, heard, aborted>>
    BY <1>1, <1>3, <1>7, CloseDoes DEF Frk!Procs, Frk!Pipes, call
  <2> QED
    BY <1>1, <1>2, <1>7, <2>1 DEF SwapInv, Kin, Advances, Frk!R, Frk!W
<1>8. CASE AtParent = 5
  <2>1. /\ ForkTypes'
        /\ Advances("parent")
        /\ buffer'["parent"] = "Hello_World"
        /\ buffer'["child"] = buffer["child"] /\ buffer'["thread"] = buffer["thread"]
        /\ UNCHANGED <<ends, pipes, num, shm, out, heard, aborted>>
    BY <1>1, <1>3, <1>8, PutDoes DEF Frk!Procs, Frk!Pipes, call
  <2> QED
    BY <1>1, <1>2, <1>8, <2>1 DEF SwapInv, Kin, Advances
<1>9. CASE AtParent = 6
  <2>1. call[1] = "write" /\ call[2] = 1
    BY <1>3, <1>9
  <2>2. ForkTypes'
    BY <1>1, <2>1, WriteDoes DEF Frk!Procs, Frk!Pipes, call
  <2>3. CASE Dead({"parent"})
    <3>1. ~Frk!IsOpen(Frk!R(1))
      BY <1>1, <1>2, <2>1, <2>3, WriteDoes DEF Advances, Dead, Stays, call
    <3>2. "child" \in aborted
      <4>1. AtChild \in 1 .. 2 /\ Frk!R(1) \in ends["child"]
        BY <1>9 DEF SwapInv, Kin
      <4>2. Frk!Ended("child")
        BY <1>1, <3>1, <4>1 DEF Frk!IsOpen
      <4>3. AtChild > 7 \/ "child" \in aborted
        BY <4>2, CodeIs DEF Frk!Ended, AtChild
      <4> QED
        BY <4>1, <4>3
    <3> QED
      BY <1>1, <2>2, <2>3, <3>2, SwapDies
  <2>4. CASE ~Dead({"parent"})
    <3>1. /\ Advances("parent")
          /\ pipes'[1] = Append(pipes[1], <<"parent", buffer["parent"]>>)
          /\ pipes'[2] = pipes[2]
          /\ UNCHANGED <<ends, buffer, num, shm, out, heard, aborted>>
      BY <1>1, <2>1, <2>4, WriteDoes DEF Frk!Procs, Frk!Pipes, call
    <3> QED
      BY <1>1, <1>2, <1>9, <2>2, <3>1, AppendIs DEF SwapInv, Kin, Advances
  <2> QED
    BY <2>3, <2>4
<1>10. CASE AtParent = 7
  <2>1. /\ ForkTypes'
        /\ Advances("parent")
        /\ ends'["parent"] = ends["parent"] \ {Frk!W(1)}
        /\ ends'["child"] = ends["child"] /\ ends'["thread"] = ends["thread"]
        /\ UNCHANGED <<pipes, buffer, num, shm, out, heard, aborted>>
    BY <1>1, <1>3, <1>10, CloseDoes DEF Frk!Procs, Frk!Pipes, call
  <2> QED
    BY <1>1, <1>2, <1>10, <2>1 DEF SwapInv, Kin, Advances, Frk!R, Frk!W
<1>11. CASE AtParent = 8
  <2>1. Frk!Ended("child")
    BY <1>1, <1>3, <1>11, WaitDoes DEF call
  <2>2. AtChild > 7 \/ "child" \in aborted
    BY <2>1, CodeIs DEF Frk!Ended, AtChild
  <2>3. /\ ForkTypes'
        /\ Advances("parent")
        /\ UNCHANGED <<ends, pipes, buffer, num, shm, out, heard, aborted>>
    BY <1>1, <1>3, <1>11, WaitDoes DEF Frk!Procs, Frk!Pipes, call
  <2> QED
    BY <1>1, <1>2, <1>11, <2>1, <2>2, <2>3 DEF SwapInv, Kin, Advances
<1>12. CASE AtParent = 9
  <2>1. call[1] = "read" /\ call[2] = 2
    BY <1>3, <1>12
  <2>2. ForkTypes'
    BY <1>1, <2>1, ReadDoes DEF Frk!Procs, Frk!Pipes, call
  <2>3. CASE Dead({"parent"})
    <3>1. AtChild = 8 \/ "child" \in aborted
      BY <1>12 DEF SwapInv, Kin
    <3> QED
      BY <1>1, <2>2, <2>3, <3>1, SwapDies
  <2>4. CASE ~Dead({"parent"})
    <3>1. /\ Advances("parent")
          /\ pipes[2] # <<>>
          /\ buffer'["parent"] = Head(pipes[2])[2]
          /\ buffer'["child"] = buffer["child"] /\ buffer'["thread"] = buffer["thread"]
          /\ heard'["parent"] = heard["parent"] \cup {Head(pipes[2])[1]}
          /\ heard'["child"] = heard["child"] /\ heard'["thread"] = heard["thread"]
          /\ pipes'[2] = Tail(pipes[2])
          /\ pipes'[1] = pipes[1]
          /\ UNCHANGED <<ends, num, shm, out, aborted>>
      BY <1>1, <2>1, <2>4, ReadDoes DEF Frk!Procs, Frk!Pipes, call
    <3> QED
      BY <1>1, <1>2, <1>12, <2>2, <3>1 DEF SwapInv, Kin, Advances
  <2> QED
    BY <2>3, <2>4
<1>13. CASE AtParent = 10
  <2>1. out = <<>> /\ buffer["parent"] = "hELLO_wORLD"
    BY <1>13 DEF SwapInv
  <2>2. Append(out, buffer["parent"]) = <<"hELLO_wORLD">>
    BY <2>1, AppendIs
  <2>3. /\ ForkTypes'
        /\ Advances("parent")
        /\ out' = Append(out, buffer["parent"])
        /\ UNCHANGED <<ends, pipes, buffer, num, shm, heard, aborted>>
    BY <1>1, <1>3, <1>13, ShowDoes DEF Frk!Procs, Frk!Pipes, call
  <2> QED
    BY <1>1, <1>2, <1>13, <2>1, <2>2, <2>3 DEF SwapInv, Kin, Advances
<1>14. CASE AtParent = 11
  <2>1. /\ ForkTypes'
        /\ Advances("parent")
        /\ ends'["parent"] = ends["parent"] \ {Frk!R(2)}
        /\ ends'["child"] = ends["child"] /\ ends'["thread"] = ends["thread"]
        /\ UNCHANGED <<pipes, buffer, num, shm, out, heard, aborted>>
    BY <1>1, <1>3, <1>14, CloseDoes DEF Frk!Procs, Frk!Pipes, call
  <2> QED
    BY <1>1, <1>2, <1>14, <2>1 DEF SwapInv, Kin, Advances, Frk!R, Frk!W
<1> QED
  BY <1>2, <1>4, <1>5, <1>6, <1>7, <1>8, <1>9, <1>10, <1>11, <1>12, <1>13, <1>14

(* 3-19.c: the child.                                                      *)
LEMMA SwapChildKeeps ==
  ASSUME ForkTypes, name = "3-19", SwapInv, Frk!Step("child")
  PROVE  ForkTypes' /\ SwapInv'
<1> DEFINE call == Call("child")
<1>1. /\ "parent" \in Frk!Procs /\ "child" \in Frk!Procs /\ "thread" \in Frk!Procs
      /\ 1 \in Frk!Pipes /\ 2 \in Frk!Pipes
      /\ {"child"} \in SUBSET Frk!Procs /\ {"child"} # {}
  BY DEF Frk!Procs, Frk!Pipes
<1>2. /\ AtChild \in 1 .. 7 /\ call = Frk!SwapChild[AtChild]
      /\ "child" \notin aborted /\ ~Frk!Ended("child")
  <2>1. AtChild \in 0 .. 8
    BY DEF SwapInv
  <2>2. Frk!Code["child"] = Frk!SwapChild /\ Len(Frk!Code["child"]) = 7
        /\ 7 \in Nat
    BY CodeIs
  <2>3. /\ AtChild > 0 /\ ~(AtChild > 7) /\ ~Frk!Ended("child")
        /\ call = Frk!SwapChild[AtChild]
    BY <1>1, <2>2, StepsAt DEF AtChild
  <2> QED
    BY <2>1, <2>3 DEF Frk!Ended
<1>3. /\ AtChild = 1 => call = <<"close", Frk!W(1)>>
      /\ AtChild = 2 => call = <<"read", 1>>
      /\ AtChild = 3 => call = <<"close", Frk!R(1)>>
      /\ AtChild = 4 => call = <<"swap", 0>>
      /\ AtChild = 5 => call = <<"close", Frk!R(2)>>
      /\ AtChild = 6 => call = <<"write", 2>>
      /\ AtChild = 7 => call = <<"close", Frk!W(2)>>
  BY <1>2 DEF Frk!SwapChild
<1> HIDE DEF call
<1>4. CASE AtChild = 1
  <2>1. /\ ForkTypes'
        /\ Advances("child")
        /\ ends'["child"] = ends["child"] \ {Frk!W(1)}
        /\ ends'["parent"] = ends["parent"] /\ ends'["thread"] = ends["thread"]
        /\ UNCHANGED <<pipes, buffer, num, shm, out, heard, aborted>>
    BY <1>1, <1>3, <1>4, CloseDoes DEF Frk!Procs, Frk!Pipes, call
  <2> QED
    BY <1>1, <1>2, <1>4, <2>1 DEF SwapInv, Kin, Advances, Frk!R, Frk!W
<1>5. CASE AtChild = 2
  <2>1. call[1] = "read" /\ call[2] = 1
    BY <1>3, <1>5
  <2>2. ForkTypes'
    BY <1>1, <2>1, ReadDoes DEF Frk!Procs, Frk!Pipes, call
  <2>3. CASE Dead({"child"})
    BY <1>1, <2>2, <2>3, SwapDies
  <2>4. CASE ~Dead({"child"})
    <3>1. /\ Advances("child")
          /\ pipes[1] # <<>>
          /\ buffer'["child"] = Head(pipes[1])[2]
          /\ buffer'["parent"] = buffer["parent"] /\ buffer'["thread"] = buffer["thread"]
          /\ heard'["child"] = heard["child"] \cup {Head(pipes[1])[1]}
          /\ heard'["parent"] = heard["parent"] /\ heard'["thread"] = heard["thread"]
          /\ pipes'[1] = Tail(pipes[1])
          /\ pipes'[2] = pipes[2]
          /\ UNCHANGED <<ends, num, shm, out, aborted>>
      BY <1>1, <2>1, <2>4, ReadDoes DEF Frk!Procs, Frk!Pipes, call
    <3> QED
      BY <1>1, <1>2, <1>5, <2>2, <3>1 DEF SwapInv, Kin, Advances
  <2> QED
    BY <2>3, <2>4
<1>6. CASE AtChild = 3
  <2>1. /\ ForkTypes'
        /\ Advances("child")
        /\ ends'["child"] = ends["child"] \ {Frk!R(1)}
        /\ ends'["parent"] = ends["parent"] /\ ends'["thread"] = ends["thread"]
        /\ UNCHANGED <<pipes, buffer, num, shm, out, heard, aborted>>
    BY <1>1, <1>3, <1>6, CloseDoes DEF Frk!Procs, Frk!Pipes, call
  <2> QED
    BY <1>1, <1>2, <1>6, <2>1 DEF SwapInv, Kin, Advances, Frk!R, Frk!W
<1>7. CASE AtChild = 4
  <2>1. buffer["child"] = "Hello_World"
    BY <1>7 DEF SwapInv
  <2>2. /\ ForkTypes'
        /\ Advances("child")
        /\ buffer'["child"] = "hELLO_wORLD"
        /\ buffer'["parent"] = buffer["parent"] /\ buffer'["thread"] = buffer["thread"]
        /\ UNCHANGED <<ends, pipes, num, shm, out, heard, aborted>>
    BY <1>1, <1>3, <1>7, <2>1, SwapDoes DEF Frk!Procs, Frk!Pipes, call
  <2> QED
    BY <1>1, <1>2, <1>7, <2>1, <2>2 DEF SwapInv, Kin, Advances
<1>8. CASE AtChild = 5
  <2>1. /\ ForkTypes'
        /\ Advances("child")
        /\ ends'["child"] = ends["child"] \ {Frk!R(2)}
        /\ ends'["parent"] = ends["parent"] /\ ends'["thread"] = ends["thread"]
        /\ UNCHANGED <<pipes, buffer, num, shm, out, heard, aborted>>
    BY <1>1, <1>3, <1>8, CloseDoes DEF Frk!Procs, Frk!Pipes, call
  <2> QED
    BY <1>1, <1>2, <1>8, <2>1 DEF SwapInv, Kin, Advances, Frk!R, Frk!W
<1>9. CASE AtChild = 6
  <2>1. call[1] = "write" /\ call[2] = 2
    BY <1>3, <1>9
  <2>2. ForkTypes'
    BY <1>1, <2>1, WriteDoes DEF Frk!Procs, Frk!Pipes, call
  <2>3. CASE Dead({"child"})
    BY <1>1, <2>2, <2>3, SwapDies
  <2>4. CASE ~Dead({"child"})
    <3>1. /\ Advances("child")
          /\ pipes'[2] = Append(pipes[2], <<"child", buffer["child"]>>)
          /\ pipes'[1] = pipes[1]
          /\ UNCHANGED <<ends, buffer, num, shm, out, heard, aborted>>
      BY <1>1, <2>1, <2>4, WriteDoes DEF Frk!Procs, Frk!Pipes, call
    <3> QED
      BY <1>1, <1>2, <1>9, <2>2, <3>1, AppendIs DEF SwapInv, Kin, Advances
  <2> QED
    BY <2>3, <2>4
<1>10. CASE AtChild = 7
  <2>1. /\ ForkTypes'
        /\ Advances("child")
        /\ ends'["child"] = ends["child"] \ {Frk!W(2)}
        /\ ends'["parent"] = ends["parent"] /\ ends'["thread"] = ends["thread"]
        /\ UNCHANGED <<pipes, buffer, num, shm, out, heard, aborted>>
    BY <1>1, <1>3, <1>10, CloseDoes DEF Frk!Procs, Frk!Pipes, call
  <2> QED
    BY <1>1, <1>2, <1>10, <2>1 DEF SwapInv, Kin, Advances, Frk!R, Frk!W
<1> QED
  BY <1>2, <1>4, <1>5, <1>6, <1>7, <1>8, <1>9, <1>10

(* 3-20.c: a process that dies disturbs nothing, unless it is the parent.  *)
LEMMA CopyDies ==
  ASSUME CopyInv, NEW who \in SUBSET Frk!Procs, who # {}, Dead(who),
         "parent" \in who => AtChild \in {0, 7} \/ "child" \in aborted
  PROVE  CopyInv'
<1>1. /\ aborted' # {}
      /\ \A p \in Frk!Procs : p \in aborted' <=> p \in aborted \/ p \in who
  BY DEF Dead
<1> QED
  BY <1>1 DEF CopyInv, Kin, Dead, Stays, Frk!Procs, CopyPrinted

(* 3-20.c: the parent.                                                     *)
LEMMA CopyParentKeeps ==
  ASSUME ForkTypes, name = "3-20", CopyInv, Frk!Step("parent")
  PROVE  ForkTypes' /\ CopyInv'
<1> DEFINE call == Call("parent")
<1>1. /\ "parent" \in Frk!Procs /\ "child" \in Frk!Procs /\ "thread" \in Frk!Procs
      /\ 1 \in Frk!Pipes /\ 2 \in Frk!Pipes
      /\ {"parent"} \in SUBSET Frk!Procs /\ {"parent"} # {}
  BY DEF Frk!Procs, Frk!Pipes
<1>2. /\ AtParent \in 1 .. 9 /\ call = Frk!CopyParent[AtParent]
      /\ "parent" \notin aborted /\ ~Frk!Ended("parent")
  <2>1. AtParent \in 0 .. 10
    BY DEF CopyInv
  <2>2. Frk!Code["parent"] = Frk!CopyParent /\ Len(Frk!Code["parent"]) = 9
        /\ 9 \in Nat
    BY CodeIs
  <2>3. /\ AtParent > 0 /\ ~(AtParent > 9) /\ ~Frk!Ended("parent")
        /\ call = Frk!CopyParent[AtParent]
    BY <1>1, <2>2, StepsAt DEF AtParent
  <2> QED
    BY <2>1, <2>3 DEF Frk!Ended
<1>3. /\ AtParent = 1 => call = <<"pipe", 1>>
      /\ AtParent = 2 => call = <<"fork", 0>>
      /\ AtParent = 3 => call = <<"print", "parent_start">>
      /\ AtParent = 4 => call = <<"close", Frk!R(1)>>
      /\ AtParent = 5 => call = <<"put", "file1">>
      /\ AtParent = 6 => call = <<"write", 1>>
      /\ AtParent = 7 => call = <<"close", Frk!W(1)>>
      /\ AtParent = 8 => call = <<"wait", "child">>
      /\ AtParent = 9 => call = <<"print", "parent_end">>
  BY <1>2 DEF Frk!CopyParent
<1> HIDE DEF call
<1>4. CASE AtParent = 1
  <2>1. /\ ForkTypes'
        /\ Advances("parent")
        /\ ends'["parent"] = ends["parent"] \cup {Frk!R(1), Frk!W(1)}
        /\ UNCHANGED <<pipes, buffer, num, shm, out, heard, aborted>>
    BY <1>1, <1>3, <1>4, PipeDoes DEF Frk!Procs, Frk!Pipes, call
  <2> QED
    BY <1>1, <1>2, <1>4, <2>1 DEF CopyInv, Kin, Advances, CopyPrinted
<1>5. CASE AtParent = 2
  <2>1. ForkTypes'
    BY <1>1, <1>3, <1>5, ForkDoes DEF call
  <2>2. CASE Dead({"parent"})
    <3>1. AtChild = 0
      BY <1>5 DEF CopyInv, Kin
    <3> QED
      BY <1>1, <2>1, <2>2, <3>1, CopyDies
  <2>3. CASE ~Dead({"parent"})
    <3>1. /\ AtParent' = AtParent + 1 /\ AtChild' = 1 /\ AtThread' = AtThread
          /\ ends'["parent"] = ends["parent"] /\ ends'["child"] = ends["parent"]
          /\ UNCHANGED <<pipes, buffer, num, shm, out, heard, aborted>>
      BY <1>1, <1>3, <1>5, <2>3, ForkDoes DEF call
    <3> QED
      BY <1>1, <1>2, <1>5, <2>1, <3>1 DEF CopyInv, Kin, CopyPrinted
  <2> QED
    BY <2>2, <2>3
<1>6. CASE AtParent = 3
  <2>1. aborted = {} => out = IF AtChild > 1 THEN <<"child_start">> ELSE <<>>
    BY <1>6 DEF CopyInv, CopyPrinted
  <2>2. aborted = {} => Append(out, "parent_start")
           = IF AtChild > 1 THEN <<"child_start", "parent_start">> ELSE <<"parent_start">>
    BY <2>1, AppendIs
  <2>3. /\ ForkTypes'
        /\ Advances("parent")
        /\ out' = Append(out, "parent_start")
        /\ UNCHANGED <<ends, pipes, buffer, num, shm, heard, aborted>>
    BY <1>1, <1>3, <1>6, PrintDoes DEF Frk!Procs, Frk!Pipes, call
  <2> QED
    BY <1>1, <1>2, <1>6, <2>1, <2>2, <2>3 DEF CopyInv, Kin, Advances, CopyPrinted
<1>7. CASE AtParent = 4
  <2>1. /\ ForkTypes'
        /\ Advances("parent")
        /\ ends'["parent"] = ends["parent"] \ {Frk!R(1)}
        /\ ends'["child"] = ends["child"] /\ ends'["thread"] = ends["thread"]
        /\ UNCHANGED <<pipes, buffer, num, shm, out, heard, aborted>>
    BY <1>1, <1>3, <1>7, CloseDoes DEF Frk!Procs, Frk!Pipes, call
  <2> QED
    BY <1>1, <1>2, <1>7, <2>1 DEF CopyInv, Kin, Advances, CopyPrinted, Frk!R,
       Frk!W
<1>8. CASE AtParent = 5
  <2>1. /\ ForkTypes'
        /\ Advances("parent")
        /\ buffer'["parent"] = "file1"
        /\ buffer'["child"] = buffer["child"] /\ buffer'["thread"] = buffer["thread"]
        /\ UNCHANGED <<ends, pipes, num, shm, out, heard, aborted>>
    BY <1>1, <1>3, <1>8, PutDoes DEF Frk!Procs, Frk!Pipes, call
  <2> QED
    BY <1>1, <1>2, <1>8, <2>1 DEF CopyInv, Kin, Advances, CopyPrinted
<1>9. CASE AtParent = 6
  <2>1. call[1] = "write" /\ call[2] = 1
    BY <1>3, <1>9
  <2>2. ForkTypes'
    BY <1>1, <2>1, WriteDoes DEF Frk!Procs, Frk!Pipes, call
  <2>3. CASE Dead({"parent"})
    <3>1. ~Frk!IsOpen(Frk!R(1))
      BY <1>1, <1>2, <2>1, <2>3, WriteDoes DEF Advances, Dead, Stays, call
    <3>2. "child" \in aborted
      <4>1. AtChild \in 1 .. 3 /\ Frk!R(1) \in ends["child"]
        BY <1>9 DEF CopyInv, Kin
      <4>2. Frk!Ended("child")
        BY <1>1, <3>1, <4>1 DEF Frk!IsOpen
      <4>3. AtChild > 6 \/ "child" \in aborted
        BY <4>2, CodeIs DEF Frk!Ended, AtChild
      <4> QED
        BY <4>1, <4>3
    <3> QED
      BY <1>1, <2>2, <2>3, <3>2, CopyDies
  <2>4. CASE ~Dead({"parent"})
    <3>1. /\ Advances("parent")
          /\ pipes'[1] = Append(pipes[1], <<"parent", buffer["parent"]>>)
          /\ pipes'[2] = pipes[2]
          /\ UNCHANGED <<ends, buffer, num, shm, out, heard, aborted>>
      BY <1>1, <2>1, <2>4, WriteDoes DEF Frk!Procs, Frk!Pipes, call
    <3> QED
      BY <1>1, <1>2, <1>9, <2>2, <3>1, AppendIs DEF CopyInv, Kin, Advances,
         CopyPrinted
  <2> QED
    BY <2>3, <2>4
<1>10. CASE AtParent = 7
  <2>1. /\ ForkTypes'
        /\ Advances("parent")
        /\ ends'["parent"] = ends["parent"] \ {Frk!W(1)}
        /\ ends'["child"] = ends["child"] /\ ends'["thread"] = ends["thread"]
        /\ UNCHANGED <<pipes, buffer, num, shm, out, heard, aborted>>
    BY <1>1, <1>3, <1>10, CloseDoes DEF Frk!Procs, Frk!Pipes, call
  <2> QED
    BY <1>1, <1>2, <1>10, <2>1 DEF CopyInv, Kin, Advances, CopyPrinted, Frk!R,
       Frk!W
<1>11. CASE AtParent = 8
  <2>1. Frk!Ended("child")
    BY <1>1, <1>3, <1>11, WaitDoes DEF call
  <2>2. AtChild > 6 \/ "child" \in aborted
    BY <2>1, CodeIs DEF Frk!Ended, AtChild
  <2>3. /\ ForkTypes'
        /\ Advances("parent")
        /\ UNCHANGED <<ends, pipes, buffer, num, shm, out, heard, aborted>>
    BY <1>1, <1>3, <1>11, WaitDoes DEF Frk!Procs, Frk!Pipes, call
  <2> QED
    BY <1>1, <1>2, <1>11, <2>1, <2>2, <2>3 DEF CopyInv, Kin, Advances, CopyPrinted
<1>12. CASE AtParent = 9
  <2>1. aborted = {} => \E x, y \in {"parent_start", "child_start"} :
                            x # y /\ out = <<x, y, "child_end">>
    BY <1>12 DEF CopyInv, CopyPrinted, Kin
  <2>2. \A x, y :
          Append(<<x, y, "child_end">>, "parent_end") = <<x, y, "child_end", "parent_end">>
    BY AppendIs
  <2>3. aborted = {} => \E x, y \in {"parent_start", "child_start"} :
                            /\ x # y
                            /\ Append(out, "parent_end")
                                 = <<x, y, "child_end", "parent_end">>
    BY <2>1, <2>2
  <2>4. /\ ForkTypes'
        /\ Advances("parent")
        /\ out' = Append(out, "parent_end")
        /\ UNCHANGED <<ends, pipes, buffer, num, shm, heard, aborted>>
    BY <1>1, <1>3, <1>12, PrintDoes DEF Frk!Procs, Frk!Pipes, call
  <2> QED
    BY <1>1, <1>2, <1>12, <2>1, <2>2, <2>3, <2>4 DEF CopyInv, Kin, Advances,
       CopyPrinted
<1> QED
  BY <1>2, <1>4, <1>5, <1>6, <1>7, <1>8, <1>9, <1>10, <1>11, <1>12

(* 3-20.c: the child.                                                      *)
LEMMA CopyChildKeeps ==
  ASSUME ForkTypes, name = "3-20", CopyInv, Frk!Step("child")
  PROVE  ForkTypes' /\ CopyInv'
<1> DEFINE call == Call("child")
<1>1. /\ "parent" \in Frk!Procs /\ "child" \in Frk!Procs /\ "thread" \in Frk!Procs
      /\ 1 \in Frk!Pipes /\ 2 \in Frk!Pipes
      /\ {"child"} \in SUBSET Frk!Procs /\ {"child"} # {}
  BY DEF Frk!Procs, Frk!Pipes
<1>2. /\ AtChild \in 1 .. 6 /\ call = Frk!CopyChild[AtChild]
      /\ "child" \notin aborted /\ ~Frk!Ended("child")
  <2>1. AtChild \in 0 .. 7
    BY DEF CopyInv
  <2>2. Frk!Code["child"] = Frk!CopyChild /\ Len(Frk!Code["child"]) = 6
        /\ 6 \in Nat
    BY CodeIs
  <2>3. /\ AtChild > 0 /\ ~(AtChild > 6) /\ ~Frk!Ended("child")
        /\ call = Frk!CopyChild[AtChild]
    BY <1>1, <2>2, StepsAt DEF AtChild
  <2> QED
    BY <2>1, <2>3 DEF Frk!Ended
<1>3. /\ AtChild = 1 => call = <<"print", "child_start">>
      /\ AtChild = 2 => call = <<"close", Frk!W(1)>>
      /\ AtChild = 3 => call = <<"read", 1>>
      /\ AtChild = 4 => call = <<"close", Frk!R(1)>>
      /\ AtChild = 5 => call = <<"store", 0>>
      /\ AtChild = 6 => call = <<"print", "child_end">>
  BY <1>2 DEF Frk!CopyChild
<1> HIDE DEF call
<1>4. CASE AtChild = 1
  <2>1. aborted = {} => out = IF AtParent > 3 THEN <<"parent_start">> ELSE <<>>
    BY <1>4 DEF CopyInv, CopyPrinted
  <2>2. aborted = {} => Append(out, "child_start")
           = IF AtParent > 3 THEN <<"parent_start", "child_start">> ELSE <<"child_start">>
    BY <2>1, AppendIs
  <2>3. /\ ForkTypes'
        /\ Advances("child")
        /\ out' = Append(out, "child_start")
        /\ UNCHANGED <<ends, pipes, buffer, num, shm, heard, aborted>>
    BY <1>1, <1>3, <1>4, PrintDoes DEF Frk!Procs, Frk!Pipes, call
  <2> QED
    BY <1>1, <1>2, <1>4, <2>1, <2>2, <2>3 DEF CopyInv, Kin, Advances, CopyPrinted
<1>5. CASE AtChild = 2
  <2>1. /\ ForkTypes'
        /\ Advances("child")
        /\ ends'["child"] = ends["child"] \ {Frk!W(1)}
        /\ ends'["parent"] = ends["parent"] /\ ends'["thread"] = ends["thread"]
        /\ UNCHANGED <<pipes, buffer, num, shm, out, heard, aborted>>
    BY <1>1, <1>3, <1>5, CloseDoes DEF Frk!Procs, Frk!Pipes, call
  <2> QED
    BY <1>1, <1>2, <1>5, <2>1 DEF CopyInv, Kin, Advances, CopyPrinted, Frk!R,
       Frk!W
<1>6. CASE AtChild = 3
  <2>1. call[1] = "read" /\ call[2] = 1
    BY <1>3, <1>6
  <2>2. ForkTypes'
    BY <1>1, <2>1, ReadDoes DEF Frk!Procs, Frk!Pipes, call
  <2>3. CASE Dead({"child"})
    BY <1>1, <2>2, <2>3, CopyDies
  <2>4. CASE ~Dead({"child"})
    <3>1. /\ Advances("child")
          /\ pipes[1] # <<>>
          /\ buffer'["child"] = Head(pipes[1])[2]
          /\ buffer'["parent"] = buffer["parent"] /\ buffer'["thread"] = buffer["thread"]
          /\ heard'["child"] = heard["child"] \cup {Head(pipes[1])[1]}
          /\ heard'["parent"] = heard["parent"] /\ heard'["thread"] = heard["thread"]
          /\ pipes'[1] = Tail(pipes[1])
          /\ pipes'[2] = pipes[2]
          /\ UNCHANGED <<ends, num, shm, out, aborted>>
      BY <1>1, <2>1, <2>4, ReadDoes DEF Frk!Procs, Frk!Pipes, call
    <3> QED
      BY <1>1, <1>2, <1>6, <2>2, <3>1 DEF CopyInv, Kin, Advances, CopyPrinted
  <2> QED
    BY <2>3, <2>4
<1>7. CASE AtChild = 4
  <2>1. /\ ForkTypes'
        /\ Advances("child")
        /\ ends'["child"] = ends["child"] \ {Frk!R(1)}
        /\ ends'["parent"] = ends["parent"] /\ ends'["thread"] = ends["thread"]
        /\ UNCHANGED <<pipes, buffer, num, shm, out, heard, aborted>>
    BY <1>1, <1>3, <1>7, CloseDoes DEF Frk!Procs, Frk!Pipes, call
  <2> QED
    BY <1>1, <1>2, <1>7, <2>1 DEF CopyInv, Kin, Advances, CopyPrinted, Frk!R,
       Frk!W
<1>8. CASE AtChild = 5
  <2>1. /\ ForkTypes'
        /\ Advances("child")
        /\ shm' = <<buffer["child"]>>
        /\ UNCHANGED <<ends, pipes, buffer, num, out, heard, aborted>>
    BY <1>1, <1>3, <1>8, StoreDoes DEF Frk!Procs, Frk!Pipes, call
  <2> QED
    BY <1>1, <1>2, <1>8, <2>1 DEF CopyInv, Kin, Advances, CopyPrinted
<1>9. CASE AtChild = 6
  <2>1. aborted = {} => \E x, y \in {"parent_start", "child_start"} :
                            x # y /\ out = <<x, y>>
    BY <1>9 DEF CopyInv, CopyPrinted, Kin
  <2>2. \A x, y : Append(<<x, y>>, "child_end") = <<x, y, "child_end">>
    BY AppendIs
  <2>3. aborted = {} => \E x, y \in {"parent_start", "child_start"} :
                            x # y /\ Append(out, "child_end") = <<x, y, "child_end">>
    BY <2>1, <2>2
  <2>4. /\ ForkTypes'
        /\ Advances("child")
        /\ out' = Append(out, "child_end")
        /\ UNCHANGED <<ends, pipes, buffer, num, shm, heard, aborted>>
    BY <1>1, <1>3, <1>9, PrintDoes DEF Frk!Procs, Frk!Pipes, call
  <2> QED
    BY <1>1, <1>2, <1>9, <2>1, <2>2, <2>3, <2>4 DEF CopyInv, Kin, Advances,
       CopyPrinted
<1> QED
  BY <1>2, <1>4, <1>5, <1>6, <1>7, <1>8, <1>9

(* code.c: the sum after one more turn.                                    *)
LEMMA SumOn ==
  ASSUME NEW i \in Nat, NEW s \in Nat, SumBefore(i, s)
  PROVE  SumBefore(i + 1, s + i)
BY DEF SumBefore

(* The sum of all turns.                                                   *)
LEMMA SumIs ==
  ASSUME NEW m \in Nat, NEW s \in Nat, SumBefore(m + 1, s)
  PROVE  s = SumTo(m)
<1>1. m * (m + 1) = 2 * s
  BY DEF SumBefore
<1>2. (2 * s) \div 2 = s
  OBVIOUS
<1> QED
  BY <1>1, <1>2 DEF SumTo

(* code.c: a process that dies disturbs nothing; the thread dies with      *)
(* the child.                                                              *)
LEMMA HomeDies ==
  ASSUME HomeInv, NEW who \in SUBSET Frk!Procs, who # {}, Dead(who),
         "parent" \in who => AtChild \in {0, 5} \/ "child" \in aborted,
         "child" \in who <=> "thread" \in who
  PROVE  HomeInv'
<1>1. /\ aborted' # {}
      /\ \A p \in Frk!Procs : p \in aborted' <=> p \in aborted \/ p \in who
  BY DEF Dead
<1> QED
  BY <1>1 DEF HomeInv, Kin, Dead, Stays, Frk!Procs, NoPipes

(* code.c: the parent.                                                     *)
LEMMA HomeParentKeeps ==
  ASSUME ForkTypes, name = "homework", HomeInv, Frk!Step("parent")
  PROVE  ForkTypes' /\ HomeInv'
<1> DEFINE call == Call("parent")
<1>1. /\ "parent" \in Frk!Procs /\ "child" \in Frk!Procs /\ "thread" \in Frk!Procs
      /\ 1 \in Frk!Pipes /\ 2 \in Frk!Pipes
      /\ {"parent"} \in SUBSET Frk!Procs /\ {"parent"} # {}
  BY DEF Frk!Procs, Frk!Pipes
<1>2. /\ AtParent \in 1 .. 3 /\ call = Frk!WaitThenPrint[AtParent]
      /\ "parent" \notin aborted /\ ~Frk!Ended("parent") /\ n' = n
  <2>1. AtParent \in 0 .. 4
    BY DEF HomeInv
  <2>2. Frk!Code["parent"] = Frk!WaitThenPrint /\ Len(Frk!Code["parent"]) = 3
        /\ 3 \in Nat
    BY CodeIs
  <2>3. /\ AtParent > 0 /\ ~(AtParent > 3) /\ ~Frk!Ended("parent")
        /\ call = Frk!WaitThenPrint[AtParent] /\ n' = n
    BY <1>1, <2>2, StepsAt DEF AtParent
  <2> QED
    BY <2>1, <2>3 DEF Frk!Ended
<1>3. /\ AtParent = 1 => call = <<"fork", 0>>
      /\ AtParent = 2 => call = <<"wait", "child">>
      /\ AtParent = 3 => call = <<"print", "parent">>
  BY <1>2 DEF Frk!WaitThenPrint
<1> HIDE DEF call
<1>4. CASE AtParent = 1
  <2>1. ForkTypes'
    BY <1>1, <1>3, <1>4, ForkDoes DEF call
  <2>2. CASE Dead({"parent"})
    <3>1. AtChild = 0
      BY <1>4 DEF HomeInv, Kin
    <3> QED
      BY <1>1, <2>1, <2>2, <3>1, HomeDies
  <2>3. CASE ~Dead({"parent"})
    <3>1. /\ AtParent' = AtParent + 1 /\ AtChild' = 1 /\ AtThread' = AtThread
          /\ ends'["parent"] = ends["parent"] /\ ends'["child"] = ends["parent"]
          /\ UNCHANGED <<pipes, buffer, num, shm, out, heard, aborted>>
      BY <1>1, <1>3, <1>4, <2>3, ForkDoes DEF call
    <3> QED
      BY <1>1, <1>2, <1>4, <2>1, <3>1 DEF HomeInv, Kin, NoPipes
  <2> QED
    BY <2>2, <2>3
<1>5. CASE AtParent = 2
  <2>1. Frk!Ended("child")
    BY <1>1, <1>3, <1>5, WaitDoes DEF call
  <2>2. AtChild > 4 \/ "child" \in aborted
    BY <2>1, CodeIs DEF Frk!Ended, AtChild
  <2>3. /\ ForkTypes'
        /\ Advances("parent")
        /\ UNCHANGED <<ends, pipes, buffer, num, shm, out, heard, aborted>>
    BY <1>1, <1>3, <1>5, WaitDoes DEF Frk!Procs, Frk!Pipes, call
  <2> QED
    BY <1>1, <1>2, <1>5, <2>1, <2>2, <2>3 DEF HomeInv, Kin, Advances, NoPipes
<1>6. CASE AtParent = 3
  <2>1. aborted = {} => out = <<"child", SumTo(X)>>
    BY <1>6 DEF HomeInv, Kin
  <2>2. aborted = {} => Append(out, "parent") = <<"child", SumTo(X), "parent">>
    BY <2>1, AppendIs
  <2>3. /\ ForkTypes'
        /\ Advances("parent")
        /\ out' = Append(out, "parent")
        /\ UNCHANGED <<ends, pipes, buffer, num, shm, heard, aborted>>
    BY <1>1, <1>3, <1>6, PrintDoes DEF Frk!Procs, Frk!Pipes, call
  <2> QED
    BY <1>1, <1>2, <1>6, <2>1, <2>2, <2>3 DEF HomeInv, Kin, Advances, NoPipes
<1> QED
  BY <1>2, <1>4, <1>5, <1>6

(* code.c: the child.                                                      *)
LEMMA HomeChildKeeps ==
  ASSUME ForkTypes, name = "homework", HomeInv, Frk!Step("child")
  PROVE  ForkTypes' /\ HomeInv'
<1> DEFINE call == Call("child")
<1>1. /\ "parent" \in Frk!Procs /\ "child" \in Frk!Procs /\ "thread" \in Frk!Procs
      /\ 1 \in Frk!Pipes /\ 2 \in Frk!Pipes
      /\ {"child"} \in SUBSET Frk!Procs /\ {"child"} # {}
  BY DEF Frk!Procs, Frk!Pipes
<1>2. /\ AtChild \in 1 .. 4 /\ call = Frk!SumChild[AtChild]
      /\ "child" \notin aborted /\ ~Frk!Ended("child") /\ n' = n
  <2>1. AtChild \in 0 .. 5
    BY DEF HomeInv
  <2>2. Frk!Code["child"] = Frk!SumChild /\ Len(Frk!Code["child"]) = 4
        /\ 4 \in Nat
    BY CodeIs
  <2>3. /\ AtChild > 0 /\ ~(AtChild > 4) /\ ~Frk!Ended("child")
        /\ call = Frk!SumChild[AtChild] /\ n' = n
    BY <1>1, <2>2, StepsAt DEF AtChild
  <2> QED
    BY <2>1, <2>3 DEF Frk!Ended
<1>3. /\ AtChild = 1 => call = <<"print", "child">>
      /\ AtChild = 2 => call = <<"create", 0>>
      /\ AtChild = 3 => call = <<"wait", "thread">>
      /\ AtChild = 4 => call = <<"showSum", 0>>
  BY <1>2 DEF Frk!SumChild
<1> HIDE DEF call
<1>4. CASE AtChild = 1
  <2>1. aborted = {} => out = <<>>
    BY <1>4 DEF HomeInv, Kin
  <2>2. aborted = {} => Append(out, "child") = <<"child">>
    BY <2>1, AppendIs
  <2>3. /\ ForkTypes'
        /\ Advances("child")
        /\ out' = Append(out, "child")
        /\ UNCHANGED <<ends, pipes, buffer, num, shm, heard, aborted>>
    BY <1>1, <1>3, <1>4, PrintDoes DEF Frk!Procs, Frk!Pipes, call
  <2> QED
    BY <1>1, <1>2, <1>4, <2>1, <2>2, <2>3 DEF HomeInv, Kin, Advances, NoPipes
<1>5. CASE AtChild = 2
  <2>1. /\ ForkTypes'
        /\ AtParent' = AtParent /\ AtChild' = AtChild + 1 /\ AtThread' = 1
        /\ UNCHANGED <<ends, pipes, buffer, num, shm, out, heard, aborted>>
    BY <1>1, <1>3, <1>5, CreateDoes DEF call
  <2> QED
    BY <1>1, <1>2, <1>5, <2>1 DEF HomeInv, Kin, NoPipes
<1>6. CASE AtChild = 3
  <2>1. Frk!Ended("thread")
    BY <1>1, <1>3, <1>6, WaitDoes DEF call
  <2>2. AtThread > 2 \/ "thread" \in aborted
    BY <2>1, CodeIs DEF Frk!Ended, AtThread
  <2>3. /\ ForkTypes'
        /\ Advances("child")
        /\ UNCHANGED <<ends, pipes, buffer, num, shm, out, heard, aborted>>
    BY <1>1, <1>3, <1>6, WaitDoes DEF Frk!Procs, Frk!Pipes, call
  <2> QED
    BY <1>1, <1>2, <1>6, <2>1, <2>2, <2>3 DEF HomeInv, Kin, Advances, NoPipes
<1>7. CASE AtChild = 4
  <2>1. X \in Nat /\ AtThread = 3
    BY <1>2, <1>7, ForkNumbers DEF HomeInv
  <2>2. num["thread"][2] \in Nat /\ SumBefore(X + 1, num["thread"][2])
    BY <2>1 DEF HomeInv
  <2>3. num["thread"][2] = SumTo(X)
    BY <2>1, <2>2, SumIs
  <2>4. aborted = {} => out = <<"child">>
    BY <1>7 DEF HomeInv, Kin
  <2>5. aborted = {} => Append(out, num["thread"][2]) = <<"child", SumTo(X)>>
    BY <2>3, <2>4, AppendIs
  <2>6. /\ ForkTypes'
        /\ Advances("child")
        /\ out' = Append(out, num["thread"][2])
        /\ UNCHANGED <<ends, pipes, buffer, num, shm, heard, aborted>>
    BY <1>1, <1>3, <1>7, ShowSumDoes DEF Frk!Procs, Frk!Pipes, call
  <2> QED
    BY <1>1, <1>2, <1>7, <2>1, <2>2, <2>3, <2>4, <2>5, <2>6 DEF HomeInv, Kin,
       Advances, NoPipes
<1> QED
  BY <1>2, <1>4, <1>5, <1>6, <1>7

(* code.c: the thread.                                                     *)
LEMMA HomeThreadKeeps ==
  ASSUME ForkTypes, name = "homework", HomeInv, Frk!Step("thread")
  PROVE  ForkTypes' /\ HomeInv'
<1> DEFINE call == Call("thread")
<1>1. /\ "parent" \in Frk!Procs /\ "child" \in Frk!Procs /\ "thread" \in Frk!Procs
      /\ 1 \in Frk!Pipes /\ 2 \in Frk!Pipes
      /\ {"thread"} \in SUBSET Frk!Procs /\ {"thread"} # {}
  BY DEF Frk!Procs, Frk!Pipes
<1>2. /\ AtThread \in 1 .. 2 /\ call = Frk!MySum[AtThread]
      /\ "thread" \notin aborted /\ ~Frk!Ended("thread") /\ n' = n
  <2>1. AtThread \in 0 .. 3
    BY DEF HomeInv
  <2>2. Frk!Code["thread"] = Frk!MySum /\ Len(Frk!Code["thread"]) = 2
        /\ 2 \in Nat
    BY CodeIs
  <2>3. /\ AtThread > 0 /\ ~(AtThread > 2) /\ ~Frk!Ended("thread")
        /\ call = Frk!MySum[AtThread] /\ n' = n
    BY <1>1, <2>2, StepsAt DEF AtThread
  <2> QED
    BY <2>1, <2>3 DEF Frk!Ended
<1>3. /\ AtThread = 1 => call = <<"number", <<1, 0>>>>
      /\ AtThread = 2 => call = <<"sum", 0>>
  BY <1>2 DEF Frk!MySum
<1> HIDE DEF call
<1>4. CASE AtThread = 1
  <2>1. X \in Nat
    BY ForkNumbers
  <2>2. /\ ForkTypes'
        /\ Advances("thread")
        /\ num'["thread"] = <<1, 0>>
        /\ num'["parent"] = num["parent"] /\ num'["child"] = num["child"]
        /\ UNCHANGED <<ends, pipes, buffer, shm, out, heard, aborted>>
    BY <1>1, <1>3, <1>4, NumberDoes DEF Frk!Procs, Frk!Pipes, call
  <2>3. num'["thread"][1] = 1 /\ num'["thread"][2] = 0
    BY <2>2
  <2>4. SumBefore(1, 0)
    BY DEF SumBefore
  <2> QED
    BY <1>1, <1>2, <1>4, <2>1, <2>2, <2>3, <2>4 DEF HomeInv, Kin, Advances,
       NoPipes
<1>5. CASE AtThread = 2
  <2>1. PICK i, s : i = num["thread"][1] /\ s = num["thread"][2]
    OBVIOUS
  <2>2. /\ ForkTypes' /\ X \in Nat
        /\ i <= X => Stays /\ num'["thread"] = <<i + 1, s + i>>
        /\ ~(i <= X) => Advances("thread") /\ num' = num
        /\ UNCHANGED <<ends, pipes, buffer, shm, out, heard, aborted>>
    BY <1>1, <1>3, <1>5, <2>1, SumDoes, ForkNumbers DEF call
  <2>3. i \in 1 .. X + 1 /\ s \in Nat /\ SumBefore(i, s)
    BY <1>5, <2>1 DEF HomeInv
  <2>4. CASE i <= X
    <3>1. i + 1 \in 1 .. X + 1 /\ s + i \in Nat /\ i \in Nat
      BY <2>2, <2>3, <2>4
    <3>2. SumBefore(i + 1, s + i)
      BY <2>3, <3>1, SumOn
    <3>3. num'["thread"][1] = i + 1 /\ num'["thread"][2] = s + i
      BY <2>2, <2>4
    <3> QED
      BY <1>1, <1>2, <1>5, <2>2, <2>4, <3>1, <3>2, <3>3 DEF HomeInv, Kin,
         NoPipes, Stays
  <2>5. CASE ~(i <= X)
    <3>1. i = X + 1
      BY <2>2, <2>3, <2>5
    <3>2. Advances("thread") /\ num' = num
      BY <2>2, <2>5
    <3>3. num["thread"][1] = X + 1 /\ AtThread' = 3
      BY <1>5, <2>1, <3>1, <3>2 DEF Advances
    <3> QED
      BY <1>1, <1>2, <1>5, <2>2, <3>2, <3>3 DEF HomeInv, Kin, NoPipes, Advances
  <2> QED
    BY <2>4, <2>5
<1> QED
  BY <1>2, <1>4, <1>5

(* Only the second homework has a thread.                                  *)
LEMMA NoThread ==
  ASSUME ForkTypes, Frk!Step("thread")
  PROVE  name = "homework"
<1>1. "thread" \in Frk!Procs
  BY DEF Frk!Procs
<1>2. ip["thread"] > 0 /\ ~(ip["thread"] > Len(Frk!Code["thread"]))
  BY <1>1, StepIs
<1>3. name # "homework" => Frk!Code["thread"] = <<>>
  BY CodeIs DEF ForkTypes
<1> QED
  BY <1>2, <1>3

(* Every step keeps what is said of its program.                           *)
LEMMA ChildStep ==
  ASSUME ForkInv, NEW p \in Frk!Procs, Frk!Step(p)
  PROVE  ForkInv'
<1>1. name' = name /\ ForkTypes
  BY StepIs DEF ForkInv
<1>2. p = "parent" \/ p = "child" \/ (p = "thread" /\ name = "homework")
  <2>1. CASE p = "thread"
    BY <1>1, <2>1, NoThread
  <2> QED
    BY <2>1 DEF Frk!Procs
<1>3. ASSUME name = "pingpong" PROVE ForkTypes' /\ PingInv'
  <2>1. PingInv
    BY <1>3 DEF ForkInv
  <2> QED
    BY <1>1, <1>2, <1>3, <2>1, PingParentKeeps, PingChildKeeps
<1>4. ASSUME name = "3-12" PROVE ForkTypes' /\ IdleInv'
  <2>1. IdleInv
    BY <1>4 DEF ForkInv
  <2> QED
    BY <1>1, <1>2, <1>4, <2>1, IdleParentKeeps, IdleChildKeeps
<1>5. ASSUME name = "3-14" PROVE ForkTypes' /\ CollatzInv'
  <2>1. CollatzInv
    BY <1>5 DEF ForkInv
  <2> QED
    BY <1>1, <1>2, <1>5, <2>1, CollatzParentKeeps, CollatzChildKeeps
<1>6. ASSUME name = "3-15" PROVE ForkTypes' /\ ShareInv'
  <2>1. ShareInv
    BY <1>6 DEF ForkInv
  <2> QED
    BY <1>1, <1>2, <1>6, <2>1, ShareParentKeeps, ShareChildKeeps
<1>7. ASSUME name = "3-19" PROVE ForkTypes' /\ SwapInv'
  <2>1. SwapInv
    BY <1>7 DEF ForkInv
  <2> QED
    BY <1>1, <1>2, <1>7, <2>1, SwapParentKeeps, SwapChildKeeps
<1>8. ASSUME name = "3-20" PROVE ForkTypes' /\ CopyInv'
  <2>1. CopyInv
    BY <1>8 DEF ForkInv
  <2> QED
    BY <1>1, <1>2, <1>8, <2>1, CopyParentKeeps, CopyChildKeeps
<1>9. ASSUME name = "homework" PROVE ForkTypes' /\ HomeInv'
  <2>1. HomeInv
    BY <1>9 DEF ForkInv
  <2> QED
    BY <1>1, <1>2, <1>9, <2>1, HomeParentKeeps, HomeChildKeeps, HomeThreadKeeps
<1>10. ForkTypes'
  BY <1>1, <1>3, <1>4, <1>5, <1>6, <1>7, <1>8, <1>9 DEF ForkTypes
<1> QED
  BY <1>1, <1>3, <1>4, <1>5, <1>6, <1>7, <1>8, <1>9, <1>10 DEF ForkInv

(* The child is killed.                                                    *)
LEMMA KilledStep ==
  ASSUME ForkInv, Frk!Killed
  PROVE  ForkInv'
<1> DEFINE who == {"child", "thread"}
<1>1. /\ who \in SUBSET Frk!Procs /\ who # {} /\ "parent" \notin who
      /\ "child" \in who /\ "thread" \in who
  BY DEF Frk!Procs
<1>2. Frk!Dies(who) /\ ForkTypes
  BY DEF Frk!Killed, ForkInv
<1> HIDE DEF who
<1>3. ForkTypes' /\ Dead(who)
  BY <1>1, <1>2, EndsWith
<1>4. name' = name
  BY <1>3 DEF Dead
<1>5. PingInv => PingInv'
  BY <1>1, <1>3, PingDies
<1>6. IdleInv => IdleInv'
  BY <1>1, <1>3, IdleDies
<1>7. CollatzInv => CollatzInv'
  BY <1>1, <1>3, CollatzDies
<1>8. ShareInv => ShareInv'
  BY <1>1, <1>3, ShareDies
<1>9. SwapInv => SwapInv'
  BY <1>1, <1>3, SwapDies
<1>10. CopyInv => CopyInv'
  BY <1>1, <1>3, CopyDies
<1>11. HomeInv => HomeInv'
  BY <1>1, <1>3, HomeDies
<1> QED
  BY <1>3, <1>4, <1>5, <1>6, <1>7, <1>8, <1>9, <1>10, <1>11 DEF ForkInv

(* The parent begins, alone.                                               *)
LEMMA ForkStarts ==
  ASSUME ProcessesAssumption, Init
  PROVE  ForkInv
<1>1. Frk!Start /\ (Frk!Inputs \/ (name = "3-12" /\ n = 0))
  BY DEF Init
<1>2. /\ ip = [p \in Frk!Procs |-> IF p = "parent" THEN 1 ELSE 0]
      /\ ends = [p \in Frk!Procs |-> {}] /\ pipes = [k \in Frk!Pipes |-> <<>>]
      /\ num = [p \in Frk!Procs |-> <<0, 0>>] /\ heard = [p \in Frk!Procs |-> {}]
      /\ shm = <<>> /\ out = <<>> /\ aborted = {}
      /\ \E x : buffer = [p \in Frk!Procs |-> x]
  BY <1>1, Zenon DEF Frk!Start
<1>3. /\ AtParent = 1 /\ AtChild = 0 /\ AtThread = 0
      /\ pipes[1] = <<>> /\ pipes[2] = <<>> /\ shm = <<>> /\ out = <<>> /\ aborted = {}
      /\ heard["parent"] = {} /\ heard["child"] = {} /\ heard["thread"] = {}
  BY <1>2 DEF Frk!Procs, Frk!Pipes, AtParent, AtChild, AtThread
<1>4. /\ name \in {"pingpong", "3-12", "3-14", "3-15", "3-19", "3-20", "homework"}
      /\ n \in Int
  <2>1. Frk!ForkProgramsAssumption
    BY DEF ProcessesAssumption
  <2>2. /\ Names \subseteq {"pingpong", "3-12", "3-14", "3-15", "3-19", "3-20", "homework"}
        /\ Arguments \subseteq Int
    BY <2>1, ForkNumbers DEF Frk!ForkProgramsAssumption
  <2>3. CASE Frk!Inputs
    <3>1. name \in Names /\ n \in Arguments
      BY <2>3 DEF Frk!Inputs
    <3> QED
      BY <2>2, <3>1
  <2>4. CASE name = "3-12" /\ n = 0
    BY <2>4
  <2> QED
    BY <1>1, <2>3, <2>4
<1>5. ForkTypes
  <2>1. buffer = [p \in Frk!Procs |-> buffer[p]]
    BY <1>2
  <2> QED
    BY <1>2, <1>4, <2>1 DEF ForkTypes
<1>6. PingInv
  BY <1>3, <1>4 DEF PingInv, Kin
<1>7. IdleInv
  BY <1>3, <1>4 DEF IdleInv, Kin, NoPipes
<1>8. CollatzInv
  BY <1>3, <1>4 DEF CollatzInv, Kin, NoPipes
<1>9. ShareInv
  BY <1>3, <1>4 DEF ShareInv, Kin, NoPipes
<1>10. SwapInv
  BY <1>3, <1>4 DEF SwapInv, Kin
<1>11. CopyInv
  BY <1>3, <1>4 DEF CopyInv, Kin, CopyPrinted
<1>12. HomeInv
  BY <1>3, <1>4 DEF HomeInv, Kin, NoPipes
<1> QED
  BY <1>5, <1>6, <1>7, <1>8, <1>9, <1>10, <1>11, <1>12 DEF ForkInv

(* The steps of the other programs.                                        *)
LEMMA ForkStays ==
  ASSUME ForkInv, UNCHANGED forkVars
  PROVE  ForkInv'
<1>1. UNCHANGED <<name, n, ip, ends, pipes, buffer, num, shm, out, heard, aborted>>
  BY DEF forkVars
<1>2. AtParent' = AtParent /\ AtChild' = AtChild /\ AtThread' = AtThread
  BY <1>1 DEF AtParent, AtChild, AtThread
<1>3. ForkTypes'
  BY <1>1 DEF ForkInv, ForkTypes
<1>4. PingInv => PingInv'
  BY <1>1, <1>2 DEF PingInv, Kin
<1>5. IdleInv => IdleInv'
  BY <1>1, <1>2 DEF IdleInv, Kin, NoPipes
<1>6. CollatzInv => CollatzInv'
  BY <1>1, <1>2 DEF CollatzInv, Kin, NoPipes
<1>7. ShareInv => ShareInv'
  BY <1>1, <1>2 DEF ShareInv, Kin, NoPipes
<1>8. SwapInv => SwapInv'
  BY <1>1, <1>2 DEF SwapInv, Kin
<1>9. CopyInv => CopyInv'
  BY <1>1, <1>2 DEF CopyInv, Kin, CopyPrinted
<1>10. HomeInv => HomeInv'
  BY <1>1, <1>2 DEF HomeInv, Kin, NoPipes
<1> QED
  BY <1>1, <1>3, <1>4, <1>5, <1>6, <1>7, <1>8, <1>9, <1>10 DEF ForkInv

(* Where the parent and the child of each program are, what is in its      *)
(* pipes and its buffers, and what it has printed.                         *)
THEOREM ForkRight == Spec => []ForkInv
<1> USE ProcessesAssumption DEF ProcessesAssumption
<1>1. Init => ForkInv
  BY ForkStarts
<1>2. ForkInv /\ [Next]_vars => ForkInv'
  <2> SUFFICES ASSUME ForkInv, [Next]_vars PROVE ForkInv'
    OBVIOUS
  <2>1. CASE InFork /\ Frk!Next
    BY <2>1, ChildStep, KilledStep DEF Frk!Next
  <2>2. CASE UNCHANGED forkVars
    BY <2>2, ForkStays
  <2> QED
    BY <2>1, <2>2 DEF Next, vars, InSieve, InXargs, InFind, InShell
<1> QED
  BY <1>1, <1>2, PTL DEF Spec

(* When the processes of a program have ended.                             *)
LEMMA EndedIs ==
  /\ name = "pingpong" =>
        /\ Frk!Ended("parent") <=> AtParent > 9 \/ "parent" \in aborted
        /\ Frk!Ended("child") <=> AtChild > 5 \/ "child" \in aborted
  /\ name = "3-12" =>
        /\ Frk!Ended("parent") <=> AtParent > 3 \/ "parent" \in aborted
        /\ Frk!Ended("child") <=> AtChild > 2 \/ "child" \in aborted
  /\ name = "3-14" =>
        /\ Frk!Ended("parent") <=> AtParent > 3 \/ "parent" \in aborted
        /\ Frk!Ended("child") <=> AtChild > 3 \/ "child" \in aborted
  /\ name = "3-15" =>
        /\ Frk!Ended("parent") <=> AtParent > 4 \/ "parent" \in aborted
        /\ Frk!Ended("child") <=> AtChild > 3 \/ "child" \in aborted
  /\ name = "3-19" =>
        /\ Frk!Ended("parent") <=> AtParent > 11 \/ "parent" \in aborted
        /\ Frk!Ended("child") <=> AtChild > 7 \/ "child" \in aborted
  /\ name = "3-20" =>
        /\ Frk!Ended("parent") <=> AtParent > 9 \/ "parent" \in aborted
        /\ Frk!Ended("child") <=> AtChild > 6 \/ "child" \in aborted
  /\ name = "homework" =>
        /\ Frk!Ended("parent") <=> AtParent > 3 \/ "parent" \in aborted
        /\ Frk!Ended("child") <=> AtChild > 4 \/ "child" \in aborted
        /\ Frk!Ended("thread") <=> AtThread > 2 \/ "thread" \in aborted
BY CodeIs DEF Frk!Ended, AtParent, AtChild, AtThread

(* The parent ends last, whether it has waited or given up.                *)
LEMMA ParentEndsLast ==
  ASSUME ForkInv
  PROVE  /\ Frk!Ended("parent") => Frk!AllEnded
         /\ Frk!AllEnded => Frk!Ended("parent")
<1>1. Frk!AllEnded <=>
         /\ AtParent > 0 => Frk!Ended("parent")
         /\ AtChild > 0 => Frk!Ended("child")
         /\ AtThread > 0 => Frk!Ended("thread")
  <2>1. Frk!AllEnded <=>
           /\ ip["parent"] > 0 => Frk!Ended("parent")
           /\ ip["child"] > 0 => Frk!Ended("child")
           /\ ip["thread"] > 0 => Frk!Ended("thread")
    BY Zenon DEF Frk!AllEnded, Frk!Procs
  <2> QED
    BY <2>1, Zenon DEF AtParent, AtChild, AtThread
<1>2. CASE name = "pingpong"
  <2>1. PingInv
    BY <1>2 DEF ForkInv
  <2>2. AtParent \in 1 .. 10 /\ AtChild \in 0 .. 6
    BY <2>1 DEF PingInv
  <2>3. /\ AtParent > 9 => AtChild = 6 \/ "child" \in aborted
        /\ "parent" \in aborted => AtChild \in {0, 6} \/ "child" \in aborted
    BY <2>1, <2>2 DEF PingInv, Kin
  <2>4. AtThread = 0
    BY <2>1 DEF PingInv
  <2>5. /\ Frk!Ended("parent") <=> AtParent > 9 \/ "parent" \in aborted
        /\ Frk!Ended("child") <=> AtChild > 5 \/ "child" \in aborted
    BY <1>2, EndedIs
  <2> QED
    BY <1>1, <2>2, <2>3, <2>4, <2>5
<1>3. CASE name = "3-12"
  <2>1. IdleInv
    BY <1>3 DEF ForkInv
  <2>2. AtParent \in 1 .. 4 /\ AtChild \in 0 .. 3
    BY <2>1 DEF IdleInv
  <2>3. /\ AtParent > 3 => AtChild = 3 \/ "child" \in aborted
        /\ "parent" \in aborted => AtChild \in {0, 3} \/ "child" \in aborted
    BY <2>1, <2>2 DEF IdleInv, Kin
  <2>4. AtThread = 0
    BY <2>1 DEF IdleInv
  <2>5. /\ Frk!Ended("parent") <=> AtParent > 3 \/ "parent" \in aborted
        /\ Frk!Ended("child") <=> AtChild > 2 \/ "child" \in aborted
    BY <1>3, EndedIs
  <2> QED
    BY <1>1, <2>2, <2>3, <2>4, <2>5
<1>4. CASE name = "3-14"
  <2>1. CollatzInv
    BY <1>4 DEF ForkInv
  <2>2. AtParent \in 1 .. 4 /\ AtChild \in 0 .. 4
    BY <2>1 DEF CollatzInv
  <2>3. /\ AtParent > 3 => AtChild = 4 \/ "child" \in aborted
        /\ "parent" \in aborted => AtChild \in {0, 4} \/ "child" \in aborted
    BY <2>1, <2>2 DEF CollatzInv, Kin
  <2>4. AtThread = 0
    BY <2>1 DEF CollatzInv
  <2>5. /\ Frk!Ended("parent") <=> AtParent > 3 \/ "parent" \in aborted
        /\ Frk!Ended("child") <=> AtChild > 3 \/ "child" \in aborted
    BY <1>4, EndedIs
  <2> QED
    BY <1>1, <2>2, <2>3, <2>4, <2>5
<1>5. CASE name = "3-15"
  <2>1. ShareInv
    BY <1>5 DEF ForkInv
  <2>2. AtParent \in 1 .. 5 /\ AtChild \in 0 .. 4
    BY <2>1 DEF ShareInv
  <2>3. /\ AtParent > 4 => AtChild = 4 \/ "child" \in aborted
        /\ "parent" \in aborted => AtChild \in {0, 4} \/ "child" \in aborted
    BY <2>1, <2>2 DEF ShareInv, Kin
  <2>4. AtThread = 0
    BY <2>1 DEF ShareInv
  <2>5. /\ Frk!Ended("parent") <=> AtParent > 4 \/ "parent" \in aborted
        /\ Frk!Ended("child") <=> AtChild > 3 \/ "child" \in aborted
    BY <1>5, EndedIs
  <2> QED
    BY <1>1, <2>2, <2>3, <2>4, <2>5
<1>6. CASE name = "3-19"
  <2>1. SwapInv
    BY <1>6 DEF ForkInv
  <2>2. AtParent \in 1 .. 12 /\ AtChild \in 0 .. 8
    BY <2>1 DEF SwapInv
  <2>3. /\ AtParent > 11 => AtChild = 8 \/ "child" \in aborted
        /\ "parent" \in aborted => AtChild \in {0, 8} \/ "child" \in aborted
    BY <2>1, <2>2 DEF SwapInv, Kin
  <2>4. AtThread = 0
    BY <2>1 DEF SwapInv
  <2>5. /\ Frk!Ended("parent") <=> AtParent > 11 \/ "parent" \in aborted
        /\ Frk!Ended("child") <=> AtChild > 7 \/ "child" \in aborted
    BY <1>6, EndedIs
  <2> QED
    BY <1>1, <2>2, <2>3, <2>4, <2>5
<1>7. CASE name = "3-20"
  <2>1. CopyInv
    BY <1>7 DEF ForkInv
  <2>2. AtParent \in 1 .. 10 /\ AtChild \in 0 .. 7
    BY <2>1 DEF CopyInv
  <2>3. /\ AtParent > 9 => AtChild = 7 \/ "child" \in aborted
        /\ "parent" \in aborted => AtChild \in {0, 7} \/ "child" \in aborted
    BY <2>1, <2>2 DEF CopyInv, Kin
  <2>4. AtThread = 0
    BY <2>1 DEF CopyInv
  <2>5. /\ Frk!Ended("parent") <=> AtParent > 9 \/ "parent" \in aborted
        /\ Frk!Ended("child") <=> AtChild > 6 \/ "child" \in aborted
    BY <1>7, EndedIs
  <2> QED
    BY <1>1, <2>2, <2>3, <2>4, <2>5
<1>8. CASE name = "homework"
  <2>1. HomeInv
    BY <1>8 DEF ForkInv
  <2>2. AtParent \in 1 .. 4 /\ AtChild \in 0 .. 5
    BY <2>1 DEF HomeInv
  <2>3. /\ AtParent > 3 => AtChild = 5 \/ "child" \in aborted
        /\ "parent" \in aborted => AtChild \in {0, 5} \/ "child" \in aborted
    BY <2>1, <2>2 DEF HomeInv, Kin
  <2>4. /\ AtThread > 0 <=> AtChild > 2
        /\ AtChild > 3 => AtThread = 3 \/ "thread" \in aborted
        /\ "child" \in aborted <=> "thread" \in aborted
    BY <2>1 DEF HomeInv
  <2>5. /\ Frk!Ended("parent") <=> AtParent > 3 \/ "parent" \in aborted
        /\ Frk!Ended("child") <=> AtChild > 4 \/ "child" \in aborted
        /\ Frk!Ended("thread") <=> AtThread > 2 \/ "thread" \in aborted
    BY <1>8, EndedIs
  <2> QED
    BY <1>1, <2>2, <2>3, <2>4, <2>5
<1> QED
  BY <1>2, <1>3, <1>4, <1>5, <1>6, <1>7, <1>8 DEF ForkInv, ForkTypes

(* Nobody reads what it has written, unless the child has been killed.     *)
LEMMA HeardFromOthers ==
  ASSUME ForkInv, "child" \notin aborted, NEW p \in Frk!Procs
  PROVE  p \notin heard[p]
<1>1. p \in {"parent", "child", "thread"}
  BY DEF Frk!Procs
<1>2. CASE name = "pingpong"
  <2>1. PingInv
    BY <1>2 DEF ForkInv
  <2> QED
    BY <1>1, <2>1 DEF PingInv
<1>3. CASE name = "3-12"
  <2>1. IdleInv
    BY <1>3 DEF ForkInv
  <2> QED
    BY <1>1, <2>1 DEF IdleInv, NoPipes
<1>4. CASE name = "3-14"
  <2>1. CollatzInv
    BY <1>4 DEF ForkInv
  <2> QED
    BY <1>1, <2>1 DEF CollatzInv, NoPipes
<1>5. CASE name = "3-15"
  <2>1. ShareInv
    BY <1>5 DEF ForkInv
  <2> QED
    BY <1>1, <2>1 DEF ShareInv, NoPipes
<1>6. CASE name = "3-19"
  <2>1. SwapInv
    BY <1>6 DEF ForkInv
  <2> QED
    BY <1>1, <2>1 DEF SwapInv
<1>7. CASE name = "3-20"
  <2>1. CopyInv
    BY <1>7 DEF ForkInv
  <2> QED
    BY <1>1, <2>1 DEF CopyInv, CopyPrinted
<1>8. CASE name = "homework"
  <2>1. HomeInv
    BY <1>8 DEF ForkInv
  <2> QED
    BY <1>1, <2>1 DEF HomeInv, NoPipes
<1> QED
  BY <1>2, <1>3, <1>4, <1>5, <1>6, <1>7, <1>8 DEF ForkInv, ForkTypes

(* The numbers of 3-14.c and of 3-15.c.                                    *)
LEMMA CollatzIs ==
  ASSUME NEW s, NEW t, NEW b \in {1, 2}, NEW e \in Nat, Walked(n, s, b, e),
         Len(t) = e - b + 1, t # <<>>, \A i \in 1 .. e - b + 1 : t[i] = s[b + i - 1]
  PROVE  Frk!IsCollatz(t)
<1>1. e >= b /\ s[b] = n /\ s[e] <= 1 /\ Turns(s, b, e)
  BY DEF Walked
<1>2. t[1] = n /\ t[Len(t)] <= 1
  <2>1. /\ 1 \in 1 .. e - b + 1 /\ e - b + 1 \in 1 .. e - b + 1
        /\ b + 1 - 1 = b /\ b + (e - b + 1) - 1 = e
    BY <1>1
  <2> QED
    BY <1>1, <2>1
<1>3. ASSUME NEW i \in 1 .. Len(t) - 1
      PROVE  t[i] > 1 /\ t[i] \in Int /\ t[i + 1] = Frk!Successor(t[i])
  <2>1. /\ i \in 1 .. e - b + 1 /\ i + 1 \in 1 .. e - b + 1
        /\ b + i - 1 \in b .. e - 1 /\ b + (i + 1) - 1 = (b + i - 1) + 1
    BY <1>1
  <2>2. t[i] = s[b + i - 1] /\ t[i + 1] = s[(b + i - 1) + 1]
    BY <2>1
  <2> QED
    BY <1>1, <2>1, <2>2 DEF Turns
<1> QED
  BY <1>2, <1>3, SuccessorIs DEF Frk!IsCollatz

(* The last two of four.                                                   *)
LEMMA LastTwo ==
  ASSUME NEW x, NEW y, NEW z, NEW w
  PROVE  SubSeq(<<x, y, z, w>>, 3, 4) = <<z, w>>
<1> DEFINE S == {x, y, z, w}
           q == <<x, y, z, w>>
           t == SubSeq(q, 3, 4)
           u == <<z, w>>
<1>1. /\ q \in Seq(S) /\ Len(q) = 4 /\ q[3] = z /\ q[4] = w
      /\ u \in Seq(S) /\ Len(u) = 2 /\ u[1] = z /\ u[2] = w
  OBVIOUS
<1> HIDE DEF q, u
<1>2. /\ t \in Seq(S) /\ Len(t) = 2
      /\ t[1] = q[3] /\ t[2] = q[4]
  <2>1. 3 \in Int /\ 4 \in Int /\ \A i \in 3 .. 4 : i = 3 \/ i = 4
    OBVIOUS
  <2>2. z \in S /\ w \in S
    OBVIOUS
  <2> HIDE DEF S, t
  <2>3. \A i \in 3 .. 4 : q[i] \in S
    BY <1>1, <2>1, <2>2
  <2>4. /\ SubSeq(q, 3, 4) \in Seq(S)
        /\ Len(SubSeq(q, 3, 4)) = IF 3 <= 4 THEN 4 - 3 + 1 ELSE 0
        /\ \A i \in 1 .. 4 - 3 + 1 : SubSeq(q, 3, 4)[i] = q[3 + i - 1]
    BY <2>1, <2>3, SubSeqProperties
  <2> QED
    BY <2>4 DEF t
<1>3. \A i \in 1 .. 2 : i = 1 \/ i = 2
  OBVIOUS
<1> HIDE DEF t, S
<1>4. t = u
  BY <1>1, <1>2, <1>3, SeqEqual
<1> QED
  BY <1>4 DEF t, u, q

(* What is printed in the end.                                             *)
LEMMA PromiseKept ==
  ASSUME ForkInv, Frk!AllEnded, aborted = {}
  PROVE  Frk!Promise
<1>1. Frk!Ended("parent")
  BY ParentEndsLast
<1>2. CASE name = "pingpong"
  <2>1. PingInv
    BY <1>2 DEF ForkInv
  <2>2. AtParent = 10 /\ AtChild = 6
    BY <1>1, <1>2, <2>1, EndedIs DEF PingInv, Kin
  <2> QED
    BY <1>2, <2>1, <2>2 DEF PingInv, Frk!Promise
<1>3. CASE name = "3-12"
  <2>1. IdleInv
    BY <1>3 DEF ForkInv
  <2>2. AtParent = 4 /\ AtChild = 3
    BY <1>1, <1>3, <2>1, EndedIs DEF IdleInv, Kin
  <2> QED
    BY <1>3, <2>1, <2>2 DEF IdleInv, Frk!Promise
<1>4. CASE name = "3-14"
  <2>1. CollatzInv
    BY <1>4 DEF ForkInv
  <2>2. AtParent = 4 /\ AtChild = 4
    BY <1>1, <1>4, <2>1, EndedIs DEF CollatzInv, Kin
  <2>3. /\ out \in Seq({"child", "parent"} \cup Int)
        /\ out[1] = "child" /\ out[Len(out)] = "parent" /\ Walked(n, out, 2, Len(out) - 1)
    BY <2>1, <2>2 DEF CollatzInv
  <2>4. Len(out) - 1 \in Nat /\ Len(out) - 1 >= 2 /\ Len(out) \in Nat
    BY <2>3 DEF Walked
  <2> DEFINE t == SubSeq(out, 2, Len(out) - 1)
  <2>5. /\ Len(t) = (Len(out) - 1) - 2 + 1
        /\ \A i \in 1 .. (Len(out) - 1) - 2 + 1 : t[i] = out[2 + i - 1]
    BY <2>3, <2>4, SubSeqProperties
  <2>6. t # <<>>
    <3> HIDE DEF t
    <3> QED
      BY <2>4, <2>5
  <2>7. Frk!IsCollatz(t)
    <3> HIDE DEF t
    <3> QED
      BY <2>3, <2>4, <2>5, <2>6, CollatzIs
  <2> QED
    BY <1>4, <2>3, <2>7 DEF Frk!Promise
<1>5. CASE name = "3-15"
  <2>1. ShareInv
    BY <1>5 DEF ForkInv
  <2>2. AtParent = 5 /\ AtChild = 4
    BY <1>1, <1>5, <2>1, EndedIs DEF ShareInv, Kin
  <2>3. /\ out = <<"child", "parent", shm>> /\ Walked(n, shm, 1, Len(shm))
        /\ shm \in Seq(Int)
    BY <2>1, <2>2 DEF ShareInv
  <2>4. Len(shm) \in Nat /\ Len(shm) >= 1 /\ shm # <<>>
    BY <2>3 DEF Walked
  <2>5. Frk!IsCollatz(shm)
    BY <2>3, <2>4, CollatzIs
  <2> QED
    BY <1>5, <2>3, <2>5 DEF Frk!Promise
<1>6. CASE name = "3-19"
  <2>1. SwapInv
    BY <1>6 DEF ForkInv
  <2>2. AtParent = 12 /\ AtChild = 8
    BY <1>1, <1>6, <2>1, EndedIs DEF SwapInv, Kin
  <2> QED
    BY <1>6, <2>1, <2>2 DEF SwapInv, Frk!Promise
<1>7. CASE name = "3-20"
  <2>1. CopyInv
    BY <1>7 DEF ForkInv
  <2>2. AtParent = 10 /\ AtChild = 7
    BY <1>1, <1>7, <2>1, EndedIs DEF CopyInv, Kin
  <2>3. PICK x, y \in {"parent_start", "child_start"} :
            x # y /\ out = <<x, y, "child_end", "parent_end">>
    BY <2>1, <2>2 DEF CopyInv, CopyPrinted
  <2>4. {x, y} = {"child_start", "parent_start"}
    BY <2>3
  <2>5. SubSeq(<<x, y, "child_end", "parent_end">>, 3, 4) = <<"child_end", "parent_end">>
    BY LastTwo
  <2>6. Len(out) = 4 /\ out[1] = x /\ out[2] = y
    BY <2>3
  <2>7. shm = <<"file1">>
    BY <2>1, <2>2 DEF CopyInv
  <2> QED
    BY <1>7, <2>3, <2>4, <2>5, <2>6, <2>7 DEF Frk!Promise
<1>8. CASE name = "homework"
  <2>1. HomeInv
    BY <1>8 DEF ForkInv
  <2>2. AtParent = 4 /\ AtChild = 5
    BY <1>1, <1>8, <2>1, EndedIs DEF HomeInv, Kin
  <2> QED
    BY <1>8, <2>1, <2>2 DEF HomeInv, SumTo, Frk!Promise
<1> QED
  BY <1>2, <1>3, <1>4, <1>5, <1>6, <1>7, <1>8 DEF ForkInv, ForkTypes

(* pingpong.c, 3-12, 3-14, 3-15, 3-19, 3-20 and code.c: however the        *)
(* processes of a program alternate, what they print is right and in its   *)
(* order; nobody reads from a pipe what it has written to it itself, if    *)
(* the child is not killed; and the parent ends last.  The argument of     *)
(* 3-14 and 3-15 is any int, and its sequence is right as far as an int    *)
(* holds the next number; where 3-15 overruns str or the shared memory, it *)
(* does no harm or ends the child.  x of code.c is any whose sum an int    *)
(* holds.                                                                  *)
THEOREM ExchangesComplete == Spec => []ExchangesRight
<1> USE ProcessesAssumption DEF ProcessesAssumption
<1>1. ForkInv => ExchangesRight
  <2> SUFFICES ASSUME ForkInv PROVE Frk!ExchangesRight
    BY DEF ExchangesRight
  <2> QED
    BY ParentEndsLast, HeardFromOthers, PromiseKept DEF Frk!ExchangesRight
<1> QED
  BY <1>1, ForkRight, PTL

(* The places of the processes, and what the pipes hold.                    *)
LEMMA ForkTypesRight ==
  ASSUME ForkInv
  PROVE  Frk!TypeOK
<1>1. /\ ends \in [Frk!Procs -> SUBSET ({"r", "w"} \X Frk!Pipes)]
      /\ aborted \subseteq Frk!Procs
      /\ ip \in [Frk!Procs -> Nat]
  BY DEF ForkInv, ForkTypes
<1> DEFINE Placed == /\ AtParent \in 0 .. Len(Frk!Code["parent"]) + 1
                     /\ AtChild \in 0 .. Len(Frk!Code["child"]) + 1
                     /\ AtThread \in 0 .. Len(Frk!Code["thread"]) + 1
                     /\ Len(pipes[1]) <= 1 /\ Len(pipes[2]) <= 1
<1>2. ASSUME name = "pingpong" PROVE Placed
  <2>1. PingInv
    BY <1>2 DEF ForkInv
  <2>2. AtParent \in 1 .. 10 /\ AtChild \in 0 .. 6 /\ AtThread \in 0 .. 0
    BY <2>1 DEF PingInv
  <2>3. Len(pipes[1]) <= 1 /\ Len(pipes[2]) <= 1
    BY <2>1 DEF PingInv
  <2>4. /\ Len(Frk!Code["parent"]) = 9 /\ Len(Frk!Code["child"]) = 5
        /\ Len(Frk!Code["thread"]) = 0
    BY <1>2, CodeIs
  <2> QED
    BY <2>2, <2>3, <2>4
<1>3. ASSUME name = "3-12" PROVE Placed
  <2>1. IdleInv
    BY <1>3 DEF ForkInv
  <2>2. AtParent \in 1 .. 4 /\ AtChild \in 0 .. 3 /\ AtThread \in 0 .. 0
    BY <2>1 DEF IdleInv
  <2>3. Len(pipes[1]) <= 1 /\ Len(pipes[2]) <= 1
    BY <2>1 DEF IdleInv, NoPipes
  <2>4. /\ Len(Frk!Code["parent"]) = 3 /\ Len(Frk!Code["child"]) = 2
        /\ Len(Frk!Code["thread"]) = 0
    BY <1>3, CodeIs
  <2> QED
    BY <2>2, <2>3, <2>4
<1>4. ASSUME name = "3-14" PROVE Placed
  <2>1. CollatzInv
    BY <1>4 DEF ForkInv
  <2>2. AtParent \in 1 .. 4 /\ AtChild \in 0 .. 4 /\ AtThread \in 0 .. 0
    BY <2>1 DEF CollatzInv
  <2>3. Len(pipes[1]) <= 1 /\ Len(pipes[2]) <= 1
    BY <2>1 DEF CollatzInv, NoPipes
  <2>4. /\ Len(Frk!Code["parent"]) = 3 /\ Len(Frk!Code["child"]) = 3
        /\ Len(Frk!Code["thread"]) = 0
    BY <1>4, CodeIs
  <2> QED
    BY <2>2, <2>3, <2>4
<1>5. ASSUME name = "3-15" PROVE Placed
  <2>1. ShareInv
    BY <1>5 DEF ForkInv
  <2>2. AtParent \in 1 .. 5 /\ AtChild \in 0 .. 4 /\ AtThread \in 0 .. 0
    BY <2>1 DEF ShareInv
  <2>3. Len(pipes[1]) <= 1 /\ Len(pipes[2]) <= 1
    BY <2>1 DEF ShareInv, NoPipes
  <2>4. /\ Len(Frk!Code["parent"]) = 4 /\ Len(Frk!Code["child"]) = 3
        /\ Len(Frk!Code["thread"]) = 0
    BY <1>5, CodeIs
  <2> QED
    BY <2>2, <2>3, <2>4
<1>6. ASSUME name = "3-19" PROVE Placed
  <2>1. SwapInv
    BY <1>6 DEF ForkInv
  <2>2. AtParent \in 1 .. 12 /\ AtChild \in 0 .. 8 /\ AtThread \in 0 .. 0
    BY <2>1 DEF SwapInv
  <2>3. Len(pipes[1]) <= 1 /\ Len(pipes[2]) <= 1
    BY <2>1 DEF SwapInv
  <2>4. /\ Len(Frk!Code["parent"]) = 11 /\ Len(Frk!Code["child"]) = 7
        /\ Len(Frk!Code["thread"]) = 0
    BY <1>6, CodeIs
  <2> QED
    BY <2>2, <2>3, <2>4
<1>7. ASSUME name = "3-20" PROVE Placed
  <2>1. CopyInv
    BY <1>7 DEF ForkInv
  <2>2. AtParent \in 1 .. 10 /\ AtChild \in 0 .. 7 /\ AtThread \in 0 .. 0
    BY <2>1 DEF CopyInv
  <2>3. Len(pipes[1]) <= 1 /\ Len(pipes[2]) <= 1
    BY <2>1 DEF CopyInv, CopyPrinted
  <2>4. /\ Len(Frk!Code["parent"]) = 9 /\ Len(Frk!Code["child"]) = 6
        /\ Len(Frk!Code["thread"]) = 0
    BY <1>7, CodeIs
  <2> QED
    BY <2>2, <2>3, <2>4
<1>8. ASSUME name = "homework" PROVE Placed
  <2>1. HomeInv
    BY <1>8 DEF ForkInv
  <2>2. AtParent \in 1 .. 4 /\ AtChild \in 0 .. 5 /\ AtThread \in 0 .. 3
    BY <2>1 DEF HomeInv
  <2>3. Len(pipes[1]) <= 1 /\ Len(pipes[2]) <= 1
    BY <2>1 DEF HomeInv, NoPipes
  <2>4. /\ Len(Frk!Code["parent"]) = 3 /\ Len(Frk!Code["child"]) = 4
        /\ Len(Frk!Code["thread"]) = 2
    BY <1>8, CodeIs
  <2> QED
    BY <2>2, <2>3, <2>4
<1>9. Placed
  BY <1>2, <1>3, <1>4, <1>5, <1>6, <1>7, <1>8 DEF ForkInv, ForkTypes
<1>10. \A p \in Frk!Procs : ip[p] \in 0 .. Len(Frk!Code[p]) + 1
  BY <1>9 DEF Frk!Procs, AtParent, AtChild, AtThread
<1>11. \A k \in Frk!Pipes : Len(pipes[k]) <= 1
  BY <1>9 DEF Frk!Pipes
<1> QED
  BY <1>1, <1>10, <1>11 DEF Frk!TypeOK
=============================================================================
