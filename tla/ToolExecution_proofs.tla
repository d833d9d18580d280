------------------------- MODULE ToolExecution_proofs -------------------------
(***************************************************************************)
(* Proofs about the tools at work, for any number of sessions and any      *)
(* calls the model may ask for.                                            *)
(***************************************************************************)
EXTENDS ToolExecution, WellFoundedInduction, TLAPS

-----------------------------------------------------------------------------
(* the inductive invariant *)

WritePhases == {"create", "write", "commit", "written", "exists", "stopped", "failed"}
ReadPhases == {"open", "read"}
CommandPhases ==
  {"wait", "term_cancelled", "term_timeout", "drain_exited", "drain_cancelled", "drain_timeout"}

PerSession(f) == f = [s \in Sessions |-> f[s]]

Shape ==
  /\ PerSession(phase) /\ PerSession(result) /\ PerSession(tree)
  /\ content = [i \in Inodes |-> content[i]]

\* A write that was committed is on its way out, and is whole; so is one that is
\* about to be.  Only writers have a temporary file, and those that could not remove it.
WriterInv(s) ==
  /\ phase[s] \in WritePhases => call[s].tool = "write_file"
  /\ phase[s] \in ReadPhases \cup CommandPhases => call[s].tool # "write_file"
  /\ s \in committed => phase[s] \in {"written", "returned"}
  /\ s \in committed \/ phase[s] = "commit" => content[s] = Len(Text(s))
  /\ phase[s] = "written" => s \in committed
  /\ phase[s] = "returned" /\ call[s].tool = "write_file"
       => (result[s].kind = "ok" <=> s \in committed)
  /\ s \in temporary => phase[s] \in WritePhases \/ s \in unremoved
  /\ file = s => s \in committed

\* Outside the phases of a command its session has neither an entry in the table
\* nor a process that holds its pipes and that a signal to the group would reach.
CommandInv(s) ==
  /\ s \in active => phase[s] \in CommandPhases
  /\ phase[s] \notin CommandPhases => \A p \in tree[s] : Holds(s, p) => ~Reached(s, p)

ToolInv == Shape /\ \A s \in Sessions : WriterInv(s) /\ CommandInv(s)

LEMMA InitHolds == Init => ToolInv
<1> SUFFICES ASSUME Init
             PROVE  ToolInv
  OBVIOUS
<1>1. Shape
  BY DEF Init, Shape, PerSession
<1>2. ASSUME NEW s \in Sessions
      PROVE  WriterInv(s) /\ CommandInv(s)
  BY InodeAssumption
     DEF Init, WriterInv, CommandInv, WritePhases, ReadPhases, CommandPhases, Absent
<1>3. QED
  BY <1>1, <1>2 DEF ToolInv

-----------------------------------------------------------------------------
(* What a step of one session leaves alone *)

\* Nothing of session t is touched; the name may pass to another inode, never to t's.
Untouched(t) ==
  /\ phase'[t] = phase[t] /\ result'[t] = result[t]
  /\ content'[t] = content[t] /\ tree'[t] = tree[t]
  /\ t \in committed' <=> t \in committed
  /\ t \in temporary' <=> t \in temporary
  /\ t \in unremoved' <=> t \in unremoved
  /\ t \in active' <=> t \in active
  /\ file' = t => file = t

LEMMA UntouchedHolds ==
  ASSUME NEW t \in Sessions, WriterInv(t), CommandInv(t), Untouched(t), UNCHANGED call
  PROVE  WriterInv(t)' /\ CommandInv(t)'
<1>1. /\ Text(t)' = Text(t)
      /\ \A p : Holds(t, p)' = Holds(t, p) /\ Reached(t, p)' = Reached(t, p)
  BY DEF Text, Holds, Reached
<1>2. WriterInv(t)'
  BY <1>1 DEF WriterInv, Untouched
<1>3. CommandInv(t)'
  BY <1>1 DEF CommandInv, Untouched
<1>4. QED
  BY <1>2, <1>3

\* What a step of session s has to show.
Settled(s) ==
  /\ Shape' /\ WriterInv(s)' /\ CommandInv(s)'
  /\ \A t \in Sessions \ {s} : Untouched(t)
  /\ UNCHANGED call

LEMMA SettledSuffices ==
  ASSUME ToolInv, NEW s \in Sessions, Settled(s)
  PROVE  ToolInv'
<1>1. ASSUME NEW t \in Sessions
      PROVE  WriterInv(t)' /\ CommandInv(t)'
  <2>1. CASE t = s
    BY <2>1 DEF Settled
  <2>2. CASE t # s
    BY <2>2, UntouchedHolds DEF Settled, ToolInv
  <2>3. QED
    BY <2>1, <2>2
<1>2. QED
  BY <1>1 DEF ToolInv, Settled

-----------------------------------------------------------------------------
(* The steps *)

LEMMA BeforeStep ==
  ASSUME ToolInv, NEW s \in Sessions,
         \/ Plan(s) \/ RefuseToStart(s)
         \/ \E approved \in BOOLEAN : Answer(s, approved)
  PROVE  Settled(s)
<1>1. Shape /\ WriterInv(s) /\ CommandInv(s)
  BY DEF ToolInv
<1>2. CASE Plan(s)
  BY <1>1, <1>2
     DEF Plan, Go, Return, disk, processes, Settled, Untouched, Shape, PerSession, WriterInv,
         CommandInv, WritePhases, ReadPhases, CommandPhases, Text, Holds, Reached
<1>3. CASE RefuseToStart(s)
  BY <1>1, <1>3
     DEF RefuseToStart, Return, disk, processes, Settled, Untouched, Shape, PerSession,
         WriterInv, CommandInv, WritePhases, ReadPhases, CommandPhases, Text, Holds, Reached
<1>4. ASSUME NEW approved \in BOOLEAN, Answer(s, approved)
      PROVE  Settled(s)
  BY <1>1, <1>4
     DEF Answer, Go, Return, disk, processes, Settled, Untouched, Shape, PerSession, WriterInv,
         CommandInv, WritePhases, ReadPhases, CommandPhases, Text, Holds, Reached
<1>5. QED
  BY <1>2, <1>3, <1>4

LEMMA WritingStep ==
  ASSUME ToolInv, NEW s \in Sessions, Writing(s)
  PROVE  Settled(s)
<1>1. Shape /\ WriterInv(s) /\ CommandInv(s)
  BY DEF ToolInv
<1>2. CASE WriteStarts(s)
  BY <1>1, <1>2, InodeAssumption
     DEF WriteStarts, Start, Go, Return, disk, processes, Settled, Untouched, Shape, PerSession, WriterInv, CommandInv,
         WritePhases, ReadPhases, CommandPhases, Text, Holds, Reached
<1>3. CASE CreateTemporary(s)
  BY <1>1, <1>3, InodeAssumption
     DEF CreateTemporary, Go, disk, processes, Settled, Untouched, Shape, PerSession, WriterInv, CommandInv,
         WritePhases, ReadPhases, CommandPhases, Text, Holds, Reached
<1>4. CASE WriteSome(s)
  BY <1>1, <1>4, InodeAssumption
     DEF WriteSome, Inodes, disk, processes, Settled, Untouched, Shape, PerSession, WriterInv, CommandInv,
         WritePhases, ReadPhases, CommandPhases, Text, Holds, Reached
<1>5. CASE Synced(s)
  BY <1>1, <1>5, InodeAssumption
     DEF Synced, Go, disk, processes, Settled, Untouched, Shape, PerSession, WriterInv, CommandInv,
         WritePhases, ReadPhases, CommandPhases, Text, Holds, Reached
<1>6. CASE Commit(s)
  BY <1>1, <1>6, InodeAssumption
     DEF Commit, Go, disk, processes, Settled, Untouched, Shape, PerSession, WriterInv, CommandInv,
         WritePhases, ReadPhases, CommandPhases, Text, Holds, Reached
<1>7. CASE StopWriting(s)
  BY <1>1, <1>7, InodeAssumption
     DEF StopWriting, Go, disk, processes, Settled, Untouched, Shape, PerSession, WriterInv, CommandInv,
         WritePhases, ReadPhases, CommandPhases, Text, Holds, Reached
<1>8. CASE DiskFails(s)
  BY <1>1, <1>8, InodeAssumption
     DEF DiskFails, Go, disk, processes, Settled, Untouched, Shape, PerSession, WriterInv, CommandInv,
         WritePhases, ReadPhases, CommandPhases, Text, Holds, Reached
<1>9. CASE WriteEnds(s)
  BY <1>1, <1>9, InodeAssumption
     DEF WriteEnds, Return, disk, processes, Settled, Untouched, Shape, PerSession, WriterInv, CommandInv,
         WritePhases, ReadPhases, CommandPhases, Text, Holds, Reached
<1>10. QED
  BY <1>2, <1>3, <1>4, <1>5, <1>6, <1>7, <1>8, <1>9 DEF Writing

LEMMA ReadingStep ==
  ASSUME ToolInv, NEW s \in Sessions, Reading(s)
  PROVE  Settled(s)
<1>1. Shape /\ WriterInv(s) /\ CommandInv(s)
  BY DEF ToolInv
<1>2. CASE ReadStarts(s)
  BY <1>1, <1>2, InodeAssumption
     DEF ReadStarts, Start, Go, Return, disk, processes, Settled, Untouched, Shape, PerSession, WriterInv, CommandInv,
         WritePhases, ReadPhases, CommandPhases, Text, Holds, Reached
<1>3. CASE Open(s)
  BY <1>1, <1>3, InodeAssumption
     DEF Open, Go, Return, disk, processes, Settled, Untouched, Shape, PerSession, WriterInv, CommandInv,
         WritePhases, ReadPhases, CommandPhases, Text, Holds, Reached
<1>4. CASE ReadSome(s)
  BY <1>1, <1>4, InodeAssumption
     DEF ReadSome, Return, disk, processes, Settled, Untouched, Shape, PerSession, WriterInv, CommandInv,
         WritePhases, ReadPhases, CommandPhases, Text, Holds, Reached
<1>5. CASE ReadEnds(s)
  BY <1>1, <1>5, InodeAssumption
     DEF ReadEnds, disk, processes, Settled, Untouched, Shape, PerSession, WriterInv, CommandInv,
         WritePhases, ReadPhases, CommandPhases, Text, Holds, Reached
<1>6. CASE StopReading(s)
  BY <1>1, <1>6, InodeAssumption
     DEF StopReading, Return, disk, processes, Settled, Untouched, Shape, PerSession, WriterInv, CommandInv,
         WritePhases, ReadPhases, CommandPhases, Text, Holds, Reached
<1>7. ASSUME NEW found \in BOOLEAN, SearchEnds(s, found)
      PROVE  Settled(s)
  BY <1>1, <1>7, InodeAssumption
     DEF SearchEnds, Start, Return, disk, processes, Settled, Untouched, Shape, PerSession, WriterInv, CommandInv,
         WritePhases, ReadPhases, CommandPhases, Text, Holds, Reached
<1>8. QED
  BY <1>2, <1>3, <1>4, <1>5, <1>6, <1>7 DEF Reading

LEMMA CommandingStep ==
  ASSUME ToolInv, NEW s \in Sessions, Commanding(s)
  PROVE  Settled(s)
<1>1. Shape /\ WriterInv(s) /\ CommandInv(s)
  BY DEF ToolInv
<1>2. CASE RefuseCommand(s)
  BY <1>1, <1>2, InodeAssumption
     DEF RefuseCommand, Start, Return, disk, processes, Settled, Untouched, Shape, PerSession, WriterInv, CommandInv,
         WritePhases, ReadPhases, CommandPhases, Text, Holds, Reached
<1>3. CASE Spawn(s)
  BY <1>1, <1>3, InodeAssumption
     DEF Spawn, Start, Go, disk, processes, Settled, Untouched, Shape, PerSession, WriterInv, CommandInv,
         WritePhases, ReadPhases, CommandPhases, Text, Holds, Reached
<1>4. CASE SpawnFails(s)
  BY <1>1, <1>4, InodeAssumption
     DEF SpawnFails, Start, Return, disk, processes, Settled, Untouched, Shape, PerSession, WriterInv, CommandInv,
         WritePhases, ReadPhases, CommandPhases, Text, Holds, Reached
<1>5. CASE ShellEnded(s)
  BY <1>1, <1>5, InodeAssumption
     DEF ShellEnded, Go, disk, processes, Settled, Untouched, Shape, PerSession, WriterInv, CommandInv,
         WritePhases, ReadPhases, CommandPhases, Text, Holds, Reached
<1>6. ASSUME NEW why \in {"cancelled", "timeout"}, Terminate(s, why)
      PROVE  Settled(s)
  BY <1>1, <1>6, InodeAssumption
     DEF Terminate, Go, disk, processes, Settled, Untouched, Shape, PerSession, WriterInv, CommandInv,
         WritePhases, ReadPhases, CommandPhases, Text, Holds, Reached, Survivors
<1>7. CASE GraceEnds(s)
  BY <1>1, <1>7, InodeAssumption
     DEF GraceEnds, Go, disk, processes, Settled, Untouched, Shape, PerSession, WriterInv, CommandInv,
         WritePhases, ReadPhases, CommandPhases, Text, Holds, Reached, Survivors
<1>8. CASE Drained(s)
  BY <1>1, <1>8, InodeAssumption
     DEF Drained, Draining, Finish, disk, processes, Settled, Untouched, Shape, PerSession, WriterInv, CommandInv,
         WritePhases, ReadPhases, CommandPhases, Text, Holds, Reached, Survivors
<1>9. CASE DrainTimesOut(s)
  BY <1>1, <1>9, InodeAssumption
     DEF DrainTimesOut, Draining, Finish, disk, processes, Settled, Untouched, Shape, PerSession, WriterInv, CommandInv,
         WritePhases, ReadPhases, CommandPhases, Text, Holds, Reached, Survivors
<1>10. QED
  BY <1>2, <1>3, <1>4, <1>5, <1>6, <1>7, <1>8, <1>9 DEF Commanding

LEMMA ExitStep ==
  ASSUME ToolInv, NEW s \in Sessions, NEW p, Exit(s, p)
  PROVE  Settled(s)
<1>1. Shape /\ WriterInv(s) /\ CommandInv(s)
  BY DEF ToolInv
<1>2. QED
  BY <1>1
     DEF Exit, disk, Settled, Untouched, Shape, PerSession, WriterInv, CommandInv, Text, Holds, Reached

\* The user touches what no tool owns.
LEMMA UserStep ==
  ASSUME ToolInv,
         \/ \E s \in Sessions : Cancel(s)
         \/ \E to \in {Absent} \cup UserFiles : Edit(to)
         \/ UNCHANGED vars
  PROVE  ToolInv'
<1>1. UNCHANGED <<call, phase, result, content, tree, committed, temporary, unremoved, active>>
  BY DEF Cancel, Edit, vars, disk, processes
<1>2. \A t \in Sessions : file' = t => file = t
  BY InodeAssumption DEF Cancel, Edit, vars, disk
<1>3. Shape'
  BY <1>1 DEF ToolInv, Shape, PerSession
<1>4. ASSUME NEW t \in Sessions
      PROVE  WriterInv(t)' /\ CommandInv(t)'
  <2>1. Untouched(t)
    BY <1>1, <1>2 DEF Untouched
  <2>2. QED
    BY <2>1, <1>1, UntouchedHolds DEF ToolInv
<1>5. QED
  BY <1>3, <1>4 DEF ToolInv

LEMMA WorkStep ==
  ASSUME ToolInv, NEW s \in Sessions, Work(s)
  PROVE  Settled(s)
  BY BeforeStep, WritingStep, ReadingStep, CommandingStep DEF Work

LEMMA StepHolds == ToolInv /\ [Next]_vars => ToolInv'
<1> SUFFICES ASSUME ToolInv, [Next]_vars
             PROVE  ToolInv'
  OBVIOUS
<1>1. ASSUME NEW s \in Sessions, Work(s)
      PROVE  ToolInv'
  BY <1>1, WorkStep, SettledSuffices
<1>2. ASSUME NEW s \in Sessions, NEW approved \in BOOLEAN, Answer(s, approved)
      PROVE  ToolInv'
  BY <1>2, BeforeStep, SettledSuffices
<1>3. ASSUME NEW s \in Sessions, NEW p \in {Shell, Descendant}, Exit(s, p)
      PROVE  ToolInv'
  BY <1>3, ExitStep, SettledSuffices
<1>4. ASSUME NEW s \in Sessions, Cancel(s)
      PROVE  ToolInv'
  BY <1>4, UserStep
<1>5. ASSUME NEW to \in {Absent} \cup UserFiles, Edit(to)
      PROVE  ToolInv'
  BY <1>5, UserStep
<1>6. CASE UNCHANGED vars
  BY <1>6, UserStep
<1>7. QED
  BY <1>1, <1>2, <1>3, <1>4, <1>5, <1>6 DEF Next

LEMMA Invariance == Spec => []ToolInv
<1>1. ToolInv /\ [Next]_vars => ToolInv'
  BY StepHolds
<1>2. QED
  BY InitHolds, <1>1, PTL DEF Spec

-----------------------------------------------------------------------------
(* What the tools show *)

\* Every nonempty set of numbers has a least one.
LEMMA Least ==
  ASSUME NEW T, T \subseteq Nat, T # {}
  PROVE  \E x \in T : \A y \in T : x <= y
<1>1. \E x \in T : \A y \in T : ~(<<y, x>> \in OpToRel(<, Nat))
  BY NatLessThanWellFounded, WFMin
<1>2. PICK x \in T : \A y \in T : ~(<<y, x>> \in OpToRel(<, Nat))
  BY <1>1
<1>3. \A y \in T : ~(y < x)
  BY <1>2 DEF OpToRel
<1>4. QED
  BY <1>3

LEMMA MinMax ==
  ASSUME NEW a \in Int, NEW b \in Int
  PROVE  /\ Min({a, b}) = IF a <= b THEN a ELSE b
         /\ Max({a, b}) = IF a <= b THEN b ELSE a
<1>1. ASSUME NEW x \in {a, b}, \A y \in {a, b} : x <= y
      PROVE  Min({a, b}) = x
  BY <1>1 DEF Min
<1>2. ASSUME NEW x \in {a, b}, \A y \in {a, b} : x >= y
      PROVE  Max({a, b}) = x
  BY <1>2 DEF Max
<1>3. CASE a <= b
  BY <1>1, <1>2, <1>3
<1>4. CASE ~(a <= b)
  BY <1>1, <1>2, <1>4
<1>5. QED
  BY <1>3, <1>4

\* How far the first i lines reach, given how far those before reach.
Reach(page, f, i) == IF i = 0 THEN 0 ELSE f[i - 1] + page[i] + (IF i = 1 THEN 0 ELSE 1)

\* The lengths of all beginnings of a page exist.
LEMMA LengthsExist ==
  ASSUME NEW page \in Seq(Nat)
  PROVE  \E f \in [0 .. Len(page) -> Nat] : f = [i \in 0 .. Len(page) |-> Reach(page, f, i)]
<1> DEFINE n == Len(page)
           Good(m, g) == g \in [0 .. m -> Nat] /\ \A i \in 0 .. m : g[i] = Reach(page, g, i)
           Bad == {m \in 0 .. n : ~\E g : Good(m, g)}
<1>1. n \in Nat /\ \A i \in 1 .. n : page[i] \in Nat
  OBVIOUS
<1> HIDE DEF n
<1>2. Good(0, [i \in 0 .. 0 |-> 0])
  BY DEF Reach
<1>3. ASSUME NEW m \in Nat, m + 1 \in 0 .. n, NEW g, Good(m, g)
      PROVE  \E h : Good(m + 1, h)
  <2> DEFINE h == [i \in 0 .. m + 1 |-> IF i <= m THEN g[i] ELSE Reach(page, g, m + 1)]
  <2>1. Reach(page, g, m + 1) \in Nat
    BY <1>1, <1>3 DEF Reach
  <2>2. h \in [0 .. m + 1 -> Nat]
    BY <1>3, <2>1
  <2>3. \A i \in 0 .. m : h[i] = g[i]
    BY <1>3
  <2>4. h[m + 1] = Reach(page, g, m + 1)
    BY <1>3
  <2> HIDE DEF h
  <2>5. ASSUME NEW i \in 0 .. m + 1
        PROVE  h[i] = Reach(page, h, i)
    <3>1. Reach(page, h, i) = Reach(page, g, i)
      <4>1. i # 0 => i - 1 \in 0 .. m
        BY <1>3
      <4>2. QED
        BY <2>3, <4>1 DEF Reach
    <3>2. CASE i = m + 1
      BY <2>4, <3>1, <3>2
    <3>3. CASE i \in 0 .. m
      BY <1>3, <2>3, <3>1, <3>3
    <3>4. QED
      BY <1>3, <3>2, <3>3
  <2>6. QED
    BY <2>2, <2>5
<1> HIDE DEF Good
<1>4. Bad = {}
  <2> SUFFICES ASSUME Bad # {}
               PROVE  FALSE
    OBVIOUS
  <2>0. Bad \subseteq Nat
    BY <1>1
  <2>1. PICK x \in Bad : \A y \in Bad : x <= y
    <3> HIDE DEF Bad
    <3>1. QED
      BY <2>0, Least
  <2>2. x \in 0 .. n /\ x # 0 /\ x \in Nat
    BY <1>1, <1>2
  <2>3. x - 1 \in Nat /\ x - 1 \in 0 .. n /\ (x - 1) + 1 = x /\ x - 1 \notin Bad
    BY <1>1, <2>1, <2>2
  <2>4. PICK g : Good(x - 1, g)
    BY <2>3
  <2>5. \E h : Good((x - 1) + 1, h)
    BY <1>3, <2>2, <2>3, <2>4
  <2>6. QED
    BY <2>1, <2>3, <2>5
<1>5. PICK g : Good(n, g)
  <2>1. n \in 0 .. n
    BY <1>1
  <2>2. n \notin Bad
    <3> HIDE DEF Bad
    <3>1. QED
      BY <1>4
  <2>3. QED
    BY <2>1, <2>2
<1>6. g \in [0 .. n -> Nat] /\ g = [i \in 0 .. n |-> Reach(page, g, i)]
  BY <1>5 DEF Good
<1>7. QED
  BY <1>6 DEF n

LEMMA JoinedTyped ==
  ASSUME NEW page \in Seq(Nat), NEW k \in 0 .. Len(page)
  PROVE  Joined(page, k) \in Nat /\ Joined(page, 0) = 0
<1> DEFINE n == Len(page)
           IsLength(f) == f = [i \in 0 .. n |-> Reach(page, f, i)]
           length == CHOOSE f : IsLength(f)
<1>1. n \in Nat /\ \A i \in 1 .. n : page[i] \in Nat
  OBVIOUS
<1>2. \A j : Joined(page, j) = length[j]
  BY DEF Joined, Reach
<1>3. IsLength(length)
  BY LengthsExist
<1>4. DOMAIN length = 0 .. n /\ \A i \in 0 .. n : length[i] = Reach(page, length, i)
  BY <1>3
<1> HIDE DEF n, length, IsLength
<1> DEFINE Bad == {i \in 0 .. n : length[i] \notin Nat}
<1>5. Bad = {}
  <2> SUFFICES ASSUME Bad # {}
               PROVE  FALSE
    OBVIOUS
  <2>0. Bad \subseteq Nat
    BY <1>1
  <2>1. PICK x \in Bad : \A y \in Bad : x <= y
    <3> HIDE DEF Bad
    <3>1. QED
      BY <2>0, Least
  <2>2. x \in 0 .. n /\ length[x] \notin Nat
    BY <2>1
  <2>3. CASE x = 0
    BY <1>4, <2>2, <2>3 DEF Reach
  <2>4. CASE x # 0
    <3>1. x - 1 \in 0 .. n /\ x \in 1 .. n /\ ~(x <= x - 1)
      BY <1>1, <2>2, <2>4
    <3>2. length[x - 1] \in Nat
      BY <2>1, <3>1
    <3>3. length[x] = length[x - 1] + page[x] + (IF x = 1 THEN 0 ELSE 1)
      BY <1>4, <2>2, <2>4 DEF Reach
    <3>4. QED
      BY <1>1, <2>2, <3>1, <3>2, <3>3
  <2>5. QED
    BY <2>3, <2>4
<1>6. length[0] = 0
  <2>1. 0 \in 0 .. n
    BY <1>1
  <2>2. QED
    BY <1>4, <2>1 DEF Reach
<1>7. QED
  BY <1>2, <1>5, <1>6 DEF n

\* A page is cut at a line or told apart from a whole one, and always fits.
LEMMA TruncateHonest ==
  ASSUME NEW page \in Seq(Nat)
  PROVE  LET r == TruncateAtLine(page)
         IN  /\ r.length <= MaxOutput
             /\ r.truncated \/ (r.lines = Len(page) /\ r.length = Joined(page, Len(page)))
<1> DEFINE n == Len(page)
           all == Joined(page, n)
           budget == MaxOutput - Marker
           fits == {k \in 0 .. n : Joined(page, k) <= budget}
           kept == CHOOSE k \in fits : \A j \in fits : j <= k
<1>1. n \in Nat /\ all \in Nat /\ MaxOutput \in Nat /\ Marker \in Nat /\ budget \in Int
      /\ \A k \in 0 .. n : Joined(page, k) \in Nat
  BY JoinedTyped, OutputAssumption
<1>2. Joined(page, 0) = 0
  BY JoinedTyped, <1>1
<1>3. TruncateAtLine(page) =
        IF all <= MaxOutput
        THEN [lines |-> n, length |-> all, truncated |-> FALSE]
        ELSE IF MaxOutput <= Marker
        THEN [lines |-> 0, length |-> MaxOutput, truncated |-> TRUE]
        ELSE [lines |-> kept,
              length |-> Marker + (IF kept = 0 THEN Min({all, budget}) ELSE Joined(page, kept)),
              truncated |-> TRUE]
  BY DEF TruncateAtLine
<1>4. ASSUME MaxOutput > Marker
      PROVE  kept \in 0 .. n /\ Joined(page, kept) <= budget
  <2> DEFINE below == {n - k : k \in fits}
  <2>1. 0 \in fits
    BY <1>1, <1>2, <1>4
  <2>2. fits \subseteq 0 .. n
    OBVIOUS
  <2> HIDE DEF fits, n
  <2>3. below \subseteq Nat /\ below # {}
    BY <1>1, <2>1, <2>2
  <2>4. PICK x \in below : \A y \in below : x <= y
    BY <2>3, Least
  <2>5. PICK k \in fits : x = n - k
    BY <2>4
  <2>6. ASSUME NEW j \in fits
        PROVE  j <= k
    <3>1. n - j \in below /\ x <= n - j
      BY <2>4
    <3>2. QED
      BY <1>1, <2>2, <2>5, <3>1
  <2>7. kept \in fits
    BY <2>5, <2>6
  <2>8. QED
    BY <2>7 DEF fits
<1>5. Min({all, budget}) = IF all <= budget THEN all ELSE budget
  BY <1>1, MinMax
<1> HIDE DEF kept, fits, all, n
<1>6. CASE all <= MaxOutput
  BY <1>3, <1>6 DEF n, all
<1>7. CASE ~(all <= MaxOutput) /\ MaxOutput <= Marker
  BY <1>1, <1>3, <1>7
<1>8. CASE ~(all <= MaxOutput) /\ ~(MaxOutput <= Marker)
  <2>1. kept \in 0 .. n /\ Joined(page, kept) <= budget /\ Joined(page, kept) \in Nat
    BY <1>1, <1>4, <1>8
  <2> DEFINE piece == IF kept = 0 THEN Min({all, budget}) ELSE Joined(page, kept)
  <2>2. piece \in Int /\ piece <= budget
    BY <1>1, <1>5, <2>1
  <2>3. TruncateAtLine(page) = [lines |-> kept, length |-> Marker + piece, truncated |-> TRUE]
    BY <1>3, <1>8
  <2> HIDE DEF piece
  <2>4. Marker + piece <= MaxOutput
    BY <1>1, <2>2
  <2>5. QED
    BY <2>3, <2>4
<1>9. QED
  BY <1>6, <1>7, <1>8

LEMMA ReadPageHonest ==
  ASSUME NEW lines \in Seq(Nat), NEW request, {request.offset, request.limit} \subseteq Nat
  PROVE  LET r == ReadPage(lines, request)
             asked == Asked(lines, Normalized(request))
         IN  /\ r.length <= MaxOutput
             /\ ~r.truncated =>
                  /\ r.lines = Len(asked)
                  /\ (\A i \in DOMAIN asked : asked[i] <= MaxLine)
                       => r.length = Joined(Numbered(asked), Len(asked))
<1> DEFINE norm  == Normalized(request)
           page  == FormatPage(lines, norm)
           asked == Asked(lines, norm)
           from  == norm.offset - 1
           rest  == Len(lines) - from
           count == Max({0, Min({norm.limit, rest})})
<1>1. norm.offset \in Nat \ {0} /\ norm.limit \in Nat \ {0}
  <2>1. /\ norm.offset = Max({request.offset, 1})
        /\ norm.limit = Min({Max({request.limit, 1}), MaxLines})
    BY DEF Normalized
  <2>2. MaxLines \in Nat \ {0} /\ request.offset \in Nat /\ request.limit \in Nat
    BY OutputAssumption
  <2>3. norm.offset = IF request.offset <= 1 THEN 1 ELSE request.offset
    <3> DEFINE o == request.offset
    <3>1. o \in Int /\ norm.offset = Max({o, 1})
      BY <2>1, <2>2
    <3> HIDE DEF o
    <3>2. Max({o, 1}) = IF o <= 1 THEN 1 ELSE o
      <4>1. 1 \in Int
        OBVIOUS
      <4>2. QED
        BY <3>1, <4>1, MinMax, Zenon
    <3>3. QED
      BY <3>1, <3>2 DEF o
  <2> DEFINE l == Max({request.limit, 1})
  <2>4. l = IF request.limit <= 1 THEN 1 ELSE request.limit
    <3> DEFINE o == request.limit
    <3>1. o \in Int
      BY <2>2
    <3> HIDE DEF o
    <3>2. Max({o, 1}) = IF o <= 1 THEN 1 ELSE o
      <4>1. 1 \in Int
        OBVIOUS
      <4>2. QED
        BY <3>1, <4>1, MinMax, Zenon
    <3>3. QED
      BY <3>2 DEF o
  <2> HIDE DEF l
  <2>5. l \in Nat \ {0}
    BY <2>2, <2>4
  <2>6. Min({l, MaxLines}) = IF l <= MaxLines THEN l ELSE MaxLines
    BY <2>2, <2>5, MinMax
  <2>7. QED
    BY <2>1, <2>2, <2>3, <2>5, <2>6 DEF l
<1>2. asked = [i \in 1 .. count |-> lines[from + i]]
  BY DEF Asked
<1> DEFINE cut == [i \in DOMAIN asked |-> Min({asked[i], MaxLine})]
<1>2a. page = Numbered(cut)
  BY DEF FormatPage
<1> HIDE DEF norm, page, asked
<1>3. from \in Nat /\ Len(lines) \in Nat /\ rest \in Int /\ MaxLine \in Nat
  BY <1>1, OutputAssumption
<1> HIDE DEF from
<1>4. count \in Nat /\ (count > 0 => count <= rest)
  <2> DEFINE m == Min({norm.limit, rest})
  <2>1. m = IF norm.limit <= rest THEN norm.limit ELSE rest
    BY <1>1, <1>3, MinMax
  <2> HIDE DEF m, rest
  <2>2. m \in Int /\ m <= rest
    BY <1>1, <1>3, <2>1
  <2>3. Max({0, m}) = IF 0 <= m THEN m ELSE 0
    <3> HIDE DEF m
    <3>1. 0 \in Int
      OBVIOUS
    <3>2. QED
      BY <2>2, <3>1, MinMax, Zenon
  <2>4. QED
    BY <1>3, <2>2, <2>3 DEF m
<1> HIDE DEF count
<1>5. ASSUME NEW i \in 1 .. count
      PROVE  asked[i] \in Nat
  <2>1. from + i \in 1 .. Len(lines)
    BY <1>3, <1>4
  <2>2. QED
    BY <1>2, <2>1
<1>6. asked \in Seq(Nat) /\ DOMAIN asked = 1 .. count /\ Len(asked) = count
  BY <1>2, <1>4, <1>5
<1>7. ASSUME NEW i \in DOMAIN asked
      PROVE  Min({asked[i], MaxLine}) = IF asked[i] <= MaxLine THEN asked[i] ELSE MaxLine
  <2> DEFINE l == asked[i]
  <2>1. l \in Int /\ MaxLine \in Int
    BY <1>3, <1>6
  <2> HIDE DEF l
  <2>2. Min({l, MaxLine}) = IF l <= MaxLine THEN l ELSE MaxLine
    BY <2>1, MinMax, Zenon
  <2>3. QED
    BY <2>2 DEF l
<1>8. cut \in Seq(Nat) /\ DOMAIN cut = 1 .. count /\ Len(cut) = count
  <2> DEFINE c(i) == Min({asked[i], MaxLine})
  <2>1. \A i \in 1 .. count : c(i) \in Nat
    BY <1>3, <1>5, <1>6, <1>7
  <2>2. cut = [i \in 1 .. count |-> c(i)]
    BY <1>6
  <2> HIDE DEF c, cut
  <2>3. QED
    BY <1>4, <2>1, <2>2
<1>9. (\A i \in DOMAIN asked : asked[i] <= MaxLine) => cut = asked
  BY <1>6, <1>7
<1> HIDE DEF cut
<1>10. page \in Seq(Nat) /\ Len(page) = count
  <2> DEFINE p(i) == 2 + cut[i]
  <2>1. \A i \in 1 .. count : p(i) \in Nat
    BY <1>8
  <2>2. page = [i \in 1 .. count |-> p(i)]
    BY <1>2a, <1>8 DEF Numbered
  <2> HIDE DEF p
  <2>3. QED
    BY <1>4, <2>1, <2>2
<1>11. ReadPage(lines, request) = TruncateAtLine(page)
  BY DEF ReadPage, page, norm
<1> DEFINE r == TruncateAtLine(page)
<1>12. r.length <= MaxOutput /\ (r.truncated \/ (r.lines = Len(page) /\ r.length = Joined(page, Len(page))))
  BY <1>10, TruncateHonest
<1> HIDE DEF r
<1>13. (\A i \in DOMAIN asked : asked[i] <= MaxLine) => page = Numbered(asked)
  BY <1>2a, <1>9
<1>14. QED
  <2>1. Asked(lines, Normalized(request)) = asked
    BY DEF asked, norm
  <2>2. ReadPage(lines, request) = r
    BY <1>11 DEF r
  <2>3. QED
    BY <1>6, <1>10, <1>12, <1>13, <2>1, <2>2

\* A pipe that was not cut was read whole.
LEMMA BoundedHonest ==
  ASSUME NEW bytes \in Nat, NEW width \in Nat \ {0}, NEW limit \in Nat
  PROVE  LET r == ReadBounded(bytes, width, limit)
         IN  /\ r.length \in Nat /\ bytes \div width \in Nat
             /\ r.truncated \in BOOLEAN
             /\ r.truncated \/ r.length = bytes \div width
<1> DEFINE kept == Min({bytes, 4 * limit})
           characters == kept \div width
<1>1. kept = IF bytes <= 4 * limit THEN bytes ELSE 4 * limit
  BY MinMax
<1> HIDE DEF kept
<1>2. kept \in Nat
  BY <1>1
<1>3. \A n \in Nat : n \div width \in Nat
  OBVIOUS
<1>4. characters \in Nat /\ bytes \div width \in Nat
  BY <1>2, <1>3
<1>5. ReadBounded(bytes, width, limit) =
        [length |-> Min({characters, limit}),
         truncated |-> bytes > 4 * limit \/ characters > limit]
  BY DEF ReadBounded, kept
<1> DEFINE whole == bytes \div width
<1>6. bytes <= 4 * limit => characters = whole
  BY <1>1
<1> HIDE DEF characters, whole
<1>7. Min({characters, limit}) = IF characters <= limit THEN characters ELSE limit
  BY <1>4, MinMax
<1> DEFINE r == ReadBounded(bytes, width, limit)
<1>8. r.length = Min({characters, limit}) /\ r.truncated = (bytes > 4 * limit \/ characters > limit)
  BY <1>5
<1> HIDE DEF r
<1>9. r.length \in Nat /\ r.truncated \in BOOLEAN
  BY <1>4, <1>7, <1>8
<1>10. r.truncated \/ r.length = whole
  <2>1. CASE bytes > 4 * limit \/ characters > limit
    BY <1>8, <2>1
  <2>2. CASE ~(bytes > 4 * limit) /\ ~(characters > limit)
    <3>1. bytes <= 4 * limit /\ characters <= limit
      BY <1>4, <2>2
    <3>2. QED
      BY <1>6, <1>7, <1>8, <3>1
  <2>3. QED
    BY <2>1, <2>2
<1>11. QED
  BY <1>4, <1>9, <1>10 DEF whole, r

LEMMA ShownHonest ==
  ASSUME NEW c, {c.out, c.err, c.limit} \subseteq Nat, c.width \in Nat \ {0}
  PROVE  LET r == Shown(c)
         IN  /\ r.length <= c.limit
             /\ r.truncated \/ r.length = CombineOutput(c.out \div c.width, c.err \div c.width)
<1> DEFINE out == ReadBounded(c.out, c.width, c.limit)
           err == ReadBounded(c.err, c.width, c.limit)
           length == CombineOutput(out.length, err.length)
           whole == LimitContent(length, c.limit)
           all == CombineOutput(c.out \div c.width, c.err \div c.width)
<1>1. /\ out.length \in Nat /\ err.length \in Nat
      /\ out.truncated \in BOOLEAN /\ err.truncated \in BOOLEAN
      /\ ~out.truncated => out.length = c.out \div c.width
      /\ ~err.truncated => err.length = c.err \div c.width
      /\ c.limit \in Nat
  BY BoundedHonest
<1>2. Shown(c) = [whole EXCEPT !.truncated = @ \/ out.truncated \/ err.truncated]
  BY DEF Shown
<1>3. ~out.truncated /\ ~err.truncated => length = all
  BY <1>1
<1> HIDE DEF out, err
<1>4. length \in Nat
  BY <1>1, OutputAssumption DEF CombineOutput
<1> HIDE DEF length, all
<1>5. /\ whole = [length |-> whole.length, truncated |-> whole.truncated]
      /\ whole.length <= c.limit /\ whole.truncated \in BOOLEAN
      /\ ~whole.truncated => whole.length = length
  <2>1. Marker \in Nat
    BY OutputAssumption
  <2>2. CASE length <= c.limit
    BY <1>1, <1>4, <2>2 DEF LimitContent
  <2>3. CASE ~(length <= c.limit) /\ c.limit <= Marker
    BY <1>1, <1>4, <2>1, <2>3 DEF LimitContent
  <2>4. CASE ~(length <= c.limit) /\ ~(c.limit <= Marker)
    <3>1. whole = [length |-> (c.limit - Marker) + Marker, truncated |-> TRUE]
      BY <2>4 DEF LimitContent
    <3>2. (c.limit - Marker) + Marker = c.limit
      BY <1>1, <2>1
    <3>3. QED
      BY <1>1, <3>1, <3>2
  <2>5. QED
    BY <2>2, <2>3, <2>4
<1> HIDE DEF whole
<1>6. /\ Shown(c).length = whole.length
      /\ Shown(c).truncated = (whole.truncated \/ out.truncated \/ err.truncated)
  BY <1>2, <1>5
<1>7. QED
  BY <1>1, <1>3, <1>5, <1>6 DEF all

-----------------------------------------------------------------------------
(* What a call has read and shown *)

\* A reader holds an inode that is complete, a user's or a committed one, and has read
\* no more of it than it may.
ReaderInv(s) ==
  /\ phase[s] \in ReadPhases => call[s].tool = "read_file"
  /\ phase[s] \in CommandPhases => call[s].tool = "terminal"
  /\ s \in committed => call[s].tool = "write_file"
  /\ phase[s] = "read" =>
       /\ DOMAIN got[s] = {"inode", "lines"}
       /\ got[s].inode \in UserFiles \cup committed /\ got[s].lines \in 0 .. MaxBytes
  /\ PageIsComplete(s) /\ OutputIsComplete(s)

Sources ==
  /\ call \in [Sessions -> Requests]
  /\ file \in {Absent} \cup Inodes /\ committed \subseteq Sessions
  /\ \A i \in UserFiles : content[i] = Len(UserLines[i])
  /\ PerSession(got)

HonestInv == Sources /\ \A s \in Sessions : ReaderInv(s)

LEMMA InitHonest == Init => HonestInv
<1> SUFFICES ASSUME Init
             PROVE  HonestInv
  OBVIOUS
<1>1. Sources
  BY InodeAssumption DEF Init, Sources, Inodes, PerSession
<1>2. ASSUME NEW s \in Sessions
      PROVE  ReaderInv(s)
  <2>1. phase[s] = "planning" /\ committed = {} /\ DOMAIN result[s] = {"kind"}
    BY DEF Init, NoResult
  <2>2. QED
    BY <2>1
       DEF ReaderInv, PageIsComplete, OutputIsComplete, Returned, ReadPhases, CommandPhases
<1>3. QED
  BY <1>1, <1>2 DEF HonestInv

LEMMA ReaderStays ==
  ASSUME NEW t, ReaderInv(t), UNCHANGED call, phase'[t] = phase[t], result'[t] = result[t],
         got'[t] = got[t], committed \subseteq committed', t \in committed' => t \in committed
  PROVE  ReaderInv(t)'
<1>1. \A i : Text(i)' = Text(i)
  BY DEF Text
<1>2. PageIsComplete(t)' /\ OutputIsComplete(t)'
  BY <1>1 DEF ReaderInv, PageIsComplete, OutputIsComplete, Returned
<1>3. QED
  BY <1>2 DEF ReaderInv

\* A step that neither reads nor ends a read or a command well.
Plain(s) ==
  /\ UNCHANGED <<call, got>> /\ committed \subseteq committed'
  /\ s \in committed' => s \in committed \/ call[s].tool = "write_file"
  /\ phase'[s] \in ReadPhases => phase'[s] = "open" /\ call[s].tool = "read_file"
  /\ phase'[s] \in CommandPhases => call[s].tool = "terminal"
  /\ \/ result'[s] = result[s] /\ phase'[s] # "returned"
     \/ /\ DOMAIN result'[s] = {"kind"}
        /\ result'[s].kind = "ok" => call[s].tool # "read_file"

LEMMA PlainHonest ==
  ASSUME NEW s \in Sessions, ReaderInv(s), Plain(s)
  PROVE  ReaderInv(s)'
<1>1. OutputIsComplete(s)'
  BY DEF ReaderInv, OutputIsComplete, Plain
<1>2. PageIsComplete(s)'
  BY DEF PageIsComplete, Returned, Plain
<1>3. QED
  BY <1>1, <1>2 DEF ReaderInv, Plain, ReadPhases

LEMMA BeforePlain ==
  ASSUME ToolInv, HonestInv, NEW s \in Sessions,
         \/ Plan(s) \/ RefuseToStart(s)
         \/ \E approved \in BOOLEAN : Answer(s, approved)
  PROVE  Plain(s) /\ UNCHANGED <<file, content, committed>>
<1>1. Shape /\ ReaderInv(s)
  BY DEF ToolInv, HonestInv
<1>2. CASE Plan(s)
  BY <1>1, <1>2
     DEF Plan, Go, Return, disk, Plain, Shape, PerSession, ReadPhases, CommandPhases
<1>3. CASE RefuseToStart(s)
  BY <1>1, <1>3
     DEF RefuseToStart, Return, disk, Plain, Shape, PerSession, ReadPhases, CommandPhases
<1>4. ASSUME NEW approved \in BOOLEAN, Answer(s, approved)
      PROVE  Plain(s) /\ UNCHANGED <<file, content, committed>>
  BY <1>1, <1>4
     DEF Answer, Go, Return, disk, Plain, Shape, PerSession, ReadPhases, CommandPhases
<1>5. QED
  BY <1>2, <1>3, <1>4

\* What a step leaves of the sources of a read.
Kept(s) ==
  /\ file' \in {file, s} /\ committed' \subseteq committed \cup {s}
  /\ \A i \in UserFiles : content'[i] = content[i]

LEMMA WritingPlain ==
  ASSUME ToolInv, HonestInv, NEW s \in Sessions, Writing(s)
  PROVE  Plain(s) /\ Kept(s)
<1>1. Shape /\ ReaderInv(s) /\ WriterInv(s)
  BY DEF ToolInv, HonestInv
<1>2. CASE WriteStarts(s)
  BY <1>1, <1>2
     DEF WriteStarts, Start, Go, Return, disk, Plain, Kept, Shape, PerSession, ReadPhases, CommandPhases
<1>3. CASE CreateTemporary(s)
  BY <1>1, <1>3
     DEF CreateTemporary, Go, Plain, Kept, Shape, PerSession, ReadPhases, CommandPhases
<1>4. CASE WriteSome(s)
  <2>1. \A i \in UserFiles : content'[i] = content[i]
    BY <1>1, <1>4, InodeAssumption DEF WriteSome, Shape, Inodes
  <2>2. QED
    BY <1>1, <1>4, <2>1 DEF WriteSome, Plain, Kept, ReadPhases, CommandPhases
<1>5. CASE Synced(s) \/ StopWriting(s) \/ DiskFails(s)
  BY <1>1, <1>5
     DEF Synced, StopWriting, DiskFails, Go, disk, Plain, Kept, Shape, PerSession, ReadPhases,
         CommandPhases
<1>6. CASE Commit(s)
  BY <1>1, <1>6
     DEF Commit, Go, Plain, Kept, Shape, PerSession, ReadPhases, CommandPhases, WriterInv,
         WritePhases
<1>7. CASE WriteEnds(s)
  BY <1>1, <1>7
     DEF WriteEnds, Return, Plain, Kept, Shape, PerSession, ReadPhases, CommandPhases, WriterInv,
         WritePhases
<1>8. QED
  BY <1>2, <1>3, <1>4, <1>5, <1>6, <1>7 DEF Writing

LEMMA CommandingHonest ==
  ASSUME ToolInv, HonestInv, NEW s \in Sessions, Commanding(s)
  PROVE  /\ ReaderInv(s)' /\ UNCHANGED <<call, got, file, content, committed>>
         /\ \A t \in Sessions \ {s} : phase'[t] = phase[t] /\ result'[t] = result[t]
<1>1. Shape /\ ReaderInv(s) /\ call[s] \in Requests
  BY DEF ToolInv, HonestInv, Sources
<1>2. CASE RefuseCommand(s) \/ Spawn(s) \/ SpawnFails(s)
  <2>1. Plain(s)
    BY <1>1, <1>2
       DEF RefuseCommand, Spawn, SpawnFails, Start, Go, Return, disk, Plain, Shape, PerSession,
           ReadPhases, CommandPhases
  <2>2. QED
    BY <1>1, <1>2, <2>1, PlainHonest
       DEF RefuseCommand, Spawn, SpawnFails, Go, Return, disk, Shape, PerSession
<1>3. CASE ShellEnded(s) \/ GraceEnds(s) \/ \E why \in {"cancelled", "timeout"} : Terminate(s, why)
  <2>1. Plain(s)
    BY <1>1, <1>3
       DEF ShellEnded, GraceEnds, Terminate, Go, disk, Plain, Shape, PerSession, ReadPhases,
           CommandPhases, ReaderInv
  <2>2. QED
    BY <1>1, <1>3, <2>1, PlainHonest DEF ShellEnded, GraceEnds, Terminate, Go, disk, Shape, PerSession
<1>4. CASE Drained(s) \/ DrainTimesOut(s)
  <2>1. /\ Draining(s) /\ UNCHANGED <<call, got, file, content, committed>>
        /\ \/ Finish(s, Shown(call[s]))
           \/ Finish(s, [length |-> 0, truncated |-> TRUE])
    BY <1>4 DEF Drained, DrainTimesOut, disk
  <2>2. call[s].tool = "terminal"
    BY <1>1, <2>1 DEF Draining, ReaderInv, CommandPhases
  <2>3. {call[s].out, call[s].err, call[s].limit} \subseteq Nat /\ call[s].width \in Nat \ {0}
    BY <1>1, <2>2, RequestAssumption
  <2>4. PICK shown : /\ Finish(s, shown) /\ shown.length <= call[s].limit
                     /\ \/ shown.truncated
                        \/ shown.length = CombineOutput(call[s].out \div call[s].width,
                                                        call[s].err \div call[s].width)
    <3>1. CASE Finish(s, Shown(call[s]))
      BY <2>3, <3>1, ShownHonest
    <3>2. CASE Finish(s, [length |-> 0, truncated |-> TRUE])
      <4> DEFINE none == [length |-> 0, truncated |-> TRUE]
      <4>1. none.length <= call[s].limit /\ none.truncated /\ Finish(s, none)
        BY <2>3, <3>2
      <4> HIDE DEF none
      <4>2. QED
        BY <4>1
    <3>3. QED
      BY <2>1, <3>1, <3>2
  <2>5. /\ phase'[s] = "returned" /\ result'[s] = [kind |-> Kind(s), shown |-> shown]
        /\ \A t \in Sessions \ {s} : phase'[t] = phase[t] /\ result'[t] = result[t]
    BY <1>1, <2>4 DEF Finish, Shape, PerSession
  <2>6. OutputIsComplete(s)'
    BY <2>1, <2>4, <2>5 DEF OutputIsComplete
  <2>7. PageIsComplete(s)'
    BY <2>1, <2>2 DEF PageIsComplete
  <2>8. QED
    BY <1>1, <2>1, <2>5, <2>6, <2>7 DEF ReaderInv, ReadPhases, CommandPhases
<1>5. QED
  BY <1>2, <1>3, <1>4 DEF Commanding

\* What a complete inode holds.
LEMMA CompleteText ==
  ASSUME ToolInv, HonestInv, NEW i \in UserFiles \cup committed
  PROVE  Text(i) \in Seq(Nat) /\ content[i] = Len(Text(i))
<1>1. CASE i \in UserFiles
  BY <1>1, RequestAssumption DEF Text, HonestInv, Sources
<1>2. CASE i \in committed
  <2>1. i \in Sessions /\ i \notin UserFiles /\ call[i].tool = "write_file" /\ call[i] \in Requests
    BY <1>2, InodeAssumption DEF HonestInv, Sources, ReaderInv
  <2>2. QED
    BY <1>2, <2>1, RequestAssumption DEF Text, ToolInv, WriterInv
<1>3. QED
  BY <1>1, <1>2

LEMMA ReadingHonest ==
  ASSUME ToolInv, HonestInv, NEW s \in Sessions, Reading(s)
  PROVE  /\ ReaderInv(s)' /\ UNCHANGED <<call, file, content, committed>>
         /\ \A t \in Sessions \ {s} :
              phase'[t] = phase[t] /\ result'[t] = result[t] /\ got'[t] = got[t]
         /\ PerSession(got)'
<1>1. Shape /\ ReaderInv(s) /\ PerSession(got) /\ call[s] \in Requests /\ MaxBytes \in Nat \ {0}
  BY ToolAssumption DEF ToolInv, HonestInv, Sources
<1>2. CASE \/ ReadStarts(s) \/ StopReading(s)
           \/ \E found \in BOOLEAN : SearchEnds(s, found)
  <2>1. Plain(s)
    BY <1>1, <1>2
       DEF ReadStarts, StopReading, SearchEnds, Start, Go, Return, disk, Plain, Shape, PerSession,
           ReadPhases, CommandPhases
  <2>2. QED
    BY <1>1, <1>2, <2>1, PlainHonest
       DEF ReadStarts, StopReading, SearchEnds, Go, Return, disk, Shape, PerSession
<1>3. CASE Open(s) /\ file = Absent
  <2>1. Plain(s)
    BY <1>1, <1>3
       DEF Open, Return, disk, Plain, Shape, PerSession, ReadPhases, CommandPhases
  <2>2. QED
    BY <1>1, <1>3, <2>1, PlainHonest DEF Open, Return, disk, Shape, PerSession
<1>4. CASE Open(s) /\ file # Absent
  <2>1. /\ phase' = [phase EXCEPT ![s] = "read"] /\ UNCHANGED <<result, call, file, content, committed>>
        /\ got' = [got EXCEPT ![s] = [inode |-> file, lines |-> 0]] /\ phase[s] = "open"
    BY <1>4 DEF Open, Go, disk
  <2>2. file \in UserFiles \cup committed
    BY <1>4 DEF HonestInv, Sources, Inodes, ToolInv, WriterInv
  <2>3. /\ phase'[s] = "read" /\ result'[s] = result[s] /\ got'[s] = [inode |-> file, lines |-> 0]
        /\ PerSession(got)'
        /\ \A t \in Sessions \ {s} : phase'[t] = phase[t] /\ got'[t] = got[t]
    <3>1. phase'[s] = "read" /\ \A t \in Sessions \ {s} : phase'[t] = phase[t]
      BY <1>1, <2>1 DEF Shape, PerSession
    <3>2. DOMAIN got = Sessions /\ got = [t \in Sessions |-> got[t]]
      BY <1>1 DEF PerSession
    <3> DEFINE opened == [inode |-> file, lines |-> 0]
    <3> HIDE DEF opened
    <3>3. got' = [got EXCEPT ![s] = opened]
      BY <2>1 DEF opened
    <3>4. got'[s] = opened /\ PerSession(got)' /\ \A t \in Sessions \ {s} : got'[t] = got[t]
      BY <3>2, <3>3 DEF PerSession
    <3>5. QED
      BY <2>1, <3>1, <3>4 DEF opened
  <2>4. call[s].tool = "read_file" /\ 0 \in 0 .. MaxBytes
    BY <1>1, <2>1 DEF ReaderInv, ReadPhases
  <2>5. PageIsComplete(s)' /\ OutputIsComplete(s)'
    BY <1>1, <2>1, <2>3 DEF ReaderInv, PageIsComplete, OutputIsComplete, Returned
  <2>6. ReaderInv(s)'
    BY <1>1, <2>1, <2>2, <2>3, <2>4, <2>5 DEF ReaderInv, CommandPhases
  <2>7. QED
    BY <2>1, <2>3, <2>6
<1>5. CASE ReadSome(s)
  <2>1. /\ phase[s] = "read" /\ got' = [got EXCEPT ![s].lines = @ + 1]
        /\ UNCHANGED <<call, file, content, committed>>
        /\ IF got[s].lines + 1 > MaxBytes THEN Return(s, "file_too_large")
           ELSE UNCHANGED <<phase, result>>
    BY <1>5 DEF ReadSome, disk
  <2>2. /\ got[s].inode \in UserFiles \cup committed /\ got[s].lines \in 0 .. MaxBytes
        /\ call[s].tool = "read_file" /\ DOMAIN got[s] = {"inode", "lines"}
    BY <1>1, <2>1 DEF ReaderInv, ReadPhases
  <2>3. /\ DOMAIN got'[s] = {"inode", "lines"}
        /\ got'[s].inode = got[s].inode /\ got'[s].lines = got[s].lines + 1 /\ PerSession(got)'
        /\ \A t \in Sessions \ {s} : got'[t] = got[t]
    <3>1. DOMAIN got = Sessions /\ got = [t \in Sessions |-> got[t]]
      BY <1>1 DEF PerSession
    <3> DEFINE longer == [got[s] EXCEPT !.lines = @ + 1]
    <3>2. DOMAIN longer = DOMAIN got[s] /\ longer.inode = got[s].inode /\ longer.lines = got[s].lines + 1
      BY <2>2
    <3>3. got' = [got EXCEPT ![s] = longer]
      BY <2>1
    <3> HIDE DEF longer
    <3>4. got'[s] = longer /\ PerSession(got)' /\ \A t \in Sessions \ {s} : got'[t] = got[t]
      BY <3>1, <3>3 DEF PerSession
    <3>5. QED
      BY <2>2, <3>2, <3>4
  <2>4. CASE got[s].lines + 1 > MaxBytes
    <3>1. /\ phase'[s] = "returned" /\ result'[s] = [kind |-> "file_too_large"]
          /\ \A t \in Sessions \ {s} : phase'[t] = phase[t] /\ result'[t] = result[t]
      BY <1>1, <2>1, <2>4 DEF Return, Shape, PerSession
    <3>2. PageIsComplete(s)' /\ OutputIsComplete(s)'
      BY <3>1 DEF PageIsComplete, OutputIsComplete, Returned
    <3>3. ReaderInv(s)'
      BY <1>1, <2>1, <3>1, <3>2 DEF ReaderInv, ReadPhases, CommandPhases
    <3>4. QED
      BY <2>1, <2>3, <3>1, <3>3
  <2>5. CASE ~(got[s].lines + 1 > MaxBytes)
    <3>1. UNCHANGED <<phase, result>> /\ got[s].lines + 1 \in 0 .. MaxBytes
      BY <1>1, <2>1, <2>2, <2>5
    <3>2. PageIsComplete(s)' /\ OutputIsComplete(s)'
      BY <1>1, <2>1, <3>1 DEF ReaderInv, PageIsComplete, OutputIsComplete, Returned
    <3>3. ReaderInv(s)'
      BY <1>1, <2>1, <2>2, <2>3, <3>1, <3>2 DEF ReaderInv
    <3>4. QED
      BY <2>1, <2>3, <3>1, <3>3
  <2>6. QED
    BY <2>4, <2>5
<1>6. CASE ReadEnds(s)
  <2> DEFINE i == got[s].inode
             n == got[s].lines
             r == [kind |-> "ok", inode |-> i, read |-> n,
                   page |-> ReadPage(SubSeq(Text(i), 1, n), call[s].page)]
  <2>1. /\ phase[s] = "read" /\ n = content[i] /\ UNCHANGED <<call, file, content, committed, got>>
        /\ phase' = [phase EXCEPT ![s] = "returned"] /\ result' = [result EXCEPT ![s] = r]
    BY <1>6 DEF ReadEnds, disk
  <2>2. i \in UserFiles \cup committed /\ n \in 0 .. MaxBytes /\ call[s].tool = "read_file"
    BY <1>1, <2>1 DEF ReaderInv, ReadPhases
  <2>3. Text(i) \in Seq(Nat) /\ n = Len(Text(i))
    BY <2>1, <2>2, CompleteText
  <2>4. SubSeq(Text(i), 1, n) = Text(i)
    <3> DEFINE lines == Text(i)
    <3> HIDE DEF lines
    <3>1. lines \in Seq(Nat) => SubSeq(lines, 1, Len(lines)) = lines
      OBVIOUS
    <3>2. QED
      BY <2>3, <3>1 DEF lines
  <2>5. {call[s].page.offset, call[s].page.limit} \subseteq Nat
    BY <1>1, <2>2, RequestAssumption
  <2> DEFINE page == ReadPage(Text(i), call[s].page)
  <2>6. /\ page.length <= MaxOutput
        /\ ~page.truncated =>
             LET asked == Asked(Text(i), Normalized(call[s].page))
             IN  /\ page.lines = Len(asked)
                 /\ (\A k \in DOMAIN asked : asked[k] <= MaxLine)
                      => page.length = Joined(Numbered(asked), Len(asked))
    BY <2>3, <2>5, ReadPageHonest
  <2>7. /\ r.kind = "ok" /\ r.inode = i /\ r.read = n /\ r.page = page
        /\ DOMAIN r = {"kind", "inode", "read", "page"}
    BY <2>4
  <2> HIDE DEF r, page
  <2>8. /\ phase'[s] = "returned" /\ result'[s] = r
        /\ \A t \in Sessions \ {s} : phase'[t] = phase[t] /\ result'[t] = result[t]
    BY <1>1, <2>1 DEF Shape, PerSession
  <2> HIDE DEF i, n
  <2> DEFINE lines == Text(i)
             asked == Asked(lines, Normalized(call[s].page))
  <2>9. lines = IF i \in UserFiles THEN UserLines[i] ELSE call[i].lines
    BY DEF Text
  <2>10. PageIsComplete(s)'
    <3>1. result'[s].inode = i /\ result'[s].read = n /\ result'[s].page = page /\ call' = call
      BY <2>1, <2>7, <2>8
    <3>2. n = Len(lines) /\ n <= MaxBytes
      BY <2>2, <2>3
    <3>3. /\ page.length <= MaxOutput
          /\ ~page.truncated =>
               /\ page.lines = Len(asked)
               /\ (\A k \in DOMAIN asked : asked[k] <= MaxLine)
                    => page.length = Joined(Numbered(asked), Len(asked))
      BY <2>6
    <3> HIDE DEF lines
    <3>4. QED
      BY <2>9, <3>1, <3>2, <3>3 DEF PageIsComplete, Text
  <2>11. OutputIsComplete(s)'
    BY <2>7, <2>8 DEF OutputIsComplete
  <2>12. ReaderInv(s)'
    BY <1>1, <2>1, <2>8, <2>10, <2>11 DEF ReaderInv, ReadPhases, CommandPhases
  <2>13. PerSession(got)'
    BY <1>1, <2>1 DEF PerSession
  <2>14. QED
    BY <2>1, <2>8, <2>12, <2>13
<1>7. QED
  BY <1>2, <1>3, <1>4, <1>5, <1>6 DEF Reading

LEMMA StepHonest == ToolInv /\ HonestInv /\ [Next]_vars => HonestInv'
<1> SUFFICES ASSUME ToolInv, HonestInv, [Next]_vars
             PROVE  HonestInv'
  OBVIOUS
\* a step of one session, given what it leaves of the rest
<1>1. ASSUME NEW s \in Sessions, UNCHANGED call, Kept(s), PerSession(got)', ReaderInv(s)',
             committed \subseteq committed',
             \A t \in Sessions \ {s} :
               phase'[t] = phase[t] /\ result'[t] = result[t] /\ got'[t] = got[t]
      PROVE  HonestInv'
  <2>1. Sources'
    BY <1>1 DEF HonestInv, Sources, Kept, Inodes
  <2>2. ASSUME NEW t \in Sessions \ {s}
        PROVE  ReaderInv(t)'
    BY <1>1, ReaderStays DEF HonestInv, Kept
  <2>3. QED
    BY <1>1, <2>1, <2>2 DEF HonestInv
\* nothing read is touched
<1>2. ASSUME UNCHANGED <<call, phase, result, got, content, committed>>,
             file' \in {file, Absent} \cup UserFiles
      PROVE  HonestInv'
  <2>1. Sources'
    BY <1>2 DEF HonestInv, Sources, PerSession, Inodes
  <2>2. ASSUME NEW t \in Sessions
        PROVE  ReaderInv(t)'
    BY <1>2, ReaderStays DEF HonestInv
  <2>3. QED
    BY <2>1, <2>2 DEF HonestInv
<1>3. ASSUME NEW s \in Sessions,
             \/ Plan(s) \/ RefuseToStart(s)
             \/ \E approved \in BOOLEAN : Answer(s, approved)
      PROVE  HonestInv'
  <2>1. Plain(s) /\ UNCHANGED <<file, content, committed>>
    BY <1>3, BeforePlain
  <2>2. \A t \in Sessions \ {s} : phase'[t] = phase[t] /\ result'[t] = result[t]
    BY <1>3 DEF Plan, RefuseToStart, Answer, Go, Return, ToolInv, Shape, PerSession
  <2>3. ReaderInv(s)'
    BY <2>1, PlainHonest DEF HonestInv
  <2>4. PerSession(got)'
    BY <2>1 DEF Plain, HonestInv, Sources, PerSession
  <2>5. QED
    BY <1>1, <2>1, <2>2, <2>3, <2>4 DEF Plain, Kept
<1>4. ASSUME NEW s \in Sessions, Writing(s)
      PROVE  HonestInv'
  <2>1. Plain(s) /\ Kept(s)
    BY <1>4, WritingPlain
  <2>2. \A t \in Sessions \ {s} : phase'[t] = phase[t] /\ result'[t] = result[t]
    BY <1>4
       DEF Writing, WriteStarts, CreateTemporary, WriteSome, Synced, Commit, StopWriting, DiskFails,
           WriteEnds, Go, Return, ToolInv, Shape, PerSession
  <2>3. ReaderInv(s)'
    BY <2>1, PlainHonest DEF HonestInv
  <2>4. PerSession(got)'
    BY <2>1 DEF Plain, HonestInv, Sources, PerSession
  <2>5. QED
    BY <1>1, <2>1, <2>2, <2>3, <2>4 DEF Plain
<1>5. ASSUME NEW s \in Sessions, Reading(s)
      PROVE  HonestInv'
  <2>1. /\ ReaderInv(s)' /\ UNCHANGED <<call, file, content, committed>>
        /\ \A t \in Sessions \ {s} :
             phase'[t] = phase[t] /\ result'[t] = result[t] /\ got'[t] = got[t]
        /\ PerSession(got)'
    BY <1>5, ReadingHonest
  <2>2. Kept(s)
    BY <2>1 DEF Kept
  <2>3. QED
    BY <1>1, <2>1, <2>2
<1>6. ASSUME NEW s \in Sessions, Commanding(s)
      PROVE  HonestInv'
  <2>1. /\ ReaderInv(s)' /\ UNCHANGED <<call, got, file, content, committed>>
        /\ \A t \in Sessions \ {s} : phase'[t] = phase[t] /\ result'[t] = result[t]
    BY <1>6, CommandingHonest
  <2>2. Kept(s) /\ PerSession(got)'
    BY <2>1 DEF Kept, HonestInv, Sources, PerSession
  <2>3. QED
    BY <1>1, <2>1, <2>2
<1>7. ASSUME NEW s \in Sessions,
             Cancel(s) \/ \E p \in {Shell, Descendant} : Exit(s, p)
      PROVE  HonestInv'
  <2>1. UNCHANGED <<call, phase, result, got, content, committed, file>>
    BY <1>7 DEF Cancel, Exit, disk
  <2>2. QED
    BY <1>2, <2>1
<1>8. ASSUME NEW to \in {Absent} \cup UserFiles, Edit(to)
      PROVE  HonestInv'
  <2>1. UNCHANGED <<call, phase, result, got, content, committed>> /\ file' = to
    BY <1>8 DEF Edit
  <2>2. QED
    BY <1>2, <2>1
<1>9. CASE UNCHANGED vars
  <2>1. UNCHANGED <<call, phase, result, got, content, committed, file>>
    BY <1>9 DEF vars
  <2>2. QED
    BY <1>2, <2>1
<1>10. QED
  BY <1>3, <1>4, <1>5, <1>6, <1>7, <1>8, <1>9 DEF Next, Work

LEMMA Honesty == Spec => []HonestInv
  BY InitHonest, StepHonest, Invariance, PTL DEF Spec

-----------------------------------------------------------------------------
(* The theorems *)

\* However many calls write one file, and whenever a turn is cancelled or the disk fails:
\* the name never carries half a file, and "ok" is the answer of exactly the writes that
\* reached it (write_file.rs:84-87).
THEOREM WritesAreWhole == Spec => []WritesAreAllOrNothing
<1>1. ToolInv => WritesAreAllOrNothing
  BY DEF ToolInv, WriterInv, WritesAreAllOrNothing
<1>2. QED
  BY <1>1, Invariance, PTL

\* A call that has returned, by whichever of its ways, leaves no entry in the table of
\* processes; a temporary file only when it could not be removed; and of the processes that
\* hold its pipes only one that has left the process group (terminal.rs:222-255,
\* process.rs:287-304, write_file.rs:132).
THEOREM CallsCleanUp == Spec => []NothingIsLeftBehind
<1>1. ToolInv => NothingIsLeftBehind
  BY DEF ToolInv, WriterInv, CommandInv, NothingIsLeftBehind, WritePhases, CommandPhases
<1>2. QED
  BY <1>1, Invariance, PTL

\* A write without `overwrite` takes the name only from nobody, whatever happened since it
\* looked at the target (write_file.rs:205).
THEOREM WritesNeverClobber == Spec => NeverClobbers
<1> DEFINE Gently(s) == file' = s /\ file # s => file = Absent \/ call[s].overwrite
<1>1. ASSUME Next, NEW s \in Sessions
      PROVE  Gently(s)
  <2>1. ASSUME NEW t \in Sessions, Work(t)
        PROVE  Gently(s)
    <3>1. CASE Commit(t)
      BY <3>1, InodeAssumption DEF Commit
    <3>2. CASE ~Commit(t)
      <4>1. UNCHANGED file
        BY <2>1, <3>2
           DEF Work, Plan, RefuseToStart, Writing, Reading, Commanding, WriteStarts,
               CreateTemporary, WriteSome, Synced, StopWriting, DiskFails, WriteEnds,
               ReadStarts, Open, ReadSome, ReadEnds, StopReading, SearchEnds, RefuseCommand,
               Spawn, SpawnFails, ShellEnded, Terminate, GraceEnds, Drained, DrainTimesOut,
               disk
      <4>2. QED
        BY <4>1
    <3>3. QED
      BY <3>1, <3>2
  <2>2. ASSUME NEW to \in {Absent} \cup UserFiles, Edit(to)
        PROVE  Gently(s)
    BY <2>2, InodeAssumption DEF Edit
  <2>3. ASSUME NEW t \in Sessions,
               \/ \E approved \in BOOLEAN : Answer(t, approved)
               \/ \E p \in {Shell, Descendant} : Exit(t, p)
               \/ Cancel(t)
        PROVE  Gently(s)
    <3>1. UNCHANGED file
      BY <2>3 DEF Answer, Exit, Cancel, disk
    <3>2. QED
      BY <3>1
  <2>4. QED
    BY <1>1, <2>1, <2>2, <2>3 DEF Next
<1>2. [Next]_vars => [\A s \in Sessions : Gently(s)]_vars
  BY <1>1
<1>3. QED
  BY <1>2, PTL DEF Spec, NeverClobbers

\* A read returns one version of the file, read whole and within the limit of bytes,
\* whatever is renamed over it meanwhile.  What is shown fits its limit, and unless it is
\* marked as cut no line that was asked for and no character of a command's output is
\* missing, but for the end of a line longer than MaxLine, which is cut without a mark
\* (read_file.rs:102-170, 246-264, terminal.rs:232-262).
THEOREM AnswersAreComplete == Spec => []NothingVanishes
<1>1. HonestInv => NothingVanishes
  BY DEF HonestInv, ReaderInv, NothingVanishes
<1>2. QED
  BY <1>1, Honesty, PTL
=============================================================================
